------------------------------- MODULE Relay -------------------------------
(***************************************************************************)
(* The transactional outbox: BulkInsertWithJobs commits businesses and     *)
(* their follow-up jobs in one Postgres transaction, and any number of     *)
(* relays (one per process started with --worker) claim the unpublished    *)
(* rows under row locks, push them onto the Redis list and mark them.      *)
(*                                                                         *)
(* An entry of job_outbox is named by its id; the business the entry       *)
(* belongs to has the same name.  Postgres and Redis are external: a row   *)
(* lock is held until its transaction ends, a connection may die (which    *)
(* ends its transaction), a reply may be lost after the server acted.      *)
(* Every such fault spends one unit of the budget MaxFaults; Redis outages *)
(* are not counted, they may come and go for ever.                         *)
(***************************************************************************)
EXTENDS Integers, FiniteSets

CONSTANTS
    Entry,      \* ids of job_outbox rows, a BIGSERIAL
    Garbled,    \* entries whose payload json.Unmarshal rejects
    Producer,   \* collection jobs that may be inside BulkInsertWithJobs
    Relayer,    \* processes running Relay.Start
    BatchSize,  \* Relay.BatchSize, 100 in production
    MaxFaults   \* bound on crashes, lost connections and lost replies

ASSUME EntryAssumption == Entry \subseteq Nat /\ Garbled \subseteq Entry
ASSUME BoundAssumption == BatchSize \in Nat \ {0} /\ MaxFaults \in Nat

VARIABLES
    biz,       \* businesses that are committed
    row,       \* per id, the committed job_outbox row
    attempts,  \* the attempts column
    upserted,  \* per producer, businesses its open transaction has written
    enqueued,  \* per producer, outbox rows its open transaction has written
    sent,      \* per id, copies LPushed onto the Redis list
    redisUp,   \* Redis answers
    pc,        \* per relay, where drain stands
    lock,      \* per relay, the rows its open claim transaction has locked
    todo,      \* per relay, the entries of the batch still to publish
    ids,       \* per relay, drain's ids: what it will mark published
    faults     \* faults that have happened

tableVars == <<biz, row, attempts>>
txVars == <<upserted, enqueued>>
relayVars == <<pc, lock, todo, ids>>
vars == <<biz, row, attempts, upserted, enqueued, sent, redisUp,
          pc, lock, todo, ids, faults>>

RowState == {"none", "pending", "published", "deleted"}

TypeOK ==
    /\ biz \subseteq Entry
    /\ row \in [Entry -> RowState]
    /\ attempts \in [Entry -> Nat]
    /\ upserted \in [Producer -> SUBSET Entry]
    /\ enqueued \in [Producer -> SUBSET Entry]
    /\ sent \in [Entry -> Nat]
    /\ redisUp \in BOOLEAN
    /\ pc \in [Relayer -> {"idle", "publish", "record", "down"}]
    /\ lock \in [Relayer -> SUBSET Entry]
    /\ todo \in [Relayer -> SUBSET Entry]
    /\ ids \in [Relayer -> SUBSET Entry]
    /\ faults \in 0 .. MaxFaults

Init ==
    /\ biz = {}
    /\ row = [e \in Entry |-> "none"]
    /\ attempts = [e \in Entry |-> 0]
    /\ upserted = [p \in Producer |-> {}]
    /\ enqueued = [p \in Producer |-> {}]
    /\ sent = [e \in Entry |-> 0]
    /\ redisUp = TRUE
    /\ pc = [r \in Relayer |-> "idle"]
    /\ lock = [r \in Relayer |-> {}]
    /\ todo = [r \in Relayer |-> {}]
    /\ ids = [r \in Relayer |-> {}]
    /\ faults = 0

Fault ==
    /\ faults < MaxFaults
    /\ faults' = faults + 1

-----------------------------------------------------------------------------
(* BulkInsertWithJobs: one transaction upserts the batch, writes its jobs   *)
(* and commits.  Nothing it wrote is visible to a relay before the commit.  *)

\* The upserts; a job gets an id nobody else was given.
UpsertBusinesses(p) ==
    /\ upserted[p] = {}
    /\ \E S \in SUBSET Entry :
          /\ S # {}
          /\ \A e \in S : row[e] = "none"
          /\ \A q \in Producer : S \intersect upserted[q] = {}
          /\ upserted' = [upserted EXCEPT ![p] = S]
    /\ UNCHANGED <<tableVars, enqueued, sent, redisUp, relayVars, faults>>

\* Mutant: the jobs are inserted through the pool, outside the transaction.
EnqueueThroughPool(p) ==
    /\ upserted[p] # {} /\ enqueued[p] = {}
    /\ enqueued' = [enqueued EXCEPT ![p] = upserted[p]]
    /\ row' = [e \in Entry |-> IF e \in upserted[p] THEN "pending" ELSE row[e]]
    /\ UNCHANGED <<biz, attempts, upserted, sent, redisUp, relayVars, faults>>

EnqueueTx(p) ==
    /\ upserted[p] # {} /\ enqueued[p] = {}
    /\ enqueued' = [enqueued EXCEPT ![p] = upserted[p]]
    /\ UNCHANGED <<tableVars, upserted, sent, redisUp, relayVars, faults>>

EndBatch(p) ==
    /\ upserted' = [upserted EXCEPT ![p] = {}]
    /\ enqueued' = [enqueued EXCEPT ![p] = {}]

CommitBatch(p) ==
    /\ enqueued[p] # {}
    /\ biz' = biz \union upserted[p]
    /\ row' = [e \in Entry |-> IF e \in enqueued[p] THEN "pending" ELSE row[e]]
    /\ EndBatch(p)
    /\ UNCHANGED <<attempts, sent, redisUp, relayVars, faults>>

\* An error, a crash or the deferred Rollback: the transaction leaves nothing.
AbortBatch(p) ==
    /\ upserted[p] # {}
    /\ EndBatch(p)
    /\ UNCHANGED <<tableVars, sent, redisUp, relayVars, faults>>

-----------------------------------------------------------------------------
(* Relay.drain, one pass per tick.                                          *)

Pending == {e \in Entry : row[e] = "pending"}

\* Mutant: FOR UPDATE SKIP LOCKED is dropped from the query.
AllPending(r) == Pending

\* The rows SKIP LOCKED lets this relay see.
Claimable(r) == {e \in Pending : \A s \in Relayer : e \notin lock[s]}

\* ORDER BY id LIMIT BatchSize.
Batch(S) == {e \in S : Cardinality({f \in S : f < e}) < BatchSize}

\* Claim opens the transaction; an empty result is rolled back at once.
Claim(r) ==
    /\ pc[r] = "idle"
    /\ Claimable(r) # {}
    /\ pc' = [pc EXCEPT ![r] = "publish"]
    /\ lock' = [lock EXCEPT ![r] = Batch(Claimable(r))]
    /\ todo' = [todo EXCEPT ![r] = Batch(Claimable(r))]
    /\ UNCHANGED <<tableVars, txVars, sent, redisUp, ids, faults>>

IsNext(r, e) == e \in todo[r] /\ \A f \in todo[r] : e <= f

\* Mutant: an early return that forgets the deferred Rollback.
ReturnHoldingLocks(r) ==
    /\ pc' = [pc EXCEPT ![r] = "idle"]
    /\ todo' = [todo EXCEPT ![r] = {}]
    /\ ids' = [ids EXCEPT ![r] = {}]
    /\ UNCHANGED lock

\* drain returns: the deferred Rollback (a no-op after Commit) ends the claim
\* transaction, which is what frees its row locks.
Return(r) ==
    /\ pc' = [pc EXCEPT ![r] = "idle"]
    /\ todo' = [todo EXCEPT ![r] = {}]
    /\ ids' = [ids EXCEPT ![r] = {}]
    /\ lock' = [lock EXCEPT ![r] = {}]

\* A payload that does not decode is retired without being pushed.
DropGarbled(r) ==
    /\ pc[r] = "publish"
    /\ \E e \in Garbled :
          /\ IsNext(r, e)
          /\ todo' = [todo EXCEPT ![r] = @ \ {e}]
          /\ ids' = [ids EXCEPT ![r] = @ \union {e}]
    /\ UNCHANGED <<tableVars, txVars, sent, redisUp, pc, lock, faults>>

Publish(r) ==
    /\ pc[r] = "publish"
    /\ redisUp
    /\ \E e \in Entry \ Garbled :
          /\ IsNext(r, e)
          /\ sent' = [sent EXCEPT ![e] = @ + 1]
          /\ todo' = [todo EXCEPT ![r] = @ \ {e}]
          /\ ids' = [ids EXCEPT ![r] = @ \union {e}]
    /\ UNCHANGED <<tableVars, txVars, redisUp, pc, lock, faults>>

\* Mutant: the break leaves the rest of the batch in the list to be marked.
MarkWholeBatch(r) ==
    /\ todo' = [todo EXCEPT ![r] = {}]
    /\ IF ids[r] # {}
       THEN /\ ids' = [ids EXCEPT ![r] = @ \union todo[r]]
            /\ UNCHANGED pc
       ELSE /\ pc' = [pc EXCEPT ![r] = "record"]
            /\ UNCHANGED ids

\* What drain does when Enqueue returns an error: break and mark what it has
\* already published, or, with nothing to mark, record the failure on the
\* entry at hand.
PublishError(r) ==
    /\ IF ids[r] # {}
       THEN todo' = [todo EXCEPT ![r] = {}] /\ UNCHANGED pc
       ELSE pc' = [pc EXCEPT ![r] = "record"] /\ UNCHANGED todo
    /\ UNCHANGED ids

PublishFails(r) ==
    /\ pc[r] = "publish"
    /\ ~redisUp
    /\ \E e \in Entry \ Garbled : IsNext(r, e)
    /\ PublishError(r)
    /\ UNCHANGED <<tableVars, txVars, sent, redisUp, lock, faults>>

\* Redis ran the LPush, and the connection died before it said so.
PublishReplyLost(r) ==
    /\ pc[r] = "publish"
    /\ redisUp
    /\ Fault
    /\ \E e \in Entry \ Garbled :
          IsNext(r, e) /\ sent' = [sent EXCEPT ![e] = @ + 1]
    /\ PublishError(r)
    /\ UNCHANGED <<tableVars, txVars, redisUp, lock>>

\* RecordFailure runs on a connection of its own (r.pool), so its UPDATE waits
\* for every lock on the row -- the claim transaction of this very drain
\* included.  Nothing ends that wait but the claim's connection dying.
RecordFailure(r) ==
    /\ pc[r] = "record"
    /\ \E e \in Entry :
          /\ IsNext(r, e)
          /\ \A s \in Relayer : e \notin lock[s]
          /\ attempts' = IF row[e] \in {"pending", "published"}
                         THEN [attempts EXCEPT ![e] = @ + 1] ELSE attempts
    /\ Return(r)
    /\ UNCHANGED <<biz, row, txVars, sent, redisUp, faults>>

Published(S) == [e \in Entry |-> IF e \in S THEN "published" ELSE row[e]]

\* MarkPublished inside the claim transaction, then Commit.
MarkAndCommit(r) ==
    /\ pc[r] = "publish" /\ todo[r] = {}
    /\ lock[r] # {}
    /\ row' = Published(ids[r])
    /\ Return(r)
    /\ UNCHANGED <<biz, attempts, txVars, sent, redisUp, faults>>

\* Commit reports an error: it may or may not have taken effect.
CommitFails(r) ==
    /\ pc[r] = "publish" /\ todo[r] = {}
    /\ lock[r] # {}
    /\ Fault
    /\ row' \in {row, Published(ids[r])}
    /\ Return(r)
    /\ UNCHANGED <<biz, attempts, txVars, sent, redisUp>>

\* The connection of the claim is gone: MarkPublished fails.
MarkFails(r) ==
    /\ pc[r] = "publish" /\ todo[r] = {}
    /\ lock[r] = {}
    /\ Return(r)
    /\ UNCHANGED <<tableVars, txVars, sent, redisUp, faults>>

\* Mutant: the retention window is counted from created_at.
PurgeOld(r) ==
    /\ pc[r] = "idle"
    /\ \E S \in SUBSET {e \in Entry : row[e] \in {"pending", "published"}} :
          /\ S # {}
          /\ row' = [e \in Entry |-> IF e \in S THEN "deleted" ELSE row[e]]
    /\ UNCHANGED <<biz, attempts, txVars, sent, redisUp, relayVars, faults>>

\* The hourly sweep; which published rows are a day old is left open.
Purge(r) ==
    /\ pc[r] = "idle"
    /\ \E S \in SUBSET {e \in Entry : row[e] = "published"} :
          /\ S # {}
          /\ row' = [e \in Entry |-> IF e \in S THEN "deleted" ELSE row[e]]
    /\ UNCHANGED <<biz, attempts, txVars, sent, redisUp, relayVars, faults>>

-----------------------------------------------------------------------------
(* What the surroundings do.                                                *)

\* The claim's connection dies: Postgres rolls the transaction back, and the
\* relay finds out only at its next statement on it.
LoseConnection(r) ==
    /\ lock[r] # {}
    /\ Fault
    /\ lock' = [lock EXCEPT ![r] = {}]
    /\ UNCHANGED <<tableVars, txVars, sent, redisUp, pc, todo, ids>>

\* A crash, or ctx cancelled: every ctx-bound call of drain fails and Start
\* returns.  Either way the transaction is rolled back.
Halt(r) ==
    /\ pc[r] # "down"
    /\ Fault
    /\ pc' = [pc EXCEPT ![r] = "down"]
    /\ lock' = [lock EXCEPT ![r] = {}]
    /\ todo' = [todo EXCEPT ![r] = {}]
    /\ ids' = [ids EXCEPT ![r] = {}]
    /\ UNCHANGED <<tableVars, txVars, sent, redisUp>>

Restart(r) ==
    /\ pc[r] = "down"
    /\ pc' = [pc EXCEPT ![r] = "idle"]
    /\ UNCHANGED <<tableVars, txVars, sent, redisUp, lock, todo, ids, faults>>

RedisFails ==
    /\ redisUp
    /\ redisUp' = FALSE
    /\ UNCHANGED <<tableVars, txVars, sent, relayVars, faults>>

RedisRecovers ==
    /\ ~redisUp
    /\ redisUp' = TRUE
    /\ UNCHANGED <<tableVars, txVars, sent, relayVars, faults>>

-----------------------------------------------------------------------------
\* The steps of drain that need nobody's permission.
Drain(r) ==
    \/ Claim(r)
    \/ DropGarbled(r)
    \/ Publish(r)
    \/ PublishFails(r)
    \/ RecordFailure(r)
    \/ MarkAndCommit(r)
    \/ MarkFails(r)

Next ==
    \/ \E p \in Producer :
          UpsertBusinesses(p) \/ EnqueueTx(p) \/ CommitBatch(p) \/ AbortBatch(p)
    \/ \E r \in Relayer :
          \/ Drain(r) \/ PublishReplyLost(r) \/ CommitFails(r) \/ Purge(r)
          \/ LoseConnection(r) \/ Halt(r) \/ Restart(r)
    \/ RedisFails
    \/ RedisRecovers

Spec == Init /\ [][Next]_vars

\* The ticker drives drain, and the service manager restarts the process.
FairSpec ==
    /\ Spec
    /\ \A r \in Relayer : WF_vars(Drain(r)) /\ WF_vars(Restart(r))

-----------------------------------------------------------------------------
\* Never zero times: a row that is marked, or purged, reached Redis, whatever
\* crashed or was lost between the LPush, the mark and the sweep.
NeverZero ==
    \A e \in Entry \ Garbled : row[e] \in {"published", "deleted"} => sent[e] > 0

\* Either both land or neither does: a committed business has its outbox row,
\* a row has its business, and no job reaches Redis ahead of its business.
BothOrNeither ==
    /\ biz = {e \in Entry : row[e] # "none"}
    /\ \A e \in Entry : sent[e] > 0 => e \in biz

\* What a claim guarantees while its transaction is open: no other relay holds
\* its rows, they are still pending, they are exactly what drain has left to
\* publish or collected to mark (or gave up on, after a break), and whatever it
\* collected to mark has reached Redis.
ClaimDiscipline ==
    \A r \in Relayer :
       /\ \A s \in Relayer \ {r} : lock[r] \intersect lock[s] = {}
       /\ lock[r] \subseteq Pending
       /\ lock[r] # {} => todo[r] \union ids[r] \subseteq lock[r]
       /\ \A e \in ids[r] \ Garbled : sent[e] > 0

\* Between two drains, and after a crash, a relay holds nothing: no row lock
\* survives the transaction that took it.  What an open bulk insert wrote is
\* invisible and belongs to it alone, and a relay only ever handles rows that
\* were committed.
Bookkeeping ==
    /\ \A r \in Relayer :
          /\ pc[r] \in {"idle", "down"} =>
                lock[r] = {} /\ todo[r] = {} /\ ids[r] = {}
          /\ \A e \in todo[r] \union ids[r] : row[e] # "none"
    /\ \A p \in Producer :
          /\ enqueued[p] \in {{}, upserted[p]}
          /\ \A e \in upserted[p] : row[e] = "none"
          /\ \A q \in Producer \ {p} : upserted[p] \intersect upserted[q] = {}

\* The inductive invariant behind the safety theorems.
RelayInv ==
    /\ TypeOK
    /\ NeverZero
    /\ BothOrNeither
    /\ ClaimDiscipline
    /\ Bookkeeping

\* A job is duplicated only by a fault, and a fault duplicates it once: without
\* crashes and lost connections SKIP LOCKED makes the hand-off exactly-once,
\* however many relays run and however often Redis goes away.
DuplicatesNeedAFault == \A e \in Entry : sent[e] <= 1 + faults

\* The abstract contract, with published and purged rows as the settled ones.
Contract == INSTANCE Handoff
    WITH owed <- Pending,
         settled <- {e \in Entry : row[e] \in {"published", "deleted"}},
         delivered <- sent

AtLeastOnce == Contract!Spec

-----------------------------------------------------------------------------
\* A relay whose RecordFailure waits for a lock of its own claim.
SelfBlocked(r) == pc[r] = "record" /\ \E e \in lock[r] : IsNext(r, e)

\* A relay that is blocked for good: by itself, or (its own claim having been
\* lost) by another one that is.
Wedged(r) ==
    /\ pc[r] = "record"
    /\ \E s \in Relayer : SelfBlocked(s) /\ \E e \in lock[s] : IsNext(r, e)

\* Once Redis stays up, a pending row is published -- unless a wedged relay
\* holds it, or every relay is wedged.  The claim always ends otherwise: no
\* error path of drain keeps its locks.
DrainsUnlessWedged ==
    <>[]redisUp =>
        \A e \in Entry :
            row[e] = "pending" ~>
                \/ row[e] # "pending"
                \/ \E r \in Relayer : Wedged(r) /\ e \in lock[r]
                \/ \A r \in Relayer : Wedged(r)

\* relay.go:112 says of the failed push "Leave the rest unpublished and let the
\* next tick retry": after an outage every pending row is published in the end.
OutageHeals ==
    <>[]redisUp => \A e \in Entry : row[e] = "pending" ~> row[e] # "pending"
=============================================================================
