---------------------------- MODULE RelayProofs ----------------------------
(***************************************************************************)
(* Safety of the outbox hand-off for any set of ids, producers and relays, *)
(* any batch size and any number of faults.                                *)
(***************************************************************************)
EXTENDS Relay, FiniteSetTheorems, TLAPS

\* Type correctness: the variables keep their types.
THEOREM TypeCorrect == Spec => []TypeOK
<1> USE DEF TypeOK, RowState
<1>1. Init => TypeOK
  BY BoundAssumption DEF Init
<1>2. TypeOK /\ [Next]_vars => TypeOK'
  <2> SUFFICES ASSUME TypeOK, [Next]_vars PROVE TypeOK'
    OBVIOUS
  <2> USE DEF tableVars, txVars, relayVars, EndBatch, Fault, Return, PublishError
  <2>1. ASSUME NEW p \in Producer, UpsertBusinesses(p) PROVE TypeOK'
    BY <2>1 DEF UpsertBusinesses
  <2>2. ASSUME NEW p \in Producer, EnqueueTx(p) PROVE TypeOK'
    BY <2>2 DEF EnqueueTx
  <2>3. ASSUME NEW p \in Producer, CommitBatch(p) PROVE TypeOK'
    BY <2>3 DEF CommitBatch
  <2>4. ASSUME NEW p \in Producer, AbortBatch(p) PROVE TypeOK'
    BY <2>4 DEF AbortBatch
  <2>5. ASSUME NEW r \in Relayer, Claim(r) PROVE TypeOK'
    BY <2>5 DEF Claim, Batch, Claimable, Pending
  <2>6. ASSUME NEW r \in Relayer, DropGarbled(r) PROVE TypeOK'
    BY <2>6 DEF DropGarbled, IsNext
  <2>7. ASSUME NEW r \in Relayer, Publish(r) PROVE TypeOK'
    BY <2>7 DEF Publish, IsNext
  <2>8. ASSUME NEW r \in Relayer, PublishFails(r) PROVE TypeOK'
    BY <2>8 DEF PublishFails
  <2>9. ASSUME NEW r \in Relayer, PublishReplyLost(r) PROVE TypeOK'
    BY <2>9, BoundAssumption DEF PublishReplyLost
  <2>10. ASSUME NEW r \in Relayer, RecordFailure(r) PROVE TypeOK'
    BY <2>10 DEF RecordFailure
  <2>11. ASSUME NEW r \in Relayer, MarkAndCommit(r) PROVE TypeOK'
    BY <2>11 DEF MarkAndCommit, Published
  <2>12. ASSUME NEW r \in Relayer, CommitFails(r) PROVE TypeOK'
    BY <2>12, BoundAssumption DEF CommitFails, Published
  <2>13. ASSUME NEW r \in Relayer, MarkFails(r) PROVE TypeOK'
    BY <2>13 DEF MarkFails
  <2>14. ASSUME NEW r \in Relayer, Purge(r) PROVE TypeOK'
    BY <2>14 DEF Purge
  <2>15. ASSUME NEW r \in Relayer, LoseConnection(r) PROVE TypeOK'
    BY <2>15, BoundAssumption DEF LoseConnection
  <2>16. ASSUME NEW r \in Relayer, Halt(r) PROVE TypeOK'
    BY <2>16, BoundAssumption DEF Halt
  <2>17. ASSUME NEW r \in Relayer, Restart(r) PROVE TypeOK'
    BY <2>17 DEF Restart
  <2>18. CASE RedisFails
    BY <2>18 DEF RedisFails
  <2>19. CASE RedisRecovers
    BY <2>19 DEF RedisRecovers
  <2>20. CASE UNCHANGED vars
    BY <2>20 DEF vars
  <2>21. QED
    BY <2>1, <2>2, <2>3, <2>4, <2>5, <2>6, <2>7, <2>8, <2>9, <2>10, <2>11, <2>12,
       <2>13, <2>14, <2>15, <2>16, <2>17, <2>18, <2>19, <2>20 DEF Next, Drain
<1>3. QED
  BY <1>1, <1>2, PTL DEF Spec

\* A batch is taken from the rows the query saw.
LEMMA BatchSubset == ASSUME NEW S PROVE Batch(S) \subseteq S
BY DEF Batch

\* The empty tables, and relays that hold nothing, satisfy the invariant.
LEMMA InitInv == Init => RelayInv
BY BoundAssumption DEF Init, RelayInv, TypeOK, RowState, NeverZero, BothOrNeither,
   ClaimDiscipline, Bookkeeping, Pending

\* Every action of the producers, the relays and their surroundings keeps it.
LEMMA StepInv == TypeOK /\ TypeOK' /\ RelayInv /\ [Next]_vars => RelayInv'
<1> SUFFICES ASSUME TypeOK, TypeOK', NeverZero, BothOrNeither, ClaimDiscipline,
                    Bookkeeping, [Next]_vars
             PROVE  NeverZero' /\ BothOrNeither' /\ ClaimDiscipline' /\ Bookkeeping'
  BY DEF RelayInv
<1> USE EntryAssumption DEF tableVars, txVars, relayVars, Fault
<1> USE DEF TypeOK, RowState, NeverZero, BothOrNeither, ClaimDiscipline, Bookkeeping,
            Pending
<1> DEFINE Goal == NeverZero' /\ BothOrNeither' /\ ClaimDiscipline' /\ Bookkeeping'
<1>1. ASSUME NEW p \in Producer, UpsertBusinesses(p) PROVE Goal
  BY <1>1 DEF UpsertBusinesses
<1>2. ASSUME NEW p \in Producer, EnqueueTx(p) PROVE Goal
  BY <1>2 DEF EnqueueTx
<1>3. ASSUME NEW p \in Producer, CommitBatch(p) PROVE Goal
  <2>1. enqueued[p] = upserted[p] /\ \A e \in upserted[p] : row[e] = "none"
    BY <1>3 DEF CommitBatch
  <2>2. NeverZero' /\ ClaimDiscipline'
    BY <1>3, <2>1 DEF CommitBatch, EndBatch
  <2>3. BothOrNeither'
    BY <1>3, <2>1 DEF CommitBatch, EndBatch
  <2>4. Bookkeeping'
    BY <1>3, <2>1 DEF CommitBatch, EndBatch
  <2>5. QED
    BY <2>2, <2>3, <2>4
<1>4. ASSUME NEW p \in Producer, AbortBatch(p) PROVE Goal
  BY <1>4 DEF AbortBatch, EndBatch
<1>5. ASSUME NEW r \in Relayer, Claim(r) PROVE Goal
  <2> DEFINE B == Batch(Claimable(r))
  <2>1. /\ B \subseteq Pending
        /\ \A s \in Relayer : B \intersect lock[s] = {}
    BY BatchSubset DEF Claimable
  <2> HIDE DEF B
  <2>2. /\ lock' = [lock EXCEPT ![r] = B] /\ todo' = [todo EXCEPT ![r] = B]
        /\ ids[r] = {} /\ UNCHANGED <<tableVars, txVars, sent, ids>>
        /\ pc' = [pc EXCEPT ![r] = "publish"]
    BY <1>5 DEF Claim, B
  <2>3. NeverZero' /\ BothOrNeither'
    BY <2>2
  <2>4. ClaimDiscipline'
    <3> SUFFICES ASSUME NEW t \in Relayer
                 PROVE  /\ \A s \in Relayer \ {t} : lock'[t] \intersect lock'[s] = {}
                        /\ lock'[t] \subseteq Pending'
                        /\ lock'[t] # {} => todo'[t] \union ids'[t] \subseteq lock'[t]
                        /\ \A e \in ids'[t] \ Garbled : sent'[e] > 0
      OBVIOUS
    <3>1. CASE t = r
      <4>1. lock'[r] = B /\ todo'[r] = B /\ ids'[r] = {} /\ UNCHANGED row
        BY <2>2
      <4>2. \A s \in Relayer \ {r} : lock'[s] = lock[s]
        BY <2>2
      <4>3. QED
        BY <2>1, <3>1, <4>1, <4>2
    <3>2. CASE t # r
      BY <2>1, <2>2, <3>2
    <3>3. QED
      BY <3>1, <3>2
  <2>5. Bookkeeping'
    BY <2>1, <2>2
  <2>6. QED
    BY <2>3, <2>4, <2>5
<1>6. ASSUME NEW r \in Relayer, DropGarbled(r) PROVE Goal
  BY <1>6 DEF DropGarbled, IsNext
<1>7. ASSUME NEW r \in Relayer, Publish(r) PROVE Goal
  BY <1>7 DEF Publish, IsNext
<1>8. ASSUME NEW r \in Relayer, PublishFails(r) PROVE Goal
  BY <1>8 DEF PublishFails, PublishError
<1>9. ASSUME NEW r \in Relayer, PublishReplyLost(r) PROVE Goal
  BY <1>9 DEF PublishReplyLost, PublishError, IsNext
<1>10. ASSUME NEW r \in Relayer, RecordFailure(r) PROVE Goal
  BY <1>10 DEF RecordFailure, Return
<1>11. ASSUME NEW r \in Relayer, MarkAndCommit(r) PROVE Goal
  <2>1. ids[r] \subseteq lock[r]
    BY <1>11 DEF MarkAndCommit
  <2>2. NeverZero'
    BY <1>11, <2>1 DEF MarkAndCommit, Published
  <2>3. BothOrNeither'
    BY <1>11, <2>1 DEF MarkAndCommit, Published
  <2>4. ClaimDiscipline'
    BY <1>11, <2>1 DEF MarkAndCommit, Return, Published
  <2>5. Bookkeeping'
    BY <1>11, <2>1 DEF MarkAndCommit, Return, Published
  <2>6. QED
    BY <2>2, <2>3, <2>4, <2>5
<1>12. ASSUME NEW r \in Relayer, CommitFails(r) PROVE Goal
  <2>1. CASE row' = row
    <3>1. /\ UNCHANGED <<tableVars, txVars, sent>>
          /\ pc' = [pc EXCEPT ![r] = "idle"] /\ lock' = [lock EXCEPT ![r] = {}]
          /\ todo' = [todo EXCEPT ![r] = {}] /\ ids' = [ids EXCEPT ![r] = {}]
      BY <1>12, <2>1 DEF CommitFails, Return
    <3>2. NeverZero' /\ BothOrNeither'
      BY <3>1
    <3>3. ClaimDiscipline'
      BY <3>1
    <3>4. Bookkeeping'
      BY <3>1
    <3>5. QED
      BY <3>2, <3>3, <3>4
  <2>2. CASE row' = Published(ids[r])
    <3>1. ids[r] \subseteq lock[r]
      BY <1>12 DEF CommitFails
    <3>2. NeverZero' /\ BothOrNeither'
      BY <1>12, <2>2, <3>1 DEF CommitFails, Published
    <3>3. ClaimDiscipline'
      BY <1>12, <2>2, <3>1 DEF CommitFails, Return, Published
    <3>4. Bookkeeping'
      BY <1>12, <2>2, <3>1 DEF CommitFails, Return, Published
    <3>5. QED
      BY <3>2, <3>3, <3>4
  <2>3. QED
    BY <1>12, <2>1, <2>2 DEF CommitFails
<1>13. ASSUME NEW r \in Relayer, MarkFails(r) PROVE Goal
  BY <1>13 DEF MarkFails, Return
<1>14. ASSUME NEW r \in Relayer, Purge(r) PROVE Goal
  <2> PICK S \in SUBSET {e \in Entry : row[e] = "published"} :
          row' = [e \in Entry |-> IF e \in S THEN "deleted" ELSE row[e]]
    BY <1>14 DEF Purge
  <2>1. UNCHANGED <<biz, txVars, sent, relayVars>>
    BY <1>14 DEF Purge
  <2>2. NeverZero'
    BY <2>1
  <2>3. BothOrNeither'
    <3>1. {e \in Entry : row'[e] # "none"} = {e \in Entry : row[e] # "none"}
      OBVIOUS
    <3>2. QED
      BY <2>1, <3>1
  <2>4. ClaimDiscipline'
    BY <2>1
  <2>5. Bookkeeping'
    BY <2>1
  <2>6. QED
    BY <2>2, <2>3, <2>4, <2>5
<1>15. ASSUME NEW r \in Relayer, LoseConnection(r) PROVE Goal
  BY <1>15 DEF LoseConnection
<1>16. ASSUME NEW r \in Relayer, Halt(r) PROVE Goal
  BY <1>16 DEF Halt
<1>17. ASSUME NEW r \in Relayer, Restart(r) PROVE Goal
  BY <1>17 DEF Restart
<1>18. CASE RedisFails
  BY <1>18 DEF RedisFails
<1>19. CASE RedisRecovers
  BY <1>19 DEF RedisRecovers
<1>20. CASE UNCHANGED vars
  BY <1>20 DEF vars
<1>21. QED
  BY <1>1, <1>2, <1>3, <1>4, <1>5, <1>6, <1>7, <1>8, <1>9, <1>10, <1>11, <1>12,
     <1>13, <1>14, <1>15, <1>16, <1>17, <1>18, <1>19, <1>20 DEF Next, Drain

\* The strengthened invariant holds of every reachable state.
THEOREM Invariance == Spec => []RelayInv
<1>1. RelayInv /\ TypeOK /\ TypeOK' /\ [Next]_vars => RelayInv'
  BY StepInv
<1>2. QED
  BY <1>1, InitInv, TypeCorrect, PTL DEF Spec

\* No row is ever marked or swept before its job reached Redis.
THEOREM NeverZeroTimes == Spec => []NeverZero
<1>1. RelayInv => NeverZero
  BY DEF RelayInv
<1>2. QED
  BY <1>1, Invariance, PTL

\* Businesses and their jobs land together, whatever interrupts the insert.
THEOREM BothLand == Spec => []BothOrNeither
<1>1. RelayInv => BothOrNeither
  BY DEF RelayInv
<1>2. QED
  BY <1>1, Invariance, PTL

\* The row locks of concurrent claims are disjoint, and only pushed entries
\* are collected to be marked.
THEOREM ClaimsDisciplined == Spec => []ClaimDiscipline
<1>1. RelayInv => ClaimDiscipline
  BY DEF RelayInv
<1>2. QED
  BY <1>1, Invariance, PTL

-----------------------------------------------------------------------------
(* Duplicates: what may still be pushed once more is paid for by a fault.   *)

\* The relays that lost their claim on e and have yet to push it: what they
\* push, the next claim pushes again.
Zombies(e) == {r \in Relayer : lock[r] = {} /\ e \in todo[r]}

\* The one push that is owed for e is behind it, and nobody will claim it.
Settling(e) ==
    \/ row[e] \in {"published", "deleted"}
    \/ \E h \in Relayer : e \in lock[h] \intersect ids[h]

\* Every copy, pushed or possible, is the one owed or has cost a fault.
Paid(e) ==
    /\ IsFiniteSet(Zombies(e))
    /\ sent[e] + Cardinality(Zombies(e)) <= faults + (IF Settling(e) THEN 1 ELSE 0)

\* What is collected to be marked is not pushed again, and a failure is only
\* recorded when there is nothing to mark.
Tidy ==
    \A r \in Relayer :
       /\ todo[r] \intersect ids[r] = {}
       /\ pc[r] = "record" => ids[r] = {}

CopiesInv == Tidy /\ \A e \in Entry : Paid(e)

\* A part of a finite set is finite and no larger.
LEMMA Fewer ==
    ASSUME NEW Z, IsFiniteSet(Z), NEW Y \in SUBSET Z
    PROVE  /\ IsFiniteSet(Y) /\ Cardinality(Y) <= Cardinality(Z)
           /\ Cardinality(Y) \in Nat /\ Cardinality(Z) \in Nat
BY FS_Subset, FS_CardinalityType

\* The ways a step that makes no new zombie keeps the account of an entry.
LEMMA Balance ==
    ASSUME TypeOK, TypeOK', NEW e \in Entry, Paid(e),
           Zombies(e)' \subseteq Zombies(e),
           \/ /\ sent'[e] = sent[e] /\ faults' = faults
              /\ Settling(e) => Settling(e)'
           \/ sent'[e] = sent[e] /\ faults' = faults + 1
           \/ /\ sent'[e] = sent[e] + 1 /\ faults' = faults + 1
              /\ Settling(e) => Settling(e)'
           \/ /\ sent'[e] = sent[e] + 1 /\ faults' = faults
              /\ ~Settling(e) /\ Settling(e)'
    PROVE  Paid(e)'
<1>1. /\ sent[e] \in Nat /\ faults \in Nat /\ sent'[e] \in Nat /\ faults' \in Nat
  BY BoundAssumption DEF TypeOK
<1>2. PICK Z : Z = Zombies(e)
  OBVIOUS
<1>3. PICK Y : Y = Zombies(e)'
  OBVIOUS
<1>4. IsFiniteSet(Y) /\ Cardinality(Y) <= Cardinality(Z)
      /\ Cardinality(Y) \in Nat /\ Cardinality(Z) \in Nat
  BY <1>2, <1>3, Fewer DEF Paid
<1>5. sent[e] + Cardinality(Z) <= faults + (IF Settling(e) THEN 1 ELSE 0)
  BY <1>2 DEF Paid
<1>6. sent'[e] + Cardinality(Y) <= faults' + (IF Settling(e)' THEN 1 ELSE 0)
  BY <1>1, <1>4, <1>5
<1>7. QED
  BY <1>3, <1>4, <1>6 DEF Paid

\* A step that leaves entries, claims and faults alone keeps the account.
LEMMA Balanced ==
    ASSUME TypeOK, TypeOK', CopiesInv, UNCHANGED <<sent, lock, todo, ids, faults>>,
           \A e \in Entry : row[e] \in {"published", "deleted"}
                               => row'[e] \in {"published", "deleted"}
    PROVE  \A e \in Entry : Paid(e)'
<1> TAKE e \in Entry
<1>1. Zombies(e)' \subseteq Zombies(e)
  BY DEF Zombies
<1>2. Settling(e) => Settling(e)'
  BY DEF Settling
<1>3. QED
  BY <1>1, <1>2, Balance DEF CopiesInv

LEMMA CopiesInit == Init => CopiesInv
<1> SUFFICES ASSUME Init PROVE CopiesInv
  OBVIOUS
<1>1. Tidy
  BY DEF Init, Tidy
<1>2. ASSUME NEW e \in Entry PROVE Paid(e)
  <2>1. Zombies(e) = {} /\ sent[e] = 0 /\ faults = 0
    BY DEF Init, Zombies
  <2>2. QED
    BY <2>1, FS_EmptySet DEF Paid
<1>3. QED
  BY <1>1, <1>2 DEF CopiesInv

\* A relay that still holds its claim pushes an entry nobody has settled, and
\* settles it.
LEMMA HolderSettles ==
    ASSUME TypeOK, ClaimDiscipline, Tidy, NEW r \in Relayer, NEW e \in Entry,
           e \in todo[r], lock[r] # {}, UNCHANGED lock,
           ids' = [ids EXCEPT ![r] = @ \union {e}]
    PROVE  ~Settling(e) /\ Settling(e)'
<1>1. e \in lock[r] /\ row[e] = "pending" /\ e \notin ids[r]
  BY DEF ClaimDiscipline, Pending, Tidy
<1>2. \A h \in Relayer \ {r} : e \notin lock[h]
  BY <1>1 DEF ClaimDiscipline
<1>3. ~Settling(e)
  BY <1>1, <1>2 DEF Settling
<1>4. e \in lock'[r] \intersect ids'[r]
  BY <1>1 DEF TypeOK
<1>5. QED
  BY <1>3, <1>4 DEF Settling

\* Every step keeps the account of every entry.
LEMMA CopiesStep ==
    TypeOK /\ TypeOK' /\ RelayInv /\ CopiesInv /\ [Next]_vars => CopiesInv'
<1> SUFFICES ASSUME TypeOK, TypeOK', ClaimDiscipline, Bookkeeping, CopiesInv, [Next]_vars
             PROVE  Tidy' /\ \A e \in Entry : Paid(e)'
  BY DEF RelayInv, CopiesInv
<1> USE DEF tableVars, txVars, relayVars, Fault
<1>0. Tidy /\ \A e \in Entry : Paid(e)
  BY DEF CopiesInv
<1> DEFINE Goal == Tidy' /\ \A e \in Entry : Paid(e)'
<1>1. ASSUME UNCHANGED <<sent, lock, todo, ids, faults>>,
             \A r \in Relayer : pc'[r] = "record" => pc[r] = "record",
             \A e \in Entry : row[e] \in {"published", "deleted"}
                                 => row'[e] \in {"published", "deleted"}
      PROVE  Goal
  BY <1>0, <1>1, Balanced DEF Tidy
<1>2. ASSUME NEW p \in Producer, UpsertBusinesses(p) \/ EnqueueTx(p) \/ AbortBatch(p)
      PROVE  Goal
  BY <1>1, <1>2 DEF UpsertBusinesses, EnqueueTx, AbortBatch, EndBatch
<1>3. ASSUME NEW p \in Producer, CommitBatch(p) PROVE Goal
  <2>1. \A e \in enqueued[p] : row[e] = "none"
    BY <1>3 DEF CommitBatch, Bookkeeping
  <2>2. \A e \in Entry : row[e] \in {"published", "deleted"}
                           => row'[e] \in {"published", "deleted"}
    BY <1>3, <2>1 DEF CommitBatch
  <2>3. UNCHANGED <<sent, lock, todo, ids, faults, pc>>
    BY <1>3 DEF CommitBatch
  <2>4. QED
    BY <1>1, <2>2, <2>3
<1>4. ASSUME NEW r \in Relayer, Claim(r) PROVE Goal
  <2>1. lock[r] = {} /\ todo[r] = {} /\ ids[r] = {}
    BY <1>4 DEF Claim, Bookkeeping
  <2>2. PICK B : lock' = [lock EXCEPT ![r] = B] /\ todo' = [todo EXCEPT ![r] = B]
    BY <1>4 DEF Claim
  <2>3. UNCHANGED <<row, sent, ids, faults>> /\ pc' = [pc EXCEPT ![r] = "publish"]
    BY <1>4 DEF Claim
  <2>4. Tidy'
    BY <1>0, <2>1, <2>2, <2>3 DEF Tidy, TypeOK
  <2>5. ASSUME NEW e \in Entry PROVE Paid(e)'
    <3>1. Zombies(e)' \subseteq Zombies(e)
      BY <2>2 DEF Zombies, TypeOK
    <3>2. Settling(e) => Settling(e)'
      BY <2>1, <2>2, <2>3 DEF Settling, TypeOK
    <3>3. QED
      BY <1>0, <2>3, <3>1, <3>2, Balance
  <2>6. QED
    BY <2>4, <2>5
<1>5. ASSUME NEW r \in Relayer, DropGarbled(r) PROVE Goal
  <2>1. PICK g \in Entry : /\ g \in todo[r]
                           /\ todo' = [todo EXCEPT ![r] = @ \ {g}]
                           /\ ids' = [ids EXCEPT ![r] = @ \union {g}]
    BY <1>5, EntryAssumption DEF DropGarbled, IsNext
  <2>2. UNCHANGED <<row, sent, lock, faults, pc>> /\ pc[r] = "publish"
    BY <1>5 DEF DropGarbled
  <2>3. Tidy'
    BY <1>0, <2>1, <2>2 DEF Tidy, TypeOK
  <2>4. ASSUME NEW e \in Entry PROVE Paid(e)'
    <3>1. Zombies(e)' \subseteq Zombies(e)
      BY <2>1, <2>2 DEF Zombies, TypeOK
    <3>2. Settling(e) => Settling(e)'
      BY <2>1, <2>2 DEF Settling, TypeOK
    <3>3. QED
      BY <1>0, <2>2, <3>1, <3>2, Balance
  <2>5. QED
    BY <2>3, <2>4
<1>6. ASSUME NEW r \in Relayer, Publish(r) PROVE Goal
  <2>1. PICK g \in Entry : /\ g \in todo[r]
                           /\ sent' = [sent EXCEPT ![g] = @ + 1]
                           /\ todo' = [todo EXCEPT ![r] = @ \ {g}]
                           /\ ids' = [ids EXCEPT ![r] = @ \union {g}]
    BY <1>6 DEF Publish, IsNext
  <2>2. UNCHANGED <<row, lock, faults, pc>> /\ pc[r] = "publish"
    BY <1>6 DEF Publish
  <2>3. Tidy'
    BY <1>0, <2>1, <2>2 DEF Tidy, TypeOK
  <2>4. ASSUME NEW e \in Entry PROVE Paid(e)'
    <3>1. Zombies(e)' \subseteq Zombies(e)
      BY <2>1, <2>2 DEF Zombies, TypeOK
    <3>2. Settling(e) => Settling(e)'
      BY <2>1, <2>2 DEF Settling, TypeOK
    <3>3. CASE e # g
      <4>1. sent'[e] = sent[e]
        BY <2>1, <3>3 DEF TypeOK
      <4>2. QED
        BY <1>0, <2>2, <3>1, <3>2, <4>1, Balance
    <3>4. CASE e = g /\ lock[r] # {}
      <4>1. ~Settling(e) /\ Settling(e)'
        BY <1>0, <2>1, <2>2, <3>4, HolderSettles
      <4>2. sent'[e] = sent[e] + 1
        BY <2>1, <3>4 DEF TypeOK
      <4>3. QED
        BY <1>0, <2>2, <3>1, <4>1, <4>2, Balance
    <3>5. CASE e = g /\ lock[r] = {}
      <4>1. PICK Z : Z = Zombies(e)
        OBVIOUS
      <4>2. PICK Y : Y = Zombies(e)'
        OBVIOUS
      <4>3. r \in Z /\ Y \subseteq Z \ {r}
        BY <2>1, <2>2, <3>5, <4>1, <4>2 DEF Zombies, TypeOK
      <4>4. /\ IsFiniteSet(Z) /\ Cardinality(Z) \in Nat
            /\ IsFiniteSet(Z \ {r}) /\ Cardinality(Z \ {r}) = Cardinality(Z) - 1
        BY <1>0, <4>1, <4>3, FS_RemoveElement, FS_CardinalityType DEF Paid
      <4>5. /\ IsFiniteSet(Y) /\ Cardinality(Y) <= Cardinality(Z) - 1
            /\ Cardinality(Y) \in Nat
        BY <4>3, <4>4, Fewer
      <4>6. sent[e] + Cardinality(Z) <= faults + (IF Settling(e) THEN 1 ELSE 0)
        BY <1>0, <4>1 DEF Paid
      <4>7. sent[e] \in Nat /\ faults \in Nat /\ sent'[e] = sent[e] + 1
        BY <2>1, <3>5, BoundAssumption DEF TypeOK
      <4>8. sent'[e] + Cardinality(Y) <= faults' + (IF Settling(e)' THEN 1 ELSE 0)
        BY <2>2, <3>2, <4>4, <4>5, <4>6, <4>7
      <4>9. QED
        BY <4>2, <4>5, <4>8 DEF Paid
    <3>6. QED
      BY <3>3, <3>4, <3>5
  <2>5. QED
    BY <2>3, <2>4
<1>7. ASSUME NEW r \in Relayer, PublishFails(r) \/ PublishReplyLost(r) PROVE Goal
  <2>1. /\ UNCHANGED <<row, lock, ids>> /\ pc[r] = "publish"
        /\ \/ ids[r] # {} /\ todo' = [todo EXCEPT ![r] = {}] /\ UNCHANGED pc
           \/ ids[r] = {} /\ UNCHANGED todo /\ pc' = [pc EXCEPT ![r] = "record"]
    BY <1>7 DEF PublishFails, PublishReplyLost, PublishError
  <2>2. Tidy'
    BY <1>0, <2>1 DEF Tidy, TypeOK
  <2>3. ASSUME NEW e \in Entry PROVE Paid(e)'
    <3>1. Zombies(e)' \subseteq Zombies(e)
      BY <2>1 DEF Zombies, TypeOK
    <3>2. Settling(e) => Settling(e)'
      BY <2>1 DEF Settling
    <3>3. \/ sent'[e] = sent[e] /\ faults' \in {faults, faults + 1}
          \/ sent'[e] = sent[e] + 1 /\ faults' = faults + 1
      BY <1>7 DEF PublishFails, PublishReplyLost, TypeOK
    <3>4. QED
      BY <1>0, <3>1, <3>2, <3>3, Balance
  <2>4. QED
    BY <2>2, <2>3
<1>8. ASSUME NEW r \in Relayer, RecordFailure(r) \/ MarkFails(r) PROVE Goal
  <2>1. UNCHANGED <<row, sent, faults>> /\ Return(r)
    BY <1>8 DEF RecordFailure, MarkFails
  <2>2. lock[r] = {} \/ ids[r] = {}
    BY <1>0, <1>8 DEF RecordFailure, MarkFails, Tidy
  <2>3. Tidy'
    BY <1>0, <2>1 DEF Tidy, TypeOK, Return
  <2>4. ASSUME NEW e \in Entry PROVE Paid(e)'
    <3>1. Zombies(e)' \subseteq Zombies(e)
      BY <2>1 DEF Zombies, TypeOK, Return
    <3>2. Settling(e) => Settling(e)'
      BY <2>1, <2>2 DEF Settling, TypeOK, Return
    <3>3. QED
      BY <1>0, <2>1, <3>1, <3>2, Balance
  <2>5. QED
    BY <2>3, <2>4
<1>9. ASSUME NEW r \in Relayer, MarkAndCommit(r) PROVE Goal
  <2>1. UNCHANGED <<sent, faults>> /\ Return(r) /\ row' = Published(ids[r])
    BY <1>9 DEF MarkAndCommit
  <2>2. Tidy'
    BY <1>0, <2>1 DEF Tidy, TypeOK, Return
  <2>3. ASSUME NEW e \in Entry PROVE Paid(e)'
    <3>1. Zombies(e)' \subseteq Zombies(e)
      BY <2>1 DEF Zombies, TypeOK, Return
    <3>2. CASE e \in ids[r]
      BY <1>0, <2>1, <3>1, <3>2, Balance DEF Settling, Published
    <3>3. CASE e \notin ids[r]
      <4>1. Settling(e) => Settling(e)'
        BY <2>1, <3>3 DEF Settling, TypeOK, Return, Published
      <4>2. QED
        BY <1>0, <2>1, <3>1, <4>1, Balance
    <3>4. QED
      BY <3>2, <3>3
  <2>4. QED
    BY <2>2, <2>3
<1>10. ASSUME NEW r \in Relayer, CommitFails(r) \/ Halt(r) PROVE Goal
  <2>1. /\ UNCHANGED sent /\ faults' = faults + 1
        /\ lock' = [lock EXCEPT ![r] = {}] /\ todo' = [todo EXCEPT ![r] = {}]
        /\ ids' = [ids EXCEPT ![r] = {}]
        /\ pc' \in {[pc EXCEPT ![r] = "idle"], [pc EXCEPT ![r] = "down"]}
    BY <1>10 DEF CommitFails, Halt, Return
  <2>2. Tidy'
    BY <1>0, <2>1 DEF Tidy, TypeOK
  <2>3. ASSUME NEW e \in Entry PROVE Paid(e)'
    <3>1. Zombies(e)' \subseteq Zombies(e)
      BY <2>1 DEF Zombies, TypeOK
    <3>2. QED
      BY <1>0, <2>1, <3>1, Balance
  <2>4. QED
    BY <2>2, <2>3
<1>11. ASSUME NEW r \in Relayer, LoseConnection(r) PROVE Goal
  <2>1. /\ UNCHANGED <<row, sent, pc, todo, ids>> /\ faults' = faults + 1
        /\ lock' = [lock EXCEPT ![r] = {}]
    BY <1>11 DEF LoseConnection
  <2>2. Tidy'
    BY <1>0, <2>1 DEF Tidy
  <2>3. ASSUME NEW e \in Entry PROVE Paid(e)'
    <3>1. CASE e \notin todo[r]
      <4>1. Zombies(e)' \subseteq Zombies(e)
        BY <2>1, <3>1 DEF Zombies, TypeOK
      <4>2. QED
        BY <1>0, <2>1, <4>1, Balance
    <3>2. CASE e \in todo[r]
      <4>1. Settling(e) => Settling(e)'
        BY <1>0, <2>1, <3>2 DEF Settling, Tidy, TypeOK
      <4>2. PICK Z : Z = Zombies(e)
        OBVIOUS
      <4>3. PICK Y : Y = Zombies(e)'
        OBVIOUS
      <4>4. Y \subseteq Z \union {r}
        BY <2>1, <4>2, <4>3 DEF Zombies, TypeOK
      <4>5. /\ IsFiniteSet(Z) /\ Cardinality(Z) \in Nat
            /\ IsFiniteSet(Z \union {r}) /\ Cardinality(Z \union {r}) <= Cardinality(Z) + 1
        <5>1. IsFiniteSet(Z) /\ Cardinality(Z) \in Nat
          BY <1>0, <4>2, FS_CardinalityType DEF Paid
        <5>2. /\ IsFiniteSet(Z \union {r})
              /\ Cardinality(Z \union {r}) \in {Cardinality(Z), Cardinality(Z) + 1}
          BY <5>1, FS_AddElement
        <5>3. QED
          BY <5>1, <5>2
      <4>6. /\ IsFiniteSet(Y) /\ Cardinality(Y) \in Nat
            /\ Cardinality(Y) <= Cardinality(Z \union {r})
            /\ Cardinality(Z \union {r}) \in Nat
        BY <4>4, <4>5, Fewer
      <4>7. sent[e] + Cardinality(Z) <= faults + (IF Settling(e) THEN 1 ELSE 0)
        BY <1>0, <4>2 DEF Paid
      <4>8. sent[e] \in Nat /\ faults \in Nat
        BY BoundAssumption DEF TypeOK
      <4>9. sent'[e] + Cardinality(Y) <= faults' + (IF Settling(e)' THEN 1 ELSE 0)
        BY <2>1, <4>1, <4>5, <4>6, <4>7, <4>8
      <4>10. QED
        BY <4>3, <4>6, <4>9 DEF Paid
    <3>3. QED
      BY <3>1, <3>2
  <2>4. QED
    BY <2>2, <2>3
<1>12. ASSUME NEW r \in Relayer, Purge(r) PROVE Goal
  <2>1. /\ UNCHANGED <<sent, lock, todo, ids, faults, pc>>
        /\ \A e \in Entry : row[e] \in {"published", "deleted"}
                               => row'[e] \in {"published", "deleted"}
    BY <1>12 DEF Purge
  <2>2. QED
    BY <1>1, <2>1
<1>13. ASSUME NEW r \in Relayer, Restart(r) PROVE Goal
  BY <1>1, <1>13 DEF Restart, TypeOK
<1>14. CASE RedisFails \/ RedisRecovers
  BY <1>1, <1>14 DEF RedisFails, RedisRecovers
<1>15. CASE UNCHANGED vars
  BY <1>1, <1>15 DEF vars
<1>16. QED
  BY <1>2, <1>3, <1>4, <1>5, <1>6, <1>7, <1>8, <1>9, <1>10, <1>11, <1>12, <1>13,
     <1>14, <1>15 DEF Next, Drain

\* However many relays run and however often Redis goes away, an entry is
\* pushed once, and once more for each fault at most.
THEOREM OnlyFaultsDuplicate == Spec => []DuplicatesNeedAFault
<1>1. TypeOK /\ TypeOK' /\ RelayInv /\ CopiesInv /\ [Next]_vars => CopiesInv'
  BY CopiesStep
<1>2. TypeOK /\ CopiesInv => DuplicatesNeedAFault
  <2> SUFFICES ASSUME TypeOK, CopiesInv, NEW e \in Entry
               PROVE  sent[e] <= 1 + faults
    BY DEF DuplicatesNeedAFault
  <2>1. Cardinality(Zombies(e)) \in Nat
    BY FS_CardinalityType DEF CopiesInv, Paid
  <2>2. sent[e] \in Nat /\ faults \in Nat
    BY BoundAssumption DEF TypeOK
  <2>3. sent[e] + Cardinality(Zombies(e)) <= faults + (IF Settling(e) THEN 1 ELSE 0)
    BY DEF CopiesInv, Paid
  <2>4. QED
    BY <2>1, <2>2, <2>3
<1>3. QED
  BY <1>1, <1>2, CopiesInit, TypeCorrect, Invariance, PTL DEF Spec

-----------------------------------------------------------------------------
(* Refinement: every step of the relay is a step of Handoff, or a stutter.  *)

\* At the start nothing is owed, settled or delivered.
LEMMA InitRefines == Init => Contract!Init
BY DEF Init, Contract!Init, Pending

\* A commit of a bulk insert is an Accept, a push a Deliver, a mark that is
\* committed a Settle; every other step leaves the contract's state alone.
LEMMA StepRefines ==
    TypeOK /\ RelayInv /\ [Next]_vars => [Contract!Next]_(Contract!handoffVars)
<1> SUFFICES ASSUME TypeOK, NeverZero, BothOrNeither, ClaimDiscipline, Bookkeeping,
                    [Next]_vars
             PROVE  [Contract!Next]_(Contract!handoffVars)
  BY DEF RelayInv
<1> USE EntryAssumption DEF tableVars, txVars, relayVars, Pending
<1>1. ASSUME UNCHANGED <<row, sent>> PROVE [Contract!Next]_(Contract!handoffVars)
  BY <1>1 DEF Contract!handoffVars
<1>2. ASSUME NEW p \in Producer, CommitBatch(p),
             NEW S \in SUBSET Entry, S = enqueued[p]
      PROVE  Contract!Accept(S)
  BY <1>2 DEF CommitBatch, Contract!Accept, TypeOK, Bookkeeping
<1>3. ASSUME NEW e \in Entry, row[e] # "none", UNCHANGED row,
             sent' = [sent EXCEPT ![e] = @ + 1]
      PROVE  Contract!Deliver(e)
  BY <1>3 DEF Contract!Deliver, TypeOK, RowState
<1>4. ASSUME NEW r \in Relayer, Publish(r) \/ PublishReplyLost(r)
      PROVE  \E e \in Entry : Contract!Deliver(e)
  <2>1. PICK e \in Entry : e \in todo[r] /\ sent' = [sent EXCEPT ![e] = @ + 1]
    BY <1>4 DEF Publish, PublishReplyLost, IsNext
  <2>2. row[e] # "none" /\ UNCHANGED row
    BY <1>4, <2>1 DEF Publish, PublishReplyLost, Bookkeeping
  <2>3. QED
    BY <1>3, <2>1, <2>2
<1>5. ASSUME NEW r \in Relayer, MarkAndCommit(r) \/ CommitFails(r),
             row' = Published(ids[r]), NEW S \in SUBSET Entry, S = ids[r]
      PROVE  Contract!Settle(S)
  <2>1. ids[r] \subseteq Pending /\ \A e \in ids[r] \ Garbled : sent[e] > 0
    BY <1>5 DEF MarkAndCommit, CommitFails, ClaimDiscipline
  <2>2. UNCHANGED sent
    BY <1>5 DEF MarkAndCommit, CommitFails
  <2>3. QED
    BY <1>5, <2>1, <2>2 DEF Contract!Settle, Published, TypeOK
<1>6. ASSUME NEW r \in Relayer, Purge(r) PROVE [Contract!Next]_(Contract!handoffVars)
  BY <1>6 DEF Purge, Contract!handoffVars, TypeOK
<1>7. CASE UNCHANGED vars
  BY <1>1, <1>7 DEF vars
<1>8. ASSUME NEW p \in Producer,
             UpsertBusinesses(p) \/ EnqueueTx(p) \/ AbortBatch(p)
      PROVE  [Contract!Next]_(Contract!handoffVars)
  BY <1>1, <1>8 DEF UpsertBusinesses, EnqueueTx, AbortBatch
<1>9. ASSUME NEW r \in Relayer,
             \/ Claim(r) \/ DropGarbled(r) \/ PublishFails(r) \/ RecordFailure(r)
             \/ MarkFails(r) \/ LoseConnection(r) \/ Halt(r) \/ Restart(r)
      PROVE  [Contract!Next]_(Contract!handoffVars)
  BY <1>1, <1>9 DEF Claim, DropGarbled, PublishFails, RecordFailure, MarkFails,
     LoseConnection, Halt, Restart
<1>10. CASE RedisFails \/ RedisRecovers
  BY <1>1, <1>10 DEF RedisFails, RedisRecovers
<1>11. /\ \A p \in Producer : \E S \in SUBSET Entry : S = enqueued[p]
       /\ \A r \in Relayer : \E S \in SUBSET Entry : S = ids[r]
  BY DEF TypeOK
<1>12. ASSUME NEW p \in Producer, CommitBatch(p) PROVE Contract!Next
  <2>1. PICK S \in SUBSET Entry : S = enqueued[p]
    BY <1>11
  <2>2. QED
    BY <1>2, <1>12, <2>1 DEF Contract!Next
<1>13. ASSUME NEW r \in Relayer, Publish(r) \/ PublishReplyLost(r)
       PROVE  Contract!Next
  BY <1>4, <1>13 DEF Contract!Next
<1>14. ASSUME NEW r \in Relayer, MarkAndCommit(r) \/ CommitFails(r)
       PROVE  [Contract!Next]_(Contract!handoffVars)
  <2>1. CASE row' = Published(ids[r])
    <3>1. PICK S \in SUBSET Entry : S = ids[r]
      BY <1>11
    <3>2. Contract!Next
      BY <1>5, <1>14, <2>1, <3>1 DEF Contract!Next
    <3>3. QED
      BY <3>2
  <2>2. CASE UNCHANGED row
    <3>1. UNCHANGED sent
      BY <1>14 DEF MarkAndCommit, CommitFails
    <3>2. QED
      BY <1>1, <2>2, <3>1
  <2>3. QED
    BY <1>14, <2>1, <2>2 DEF MarkAndCommit, CommitFails
<1> HIDE DEF tableVars, txVars, relayVars, Pending
<1>15. QED
  BY <1>6, <1>7, <1>8, <1>9, <1>10, <1>12, <1>13, <1>14 DEF Next, Drain

\* The relay implements the at-least-once contract.
THEOREM ImplementsHandoff == Spec => AtLeastOnce
<1>1. Init => Contract!Init
  BY InitRefines
<1>2. TypeOK /\ RelayInv /\ [Next]_vars => [Contract!Next]_(Contract!handoffVars)
  BY StepRefines
<1>3. QED
  BY <1>1, <1>2, TypeCorrect, Invariance, PTL DEF Spec, AtLeastOnce, Contract!Spec
=============================================================================
