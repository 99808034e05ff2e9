----------------------------- MODULE WorkerPool -----------------------------
(***************************************************************************)
(* The Redis list of jobs and the worker processes that consume it:        *)
(* RedisQueue (queue.go) and Worker.Start, run and drain (worker.go).      *)
(*                                                                         *)
(* A Job here is one payload pushed onto the list.  LPush adds at the left *)
(* and BRPop takes from the right, so the list is FIFO.  The body of a     *)
(* handler is one decision, success or failure; a panic and an expired     *)
(* deadline are failures, an unknown type is a success.  A popped job      *)
(* lives only in the memory of the worker that popped it.                  *)
(***************************************************************************)
EXTENDS Integers, FiniteSets, SequencesExt

CONSTANTS
    Job,          \* payloads that may be pushed
    Garbled,      \* those json.Unmarshal may reject
    Worker,       \* processes running Worker.Start
    Concurrency,  \* cfg.Concurrency, the capacity of the slots channel
    MaxRetries    \* Job.MaxRetries, 3 unless the enqueuer chose otherwise

ASSUME JobAssumption == IsFiniteSet(Job) /\ Garbled \subseteq Job
ASSUME LimitAssumption == Concurrency \in Nat \ {0} /\ MaxRetries \in Nat \ {0}

VARIABLES
    list,       \* the Redis list, left to right
    dead,       \* the Redis list key:dead
    retry,      \* retry_count in each payload
    accepted,   \* jobs that were ever pushed
    done,       \* jobs whose handler returned nil
    redisUp,    \* Redis answers
    loop,       \* per worker, where the loop of Start stands
    slots,      \* per worker, len(slots)
    running,    \* per worker, jobs whose handler is executing
    pausing,    \* per worker, finished jobs in the politeness pause
    cancelled,  \* per worker, ctx was cancelled (SIGTERM)
    kills,      \* deaths of a process that had handlers executing
    misses      \* popped jobs whose reply or whose push back was lost

redisVars == <<list, dead, retry, accepted, redisUp>>
poolVars == <<loop, slots, running, pausing, cancelled>>
vars == <<redisVars, done, poolVars, kills, misses>>

Loop == {"select", "poll", "backoff", "drain", "stopped", "down"}

TypeOK ==
    /\ list \in Seq(Job)
    /\ dead \subseteq Job
    /\ retry \in [Job -> Nat]
    /\ accepted \subseteq Job
    /\ done \subseteq Job
    /\ redisUp \in BOOLEAN
    /\ loop \in [Worker -> Loop]
    /\ slots \in [Worker -> 0 .. Concurrency]
    /\ running \in [Worker -> SUBSET Job]
    /\ pausing \in [Worker -> SUBSET Job]
    /\ cancelled \in [Worker -> BOOLEAN]
    /\ kills \in Nat
    /\ misses \in Nat

Init ==
    /\ list = <<>>
    /\ dead = {}
    /\ retry = [j \in Job |-> 0]
    /\ accepted = {}
    /\ done = {}
    /\ redisUp = TRUE
    /\ loop = [w \in Worker |-> "select"]
    /\ slots = [w \in Worker |-> 0]
    /\ running = [w \in Worker |-> {}]
    /\ pausing = [w \in Worker |-> {}]
    /\ cancelled = [w \in Worker |-> FALSE]
    /\ kills = 0
    /\ misses = 0

-----------------------------------------------------------------------------
(* The queue.                                                               *)

LPush(j) == list' = <<j>> \o list

\* Enqueue by the API, the relay or a handler.
Enqueue(j) ==
    /\ redisUp
    /\ j \notin accepted
    /\ LPush(j)
    /\ accepted' = accepted \union {j}
    /\ UNCHANGED <<dead, retry, redisUp, done, poolVars, kills, misses>>

\* Mutant: the element is read (LRANGE key -1 -1) and not removed.
PopPeek(j) ==
    /\ redisUp
    /\ list # <<>>
    /\ j = Last(list)
    /\ UNCHANGED list

\* BRPop's answer: the rightmost element, which is gone from the list.
Pop(j) ==
    /\ redisUp
    /\ list # <<>>
    /\ j = Last(list)
    /\ list' = Front(list)

\* Mutant: off by one, a job is tried once more than MaxRetries allows.
RequeueOnceMore(j) ==
    /\ redisUp
    /\ retry' = [retry EXCEPT ![j] = @ + 1]
    /\ IF retry[j] + 1 > MaxRetries
       THEN dead' = dead \union {j} /\ UNCHANGED list
       ELSE LPush(j) /\ UNCHANGED dead
    /\ UNCHANGED misses

\* Mutant: a job whose retries are spent is dropped, not parked.
RequeueForgetsDead(j) ==
    /\ redisUp
    /\ retry' = [retry EXCEPT ![j] = @ + 1]
    /\ IF retry[j] + 1 >= MaxRetries THEN UNCHANGED list ELSE LPush(j)
    /\ UNCHANGED <<dead, misses>>

\* Back on the list, or onto the dead list once the retries are spent.
Requeue(j) ==
    /\ redisUp
    /\ retry' = [retry EXCEPT ![j] = @ + 1]
    /\ IF retry[j] + 1 >= MaxRetries
       THEN dead' = dead \union {j} /\ UNCHANGED list
       ELSE LPush(j) /\ UNCHANGED dead
    /\ UNCHANGED misses

\* The push fails; run only logs it, and the payload is gone.
RequeueFails(j) ==
    /\ ~redisUp
    /\ retry' = [retry EXCEPT ![j] = @ + 1]
    /\ misses' = misses + 1
    /\ UNCHANGED <<list, dead>>

-----------------------------------------------------------------------------
(* The loop of Start.                                                       *)

\* A slot is taken before Redis is asked.  (With ctx already cancelled the
\* call fails at once and ends in drain, which is what ObserveCancel does.)
TakeSlot(w) ==
    /\ loop[w] = "select" /\ ~cancelled[w]
    /\ slots[w] < Concurrency
    /\ slots' = [slots EXCEPT ![w] = @ + 1]
    /\ loop' = [loop EXCEPT ![w] = "poll"]
    /\ UNCHANGED <<redisVars, done, running, pausing, cancelled, kills, misses>>

ReleaseSlot(w) == slots' = [slots EXCEPT ![w] = @ - 1]

AfterError(w) ==
    loop' = [loop EXCEPT ![w] = IF cancelled[w] THEN "drain" ELSE "backoff"]

\* A job arrives and keeps the slot the loop took for it.
DequeueJob(w) ==
    /\ loop[w] = "poll"
    /\ \E j \in Job :
          Pop(j) /\ running' = [running EXCEPT ![w] = @ \union {j}]
    /\ loop' = [loop EXCEPT ![w] = "select"]
    /\ UNCHANGED <<dead, retry, accepted, redisUp, done, slots, pausing,
                   cancelled, kills, misses>>

\* Mutant: `continue` on ErrEmpty without giving the slot back.
DequeueEmptyKeepsSlot(w) ==
    /\ loop[w] = "poll"
    /\ redisUp /\ list = <<>>
    /\ loop' = [loop EXCEPT ![w] = "select"]
    /\ UNCHANGED <<redisVars, done, slots, running, pausing, cancelled, kills, misses>>

\* Mutant: BRPop with timeout 0 never answers an empty list.
DequeueEmptyBlocks(w) ==
    /\ loop[w] = "poll"
    /\ redisUp /\ list = <<>>
    /\ UNCHANGED vars

\* The poll window of five seconds elapsed: ErrEmpty.
DequeueEmpty(w) ==
    /\ loop[w] = "poll"
    /\ redisUp /\ list = <<>>
    /\ ReleaseSlot(w)
    /\ loop' = [loop EXCEPT ![w] = "select"]
    /\ UNCHANGED <<redisVars, done, running, pausing, cancelled, kills, misses>>

\* A payload that does not parse, and never has, is parked on the dead list.  The result of
\* that push is not looked at: it may fail, and the payload is gone.
DequeueGarbled(w) ==
    /\ loop[w] = "poll"
    /\ \E j \in Garbled :
          /\ retry[j] = 0
          /\ Pop(j)
          /\ \/ dead' = dead \union {j} /\ UNCHANGED misses
             \/ misses' = misses + 1 /\ UNCHANGED dead
    /\ ReleaseSlot(w)
    /\ AfterError(w)
    /\ UNCHANGED <<retry, accepted, redisUp, done, running, pausing, cancelled, kills>>

\* Redis ran the BRPop, and the connection died before it answered.
DequeueReplyLost(w) ==
    /\ loop[w] = "poll"
    /\ \E j \in Job : Pop(j)
    /\ misses' = misses + 1
    /\ ReleaseSlot(w)
    /\ AfterError(w)
    /\ UNCHANGED <<dead, retry, accepted, redisUp, done, running, pausing,
                   cancelled, kills>>

DequeueFails(w) ==
    /\ ReleaseSlot(w)
    /\ AfterError(w)
    /\ UNCHANGED <<redisVars, done, running, pausing, cancelled, kills, misses>>

RedisUnreachable(w) == loop[w] = "poll" /\ ~redisUp /\ DequeueFails(w)

\* ctx was cancelled before the client sent the command.
DequeueCancelled(w) == loop[w] = "poll" /\ cancelled[w] /\ DequeueFails(w)

\* The two seconds after a failed Dequeue are over.
BackoffEnds(w) ==
    /\ loop[w] = "backoff"
    /\ loop' = [loop EXCEPT ![w] = "select"]
    /\ UNCHANGED <<redisVars, done, slots, running, pausing, cancelled, kills, misses>>

\* Both selects of Start have a ctx.Done branch.
ObserveCancel(w) ==
    /\ loop[w] \in {"select", "backoff"} /\ cancelled[w]
    /\ loop' = [loop EXCEPT ![w] = "drain"]
    /\ UNCHANGED <<redisVars, done, slots, running, pausing, cancelled, kills, misses>>

-----------------------------------------------------------------------------
(* run, one goroutine per job.                                              *)

Succeed(w, j) ==
    /\ j \in running[w]
    /\ running' = [running EXCEPT ![w] = @ \ {j}]
    /\ pausing' = [pausing EXCEPT ![w] = @ \union {j}]
    /\ done' = done \union {j}
    /\ UNCHANGED <<redisVars, loop, slots, cancelled, kills, misses>>

\* An error, an expired deadline or a panic: requeue, no pause, free the slot.
Fail(w, j) ==
    /\ j \in running[w]
    /\ running' = [running EXCEPT ![w] = @ \ {j}]
    /\ Requeue(j) \/ RequeueFails(j)
    /\ ReleaseSlot(w)
    /\ UNCHANGED <<accepted, redisUp, done, loop, pausing, cancelled, kills>>

\* The delay is over, or ctx.Done cuts it short.
EndPause(w, j) ==
    /\ j \in pausing[w]
    /\ pausing' = [pausing EXCEPT ![w] = @ \ {j}]
    /\ ReleaseSlot(w)
    /\ UNCHANGED <<redisVars, done, loop, running, cancelled, kills, misses>>

-----------------------------------------------------------------------------
(* Shutdown, crashes, the surroundings.                                     *)

Cancel(w) ==
    /\ loop[w] # "down" /\ ~cancelled[w]
    /\ cancelled' = [cancelled EXCEPT ![w] = TRUE]
    /\ UNCHANGED <<redisVars, done, loop, slots, running, pausing, kills, misses>>

\* drain returns: every goroutine is done, or ShutdownWait is over.
DrainReturns(w) ==
    /\ loop[w] = "drain"
    /\ loop' = [loop EXCEPT ![w] = "stopped"]
    /\ UNCHANGED <<redisVars, done, slots, running, pausing, cancelled, kills, misses>>

\* The process ends, and with it whatever it was still executing.
Die(w) ==
    /\ loop' = [loop EXCEPT ![w] = "down"]
    /\ slots' = [slots EXCEPT ![w] = 0]
    /\ running' = [running EXCEPT ![w] = {}]
    /\ pausing' = [pausing EXCEPT ![w] = {}]
    /\ cancelled' = [cancelled EXCEPT ![w] = FALSE]
    /\ kills' = kills + (IF running[w] = {} THEN 0 ELSE 1)
    /\ UNCHANGED <<redisVars, done, misses>>

\* main returns once Start has.
Exit(w) == loop[w] = "stopped" /\ Die(w)

Crash(w) == loop[w] # "down" /\ Die(w)

Restart(w) ==
    /\ loop[w] = "down"
    /\ loop' = [loop EXCEPT ![w] = "select"]
    /\ UNCHANGED <<redisVars, done, slots, running, pausing, cancelled, kills, misses>>

RedisToggles ==
    /\ redisUp' = ~redisUp
    /\ UNCHANGED <<list, dead, retry, accepted, done, poolVars, kills, misses>>

-----------------------------------------------------------------------------
\* Dequeue returns in bounded time, whatever Redis does.
Dequeue(w) ==
    \/ DequeueJob(w)
    \/ DequeueEmpty(w)
    \/ DequeueGarbled(w)
    \/ RedisUnreachable(w)

LoopStep(w) ==
    \/ TakeSlot(w)
    \/ Dequeue(w)
    \/ BackoffEnds(w)

\* Every handler has a hard deadline.
HandlerEnds(w, j) == Succeed(w, j) \/ Fail(w, j)

GracefulNext ==
    \/ \E j \in Job : Enqueue(j)
    \/ \E w \in Worker :
          \/ LoopStep(w) \/ DequeueReplyLost(w) \/ DequeueCancelled(w)
          \/ ObserveCancel(w) \/ Cancel(w) \/ DrainReturns(w) \/ Exit(w) \/ Restart(w)
          \/ \E j \in Job : HandlerEnds(w, j) \/ EndPause(w, j)
    \/ RedisToggles

Next == GracefulNext \/ \E w \in Worker : Crash(w)

Spec == Init /\ [][Next]_vars

\* The select of Start picks among its ready branches at random, so it cannot
\* miss ctx.Done for ever; everything else is a timer or a deadline.
FairSpec ==
    /\ Spec
    /\ \A w \in Worker :
          /\ WF_vars(LoopStep(w))
          /\ SF_vars(ObserveCancel(w))
          /\ WF_vars(DrainReturns(w))
          /\ WF_vars(Exit(w))
          /\ WF_vars(Restart(w))
          /\ \A j \in Job : WF_vars(HandlerEnds(w, j)) /\ WF_vars(EndPause(w, j))

-----------------------------------------------------------------------------
Held == UNION {running[w] : w \in Worker}

\* Accepted jobs that are nowhere any more.
Vanished == accepted \ (ToSet(list) \union dead \union done \union Held)

\* len(slots) is exactly the goroutines that run or pause plus the poll under
\* way: no exit path of the loop or of run leaks a slot or gives one back
\* twice, and no job is popped without one.  With slots <= Concurrency (TypeOK)
\* that is the bound on the goroutines the pool promises.
SlotAccounting ==
    \A w \in Worker :
       slots[w] = Cardinality(running[w]) + Cardinality(pausing[w])
                  + (IF loop[w] = "poll" THEN 1 ELSE 0)

\* A payload is in one place: once on the list, in one goroutine of one
\* worker, dead or done.
OnePlace ==
    /\ \A m, n \in DOMAIN list : list[m] = list[n] => m = n
    /\ \A v, w \in Worker : v # w => running[v] \intersect running[w] = {}
    /\ ToSet(list) \intersect (Held \union dead \union done) = {}
    /\ Held \intersect (dead \union done) = {}
    /\ dead \intersect done = {}

\* A job on the list, or executing, has an attempt left; a dead one has used
\* exactly MaxRetries of them, or was never read.
RetryBudget ==
    /\ \A j \in ToSet(list) \union Held : retry[j] < MaxRetries
    /\ \A j \in dead : retry[j] = MaxRetries \/ (j \in Garbled /\ retry[j] = 0)

\* A job vanishes only with the process that holds it or when Redis fails
\* between the pop and the push back, and one death takes at most Concurrency.
BoundedLoss == Cardinality(Vanished) <= kills * Concurrency + misses

\* worker_test.go's TestWorkerStopsWhenContextIsCancelled, in any state: after
\* SIGTERM the process ends, with Redis up or down, busy or idle.
StopsOnCancel == \A w \in Worker : cancelled[w] ~> loop[w] = "down"

\* Once Redis and the workers stay up, every accepted job is done, dead or was
\* lost before: no job is stuck on the list behind leaked slots or endless
\* retries of others.
EveryJobSettles ==
    <>[](redisUp /\ \A w \in Worker : ~cancelled[w] /\ loop[w] # "down") =>
        \A j \in Job : j \in accepted ~> j \in done \union dead \union Vanished
=============================================================================
