-------------------------- MODULE WorkerPoolProofs --------------------------
(***************************************************************************)
(* Safety of the job list and the worker pool for any set of payloads, any *)
(* number of processes, any concurrency and any number of retries.         *)
(***************************************************************************)
EXTENDS WorkerPool, FiniteSetTheorems, SequenceTheorems, TLAPS

\* Every element of a sequence is at one position.
Distinct(s) == \A m, n \in DOMAIN s : s[m] = s[n] => m = n

\* Where a payload may be, said of one payload at a time.  On the list or
\* executing it is accepted, not at an end and has an attempt left; on the dead
\* list it has none or was never read; in the politeness pause it is done.
Live(j) == j \in accepted /\ j \notin dead /\ j \notin done /\ retry[j] < MaxRetries

Listed ==
    /\ Distinct(list)
    /\ \A j \in ToSet(list) : Live(j) /\ \A w \in Worker : j \notin running[w]

Executing ==
    \A w \in Worker : \A j \in running[w] :
       Live(j) /\ \A v \in Worker \ {w} : j \notin running[v]

Parked ==
    \A j \in dead : /\ j \in accepted /\ j \notin done
                    /\ retry[j] = MaxRetries \/ (j \in Garbled /\ retry[j] = 0)

Settled ==
    /\ done \subseteq accepted
    /\ \A w \in Worker : pausing[w] \subseteq done
    /\ \A j \in Job \ accepted : retry[j] = 0

Places == Listed /\ Executing /\ Parked /\ Settled

PoolInv == TypeOK /\ SlotAccounting /\ Places

-----------------------------------------------------------------------------
\* LPush adds one element to the list and disturbs no other.
LEMMA PushFacts ==
    ASSUME NEW S, NEW s \in Seq(S), NEW x \in S
    PROVE  /\ <<x>> \o s \in Seq(S)
           /\ ToSet(<<x>> \o s) = ToSet(s) \union {x}
           /\ Distinct(s) /\ x \notin ToSet(s) => Distinct(<<x>> \o s)
<1> DEFINE t == <<x>> \o s
<1>1. /\ t \in Seq(S) /\ Len(t) = Len(s) + 1
      /\ DOMAIN t = 1 .. Len(s) + 1 /\ DOMAIN s = 1 .. Len(s)
      /\ t[1] = x
      /\ \A n \in 1 .. Len(s) : t[n + 1] = s[n]
  OBVIOUS
<1>2. \A m \in DOMAIN t : m = 1 \/ (m - 1 \in DOMAIN s /\ t[m] = s[m - 1])
  BY <1>1
<1> HIDE DEF t
<1>3. ToSet(t) = ToSet(s) \union {x}
  <2>1. \A y \in ToSet(t) : y \in ToSet(s) \union {x}
    BY <1>1, <1>2 DEF ToSet
  <2>2. x \in ToSet(t)
    BY <1>1 DEF ToSet
  <2>3. \A y \in ToSet(s) : y \in ToSet(t)
    <3> TAKE y \in ToSet(s)
    <3>1. PICK n \in DOMAIN s : y = s[n]
      BY DEF ToSet
    <3>2. n + 1 \in DOMAIN t /\ t[n + 1] = y
      BY <1>1, <3>1
    <3>3. QED
      BY <3>2 DEF ToSet
  <2>4. QED
    BY <2>1, <2>2, <2>3
<1>4. Distinct(s) /\ x \notin ToSet(s) => Distinct(t)
  <2> SUFFICES ASSUME Distinct(s), x \notin ToSet(s), NEW m \in DOMAIN t, NEW n \in DOMAIN t,
                      t[m] = t[n]
               PROVE  m = n
    BY DEF Distinct
  <2>1. \A k \in DOMAIN s : s[k] # x
    BY DEF ToSet
  <2>2. m \in Nat /\ n \in Nat
    BY <1>1
  <2>3. CASE m = 1 \/ n = 1
    BY <1>1, <1>2, <2>1, <2>2, <2>3
  <2>4. CASE m # 1 /\ n # 1
    <3>1. m - 1 \in DOMAIN s /\ n - 1 \in DOMAIN s /\ s[m - 1] = s[n - 1]
      BY <1>2, <2>4
    <3>2. m - 1 = n - 1
      BY <3>1 DEF Distinct
    <3>3. QED
      BY <2>2, <3>2
  <2>5. QED
    BY <2>3, <2>4
<1>5. QED
  BY <1>1, <1>3, <1>4 DEF t

\* BRPop takes one element, which is on the list no more.
LEMMA PopFacts ==
    ASSUME NEW S, NEW s \in Seq(S), s # <<>>, Distinct(s)
    PROVE  /\ Front(s) \in Seq(S) /\ Distinct(Front(s))
           /\ Last(s) \in ToSet(s)
           /\ ToSet(Front(s)) = ToSet(s) \ {Last(s)}
<1> DEFINE t == Front(s)
<1>0. Len(s) \in Nat \ {0} /\ DOMAIN s = 1 .. Len(s)
  OBVIOUS
<1>1. /\ t \in Seq(S) /\ Len(t) = Len(s) - 1 /\ DOMAIN t = 1 .. Len(s) - 1
      /\ \A n \in DOMAIN t : t[n] = s[n]
      /\ Last(s) = s[Len(s)]
  <2>1. t = SubSeq(s, 1, Len(s) - 1) /\ Last(s) = s[Len(s)]
    BY DEF Front, Last
  <2> HIDE DEF t
  <2>2. Len(s) - 1 \in 0 .. Len(s)
    BY <1>0
  <2>3. SubSeq(s, 1, Len(s) - 1) = [n \in 1 .. Len(s) - 1 |-> s[n]]
    BY <1>0, <2>2
  <2>4. QED
    BY <1>0, <2>1, <2>2, <2>3, SubSeqProperties
<1> HIDE DEF t
<1>2. Distinct(t)
  BY <1>0, <1>1 DEF Distinct
<1>3. Last(s) \in ToSet(s)
  BY <1>0, <1>1 DEF ToSet
<1>4. \A y \in ToSet(t) : y \in ToSet(s) /\ y # Last(s)
  <2> TAKE y \in ToSet(t)
  <2>1. PICK n \in DOMAIN t : y = t[n]
    BY DEF ToSet
  <2>2. n \in DOMAIN s /\ n # Len(s) /\ y = s[n]
    BY <1>0, <1>1, <2>1
  <2>3. QED
    BY <1>0, <1>1, <2>2 DEF ToSet, Distinct
<1>5. \A y \in ToSet(s) : y # Last(s) => y \in ToSet(t)
  <2> SUFFICES ASSUME NEW y \in ToSet(s), y # Last(s) PROVE y \in ToSet(t)
    OBVIOUS
  <2>1. PICK n \in DOMAIN s : y = s[n]
    BY DEF ToSet
  <2>2. n \in DOMAIN t /\ y = t[n]
    BY <1>0, <1>1, <2>1
  <2>3. QED
    BY <2>2 DEF ToSet
<1>6. QED
  BY <1>1, <1>2, <1>3, <1>4, <1>5 DEF t

\* What is on the list is a payload.
LEMMA ListedJobs == TypeOK => ToSet(list) \subseteq Job
BY DEF TypeOK, ToSet

\* A push of an accepted payload that is not on the list, as seen by the model.
LEMMA PushStep ==
    ASSUME TypeOK, NEW j \in Job, LPush(j)
    PROVE  /\ list' \in Seq(Job)
           /\ ToSet(list)' = ToSet(list) \union {j}
           /\ Distinct(list) /\ j \notin ToSet(list) => Distinct(list)'
<1>1. list \in Seq(Job) /\ list' = <<j>> \o list
  BY DEF TypeOK, LPush
<1>2. /\ <<j>> \o list \in Seq(Job)
      /\ ToSet(<<j>> \o list) = ToSet(list) \union {j}
      /\ Distinct(list) /\ j \notin ToSet(list) => Distinct(<<j>> \o list)
  BY <1>1, PushFacts
<1>3. ToSet(list)' = ToSet(list') /\ (Distinct(list)' <=> Distinct(list'))
  BY DEF ToSet, Distinct
<1>4. QED
  BY <1>1, <1>2, <1>3

\* An answer of BRPop.
LEMMA PopStep ==
    ASSUME TypeOK, Distinct(list), NEW j, Pop(j)
    PROVE  /\ list' \in Seq(Job) /\ j \in Job
           /\ j \in ToSet(list)
           /\ ToSet(list)' = ToSet(list) \ {j}
           /\ Distinct(list)'
<1>1. list \in Seq(Job) /\ list # <<>> /\ j = Last(list) /\ list' = Front(list)
  BY DEF TypeOK, Pop
<1>2. /\ Front(list) \in Seq(Job) /\ Distinct(Front(list))
      /\ j \in ToSet(list)
      /\ ToSet(Front(list)) = ToSet(list) \ {j}
  BY <1>1, PopFacts
<1>3. ToSet(list)' = ToSet(list') /\ (Distinct(list)' <=> Distinct(list'))
  BY DEF ToSet, Distinct
<1>4. j \in Job
  BY <1>1, <1>2, ListedJobs
<1>5. QED
  BY <1>1, <1>2, <1>3, <1>4

\* One goroutine more or less is a count of one more or less.
LEMMA Counts ==
    ASSUME TypeOK, NEW w \in Worker, NEW j \in Job
    PROVE  /\ Cardinality(running[w]) \in Nat
           /\ Cardinality(pausing[w]) \in Nat
           /\ j \notin running[w] =>
                 Cardinality(running[w] \union {j}) = Cardinality(running[w]) + 1
           /\ j \in running[w] =>
                 /\ Cardinality(running[w]) \in Nat \ {0}
                 /\ Cardinality(running[w] \ {j}) = Cardinality(running[w]) - 1
           /\ j \notin pausing[w] =>
                 Cardinality(pausing[w] \union {j}) = Cardinality(pausing[w]) + 1
           /\ j \in pausing[w] =>
                 /\ Cardinality(pausing[w]) \in Nat \ {0}
                 /\ Cardinality(pausing[w] \ {j}) = Cardinality(pausing[w]) - 1
<1>1. \A S \in SUBSET Job :
         /\ Cardinality(S) \in Nat
         /\ j \notin S => Cardinality(S \union {j}) = Cardinality(S) + 1
         /\ j \in S => Cardinality(S) # 0 /\ Cardinality(S \ {j}) = Cardinality(S) - 1
  <2> TAKE S \in SUBSET Job
  <2>1. IsFiniteSet(S)
    BY JobAssumption, FS_Subset
  <2>2. QED
    BY <2>1, FS_CardinalityType, FS_EmptySet, FS_AddElement, FS_RemoveElement
<1>2. running[w] \in SUBSET Job /\ pausing[w] \in SUBSET Job
  BY DEF TypeOK
<1>3. QED
  BY <1>1, <1>2

-----------------------------------------------------------------------------
\* No step gives a variable a value outside its type.  That a slot is only
\* given back by one who has it is what keeps the count in 0 .. Concurrency.
LEMMA TypeStep == PoolInv /\ [Next]_vars => TypeOK'
<1> SUFFICES ASSUME PoolInv, [Next]_vars PROVE TypeOK'
  OBVIOUS
<1>1. TypeOK /\ Distinct(list)
  BY DEF PoolInv, Places, Listed
<1>2. ASSUME NEW w \in Worker,
             loop[w] = "poll" \/ running[w] # {} \/ pausing[w] # {}
      PROVE  slots[w] \in 1 .. Concurrency
  <2>1. slots[w] = Cardinality(running[w]) + Cardinality(pausing[w])
                   + (IF loop[w] = "poll" THEN 1 ELSE 0)
    BY DEF PoolInv, SlotAccounting
  <2>2. running[w] \in SUBSET Job /\ pausing[w] \in SUBSET Job /\ slots[w] \in 0 .. Concurrency
    BY <1>1 DEF TypeOK
  <2>3. \A S \in SUBSET Job : Cardinality(S) \in Nat /\ (S # {} => Cardinality(S) # 0)
    BY JobAssumption, FS_Subset, FS_CardinalityType, FS_EmptySet
  <2>4. QED
    BY <1>2, <2>1, <2>2, <2>3, LimitAssumption
<1> USE <1>1, LimitAssumption DEF redisVars, poolVars
<1>3. ASSUME NEW j \in Job, Enqueue(j) PROVE TypeOK'
  BY <1>3, PushStep DEF Enqueue, TypeOK
<1>4. ASSUME NEW w \in Worker, TakeSlot(w) PROVE TypeOK'
  BY <1>4 DEF TakeSlot, TypeOK, Loop
<1>5. ASSUME NEW w \in Worker, DequeueJob(w) PROVE TypeOK'
  BY <1>5, PopStep DEF DequeueJob, TypeOK, Loop
<1>6. ASSUME NEW w \in Worker, DequeueEmpty(w) PROVE TypeOK'
  BY <1>6, <1>2 DEF DequeueEmpty, ReleaseSlot, TypeOK, Loop
<1>7. ASSUME NEW w \in Worker, DequeueGarbled(w) PROVE TypeOK'
  BY <1>7, <1>2, PopStep, JobAssumption
  DEF DequeueGarbled, ReleaseSlot, AfterError, TypeOK, Loop
<1>8. ASSUME NEW w \in Worker, DequeueReplyLost(w) PROVE TypeOK'
  <2>1. slots[w] - 1 \in 0 .. Concurrency
    BY <1>2, <1>8 DEF DequeueReplyLost
  <2>2. list' \in Seq(Job)
    BY <1>8, PopStep DEF DequeueReplyLost
  <2>3. QED
    BY <1>8, <2>1, <2>2 DEF DequeueReplyLost, ReleaseSlot, AfterError, TypeOK, Loop
<1>9. ASSUME NEW w \in Worker, RedisUnreachable(w) \/ DequeueCancelled(w) PROVE TypeOK'
  <2>1. loop[w] = "poll" /\ DequeueFails(w)
    BY <1>9 DEF RedisUnreachable, DequeueCancelled
  <2>2. slots[w] - 1 \in 0 .. Concurrency
    BY <1>2, <2>1
  <2>3. QED
    BY <2>1, <2>2 DEF DequeueFails, ReleaseSlot, AfterError, TypeOK, Loop
<1>10. ASSUME NEW w \in Worker, NEW j \in Job, Succeed(w, j) PROVE TypeOK'
  BY <1>10 DEF Succeed, TypeOK
<1>11. ASSUME NEW w \in Worker, NEW j \in Job, Fail(w, j) PROVE TypeOK'
  <2>1. slots[w] - 1 \in 0 .. Concurrency
    BY <1>2, <1>11 DEF Fail
  <2>2. list' \in Seq(Job)
    BY <1>11, PushStep DEF Fail, Requeue, RequeueFails, TypeOK
  <2>3. /\ retry' = [retry EXCEPT ![j] = retry[j] + 1]
        /\ dead' = dead \/ dead' = dead \union {j}
        /\ misses' = misses \/ misses' = misses + 1
    BY <1>11 DEF Fail, Requeue, RequeueFails
  <2>4. retry' \in [Job -> Nat] /\ dead' \subseteq Job /\ misses' \in Nat
    BY <2>3 DEF TypeOK
  <2>5. QED
    BY <1>11, <2>1, <2>2, <2>4 DEF Fail, ReleaseSlot, TypeOK
<1>12. ASSUME NEW w \in Worker, NEW j \in Job, EndPause(w, j) PROVE TypeOK'
  <2>1. slots[w] - 1 \in 0 .. Concurrency
    BY <1>2, <1>12 DEF EndPause
  <2>2. QED
    BY <1>12, <2>1 DEF EndPause, ReleaseSlot, TypeOK
<1>13. ASSUME NEW w \in Worker, BackoffEnds(w) \/ ObserveCancel(w) \/ DrainReturns(w)
                                \/ Restart(w)
       PROVE TypeOK'
  BY <1>13 DEF BackoffEnds, ObserveCancel, DrainReturns, Restart, TypeOK, Loop
<1>14. ASSUME NEW w \in Worker, Cancel(w) PROVE TypeOK'
  BY <1>14 DEF Cancel, TypeOK
<1>15. ASSUME NEW w \in Worker, Exit(w) \/ Crash(w) PROVE TypeOK'
  <2>1. Die(w)
    BY <1>15 DEF Exit, Crash
  <2>2. kills' \in Nat
    BY <2>1 DEF Die, TypeOK
  <2>3. QED
    BY <2>1, <2>2 DEF Die, TypeOK, Loop
<1>16. CASE RedisToggles
  BY <1>16 DEF RedisToggles, TypeOK
<1>17. CASE UNCHANGED vars
  BY <1>17 DEF vars, TypeOK
<1>18. QED
  BY <1>3, <1>4, <1>5, <1>6, <1>7, <1>8, <1>9, <1>10, <1>11, <1>12, <1>13, <1>14,
     <1>15, <1>16, <1>17 DEF Next, GracefulNext, LoopStep, Dequeue, HandlerEnds

\* Every step that takes a slot takes it for the poll or keeps it for the job,
\* and every step that ends a poll, a handler or a pause gives one back.
LEMMA SlotStep == PoolInv /\ [Next]_vars => SlotAccounting'
<1> SUFFICES ASSUME PoolInv, [Next]_vars, NEW v \in Worker
             PROVE  (slots[v] = Cardinality(running[v]) + Cardinality(pausing[v])
                                + (IF loop[v] = "poll" THEN 1 ELSE 0))'
  BY DEF SlotAccounting
<1> DEFINE Count == Cardinality(running[v]) + Cardinality(pausing[v])
                    + (IF loop[v] = "poll" THEN 1 ELSE 0)
<1>1. TypeOK /\ Places
  BY DEF PoolInv
<1>2. slots[v] = Count
  BY DEF PoolInv, SlotAccounting
<1>3. SUFFICES slots'[v] = Count'
  OBVIOUS
<1>4. /\ Cardinality(running[v]) \in Nat /\ Cardinality(pausing[v]) \in Nat
      /\ slots[v] \in Nat
  BY <1>1, JobAssumption, FS_Subset, FS_CardinalityType DEF TypeOK
<1> USE <1>1, <1>2, <1>4 DEF redisVars, poolVars
<1>5. ASSUME NEW w \in Worker, TakeSlot(w) PROVE slots'[v] = Count'
  BY <1>5 DEF TakeSlot, TypeOK
<1>6. ASSUME NEW w \in Worker, DequeueJob(w) PROVE slots'[v] = Count'
  <2>1. PICK j \in Job : Pop(j) /\ running' = [running EXCEPT ![w] = @ \union {j}]
    BY <1>6 DEF DequeueJob
  <2>2. j \in ToSet(list)
    BY <2>1, PopStep DEF Places, Listed
  <2>3. j \notin running[w]
    BY <2>2 DEF Places, Listed
  <2>4. CASE v = w
    <3>1. running'[v] = running[v] \union {j} /\ loop[v] = "poll" /\ loop'[v] = "select"
      BY <1>6, <2>1, <2>4 DEF DequeueJob, TypeOK
    <3>2. Cardinality(running[v] \union {j}) = Cardinality(running[v]) + 1
      BY <2>3, <2>4, Counts
    <3>3. QED
      BY <1>6, <3>1, <3>2 DEF DequeueJob
  <2>5. CASE v # w
    BY <1>6, <2>1, <2>5 DEF DequeueJob, TypeOK
  <2>6. QED
    BY <2>4, <2>5
<1>7. ASSUME NEW w \in Worker,
             DequeueEmpty(w) \/ DequeueGarbled(w) \/ DequeueReplyLost(w)
             \/ RedisUnreachable(w) \/ DequeueCancelled(w)
      PROVE slots'[v] = Count'
  <2>1. /\ loop[w] = "poll" /\ ReleaseSlot(w)
        /\ loop' = [loop EXCEPT ![w] = "select"] \/ AfterError(w)
        /\ UNCHANGED <<running, pausing>>
    BY <1>7 DEF DequeueEmpty, DequeueGarbled, DequeueReplyLost, RedisUnreachable,
                DequeueCancelled, DequeueFails
  <2>2. loop'[v] = "poll" <=> (v # w /\ loop[v] = "poll")
    BY <2>1 DEF AfterError, TypeOK
  <2>3. slots'[v] = IF v = w THEN slots[v] - 1 ELSE slots[v]
    BY <2>1 DEF ReleaseSlot, TypeOK
  <2>4. QED
    BY <2>1, <2>2, <2>3
<1>8. ASSUME NEW w \in Worker, NEW j \in Job, Succeed(w, j) PROVE slots'[v] = Count'
  <2>1. j \in running[w] /\ j \notin pausing[w]
    BY <1>8 DEF Succeed, Places, Executing, Settled, Live
  <2>2. CASE v = w
    <3>1. running'[v] = running[v] \ {j} /\ pausing'[v] = pausing[v] \union {j}
      BY <1>8, <2>2 DEF Succeed, TypeOK
    <3>2. /\ Cardinality(running[v] \ {j}) = Cardinality(running[v]) - 1
          /\ Cardinality(pausing[v] \union {j}) = Cardinality(pausing[v]) + 1
      BY <2>1, <2>2, Counts
    <3>3. slots' = slots /\ loop' = loop
      BY <1>8 DEF Succeed
    <3>4. QED
      BY <3>1, <3>2, <3>3
  <2>3. CASE v # w
    BY <1>8, <2>3 DEF Succeed, TypeOK
  <2>4. QED
    BY <2>2, <2>3
<1>9. ASSUME NEW w \in Worker, NEW j \in Job, Fail(w, j) PROVE slots'[v] = Count'
  <2>1. CASE v = w
    <3>1. running'[v] = running[v] \ {j} /\ slots'[v] = slots[v] - 1
      BY <1>9, <2>1 DEF Fail, ReleaseSlot, TypeOK
    <3>2. Cardinality(running[v] \ {j}) = Cardinality(running[v]) - 1
      BY <1>9, <2>1, Counts DEF Fail
    <3>3. pausing' = pausing /\ loop' = loop
      BY <1>9 DEF Fail
    <3>4. QED
      BY <3>1, <3>2, <3>3
  <2>2. CASE v # w
    BY <1>9, <2>2 DEF Fail, ReleaseSlot, TypeOK
  <2>3. QED
    BY <2>1, <2>2
<1>10. ASSUME NEW w \in Worker, NEW j \in Job, EndPause(w, j) PROVE slots'[v] = Count'
  <2>1. CASE v = w
    <3>1. pausing'[v] = pausing[v] \ {j} /\ slots'[v] = slots[v] - 1
      BY <1>10, <2>1 DEF EndPause, ReleaseSlot, TypeOK
    <3>2. Cardinality(pausing[v] \ {j}) = Cardinality(pausing[v]) - 1
      BY <1>10, <2>1, Counts DEF EndPause
    <3>3. running' = running /\ loop' = loop
      BY <1>10 DEF EndPause
    <3>4. QED
      BY <3>1, <3>2, <3>3
  <2>2. CASE v # w
    BY <1>10, <2>2 DEF EndPause, ReleaseSlot, TypeOK
  <2>3. QED
    BY <2>1, <2>2
<1>11. ASSUME NEW w \in Worker, BackoffEnds(w) \/ ObserveCancel(w) \/ DrainReturns(w)
                                \/ Restart(w)
       PROVE slots'[v] = Count'
  BY <1>11 DEF BackoffEnds, ObserveCancel, DrainReturns, Restart, TypeOK
<1>12. ASSUME NEW w \in Worker, Exit(w) \/ Crash(w) PROVE slots'[v] = Count'
  <2>1. CASE v = w
    <3>1. slots'[v] = 0 /\ running'[v] = {} /\ pausing'[v] = {} /\ loop'[v] = "down"
      BY <1>12, <2>1 DEF Exit, Crash, Die, TypeOK
    <3>2. QED
      BY <3>1, FS_EmptySet
  <2>2. CASE v # w
    <3>1. /\ slots'[v] = slots[v] /\ running'[v] = running[v]
          /\ pausing'[v] = pausing[v] /\ loop'[v] = loop[v]
      BY <1>12, <2>2 DEF Exit, Crash, Die, TypeOK
    <3>2. QED
      BY <3>1
  <2>3. QED
    BY <2>1, <2>2
<1>13. ASSUME UNCHANGED <<slots, running, pausing, loop>> PROVE slots'[v] = Count'
  BY <1>13
<1>14. QED
  BY <1>5, <1>6, <1>7, <1>8, <1>9, <1>10, <1>11, <1>12, <1>13
  DEF Next, GracefulNext, LoopStep, Dequeue, HandlerEnds, Enqueue, Cancel, RedisToggles, vars

\* A payload moves: from the list to one goroutine, from there back to the
\* list or to an end.  No step copies one, and none revives one at an end.
LEMMA PlacesStep == PoolInv /\ TypeOK' /\ [Next]_vars => Places'
<1> SUFFICES ASSUME PoolInv, TypeOK', [Next]_vars PROVE Places'
  OBVIOUS
<1>1. TypeOK /\ Places /\ Distinct(list) /\ ToSet(list) \subseteq Job
  BY ListedJobs DEF PoolInv, Places, Listed
<1> USE <1>1, LimitAssumption DEF redisVars, poolVars, Places, Listed, Executing, Parked, Settled, Live
\* What the list holds depends on nothing else.
<1>2. list' = list => (Distinct(list)' /\ ToSet(list)' = ToSet(list))
  BY DEF Distinct, ToSet
<1>types. dead \subseteq Job /\ \A w \in Worker : running[w] \subseteq Job
  BY DEF TypeOK
<1>3. ASSUME NEW j \in Job, Enqueue(j) PROVE Places'
  <2>1. j \notin ToSet(list) /\ \A w \in Worker : j \notin running[w]
    BY <1>3 DEF Enqueue
  <2>2. /\ ToSet(list)' = ToSet(list) \union {j} /\ Distinct(list)'
        /\ accepted' = accepted \union {j} /\ retry[j] = 0 /\ j \notin dead \union done
        /\ UNCHANGED <<dead, done, retry, running, pausing>>
    BY <1>3, <2>1, PushStep DEF Enqueue
  <2>3. QED
    BY <2>1, <2>2 DEF TypeOK
<1>4. ASSUME NEW w \in Worker, DequeueJob(w) PROVE Places'
  <2>1. PICK j \in Job : Pop(j) /\ running' = [running EXCEPT ![w] = @ \union {j}]
    BY <1>4 DEF DequeueJob
  <2>2. /\ j \in ToSet(list) /\ ToSet(list)' = ToSet(list) \ {j} /\ Distinct(list)'
        /\ UNCHANGED <<dead, done, retry, accepted, pausing>>
    BY <1>4, <2>1, PopStep DEF DequeueJob
  <2>3. Live(j) /\ \A v \in Worker : j \notin running[v]
    BY <2>2
  <2>4. \A v \in Worker : \A i :
           i \in running'[v] <=> (i \in running[v] \/ (v = w /\ i = j))
    BY <2>1 DEF TypeOK
  <2>5. \A i : Live(i)' <=> Live(i)
    BY <2>2
  <2> HIDE DEF Live
  <2>6. Listed'
    BY <2>2, <2>4, <2>5
  <2>7. Executing'
    <3> SUFFICES ASSUME NEW v \in Worker, NEW i \in running'[v]
                 PROVE  Live(i)' /\ \A u \in Worker \ {v} : i \notin running'[u]
      OBVIOUS
    <3>1. CASE i = j
      BY <2>3, <2>4, <2>5, <3>1
    <3>2. CASE i # j
      <4>1. i \in running[v]
        BY <2>4, <3>2
      <4>2. Live(i) /\ \A u \in Worker \ {v} : i \notin running[u]
        BY <4>1
      <4>3. Live(i)'
        BY <2>5, <4>2
      <4>4. \A u \in Worker \ {v} : i \notin running'[u]
        BY <2>4, <3>2, <4>2
      <4>5. QED
        BY <4>3, <4>4
    <3>3. QED
      BY <3>1, <3>2
  <2>8. Parked' /\ Settled'
    BY <2>2
  <2>9. QED
    BY <2>6, <2>7, <2>8
<1>5. ASSUME NEW w \in Worker, DequeueGarbled(w) PROVE Places'
  <2>1. PICK j \in Garbled :
           /\ retry[j] = 0 /\ Pop(j)
           /\ dead' = dead \/ dead' = dead \union {j}
    BY <1>5 DEF DequeueGarbled
  <2>2. /\ j \in ToSet(list) /\ ToSet(list)' = ToSet(list) \ {j} /\ Distinct(list)'
        /\ UNCHANGED <<done, retry, accepted, pausing, running>>
    BY <1>5, <2>1, PopStep DEF DequeueGarbled
  <2>3. Live(j) /\ \A v \in Worker : j \notin running[v]
    BY <2>2
  <2>4. QED
    BY <2>1, <2>2, <2>3
<1>6. ASSUME NEW w \in Worker, DequeueReplyLost(w) PROVE Places'
  <2>1. PICK j \in Job : Pop(j)
    BY <1>6 DEF DequeueReplyLost
  <2>2. /\ ToSet(list)' = ToSet(list) \ {j} /\ Distinct(list)'
        /\ UNCHANGED <<dead, done, retry, accepted, pausing, running>>
    BY <1>6, <2>1, PopStep DEF DequeueReplyLost
  <2>3. QED
    BY <2>2
<1>7. ASSUME NEW w \in Worker, NEW j \in Job, Succeed(w, j) PROVE Places'
  <2>1. /\ Live(j) /\ j \notin ToSet(list) /\ \A v \in Worker \ {w} : j \notin running[v]
        /\ j \in running[w]
    BY <1>7 DEF Succeed
  <2>2. /\ done' = done \union {j}
        /\ UNCHANGED <<list, dead, retry, accepted>>
        /\ \A v \in Worker :
              /\ running'[v] = IF v = w THEN running[v] \ {j} ELSE running[v]
              /\ pausing'[v] = IF v = w THEN pausing[v] \union {j} ELSE pausing[v]
    BY <1>7 DEF Succeed, TypeOK
  <2>3. \A i \in Job : i # j /\ Live(i) => Live(i)'
    BY <2>2
  <2> HIDE DEF Places, Listed, Executing, Parked, Settled, Live
  <2>4. Listed'
    BY <1>2, <2>1, <2>2, <2>3 DEF Places, Listed
  <2>5. Executing'
    BY <1>types, <2>1, <2>2, <2>3 DEF Places, Executing
  <2>6. Parked'
    BY <2>1, <2>2 DEF Places, Parked, Live
  <2>7. Settled'
    BY <2>1, <2>2 DEF Places, Settled, Live
  <2>8. QED
    BY <2>4, <2>5, <2>6, <2>7 DEF Places
<1>8. ASSUME NEW w \in Worker, NEW j \in Job, Fail(w, j) PROVE Places'
  <2> HIDE DEF Places, Listed, Executing, Parked, Settled, Live
  <2>1. /\ Live(j) /\ j \notin ToSet(list) /\ \A v \in Worker \ {w} : j \notin running[v]
        /\ j \in running[w] /\ retry[j] \in Nat
    BY <1>8 DEF Fail, TypeOK, Places, Listed, Executing
  <2>2. /\ UNCHANGED <<accepted, done, pausing>>
        /\ \A v \in Worker : running'[v] = IF v = w THEN running[v] \ {j} ELSE running[v]
        /\ \A i \in Job : retry'[i] = IF i = j THEN retry[j] + 1 ELSE retry[i]
    <3>1. retry' = [retry EXCEPT ![j] = retry[j] + 1]
      BY <1>8 DEF Fail, Requeue, RequeueFails
    <3>2. UNCHANGED <<accepted, done, pausing>> /\ running' = [running EXCEPT ![w] = @ \ {j}]
      BY <1>8 DEF Fail
    <3>3. QED
      BY <3>1, <3>2 DEF TypeOK
  <2>3. ASSUME dead' \subseteq dead \union {j} PROVE Executing' /\ Settled'
    <3>1. \A i \in Job : i # j /\ Live(i) => Live(i)'
      BY <2>2, <2>3 DEF Live
    <3>2. Executing'
      <4> SUFFICES ASSUME NEW v \in Worker, NEW i \in running'[v]
                   PROVE  Live(i)' /\ \A u \in Worker \ {v} : i \notin running'[u]
        BY DEF Executing
      <4>1. i \in running[v] /\ i # j /\ i \in Job
        BY <1>types, <2>1, <2>2
      <4>2. Live(i)'
        BY <3>1, <4>1 DEF Places, Executing
      <4>3. \A u \in Worker \ {v} : i \notin running[u]
        BY <4>1 DEF Places, Executing
      <4>4. QED
        BY <2>2, <4>2, <4>3
    <3>3. Settled'
      BY <2>1, <2>2 DEF Places, Settled, Live
    <3>4. QED
      BY <3>2, <3>3
  <2>4. ASSUME dead' \subseteq dead \union {j}, j \in dead' => retry'[j] = MaxRetries
        PROVE  Parked'
    <3>1. \A i \in dead' : i # j => i \in dead /\ retry'[i] = retry[i]
      BY <1>types, <2>2, <2>4
    <3>2. j \in accepted /\ j \notin done
      BY <2>1 DEF Live
    <3>3. QED
      BY <2>2, <2>4, <3>1, <3>2 DEF Places, Parked
  <2>5. ASSUME dead' \subseteq dead \union {j}, list' = list PROVE Listed'
    <3>1. \A i \in Job : i # j /\ Live(i) => Live(i)'
      BY <2>2, <2>5 DEF Live
    <3>2. QED
      BY <1>2, <2>1, <2>2, <2>5, <3>1 DEF Places, Listed
  <2>6. CASE /\ retry[j] + 1 >= MaxRetries
             /\ dead' = dead \union {j} /\ list' = list
    <3>1. retry'[j] = MaxRetries
      BY <2>1, <2>2, <2>6 DEF Live
    <3>2. QED
      BY <2>3, <2>4, <2>5, <2>6, <3>1 DEF Places
  <2>7. CASE ~(retry[j] + 1 >= MaxRetries) /\ LPush(j) /\ dead' = dead
    <3>1. ToSet(list)' = ToSet(list) \union {j} /\ Distinct(list)'
      BY <2>1, <2>7, PushStep
    <3>2. \A i \in Job : Live(i) => Live(i)'
      BY <2>1, <2>2, <2>7 DEF Live
    <3>3. Listed'
      BY <2>1, <2>2, <3>1, <3>2 DEF Places, Listed
    <3>4. j \notin dead'
      BY <2>1, <2>7 DEF Live
    <3>5. QED
      BY <2>3, <2>4, <2>7, <3>3, <3>4 DEF Places
  <2>8. CASE UNCHANGED <<list, dead>>
    <3>1. j \notin dead'
      BY <2>1, <2>8 DEF Live
    <3>2. QED
      BY <2>3, <2>4, <2>5, <2>8, <3>1 DEF Places
  <2>9. QED
    BY <1>8, <2>6, <2>7, <2>8 DEF Fail, Requeue, RequeueFails
\* Whatever else happens only lets go of payloads.
<1>9. ASSUME UNCHANGED <<list, dead, retry, accepted, done>>,
             \A v \in Worker : running'[v] \subseteq running[v] /\ pausing'[v] \subseteq pausing[v]
      PROVE  Places'
  BY <1>2, <1>9
<1>10. ASSUME NEW w \in Worker, NEW j \in Job, EndPause(w, j) PROVE Places'
  <2>1. \A v \in Worker : running'[v] \subseteq running[v] /\ pausing'[v] \subseteq pausing[v]
    BY <1>10 DEF EndPause, TypeOK
  <2>2. QED
    BY <1>9, <1>10, <2>1 DEF EndPause
<1>11. ASSUME NEW w \in Worker, Exit(w) \/ Crash(w) PROVE Places'
  <2>1. Die(w)
    BY <1>11 DEF Exit, Crash
  <2>2. \A v \in Worker : running'[v] \subseteq running[v] /\ pausing'[v] \subseteq pausing[v]
    BY <2>1 DEF Die, TypeOK
  <2>3. QED
    BY <1>9, <2>1, <2>2 DEF Die
<1>12. ASSUME UNCHANGED <<list, dead, retry, accepted, done, running, pausing>>
       PROVE  Places'
  BY <1>9, <1>12
<1>13. QED
  BY <1>3, <1>4, <1>5, <1>6, <1>7, <1>8, <1>10, <1>11, <1>12
  DEF Next, GracefulNext, LoopStep, Dequeue, HandlerEnds, TakeSlot, DequeueEmpty,
      RedisUnreachable, DequeueCancelled, DequeueFails, BackoffEnds, ObserveCancel,
      Cancel, DrainReturns, Restart, RedisToggles, vars

-----------------------------------------------------------------------------
\* The invariant holds of an empty list and idle workers.
LEMMA InitPool == Init => PoolInv
<1> SUFFICES ASSUME Init PROVE PoolInv
  OBVIOUS
<1> USE LimitAssumption DEF Init
<1>1. TypeOK
  BY DEF TypeOK, Loop
<1>2. SlotAccounting
  BY FS_EmptySet DEF SlotAccounting
<1>3. Places
  BY DEF Places, Listed, Executing, Parked, Settled, Distinct, ToSet
<1>4. QED
  BY <1>1, <1>2, <1>3 DEF PoolInv

\* The inductive invariant: what the three steps above preserve together.
THEOREM PoolInvariant == Spec => []PoolInv
<1>1. PoolInv /\ [Next]_vars => PoolInv'
  BY TypeStep, SlotStep, PlacesStep DEF PoolInv
<1>2. QED
  BY InitPool, <1>1, PTL DEF Spec

\* Type correctness: len(slots) stays in 0 .. Concurrency.
THEOREM PoolTypeCorrect == Spec => []TypeOK
<1>1. PoolInv => TypeOK
  BY DEF PoolInv
<1>2. QED
  BY PoolInvariant, <1>1, PTL

\* The semaphore is neither leaked nor released twice, so that the pool never
\* runs more goroutines than Concurrency (worker.go's slots channel).
THEOREM SlotsAccounted == Spec => []SlotAccounting
<1>1. PoolInv => SlotAccounting
  BY DEF PoolInv
<1>2. QED
  BY PoolInvariant, <1>1, PTL

\* A payload is never at two places: BRPop gives it to one goroutine, and it is
\* pushed back only by the one that gives it up (queue.go's Dequeue, Requeue).
THEOREM OnePlaceOnly == Spec => []OnePlace
<1>1. PoolInv => OnePlace
  <2> SUFFICES ASSUME PoolInv PROVE OnePlace
    OBVIOUS
  <2>1. Places
    BY DEF PoolInv
  <2>2. \A j \in Held : \E w \in Worker : j \in running[w]
    BY DEF Held
  <2>3. \A j \in Held : Live(j) /\ j \notin ToSet(list)
    BY <2>1, <2>2 DEF Places, Executing, Listed
  <2>4. \A v, w \in Worker : v # w => running[v] \intersect running[w] = {}
    BY <2>1 DEF Places, Executing
  <2>5. ToSet(list) \intersect (Held \union dead \union done) = {}
    BY <2>1, <2>3 DEF Places, Listed, Live
  <2>6. Held \intersect (dead \union done) = {}
    BY <2>3 DEF Live
  <2>7. QED
    BY <2>1, <2>4, <2>5, <2>6 DEF OnePlace, Places, Listed, Parked, Distinct
<1>2. QED
  BY PoolInvariant, <1>1, PTL

\* A payload is tried at most MaxRetries times, and is parked no earlier
\* (queue.go's Requeue).
THEOREM RetriesBounded == Spec => []RetryBudget
<1>1. PoolInv => RetryBudget
  BY DEF PoolInv, Places, Listed, Executing, Parked, Live, RetryBudget, Held
<1>2. QED
  BY PoolInvariant, <1>1, PTL

-----------------------------------------------------------------------------
\* A payload that is nowhere was accepted, and no longer is anywhere.
LEMMA WhatVanished ==
    \A i : i \in Vanished <=>
              /\ i \in accepted /\ i \notin ToSet(list) /\ i \notin dead /\ i \notin done
              /\ \A w \in Worker : i \notin running[w]
BY DEF Vanished, Held

\* One step loses no payload, or one with a miss counted, or those that one
\* dying process executes.
LEMMA Losses ==
    ASSUME PoolInv, [Next]_vars
    PROVE  \/ Vanished' \subseteq Vanished /\ kills' = kills /\ misses' = misses
           \/ \E j \in Job : /\ Vanished' \subseteq Vanished \union {j}
                             /\ kills' = kills /\ misses' = misses + 1
           \/ \E w \in Worker : /\ Vanished' \subseteq Vanished \union running[w]
                                /\ misses' = misses
                                /\ kills' = kills + (IF running[w] = {} THEN 0 ELSE 1)
<1> DEFINE None == Vanished' \subseteq Vanished /\ kills' = kills /\ misses' = misses
           Miss == \E j \in Job : /\ Vanished' \subseteq Vanished \union {j}
                                  /\ kills' = kills /\ misses' = misses + 1
           Death == \E w \in Worker :
                       /\ Vanished' \subseteq Vanished \union running[w]
                       /\ misses' = misses
                       /\ kills' = kills + (IF running[w] = {} THEN 0 ELSE 1)
<1>1. TypeOK /\ Distinct(list)
  BY DEF PoolInv, Places, Listed
<1>2. list' = list => ToSet(list)' = ToSet(list)
  BY DEF ToSet
<1>3. \A i : i \in Vanished' <=>
              /\ i \in accepted' /\ i \notin ToSet(list)' /\ i \notin dead' /\ i \notin done'
              /\ \A w \in Worker : i \notin running'[w]
  BY DEF Vanished, Held
<1> USE <1>1, <1>3, WhatVanished DEF redisVars, poolVars
<1> HIDE DEF None, Miss, Death
<1>4. ASSUME NEW j \in Job, Enqueue(j) PROVE None
  <2>1. /\ accepted' = accepted \union {j} /\ ToSet(list)' = ToSet(list) \union {j}
        /\ UNCHANGED <<dead, done, running, kills, misses>>
    BY <1>4, PushStep DEF Enqueue
  <2>2. QED
    BY <2>1 DEF None
<1>5. ASSUME NEW w \in Worker, DequeueJob(w) PROVE None
  <2>1. PICK j \in Job : Pop(j) /\ running' = [running EXCEPT ![w] = @ \union {j}]
    BY <1>5 DEF DequeueJob
  <2>2. /\ ToSet(list)' = ToSet(list) \ {j}
        /\ UNCHANGED <<dead, done, accepted, kills, misses>>
    BY <1>5, <2>1, PopStep DEF DequeueJob
  <2>3. j \in running'[w] /\ \A v \in Worker : running[v] \subseteq running'[v]
    BY <2>1 DEF TypeOK
  <2>4. QED
    BY <2>2, <2>3 DEF None
<1>6. ASSUME NEW w \in Worker, DequeueGarbled(w) PROVE None \/ Miss
  <2>1. PICK j \in Garbled :
           /\ Pop(j)
           /\ \/ dead' = dead \union {j} /\ misses' = misses
              \/ misses' = misses + 1 /\ dead' = dead
    BY <1>6 DEF DequeueGarbled
  <2>2. /\ j \in Job /\ ToSet(list)' = ToSet(list) \ {j}
        /\ UNCHANGED <<done, accepted, running, kills>>
    BY <1>6, <2>1, PopStep DEF DequeueGarbled
  <2>3. CASE dead' = dead \union {j} /\ misses' = misses
    BY <2>2, <2>3 DEF None
  <2>4. CASE misses' = misses + 1 /\ dead' = dead
    BY <2>2, <2>4 DEF Miss
  <2>5. QED
    BY <2>1, <2>3, <2>4
<1>7. ASSUME NEW w \in Worker, DequeueReplyLost(w) PROVE Miss
  <2>1. PICK j \in Job : Pop(j)
    BY <1>7 DEF DequeueReplyLost
  <2>2. /\ ToSet(list)' = ToSet(list) \ {j} /\ misses' = misses + 1
        /\ UNCHANGED <<dead, done, accepted, running, kills>>
    BY <1>7, <2>1, PopStep DEF DequeueReplyLost
  <2>3. QED
    BY <2>2 DEF Miss
<1>8. ASSUME NEW w \in Worker, NEW j \in Job, Succeed(w, j) PROVE None
  <2>1. /\ done' = done \union {j}
        /\ UNCHANGED <<list, dead, accepted, kills, misses>>
        /\ \A v \in Worker : \A i : i \in running[v] /\ i # j => i \in running'[v]
    BY <1>8 DEF Succeed, TypeOK
  <2>2. QED
    BY <1>2, <2>1 DEF None
<1>9. ASSUME NEW w \in Worker, NEW j \in Job, Fail(w, j) PROVE None \/ Miss
  <2>1. /\ UNCHANGED <<done, accepted, kills>>
        /\ \A v \in Worker : \A i : i \in running[v] /\ i # j => i \in running'[v]
    BY <1>9 DEF Fail, TypeOK
  <2>2. CASE Requeue(j)
    <3>1. CASE dead' = dead \union {j} /\ list' = list /\ misses' = misses
      BY <1>2, <2>1, <3>1 DEF None
    <3>2. CASE LPush(j) /\ dead' = dead /\ misses' = misses
      <4>1. ToSet(list)' = ToSet(list) \union {j}
        BY <3>2, PushStep
      <4>2. QED
        BY <2>1, <3>2, <4>1 DEF None
    <3>3. QED
      BY <2>2, <3>1, <3>2 DEF Requeue
  <2>3. CASE RequeueFails(j)
    BY <1>2, <2>1, <2>3 DEF RequeueFails, Miss
  <2>4. QED
    BY <1>9, <2>2, <2>3 DEF Fail
<1>10. ASSUME NEW w \in Worker, Exit(w) \/ Crash(w) PROVE Death
  <2>1. Die(w)
    BY <1>10 DEF Exit, Crash
  <2>2. /\ UNCHANGED <<list, dead, done, accepted, misses>>
        /\ kills' = kills + (IF running[w] = {} THEN 0 ELSE 1)
        /\ \A v \in Worker \ {w} : running'[v] = running[v]
    BY <2>1 DEF Die, TypeOK
  <2>3. Vanished' \subseteq Vanished \union running[w]
    BY <1>2, <2>2
  <2>4. QED
    BY <2>2, <2>3 DEF Death
<1>11. ASSUME UNCHANGED <<list, dead, accepted, done, running, kills, misses>> PROVE None
  BY <1>2, <1>11 DEF None
<1>12. None \/ Miss \/ Death
  BY <1>4, <1>5, <1>6, <1>7, <1>8, <1>9, <1>10, <1>11
  DEF Next, GracefulNext, LoopStep, Dequeue, HandlerEnds, TakeSlot, DequeueEmpty,
      RedisUnreachable, DequeueCancelled, DequeueFails, EndPause, BackoffEnds,
      ObserveCancel, Cancel, DrainReturns, Restart, RedisToggles, vars
<1>13. QED
  BY <1>12 DEF None, Miss, Death

\* A payload is lost only with the process that executes it, at most
\* Concurrency at a time, or when Redis fails between the pop and the push back
\* (worker.go's run, queue.go's Dequeue).
THEOREM LossIsBounded == Spec => []BoundedLoss
<1>1. Init => BoundedLoss
  <2> SUFFICES ASSUME Init PROVE BoundedLoss
    OBVIOUS
  <2>1. Vanished = {} /\ kills = 0 /\ misses = 0
    BY DEF Init, Vanished
  <2>2. QED
    BY <2>1, FS_EmptySet, LimitAssumption DEF BoundedLoss
<1>2. PoolInv /\ PoolInv' /\ BoundedLoss /\ [Next]_vars => BoundedLoss'
  <2> SUFFICES ASSUME PoolInv, PoolInv', BoundedLoss, [Next]_vars
               PROVE  Cardinality(Vanished') <= kills' * Concurrency + misses'
    BY DEF BoundedLoss
  <2>1. /\ Vanished \in SUBSET Job /\ Vanished' \in SUBSET Job
        /\ kills \in Nat /\ misses \in Nat
        /\ \A w \in Worker : running[w] \in SUBSET Job
    BY DEF PoolInv, TypeOK, Vanished
  <2>2. \A S \in SUBSET Job : IsFiniteSet(S) /\ Cardinality(S) \in Nat
    BY JobAssumption, FS_Subset, FS_CardinalityType
  <2>3. \A S, T \in SUBSET Job : S \subseteq T => Cardinality(S) <= Cardinality(T)
    BY <2>2, FS_Subset
  <2>4. \A S, T \in SUBSET Job : Cardinality(S \union T) <= Cardinality(S) + Cardinality(T)
    <3> TAKE S, T \in SUBSET Job
    <3>1. S \intersect T \in SUBSET Job
      OBVIOUS
    <3>2. Cardinality(S \union T) = Cardinality(S) + Cardinality(T) - Cardinality(S \intersect T)
      BY <2>2, FS_Union
    <3>3. QED
      BY <2>2, <3>1, <3>2
  <2>5. Cardinality(Vanished) <= kills * Concurrency + misses
    BY DEF BoundedLoss
  <2>6. CASE Vanished' \subseteq Vanished /\ kills' = kills /\ misses' = misses
    <3>1. Cardinality(Vanished') <= Cardinality(Vanished)
      BY <2>1, <2>3, <2>6
    <3>2. QED
      BY <2>1, <2>2, <2>5, <2>6, <3>1, LimitAssumption
  <2>7. ASSUME NEW j \in Job, Vanished' \subseteq Vanished \union {j},
               kills' = kills, misses' = misses + 1
        PROVE  Cardinality(Vanished') <= kills' * Concurrency + misses'
    <3>1. Cardinality(Vanished \union {j}) <= Cardinality(Vanished) + 1
      BY <2>1, <2>2, FS_AddElement
    <3>2. Cardinality(Vanished') <= Cardinality(Vanished \union {j})
      BY <2>1, <2>3, <2>7
    <3>3. QED
      BY <2>1, <2>2, <2>5, <2>7, <3>1, <3>2, LimitAssumption
  <2>8. ASSUME NEW w \in Worker, Vanished' \subseteq Vanished \union running[w],
               misses' = misses, kills' = kills + (IF running[w] = {} THEN 0 ELSE 1)
        PROVE  Cardinality(Vanished') <= kills' * Concurrency + misses'
    <3>1. CASE running[w] = {}
      <4>1. Vanished' \subseteq Vanished /\ kills' = kills
        BY <2>1, <2>8, <3>1
      <4>2. QED
        BY <2>6, <2>8, <4>1
    <3>2. CASE running[w] # {}
      <4>1. Cardinality(running[w]) <= Concurrency
        <5>1. /\ slots[w] = Cardinality(running[w]) + Cardinality(pausing[w])
                            + (IF loop[w] = "poll" THEN 1 ELSE 0)
              /\ slots[w] \in 0 .. Concurrency /\ pausing[w] \in SUBSET Job
          BY DEF PoolInv, SlotAccounting, TypeOK
        <5>2. QED
          BY <2>1, <2>2, <5>1, LimitAssumption
      <4>2. Cardinality(Vanished') <= Cardinality(Vanished) + Cardinality(running[w])
        <5>1. Cardinality(Vanished') <= Cardinality(Vanished \union running[w])
          BY <2>1, <2>3, <2>8
        <5>2. /\ Cardinality(Vanished') \in Nat /\ Cardinality(Vanished) \in Nat
              /\ Cardinality(running[w]) \in Nat
              /\ Cardinality(Vanished \union running[w]) \in Nat
          BY <2>1, <2>2
        <5>3. Cardinality(Vanished \union running[w])
              <= Cardinality(Vanished) + Cardinality(running[w])
          BY <2>1, <2>4
        <5>4. QED
          BY <5>1, <5>2, <5>3
      <4>3. kills' * Concurrency = kills * Concurrency + Concurrency
        <5>1. \A k, c \in Nat : (k + 1) * c = k * c + c
          OBVIOUS
        <5>2. kills' = kills + 1
          BY <2>8, <3>2
        <5>3. QED
          BY <2>1, <5>1, <5>2, LimitAssumption
      <4>4. kills * Concurrency \in Nat
        BY <2>1, LimitAssumption
      <4>5. QED
        BY <2>1, <2>2, <2>5, <2>8, <4>1, <4>2, <4>3, <4>4, LimitAssumption
    <3>3. QED
      BY <3>1, <3>2
  <2>9. QED
    BY <2>6, <2>7, <2>8, Losses
<1>3. QED
  BY PoolInvariant, <1>1, <1>2, PTL DEF Spec
=============================================================================
