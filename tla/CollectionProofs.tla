-------------------------- MODULE CollectionProofs --------------------------
(***************************************************************************)
(* Safety of a collection for any source, limit, page size, number of      *)
(* handlers, retries and faults.                                           *)
(***************************************************************************)
EXTENDS Collection, FiniteSetTheorems, SequenceTheorems, TLAPS

Errors ==
    {p \in DOMAIN source.offer : p <= Served /\ Treatment(source.offer[p]) = "error"}
Upto(S, n) == {p \in S : p <= n}
Before(n) == {q \in Sent : q < n}

\* Nothing happens before the row is there.
Unborn ==
    /\ api = "new" => row = NoRow
    /\ row = NoRow =>
          /\ api \in {"new", "refused"} /\ list = <<>> /\ stored = {}
          /\ \A h \in Handler : worker[h].at = "idle"

\* What a run that is still reading holds is what the source has up to there,
\* and the limit was not reached before the last record it read.
Reading(h) ==
    /\ worker[h].pos <= Len(source.offer) /\ worker[h].pos <= Served
    /\ worker[h].got = Upto(Sent, worker[h].pos)
    /\ worker[h].bad = Cardinality(Upto(Errors, worker[h].pos))
    /\ \A p \in 1 .. worker[h].pos : Cardinality(Before(p)) < limit

Whole(h) == worker[h].got = Wanted /\ worker[h].bad = Cardinality(Flawed)

Run(h) ==
    /\ worker[h].at \in {"begin", "mark", "scrape"} => Reading(h)
    /\ worker[h].at \in {"insert", "complete", "completed"} => Whole(h)
    /\ worker[h].at \in {"complete", "completed"} =>
          stored = Wanted /\ worker[h].new <= Cardinality(Wanted)
    /\ worker[h].at \in {"mark", "completed", "failed"} => worker[h].copy # NoRow

AllOrNothing == stored \in {{}, Wanted}

\* Unless the push went wrong there is one copy of the job.
PushedOnce == mishaps \intersect {"twice", "lost reply"} = {}
OneCopy ==
    PushedOnce =>
        /\ api \in {"new", "push", "refuse"} =>
              /\ list = <<>> /\ stored = {}
              /\ \A h \in Handler : worker[h].at = "idle"
        /\ Len(list) <= 1
        /\ list # <<>> => \A h \in Handler : worker[h].at = "idle"
        /\ \A g, h \in Handler :
              worker[g].at # "idle" /\ worker[h].at # "idle" => g = h

\* A run that was not disturbed has said that it is running, and what it has
\* stored is not followed by another attempt.
Calm == mishaps \intersect {"twice", "lost reply", "unknown commit", "unwritten"} = {}
Undisturbed ==
    Calm =>
        /\ \A h \in Handler : worker[h].at \in {"scrape", "insert"} => row.status = "running"
        /\ stored # {} =>
              /\ row.status \in {"running", "completed"} /\ list = <<>>
              /\ \A h \in Handler : worker[h].at \in {"idle", "complete", "completed"}

CollectionInv ==
    /\ TypeOK
    /\ Unborn
    /\ \A h \in Handler : Run(h)
    /\ AllOrNothing
    /\ CompletedIsWhole
    /\ OneCopy
    /\ Undisturbed
    /\ EndIsTold

-----------------------------------------------------------------------------
(* The list.                                                                *)

LEMMA Pushed ==
    ASSUME NEW S, NEW s \in Seq(S), NEW x \in S
    PROVE  <<x>> \o s \in Seq(S) /\ Len(<<x>> \o s) = Len(s) + 1
OBVIOUS

LEMMA PushedTwice ==
    ASSUME NEW S, NEW s \in Seq(S), NEW x \in S
    PROVE  <<x, x>> \o s \in Seq(S) /\ Len(<<x, x>> \o s) = Len(s) + 2
OBVIOUS

LEMMA Popped ==
    ASSUME NEW S, NEW s \in Seq(S), s # <<>>
    PROVE  /\ Front(s) \in Seq(S) /\ Last(s) \in S
           /\ Len(Front(s)) = Len(s) - 1
<1>1. Len(s) \in Nat \ {0} /\ DOMAIN s = 1 .. Len(s)
  OBVIOUS
<1>2. Last(s) \in S
  BY <1>1 DEF Last
<1>3. Len(s) - 1 \in 0 .. Len(s)
  BY <1>1
<1>4. /\ SubSeq(s, 1, Len(s) - 1) \in Seq(S)
      /\ Len(SubSeq(s, 1, Len(s) - 1)) = Len(s) - 1
  BY <1>1, <1>3, SubSeqProperties
<1>5. QED
  BY <1>2, <1>4 DEF Front

-----------------------------------------------------------------------------
(* The source, and how many of its records there are.                       *)

LEMMA Source ==
    ASSUME TypeOK
    PROVE  /\ Len(source.offer) \in Nat
           /\ DOMAIN source.offer = 1 .. Len(source.offer)
           /\ Served \in Nat
           /\ limit \in Nat \ {0}
<1>1. source.offer \in Seq(Record)
  BY SourceAssumption DEF TypeOK
<1>2. limit \in Nat \ {0}
  BY LimitAssumption DEF TypeOK
<1>3. PageSize * MaxPages \in Nat
  BY LimitAssumption
<1>4. QED
  BY <1>1, <1>2, <1>3 DEF Served

LEMMA Counted ==
    ASSUME TypeOK, NEW S, S \subseteq DOMAIN source.offer
    PROVE  /\ IsFiniteSet(S) /\ Cardinality(S) \in Nat
           /\ \A T : T \subseteq S => Cardinality(T) \in Nat /\ Cardinality(T) <= Cardinality(S)
<1>1. IsFiniteSet(1 .. Len(source.offer))
  <2>1. Len(source.offer) \in Int /\ 1 \in Int
    BY Source
  <2>2. QED
    BY <2>1, FS_Interval
<1>2. IsFiniteSet(S)
  BY <1>1, Source, FS_Subset
<1>3. \A T : T \subseteq S => IsFiniteSet(T) /\ Cardinality(T) <= Cardinality(S)
  BY <1>2, FS_Subset
<1>4. QED
  BY <1>2, <1>3, FS_CardinalityType

\* What the request names is among the records of the source.
LEMMA Named ==
    /\ Sent \subseteq DOMAIN source.offer /\ Errors \subseteq DOMAIN source.offer
    /\ Wanted \subseteq DOMAIN source.offer /\ Flawed \subseteq DOMAIN source.offer
    /\ \A n : /\ Upto(Sent, n) \subseteq DOMAIN source.offer
              /\ Upto(Errors, n) \subseteq DOMAIN source.offer
              /\ Before(n) \subseteq DOMAIN source.offer
BY DEF Sent, Errors, Wanted, Flawed, Upto, Before

\* It does not change once the request is made.
LEMMA Fixed ==
    ASSUME source' = source, limit' = limit
    PROVE  /\ Served' = Served /\ Sent' = Sent /\ Errors' = Errors
           /\ Wanted' = Wanted /\ Flawed' = Flawed
<1>1. Served' = Served
  BY DEF Served
<1>2. \A r : Treatment(r)' = Treatment(r)
  BY DEF Treatment
<1>3. Sent' = Sent /\ Errors' = Errors
  BY <1>1, <1>2 DEF Sent, Errors
<1>4. Wanted' = Wanted
  BY <1>3 DEF Wanted
<1>5. Flawed' = Flawed
  BY <1>1, <1>2, <1>3 DEF Flawed
<1>6. QED
  BY <1>1, <1>3, <1>4, <1>5

\* A record that is sent is one more than those before it.
LEMMA OneMore ==
    ASSUME TypeOK, NEW p \in Sent
    PROVE  /\ Upto(Sent, p) = Before(p) \union {p}
           /\ Cardinality(Before(p)) \in Nat
           /\ Cardinality(Upto(Sent, p)) = Cardinality(Before(p)) + 1
<1>1. Sent \subseteq Nat
  BY Source, Named
<1>2. Upto(Sent, p) = Before(p) \union {p} /\ p \notin Before(p)
  <2>1. \A q \in Sent : q <= p <=> (q < p \/ q = p)
    BY <1>1
  <2>2. p \in Sent /\ p <= p /\ ~(p < p)
    BY <1>1
  <2>3. \A q : q \in Upto(Sent, p) <=> q \in Before(p) \/ q = p
    BY <2>1, <2>2 DEF Upto, Before
  <2>4. p \notin Before(p)
    BY <2>2 DEF Before
  <2>5. QED
    BY <2>3, <2>4
<1>3. IsFiniteSet(Before(p)) /\ Cardinality(Before(p)) \in Nat
  BY Counted, Named
<1>4. QED
  BY <1>2, <1>3, FS_AddElement

\* A run that has nothing more to read, or all it may send, is whole.
LEMMA EndOfRun ==
    ASSUME TypeOK, NEW h \in Handler, Reading(h), AtLimit(h) \/ Exhausted(h)
    PROVE  Whole(h)
<1> DEFINE pos == worker[h].pos
<1>1. pos \in Nat
  BY DEF TypeOK, Worker
<1>2. /\ pos <= Len(source.offer) /\ pos <= Served
      /\ worker[h].got = Upto(Sent, pos)
      /\ \A p \in 1 .. pos : Cardinality(Before(p)) < limit
  BY DEF Reading
<1>3. \/ Cardinality(Upto(Sent, pos)) >= limit
      \/ pos >= Len(source.offer) \/ pos >= Served
  BY <1>2 DEF AtLimit, Exhausted
<1> HIDE DEF pos
<1>4. Sent \subseteq 1 .. Len(source.offer) /\ Errors \subseteq 1 .. Len(source.offer)
  BY Source, Named
<1>5. \A p \in Sent \union Errors : p <= Served
  BY DEF Sent, Errors
<1>6. ASSUME NEW p \in 1 .. Len(source.offer), p <= Served, p > pos
      PROVE  Cardinality(Before(p)) \in Nat /\ Cardinality(Before(p)) >= limit
  <2>1. Cardinality(Upto(Sent, pos)) >= limit
    BY <1>1, <1>2, <1>3, <1>6, Source
  <2>2. Upto(Sent, pos) \subseteq Before(p)
    <3>1. \A q \in Sent : q <= pos => q < p
      BY <1>1, <1>4, <1>6
    <3>2. QED
      BY <3>1 DEF Upto, Before
  <2>3. /\ Cardinality(Before(p)) \in Nat /\ Cardinality(Upto(Sent, pos)) \in Nat
        /\ Cardinality(Upto(Sent, pos)) <= Cardinality(Before(p))
    BY <2>2, Counted, Named
  <2>4. QED
    BY <2>1, <2>3, Source
<1>7. \A p \in Sent : p \in Wanted <=> p <= pos
  <2> TAKE p \in Sent
  <2>1. /\ Cardinality(Before(p)) \in Nat
        /\ Cardinality(Upto(Sent, p)) = Cardinality(Before(p)) + 1
    BY OneMore
  <2>2. p \in Wanted <=> Cardinality(Upto(Sent, p)) <= limit
    BY DEF Wanted, Upto
  <2>3. CASE p <= pos
    <3>1. Cardinality(Before(p)) < limit
      BY <1>1, <1>2, <1>4, <2>3
    <3>2. QED
      BY <2>1, <2>2, <2>3, <3>1, Source
  <2>4. CASE p > pos
    <3>1. Cardinality(Before(p)) >= limit
      BY <1>4, <1>5, <1>6, <2>4
    <3>2. QED
      BY <1>1, <1>4, <2>1, <2>2, <2>4, <3>1, Source
  <2>5. QED
    BY <1>1, <1>4, <2>3, <2>4
<1>8. Upto(Sent, pos) = Wanted
  BY <1>7 DEF Upto, Wanted
<1>9. \A p \in Errors : p \in Flawed <=> p <= pos
  <2> TAKE p \in Errors
  <2>1. p \in Flawed <=> Cardinality(Before(p)) < limit
    BY DEF Errors, Flawed, Before
  <2>2. p \in Nat /\ Cardinality(Before(p)) \in Nat
    BY <1>4, Counted, Named
  <2>3. CASE p <= pos
    BY <1>1, <1>2, <1>4, <2>1, <2>3
  <2>4. CASE p > pos
    <3>1. Cardinality(Before(p)) >= limit
      BY <1>4, <1>5, <1>6, <2>4
    <3>2. QED
      BY <1>1, <2>1, <2>2, <2>4, <3>1, Source
  <2>5. QED
    BY <1>1, <2>2, <2>3, <2>4
<1>10. Flawed \subseteq Errors
  BY DEF Flawed, Errors
<1>11. Upto(Errors, pos) = Flawed
  BY <1>9, <1>10 DEF Upto
<1>12. worker[h].bad = Cardinality(Upto(Errors, pos))
  BY DEF Reading, pos
<1>13. QED
  BY <1>2, <1>8, <1>11, <1>12 DEF Whole

-----------------------------------------------------------------------------
(* What a step of one handler leaves alone.                                 *)

Place == {"idle", "begin", "mark", "scrape", "insert",
          "complete", "completed", "fail", "failed"}

\* Handler h goes to a place and no other moves.
Turn(h, to) ==
    /\ worker' \in [Handler -> Worker]
    /\ worker'[h].at = to
    /\ \A g \in Handler \ {h} : worker'[g] = worker[g]

\* It keeps what it has read.
Keeps(h) ==
    /\ worker'[h].pos = worker[h].pos
    /\ worker'[h].got = worker[h].got
    /\ worker'[h].bad = worker[h].bad

Remembers ==
    /\ mishaps \subseteq mishaps' /\ mishaps' \subseteq Mishap
    /\ faults' \in 0 .. MaxFaults

LEMMA GoesWrong ==
    ASSUME TypeOK, NEW wrong \in Mishap, Goes(wrong)
    PROVE  Remembers /\ wrong \in mishaps'
BY BoundAssumption DEF TypeOK, Goes, Remembers

LEMMA GoesSmoothly ==
    ASSUME TypeOK, UNCHANGED <<mishaps, faults>>
    PROVE  Remembers
BY DEF TypeOK, Remembers

LEMMA WorkerFields ==
    ASSUME NEW w \in Worker
    PROVE  /\ w.at \in Place /\ w.tries \in 0 .. MaxRetries /\ w.late \in BOOLEAN
           /\ w.pos \in Nat /\ w.got \subseteq Nat /\ w.bad \in Nat /\ w.new \in Nat
           /\ w.copy \in Row \union {NoRow}
BY DEF Worker, Place

LEMMA IdleFields ==
    Idle \in Worker /\ Idle.at = "idle" /\ Idle.pos = 0 /\ Idle.got = {} /\ Idle.bad = 0
BY BoundAssumption DEF Idle, Worker

LEMMA MovesTo ==
    ASSUME NEW w \in Worker, NEW to \in Place
    PROVE  /\ [w EXCEPT !.at = to] \in Worker
           /\ [w EXCEPT !.at = to].at = to
           /\ [w EXCEPT !.at = to].pos = w.pos
           /\ [w EXCEPT !.at = to].got = w.got
           /\ [w EXCEPT !.at = to].bad = w.bad
           /\ [w EXCEPT !.at = to].new = w.new
           /\ [w EXCEPT !.at = to].copy = w.copy
BY DEF Worker, Place

LEMMA Replaced ==
    ASSUME TypeOK, NEW h \in Handler, NEW w \in Worker,
           worker' = [worker EXCEPT ![h] = w]
    PROVE  Turn(h, w.at) /\ worker'[h] = w
BY DEF TypeOK, Turn

LEMMA Moved ==
    ASSUME TypeOK, NEW h \in Handler, NEW to \in Place, Moves(h, to)
    PROVE  /\ Turn(h, to) /\ Keeps(h)
           /\ worker'[h].copy = worker[h].copy /\ worker'[h].new = worker[h].new
<1>1. worker[h] \in Worker
  BY DEF TypeOK
<1>2. PICK w : w = [worker[h] EXCEPT !.at = to]
  OBVIOUS
<1>3. /\ w \in Worker /\ w.at = to /\ w.pos = worker[h].pos /\ w.got = worker[h].got
      /\ w.bad = worker[h].bad /\ w.new = worker[h].new /\ w.copy = worker[h].copy
  BY <1>1, <1>2, MovesTo
<1>4. worker' = [worker EXCEPT ![h] = w]
  BY <1>2 DEF Moves
<1>5. QED
  BY <1>3, <1>4, Replaced DEF Keeps

LEMMA Stopped ==
    ASSUME TypeOK, NEW h \in Handler, Stops(h)
    PROVE  Turn(h, "idle")
BY IdleFields, Replaced DEF Stops

LEMMA Requeued ==
    ASSUME TypeOK, NEW h \in Handler, Requeue(h)
    PROVE  /\ Turn(h, "idle")
           /\ list' \in Seq(0 .. MaxRetries) /\ Len(list') <= Len(list) + 1
<1>1. Turn(h, "idle")
  BY Stopped DEF Requeue
<1>2. worker[h].tries \in 0 .. MaxRetries /\ list \in Seq(0 .. MaxRetries) /\ Len(list) \in Nat
  BY WorkerFields DEF TypeOK
<1>3. PICK n : n = worker[h].tries + 1
  OBVIOUS
<1>4. list' = IF n >= MaxRetries THEN list ELSE <<n>> \o list
  BY <1>3 DEF Requeue
<1>5. CASE n >= MaxRetries
  BY <1>1, <1>2, <1>4, <1>5
<1>6. CASE ~(n >= MaxRetries)
  <2>1. n \in 0 .. MaxRetries
    BY <1>2, <1>3, <1>6, BoundAssumption
  <2>2. <<n>> \o list \in Seq(0 .. MaxRetries) /\ Len(<<n>> \o list) = Len(list) + 1
    BY <1>2, <2>1, Pushed
  <2>3. QED
    BY <1>1, <1>2, <1>4, <1>6, <2>2
<1>7. QED
  BY <1>5, <1>6

LEMMA TypeKept ==
    ASSUME TypeOK, source' = source, limit' \in 1 .. MaxLimit, row' \in Row \union {NoRow},
           api' \in {"new", "push", "refuse", "accepted", "refused"},
           list' \in Seq(0 .. MaxRetries), worker' \in [Handler -> Worker],
           stored' \subseteq DOMAIN source.offer, Remembers
    PROVE  TypeOK'
BY DEF TypeOK, Remembers

\* A job is run for a request whose row is there.
LEMMA Born ==
    ASSUME TypeOK, Unborn, NEW h \in Handler, worker[h].at # "idle"
    PROVE  row \in Row /\ row # NoRow /\ api # "new"
BY DEF TypeOK, Unborn

LEMMA RowIsThere ==
    ASSUME NEW r \in Row
    PROVE  r # NoRow
<1>1. r.status # "none"
  BY DEF Row
<1>2. QED
  BY <1>1 DEF NoRow

LEMMA Alone ==
    ASSUME OneCopy, PushedOnce, NEW h \in Handler, worker[h].at # "idle"
    PROVE  /\ list = <<>> /\ api \notin {"new", "push", "refuse"}
           /\ \A g \in Handler \ {h} : worker[g].at = "idle"
BY DEF OneCopy

LEMMA CalmBefore ==
    ASSUME Remembers
    PROVE  /\ Calm' => Calm
           /\ Calm => PushedOnce
           /\ PushedOnce' => PushedOnce
BY DEF Remembers, Calm, PushedOnce

LEMMA ReadingKept ==
    ASSUME source' = source, limit' = limit, NEW h \in Handler, Keeps(h), Reading(h)
    PROVE  Reading(h)'
<1>1. /\ Served' = Served /\ Sent' = Sent /\ Errors' = Errors
  BY Fixed
<1>2. \A n : /\ Upto(Sent, n)' = Upto(Sent, n) /\ Upto(Errors, n)' = Upto(Errors, n)
            /\ Before(n)' = Before(n)
  BY <1>1 DEF Upto, Before
<1>3. QED
  BY <1>1, <1>2 DEF Reading, Keeps

LEMMA WholeKept ==
    ASSUME source' = source, limit' = limit, NEW h \in Handler, Keeps(h), Whole(h)
    PROVE  Whole(h)'
BY Fixed DEF Whole, Keeps

LEMMA OthersRun ==
    ASSUME source' = source, limit' = limit, stored' = stored \/ stored' = Wanted,
           \A g \in Handler : Run(g), NEW h \in Handler, NEW to, Turn(h, to), Run(h)'
    PROVE  \A g \in Handler : Run(g)'
<1> SUFFICES ASSUME NEW g \in Handler, g # h PROVE Run(g)'
  OBVIOUS
<1>1. worker'[g] = worker[g]
  BY DEF Turn
<1>2. Keeps(g)
  BY <1>1 DEF Keeps
<1>3. (Reading(g) => Reading(g)') /\ (Whole(g) => Whole(g)')
  BY <1>2, ReadingKept, WholeKept
<1>4. (stored = Wanted => (stored = Wanted)') /\ Wanted' = Wanted
  BY Fixed
<1>5. QED
  BY <1>1, <1>3, <1>4 DEF Run

LEMMA CompletedKept ==
    ASSUME source' = source, limit' = limit, row' = row, stored' = stored \/ stored' = Wanted,
           CompletedIsWhole
    PROVE  CompletedIsWhole'
BY Fixed DEF CompletedIsWhole

LEMMA NotCompleted ==
    ASSUME row'.status # "completed"
    PROVE  CompletedIsWhole'
BY DEF CompletedIsWhole

\* A handler that goes on.
LEMMA Going ==
    ASSUME CollectionInv, NEW h \in Handler, worker[h].at # "idle",
           NEW to \in Place \ {"idle"}, Turn(h, to), row' \in Row,
           source' = source, limit' = limit, api' = api, list' = list,
           stored' = stored \/ stored' = Wanted, Remembers
    PROVE  TypeOK' /\ Unborn' /\ AllOrNothing' /\ OneCopy' /\ EndIsTold'
<1>1. TypeOK /\ Unborn /\ AllOrNothing /\ OneCopy
  BY DEF CollectionInv
<1>2. row # NoRow /\ api # "new" /\ row' # NoRow
  BY <1>1, Born, RowIsThere
<1>3. TypeOK'
  <2>1. stored' \subseteq DOMAIN source.offer
    BY <1>1, Named DEF TypeOK
  <2>2. limit' \in 1 .. MaxLimit /\ list' \in Seq(0 .. MaxRetries)
        /\ api' \in {"new", "push", "refuse", "accepted", "refused"}
    BY <1>1 DEF TypeOK
  <2>3. QED
    BY <1>1, <2>1, <2>2, TypeKept DEF Turn
<1>4. Unborn'
  BY <1>2 DEF Unborn
<1>5. AllOrNothing'
  BY <1>1, Fixed DEF AllOrNothing
<1>6. worker'[h].at # "idle" /\ \A g \in Handler \ {h} : worker'[g] = worker[g]
  BY DEF Turn
<1>7. OneCopy'
  <2>1. SUFFICES ASSUME PushedOnce' PROVE OneCopy'
    BY DEF OneCopy
  <2>2. /\ list = <<>> /\ api \notin {"new", "push", "refuse"}
        /\ \A g \in Handler \ {h} : worker[g].at = "idle"
    BY <1>1, <2>1, CalmBefore, Alone
  <2>3. QED
    BY <1>6, <2>2 DEF OneCopy
<1>8. EndIsTold'
  BY <1>6 DEF EndIsTold, Settled
<1>9. QED
  BY <1>3, <1>4, <1>5, <1>7, <1>8

LEMMA GoingUndisturbed ==
    ASSUME CollectionInv, NEW h \in Handler, worker[h].at # "idle",
           NEW to \in Place \ {"idle"}, Turn(h, to), list' = list, Remembers,
           Calm' => /\ to \in {"scrape", "insert"} => row'.status = "running"
                    /\ stored' # {} => /\ row'.status \in {"running", "completed"}
                                       /\ to \in {"complete", "completed"}
    PROVE  Undisturbed'
<1> SUFFICES ASSUME Calm' PROVE Undisturbed'
  BY DEF Undisturbed
<1>1. /\ list = <<>>
      /\ \A g \in Handler \ {h} : worker[g].at = "idle"
  BY CalmBefore, Alone DEF CollectionInv
<1>2. \A g \in Handler \ {h} : worker'[g].at = "idle"
  BY <1>1 DEF Turn
<1>3. worker'[h].at = to
  BY DEF Turn
<1>4. QED
  BY <1>1, <1>2, <1>3 DEF Undisturbed

\* A handler that comes to its end.
LEMMA Stopping ==
    ASSUME CollectionInv, NEW h \in Handler, worker[h].at # "idle", Turn(h, "idle"),
           row' \in Row, source' = source, limit' = limit, api' = api, stored' = stored,
           list' \in Seq(0 .. MaxRetries), Len(list') <= Len(list) + 1, Remembers,
           \/ row'.status \in {"completed", "failed"}
           \/ mishaps' \intersect {"unwritten", "killed", "dropped", "unregistered"} # {}
    PROVE  /\ TypeOK' /\ Unborn' /\ AllOrNothing' /\ OneCopy' /\ EndIsTold'
           /\ \A g \in Handler : Run(g)'
<1>1. TypeOK /\ Unborn /\ AllOrNothing /\ OneCopy /\ \A g \in Handler : Run(g)
  BY DEF CollectionInv
<1>2. row # NoRow /\ api # "new" /\ row' # NoRow
  BY <1>1, Born, RowIsThere
<1>3. TypeOK'
  <2>1. /\ stored' \subseteq DOMAIN source.offer /\ limit' \in 1 .. MaxLimit
        /\ api' \in {"new", "push", "refuse", "accepted", "refused"}
    BY <1>1 DEF TypeOK
  <2>2. QED
    BY <1>1, <2>1, TypeKept DEF Turn
<1>4. Unborn'
  BY <1>2 DEF Unborn
<1>5. AllOrNothing'
  BY <1>1, Fixed DEF AllOrNothing
<1>6. worker'[h].at = "idle" /\ \A g \in Handler \ {h} : worker'[g] = worker[g]
  BY DEF Turn
<1>7. OneCopy'
  <2>1. SUFFICES ASSUME PushedOnce' PROVE OneCopy'
    BY DEF OneCopy
  <2>2. /\ list = <<>> /\ api \notin {"new", "push", "refuse"}
        /\ \A g \in Handler \ {h} : worker[g].at = "idle"
    BY <1>1, <2>1, CalmBefore, Alone
  <2>3. \A g \in Handler : worker'[g].at = "idle"
    BY <1>6, <2>2
  <2>4. Len(list') <= 1
    BY <2>2
  <2>5. QED
    BY <2>2, <2>3, <2>4 DEF OneCopy
<1>8. EndIsTold'
  BY DEF EndIsTold
<1>9. Run(h)'
  BY <1>6 DEF Run
<1>10. \A g \in Handler : Run(g)'
  BY <1>1, <1>9, OthersRun
<1>11. QED
  BY <1>3, <1>4, <1>5, <1>7, <1>8, <1>10

LEMMA StoppingUndisturbed ==
    ASSUME CollectionInv, NEW h \in Handler, worker[h].at # "idle", Turn(h, "idle"),
           Remembers,
           Calm' /\ stored' # {} =>
               row'.status \in {"running", "completed"} /\ list' = <<>>
    PROVE  Undisturbed'
<1> SUFFICES ASSUME Calm' PROVE Undisturbed'
  BY DEF Undisturbed
<1>1. \A g \in Handler \ {h} : worker[g].at = "idle"
  BY CalmBefore, Alone DEF CollectionInv
<1>2. \A g \in Handler : worker'[g].at = "idle"
  BY <1>1 DEF Turn
<1>3. QED
  BY <1>2 DEF Undisturbed

-----------------------------------------------------------------------------
(* The steps of a handler.                                                  *)

\* What a handler may rely on at a place.
LEMMA RunAt ==
    ASSUME CollectionInv, NEW h \in Handler
    PROVE  /\ TypeOK /\ Unborn /\ AllOrNothing /\ CompletedIsWhole /\ OneCopy
           /\ Undisturbed /\ \A g \in Handler : Run(g)
           /\ worker[h].at \in {"begin", "mark", "scrape"} => Reading(h)
           /\ worker[h].at \in {"insert", "complete", "completed"} => Whole(h)
           /\ worker[h].at \in {"complete", "completed"} =>
                 stored = Wanted /\ worker[h].new <= Cardinality(Wanted)
           /\ worker[h].at \in {"mark", "completed", "failed"} =>
                 worker[h].copy \in Row
<1>1. worker[h].copy \in Row \union {NoRow}
  BY WorkerFields DEF CollectionInv, TypeOK
<1>2. QED
  BY <1>1 DEF CollectionInv, Run

LEMMA Expired ==
    ASSUME CollectionInv, NEW h \in Handler, Expire(h)
    PROVE  CollectionInv'
<1>1. PICK w : w = [worker[h] EXCEPT !.late = TRUE]
  OBVIOUS
<1>2. worker[h] \in Worker
  BY RunAt DEF TypeOK
<1>3. /\ w \in Worker /\ w.at = worker[h].at /\ w.pos = worker[h].pos
      /\ w.got = worker[h].got /\ w.bad = worker[h].bad /\ w.new = worker[h].new
      /\ w.copy = worker[h].copy
  BY <1>1, <1>2 DEF Worker
<1>4. worker' = [worker EXCEPT ![h] = w]
  BY <1>1 DEF Expire
<1>5. Turn(h, worker[h].at) /\ worker'[h] = w
  BY <1>3, <1>4, RunAt, Replaced
<1>6. /\ worker[h].at \in Place \ {"idle"}
      /\ source' = source /\ limit' = limit /\ row' = row /\ api' = api /\ list' = list
      /\ stored' = stored /\ mishaps' = mishaps /\ faults' = faults
  BY <1>2, WorkerFields DEF Expire
<1>7. row' \in Row /\ Remembers
  BY <1>6, Born, RunAt, GoesSmoothly
<1>8. TypeOK' /\ Unborn' /\ AllOrNothing' /\ OneCopy' /\ EndIsTold'
  BY <1>5, <1>6, <1>7, Going
<1>9. Keeps(h)
  BY <1>3, <1>5 DEF Keeps
<1>10. (Reading(h) => Reading(h)') /\ (Whole(h) => Whole(h)') /\ Wanted' = Wanted
  BY <1>6, <1>9, ReadingKept, WholeKept, Fixed
<1>11. Run(h)'
  BY <1>3, <1>5, <1>6, <1>10, RunAt DEF Run
<1>12. \A g \in Handler : Run(g)'
  BY <1>5, <1>6, <1>11, RunAt, OthersRun
<1>13. CompletedIsWhole'
  BY <1>6, RunAt, CompletedKept
<1>14. Undisturbed'
  <2>1. Undisturbed /\ Calm' = Calm
    BY <1>6, RunAt DEF Calm
  <2>2. \A g \in Handler : worker'[g].at = worker[g].at
    BY <1>3, <1>5 DEF Turn
  <2>3. QED
    BY <1>6, <2>1, <2>2 DEF Undisturbed
<1>15. QED
  BY <1>8, <1>12, <1>13, <1>14 DEF CollectionInv

\* A handler remembers the row.
LEMMA Remembered ==
    ASSUME CollectionInv, NEW h \in Handler, NEW from \in Place \ {"idle"},
           NEW to \in Place \ {"idle"}, Reads(h, from, to)
    PROVE  /\ Turn(h, to) /\ Keeps(h) /\ worker[h].at = from
           /\ worker'[h].new = worker[h].new /\ worker'[h].copy \in Row
           /\ worker'[h].copy # NoRow
           /\ source' = source /\ limit' = limit /\ row' = row /\ api' = api
           /\ list' = list /\ stored' = stored /\ mishaps' = mishaps /\ faults' = faults
           /\ row' \in Row /\ Remembers
           /\ TypeOK' /\ Unborn' /\ AllOrNothing' /\ OneCopy' /\ EndIsTold'
           /\ CompletedIsWhole'
<1>1. PICK w : w = [[worker[h] EXCEPT !.at = to] EXCEPT !.copy = row]
  OBVIOUS
<1>2. worker[h] \in Worker /\ row \in Row /\ row # NoRow /\ worker[h].at = from
  BY RunAt, Born DEF TypeOK, Reads
<1>3. PICK v : v = [worker[h] EXCEPT !.at = to]
  OBVIOUS
<1>4. /\ v \in Worker /\ v.at = to /\ v.pos = worker[h].pos
      /\ v.got = worker[h].got /\ v.bad = worker[h].bad /\ v.new = worker[h].new
  BY <1>2, <1>3, MovesTo
<1>5. w = [v EXCEPT !.copy = row]
  BY <1>1, <1>3
<1>6. /\ w \in Worker /\ w.at = to /\ w.pos = worker[h].pos
      /\ w.got = worker[h].got /\ w.bad = worker[h].bad /\ w.new = worker[h].new
      /\ w.copy = row
  BY <1>2, <1>4, <1>5 DEF Worker
<1>7. worker' = [worker EXCEPT ![h] = w]
  BY <1>1, <1>2 DEF Reads, TypeOK
<1>8. Turn(h, to) /\ worker'[h] = w
  BY <1>6, <1>7, RunAt, Replaced
<1>9. /\ source' = source /\ limit' = limit /\ row' = row /\ api' = api /\ list' = list
      /\ stored' = stored /\ mishaps' = mishaps /\ faults' = faults
  BY DEF Reads
<1>10. row' \in Row /\ Remembers
  BY <1>2, <1>9, RunAt, GoesSmoothly
<1>11. TypeOK' /\ Unborn' /\ AllOrNothing' /\ OneCopy' /\ EndIsTold'
  BY <1>2, <1>8, <1>9, <1>10, Going
<1>12. CompletedIsWhole'
  BY <1>9, RunAt, CompletedKept
<1>13. QED
  BY <1>2, <1>6, <1>8, <1>9, <1>10, <1>11, <1>12 DEF Keeps

LEMMA ReadsToMark ==
    ASSUME CollectionInv, NEW h \in Handler, ReadToMark(h)
    PROVE  CollectionInv'
<1>1. Reads(h, "begin", "mark") /\ "begin" \in Place \ {"idle"} /\ "mark" \in Place \ {"idle"}
  BY DEF ReadToMark, Place
<1>2. /\ Turn(h, "mark") /\ Keeps(h) /\ worker[h].at = "begin" /\ worker'[h].copy # NoRow
      /\ source' = source /\ limit' = limit /\ row' = row /\ list' = list
      /\ stored' = stored /\ mishaps' = mishaps /\ Remembers
      /\ TypeOK' /\ Unborn' /\ AllOrNothing' /\ OneCopy' /\ EndIsTold' /\ CompletedIsWhole'
  BY <1>1, Remembered
<1>3. Reading(h)'
  BY <1>2, RunAt, ReadingKept
<1>4. Run(h)'
  BY <1>2, <1>3 DEF Run, Turn
<1>5. \A g \in Handler : Run(g)'
  BY <1>2, <1>4, RunAt, OthersRun
<1>6. Undisturbed'
  <2>1. Calm' => stored' = {}
    BY <1>2, RunAt DEF Undisturbed, Calm
  <2>2. QED
    BY <1>1, <1>2, <2>1, GoingUndisturbed
<1>7. QED
  BY <1>2, <1>5, <1>6 DEF CollectionInv

LEMMA ReadsToComplete ==
    ASSUME CollectionInv, NEW h \in Handler, ReadToComplete(h)
    PROVE  CollectionInv'
<1>1. /\ Reads(h, "complete", "completed")
      /\ "complete" \in Place \ {"idle"} /\ "completed" \in Place \ {"idle"}
  BY DEF ReadToComplete, Place
<1>2. /\ Turn(h, "completed") /\ Keeps(h) /\ worker[h].at = "complete"
      /\ worker'[h].copy # NoRow /\ worker'[h].new = worker[h].new
      /\ source' = source /\ limit' = limit /\ row' = row /\ list' = list
      /\ stored' = stored /\ mishaps' = mishaps /\ Remembers
      /\ TypeOK' /\ Unborn' /\ AllOrNothing' /\ OneCopy' /\ EndIsTold' /\ CompletedIsWhole'
  BY <1>1, Remembered
<1>3. Whole(h)' /\ Wanted' = Wanted
  BY <1>2, RunAt, WholeKept, Fixed
<1>4. Run(h)'
  BY <1>2, <1>3, RunAt DEF Run, Turn
<1>5. \A g \in Handler : Run(g)'
  BY <1>2, <1>4, RunAt, OthersRun
<1>6. Undisturbed'
  <2>1. Calm' /\ stored' # {} => row'.status \in {"running", "completed"}
    BY <1>2, RunAt DEF Undisturbed, Calm
  <2>2. QED
    BY <1>1, <1>2, <2>1, GoingUndisturbed
<1>7. QED
  BY <1>2, <1>5, <1>6 DEF CollectionInv

LEMMA ReadsToFail ==
    ASSUME CollectionInv, NEW h \in Handler, ReadToFail(h)
    PROVE  CollectionInv'
<1>1. /\ Reads(h, "fail", "failed")
      /\ "fail" \in Place \ {"idle"} /\ "failed" \in Place \ {"idle"}
  BY DEF ReadToFail, Place
<1>2. /\ Turn(h, "failed") /\ Keeps(h) /\ worker[h].at = "fail" /\ worker'[h].copy # NoRow
      /\ source' = source /\ limit' = limit /\ row' = row /\ list' = list
      /\ stored' = stored /\ mishaps' = mishaps /\ Remembers
      /\ TypeOK' /\ Unborn' /\ AllOrNothing' /\ OneCopy' /\ EndIsTold' /\ CompletedIsWhole'
  BY <1>1, Remembered
<1>3. Run(h)'
  BY <1>2 DEF Run, Turn
<1>4. \A g \in Handler : Run(g)'
  BY <1>2, <1>3, RunAt, OthersRun
<1>5. Undisturbed'
  <2>1. Calm' => stored' = {}
    BY <1>2, RunAt DEF Undisturbed, Calm
  <2>2. QED
    BY <1>1, <1>2, <2>1, GoingUndisturbed
<1>6. QED
  BY <1>2, <1>4, <1>5 DEF CollectionInv

LEMMA MarksRunning ==
    ASSUME CollectionInv, NEW h \in Handler, MarkRunning(h)
    PROVE  CollectionInv'
<1>1. /\ worker[h].at = "mark" /\ Moves(h, "scrape")
      /\ row' = [worker[h].copy EXCEPT !.status = "running", !.started = TRUE]
      /\ source' = source /\ limit' = limit /\ api' = api /\ list' = list
      /\ stored' = stored /\ mishaps' = mishaps /\ faults' = faults
  BY DEF MarkRunning, Writes, Smoothly
<1>2. "scrape" \in Place \ {"idle"}
  BY DEF Place
<1>3. TypeOK /\ worker[h].copy \in Row
  BY <1>1, RunAt
<1>4. row' \in Row /\ row'.status = "running"
  <2>1. PICK c \in Row : c = worker[h].copy
    BY <1>3
  <2>2. [c EXCEPT !.status = "running", !.started = TRUE] \in Row
    BY DEF Row
  <2>3. [c EXCEPT !.status = "running", !.started = TRUE].status = "running"
    BY DEF Row
  <2>4. QED
    BY <1>1, <2>1, <2>2, <2>3
<1>5. Turn(h, "scrape") /\ Keeps(h)
  BY <1>1, <1>2, <1>3, Moved
<1>6. Remembers
  BY <1>1, <1>3, GoesSmoothly
<1>7. TypeOK' /\ Unborn' /\ AllOrNothing' /\ OneCopy' /\ EndIsTold'
  BY <1>1, <1>2, <1>4, <1>5, <1>6, Going
<1>8. Reading(h)'
  BY <1>1, <1>5, RunAt, ReadingKept
<1>9. Run(h)'
  BY <1>5, <1>8 DEF Run, Turn
<1>10. \A g \in Handler : Run(g)'
  BY <1>1, <1>5, <1>9, RunAt, OthersRun
<1>11. CompletedIsWhole'
  BY <1>4, NotCompleted
<1>12. Undisturbed'
  <2>1. Calm' => stored' = {}
    BY <1>1, RunAt DEF Undisturbed, Calm
  <2>2. QED
    BY <1>1, <1>2, <1>4, <1>5, <1>6, <2>1, GoingUndisturbed
<1>13. QED
  BY <1>7, <1>10, <1>11, <1>12 DEF CollectionInv

LEMMA MissedWrite ==
    ASSUME CollectionInv, NEW h \in Handler, NEW steps, Misses(h, steps)
    PROVE  /\ worker[h].at \in steps /\ "unwritten" \in mishaps' /\ Remembers
           /\ source' = source /\ limit' = limit /\ row' = row /\ api' = api
           /\ stored' = stored /\ ~Calm'
<1>1. TypeOK
  BY RunAt
<1>2. /\ worker[h].at \in steps
      /\ source' = source /\ limit' = limit /\ row' = row /\ api' = api /\ stored' = stored
  BY DEF Misses
<1>3. "unwritten" \in Mishap
  BY DEF Mishap
<1>4. Remembers /\ "unwritten" \in mishaps'
  <2>1. CASE worker[h].late
    BY <1>1, <1>3, <2>1 DEF Misses, Remembers, TypeOK
  <2>2. CASE ~worker[h].late
    BY <1>1, <1>3, <2>2, GoesWrong DEF Misses
  <2>3. QED
    BY <2>1, <2>2
<1>5. QED
  BY <1>2, <1>4 DEF Calm

LEMMA MissesMark ==
    ASSUME CollectionInv, NEW h \in Handler, MarkMisses(h)
    PROVE  CollectionInv'
<1>1. Misses(h, {"begin", "mark"}) /\ Moves(h, "scrape") /\ list' = list
  BY DEF MarkMisses
<1>2. "scrape" \in Place \ {"idle"}
  BY DEF Place
<1>3. /\ worker[h].at \in {"begin", "mark"} /\ Remembers
      /\ source' = source /\ limit' = limit /\ row' = row /\ api' = api
      /\ stored' = stored /\ ~Calm'
  BY <1>1, MissedWrite
<1>4. TypeOK /\ worker[h].at # "idle" /\ row \in Row
  BY <1>3, RunAt, Born
<1>5. Turn(h, "scrape") /\ Keeps(h)
  BY <1>1, <1>2, <1>4, Moved
<1>6. TypeOK' /\ Unborn' /\ AllOrNothing' /\ OneCopy' /\ EndIsTold'
  BY <1>1, <1>2, <1>3, <1>4, <1>5, Going
<1>7. Reading(h)'
  BY <1>3, <1>5, RunAt, ReadingKept
<1>8. Run(h)'
  BY <1>5, <1>7 DEF Run, Turn
<1>9. \A g \in Handler : Run(g)'
  BY <1>3, <1>5, <1>8, RunAt, OthersRun
<1>10. CompletedIsWhole'
  BY <1>3, RunAt, CompletedKept
<1>11. Undisturbed'
  BY <1>3 DEF Undisturbed
<1>12. QED
  BY <1>6, <1>9, <1>10, <1>11 DEF CollectionInv

-----------------------------------------------------------------------------
(* The adapter and the insert.                                              *)

\* One record more: what was read is what the source has up to it.
LEMMA ReadOneMore ==
    ASSUME TypeOK, NEW h \in Handler, Reading(h), ~AtLimit(h), ~Exhausted(h),
           NEW next, next = worker[h].pos + 1,
           NEW does, does = Treatment(source.offer[next]),
           source' = source, limit' = limit,
           worker'[h].pos = next,
           worker'[h].got = IF does = "send" THEN worker[h].got \union {next}
                            ELSE worker[h].got,
           worker'[h].bad = IF does = "error" THEN worker[h].bad + 1 ELSE worker[h].bad
    PROVE  Reading(h)'
<1> DEFINE pos == worker[h].pos
<1>1. pos \in Nat
  BY WorkerFields DEF TypeOK
<1>2. /\ worker[h].got = Upto(Sent, pos)
      /\ worker[h].bad = Cardinality(Upto(Errors, pos))
      /\ \A p \in 1 .. pos : Cardinality(Before(p)) < limit
  BY DEF Reading
<1>3. pos < Len(source.offer) /\ pos < Served
  BY <1>1, Source DEF Exhausted
<1>4. next = pos + 1
  OBVIOUS
<1>5. ~(Cardinality(Upto(Sent, pos)) >= limit)
  BY <1>2 DEF AtLimit
<1> HIDE DEF pos
<1>6. next \in DOMAIN source.offer /\ next <= Len(source.offer) /\ next <= Served
  BY <1>1, <1>3, <1>4, Source
<1>7. (next \in Sent <=> does = "send") /\ (next \in Errors <=> does = "error")
  BY <1>6 DEF Sent, Errors
<1>8. \A p \in DOMAIN source.offer : p <= next <=> p <= pos \/ p = next
  BY <1>1, <1>4, Source
<1>9. Upto(Sent, next) = IF does = "send" THEN Upto(Sent, pos) \union {next}
                         ELSE Upto(Sent, pos)
  <2>1. \A p : p \in Upto(Sent, next) <=> p \in Upto(Sent, pos) \/ (p = next /\ next \in Sent)
    BY <1>6, <1>8, Named DEF Upto
  <2>2. QED
    BY <1>7, <2>1
<1>10. Cardinality(Upto(Errors, next))
          = IF does = "error" THEN Cardinality(Upto(Errors, pos)) + 1
            ELSE Cardinality(Upto(Errors, pos))
  <2>1. \A p : p \in Upto(Errors, next)
                  <=> p \in Upto(Errors, pos) \/ (p = next /\ next \in Errors)
    BY <1>6, <1>8, Named DEF Upto
  <2>2. IsFiniteSet(Upto(Errors, pos))
    BY Counted, Named
  <2>3. next \notin Upto(Errors, pos)
    BY <1>1, <1>4 DEF Upto
  <2>4. CASE does = "error"
    <3>1. Upto(Errors, next) = Upto(Errors, pos) \union {next}
      BY <1>7, <2>1, <2>4
    <3>2. QED
      BY <2>2, <2>3, <2>4, <3>1, FS_AddElement
  <2>5. CASE does # "error"
    <3>1. Upto(Errors, next) = Upto(Errors, pos)
      BY <1>7, <2>1, <2>5
    <3>2. QED
      BY <2>5, <3>1
  <2>6. QED
    BY <2>4, <2>5
<1>11. \A p \in 1 .. next : Cardinality(Before(p)) < limit
  <2>1. Before(next) = Upto(Sent, pos)
    <3>1. \A q \in DOMAIN source.offer : q < next <=> q <= pos
      BY <1>1, <1>4, Source
    <3>2. QED
      BY <3>1, Named DEF Before, Upto
  <2>2. Cardinality(Before(next)) \in Nat
    BY Counted, Named
  <2>3. Cardinality(Before(next)) < limit
    BY <1>5, <2>1, <2>2, Source
  <2>4. \A p \in 1 .. next : p \in 1 .. pos \/ p = next
    BY <1>1, <1>4
  <2>5. QED
    BY <1>2, <2>3, <2>4
<1>12. /\ Served' = Served /\ Sent' = Sent /\ Errors' = Errors
  BY Fixed
<1>13. \A n : /\ Upto(Sent, n)' = Upto(Sent, n) /\ Upto(Errors, n)' = Upto(Errors, n)
             /\ Before(n)' = Before(n)
  BY <1>12 DEF Upto, Before
<1>14. worker'[h].got = Upto(Sent, next)
  BY <1>2, <1>9
<1>15. worker'[h].bad = Cardinality(Upto(Errors, next))
  BY <1>2, <1>10
<1>16. QED
  BY <1>6, <1>11, <1>12, <1>13, <1>14, <1>15 DEF Reading

LEMMA Transfers ==
    ASSUME CollectionInv, NEW h \in Handler, Transfer(h)
    PROVE  CollectionInv'
<1>1. /\ worker[h].at = "scrape" /\ ~AtLimit(h) /\ ~Exhausted(h)
      /\ source' = source /\ limit' = limit /\ row' = row /\ api' = api /\ list' = list
      /\ stored' = stored /\ mishaps' = mishaps /\ faults' = faults
  BY DEF Transfer
<1>2. PICK next : next = worker[h].pos + 1
  OBVIOUS
<1>3. PICK does : does = Treatment(source.offer[next])
  OBVIOUS
<1>4. TypeOK /\ Reading(h) /\ worker[h] \in Worker /\ row \in Row
  BY <1>1, RunAt, Born DEF TypeOK
<1>5. PICK got : got = IF does = "send" THEN worker[h].got \union {next} ELSE worker[h].got
  OBVIOUS
<1>6. PICK bad : bad = IF does = "error" THEN worker[h].bad + 1 ELSE worker[h].bad
  OBVIOUS
<1>7. next \in Nat /\ got \in SUBSET Nat /\ bad \in Nat
  BY <1>2, <1>4, <1>5, <1>6, WorkerFields
<1>8. PICK w : w = [worker[h] EXCEPT !.pos = next, !.got = got, !.bad = bad]
  OBVIOUS
<1>9. /\ w \in Worker /\ w.at = "scrape" /\ w.pos = next /\ w.got = got /\ w.bad = bad
  BY <1>1, <1>4, <1>7, <1>8 DEF Worker
<1>10. worker' = [worker EXCEPT ![h] = w]
  <2>1. worker' = [worker EXCEPT ![h].pos = next,
                          ![h].got = IF does = "send" THEN @ \union {next} ELSE @,
                          ![h].bad = IF does = "error" THEN @ + 1 ELSE @]
    BY <1>2, <1>3 DEF Transfer
  <2>2. worker' = [worker EXCEPT ![h] = [worker[h] EXCEPT !.pos = next,
                          !.got = IF does = "send" THEN worker[h].got \union {next}
                                  ELSE worker[h].got,
                          !.bad = IF does = "error" THEN worker[h].bad + 1
                                  ELSE worker[h].bad]]
    BY <1>4, <2>1 DEF TypeOK, Worker
  <2>3. QED
    BY <1>5, <1>6, <1>8, <2>2
<1>11. Turn(h, "scrape") /\ worker'[h] = w
  BY <1>4, <1>9, <1>10, Replaced
<1>12. Reading(h)'
  BY <1>1, <1>2, <1>3, <1>4, <1>5, <1>6, <1>9, <1>11, ReadOneMore
<1>13. "scrape" \in Place \ {"idle"} /\ Remembers
  BY <1>1, <1>4, GoesSmoothly DEF Place
<1>14. TypeOK' /\ Unborn' /\ AllOrNothing' /\ OneCopy' /\ EndIsTold'
  BY <1>1, <1>4, <1>11, <1>13, Going
<1>15. Run(h)'
  BY <1>11, <1>12 DEF Run, Turn
<1>16. \A g \in Handler : Run(g)'
  BY <1>1, <1>11, <1>15, RunAt, OthersRun
<1>17. CompletedIsWhole'
  BY <1>1, RunAt, CompletedKept
<1>18. Undisturbed'
  <2>1. Calm' => stored' = {} /\ row'.status = "running"
    BY <1>1, RunAt DEF Undisturbed, Calm
  <2>2. QED
    BY <1>1, <1>11, <1>13, <2>1, GoingUndisturbed
<1>19. QED
  BY <1>14, <1>16, <1>17, <1>18 DEF CollectionInv

LEMMA ScrapeFailing ==
    ASSUME CollectionInv, NEW h \in Handler, ScrapeFails(h)
    PROVE  CollectionInv'
<1>1. /\ worker[h].at = "scrape" /\ Moves(h, "fail")
      /\ source' = source /\ limit' = limit /\ row' = row /\ api' = api /\ list' = list
      /\ stored' = stored /\ mishaps' = mishaps /\ faults' = faults
  BY DEF ScrapeFails
<1>2. TypeOK /\ row \in Row /\ "fail" \in Place \ {"idle"}
  BY <1>1, RunAt, Born DEF Place
<1>3. Turn(h, "fail") /\ Remembers
  BY <1>1, <1>2, Moved, GoesSmoothly
<1>4. TypeOK' /\ Unborn' /\ AllOrNothing' /\ OneCopy' /\ EndIsTold'
  BY <1>1, <1>2, <1>3, Going
<1>5. Run(h)'
  BY <1>3 DEF Run, Turn
<1>6. \A g \in Handler : Run(g)'
  BY <1>1, <1>3, <1>5, RunAt, OthersRun
<1>7. CompletedIsWhole'
  BY <1>1, RunAt, CompletedKept
<1>8. Undisturbed'
  <2>1. Calm' => stored' = {}
    BY <1>1, RunAt DEF Undisturbed, Calm
  <2>2. QED
    BY <1>1, <1>2, <1>3, <2>1, GoingUndisturbed
<1>9. QED
  BY <1>4, <1>6, <1>7, <1>8 DEF CollectionInv

LEMMA ScrapeEnding ==
    ASSUME CollectionInv, NEW h \in Handler, ScrapeEnds(h)
    PROVE  CollectionInv'
<1>1. /\ worker[h].at = "scrape" /\ Moves(h, "insert") /\ (AtLimit(h) \/ Exhausted(h))
      /\ source' = source /\ limit' = limit /\ row' = row /\ api' = api /\ list' = list
      /\ stored' = stored /\ mishaps' = mishaps /\ faults' = faults
  BY DEF ScrapeEnds
<1>2. TypeOK /\ row \in Row /\ "insert" \in Place \ {"idle"} /\ Reading(h)
  BY <1>1, RunAt, Born DEF Place
<1>3. Turn(h, "insert") /\ Keeps(h) /\ Remembers
  BY <1>1, <1>2, Moved, GoesSmoothly
<1>4. TypeOK' /\ Unborn' /\ AllOrNothing' /\ OneCopy' /\ EndIsTold'
  BY <1>1, <1>2, <1>3, Going
<1>5. Whole(h)'
  BY <1>1, <1>2, <1>3, EndOfRun, WholeKept
<1>6. Run(h)'
  BY <1>3, <1>5 DEF Run, Turn
<1>7. \A g \in Handler : Run(g)'
  BY <1>1, <1>3, <1>6, RunAt, OthersRun
<1>8. CompletedIsWhole'
  BY <1>1, RunAt, CompletedKept
<1>9. Undisturbed'
  <2>1. Calm' => stored' = {} /\ row'.status = "running"
    BY <1>1, RunAt DEF Undisturbed, Calm
  <2>2. QED
    BY <1>1, <1>2, <1>3, <2>1, GoingUndisturbed
<1>10. QED
  BY <1>4, <1>7, <1>8, <1>9 DEF CollectionInv

\* What is stored is stored as a whole.
LEMMA StoredWhole ==
    ASSUME CollectionInv, NEW h \in Handler, worker[h].at = "insert"
    PROVE  /\ stored \union worker[h].got = Wanted
           /\ Cardinality(worker[h].got \ stored) \in Nat
           /\ Cardinality(worker[h].got \ stored) <= Cardinality(Wanted)
<1>1. worker[h].got = Wanted /\ stored \in {{}, Wanted} /\ TypeOK
  BY RunAt DEF Whole, AllOrNothing
<1>2. worker[h].got \ stored \subseteq Wanted
  BY <1>1
<1>3. QED
  BY <1>1, <1>2, Counted, Named

LEMMA Inserts ==
    ASSUME CollectionInv, NEW h \in Handler, Insert(h)
    PROVE  CollectionInv'
<1>1. /\ worker[h].at = "insert" /\ stored' = Wanted
      /\ source' = source /\ limit' = limit /\ row' = row /\ api' = api /\ list' = list
      /\ mishaps' = mishaps /\ faults' = faults
  BY StoredWhole DEF Insert
<1>2. PICK new : new = Cardinality(worker[h].got \ stored)
  OBVIOUS
<1>3. new \in Nat /\ new <= Cardinality(Wanted)
  BY <1>1, <1>2, StoredWhole
<1>4. TypeOK /\ row \in Row /\ "complete" \in Place \ {"idle"} /\ worker[h] \in Worker
  BY <1>1, RunAt, Born DEF Place, TypeOK
<1>5. PICK w : w = [worker[h] EXCEPT !.at = "complete", !.new = new]
  OBVIOUS
<1>6. /\ w \in Worker /\ w.at = "complete" /\ w.new = new /\ w.pos = worker[h].pos
      /\ w.got = worker[h].got /\ w.bad = worker[h].bad
  BY <1>3, <1>4, <1>5 DEF Worker
<1>7. worker' = [worker EXCEPT ![h] = w]
  BY <1>2, <1>4, <1>5 DEF Insert, TypeOK, Worker
<1>8. Turn(h, "complete") /\ worker'[h] = w
  BY <1>4, <1>6, <1>7, Replaced
<1>9. Remembers
  BY <1>1, <1>4, GoesSmoothly
<1>10. TypeOK' /\ Unborn' /\ AllOrNothing' /\ OneCopy' /\ EndIsTold'
  BY <1>1, <1>4, <1>8, <1>9, Going
<1>11. Keeps(h)
  BY <1>6, <1>8 DEF Keeps
<1>12. Whole(h)' /\ Wanted' = Wanted
  BY <1>1, <1>11, RunAt, WholeKept, Fixed
<1>13. Run(h)'
  BY <1>1, <1>3, <1>6, <1>8, <1>12 DEF Run
<1>14. \A g \in Handler : Run(g)'
  BY <1>1, <1>8, <1>13, RunAt, OthersRun
<1>15. CompletedIsWhole'
  BY <1>1, RunAt, CompletedKept
<1>16. Undisturbed'
  <2>1. Calm' => row'.status = "running"
    BY <1>1, RunAt DEF Undisturbed, Calm
  <2>2. QED
    BY <1>1, <1>4, <1>8, <1>9, <2>1, GoingUndisturbed
<1>17. QED
  BY <1>10, <1>14, <1>15, <1>16 DEF CollectionInv

LEMMA InsertFailing ==
    ASSUME CollectionInv, NEW h \in Handler, InsertFails(h)
    PROVE  CollectionInv'
<1>1. /\ worker[h].at = "insert" /\ Moves(h, "fail")
      /\ source' = source /\ limit' = limit /\ row' = row /\ api' = api /\ list' = list
  BY DEF InsertFails
<1>2. TypeOK /\ row \in Row /\ "fail" \in Place \ {"idle"} /\ "unknown commit" \in Mishap
  BY <1>1, RunAt, Born DEF Place, Mishap
<1>3. /\ Remembers
      /\ stored' = stored \/ (stored' = Wanted /\ ~Calm')
  <2>1. CASE stored' = stored /\ Smoothly
    BY <1>2, <2>1, GoesSmoothly DEF Smoothly
  <2>2. CASE stored' = stored \union worker[h].got /\ Goes("unknown commit")
    BY <1>1, <1>2, <2>2, StoredWhole, GoesWrong DEF Calm
  <2>3. QED
    BY <2>1, <2>2 DEF InsertFails
<1>4. Turn(h, "fail")
  BY <1>1, <1>2, Moved
<1>5. TypeOK' /\ Unborn' /\ AllOrNothing' /\ OneCopy' /\ EndIsTold'
  BY <1>1, <1>2, <1>3, <1>4, Going
<1>6. Run(h)'
  BY <1>4 DEF Run, Turn
<1>7. \A g \in Handler : Run(g)'
  BY <1>1, <1>3, <1>4, <1>6, RunAt, OthersRun
<1>8. CompletedIsWhole'
  BY <1>1, <1>3, RunAt, CompletedKept
<1>9. Undisturbed'
  <2>1. Calm' => stored' = {}
    BY <1>1, <1>3, RunAt, CalmBefore DEF Undisturbed
  <2>2. QED
    BY <1>1, <1>2, <1>3, <1>4, <2>1, GoingUndisturbed
<1>10. QED
  BY <1>5, <1>7, <1>8, <1>9 DEF CollectionInv

-----------------------------------------------------------------------------
(* The ends of a run, and its beginning.                                    *)

LEMMA Completes ==
    ASSUME CollectionInv, NEW h \in Handler, CompleteJob(h)
    PROVE  CollectionInv'
<1>1. /\ worker[h].at = "completed" /\ Stops(h) /\ row' = Completed(h)
      /\ source' = source /\ limit' = limit /\ api' = api /\ list' = list
      /\ stored' = stored /\ mishaps' = mishaps /\ faults' = faults
  BY DEF CompleteJob, Writes, Smoothly
<1>2. /\ TypeOK /\ worker[h].copy \in Row /\ worker[h] \in Worker
      /\ worker[h].got = Wanted /\ worker[h].bad = Cardinality(Flawed)
      /\ stored = Wanted /\ worker[h].new <= Cardinality(Wanted)
  BY <1>1, RunAt DEF Whole, TypeOK
<1>3. PICK found : found = Cardinality(Wanted)
  OBVIOUS
<1>4. PICK bad : bad = worker[h].bad
  OBVIOUS
<1>5. PICK new : new = worker[h].new
  OBVIOUS
<1>6. found \in Nat /\ bad \in Nat /\ new \in Nat
  BY <1>2, <1>3, <1>4, <1>5, WorkerFields, Counted, Named
<1>7. PICK c \in Row : c = worker[h].copy
  BY <1>2
<1>8. PICK r : r = [c EXCEPT !.status = "completed", !.ended = TRUE, !.bad = bad,
                             !.found = found, !.new = new]
  OBVIOUS
<1>9. r.status = "completed" /\ r.found = found /\ r.bad = bad /\ r.new = new
  BY <1>8 DEF Row
<1>10. r \in Row
  BY <1>6, <1>8 DEF Row
<1>11. row' = r
  BY <1>1, <1>2, <1>3, <1>4, <1>5, <1>7, <1>8 DEF Completed
<1>12. Turn(h, "idle") /\ Remembers
  BY <1>1, <1>2, Stopped, GoesSmoothly
<1>13. list' \in Seq(0 .. MaxRetries) /\ Len(list') <= Len(list) + 1
  BY <1>1, <1>2 DEF TypeOK
<1>14. /\ TypeOK' /\ Unborn' /\ AllOrNothing' /\ OneCopy' /\ EndIsTold'
       /\ \A g \in Handler : Run(g)'
  BY <1>1, <1>9, <1>10, <1>11, <1>12, <1>13, Stopping
<1>15. CompletedIsWhole'
  <2>1. Wanted' = Wanted /\ Flawed' = Flawed
    BY <1>1, Fixed
  <2>2. /\ row'.found = Cardinality(Wanted) /\ row'.bad = Cardinality(Flawed)
        /\ row'.new <= row'.found
    BY <1>2, <1>3, <1>4, <1>5, <1>9, <1>11
  <2>3. QED
    BY <1>1, <1>2, <2>1, <2>2 DEF CompletedIsWhole
<1>16. Undisturbed'
  <2>1. Calm' => list' = <<>>
    BY <1>1, <1>12, RunAt, CalmBefore, Alone
  <2>2. QED
    BY <1>1, <1>9, <1>11, <1>12, <2>1, StoppingUndisturbed
<1>17. QED
  BY <1>14, <1>15, <1>16 DEF CollectionInv

LEMMA MissesComplete ==
    ASSUME CollectionInv, NEW h \in Handler, CompleteMisses(h)
    PROVE  CollectionInv'
<1>1. Misses(h, {"complete", "completed"}) /\ Stops(h) /\ list' = list
  BY DEF CompleteMisses
<1>2. /\ worker[h].at # "idle" /\ "unwritten" \in mishaps' /\ Remembers
      /\ source' = source /\ limit' = limit /\ row' = row /\ api' = api
      /\ stored' = stored /\ ~Calm'
  BY <1>1, MissedWrite
<1>3. TypeOK /\ row \in Row
  BY <1>2, RunAt, Born
<1>4. Turn(h, "idle")
  BY <1>1, <1>3, Stopped
<1>5. list' \in Seq(0 .. MaxRetries) /\ Len(list') <= Len(list) + 1
  BY <1>1, <1>3 DEF TypeOK
<1>6. /\ TypeOK' /\ Unborn' /\ AllOrNothing' /\ OneCopy' /\ EndIsTold'
      /\ \A g \in Handler : Run(g)'
  BY <1>2, <1>3, <1>4, <1>5, Stopping
<1>7. CompletedIsWhole' /\ Undisturbed'
  BY <1>2, RunAt, CompletedKept DEF Undisturbed
<1>8. QED
  BY <1>6, <1>7 DEF CollectionInv

LEMMA Fails ==
    ASSUME CollectionInv, NEW h \in Handler, FailJob(h)
    PROVE  CollectionInv'
<1>1. /\ worker[h].at = "failed" /\ Returns(h)
      /\ row' = [worker[h].copy EXCEPT !.status = "failed", !.ended = TRUE,
                                       !.error = "attempt"]
      /\ source' = source /\ limit' = limit /\ api' = api /\ stored' = stored
  BY DEF FailJob, Writes
<1>2. TypeOK /\ worker[h].copy \in Row /\ "dropped" \in Mishap
  BY <1>1, RunAt DEF Mishap
<1>3. PICK c \in Row : c = worker[h].copy
  BY <1>2
<1>4. PICK r : r = [c EXCEPT !.status = "failed", !.ended = TRUE, !.error = "attempt"]
  OBVIOUS
<1>5. r \in Row /\ r.status = "failed"
  BY <1>4 DEF Row
<1>6. row' = r
  BY <1>1, <1>3, <1>4
<1>7. /\ Turn(h, "idle") /\ Remembers
      /\ list' \in Seq(0 .. MaxRetries) /\ Len(list') <= Len(list) + 1
  <2>1. CASE Requeue(h) /\ Smoothly
    BY <1>2, <2>1, Requeued, GoesSmoothly DEF Smoothly
  <2>2. CASE list' = list /\ Stops(h) /\ Goes("dropped")
    <3>1. list' \in Seq(0 .. MaxRetries) /\ Len(list') <= Len(list) + 1
      BY <1>2, <2>2 DEF TypeOK
    <3>2. QED
      BY <1>2, <2>2, <3>1, Stopped, GoesWrong
  <2>3. QED
    BY <1>1, <2>1, <2>2 DEF Returns
<1>8. /\ TypeOK' /\ Unborn' /\ AllOrNothing' /\ OneCopy' /\ EndIsTold'
      /\ \A g \in Handler : Run(g)'
  BY <1>1, <1>5, <1>6, <1>7, Stopping
<1>9. CompletedIsWhole'
  BY <1>5, <1>6, NotCompleted
<1>10. Undisturbed'
  <2>1. Calm' => stored' = {}
    BY <1>1, <1>7, RunAt, CalmBefore DEF Undisturbed
  <2>2. QED
    BY <1>1, <1>7, <2>1, StoppingUndisturbed
<1>11. QED
  BY <1>8, <1>9, <1>10 DEF CollectionInv

LEMMA MissesFail ==
    ASSUME CollectionInv, NEW h \in Handler, FailMisses(h)
    PROVE  CollectionInv'
<1>1. Misses(h, {"fail", "failed"}) /\ Requeue(h)
  BY DEF FailMisses
<1>2. /\ worker[h].at # "idle" /\ "unwritten" \in mishaps' /\ Remembers
      /\ source' = source /\ limit' = limit /\ row' = row /\ api' = api
      /\ stored' = stored /\ ~Calm'
  BY <1>1, MissedWrite
<1>3. TypeOK /\ row \in Row
  BY <1>2, RunAt, Born
<1>4. /\ Turn(h, "idle")
      /\ list' \in Seq(0 .. MaxRetries) /\ Len(list') <= Len(list) + 1
  BY <1>1, <1>3, Requeued
<1>5. /\ TypeOK' /\ Unborn' /\ AllOrNothing' /\ OneCopy' /\ EndIsTold'
      /\ \A g \in Handler : Run(g)'
  BY <1>2, <1>3, <1>4, Stopping
<1>6. CompletedIsWhole' /\ Undisturbed'
  BY <1>2, RunAt, CompletedKept DEF Undisturbed
<1>7. QED
  BY <1>5, <1>6 DEF CollectionInv

LEMMA SourceUnknown ==
    ASSUME CollectionInv, NEW h \in Handler, UnknownSource(h)
    PROVE  CollectionInv'
<1>1. /\ worker[h].at = "begin" /\ Requeue(h)
      /\ mishaps' = mishaps \union {"unregistered"} /\ faults' = faults
      /\ source' = source /\ limit' = limit /\ row' = row /\ api' = api /\ stored' = stored
  BY DEF UnknownSource
<1>2. TypeOK /\ row \in Row
  BY <1>1, RunAt, Born
<1>3. Remembers
  BY <1>1, <1>2 DEF TypeOK, Remembers, Mishap
<1>4. /\ Turn(h, "idle")
      /\ list' \in Seq(0 .. MaxRetries) /\ Len(list') <= Len(list) + 1
  BY <1>1, <1>2, Requeued
<1>5. /\ TypeOK' /\ Unborn' /\ AllOrNothing' /\ OneCopy' /\ EndIsTold'
      /\ \A g \in Handler : Run(g)'
  BY <1>1, <1>2, <1>3, <1>4, Stopping
<1>6. CompletedIsWhole'
  BY <1>1, RunAt, CompletedKept
<1>7. Undisturbed'
  <2>1. Calm' => stored' = {}
    BY <1>1, <1>3, RunAt, CalmBefore DEF Undisturbed
  <2>2. QED
    BY <1>1, <1>3, <1>4, <2>1, StoppingUndisturbed
<1>8. QED
  BY <1>5, <1>6, <1>7 DEF CollectionInv

LEMMA Killed ==
    ASSUME CollectionInv, NEW h \in Handler, Kill(h)
    PROVE  CollectionInv'
<1>1. /\ worker[h].at # "idle" /\ Stops(h) /\ Goes("killed")
      /\ source' = source /\ limit' = limit /\ row' = row /\ api' = api /\ list' = list
      /\ stored' = stored
  BY DEF Kill
<1>2. TypeOK /\ row \in Row /\ "killed" \in Mishap
  BY <1>1, RunAt, Born DEF Mishap
<1>3. Turn(h, "idle") /\ Remembers /\ "killed" \in mishaps'
  BY <1>1, <1>2, Stopped, GoesWrong
<1>4. list' \in Seq(0 .. MaxRetries) /\ Len(list') <= Len(list) + 1
  BY <1>1, <1>2 DEF TypeOK
<1>5. /\ TypeOK' /\ Unborn' /\ AllOrNothing' /\ OneCopy' /\ EndIsTold'
      /\ \A g \in Handler : Run(g)'
  BY <1>1, <1>2, <1>3, <1>4, Stopping
<1>6. CompletedIsWhole'
  BY <1>1, RunAt, CompletedKept
<1>7. Undisturbed'
  <2>1. Calm' /\ stored' # {} => row'.status \in {"running", "completed"} /\ list' = <<>>
    BY <1>1, <1>3, RunAt, CalmBefore DEF Undisturbed
  <2>2. QED
    BY <1>1, <1>3, <2>1, StoppingUndisturbed
<1>8. QED
  BY <1>5, <1>6, <1>7 DEF CollectionInv

LEMMA Pops ==
    ASSUME CollectionInv, NEW h \in Handler, Pop(h)
    PROVE  CollectionInv'
<1>1. /\ worker[h].at = "idle" /\ list # <<>> /\ list' = Front(list)
      /\ source' = source /\ limit' = limit /\ row' = row /\ api' = api
      /\ stored' = stored /\ mishaps' = mishaps /\ faults' = faults
  BY DEF Pop
<1>2. /\ TypeOK /\ Unborn /\ AllOrNothing /\ OneCopy /\ Undisturbed
      /\ \A g \in Handler : Run(g)
  BY RunAt
<1>3. list \in Seq(0 .. MaxRetries) /\ Len(list) \in Nat
  BY <1>2 DEF TypeOK
<1>4. /\ list' \in Seq(0 .. MaxRetries) /\ Last(list) \in 0 .. MaxRetries
      /\ Len(list') = Len(list) - 1
  BY <1>1, <1>3, Popped
<1>5. row # NoRow /\ api # "new"
  BY <1>1, <1>2 DEF Unborn
<1>6. PICK w : w = [Idle EXCEPT !.at = "begin", !.tries = Last(list)]
  OBVIOUS
<1>7. PICK v \in Worker : v = Idle
  BY IdleFields
<1>8. /\ w \in Worker /\ w.at = "begin" /\ w.pos = 0 /\ w.got = {} /\ w.bad = 0
  <2>1. w = [v EXCEPT !.at = "begin", !.tries = Last(list)]
    BY <1>6, <1>7
  <2>2. w \in Worker
    BY <1>4, <2>1 DEF Worker
  <2>3. w.at = "begin" /\ w.pos = v.pos /\ w.got = v.got /\ w.bad = v.bad
    BY <2>1 DEF Worker
  <2>4. QED
    BY <1>7, <2>2, <2>3, IdleFields
<1>9. worker' = [worker EXCEPT ![h] = w]
  BY <1>6 DEF Pop
<1>10. Turn(h, "begin") /\ worker'[h] = w
  BY <1>2, <1>8, <1>9, Replaced
<1>11. Remembers
  BY <1>1, <1>2, GoesSmoothly
<1>12. TypeOK'
  <2>1. /\ limit' \in 1 .. MaxLimit /\ row' \in Row \union {NoRow}
        /\ api' \in {"new", "push", "refuse", "accepted", "refused"}
        /\ stored' \subseteq DOMAIN source.offer
    BY <1>1, <1>2 DEF TypeOK
  <2>2. QED
    BY <1>1, <1>2, <1>4, <1>10, <1>11, <2>1, TypeKept DEF Turn
<1>13. Unborn'
  BY <1>1, <1>5 DEF Unborn
<1>14. Run(h)'
  <2>1. /\ Served' = Served /\ Sent' = Sent /\ Errors' = Errors
    BY <1>1, Fixed
  <2>2. /\ Upto(Sent, 0) = {} /\ Upto(Errors, 0) = {}
    <3>1. \A p \in DOMAIN source.offer : ~(p <= 0)
      BY <1>2, Source
    <3>2. QED
      BY <3>1, Named DEF Upto
  <2>3. Upto(Sent, 0)' = {} /\ Upto(Errors, 0)' = {}
    BY <2>1, <2>2 DEF Upto
  <2>4. 0 <= Len(source.offer) /\ 0 <= Served /\ 1 .. 0 = {}
    BY <1>2, Source
  <2>5. Cardinality({}) = 0
    BY FS_EmptySet
  <2>6. Reading(h)'
    BY <1>1, <1>8, <1>10, <2>1, <2>3, <2>4, <2>5 DEF Reading
  <2>7. QED
    BY <1>8, <1>10, <2>6 DEF Run
<1>15. \A g \in Handler : Run(g)'
  BY <1>1, <1>2, <1>10, <1>14, OthersRun
<1>16. AllOrNothing'
  BY <1>1, <1>2, Fixed DEF AllOrNothing
<1>17. CompletedIsWhole'
  BY <1>1, RunAt, CompletedKept
<1>18. \A g \in Handler \ {h} : worker'[g] = worker[g]
  BY <1>10 DEF Turn
<1>19. OneCopy'
  <2>1. SUFFICES ASSUME PushedOnce PROVE OneCopy'
    BY <1>1 DEF OneCopy, PushedOnce
  <2>2. /\ api \notin {"new", "push", "refuse"} /\ Len(list) <= 1
        /\ \A g \in Handler : worker[g].at = "idle"
    BY <1>1, <1>2, <2>1 DEF OneCopy
  <2>3. list' = <<>> /\ Len(list') <= 1
    BY <1>3, <1>4, <2>2
  <2>4. \A g \in Handler \ {h} : worker'[g].at = "idle"
    BY <1>18, <2>2
  <2>5. QED
    BY <1>1, <2>2, <2>3, <2>4 DEF OneCopy
<1>20. Undisturbed'
  <2>1. SUFFICES ASSUME Calm PROVE Undisturbed'
    BY <1>1 DEF Undisturbed, Calm
  <2>2. stored = {} /\ \A g \in Handler : worker[g].at = "idle"
    BY <1>1, <1>2, <1>11, <2>1, CalmBefore DEF OneCopy, Undisturbed
  <2>3. \A g \in Handler : worker'[g].at \notin {"scrape", "insert"}
    BY <1>8, <1>10, <1>18, <2>2
  <2>4. QED
    BY <1>1, <2>2, <2>3 DEF Undisturbed
<1>21. EndIsTold'
  <2>1. worker'[h].at # "idle"
    BY <1>8, <1>10
  <2>2. QED
    BY <2>1 DEF EndIsTold, Settled
<1>22. QED
  BY <1>12, <1>13, <1>15, <1>16, <1>17, <1>19, <1>20, <1>21 DEF CollectionInv

-----------------------------------------------------------------------------
(* The request.                                                             *)

\* A step of the request leaves the handlers alone.
LEMMA Requesting ==
    ASSUME CollectionInv, row # NoRow, row' \in Row, api \in {"push", "refuse"},
           api' \in {"refuse", "accepted", "refused"},
           source' = source, limit' = limit, worker' = worker, stored' = stored, Remembers,
           list' \in Seq(0 .. MaxRetries),
           PushedOnce' => \/ list' = list
                          \/ Len(list') = Len(list) + 1 /\ api' = "accepted",
           row' = row \/ row'.status # "completed",
           Calm' => row' = row \/ api' = "refused"
    PROVE  /\ TypeOK' /\ Unborn' /\ AllOrNothing' /\ CompletedIsWhole' /\ OneCopy'
           /\ Undisturbed' /\ \A h \in Handler : Run(h)'
<1>1. /\ TypeOK /\ AllOrNothing /\ CompletedIsWhole /\ OneCopy /\ Undisturbed
      /\ \A h \in Handler : Run(h)
  BY DEF CollectionInv
<1>2. TypeOK'
  <2>1. /\ limit' \in 1 .. MaxLimit /\ worker' \in [Handler -> Worker]
        /\ stored' \subseteq DOMAIN source.offer
    BY <1>1 DEF TypeOK
  <2>2. QED
    BY <1>1, <2>1, TypeKept
<1>3. Unborn'
  BY RowIsThere DEF Unborn
<1>4. AllOrNothing'
  BY <1>1, Fixed DEF AllOrNothing
<1>5. CompletedIsWhole'
  BY <1>1, CompletedKept, NotCompleted
<1>6. ASSUME PushedOnce'
      PROVE  /\ list = <<>> /\ stored = {}
             /\ \A h \in Handler : worker[h].at = "idle"
  BY <1>1, <1>6, CalmBefore DEF OneCopy
<1>7. OneCopy'
  <2>1. SUFFICES ASSUME PushedOnce' PROVE OneCopy'
    BY DEF OneCopy
  <2>2. \A h \in Handler : worker'[h].at = "idle"
    BY <1>6, <2>1
  <2>3. stored' = {} /\ Len(list') <= 1
    <3>1. list = <<>> /\ stored' = {}
      BY <1>6, <2>1
    <3>2. Len(list) = 0
      BY <3>1
    <3>3. CASE list' = list
      BY <3>1, <3>2, <3>3
    <3>4. CASE Len(list') = Len(list) + 1
      BY <3>1, <3>2, <3>4
    <3>5. QED
      BY <2>1, <3>3, <3>4
  <2>4. api' \in {"new", "push", "refuse"} => list' = <<>>
    BY <1>6, <2>1
  <2>5. QED
    BY <2>2, <2>3, <2>4 DEF OneCopy
<1>8. Undisturbed'
  <2>1. SUFFICES ASSUME Calm' PROVE Undisturbed'
    BY DEF Undisturbed
  <2>2. PushedOnce'
    BY <2>1 DEF Calm, PushedOnce
  <2>3. QED
    BY <1>6, <2>2 DEF Undisturbed
<1>9. \A h \in Handler : Run(h)'
  <2> TAKE h \in Handler
  <2>1. Keeps(h)
    BY DEF Keeps
  <2>2. (Reading(h) => Reading(h)') /\ (Whole(h) => Whole(h)') /\ Wanted' = Wanted
    BY <2>1, ReadingKept, WholeKept, Fixed
  <2>3. QED
    BY <1>1, <2>2 DEF Run
<1>10. QED
  BY <1>2, <1>3, <1>4, <1>5, <1>7, <1>8, <1>9

LEMMA Rejects ==
    ASSUME CollectionInv, Reject
    PROVE  CollectionInv'
<1>1. /\ api = "new" /\ api' = "refused"
      /\ source' = source /\ limit' = limit /\ row' = row /\ list' = list
      /\ worker' = worker /\ stored' = stored /\ mishaps' = mishaps /\ faults' = faults
  BY DEF Reject
<1>2. /\ TypeOK /\ row = NoRow /\ list = <<>> /\ stored = {}
      /\ \A h \in Handler : worker[h].at = "idle"
  BY <1>1 DEF CollectionInv, Unborn
<1>3. TypeOK'
  BY <1>1, <1>2 DEF TypeOK
<1>4. Unborn' /\ AllOrNothing' /\ CompletedIsWhole' /\ OneCopy' /\ EndIsTold'
  BY <1>1, <1>2 DEF Unborn, AllOrNothing, CompletedIsWhole, OneCopy, EndIsTold
<1>5. Undisturbed' /\ \A h \in Handler : Run(h)'
  BY <1>1, <1>2 DEF Undisturbed, Run
<1>6. QED
  BY <1>3, <1>4, <1>5 DEF CollectionInv

LEMMA Creates ==
    ASSUME CollectionInv, Create
    PROVE  CollectionInv'
<1>1. /\ api = "new" /\ api' = "push" /\ row' = Pending
      /\ source' = source /\ list' = list
      /\ worker' = worker /\ stored' = stored /\ mishaps' = mishaps /\ faults' = faults
  BY DEF Create
<1>2. PICK asked \in Asked : limit' = Clamp(asked)
  BY DEF Create
<1>3. limit' \in 1 .. MaxLimit
  BY <1>2, LimitAssumption DEF Clamp
<1>4. /\ TypeOK /\ list = <<>> /\ stored = {}
      /\ \A h \in Handler : worker[h].at = "idle"
  BY <1>1 DEF CollectionInv, Unborn
<1>5. row' \in Row /\ row'.status = "pending"
  BY <1>1 DEF Pending, Row
<1>6. TypeOK'
  <2>1. /\ list' \in Seq(0 .. MaxRetries) /\ worker' \in [Handler -> Worker]
        /\ stored' \subseteq DOMAIN source.offer
    BY <1>1, <1>4 DEF TypeOK
  <2>2. Remembers
    BY <1>1, <1>4, GoesSmoothly
  <2>3. QED
    BY <1>1, <1>3, <1>4, <1>5, <2>1, <2>2, TypeKept
<1>7. row' # NoRow
  BY <1>5, RowIsThere
<1>8. Unborn' /\ AllOrNothing' /\ CompletedIsWhole'
  BY <1>1, <1>4, <1>5, <1>7 DEF Unborn, AllOrNothing, CompletedIsWhole
<1>9. OneCopy' /\ EndIsTold'
  BY <1>1, <1>4 DEF OneCopy, EndIsTold, Settled
<1>10. Undisturbed' /\ \A h \in Handler : Run(h)'
  BY <1>1, <1>4 DEF Undisturbed, Run
<1>11. QED
  BY <1>6, <1>8, <1>9, <1>10 DEF CollectionInv

LEMMA Enqueues ==
    ASSUME CollectionInv, Enqueue
    PROVE  CollectionInv'
<1>1. /\ api = "push" /\ api' = "accepted"
      /\ source' = source /\ limit' = limit /\ row' = row
      /\ worker' = worker /\ stored' = stored
  BY DEF Enqueue
<1>2. /\ TypeOK /\ row \in Row /\ row # NoRow /\ list \in Seq(0 .. MaxRetries)
      /\ 0 \in 0 .. MaxRetries /\ "twice" \in Mishap
  <2>1. TypeOK /\ row # NoRow
    BY <1>1 DEF CollectionInv, Unborn
  <2>2. row \in Row /\ list \in Seq(0 .. MaxRetries)
    BY <2>1 DEF TypeOK
  <2>3. 0 \in 0 .. MaxRetries /\ "twice" \in Mishap
    BY BoundAssumption DEF Mishap
  <2>4. QED
    BY <2>1, <2>2, <2>3
<1>3. /\ list' \in Seq(0 .. MaxRetries) /\ list' # <<>> /\ Remembers
      /\ PushedOnce' => Len(list') = Len(list) + 1
  <2>1. CASE list' = <<0>> \o list /\ Smoothly
    BY <1>2, <2>1, Pushed, GoesSmoothly DEF Smoothly
  <2>2. CASE list' = <<0, 0>> \o list /\ Goes("twice")
    <3>1. list' \in Seq(0 .. MaxRetries) /\ Len(list') = Len(list) + 2
      BY <1>2, <2>2, PushedTwice
    <3>2. list' # <<>>
      BY <1>2, <3>1
    <3>3. Remembers /\ ~PushedOnce'
      BY <1>2, <2>2, GoesWrong DEF PushedOnce
    <3>4. QED
      BY <3>1, <3>2, <3>3
  <2>3. QED
    BY <2>1, <2>2 DEF Enqueue
<1>4. EndIsTold'
  BY <1>3 DEF EndIsTold, Settled
<1>5. /\ TypeOK' /\ Unborn' /\ AllOrNothing' /\ CompletedIsWhole' /\ OneCopy'
      /\ Undisturbed' /\ \A h \in Handler : Run(h)'
  BY <1>1, <1>2, <1>3, Requesting
<1>6. QED
  BY <1>4, <1>5 DEF CollectionInv

LEMMA EnqueueFailing ==
    ASSUME CollectionInv, EnqueueFails
    PROVE  CollectionInv'
<1>1. /\ api = "push" /\ api' = "refuse"
      /\ source' = source /\ limit' = limit /\ row' = row
      /\ worker' = worker /\ stored' = stored
  BY DEF EnqueueFails
<1>2. /\ TypeOK /\ row \in Row /\ row # NoRow /\ list \in Seq(0 .. MaxRetries)
      /\ 0 \in 0 .. MaxRetries /\ "lost reply" \in Mishap
  <2>1. TypeOK /\ row # NoRow
    BY <1>1 DEF CollectionInv, Unborn
  <2>2. row \in Row /\ list \in Seq(0 .. MaxRetries)
    BY <2>1 DEF TypeOK
  <2>3. 0 \in 0 .. MaxRetries /\ "lost reply" \in Mishap
    BY BoundAssumption DEF Mishap
  <2>4. QED
    BY <2>1, <2>2, <2>3
<1>3. /\ list' \in Seq(0 .. MaxRetries) /\ Remembers
      /\ PushedOnce' => list' = list
  <2>1. CASE list' = list /\ Smoothly
    BY <1>2, <2>1, GoesSmoothly DEF Smoothly
  <2>2. CASE list' = <<0>> \o list /\ Goes("lost reply")
    BY <1>2, <2>2, Pushed, GoesWrong DEF PushedOnce
  <2>3. QED
    BY <2>1, <2>2 DEF EnqueueFails
<1>4. EndIsTold'
  BY <1>1 DEF EndIsTold, Settled
<1>5. /\ TypeOK' /\ Unborn' /\ AllOrNothing' /\ CompletedIsWhole' /\ OneCopy'
      /\ Undisturbed' /\ \A h \in Handler : Run(h)'
  BY <1>1, <1>2, <1>3, Requesting
<1>6. QED
  BY <1>4, <1>5 DEF CollectionInv

LEMMA Refuses ==
    ASSUME CollectionInv, Refuse
    PROVE  CollectionInv'
<1>1. /\ api = "refuse" /\ api' = "refused"
      /\ source' = source /\ limit' = limit /\ list' = list
      /\ worker' = worker /\ stored' = stored
  BY DEF Refuse
<1>2. /\ TypeOK /\ row \in Row /\ row # NoRow /\ list \in Seq(0 .. MaxRetries)
      /\ "unwritten" \in Mishap
  BY <1>1 DEF CollectionInv, Unborn, TypeOK, Mishap
<1>3. PICK r : r = [Pending EXCEPT !.status = "failed", !.error = "enqueue"]
  OBVIOUS
<1>4. r \in Row /\ r.status = "failed"
  <2>1. PICK c \in Row : c = Pending
    BY DEF Pending, Row
  <2>2. r = [c EXCEPT !.status = "failed", !.error = "enqueue"]
    BY <1>3, <2>1
  <2>3. QED
    BY <2>2 DEF Row
<1>5. /\ row' \in Row /\ Remembers
      /\ \/ row'.status = "failed"
         \/ row' = row /\ "unwritten" \in mishaps'
  <2>1. CASE row' = r /\ Smoothly
    BY <1>2, <1>4, <2>1, GoesSmoothly DEF Smoothly
  <2>2. CASE row' = row /\ Goes("unwritten")
    BY <1>2, <2>2, GoesWrong
  <2>3. QED
    BY <1>3, <2>1, <2>2 DEF Refuse
<1>6. EndIsTold'
  BY <1>5 DEF EndIsTold
<1>7. /\ TypeOK' /\ Unborn' /\ AllOrNothing' /\ CompletedIsWhole' /\ OneCopy'
      /\ Undisturbed' /\ \A h \in Handler : Run(h)'
  BY <1>1, <1>2, <1>5, Requesting
<1>8. QED
  BY <1>6, <1>7 DEF CollectionInv

-----------------------------------------------------------------------------
LEMMA InitialState == Init => CollectionInv
<1> SUFFICES ASSUME Init PROVE CollectionInv
  OBVIOUS
<1>1. /\ source \in [kind : Kind, offer : Offer, known : Knowing]
      /\ limit = DefaultLimit /\ row = NoRow /\ api = "new" /\ list = <<>>
      /\ worker = [h \in Handler |-> Idle] /\ stored = {} /\ mishaps = {} /\ faults = 0
  BY DEF Init
<1>2. TypeOK
  <2>1. limit \in 1 .. MaxLimit /\ faults \in 0 .. MaxFaults
    BY <1>1, LimitAssumption, BoundAssumption
  <2>2. worker \in [Handler -> Worker]
    BY <1>1, IdleFields
  <2>3. list \in Seq(0 .. MaxRetries)
    BY <1>1
  <2>4. QED
    BY <1>1, <2>1, <2>2, <2>3 DEF TypeOK
<1>3. \A h \in Handler : worker[h].at = "idle"
  BY <1>1, IdleFields
<1>4. Unborn /\ AllOrNothing /\ CompletedIsWhole /\ OneCopy /\ EndIsTold
  BY <1>1, <1>3 DEF Unborn, AllOrNothing, CompletedIsWhole, OneCopy, EndIsTold
<1>5. Undisturbed /\ \A h \in Handler : Run(h)
  BY <1>1, <1>3 DEF Undisturbed, Run
<1>6. QED
  BY <1>2, <1>4, <1>5 DEF CollectionInv

LEMMA StepInv == CollectionInv /\ [Next]_vars => CollectionInv'
<1> SUFFICES ASSUME CollectionInv, [Next]_vars PROVE CollectionInv'
  OBVIOUS
<1>1. CASE Request
  BY <1>1, Rejects, Creates, Enqueues, EnqueueFailing, Refuses DEF Request
<1>2. ASSUME NEW h \in Handler, Pop(h) \/ Expire(h) \/ Kill(h) PROVE CollectionInv'
  BY <1>2, Pops, Expired, Killed
<1>3. ASSUME NEW h \in Handler, Bookkeeping(h) PROVE CollectionInv'
  BY <1>3, SourceUnknown, ReadsToMark, MarksRunning, MissesMark, ReadsToComplete,
     Completes, MissesComplete, ReadsToFail, Fails, MissesFail DEF Bookkeeping
<1>4. ASSUME NEW h \in Handler, Collect(h) PROVE CollectionInv'
  BY <1>4, Transfers, ScrapeFailing, ScrapeEnding, Inserts, InsertFailing DEF Collect
<1>5. CASE UNCHANGED vars
  <2>1. /\ source' = source /\ limit' = limit /\ row' = row /\ api' = api
        /\ list' = list /\ worker' = worker /\ stored' = stored
        /\ mishaps' = mishaps /\ faults' = faults
    BY <1>5 DEF vars
  <2>2. /\ Sent' = Sent /\ Errors' = Errors /\ Wanted' = Wanted
        /\ Flawed' = Flawed /\ Served' = Served
    BY <2>1, Fixed
  <2>3. TypeOK' /\ Unborn' /\ AllOrNothing' /\ OneCopy' /\ Undisturbed' /\ EndIsTold'
    BY <2>1, <2>2 DEF CollectionInv, TypeOK, Unborn, AllOrNothing, OneCopy, PushedOnce,
                      Undisturbed, Calm, EndIsTold, Settled
  <2>4. CompletedIsWhole'
    BY <2>1, CompletedKept DEF CollectionInv
  <2>5. \A h \in Handler : Run(h)'
    <3> TAKE h \in Handler
    <3>1. Run(h) /\ Keeps(h)
      BY <2>1 DEF CollectionInv, Keeps
    <3>2. (Reading(h) => Reading(h)') /\ (Whole(h) => Whole(h)')
      BY <2>1, <3>1, ReadingKept, WholeKept
    <3>3. QED
      BY <2>1, <2>2, <3>1, <3>2 DEF Run
  <2>6. QED
    BY <2>3, <2>4, <2>5 DEF CollectionInv
<1>6. QED
  BY <1>1, <1>2, <1>3, <1>4, <1>5 DEF Next

-----------------------------------------------------------------------------
\* The invariant holds of every behaviour: of the request, the record, the
\* copies of the job and what each run has read.
THEOREM CollectionInvariant == Spec => []CollectionInv
BY InitialState, StepInv, PTL DEF Spec

\* The caller gets to see how a collection ended, unless a write was lost, a
\* process died with the job, or none that had the source ever ran it.
THEOREM EndTold == Spec => []EndIsTold
<1>1. CollectionInv => EndIsTold
  BY DEF CollectionInv
<1>2. QED
  BY <1>1, CollectionInvariant, PTL

\* A completed collection is whole, however many runs failed or overlapped and
\* whatever the source, the limit and the size of a page.
THEOREM CompletedWhole == Spec => []CompletedIsWhole
<1>1. CollectionInv => CompletedIsWhole
  BY DEF CollectionInv
<1>2. QED
  BY <1>1, CollectionInvariant, PTL

\* A failed collection stored nothing, unless the job ran twice or a reply or
\* a write was lost.
THEOREM FailedLeavesNothing == Spec => []FailedStoredNothing
<1>1. CollectionInv => FailedStoredNothing
  <2> SUFFICES ASSUME CollectionInv PROVE FailedStoredNothing
    OBVIOUS
  <2>1. AllOrNothing /\ Undisturbed
    BY DEF CollectionInv
  <2>2. row.status = "failed" /\ stored # {} => ~Calm
    BY <2>1 DEF Undisturbed
  <2>3. QED
    BY <2>1, <2>2 DEF FailedStoredNothing, AllOrNothing, Calm
<1>2. QED
  BY <1>1, CollectionInvariant, PTL
=============================================================================
