--------------------------- MODULE PipelineProofs ---------------------------
(***************************************************************************)
(* Safety of the chain of jobs of one lead for any number of handlers, any *)
(* addresses, any number of tries, doubled pushes, edits and rescans; and  *)
(* what the rule engine that ruleScoring calls makes of any lead.          *)
(***************************************************************************)
EXTENDS Pipeline, Scoring, SequenceTheorems, WellFoundedInduction, TLAPS

\* The kinds of the jobs that wait on the list or are being run ("none" being
\* that of an idle handler).
KindsOn(jobs) == {j.kind : j \in ToSet(jobs)}
Held == {job[h].kind : h \in Handler}
Flying == KindsOn(list) \union Held

\* What a job of a kind needs to find.
Ready(kind) ==
    /\ kind = "audit" => web # NoRow
    /\ kind \in {"recommend", "embed"} => score # NoRow
    /\ kind = "embed" => audit # NoRow

Supplied == \A kind \in Flying : Ready(kind)

\* A chain begins with a crawl or a score.
Opening ==
    /\ first.kind \in {"crawl", "score"}
    /\ api # NoJob => api.kind \in {"crawl", "score"}

\* What a handler holds, and what it has stored by the time it pushes a job.
Holds(h) ==
    /\ job[h] = NoJob => at[h] = "idle"
    /\ at[h] \in {"idle", "begin"} => seen[h] = Blank
    /\ Running(h, "crawl", "store") => seen[h].web # NoRow
    /\ Running(h, "crawl", "next") => (seen[h].web # NoRow => web # NoRow)
    /\ Running(h, "audit", "store") => seen[h].web # NoRow
    /\ Running(h, "audit", "next") => audit # NoRow
    /\ Running(h, "score", "next") => score # NoRow
    /\ job[h].kind = "recommend" /\ at[h] \in {"audit", "store", "next"}
          => seen[h].score # NoRow /\ seen[h].score.numbers = seen[h].score.words
    /\ job[h].kind = "recommend" /\ at[h] \in {"store", "next"} => audit # NoRow

\* A lead without a score is on its way to one, or is known to have been lost.
Remembered ==
    score = NoRow =>
        \/ pending \/ api # NoJob
        \/ Flying \intersect {"crawl", "audit", "score"} # {}
        \/ buried \/ lost

Rest ==
    /\ Opening
    /\ Supplied
    /\ \A h \in Handler : Holds(h)
    /\ OneEvaluation
    /\ Remembered

PipeInv == TypeOK /\ Rest

\* What a lead with one handler is settled on: the rows as ruleScoring would
\* read them now.
Now == [site |-> site, audit |-> audit, web |-> IF site \in Social THEN NoRow ELSE web]

Clean == ~buried /\ ~lost /\ ~misread

\* A job that ends in a score is still to be run, ...
Asked ==
    \/ pending \/ api # NoJob
    \/ KindsOn(list) \intersect {"crawl", "audit", "score"} # {}

\* ... or is being run, and has read nothing that is out of date.
Scoring(h) ==
    \/ job[h].kind \in {"crawl", "audit"}
    \/ Running(h, "score", "begin")
    \/ Running(h, "score", "web") /\ seen[h].site = site
    \/ Running(h, "score", "audit") /\ seen[h].site = site /\ seen[h].web = Now.web
    \/ Running(h, "score", "store") /\ Evaluate(h) = Now

Scored == score # NoRow /\ score.numbers = Now

\* The same for the jobs that end in a vector.
Embedding(h) ==
    \/ Running(h, "score", "next")
    \/ job[h].kind = "recommend"
    \/ Running(h, "embed", "begin")
    \/ Running(h, "embed", "score") /\ seen[h].site = site
    \/ Running(h, "embed", "web") /\ seen[h].site = site /\ seen[h].score = score
    \/ Running(h, "embed", "check") /\ Text(h) = DocumentOf(site, web, score)
    \/ Running(h, "embed", "store") /\ Text(h) = DocumentOf(site, web, score)

Embedded == vec = DocumentOf(site, web, score)

\* The lead is settled, or a job that settles it is under way.
Settles(h) ==
    /\ job[h].kind = "recommend" /\ at[h] \in {"audit", "store"} => seen[h].score = score
    /\ Clean /\ job[h].kind = "score" /\ at[h] # "next" => Asked \/ Scoring(h)
    /\ Clean /\ job[h].kind = "embed" => Asked \/ Embedding(h)
    /\ Clean => Asked \/ Scoring(h) \/ Scored
    /\ Clean /\ audit # NoRow /\ h \in WithEmbedder =>
          \/ Asked \/ Scoring(h)
          \/ KindsOn(list) \intersect {"recommend", "embed"} # {}
          \/ Embedding(h) \/ Embedded

Settling ==
    /\ \A h \in Handler \ bound.handlers : job[h] = NoJob
    /\ \A h \in Handler : bound.handlers = {h} => Settles(h)

-----------------------------------------------------------------------------
(* The list.                                                                *)

\* LPush adds one element.
LEMMA Pushed ==
    ASSUME NEW S, NEW s \in Seq(S), NEW x \in S
    PROVE  /\ <<x>> \o s \in Seq(S)
           /\ ToSet(<<x>> \o s) = ToSet(s) \union {x}
<1> DEFINE t == <<x>> \o s
<1>1. /\ t \in Seq(S) /\ Len(t) = Len(s) + 1
      /\ DOMAIN t = 1 .. Len(s) + 1 /\ DOMAIN s = 1 .. Len(s)
      /\ t[1] = x
      /\ \A n \in 1 .. Len(s) : t[n + 1] = s[n]
  OBVIOUS
<1>2. \A m \in DOMAIN t : m = 1 \/ (m - 1 \in DOMAIN s /\ t[m] = s[m - 1])
  BY <1>1
<1> HIDE DEF t
<1>3. \A y \in ToSet(t) : y \in ToSet(s) \union {x}
  BY <1>1, <1>2 DEF ToSet
<1>4. x \in ToSet(t)
  BY <1>1 DEF ToSet
<1>5. \A y \in ToSet(s) : y \in ToSet(t)
  <2> TAKE y \in ToSet(s)
  <2>1. PICK n \in DOMAIN s : y = s[n]
    BY DEF ToSet
  <2>2. n + 1 \in DOMAIN t /\ t[n + 1] = y
    BY <1>1, <2>1
  <2>3. QED
    BY <2>2 DEF ToSet
<1>6. QED
  BY <1>1, <1>3, <1>4, <1>5 DEF t

\* BRPop takes the last one.
LEMMA Popped ==
    ASSUME NEW S, NEW s \in Seq(S), s # <<>>
    PROVE  /\ Front(s) \in Seq(S) /\ Last(s) \in S
           /\ ToSet(s) = ToSet(Front(s)) \union {Last(s)}
<1> DEFINE t == Front(s)
<1>0. Len(s) \in Nat \ {0} /\ DOMAIN s = 1 .. Len(s)
  OBVIOUS
<1>1. /\ t \in Seq(S) /\ DOMAIN t = 1 .. Len(s) - 1
      /\ \A n \in DOMAIN t : t[n] = s[n]
      /\ Last(s) = s[Len(s)]
  <2>1. t = SubSeq(s, 1, Len(s) - 1) /\ Last(s) = s[Len(s)]
    BY DEF Front, Last
  <2> HIDE DEF t
  <2>2. Len(s) - 1 \in 0 .. Len(s)
    BY <1>0
  <2>3. SubSeq(s, 1, Len(s) - 1) = [n \in 1 .. Len(s) - 1 |-> s[n]]
    BY <1>0, <2>2
  <2>4. QED
    BY <1>0, <2>1, <2>2, <2>3, SubSeqProperties
<1> HIDE DEF t
<1>2. Last(s) \in S /\ Last(s) \in ToSet(s)
  BY <1>0, <1>1 DEF ToSet
<1>3. \A y \in ToSet(t) : y \in ToSet(s)
  BY <1>0, <1>1 DEF ToSet
<1>4. \A y \in ToSet(s) : y = Last(s) \/ y \in ToSet(t)
  <2> TAKE y \in ToSet(s)
  <2>1. PICK n \in DOMAIN s : y = s[n]
    BY DEF ToSet
  <2>2. n = Len(s) \/ n \in DOMAIN t
    BY <1>0, <1>1, <2>1
  <2>3. QED
    BY <1>1, <2>1, <2>2 DEF ToSet
<1>5. QED
  BY <1>1, <1>2, <1>3, <1>4 DEF t

\* Jobs of some kinds are in flight when one of the kinds is flying.
LEMMA Flight == \A kinds : InFlight(kinds) <=> \E kind \in kinds : kind \in Flying
<1> TAKE kinds
<1>1. ToSet(list) = {list[n] : n \in DOMAIN list}
  BY DEF ToSet
<1>2. QED
  BY <1>1 DEF InFlight, Flying, KindsOn, Held

-----------------------------------------------------------------------------
(* Types.                                                                   *)

\* A row that is there is not the missing row.
LEMMA ThereIsARow ==
    /\ NoRow \notin Web /\ NoRow \notin AuditRow /\ NoRow \notin Score
    /\ NoJob \notin JobRecord
BY DEF NoRow, Web, AuditRow, Score, NoJob, JobRecord, Kind

LEMMA JobShapes ==
    /\ \A s \in Address : FirstJob(s) \in JobRecord /\ FirstJob(s).kind \in {"crawl", "score"}
    /\ \A k \in Kind \ {"crawl"} : Follow(k) \in JobRecord /\ Follow(k).kind = k
    /\ NoJob.kind = "none"
    /\ \A j \in JobRecord : j.kind \in Kind /\ j.url \in Address /\ j.tries \in 0 .. MaxRetries
    /\ \A j \in JobRecord : j.tries + 1 < MaxRetries =>
          /\ [j EXCEPT !.tries = @ + 1] \in JobRecord
          /\ [j EXCEPT !.tries = @ + 1].kind = j.kind
<1> USE BoundAssumption DEF JobRecord, Kind
<1>1. \A s \in Address : FirstJob(s) \in JobRecord /\ FirstJob(s).kind \in {"crawl", "score"}
  BY DEF FirstJob
<1>2. \A k \in Kind \ {"crawl"} : Follow(k) \in JobRecord /\ Follow(k).kind = k
  BY DEF Follow, Address
<1>3. NoJob.kind = "none"
  BY DEF NoJob
<1>4. QED
  BY <1>1, <1>2, <1>3

LEMMA SeenShapes ==
    /\ Blank \in Seen /\ Blank.web = NoRow /\ Blank.score = NoRow
    /\ \A s \in Address : [Blank EXCEPT !.site = s] \in Seen
    /\ \A w \in Web : [Blank EXCEPT !.web = w] \in Seen /\ [Blank EXCEPT !.web = w].web = w
    /\ \A x \in Score : [Blank EXCEPT !.score = x] \in Seen /\ [Blank EXCEPT !.score = x].score = x
    /\ \A r \in Seen, w \in Web \union {NoRow} : [r EXCEPT !.web = w] \in Seen
    /\ \A r \in Seen, a \in AuditRow \union {NoRow} : [r EXCEPT !.audit = a] \in Seen
    /\ \A r \in Seen, x \in Score \union {NoRow} : [r EXCEPT !.score = x] \in Seen
BY DEF Seen, Blank, Address

LEMMA RowShapes ==
    /\ \A r \in Seen : r.web # NoRow => r.web \in Web /\ r.web.url \in Own
    /\ \A r \in Seen : r.score # NoRow => r.score \in Score
    /\ \A r \in Seen : [site |-> r.site, web |-> r.web, audit |-> r.audit] \in Evaluation
    /\ \A e \in Evaluation : [numbers |-> e, words |-> e, folded |-> 0] \in Score
    /\ \A x \in Score : /\ [x EXCEPT !.folded = @ + 1] \in Score
                        /\ [x EXCEPT !.folded = @ + 1].numbers = x.numbers
                        /\ [x EXCEPT !.folded = @ + 1].words = x.words
    /\ \A u \in Own : [of |-> u] \in AuditRow
BY DEF Seen, Web, Score, Evaluation, AuditRow

LEMMA DocumentShapes ==
    \A r \in Seen : DocumentOf(r.site, r.web, r.score) \in Document
<1> SUFFICES ASSUME NEW r \in Seen PROVE DocumentOf(r.site, r.web, r.score) \in Document
  OBVIOUS
<1>1. r.site \in Address /\ r.web \in Web \union {NoRow} /\ r.score \in Score \union {NoRow}
  BY DEF Seen
<1>2. CASE r.score = NoRow
  BY <1>1, <1>2 DEF DocumentOf, Document
<1>3. CASE r.score # NoRow
  <2>1. r.score.numbers.site \in Address /\ r.score.numbers.web \in Web \union {NoRow}
    BY <1>1, <1>3 DEF Score, Evaluation
  <2>2. QED
    BY <1>1, <1>3, <2>1 DEF DocumentOf, Document, Gaps
<1>4. QED
  BY <1>2, <1>3

-----------------------------------------------------------------------------
(* What a step does to the jobs in flight.                                  *)

LEMMA Pushes ==
    ASSUME NEW j \in JobRecord, NEW s \in Seq(JobRecord)
    PROVE  /\ <<j>> \o s \in Seq(JobRecord)
           /\ KindsOn(<<j>> \o s) = KindsOn(s) \union {j.kind}
<1>1. /\ <<j>> \o s \in Seq(JobRecord)
      /\ ToSet(<<j>> \o s) = ToSet(s) \union {j}
  BY Pushed
<1>2. QED
  BY <1>1 DEF KindsOn

\* A job that is tried again stays in flight, or another job is buried.
LEMMA Requeued ==
    ASSUME NEW j \in JobRecord, NEW s \in Seq(JobRecord), buried \in BOOLEAN, Requeue(j, s)
    PROVE  /\ list' \in Seq(JobRecord) /\ buried' \in BOOLEAN
           /\ KindsOn(s) \subseteq KindsOn(list')
           /\ KindsOn(list') \subseteq KindsOn(s) \union {j.kind}
           /\ buried' \/ (j.kind \in KindsOn(list') /\ buried' = buried)
<1>1. CASE j.tries + 1 >= MaxRetries
  BY <1>1 DEF Requeue
<1>2. CASE ~(j.tries + 1 >= MaxRetries)
  <2>1. PICK i : i = [j EXCEPT !.tries = @ + 1]
    OBVIOUS
  <2>2. i \in JobRecord /\ i.kind = j.kind
    <3>1. j.tries \in Nat /\ MaxRetries \in Nat
      BY BoundAssumption, JobShapes
    <3>2. QED
      BY <1>2, <2>1, <3>1, JobShapes
  <2>3. list' = <<i>> \o s /\ buried' = buried
    BY <1>2, <2>1 DEF Requeue
  <2>4. QED
    BY <2>2, <2>3, Pushes
<1>3. QED
  BY <1>1, <1>2

\* One handler takes or puts down a job.
LEMMA Holding ==
    ASSUME TypeOK, NEW h \in Handler, NEW j, job' = [job EXCEPT ![h] = j]
    PROVE  /\ Held' \subseteq Held \union {j.kind}
           /\ j.kind \in Held'
           /\ Held \subseteq Held' \union {job[h].kind}
           /\ job[h].kind \in Held
<1>1. /\ job'[h] = j /\ \A g \in Handler \ {h} : job'[g] = job[g]
  BY DEF TypeOK
<1>2. QED
  BY <1>1 DEF Held

\* A handler that runs a job has one.
LEMMA HasJob ==
    ASSUME TypeOK, NEW h \in Handler, NEW k \in Kind, job[h].kind = k
    PROVE  job[h] \in JobRecord /\ job[h] # NoJob
<1>1. job[h] \in JobRecord \union {NoJob}
  BY DEF TypeOK
<1>2. job[h] # NoJob
  BY JobShapes DEF Kind
<1>3. QED
  BY <1>1, <1>2

LEMMA PushEffect ==
    ASSUME TypeOK, NEW j \in JobRecord, Push(j), UNCHANGED job
    PROVE  list' \in Seq(JobRecord) /\ Flying' = Flying \union {j.kind}
<1>1. list \in Seq(JobRecord) /\ list' = <<j>> \o list
  BY DEF TypeOK, Push
<1>2. list' \in Seq(JobRecord) /\ KindsOn(list') = KindsOn(list) \union {j.kind}
  BY <1>1, Pushes
<1>3. QED
  BY <1>2 DEF Flying, Held

LEMMA PopEffect ==
    ASSUME TypeOK, NEW h \in Handler, Pop(h)
    PROVE  /\ list' \in Seq(JobRecord) /\ Last(list) \in JobRecord
           /\ Flying' \subseteq Flying /\ Flying \subseteq Flying' \union {"none"}
<1>1. list \in Seq(JobRecord) /\ list # <<>> /\ list' = Front(list) /\ job[h] = NoJob
      /\ job' = [job EXCEPT ![h] = Last(list)]
  BY DEF TypeOK, Pop
<1>2. list' \in Seq(JobRecord) /\ Last(list) \in JobRecord
      /\ ToSet(list) = ToSet(list') \union {Last(list)}
  BY <1>1, Popped
<1>3. KindsOn(list) = KindsOn(list') \union {Last(list).kind}
  BY <1>2 DEF KindsOn
<1>4. /\ Held' \subseteq Held \union {Last(list).kind} /\ Last(list).kind \in Held'
      /\ Held \subseteq Held' \union {"none"}
  BY <1>1, Holding, JobShapes
<1>5. QED
  BY <1>2, <1>3, <1>4 DEF Flying

LEMMA ChainEffect ==
    ASSUME TypeOK, NEW h \in Handler, job[h] \in JobRecord, NEW k \in Kind \ {"crawl"},
           Chain(h, k)
    PROVE  /\ list' \in Seq(JobRecord) /\ buried' \in BOOLEAN
           /\ spare' \in 0 .. bound.duplicates
           /\ Flying' \subseteq Flying \union {k, "none"} /\ k \in Flying'
<1>1. list \in Seq(JobRecord) /\ buried \in BOOLEAN
  BY DEF TypeOK
<1>2. PICK f : f = Follow(k)
  OBVIOUS
<1>3. f \in JobRecord /\ f.kind = k
  BY <1>2, JobShapes
<1>4. <<f>> \o list \in Seq(JobRecord) /\ KindsOn(<<f>> \o list) = KindsOn(list) \union {k}
  BY <1>1, <1>3, Pushes
<1>5. /\ Held' \subseteq Held \union {"none"} /\ job[h].kind \in Held
  BY Holding, JobShapes DEF Chain, Ends
<1>6. CASE Push(f) /\ UNCHANGED <<spare, buried>>
  BY <1>1, <1>4, <1>5, <1>6 DEF Push, Flying, TypeOK
<1>7. CASE spare > 0 /\ spare' = spare - 1 /\ Requeue(job[h], <<f>> \o list)
  <2>1. /\ list' \in Seq(JobRecord) /\ buried' \in BOOLEAN
        /\ KindsOn(<<f>> \o list) \subseteq KindsOn(list')
        /\ KindsOn(list') \subseteq KindsOn(<<f>> \o list) \union {job[h].kind}
    BY <1>1, <1>4, <1>7, Requeued
  <2>2. spare' \in 0 .. bound.duplicates
    <3>1. bound.duplicates \in Nat
      BY BoundAssumption DEF TypeOK
    <3>2. QED
      BY <1>7, <3>1 DEF TypeOK
  <2>3. QED
    BY <1>4, <1>5, <2>1, <2>2 DEF Flying
<1>8. QED
  BY <1>2, <1>6, <1>7 DEF Chain

LEMMA FailEffect ==
    ASSUME TypeOK, NEW h \in Handler, Fail(h)
    PROVE  /\ list' \in Seq(JobRecord) /\ buried' \in BOOLEAN
           /\ Flying' \subseteq Flying \union {"none"}
           /\ buried' \/ Flying \subseteq Flying'
<1>1. list \in Seq(JobRecord) /\ buried \in BOOLEAN /\ job[h] \in JobRecord
  BY DEF TypeOK, Fail
<1>2. Requeue(job[h], list) /\ job' = [job EXCEPT ![h] = NoJob]
  BY DEF Fail, Ends
<1>3. /\ list' \in Seq(JobRecord) /\ buried' \in BOOLEAN
      /\ KindsOn(list) \subseteq KindsOn(list')
      /\ KindsOn(list') \subseteq KindsOn(list) \union {job[h].kind}
      /\ buried' \/ job[h].kind \in KindsOn(list')
  BY <1>1, <1>2, Requeued
<1>4. /\ Held' \subseteq Held \union {"none"} /\ Held \subseteq Held' \union {job[h].kind}
      /\ job[h].kind \in Held
  BY <1>2, Holding, JobShapes
<1>5. QED
  BY <1>3, <1>4 DEF Flying

\* A handler ends without a word.
LEMMA EndEffect ==
    ASSUME TypeOK, NEW h \in Handler, Ends(h), UNCHANGED list
    PROVE  Flying' \subseteq Flying \union {"none"}
<1>1. Held' \subseteq Held \union {"none"}
  BY Holding, JobShapes DEF Ends
<1>2. QED
  BY <1>1 DEF Flying

-----------------------------------------------------------------------------
(* No step gives a variable a value outside its type.                       *)

Places == {"idle", "begin", "score", "web", "audit", "check", "store", "next"}

LEMMA SeesTyped ==
    ASSUME TypeOK, NEW h \in Handler, NEW r \in Seen, NEW p \in Places, Sees(h, r, p),
           misread' \in BOOLEAN
    PROVE  TypeOK'
<1>1. seen' \in [Handler -> Seen] /\ at' \in [Handler -> Places]
  BY DEF TypeOK, Sees, Places
<1>2. QED
  BY <1>1 DEF TypeOK, Sees, rows, sources, Places

LEMMA GoesTyped ==
    ASSUME TypeOK, NEW h \in Handler, NEW p \in Places, Goes(h, p), UNCHANGED site,
           web' \in Web \union {NoRow}, audit' \in AuditRow \union {NoRow},
           score' \in Score \union {NoRow}, UNCHANGED vec
    PROVE  TypeOK'
<1>1. at' \in [Handler -> Places]
  BY DEF TypeOK, Goes, Places
<1>2. QED
  BY <1>1 DEF TypeOK, Goes, rows, sources, Places

LEMMA EndsTyped ==
    ASSUME TypeOK, NEW h \in Handler, Ends(h)
    PROVE  /\ job' \in [Handler -> JobRecord \union {NoJob}]
           /\ at' \in [Handler -> Places] /\ seen' \in [Handler -> Seen]
BY SeenShapes DEF TypeOK, Ends, Places

LEMMA ChainTyped ==
    ASSUME TypeOK, NEW h \in Handler, job[h] \in JobRecord, NEW k \in Kind \ {"crawl"},
           Chain(h, k)
    PROVE  TypeOK'
<1>1. list' \in Seq(JobRecord) /\ buried' \in BOOLEAN /\ spare' \in 0 .. bound.duplicates
  BY ChainEffect
<1>2. Ends(h) /\ UNCHANGED <<rows, sources, lost, misread>>
  BY DEF Chain
<1>3. /\ job' \in [Handler -> JobRecord \union {NoJob}]
      /\ at' \in [Handler -> Places] /\ seen' \in [Handler -> Seen]
  BY <1>2, EndsTyped
<1>4. QED
  BY <1>1, <1>2, <1>3 DEF TypeOK, rows, sources, Places

LEMMA ReturnsTyped ==
    ASSUME TypeOK, NEW h \in Handler, Returns(h)
    PROVE  TypeOK'
<1>1. Ends(h) /\ UNCHANGED <<rows, sources, spare, list, buried, lost, misread>>
  BY DEF Returns
<1>2. /\ job' \in [Handler -> JobRecord \union {NoJob}]
      /\ at' \in [Handler -> Places] /\ seen' \in [Handler -> Seen]
  BY <1>1, EndsTyped
<1>3. QED
  BY <1>1, <1>2 DEF TypeOK, rows, sources, Places

\* What a best-effort read yields.
LEMMA Effort ==
    ASSUME TypeOK, NEW row, NEW r \in BestEffort(row)
    PROVE  (r[1] = row \/ r[1] = NoRow) /\ r[2] \in BOOLEAN
<1>1. PICK gone \in BOOLEAN : gone = (misread \/ row # NoRow)
  OBVIOUS
<1>2. misread \in BOOLEAN
  BY DEF TypeOK
<1>3. r = <<row, misread>> \/ r = <<NoRow, gone>>
  BY <1>1 DEF BestEffort
<1>4. PICK b \in BOOLEAN : r = <<row, b>> \/ r = <<NoRow, b>>
  <2>1. CASE r = <<row, misread>>
    BY <1>2, <2>1
  <2>2. CASE r = <<NoRow, gone>>
    BY <2>2
  <2>3. QED
    BY <1>3, <2>1, <2>2
<1>5. QED
  BY <1>4

LEMMA SourcesTyped ==
    ASSUME TypeOK, Deliver \/ Edit \/ Rescan \/ Request
    PROVE  TypeOK'
<1>0. /\ bound \in Scene /\ bound.requests \in Nat /\ bound.duplicates \in Nat
      /\ bound.sites \subseteq Address
  BY BoundAssumption DEF TypeOK
<1>1. CASE Deliver
  <2>1. /\ Push(first)
        /\ UNCHANGED <<rows, bound, first, api, requests, handlers, buried, lost, misread>>
        /\ \/ pending' = FALSE /\ spare' = spare
           \/ spare > 0 /\ spare' = spare - 1 /\ pending' = pending
    BY <1>1 DEF Deliver
  <2>4. pending' \in BOOLEAN /\ spare \in 0 .. bound.duplicates
    BY <2>1 DEF TypeOK
  <2>5. spare' \in 0 .. bound.duplicates
    BY <1>0, <2>1, <2>4
  <2>2. list' \in Seq(JobRecord)
    BY <2>1, PushEffect DEF TypeOK, handlers
  <2>3. QED
    BY <2>1, <2>2, <2>4, <2>5 DEF TypeOK, rows, handlers
<1>2. CASE Edit
  <2>1. PICK s \in bound.sites : site' = s /\ api' = FirstJob(s)
    BY <1>2 DEF Edit
  <2>2. api' \in JobRecord /\ site' \in bound.sites
    BY <1>0, <2>1, JobShapes
  <2>3. requests' \in 0 .. bound.requests
    BY <1>0, <1>2 DEF Edit, TypeOK
  <2>4. QED
    BY <1>2, <2>2, <2>3 DEF Edit, TypeOK, handlers
<1>3. CASE Rescan
  <2>1. api' \in JobRecord
    BY <1>0, <1>3, JobShapes DEF Rescan, TypeOK
  <2>2. requests' \in 0 .. bound.requests
    BY <1>0, <1>3 DEF Rescan, TypeOK
  <2>3. QED
    BY <1>3, <2>1, <2>2 DEF Rescan, TypeOK, rows, handlers
<1>4. CASE Request
  <2>1. list' \in Seq(JobRecord) /\ lost' \in BOOLEAN
    <3>1. CASE Push(api) /\ UNCHANGED lost
      <4>1. api \in JobRecord /\ UNCHANGED job
        BY <1>4 DEF Request, TypeOK, handlers
      <4>2. QED
        BY <3>1, <4>1, PushEffect DEF TypeOK
    <3>2. CASE lost' = TRUE /\ UNCHANGED list
      BY <3>2 DEF TypeOK
    <3>3. QED
      BY <1>4, <3>1, <3>2 DEF Request
  <2>2. QED
    BY <1>4, <2>1 DEF Request, TypeOK, rows, handlers
<1>5. QED
  BY <1>1, <1>2, <1>3, <1>4

LEMMA CrawlTyped ==
    ASSUME TypeOK, NEW h \in Handler, Holds(h), Crawl(h)
    PROVE  TypeOK'
<1>0. job[h].kind = "crawl" /\ job[h] \in JobRecord
  <2>1. job[h].kind = "crawl"
    BY DEF Crawl, StoreProfile, Fetch, StoreSite, AfterCrawl, Running
  <2>2. QED
    BY <2>1, HasJob DEF Kind
<1>1. CASE StoreProfile(h)
  <2>1. Goes(h, "next") /\ UNCHANGED rows
    BY <1>1 DEF StoreProfile
  <2>2. QED
    BY <2>1, GoesTyped DEF rows, Places, TypeOK
<1>2. CASE Fetch(h)
  <2>1. PICK verdict \in {"live", "unread"} :
           Sees(h, [Blank EXCEPT !.web = [url |-> job[h].url, verdict |-> verdict]], "store")
    BY <1>2 DEF Fetch
  <2>2. [url |-> job[h].url, verdict |-> verdict] \in Web
    BY <1>2 DEF Fetch, Web
  <2>3. [Blank EXCEPT !.web = [url |-> job[h].url, verdict |-> verdict]] \in Seen
    BY <2>2, SeenShapes
  <2>4. misread' \in BOOLEAN
    BY <1>2 DEF Fetch, TypeOK
  <2>5. QED
    BY <2>1, <2>3, <2>4, SeesTyped DEF Places
<1>3. CASE StoreSite(h)
  <2>1. Goes(h, "next") /\ web' = seen[h].web /\ UNCHANGED <<site, audit, score, vec>>
    BY <1>3 DEF StoreSite
  <2>2. web' \in Web \union {NoRow}
    BY <2>1 DEF TypeOK, Seen
  <2>3. QED
    BY <2>1, <2>2, GoesTyped DEF Places, TypeOK
<1>4. CASE AfterCrawl(h)
  <2>1. PICK k \in {"audit", "score"} : Chain(h, k)
    BY <1>4 DEF AfterCrawl
  <2>2. QED
    BY <1>0, <2>1, ChainTyped DEF Kind
<1>5. QED
  BY <1>1, <1>2, <1>3, <1>4 DEF Crawl

LEMMA AuditTyped ==
    ASSUME TypeOK, NEW h \in Handler, Holds(h), AIAudit(h)
    PROVE  TypeOK'
<1>0. job[h].kind = "audit" /\ job[h] \in JobRecord
  <2>1. job[h].kind = "audit"
    BY DEF AIAudit, SkipAudit, ReadSite, StoreAudit, AfterAudit, Running
  <2>2. QED
    BY <2>1, HasJob DEF Kind
<1>1. CASE SkipAudit(h) \/ AfterAudit(h)
  <2>1. Chain(h, "score")
    BY <1>1 DEF SkipAudit, AfterAudit
  <2>2. QED
    BY <1>0, <2>1, ChainTyped DEF Kind
<1>2. CASE ReadSite(h)
  <2>1. web \in Web /\ Sees(h, [Blank EXCEPT !.web = web], "store") /\ misread' \in BOOLEAN
    BY <1>2 DEF ReadSite, TypeOK
  <2>2. [Blank EXCEPT !.web = web] \in Seen
    BY <2>1, SeenShapes
  <2>3. QED
    BY <2>1, <2>2, SeesTyped DEF Places
<1>3. CASE StoreAudit(h)
  <2>1. /\ Running(h, "audit", "store") /\ audit' = [of |-> seen[h].web.url]
        /\ Goes(h, "next") /\ UNCHANGED <<site, web, score, vec>>
    BY <1>3 DEF StoreAudit
  <2>2. seen[h].web.url \in Own
    BY <2>1, RowShapes DEF Holds, TypeOK
  <2>3. audit' \in AuditRow
    BY <2>1, <2>2, RowShapes
  <2>4. QED
    BY <2>1, <2>3, GoesTyped DEF Places, TypeOK
<1>4. QED
  BY <1>1, <1>2, <1>3 DEF AIAudit

LEMMA ScoringTyped ==
    ASSUME TypeOK, NEW h \in Handler, RuleScoring(h)
    PROVE  TypeOK'
<1>0. job[h].kind = "score" /\ job[h] \in JobRecord /\ seen[h] \in Seen
  <2>1. job[h].kind = "score"
    BY DEF RuleScoring, ReadBusiness, ReadWebsite, ReadAudit, StoreScore, AfterScore, Running
  <2>2. QED
    BY <2>1, HasJob DEF Kind, TypeOK
<1>1. CASE ReadBusiness(h)
  <2>1. Sees(h, [Blank EXCEPT !.site = site], "web") /\ misread' \in BOOLEAN
    BY <1>1 DEF ReadBusiness, TypeOK
  <2>2. [Blank EXCEPT !.site = site] \in Seen
    BY BoundAssumption, SeenShapes DEF TypeOK
  <2>3. QED
    BY <2>1, <2>2, SeesTyped DEF Places
<1>2. CASE ReadWebsite(h)
  <2>1. PICK r \in BestEffort(web) \union {<<NoRow, misread>>} :
           Sees(h, [seen[h] EXCEPT !.web = r[1]], "audit") /\ misread' = r[2]
    BY <1>2 DEF ReadWebsite
  <2>2. r[1] \in Web \union {NoRow} /\ r[2] \in BOOLEAN
    BY Effort DEF TypeOK
  <2>3. [seen[h] EXCEPT !.web = r[1]] \in Seen
    BY <1>0, <2>2, SeenShapes
  <2>4. QED
    BY <2>1, <2>2, <2>3, SeesTyped DEF Places
<1>3. CASE ReadAudit(h)
  <2>1. PICK r \in BestEffort(audit) :
           Sees(h, [seen[h] EXCEPT !.audit = r[1]], "store") /\ misread' = r[2]
    BY <1>3 DEF ReadAudit
  <2>2. r[1] \in AuditRow \union {NoRow} /\ r[2] \in BOOLEAN
    BY Effort DEF TypeOK
  <2>3. [seen[h] EXCEPT !.audit = r[1]] \in Seen
    BY <1>0, <2>2, SeenShapes
  <2>4. QED
    BY <2>1, <2>2, <2>3, SeesTyped DEF Places
<1>4. CASE StoreScore(h)
  <2>1. /\ score' = [numbers |-> Evaluate(h), words |-> Evaluate(h), folded |-> 0]
        /\ Goes(h, "next") /\ UNCHANGED <<site, web, audit, vec>>
    BY <1>4 DEF StoreScore
  <2>2. score' \in Score
    BY <1>0, <2>1, RowShapes DEF Evaluate
  <2>3. QED
    BY <2>1, <2>2, GoesTyped DEF Places, TypeOK
<1>5. CASE AfterScore(h)
  BY <1>0, <1>5, ChainTyped DEF AfterScore, Kind
<1>6. QED
  BY <1>1, <1>2, <1>3, <1>4, <1>5 DEF RuleScoring

LEMMA RecommendationTyped ==
    ASSUME TypeOK, NEW h \in Handler, Holds(h), GenRecommendation(h)
    PROVE  TypeOK'
<1>0. job[h].kind = "recommend" /\ job[h] \in JobRecord /\ seen[h] \in Seen
  <2>1. job[h].kind = "recommend"
    BY DEF GenRecommendation, ReadScore, NoAuditToFold, ReadAuditToFold, UpdateScore,
       AfterRecommend, Running
  <2>2. QED
    BY <2>1, HasJob DEF Kind, TypeOK
<1>1. CASE ReadScore(h)
  <2>1. /\ score \in Score /\ Sees(h, [Blank EXCEPT !.score = score], "audit")
        /\ misread' \in BOOLEAN
    BY <1>1 DEF ReadScore, TypeOK
  <2>2. [Blank EXCEPT !.score = score] \in Seen
    BY <2>1, SeenShapes
  <2>3. QED
    BY <2>1, <2>2, SeesTyped DEF Places
<1>2. CASE NoAuditToFold(h)
  <2>1. Ends(h) /\ UNCHANGED <<rows, sources, spare, list, buried, lost>>
    BY <1>2 DEF NoAuditToFold
  <2>2. misread' \in BOOLEAN
    BY <1>2, Effort DEF NoAuditToFold
  <2>3. /\ job' \in [Handler -> JobRecord \union {NoJob}]
        /\ at' \in [Handler -> Places] /\ seen' \in [Handler -> Seen]
    BY <2>1, EndsTyped
  <2>4. QED
    BY <2>1, <2>2, <2>3 DEF TypeOK, rows, sources, Places
<1>3. CASE ReadAuditToFold(h)
  <2>1. Goes(h, "store") /\ UNCHANGED rows
    BY <1>3 DEF ReadAuditToFold
  <2>2. QED
    BY <2>1, GoesTyped DEF rows, Places, TypeOK
<1>4. CASE UpdateScore(h)
  <2>1. /\ Running(h, "recommend", "store") /\ score' = [seen[h].score EXCEPT !.folded = @ + 1]
        /\ Goes(h, "next") /\ UNCHANGED <<site, web, audit, vec>>
    BY <1>4 DEF UpdateScore
  <2>2. seen[h].score \in Score
    BY <1>0, <2>1, RowShapes DEF Holds, Running
  <2>3. score' \in Score
    BY <2>1, <2>2, RowShapes
  <2>4. QED
    BY <2>1, <2>3, GoesTyped DEF Places, TypeOK
<1>5. CASE AfterRecommend(h)
  BY <1>0, <1>5, ChainTyped DEF AfterRecommend, Kind
<1>6. QED
  BY <1>1, <1>2, <1>3, <1>4, <1>5 DEF GenRecommendation

LEMMA EmbedTyped ==
    ASSUME TypeOK, NEW h \in Handler, EmbedLead(h)
    PROVE  TypeOK'
<1>0. seen[h] \in Seen
  BY DEF TypeOK
<1>1. CASE SkipEmbedding(h)
  BY <1>1, ReturnsTyped DEF SkipEmbedding
<1>2. CASE ReadBusinessToEmbed(h)
  <2>1. Sees(h, [Blank EXCEPT !.site = site], "score") /\ misread' \in BOOLEAN
    BY <1>2 DEF ReadBusinessToEmbed, TypeOK
  <2>2. [Blank EXCEPT !.site = site] \in Seen
    BY BoundAssumption, SeenShapes DEF TypeOK
  <2>3. QED
    BY <2>1, <2>2, SeesTyped DEF Places
<1>3. CASE ReadScoreToEmbed(h)
  <2>1. PICK r \in BestEffort(score) :
           Sees(h, [seen[h] EXCEPT !.score = r[1]], "web") /\ misread' = r[2]
    BY <1>3 DEF ReadScoreToEmbed
  <2>2. r[1] \in Score \union {NoRow} /\ r[2] \in BOOLEAN
    BY Effort DEF TypeOK
  <2>3. [seen[h] EXCEPT !.score = r[1]] \in Seen
    BY <1>0, <2>2, SeenShapes
  <2>4. QED
    BY <2>1, <2>2, <2>3, SeesTyped DEF Places
<1>4. CASE ReadWebsiteToEmbed(h)
  <2>1. PICK r \in BestEffort(web) :
           Sees(h, [seen[h] EXCEPT !.web = r[1]], "check") /\ misread' = r[2]
    BY <1>4 DEF ReadWebsiteToEmbed
  <2>2. r[1] \in Web \union {NoRow} /\ r[2] \in BOOLEAN
    BY Effort DEF TypeOK
  <2>3. [seen[h] EXCEPT !.web = r[1]] \in Seen
    BY <1>0, <2>2, SeenShapes
  <2>4. QED
    BY <2>1, <2>2, <2>3, SeesTyped DEF Places
<1>5. CASE CheckEmbedding(h)
  <2>1. Returns(h) \/ (Goes(h, "store") /\ UNCHANGED rows)
    BY <1>5 DEF CheckEmbedding
  <2>2. QED
    BY <2>1, ReturnsTyped, GoesTyped DEF rows, Places, TypeOK
<1>6. CASE StoreVector(h)
  <2>1. /\ vec' = Text(h) /\ Ends(h)
        /\ UNCHANGED <<site, web, audit, score, sources, spare, list, buried, lost, misread>>
    BY <1>6 DEF StoreVector
  <2>2. vec' \in Document
    BY <1>0, <2>1, DocumentShapes DEF Text
  <2>3. /\ job' \in [Handler -> JobRecord \union {NoJob}]
        /\ at' \in [Handler -> Places] /\ seen' \in [Handler -> Seen]
    BY <2>1, EndsTyped
  <2>4. QED
    BY <2>1, <2>2, <2>3 DEF TypeOK, sources, Places
<1>7. QED
  BY <1>1, <1>2, <1>3, <1>4, <1>5, <1>6 DEF EmbedLead

LEMMA QueueTyped ==
    ASSUME TypeOK, NEW h \in Handler, Pop(h) \/ Fail(h) \/ Lose(h)
    PROVE  TypeOK'
<1>1. CASE Pop(h)
  <2>1. list' \in Seq(JobRecord) /\ Last(list) \in JobRecord
    BY <1>1, PopEffect
  <2>2. /\ job' = [job EXCEPT ![h] = Last(list)] /\ at' = [at EXCEPT ![h] = "begin"]
        /\ UNCHANGED <<rows, sources, spare, seen, buried, lost, misread>>
    BY <1>1 DEF Pop
  <2>3. job' \in [Handler -> JobRecord \union {NoJob}] /\ at' \in [Handler -> Places]
    BY <2>1, <2>2 DEF TypeOK, Places
  <2>4. QED
    BY <2>1, <2>2, <2>3 DEF TypeOK, rows, sources, Places
<1>2. CASE Fail(h)
  <2>1. list' \in Seq(JobRecord) /\ buried' \in BOOLEAN
    BY <1>2, FailEffect
  <2>2. Ends(h) /\ UNCHANGED <<rows, sources, spare, lost, misread>>
    BY <1>2 DEF Fail
  <2>3. /\ job' \in [Handler -> JobRecord \union {NoJob}]
        /\ at' \in [Handler -> Places] /\ seen' \in [Handler -> Seen]
    BY <2>2, EndsTyped
  <2>4. QED
    BY <2>1, <2>2, <2>3 DEF TypeOK, rows, sources, Places
<1>3. CASE Lose(h)
  <2>1. Ends(h) /\ lost' = TRUE /\ UNCHANGED <<rows, sources, spare, list, buried, misread>>
    BY <1>3 DEF Lose
  <2>2. /\ job' \in [Handler -> JobRecord \union {NoJob}]
        /\ at' \in [Handler -> Places] /\ seen' \in [Handler -> Seen]
    BY <2>1, EndsTyped
  <2>3. QED
    BY <2>1, <2>2 DEF TypeOK, rows, sources, Places
<1>4. QED
  BY <1>1, <1>2, <1>3

LEMMA TypeStep == PipeInv /\ [Next]_vars => TypeOK'
<1> SUFFICES ASSUME PipeInv, [Next]_vars PROVE TypeOK'
  OBVIOUS
<1>1. TypeOK /\ \A h \in Handler : Holds(h)
  BY DEF PipeInv, Rest
<1>2. CASE Deliver \/ Edit \/ Rescan \/ Request
  BY <1>1, <1>2, SourcesTyped
<1>3. ASSUME NEW h \in Handler, Handle(h) \/ Fail(h) \/ Lose(h) PROVE TypeOK'
  BY <1>1, <1>3, QueueTyped, CrawlTyped, AuditTyped, ScoringTyped, RecommendationTyped,
     EmbedTyped DEF Handle
<1>4. CASE UNCHANGED vars
  BY <1>1, <1>4 DEF TypeOK, vars, rows, sources, handlers
<1>5. QED
  BY <1>2, <1>3, <1>4 DEF Next

-----------------------------------------------------------------------------
(* What each kind of step keeps.                                            *)

\* A row that is there is replaced, but does not go away.
Grows ==
    /\ web # NoRow => web' # NoRow
    /\ audit # NoRow => audit' # NoRow
    /\ score # NoRow => score' # NoRow

LEMMA OthersHold ==
    ASSUME Grows, NEW h \in Handler, \A g \in Handler : Holds(g),
           \A g \in Handler \ {h} : job'[g] = job[g] /\ at'[g] = at[g] /\ seen'[g] = seen[g]
    PROVE  \A g \in Handler \ {h} : Holds(g)'
<1> TAKE g \in Handler \ {h}
<1>1. Holds(g) /\ job'[g] = job[g] /\ at'[g] = at[g] /\ seen'[g] = seen[g]
  OBVIOUS
<1>2. QED
  BY <1>1 DEF Holds, Grows, Running

\* A handler that has put its job down holds nothing.
LEMMA IdleHolds ==
    ASSUME TypeOK, NEW h \in Handler, Ends(h)
    PROVE  Holds(h)'
<1>1. job'[h] = NoJob /\ at'[h] = "idle" /\ seen'[h] = Blank
  BY DEF TypeOK, Ends
<1>2. QED
  BY <1>1, JobShapes DEF Holds, Running

LEMMA OthersStay ==
    ASSUME TypeOK, NEW h \in Handler, Ends(h)
    PROVE  \A g \in Handler \ {h} : job'[g] = job[g] /\ at'[g] = at[g] /\ seen'[g] = seen[g]
BY DEF TypeOK, Ends

\* Jobs in flight stay supplied when only jobs that are supplied join them.
LEMMA StaySupplied ==
    ASSUME Supplied, Grows, NEW k, Ready(k), Flying' \subseteq Flying \union {k, "none"}
    PROVE  Supplied'
<1>1. \A kind : Ready(kind) => Ready(kind)'
  BY DEF Ready, Grows
<1>2. Ready("none")
  BY DEF Ready
<1>3. \A kind \in Flying' : Ready(kind)
  BY <1>2 DEF Supplied
<1>4. QED
  BY <1>1, <1>3 DEF Supplied

\* A read.
LEMMA Looks ==
    ASSUME TypeOK, Rest, NEW h \in Handler, NEW r, NEW p, Sees(h, r, p), Holds(h)'
    PROVE  Rest'
<1>1. /\ UNCHANGED <<web, audit, score, first, pending, api, list, job, buried, lost>>
      /\ at' = [at EXCEPT ![h] = p] /\ seen' = [seen EXCEPT ![h] = r]
  BY DEF Sees, rows, sources
<1>2. Grows /\ Flying' = Flying
  BY <1>1 DEF Grows, Flying, Held
<1>3. \A g \in Handler \ {h} : Holds(g)'
  <2>1. \A g \in Handler \ {h} : job'[g] = job[g] /\ at'[g] = at[g] /\ seen'[g] = seen[g]
    BY <1>1 DEF TypeOK
  <2>2. QED
    BY <1>2, <2>1, OthersHold DEF Rest
<1>4. Supplied'
  BY <1>1 DEF Rest, Supplied, Ready, Flying, Held
<1>5. Opening' /\ OneEvaluation'
  BY <1>1 DEF Rest, Opening, OneEvaluation
<1>6. Remembered'
  BY <1>1, <1>2 DEF Rest, Remembered
<1>7. QED
  BY <1>3, <1>4, <1>5, <1>6 DEF Rest

\* A write.
LEMMA Stores ==
    ASSUME TypeOK, Rest, NEW h \in Handler, NEW p, Goes(h, p), Holds(h)', Grows,
           OneEvaluation'
    PROVE  Rest'
<1>1. /\ UNCHANGED <<first, pending, api, list, job, seen, buried, lost>>
      /\ at' = [at EXCEPT ![h] = p]
  BY DEF Goes, sources
<1>2. Flying' = Flying
  BY <1>1 DEF Flying, Held
<1>3. \A g \in Handler \ {h} : Holds(g)'
  <2>1. \A g \in Handler \ {h} : job'[g] = job[g] /\ at'[g] = at[g] /\ seen'[g] = seen[g]
    BY <1>1 DEF TypeOK
  <2>2. QED
    BY <2>1, OthersHold DEF Rest
<1>4. Supplied'
  <2>1. Ready("none")
    BY DEF Ready
  <2>2. QED
    BY <1>2, <2>1, StaySupplied DEF Rest
<1>5. Opening'
  BY <1>1 DEF Rest, Opening
<1>6. Remembered'
  BY <1>1, <1>2 DEF Rest, Remembered, Grows
<1>7. QED
  BY <1>3, <1>4, <1>5, <1>6 DEF Rest

\* A push of the next job.
LEMMA Chains ==
    ASSUME TypeOK, Rest, NEW h \in Handler, job[h] \in JobRecord,
           NEW k \in Kind \ {"crawl"}, Chain(h, k), Ready(k)
    PROVE  Rest'
<1>1. Ends(h) /\ UNCHANGED <<web, audit, score, first, pending, api, lost>>
  BY DEF Chain, rows, sources
<1>2. Flying' \subseteq Flying \union {k, "none"} /\ k \in Flying'
  BY ChainEffect
<1>3. Grows
  BY <1>1 DEF Grows
<1>4. \A g \in Handler : Holds(g)'
  BY <1>1, <1>3, IdleHolds, OthersStay, OthersHold DEF Rest
<1>5. Supplied'
  BY <1>2, <1>3, StaySupplied DEF Rest
<1>6. Opening' /\ OneEvaluation'
  BY <1>1 DEF Rest, Opening, OneEvaluation
<1>7. Remembered'
  <2>1. CASE k \in {"audit", "score"}
    BY <1>2, <2>1 DEF Remembered
  <2>2. CASE k \notin {"audit", "score"}
    BY <1>1, <2>2 DEF Remembered, Ready, Kind
  <2>3. QED
    BY <2>1, <2>2
<1>8. QED
  BY <1>4, <1>5, <1>6, <1>7 DEF Rest

\* The end of a chain, or of a handler that was killed.
LEMMA Leaves ==
    ASSUME TypeOK, Rest, NEW h \in Handler, Ends(h),
           UNCHANGED <<web, audit, score, first, pending, api, list, buried>>,
           score # NoRow \/ lost'
    PROVE  Rest'
<1>1. Flying' \subseteq Flying \union {"none"}
  BY EndEffect
<1>2. Grows
  BY DEF Grows
<1>3. \A g \in Handler : Holds(g)'
  BY <1>2, IdleHolds, OthersStay, OthersHold DEF Rest
<1>4. Supplied'
  <2>1. Ready("none")
    BY DEF Ready
  <2>2. QED
    BY <1>1, <1>2, <2>1, StaySupplied DEF Rest
<1>5. Opening' /\ OneEvaluation' /\ Remembered'
  BY DEF Rest, Opening, OneEvaluation, Remembered
<1>6. QED
  BY <1>3, <1>4, <1>5 DEF Rest

-----------------------------------------------------------------------------
(* Each handler.                                                            *)

\* The job of a handler is in flight, and so supplied.
LEMMA RunsSupplied ==
    ASSUME Supplied, NEW h \in Handler
    PROVE  Ready(job[h].kind)
BY DEF Supplied, Flying, Held

LEMMA CrawlKeeps ==
    ASSUME TypeOK, Rest, NEW h \in Handler, Crawl(h)
    PROVE  Rest'
<1>0. job[h].kind = "crawl" /\ job[h] \in JobRecord /\ Holds(h) /\ job[h] # NoJob
  <2>1. job[h].kind = "crawl"
    BY DEF Crawl, StoreProfile, Fetch, StoreSite, AfterCrawl, Running
  <2>2. QED
    BY <2>1, HasJob DEF Kind, Rest
<1>1. CASE StoreProfile(h)
  <2>1. Goes(h, "next") /\ UNCHANGED <<web, audit, score>> /\ at[h] = "begin"
    BY <1>1 DEF StoreProfile, rows, Running
  <2>2. job'[h] = job[h] /\ at'[h] = "next" /\ seen'[h] = Blank
    BY <1>0, <2>1 DEF Goes, TypeOK, Holds
  <2>3. Holds(h)'
    BY <1>0, <2>2, SeenShapes DEF Holds, Running
  <2>4. Grows /\ OneEvaluation'
    BY <2>1 DEF Grows, Rest, OneEvaluation
  <2>5. QED
    BY <2>1, <2>3, <2>4, Stores
<1>2. CASE Fetch(h)
  <2>1. PICK verdict \in {"live", "unread"} :
           Sees(h, [Blank EXCEPT !.web = [url |-> job[h].url, verdict |-> verdict]], "store")
    BY <1>2 DEF Fetch
  <2>2. PICK w : w = [url |-> job[h].url, verdict |-> verdict]
    OBVIOUS
  <2>3. w \in Web
    BY <1>2, <2>2 DEF Fetch, Web
  <2>4. Sees(h, [Blank EXCEPT !.web = w], "store")
    BY <2>1, <2>2
  <2>5. job'[h] = job[h] /\ at'[h] = "store" /\ seen'[h] = [Blank EXCEPT !.web = w]
    BY <2>4 DEF Sees, TypeOK
  <2>6. seen'[h].web # NoRow
    BY <2>3, <2>5, SeenShapes, ThereIsARow
  <2>7. Holds(h)'
    BY <1>0, <2>5, <2>6 DEF Holds, Running
  <2>8. QED
    BY <2>4, <2>7, Looks
<1>3. CASE StoreSite(h)
  <2>1. /\ Goes(h, "next") /\ web' = seen[h].web /\ UNCHANGED <<audit, score>>
        /\ at[h] = "store"
    BY <1>3 DEF StoreSite, Running
  <2>2. job'[h] = job[h] /\ at'[h] = "next" /\ seen'[h] = seen[h]
    BY <2>1 DEF Goes, TypeOK
  <2>3. web' # NoRow
    BY <1>0, <2>1 DEF Holds, Running
  <2>4. Holds(h)'
    BY <1>0, <2>2, <2>3 DEF Holds, Running
  <2>5. Grows /\ OneEvaluation'
    BY <2>1, <2>3 DEF Grows, Rest, OneEvaluation
  <2>6. QED
    BY <2>1, <2>4, <2>5, Stores
<1>4. CASE AfterCrawl(h)
  <2>1. Chain(h, "score") \/ (Chain(h, "audit") /\ Assessable(h) /\ at[h] = "next")
    BY <1>4 DEF AfterCrawl, Running
  <2>2. CASE Chain(h, "score")
    <3>1. Ready("score")
      BY DEF Ready
    <3>2. QED
      BY <1>0, <2>2, <3>1, Chains DEF Kind
  <2>3. CASE Chain(h, "audit") /\ Assessable(h) /\ at[h] = "next"
    <3>1. Ready("audit")
      BY <1>0, <2>3 DEF Ready, Assessable, Holds, Running
    <3>2. QED
      BY <1>0, <2>3, <3>1, Chains DEF Kind
  <2>4. QED
    BY <2>1, <2>2, <2>3
<1>5. QED
  BY <1>1, <1>2, <1>3, <1>4 DEF Crawl

LEMMA AuditKeeps ==
    ASSUME TypeOK, Rest, NEW h \in Handler, AIAudit(h)
    PROVE  Rest'
<1>0. job[h].kind = "audit" /\ job[h] \in JobRecord /\ Holds(h) /\ job[h] # NoJob
  <2>1. job[h].kind = "audit"
    BY DEF AIAudit, SkipAudit, ReadSite, StoreAudit, AfterAudit, Running
  <2>2. QED
    BY <2>1, HasJob DEF Kind, Rest
<1>1. CASE SkipAudit(h) \/ AfterAudit(h)
  <2>1. Chain(h, "score") /\ Ready("score")
    BY <1>1 DEF SkipAudit, AfterAudit, Ready
  <2>2. QED
    BY <1>0, <2>1, Chains DEF Kind
<1>2. CASE ReadSite(h)
  <2>1. web \in Web /\ web # NoRow /\ Sees(h, [Blank EXCEPT !.web = web], "store")
    BY <1>2 DEF ReadSite, TypeOK
  <2>2. job'[h] = job[h] /\ at'[h] = "store" /\ seen'[h] = [Blank EXCEPT !.web = web]
    BY <2>1 DEF Sees, TypeOK
  <2>3. seen'[h].web # NoRow
    BY <2>1, <2>2, SeenShapes
  <2>4. Holds(h)'
    BY <1>0, <2>2, <2>3 DEF Holds, Running
  <2>5. QED
    BY <2>1, <2>4, Looks
<1>3. CASE StoreAudit(h)
  <2>1. /\ Running(h, "audit", "store") /\ audit' = [of |-> seen[h].web.url]
        /\ Goes(h, "next") /\ UNCHANGED <<web, score>>
    BY <1>3 DEF StoreAudit
  <2>2. seen[h].web.url \in Own
    BY <1>0, <2>1, RowShapes DEF Holds, TypeOK
  <2>3. audit' # NoRow
    BY <2>1, <2>2, RowShapes, ThereIsARow
  <2>4. job'[h] = job[h] /\ at'[h] = "next" /\ seen'[h] = seen[h]
    BY <2>1 DEF Goes, TypeOK
  <2>5. Holds(h)'
    BY <1>0, <2>3, <2>4 DEF Holds, Running
  <2>6. Grows /\ OneEvaluation'
    BY <2>1, <2>3 DEF Grows, Rest, OneEvaluation
  <2>7. QED
    BY <2>1, <2>5, <2>6, Stores
<1>4. QED
  BY <1>1, <1>2, <1>3 DEF AIAudit

LEMMA ScoringKeeps ==
    ASSUME TypeOK, Rest, NEW h \in Handler, RuleScoring(h)
    PROVE  Rest'
<1>0. job[h].kind = "score" /\ job[h] \in JobRecord /\ Holds(h) /\ job[h] # NoJob
      /\ seen[h] \in Seen
  <2>1. job[h].kind = "score"
    BY DEF RuleScoring, ReadBusiness, ReadWebsite, ReadAudit, StoreScore, AfterScore, Running
  <2>2. QED
    BY <2>1, HasJob DEF Kind, Rest, TypeOK
<1>1. ASSUME NEW r, NEW p \in {"web", "audit", "store"}, Sees(h, r, p) PROVE Rest'
  <2>1. job'[h] = job[h] /\ at'[h] = p
    BY <1>1 DEF Sees, TypeOK
  <2>2. Holds(h)'
    BY <1>0, <2>1 DEF Holds, Running
  <2>3. QED
    BY <1>1, <2>2, Looks
<1>2. CASE ReadBusiness(h) \/ ReadWebsite(h) \/ ReadAudit(h)
  <2>1. \E r, p : p \in {"web", "audit", "store"} /\ Sees(h, r, p)
    BY <1>2 DEF ReadBusiness, ReadWebsite, ReadAudit
  <2>2. QED
    BY <1>1, <2>1
<1>3. CASE StoreScore(h)
  <2>1. /\ score' = [numbers |-> Evaluate(h), words |-> Evaluate(h), folded |-> 0]
        /\ Goes(h, "next") /\ UNCHANGED <<web, audit>>
    BY <1>3 DEF StoreScore
  <2>2. score' \in Score
    BY <1>0, <2>1, RowShapes DEF Evaluate
  <2>3. score' # NoRow /\ score'.numbers = score'.words
    BY <2>1, <2>2, ThereIsARow
  <2>4. job'[h] = job[h] /\ at'[h] = "next" /\ seen'[h] = seen[h]
    BY <2>1 DEF Goes, TypeOK
  <2>5. Holds(h)'
    BY <1>0, <2>3, <2>4 DEF Holds, Running
  <2>6. Grows /\ OneEvaluation'
    BY <2>1, <2>3 DEF Grows, OneEvaluation
  <2>7. QED
    BY <2>1, <2>5, <2>6, Stores
<1>4. CASE AfterScore(h)
  <2>1. Chain(h, "recommend") /\ Ready("recommend")
    BY <1>0, <1>4 DEF AfterScore, Ready, Holds
  <2>2. QED
    BY <1>0, <2>1, Chains DEF Kind
<1>5. QED
  BY <1>2, <1>3, <1>4 DEF RuleScoring

LEMMA RecommendationKeeps ==
    ASSUME TypeOK, Rest, NEW h \in Handler, GenRecommendation(h)
    PROVE  Rest'
<1>0. job[h].kind = "recommend" /\ job[h] \in JobRecord /\ Holds(h) /\ job[h] # NoJob
      /\ seen[h] \in Seen /\ score # NoRow
  <2>1. job[h].kind = "recommend"
    BY DEF GenRecommendation, ReadScore, NoAuditToFold, ReadAuditToFold, UpdateScore,
       AfterRecommend, Running
  <2>2. score # NoRow
    BY <2>1, RunsSupplied DEF Rest, Ready
  <2>3. QED
    BY <2>1, <2>2, HasJob DEF Kind, Rest, TypeOK
<1>1. CASE ReadScore(h)
  <2>1. score \in Score /\ Sees(h, [Blank EXCEPT !.score = score], "audit")
    BY <1>1 DEF ReadScore, TypeOK
  <2>2. job'[h] = job[h] /\ at'[h] = "audit" /\ seen'[h] = [Blank EXCEPT !.score = score]
    BY <2>1 DEF Sees, TypeOK
  <2>3. seen'[h].score = score
    BY <2>1, <2>2, SeenShapes
  <2>4. score.numbers = score.words
    BY <1>0 DEF Rest, OneEvaluation
  <2>5. Holds(h)'
    BY <1>0, <2>2, <2>3, <2>4 DEF Holds, Running
  <2>6. QED
    BY <2>1, <2>5, Looks
<1>2. CASE NoAuditToFold(h)
  <2>1. Ends(h) /\ UNCHANGED <<web, audit, score, first, pending, api, list, buried>>
    BY <1>2 DEF NoAuditToFold, rows, sources
  <2>2. QED
    BY <1>0, <2>1, Leaves
<1>3. CASE ReadAuditToFold(h)
  <2>1. /\ Goes(h, "store") /\ UNCHANGED <<web, audit, score>> /\ audit # NoRow
        /\ at[h] = "audit"
    BY <1>3 DEF ReadAuditToFold, rows, Running
  <2>2. job'[h] = job[h] /\ at'[h] = "store" /\ seen'[h] = seen[h]
    BY <2>1 DEF Goes, TypeOK
  <2>3. Holds(h)'
    BY <1>0, <2>1, <2>2 DEF Holds, Running
  <2>4. Grows /\ OneEvaluation'
    BY <2>1 DEF Grows, Rest, OneEvaluation
  <2>5. QED
    BY <2>1, <2>3, <2>4, Stores
<1>4. CASE UpdateScore(h)
  <2>1. /\ at[h] = "store" /\ score' = [seen[h].score EXCEPT !.folded = @ + 1]
        /\ Goes(h, "next") /\ UNCHANGED <<web, audit>>
    BY <1>4 DEF UpdateScore, Running
  <2>2. /\ seen[h].score \in Score /\ seen[h].score.numbers = seen[h].score.words
        /\ audit # NoRow
    BY <1>0, <2>1, RowShapes DEF Holds, Running
  <2>3. score' \in Score /\ score'.numbers = score'.words
    BY <2>1, <2>2, RowShapes
  <2>4. score' # NoRow
    BY <2>3, ThereIsARow
  <2>5. job'[h] = job[h] /\ at'[h] = "next" /\ seen'[h] = seen[h]
    BY <2>1 DEF Goes, TypeOK
  <2>6. Holds(h)'
    BY <1>0, <2>1, <2>2, <2>5 DEF Holds, Running
  <2>7. Grows /\ OneEvaluation'
    BY <2>1, <2>3, <2>4 DEF Grows, OneEvaluation
  <2>8. QED
    BY <2>1, <2>6, <2>7, Stores
<1>5. CASE AfterRecommend(h)
  <2>1. Chain(h, "embed") /\ Ready("embed")
    BY <1>0, <1>5 DEF AfterRecommend, Ready, Holds, Running
  <2>2. QED
    BY <1>0, <2>1, Chains DEF Kind
<1>6. QED
  BY <1>1, <1>2, <1>3, <1>4, <1>5 DEF GenRecommendation

LEMMA EmbedKeeps ==
    ASSUME TypeOK, Rest, NEW h \in Handler, EmbedLead(h)
    PROVE  Rest'
<1>0. job[h].kind = "embed" /\ Holds(h) /\ job[h] # NoJob /\ score # NoRow
  <2>1. job[h].kind = "embed"
    BY DEF EmbedLead, SkipEmbedding, ReadBusinessToEmbed, ReadScoreToEmbed,
       ReadWebsiteToEmbed, CheckEmbedding, StoreVector, Running
  <2>2. score # NoRow
    BY <2>1, RunsSupplied DEF Rest, Ready
  <2>3. QED
    BY <2>1, <2>2, HasJob DEF Kind, Rest
<1>1. ASSUME NEW r, NEW p \in {"score", "web", "check"}, Sees(h, r, p) PROVE Rest'
  <2>1. job'[h] = job[h] /\ at'[h] = p
    BY <1>1 DEF Sees, TypeOK
  <2>2. Holds(h)'
    BY <1>0, <2>1 DEF Holds, Running
  <2>3. QED
    BY <1>1, <2>2, Looks
<1>2. CASE ReadBusinessToEmbed(h) \/ ReadScoreToEmbed(h) \/ ReadWebsiteToEmbed(h)
  <2>1. \E r, p : p \in {"score", "web", "check"} /\ Sees(h, r, p)
    BY <1>2 DEF ReadBusinessToEmbed, ReadScoreToEmbed, ReadWebsiteToEmbed
  <2>2. QED
    BY <1>1, <2>1
<1>3. CASE SkipEmbedding(h) \/ Returns(h) \/ StoreVector(h)
  <2>1. Ends(h) /\ UNCHANGED <<web, audit, score, first, pending, api, list, buried>>
    BY <1>3 DEF SkipEmbedding, Returns, StoreVector, rows, sources
  <2>2. QED
    BY <1>0, <2>1, Leaves
<1>4. CASE Goes(h, "store") /\ UNCHANGED rows
  <2>1. UNCHANGED <<web, audit, score>>
    BY <1>4 DEF rows
  <2>2. job'[h] = job[h] /\ at'[h] = "store" /\ seen'[h] = seen[h]
    BY <1>4 DEF Goes, TypeOK
  <2>3. Holds(h)'
    BY <1>0, <2>2 DEF Holds, Running
  <2>4. Grows /\ OneEvaluation'
    BY <2>1 DEF Grows, Rest, OneEvaluation
  <2>5. QED
    BY <1>4, <2>3, <2>4, Stores
<1>5. QED
  BY <1>2, <1>3, <1>4 DEF EmbedLead, CheckEmbedding

\* Taking a job, and failing or losing it.
LEMMA QueueKeeps ==
    ASSUME TypeOK, Rest, NEW h \in Handler, Pop(h) \/ Fail(h) \/ Lose(h)
    PROVE  Rest'
<1>1. CASE Pop(h)
  <2>1. /\ UNCHANGED <<web, audit, score, first, pending, api, seen, buried, lost>>
        /\ job' = [job EXCEPT ![h] = Last(list)] /\ at' = [at EXCEPT ![h] = "begin"]
        /\ job[h] = NoJob
    BY <1>1 DEF Pop, rows, sources
  <2>2. /\ Last(list) \in JobRecord
        /\ Flying' \subseteq Flying /\ Flying \subseteq Flying' \union {"none"}
    BY <1>1, PopEffect
  <2>3. Grows /\ Opening' /\ OneEvaluation'
    BY <2>1 DEF Grows, Rest, Opening, OneEvaluation
  <2>4. Supplied'
    <3>1. Ready("none")
      BY DEF Ready
    <3>2. QED
      BY <2>2, <2>3, <3>1, StaySupplied DEF Rest
  <2>5. Remembered'
    BY <2>1, <2>2 DEF Rest, Remembered
  <2>6. Holds(h)'
    <3>1. job'[h] = Last(list) /\ at'[h] = "begin" /\ seen'[h] = seen[h]
      BY <2>1 DEF TypeOK
    <3>2. seen[h] = Blank
      BY <2>1 DEF Rest, Holds
    <3>3. QED
      BY <2>2, <3>1, <3>2, ThereIsARow DEF Holds, Running
  <2>7. \A g \in Handler \ {h} : Holds(g)'
    <3>1. \A g \in Handler \ {h} : job'[g] = job[g] /\ at'[g] = at[g] /\ seen'[g] = seen[g]
      BY <2>1 DEF TypeOK
    <3>2. QED
      BY <2>3, <3>1, OthersHold DEF Rest
  <2>8. QED
    BY <2>3, <2>4, <2>5, <2>6, <2>7 DEF Rest
<1>2. CASE Fail(h)
  <2>1. /\ Ends(h) /\ UNCHANGED <<web, audit, score, first, pending, api, lost>>
    BY <1>2 DEF Fail, rows, sources
  <2>2. /\ Flying' \subseteq Flying \union {"none"}
        /\ buried' \/ (Flying \subseteq Flying')
    BY <1>2, FailEffect
  <2>3. buried => buried'
    BY <1>2 DEF Fail, Requeue
  <2>4. Grows /\ Opening' /\ OneEvaluation'
    BY <2>1 DEF Grows, Rest, Opening, OneEvaluation
  <2>5. Supplied'
    <3>1. Ready("none")
      BY DEF Ready
    <3>2. QED
      BY <2>2, <2>4, <3>1, StaySupplied DEF Rest
  <2>6. Remembered'
    BY <2>1, <2>2, <2>3 DEF Rest, Remembered
  <2>7. \A g \in Handler : Holds(g)'
    BY <2>1, <2>4, IdleHolds, OthersStay, OthersHold DEF Rest
  <2>8. QED
    BY <2>4, <2>5, <2>6, <2>7 DEF Rest
<1>3. CASE Lose(h)
  <2>1. /\ Ends(h) /\ lost'
        /\ UNCHANGED <<web, audit, score, first, pending, api, list, buried>>
    BY <1>3 DEF Lose, rows, sources
  <2>2. QED
    BY <2>1, Leaves
<1>4. QED
  BY <1>1, <1>2, <1>3

\* The relay and the requests.
LEMMA SourcesKeep ==
    ASSUME TypeOK, Rest, Deliver \/ Edit \/ Rescan \/ Request
    PROVE  Rest'
<1>1. UNCHANGED <<web, audit, score, first, job, at, seen, buried>>
  BY DEF Deliver, Edit, Rescan, Request, rows, handlers
<1>2. Grows /\ OneEvaluation' /\ \A h \in Handler : Holds(h)'
  BY <1>1 DEF Grows, Rest, OneEvaluation, Holds, Running
<1>3. ASSUME NEW j \in JobRecord, j.kind \in {"crawl", "score"}, Push(j)
      PROVE  Supplied' /\ Remembered'
  <2>1. Flying' = Flying \union {j.kind}
    BY <1>1, <1>3, PushEffect
  <2>2. Ready(j.kind)
    BY <1>3 DEF Ready
  <2>3. QED
    BY <1>2, <1>3, <2>1, <2>2, StaySupplied DEF Rest, Remembered
<1>4. ASSUME UNCHANGED list, pending' \/ api' # NoJob \/ lost'
      PROVE  Supplied' /\ Remembered'
  <2>1. Flying' = Flying
    BY <1>1, <1>4 DEF Flying, Held
  <2>2. Ready("none")
    BY DEF Ready
  <2>3. QED
    BY <1>2, <1>4, <2>1, <2>2, StaySupplied DEF Rest, Remembered
<1>5. CASE Deliver
  <2>1. Push(first) /\ first \in JobRecord /\ first.kind \in {"crawl", "score"}
        /\ api' = api
    BY <1>5 DEF Deliver, TypeOK, Rest, Opening
  <2>2. Opening'
    BY <1>1, <2>1 DEF Rest, Opening
  <2>3. QED
    BY <1>2, <1>3, <2>1, <2>2 DEF Rest
<1>6. CASE Edit \/ Rescan
  <2>1. PICK s \in Address : api' = FirstJob(s) /\ UNCHANGED list
    <3>1. bound.sites \subseteq Address /\ site \in bound.sites
      BY BoundAssumption DEF TypeOK
    <3>2. QED
      BY <1>6, <3>1 DEF Edit, Rescan
  <2>2. api' # NoJob /\ api'.kind \in {"crawl", "score"}
    BY <2>1, JobShapes, ThereIsARow
  <2>3. Opening'
    BY <1>1, <2>2 DEF Rest, Opening
  <2>4. QED
    BY <1>2, <1>4, <2>1, <2>2, <2>3 DEF Rest
<1>7. CASE Request
  <2>1. api \in JobRecord /\ api.kind \in {"crawl", "score"} /\ api' = NoJob
    BY <1>7 DEF Request, TypeOK, Rest, Opening
  <2>2. Opening'
    BY <1>1, <2>1 DEF Rest, Opening
  <2>3. Push(api) \/ (lost' /\ UNCHANGED list)
    BY <1>7 DEF Request
  <2>4. QED
    BY <1>2, <1>3, <1>4, <2>1, <2>2, <2>3 DEF Rest
<1>8. QED
  BY <1>5, <1>6, <1>7

-----------------------------------------------------------------------------
LEMMA RestStep == PipeInv /\ [Next]_vars => Rest'
<1> SUFFICES ASSUME TypeOK, Rest, [Next]_vars PROVE Rest'
  BY DEF PipeInv
<1>1. CASE Deliver \/ Edit \/ Rescan \/ Request
  BY <1>1, SourcesKeep
<1>2. ASSUME NEW h \in Handler, Handle(h) \/ Fail(h) \/ Lose(h) PROVE Rest'
  BY <1>2, QueueKeeps, CrawlKeeps, AuditKeeps, ScoringKeeps, RecommendationKeeps,
     EmbedKeeps DEF Handle
<1>3. CASE UNCHANGED vars
  BY <1>3 DEF vars, rows, sources, handlers, Rest, Opening, Supplied, Ready, Flying, Held,
     Holds, Running, OneEvaluation, Remembered
<1>4. QED
  BY <1>1, <1>2, <1>3 DEF Next

-----------------------------------------------------------------------------
(* One handler at a time.                                                   *)

\* Only the handlers of the scene run jobs.
LEMMA Alone ==
    ASSUME TypeOK, Settling, NEW h \in Handler, Handle(h) \/ Fail(h) \/ Lose(h)
    PROVE  /\ h \in bound.handlers
           /\ \/ job' = job
              \/ job' = [job EXCEPT ![h] = NoJob]
              \/ job' = [job EXCEPT ![h] = Last(list)]
<1>1. job[h] # NoJob => h \in bound.handlers
  BY DEF Settling
<1>2. CASE Pop(h)
  BY <1>2 DEF Pop
<1>3. CASE Fail(h) \/ Lose(h)
  BY <1>1, <1>3 DEF Fail, Lose, Ends
<1>4. ASSUME NEW kind \in Kind, NEW p, Running(h, kind, p) PROVE h \in bound.handlers
  BY <1>1, <1>4, HasJob DEF Running
<1>5. CASE Crawl(h)
  <2>1. job' = job \/ job' = [job EXCEPT ![h] = NoJob]
    BY <1>5 DEF Crawl, StoreProfile, Fetch, StoreSite, AfterCrawl, Sees, Goes, Chain, Ends
  <2>2. \E p : Running(h, "crawl", p)
    BY <1>5 DEF Crawl, StoreProfile, Fetch, StoreSite, AfterCrawl
  <2>3. QED
    BY <1>4, <2>1, <2>2 DEF Kind
<1>6. CASE AIAudit(h)
  <2>1. job' = job \/ job' = [job EXCEPT ![h] = NoJob]
    BY <1>6 DEF AIAudit, SkipAudit, ReadSite, StoreAudit, AfterAudit, Sees, Goes, Chain, Ends
  <2>2. \E p : Running(h, "audit", p)
    BY <1>6 DEF AIAudit, SkipAudit, ReadSite, StoreAudit, AfterAudit
  <2>3. QED
    BY <1>4, <2>1, <2>2 DEF Kind
<1>7. CASE RuleScoring(h)
  <2>1. job' = job \/ job' = [job EXCEPT ![h] = NoJob]
    BY <1>7 DEF RuleScoring, ReadBusiness, ReadWebsite, ReadAudit, StoreScore, AfterScore,
       Sees, Goes, Chain, Ends
  <2>2. \E p : Running(h, "score", p)
    BY <1>7 DEF RuleScoring, ReadBusiness, ReadWebsite, ReadAudit, StoreScore, AfterScore
  <2>3. QED
    BY <1>4, <2>1, <2>2 DEF Kind
<1>8. CASE GenRecommendation(h)
  <2>1. job' = job \/ job' = [job EXCEPT ![h] = NoJob]
    BY <1>8 DEF GenRecommendation, ReadScore, NoAuditToFold, ReadAuditToFold, UpdateScore,
       AfterRecommend, Sees, Goes, Chain, Ends
  <2>2. \E p : Running(h, "recommend", p)
    BY <1>8 DEF GenRecommendation, ReadScore, NoAuditToFold, ReadAuditToFold, UpdateScore,
       AfterRecommend
  <2>3. QED
    BY <1>4, <2>1, <2>2 DEF Kind
<1>9. CASE EmbedLead(h)
  <2>1. job' = job \/ job' = [job EXCEPT ![h] = NoJob]
    BY <1>9 DEF EmbedLead, SkipEmbedding, ReadBusinessToEmbed, ReadScoreToEmbed,
       ReadWebsiteToEmbed, CheckEmbedding, StoreVector, Returns, Sees, Goes, Ends
  <2>2. \E p : Running(h, "embed", p)
    BY <1>9 DEF EmbedLead, SkipEmbedding, ReadBusinessToEmbed, ReadScoreToEmbed,
       ReadWebsiteToEmbed, CheckEmbedding, StoreVector
  <2>3. QED
    BY <1>4, <2>1, <2>2 DEF Kind
<1>10. QED
  BY <1>2, <1>3, <1>5, <1>6, <1>7, <1>8, <1>9 DEF Handle

LEMMA BoundStays ==
    ASSUME NEW h \in Handler, Handle(h) \/ Fail(h) \/ Lose(h)
    PROVE  bound' = bound
<1>1. CASE Pop(h) \/ Fail(h) \/ Lose(h)
  BY <1>1 DEF Pop, Fail, Lose, sources
<1>2. CASE Crawl(h) \/ AIAudit(h)
  BY <1>2 DEF Crawl, StoreProfile, Fetch, StoreSite, AfterCrawl, AIAudit, SkipAudit, ReadSite,
     StoreAudit, AfterAudit, Sees, Goes, Chain, sources
<1>3. CASE RuleScoring(h) \/ GenRecommendation(h)
  BY <1>3 DEF RuleScoring, ReadBusiness, ReadWebsite, ReadAudit, StoreScore, AfterScore,
     GenRecommendation, ReadScore, NoAuditToFold, ReadAuditToFold, UpdateScore,
     AfterRecommend, Sees, Goes, Chain, sources
<1>4. CASE EmbedLead(h)
  BY <1>4 DEF EmbedLead, SkipEmbedding, ReadBusinessToEmbed, ReadScoreToEmbed,
     ReadWebsiteToEmbed, CheckEmbedding, StoreVector, Returns, Sees, Goes, sources
<1>5. QED
  BY <1>1, <1>2, <1>3, <1>4 DEF Handle

\* A handler that reads, writes, or ends.
LEMMA AfterSees ==
    ASSUME TypeOK, NEW h \in Handler, NEW r, NEW p, Sees(h, r, p)
    PROVE  /\ job'[h] = job[h] /\ at'[h] = p /\ seen'[h] = r
           /\ UNCHANGED <<site, web, audit, score, vec, pending, api, list, buried, lost>>
BY DEF TypeOK, Sees, rows, sources

LEMMA AfterGoes ==
    ASSUME TypeOK, NEW h \in Handler, NEW p, Goes(h, p)
    PROVE  /\ job'[h] = job[h] /\ at'[h] = p /\ seen'[h] = seen[h]
           /\ UNCHANGED <<pending, api, list, buried, lost, misread>>
BY DEF TypeOK, Goes, sources

LEMMA AfterEnds ==
    ASSUME TypeOK, NEW h \in Handler, Ends(h)
    PROVE  job'[h] = NoJob /\ job'[h].kind = "none" /\ at'[h] = "idle"
BY JobShapes DEF TypeOK, Ends

\* A crawl and an audit end in a score.
LEMMA StillScoring ==
    ASSUME NEW h \in Handler, job'[h].kind \in {"crawl", "audit"}
    PROVE  Settles(h)'
BY DEF Settles, Scoring

LEMMA ChainSettles ==
    ASSUME TypeOK, NEW h \in Handler, job[h] \in JobRecord, Settles(h),
           NEW k \in Kind \ {"crawl"}, Chain(h, k), k \in {"audit", "score"} \/ ~Scoring(h)
    PROVE  Settles(h)'
<1>1. PICK f : f = Follow(k)
  OBVIOUS
<1>2. list \in Seq(JobRecord) /\ buried \in BOOLEAN
  BY DEF TypeOK
<1>3. f \in JobRecord /\ f.kind = k
  BY <1>1, JobShapes
<1>4. <<f>> \o list \in Seq(JobRecord) /\ KindsOn(<<f>> \o list) = KindsOn(list) \union {k}
  BY <1>2, <1>3, Pushes
<1>5. KindsOn(list) \subseteq KindsOn(list') /\ k \in KindsOn(list')
  <2>1. CASE Push(f)
    BY <1>4, <2>1 DEF Push
  <2>2. CASE Requeue(job[h], <<f>> \o list)
    BY <1>2, <1>4, <2>2, Requeued
  <2>3. QED
    BY <1>1, <2>1, <2>2 DEF Chain
<1>6. buried => buried'
  BY <1>1 DEF Chain, Requeue
<1>7. job'[h].kind = "none" /\ UNCHANGED <<site, web, audit, score, vec, pending, api, lost, misread>>
  BY AfterEnds DEF Chain, rows, sources
<1>8. CASE k \in {"audit", "score"}
  BY <1>5, <1>7, <1>8 DEF Settles, Asked
<1>9. CASE k \notin {"audit", "score"} /\ ~Scoring(h)
  <2>1. k \in {"recommend", "embed"}
    BY <1>9 DEF Kind
  <2>2. Clean' => Clean
    BY <1>6, <1>7 DEF Clean
  <2>3. Asked => Asked'
    BY <1>5, <1>7 DEF Asked
  <2>4. Scored' = Scored
    BY <1>7 DEF Scored, Now
  <2>5. QED
    BY <1>5, <1>7, <1>9, <2>1, <2>2, <2>3, <2>4 DEF Settles
<1>10. QED
  BY <1>8, <1>9

\* A job that ends without another one leaves the lead settled.
LEMMA EndSettles ==
    ASSUME TypeOK, NEW h \in Handler, Ends(h), ~Scoring(h), Settles(h),
           UNCHANGED <<site, web, audit, score, pending, api, list, buried, lost>>,
           misread => misread',
           Clean' /\ audit # NoRow /\ h \in WithEmbedder => Embedded'
    PROVE  Settles(h)'
<1>1. job'[h].kind = "none"
  BY AfterEnds
<1>2. Clean' => Clean
  BY DEF Clean
<1>3. Asked' = Asked /\ Scored' = Scored
  BY DEF Asked, Scored, Now
<1>4. QED
  BY <1>1, <1>2, <1>3 DEF Settles

\* A job that is tried again is on the list again.
LEMMA QueueSettles ==
    ASSUME TypeOK, NEW h \in Handler, Settles(h), Pop(h) \/ Fail(h) \/ Lose(h)
    PROVE  Settles(h)'
<1>1. CASE Pop(h)
  <2>1. /\ UNCHANGED <<site, web, audit, score, vec, pending, api, buried, lost, misread>>
        /\ job[h] = NoJob /\ job'[h] = Last(list) /\ at'[h] = "begin"
        /\ list \in Seq(JobRecord) /\ list # <<>> /\ list' = Front(list)
    BY <1>1 DEF Pop, rows, sources, TypeOK
  <2>2. /\ Last(list) \in JobRecord
        /\ KindsOn(list) = KindsOn(list') \union {Last(list).kind}
    BY <2>1, Popped DEF KindsOn
  <2>3. job'[h].kind \in Kind /\ job[h].kind = "none"
    BY <2>1, <2>2, JobShapes
  <2>4. Asked => Asked' \/ Scoring(h)'
    BY <2>1, <2>2 DEF Asked, Scoring, Running
  <2>5. ~Scoring(h) /\ ~Embedding(h)
    BY <2>3 DEF Scoring, Embedding, Running
  <2>6. Clean' = Clean /\ Scored' = Scored /\ Embedded' = Embedded
    BY <2>1 DEF Clean, Scored, Now, Embedded
  <2>7. Clean' => Asked' \/ Scoring(h)' \/ Scored'
    BY <2>4, <2>5, <2>6 DEF Settles
  <2>8. KindsOn(list) \intersect {"recommend", "embed"} # {} =>
           KindsOn(list') \intersect {"recommend", "embed"} # {} \/ Embedding(h)'
    BY <2>1, <2>2 DEF Embedding, Running
  <2>9. Clean' /\ audit' # NoRow /\ h \in WithEmbedder =>
          \/ Asked' \/ Scoring(h)'
          \/ KindsOn(list') \intersect {"recommend", "embed"} # {}
          \/ Embedding(h)' \/ Embedded'
    BY <2>1, <2>4, <2>5, <2>6, <2>8 DEF Settles
  <2>10. /\ job'[h].kind = "score" => Scoring(h)'
         /\ job'[h].kind = "embed" => Embedding(h)'
    BY <2>1 DEF Scoring, Embedding, Running
  <2>11. job'[h].kind = "recommend" => at'[h] = "begin"
    BY <2>1
  <2>12. QED
    BY <2>7, <2>9, <2>10, <2>11 DEF Settles
<1>2. CASE Fail(h)
  <2>1. /\ Ends(h) /\ Requeue(job[h], list) /\ job[h] \in JobRecord
        /\ UNCHANGED <<site, web, audit, score, vec, pending, api, lost, misread>>
    BY <1>2 DEF Fail, rows, sources, TypeOK
  <2>2. /\ KindsOn(list) \subseteq KindsOn(list')
        /\ buried' \/ job[h].kind \in KindsOn(list')
    BY <2>1, Requeued DEF TypeOK
  <2>3. buried => buried'
    BY <2>1 DEF Requeue
  <2>4. job'[h].kind = "none" /\ job[h].kind \in Kind
    BY <2>1, AfterEnds, JobShapes
  <2>5. CASE buried'
    BY <2>4, <2>5 DEF Settles, Clean
  <2>6. CASE ~buried'
    <3>1. Clean' => Clean
      BY <2>1, <2>3 DEF Clean
    <3>2. Asked => Asked'
      BY <2>1, <2>2 DEF Asked
    <3>3. Scored' = Scored
      BY <2>1 DEF Scored, Now
    <3>4. CASE job[h].kind \in {"crawl", "audit", "score"}
      BY <2>2, <2>4, <2>6, <3>4 DEF Settles, Asked
    <3>5. CASE job[h].kind \in {"recommend", "embed"}
      <4>1. ~Scoring(h)
        BY <3>5 DEF Scoring, Running
      <4>2. KindsOn(list') \intersect {"recommend", "embed"} # {}
        BY <2>2, <2>6, <3>5
      <4>3. QED
        BY <2>4, <3>1, <3>2, <3>3, <4>1, <4>2 DEF Settles
    <3>6. QED
      BY <2>4, <3>4, <3>5 DEF Kind
  <2>7. QED
    BY <2>5, <2>6
<1>3. CASE Lose(h)
  <2>1. job'[h].kind = "none" /\ lost'
    BY <1>3, AfterEnds DEF Lose
  <2>2. QED
    BY <2>1 DEF Settles, Clean
<1>4. QED
  BY <1>1, <1>2, <1>3

LEMMA CrawlSettles ==
    ASSUME TypeOK, NEW h \in Handler, Settles(h), Crawl(h) \/ AIAudit(h)
    PROVE  Settles(h)'
<1>1. job[h].kind \in {"crawl", "audit"} /\ job[h] \in JobRecord
  <2>1. job[h].kind \in {"crawl", "audit"}
    BY DEF Crawl, StoreProfile, Fetch, StoreSite, AfterCrawl, AIAudit, SkipAudit, ReadSite,
       StoreAudit, AfterAudit, Running
  <2>2. QED
    BY <2>1, HasJob DEF Kind
<1>2. CASE \E k \in {"audit", "score"} : Chain(h, k)
  BY <1>1, <1>2, ChainSettles DEF Kind
<1>3. CASE UNCHANGED job
  BY <1>1, <1>3, StillScoring
<1>4. (\E k \in {"audit", "score"} : Chain(h, k)) \/ UNCHANGED job
  <2>1. CASE Crawl(h)
    BY <2>1 DEF Crawl, StoreProfile, Fetch, StoreSite, AfterCrawl, Sees, Goes
  <2>2. CASE AIAudit(h)
    BY <2>2 DEF AIAudit, SkipAudit, ReadSite, StoreAudit, AfterAudit, Sees, Goes
  <2>3. QED
    BY <2>1, <2>2
<1>5. QED
  BY <1>2, <1>3, <1>4

\* What a read that met no error yields.
LEMMA ReadWell ==
    ASSUME TypeOK, NEW row, NEW r \in BestEffort(row), misread' = r[2], ~misread'
    PROVE  r[1] = row /\ ~misread
<1>1. CASE r = <<row, misread>>
  BY <1>1
<1>2. CASE r = <<NoRow, misread \/ row # NoRow>>
  <2>1. r[1] = NoRow /\ r[2] = (misread \/ row # NoRow)
    BY <1>2
  <2>2. QED
    BY <2>1
<1>3. QED
  BY <1>1, <1>2 DEF BestEffort

LEMMA ScoringSettles ==
    ASSUME TypeOK, NEW h \in Handler, Settles(h), RuleScoring(h)
    PROVE  Settles(h)'
<1>1. job[h].kind = "score" /\ job[h] \in JobRecord /\ seen[h] \in Seen
  <2>1. job[h].kind = "score"
    BY DEF RuleScoring, ReadBusiness, ReadWebsite, ReadAudit, StoreScore, AfterScore, Running
  <2>2. QED
    BY <2>1, HasJob DEF Kind, TypeOK
<1>2. ASSUME NEW r, NEW p \in {"web", "audit", "store"}, Sees(h, r, p),
             Clean' => Clean, Scoring(h) /\ Clean' => Scoring(h)',
             at[h] # "next"
      PROVE  Settles(h)'
  <2>1. /\ job'[h].kind = "score"
        /\ UNCHANGED <<site, web, audit, score, vec, pending, api, list, buried, lost>>
    BY <1>1, <1>2, AfterSees
  <2>2. Asked' = Asked
    BY <2>1 DEF Asked
  <2>3. Clean' => Asked' \/ Scoring(h)'
    BY <1>1, <1>2, <2>2 DEF Settles
  <2>4. QED
    BY <2>1, <2>3 DEF Settles
<1>3. CASE ReadBusiness(h)
  <2>1. /\ Sees(h, [Blank EXCEPT !.site = site], "web") /\ misread' = misread
        /\ at[h] = "begin"
    BY <1>3 DEF ReadBusiness, Running
  <2>2. /\ job'[h] = job[h] /\ at'[h] = "web" /\ seen'[h] = [Blank EXCEPT !.site = site]
        /\ UNCHANGED <<site, buried, lost>>
    BY <2>1, AfterSees
  <2>3. seen'[h].site = site'
    BY <2>2 DEF Blank
  <2>4. Scoring(h)'
    BY <1>1, <2>2, <2>3 DEF Scoring, Running
  <2>5. Clean' = Clean
    BY <2>1, <2>2 DEF Clean
  <2>6. QED
    BY <1>2, <2>1, <2>4, <2>5
<1>4. CASE ReadWebsite(h)
  <2>1. PICK r \in IF seen[h].site \in Social THEN {<<NoRow, misread>>} ELSE BestEffort(web) :
           Sees(h, [seen[h] EXCEPT !.web = r[1]], "audit") /\ misread' = r[2]
    BY <1>4 DEF ReadWebsite
  <2>2. PICK w : w = r[1]
    OBVIOUS
  <2>3. /\ job'[h] = job[h] /\ at'[h] = "audit" /\ seen'[h] = [seen[h] EXCEPT !.web = w]
        /\ UNCHANGED <<site, web, audit, buried, lost>> /\ at[h] = "web"
    BY <1>4, <2>1, <2>2, AfterSees DEF ReadWebsite, Running
  <2>4. seen'[h].web = w /\ seen'[h].site = seen[h].site
    BY <1>1, <2>3 DEF Seen
  <2>5. ~misread' => ~misread /\ w = IF seen[h].site \in Social THEN NoRow ELSE web
    <3>1. CASE seen[h].site \in Social
      BY <2>1, <2>2, <3>1
    <3>2. CASE seen[h].site \notin Social
      BY <2>1, <2>2, <3>2, ReadWell
    <3>3. QED
      BY <3>1, <3>2
  <2>6. Clean' => Clean
    BY <2>3, <2>5 DEF Clean
  <2>7. Scoring(h) /\ Clean' => Scoring(h)'
    <3> SUFFICES ASSUME Scoring(h), Clean' PROVE Scoring(h)'
      OBVIOUS
    <3>1. seen[h].site = site
      BY <1>1, <2>3 DEF Scoring, Running
    <3>2. seen'[h].web = IF site \in Social THEN NoRow ELSE web
      BY <2>4, <2>5, <3>1 DEF Clean
    <3>3. seen'[h].web = Now'.web
      BY <2>3, <3>2 DEF Now
    <3>4. QED
      BY <1>1, <2>3, <2>4, <3>1, <3>3 DEF Scoring, Running
  <2>8. QED
    BY <1>2, <2>1, <2>3, <2>6, <2>7
<1>5. CASE ReadAudit(h)
  <2>1. PICK r \in BestEffort(audit) :
           Sees(h, [seen[h] EXCEPT !.audit = r[1]], "store") /\ misread' = r[2]
    BY <1>5 DEF ReadAudit
  <2>2. PICK a : a = r[1]
    OBVIOUS
  <2>3. /\ job'[h] = job[h] /\ at'[h] = "store" /\ seen'[h] = [seen[h] EXCEPT !.audit = a]
        /\ UNCHANGED <<site, web, audit, buried, lost>> /\ at[h] = "audit"
    BY <1>5, <2>1, <2>2, AfterSees DEF ReadAudit, Running
  <2>4. /\ seen'[h].audit = a /\ seen'[h].site = seen[h].site
        /\ seen'[h].web = seen[h].web
    BY <1>1, <2>3 DEF Seen
  <2>5. ~misread' => ~misread /\ a = audit
    BY <2>1, <2>2, ReadWell
  <2>6. Clean' => Clean
    BY <2>3, <2>5 DEF Clean
  <2>7. Scoring(h) /\ Clean' => Scoring(h)'
    <3> SUFFICES ASSUME Scoring(h), Clean' PROVE Scoring(h)'
      OBVIOUS
    <3>1. seen[h].site = site /\ seen[h].web = Now.web
      BY <1>1, <2>3 DEF Scoring, Running
    <3>2. seen'[h].site = site /\ seen'[h].web = (IF site \in Social THEN NoRow ELSE web)
          /\ seen'[h].audit = audit
      BY <2>4, <2>5, <3>1 DEF Clean, Now
    <3>3. Evaluate(h)' = Now'
      BY <2>3, <3>2 DEF Evaluate, Now
    <3>4. QED
      BY <1>1, <2>3, <3>3 DEF Scoring, Running
  <2>8. QED
    BY <1>2, <2>1, <2>3, <2>6, <2>7
<1>6. CASE StoreScore(h)
  <2>1. /\ score' = [numbers |-> Evaluate(h), words |-> Evaluate(h), folded |-> 0]
        /\ Goes(h, "next") /\ UNCHANGED <<site, web, audit, vec>> /\ at[h] = "store"
    BY <1>6 DEF StoreScore, Running
  <2>2. /\ job'[h] = job[h] /\ at'[h] = "next"
        /\ UNCHANGED <<pending, api, list, buried, lost, misread>>
    BY <2>1, AfterGoes
  <2>3. score' \in Score /\ score'.numbers = Evaluate(h)
    BY <1>1, <2>1, RowShapes DEF Evaluate
  <2>4. Scoring(h) => Scored'
    <3> SUFFICES ASSUME Scoring(h) PROVE Scored'
      OBVIOUS
    <3>1. Evaluate(h) = Now
      BY <1>1, <2>1 DEF Scoring, Running
    <3>2. Now' = Now
      BY <2>1 DEF Now
    <3>3. score' # NoRow
      BY <2>3, ThereIsARow
    <3>4. QED
      BY <2>3, <3>1, <3>2, <3>3 DEF Scored
  <2>5. Clean => Asked \/ Scored'
    BY <1>1, <2>1, <2>4 DEF Settles
  <2>6. Embedding(h)'
    BY <1>1, <2>2 DEF Embedding, Running
  <2>7. Clean' = Clean /\ Asked' = Asked
    BY <2>2 DEF Clean, Asked
  <2>8. QED
    BY <1>1, <2>2, <2>4, <2>5, <2>6, <2>7 DEF Settles
<1>7. CASE AfterScore(h)
  <2>1. Chain(h, "recommend") /\ at[h] = "next"
    BY <1>7 DEF AfterScore, Running
  <2>2. ~Scoring(h)
    BY <1>1, <2>1 DEF Scoring, Running
  <2>3. QED
    BY <1>1, <2>1, <2>2, ChainSettles DEF Kind
<1>8. QED
  BY <1>3, <1>4, <1>5, <1>6, <1>7 DEF RuleScoring

LEMMA RecommendationSettles ==
    ASSUME TypeOK, NEW h \in Handler, Holds(h), Settles(h), GenRecommendation(h)
    PROVE  Settles(h)'
<1>1. job[h].kind = "recommend" /\ job[h] \in JobRecord /\ seen[h] \in Seen /\ ~Scoring(h)
  <2>1. job[h].kind = "recommend"
    BY DEF GenRecommendation, ReadScore, NoAuditToFold, ReadAuditToFold, UpdateScore,
       AfterRecommend, Running
  <2>2. QED
    BY <2>1, HasJob DEF Kind, TypeOK, Scoring, Running
<1>2. CASE ReadScore(h)
  <2>1. /\ score \in Score /\ Sees(h, [Blank EXCEPT !.score = score], "audit")
        /\ misread' = misread
    BY <1>2 DEF ReadScore, TypeOK
  <2>2. /\ job'[h] = job[h] /\ seen'[h] = [Blank EXCEPT !.score = score]
        /\ UNCHANGED <<site, web, audit, score, vec, pending, api, list, buried, lost>>
    BY <2>1, AfterSees
  <2>3. seen'[h].score = score'
    BY <2>1, <2>2, SeenShapes
  <2>4. Embedding(h)'
    BY <1>1, <2>2 DEF Embedding
  <2>5. Clean' = Clean /\ Asked' = Asked /\ Scored' = Scored
    BY <2>1, <2>2 DEF Clean, Asked, Scored, Now
  <2>6. QED
    BY <1>1, <2>2, <2>3, <2>4, <2>5 DEF Settles
<1>3. CASE NoAuditToFold(h)
  <2>1. /\ Ends(h)
        /\ UNCHANGED <<site, web, audit, score, pending, api, list, buried, lost>>
    BY <1>3 DEF NoAuditToFold, rows, sources
  <2>2. PICK r \in BestEffort(audit) : r[1] = NoRow /\ misread' = r[2]
    BY <1>3 DEF NoAuditToFold
  <2>3. misread => misread'
    BY <2>2, ReadWell DEF TypeOK
  <2>4. Clean' => audit = NoRow
    BY <2>2, ReadWell DEF Clean
  <2>5. QED
    BY <1>1, <2>1, <2>3, <2>4, EndSettles
<1>4. CASE ReadAuditToFold(h)
  <2>1. Goes(h, "store") /\ UNCHANGED <<site, web, audit, score, vec>> /\ at[h] = "audit"
    BY <1>4 DEF ReadAuditToFold, rows, Running
  <2>2. /\ job'[h] = job[h] /\ seen'[h] = seen[h]
        /\ UNCHANGED <<pending, api, list, buried, lost, misread>>
    BY <2>1, AfterGoes
  <2>3. Embedding(h)'
    BY <1>1, <2>2 DEF Embedding
  <2>4. Clean' = Clean /\ Asked' = Asked /\ Scored' = Scored
    BY <2>1, <2>2 DEF Clean, Asked, Scored, Now
  <2>5. QED
    BY <1>1, <2>1, <2>2, <2>3, <2>4 DEF Settles
<1>5. CASE UpdateScore(h)
  <2>1. /\ at[h] = "store" /\ score' = [seen[h].score EXCEPT !.folded = @ + 1]
        /\ Goes(h, "next") /\ UNCHANGED <<site, web, audit, vec>>
    BY <1>5 DEF UpdateScore, Running
  <2>2. /\ job'[h] = job[h] /\ at'[h] = "next"
        /\ UNCHANGED <<pending, api, list, buried, lost, misread>>
    BY <2>1, AfterGoes
  <2>3. seen[h].score \in Score /\ seen[h].score = score
    BY <1>1, <2>1, RowShapes DEF Holds, Running, Settles
  <2>4. score' \in Score /\ score'.numbers = score.numbers
    BY <2>1, <2>3, RowShapes
  <2>5. Scored => Scored'
    BY <2>1, <2>4, ThereIsARow DEF Scored, Now
  <2>6. Embedding(h)'
    BY <1>1, <2>2 DEF Embedding
  <2>7. Clean' = Clean /\ Asked' = Asked
    BY <2>2 DEF Clean, Asked
  <2>8. QED
    BY <1>1, <2>2, <2>5, <2>6, <2>7 DEF Settles
<1>6. CASE AfterRecommend(h)
  BY <1>1, <1>6, ChainSettles DEF AfterRecommend, Kind
<1>7. QED
  BY <1>2, <1>3, <1>4, <1>5, <1>6 DEF GenRecommendation

LEMMA EmbedSettles ==
    ASSUME TypeOK, NEW h \in Handler, Settles(h), EmbedLead(h)
    PROVE  Settles(h)'
<1>1. job[h].kind = "embed" /\ seen[h] \in Seen /\ ~Scoring(h)
  <2>1. job[h].kind = "embed"
    BY DEF EmbedLead, SkipEmbedding, ReadBusinessToEmbed, ReadScoreToEmbed,
       ReadWebsiteToEmbed, CheckEmbedding, StoreVector, Running
  <2>2. QED
    BY <2>1 DEF TypeOK, Scoring, Running
<1>2. ASSUME NEW r, NEW p \in {"score", "web", "check"}, Sees(h, r, p),
             Clean' => Clean, Embedding(h) /\ Clean' => Embedding(h)'
      PROVE  Settles(h)'
  <2>1. /\ job'[h].kind = "embed"
        /\ UNCHANGED <<site, web, audit, score, vec, pending, api, list, buried, lost>>
    BY <1>1, <1>2, AfterSees
  <2>2. Asked' = Asked /\ Scored' = Scored
    BY <2>1 DEF Asked, Scored, Now
  <2>3. Clean' => Asked' \/ Embedding(h)'
    BY <1>1, <1>2, <2>2 DEF Settles
  <2>4. Clean' => Asked' \/ Scored'
    BY <1>1, <1>2, <2>2 DEF Settles
  <2>5. QED
    BY <2>1, <2>3, <2>4 DEF Settles
<1>3. ASSUME Ends(h), UNCHANGED <<site, web, audit, score, pending, api, list, buried, lost,
                                  misread>>,
             h \in WithEmbedder /\ Clean => Asked \/ Embedded'
      PROVE  Settles(h)'
  <2>1. job'[h].kind = "none"
    BY <1>3, AfterEnds
  <2>2. Clean' = Clean /\ Asked' = Asked /\ Scored' = Scored
    BY <1>3 DEF Clean, Asked, Scored, Now
  <2>3. QED
    BY <1>1, <1>3, <2>1, <2>2 DEF Settles
<1>4. CASE SkipEmbedding(h)
  <2>1. Returns(h) /\ h \notin WithEmbedder
    BY <1>4 DEF SkipEmbedding
  <2>2. QED
    BY <1>3, <2>1 DEF Returns, rows, sources
<1>5. CASE ReadBusinessToEmbed(h)
  <2>1. Sees(h, [Blank EXCEPT !.site = site], "score") /\ misread' = misread
    BY <1>5 DEF ReadBusinessToEmbed
  <2>2. /\ job'[h] = job[h] /\ at'[h] = "score" /\ seen'[h] = [Blank EXCEPT !.site = site]
        /\ UNCHANGED <<site, buried, lost>>
    BY <2>1, AfterSees
  <2>3. seen'[h].site = site'
    BY <2>2 DEF Blank
  <2>4. Embedding(h)' /\ Clean' = Clean
    BY <1>1, <2>1, <2>2, <2>3 DEF Embedding, Running, Clean
  <2>5. QED
    BY <1>2, <2>1, <2>4
<1>6. CASE ReadScoreToEmbed(h)
  <2>1. PICK r \in BestEffort(score) :
           Sees(h, [seen[h] EXCEPT !.score = r[1]], "web") /\ misread' = r[2]
    BY <1>6 DEF ReadScoreToEmbed
  <2>2. PICK x : x = r[1]
    OBVIOUS
  <2>3. /\ job'[h] = job[h] /\ at'[h] = "web" /\ seen'[h] = [seen[h] EXCEPT !.score = x]
        /\ UNCHANGED <<site, score, buried, lost>> /\ at[h] = "score"
    BY <1>6, <2>1, <2>2, AfterSees DEF ReadScoreToEmbed, Running
  <2>4. seen'[h].score = x /\ seen'[h].site = seen[h].site
    BY <1>1, <2>3 DEF Seen
  <2>5. ~misread' => ~misread /\ x = score
    BY <2>1, <2>2, ReadWell
  <2>6. Clean' => Clean
    BY <2>3, <2>5 DEF Clean
  <2>7. Embedding(h) /\ Clean' => Embedding(h)'
    <3>1. Embedding(h) => seen[h].site = site
      BY <1>1, <2>3 DEF Embedding, Running
    <3>2. QED
      BY <1>1, <2>3, <2>4, <2>5, <3>1 DEF Embedding, Running, Clean
  <2>8. QED
    BY <1>2, <2>1, <2>6, <2>7
<1>7. CASE ReadWebsiteToEmbed(h)
  <2>1. PICK r \in BestEffort(web) :
           Sees(h, [seen[h] EXCEPT !.web = r[1]], "check") /\ misread' = r[2]
    BY <1>7 DEF ReadWebsiteToEmbed
  <2>2. PICK w : w = r[1]
    OBVIOUS
  <2>3. /\ job'[h] = job[h] /\ at'[h] = "check" /\ seen'[h] = [seen[h] EXCEPT !.web = w]
        /\ UNCHANGED <<site, web, score, buried, lost>> /\ at[h] = "web"
    BY <1>7, <2>1, <2>2, AfterSees DEF ReadWebsiteToEmbed, Running
  <2>4. /\ seen'[h].web = w /\ seen'[h].site = seen[h].site
        /\ seen'[h].score = seen[h].score
    BY <1>1, <2>3 DEF Seen
  <2>5. ~misread' => ~misread /\ w = web
    BY <2>1, <2>2, ReadWell
  <2>6. Clean' => Clean
    BY <2>3, <2>5 DEF Clean
  <2>7. Embedding(h) /\ Clean' => Embedding(h)'
    <3> SUFFICES ASSUME Embedding(h), Clean' PROVE Embedding(h)'
      OBVIOUS
    <3>1. seen[h].site = site /\ seen[h].score = score
      BY <1>1, <2>3 DEF Embedding, Running
    <3>2. seen'[h].site = site' /\ seen'[h].web = web' /\ seen'[h].score = score'
      BY <2>3, <2>4, <2>5, <3>1 DEF Clean
    <3>3. Text(h)' = DocumentOf(site, web, score)'
      BY <3>2 DEF Text
    <3>4. QED
      BY <1>1, <2>3, <3>3 DEF Embedding, Running
  <2>8. QED
    BY <1>2, <2>1, <2>6, <2>7
<1>8. CASE CheckEmbedding(h)
  <2>1. at[h] = "check"
    BY <1>8 DEF CheckEmbedding, Running
  <2>2. Clean => Asked \/ Text(h) = DocumentOf(site, web, score)
    BY <1>1, <2>1 DEF Settles, Embedding, Running
  <2>3. CASE Unchanged(h) /\ Returns(h)
    <3>1. Clean => Asked \/ Embedded
      BY <2>2, <2>3 DEF Unchanged, Embedded
    <3>2. Ends(h) /\ UNCHANGED <<site, web, audit, score, vec, pending, api, list, buried,
                                 lost, misread>>
      BY <2>3 DEF Returns, rows, sources
    <3>3. Embedded' = Embedded
      BY <3>2 DEF Embedded
    <3>4. QED
      BY <1>3, <3>1, <3>2, <3>3
  <2>4. CASE Goes(h, "store") /\ UNCHANGED rows
    <3>1. /\ job'[h] = job[h] /\ at'[h] = "store" /\ seen'[h] = seen[h]
          /\ UNCHANGED <<site, web, audit, score, vec>>
          /\ UNCHANGED <<pending, api, list, buried, lost, misread>>
      BY <2>4, AfterGoes DEF rows
    <3>2. Asked' = Asked /\ Scored' = Scored /\ Clean' = Clean
      BY <3>1 DEF Asked, Scored, Now, Clean
    <3>3. Text(h)' = Text(h)
      BY <3>1 DEF Text
    <3>4. Clean' => Asked' \/ Embedding(h)'
      BY <1>1, <2>2, <3>1, <3>2, <3>3 DEF Embedding, Running
    <3>5. QED
      BY <1>1, <3>1, <3>2, <3>4 DEF Settles
  <2>5. QED
    BY <1>8, <2>3, <2>4 DEF CheckEmbedding
<1>9. CASE StoreVector(h)
  <2>1. /\ vec' = Text(h) /\ Ends(h) /\ at[h] = "store"
        /\ UNCHANGED <<site, web, audit, score, pending, api, list, buried, lost, misread>>
    BY <1>9 DEF StoreVector, sources, Running
  <2>2. Clean => Asked \/ Text(h) = DocumentOf(site, web, score)
    BY <1>1, <2>1 DEF Settles, Embedding, Running
  <2>3. Clean => Asked \/ Embedded'
    BY <2>1, <2>2 DEF Embedded
  <2>4. QED
    BY <1>3, <2>1, <2>3
<1>10. QED
  BY <1>4, <1>5, <1>6, <1>7, <1>8, <1>9 DEF EmbedLead

\* A delivery or a request asks for a score.
LEMMA SourcesSettle ==
    ASSUME TypeOK, Opening, NEW h \in Handler, Settles(h), Deliver \/ Edit \/ Rescan \/ Request
    PROVE  Settles(h)'
<1>1. job'[h] = job[h] /\ at'[h] = at[h] /\ seen'[h] = seen[h] /\ UNCHANGED score
  BY DEF Deliver, Edit, Rescan, Request, rows, handlers
<1>2. ASSUME NEW j \in JobRecord, j.kind \in {"crawl", "score"}, Push(j) PROVE Asked'
  <2>1. list \in Seq(JobRecord) /\ list' = <<j>> \o list
    BY <1>2 DEF Push, TypeOK
  <2>2. j.kind \in KindsOn(list')
    BY <2>1, Pushes
  <2>3. QED
    BY <1>2, <2>2 DEF Asked
<1>3. Asked' \/ lost'
  <2>1. CASE Deliver
    BY <1>2, <2>1 DEF Deliver, TypeOK, Opening
  <2>2. CASE Edit \/ Rescan
    <3>1. PICK s \in Address : api' = FirstJob(s)
      <4>1. bound.sites \subseteq Address /\ site \in bound.sites
        BY BoundAssumption DEF TypeOK
      <4>2. QED
        BY <2>2, <4>1 DEF Edit, Rescan
    <3>2. QED
      BY <3>1, JobShapes, ThereIsARow DEF Asked
  <2>3. CASE Request
    <3>1. api \in JobRecord /\ api.kind \in {"crawl", "score"}
      BY <2>3 DEF Request, TypeOK, Opening
    <3>2. QED
      BY <1>2, <2>3, <3>1 DEF Request
  <2>4. QED
    BY <2>1, <2>2, <2>3
<1>4. QED
  BY <1>1, <1>3 DEF Settles, Clean

LEMMA SettlingStep == PipeInv /\ Settling /\ [Next]_vars => Settling'
<1> SUFFICES ASSUME TypeOK, Rest, Settling, [Next]_vars PROVE Settling'
  BY DEF PipeInv
<1>1. CASE Deliver \/ Edit \/ Rescan \/ Request
  <2>1. bound' = bound /\ job' = job
    BY <1>1 DEF Deliver, Edit, Rescan, Request, handlers
  <2>2. \A h \in Handler : Settles(h) => Settles(h)'
    BY <1>1, SourcesSettle DEF Rest
  <2>3. QED
    BY <2>1, <2>2 DEF Settling
<1>2. ASSUME NEW h \in Handler, Handle(h) \/ Fail(h) \/ Lose(h) PROVE Settling'
  <2>1. /\ h \in bound.handlers
        /\ \A g \in Handler \ {h} : job'[g] = job[g]
    BY <1>2, Alone DEF TypeOK
  <2>2. bound' = bound
    BY <1>2, BoundStays
  <2>3. ASSUME bound.handlers = {h} PROVE Settles(h)'
    <3>1. Settles(h) /\ Holds(h)
      BY <2>3 DEF Settling, Rest
    <3>2. QED
      BY <1>2, <3>1, QueueSettles, CrawlSettles, ScoringSettles, RecommendationSettles,
         EmbedSettles DEF Handle
  <2>4. \A g \in Handler : bound.handlers = {g} => g = h
    BY <2>1
  <2>5. \A g \in Handler \ bound.handlers : job'[g] = NoJob
    BY <2>1 DEF Settling
  <2>6. QED
    BY <2>2, <2>3, <2>4, <2>5 DEF Settling
<1>3. CASE UNCHANGED vars
  BY <1>3 DEF vars, rows, sources, handlers, Settling, Settles, Clean, Asked, Scoring, Scored,
     Embedding, Embedded, Now, Running, Evaluate, Text
<1>4. QED
  BY <1>1, <1>2, <1>3 DEF Next

-----------------------------------------------------------------------------
\* A lead has just been stored, and its first job is in the outbox or about to
\* be pushed.
LEMMA InitPipe == Init => PipeInv
<1> SUFFICES ASSUME Init PROVE PipeInv
  OBVIOUS
<1>1. /\ bound \in Scene /\ bound.requests \in Nat /\ bound.duplicates \in Nat
      /\ bound.sites \subseteq Address /\ site \in bound.sites
  BY BoundAssumption DEF Init
<1>2. first \in JobRecord /\ first.kind \in {"crawl", "score"} /\ first # NoJob
  BY <1>1, JobShapes, ThereIsARow DEF Init
<1>3. (pending = TRUE /\ api = NoJob) \/ (pending = FALSE /\ api = first)
  BY DEF Init
<1>4. list = <<>> /\ ToSet(list) = {} /\ list \in Seq(JobRecord)
  BY DEF Init, ToSet
<1>5. TypeOK
  <2>1. /\ job \in [Handler -> JobRecord \union {NoJob}]
        /\ at \in [Handler -> Places] /\ seen \in [Handler -> Seen]
    BY SeenShapes DEF Init, Places
  <2>2. spare \in 0 .. bound.duplicates /\ requests \in 0 .. bound.requests
    BY <1>1 DEF Init
  <2>3. pending \in BOOLEAN /\ api \in JobRecord \union {NoJob}
    BY <1>2, <1>3
  <2>4. <<buried, lost, misread>> \in BOOLEAN \X BOOLEAN \X BOOLEAN
    BY DEF Init
  <2>5. QED
    BY <1>1, <1>2, <1>4, <2>1, <2>2, <2>3, <2>4 DEF Init, TypeOK, Places
<1>6. Opening /\ OneEvaluation /\ Remembered
  BY <1>2, <1>3 DEF Init, Opening, OneEvaluation, Remembered
<1>7. Supplied
  <2>1. \A kind \in Flying : kind = "none"
    BY <1>4, JobShapes DEF Init, Flying, KindsOn, Held
  <2>2. QED
    BY <2>1 DEF Supplied, Ready
<1>8. \A h \in Handler : Holds(h)
  <2> TAKE h \in Handler
  <2>1. job[h] = NoJob /\ at[h] = "idle" /\ seen[h] = Blank
    BY DEF Init
  <2>2. QED
    BY <2>1, JobShapes DEF Holds, Running
<1>9. QED
  BY <1>5, <1>6, <1>7, <1>8 DEF PipeInv, Rest

\* The inductive invariant of the chain.
THEOREM PipelineInvariant == Spec => []PipeInv
<1>1. PipeInv /\ [Next]_vars => PipeInv'
  BY TypeStep, RestStep DEF PipeInv
<1>2. QED
  BY <1>1, InitPipe, PTL DEF Spec

\* Whatever is retried, doubled or lost, a stage finds the rows it is about.
THEOREM InputsAreThere == Spec => []StageFindsItsInput
<1>1. PipeInv => StageFindsItsInput
  <2> SUFFICES ASSUME Supplied PROVE StageFindsItsInput
    BY DEF PipeInv, Rest
  <2>1. \A kinds : InFlight(kinds) => \E kind \in kinds : Ready(kind)
    BY Flight DEF Supplied
  <2>2. InFlight({"audit"}) => Ready("audit")
    BY <2>1
  <2>3. InFlight({"embed"}) => Ready("embed")
    BY <2>1
  <2>4. InFlight({"recommend", "embed"}) => Ready("recommend") \/ Ready("embed")
    BY <2>1
  <2>5. QED
    BY <2>2, <2>3, <2>4 DEF StageFindsItsInput, Ready
<1>2. QED
  BY <1>1, PipelineInvariant, PTL

\* The numbers and the words of a score are never of two evaluations.
THEOREM EvaluationsApart == Spec => []OneEvaluation
<1>1. PipeInv => OneEvaluation
  BY DEF PipeInv, Rest
<1>2. QED
  BY <1>1, PipelineInvariant, PTL

\* A lead without a score has a job on its way, parked, or lost to a fault.
THEOREM NoneForgotten == Spec => []NothingForgotten
<1>1. PipeInv => NothingForgotten
  <2>1. PICK kinds : kinds = {"crawl", "audit", "score"}
    OBVIOUS
  <2>2. InFlight(kinds) <=> \E kind \in kinds : kind \in Flying
    BY Flight
  <2>3. InFlight(kinds) <=> Flying \intersect kinds # {}
    BY <2>2
  <2>4. QED
    BY <2>1, <2>3 DEF PipeInv, Rest, Remembered, NothingForgotten
<1>2. QED
  BY <1>1, PipelineInvariant, PTL

\* With one handler at a time a lead that is done is settled on the rows on
\* record, for any retries, doubled deliveries, edits and rescans.
THEOREM LeadsSettle == Spec => []SettlesCurrent
<1>1. Init => Settling
  <2> SUFFICES ASSUME Init, NEW h \in Handler PROVE job[h] = NoJob /\ Settles(h)
    BY DEF Settling
  <2>1. job[h] = NoJob /\ Asked
    <3>1. first \in JobRecord
      BY InitPipe DEF PipeInv, TypeOK
    <3>2. QED
      BY <3>1, ThereIsARow DEF Init, Asked
  <2>2. QED
    BY <2>1, JobShapes DEF Settles
<1>2. Spec => []Settling
  BY <1>1, SettlingStep, PipelineInvariant, PTL DEF Spec
<1>3. Settling => SettlesCurrent
  <2> SUFFICES ASSUME Settling, NEW h \in Handler, bound.handlers = {h}, Quiet, Clean
               PROVE  /\ Scored
                      /\ audit # NoRow /\ bound.handlers \subseteq WithEmbedder => Embedded
    BY DEF SettlesCurrent, Clean, Scored, Now, Embedded
  <2>1. KindsOn(list) = {} /\ job[h].kind = "none" /\ Settles(h)
    BY JobShapes DEF Quiet, Busy, KindsOn, ToSet, Settling
  <2>2. ~Asked /\ ~Scoring(h) /\ ~Embedding(h)
    BY <2>1 DEF Quiet, Asked, Scoring, Embedding, Running
  <2>3. QED
    BY <2>1, <2>2 DEF Settles
<1>4. QED
  BY <1>2, <1>3, PTL

-----------------------------------------------------------------------------
(* The rule engine: the rows of a lead and the mark of its audit over time, *)
(* apart from the chain of jobs that reads them.                            *)

Life == INSTANCE LeadLife

\* Rows such as the tables can hold.
OneLead ==
    /\ lead \in Lead /\ mark \in Audit
    /\ address \in [https : BOOLEAN, looked : BOOLEAN]
    /\ address.looked => lead.crawl # "none" /\ lead.has["ssl"] = address.https

LEMMA Least ==
    ASSUME NEW S, S \subseteq Nat, S # {}
    PROVE  \E k \in S : \A m \in S : k <= m
<1> DEFINE Less == {ss \in Nat \X Nat : ss[1] < ss[2]}
<1>1. IsWellFoundedOn(Less, Nat)
  BY NatLessThanWellFounded DEF OpToRel
<1> HIDE DEF Less
<1>2. PICK k \in S : \A m \in S : ~ (<<m, k>> \in Less)
  BY <1>1, WFMin
<1>3. ASSUME NEW m \in S PROVE k <= m
  <2>1. k \in Nat /\ m \in Nat /\ <<m, k>> \in Nat \X Nat
    OBVIOUS
  <2>2. ~ (<<m, k>>[1] < <<m, k>>[2])
    BY <1>2, <2>1 DEF Less
  <2>3. QED
    BY <2>1, <2>2
<1>4. QED
  BY <1>3

\* A sum of weights as far as the m-th rule.
Adds(R, m, f) ==
    f = [n \in 0 .. m |->
           IF n = 0 THEN 0
           ELSE f[n - 1] + IF Rules[n] \in R THEN Weight[Rules[n]] ELSE 0]

LEMMA LongerSum ==
    ASSUME NEW R, NEW m \in Nat, \E f : Adds(R, m, f)
    PROVE  \E g : Adds(R, m + 1, g)
<1>1. PICK f : Adds(R, m, f)
  OBVIOUS
<1>2. PICK w : w = [n \in Nat |->
                     IF Rules[n] \in R THEN Weight[Rules[n]] ELSE 0]
  OBVIOUS
<1>3. \A n \in 0 .. m : f[n] = IF n = 0 THEN 0 ELSE f[n - 1] + w[n]
  BY <1>1, <1>2 DEF Adds
<1> DEFINE g == [n \in 0 .. m + 1 |-> IF n = m + 1 THEN f[m] + w[m + 1] ELSE f[n]]
<1>4. ASSUME NEW n \in 0 .. m + 1
      PROVE  g[n] = IF n = 0 THEN 0 ELSE g[n - 1] + w[n]
  <2>1. CASE n = 0
    BY <1>3, <2>1
  <2>2. CASE n = m + 1
    BY <2>2
  <2>3. CASE n # 0 /\ n # m + 1
    <3>1. n \in 0 .. m /\ n - 1 \in 0 .. m + 1 /\ n - 1 # m + 1
      BY <2>3
    <3>2. QED
      BY <1>3, <2>3, <3>1
  <2>4. QED
    BY <2>1, <2>2, <2>3
<1>5. g = [n \in 0 .. m + 1 |-> g[n]]
  OBVIOUS
<1> HIDE DEF g
<1>6. \A n \in 0 .. m + 1 :
         g[n] = IF n = 0 THEN 0
                ELSE g[n - 1] + IF Rules[n] \in R
                                THEN Weight[Rules[n]] ELSE 0
  <2>1. \A n \in 0 .. m + 1 :
           w[n] = IF Rules[n] \in R THEN Weight[Rules[n]] ELSE 0
    BY <1>2
  <2>2. QED
    BY <1>4, <2>1
<1>7. Adds(R, m + 1, g)
  BY <1>5, <1>6 DEF Adds
<1>8. QED
  BY <1>7

LEMMA ElevenRules ==
    /\ Len(Rules) = 11
    /\ Rules[1] = "social_only" /\ Rules[2] = "no_website"
    /\ Rules[3] = "broken_website" /\ Rules[4] = "not_mobile_friendly"
    /\ Rules[5] = "no_booking" /\ Rules[6] = "ssl_missing"
    /\ Rules[7] = "no_contact_form" /\ Rules[8] = "email_missing"
    /\ Rules[9] = "no_social_links" /\ Rules[10] = "meta_missing"
    /\ Rules[11] = "phone_missing"
BY DEF Rules

LEMMA Weights ==
    /\ Weight["social_only"] = 32 /\ Weight["no_website"] = 30
    /\ Weight["broken_website"] = 25 /\ Weight["not_mobile_friendly"] = 15
    /\ Weight["no_booking"] = 12 /\ Weight["ssl_missing"] = 10
    /\ Weight["no_contact_form"] = 8 /\ Weight["email_missing"] = 6
    /\ Weight["no_social_links"] = 5 /\ Weight["meta_missing"] = 4
    /\ Weight["phone_missing"] = 2
BY DEF Weight

LEMMA RuleNames ==
    DOMAIN Weight = {"social_only", "no_website", "broken_website",
        "not_mobile_friendly", "no_booking", "ssl_missing", "no_contact_form",
        "email_missing", "no_social_links", "meta_missing", "phone_missing"}
BY DEF Weight

\* What a rule of weight w adds to the sum over R.
Part(R, rule, w) == IF rule \in R THEN w ELSE 0

\* The sum, rule by rule.
LEMMA SumIs ==
    ASSUME NEW R
    PROVE  SumOfWeights(R) =
             Part(R, "social_only", 32) + Part(R, "no_website", 30)
             + Part(R, "broken_website", 25) + Part(R, "not_mobile_friendly", 15)
             + Part(R, "no_booking", 12) + Part(R, "ssl_missing", 10)
             + Part(R, "no_contact_form", 8) + Part(R, "email_missing", 6)
             + Part(R, "no_social_links", 5) + Part(R, "meta_missing", 4)
             + Part(R, "phone_missing", 2)
<1>1. \E f : Adds(R, 0, f)
  <2>1. Adds(R, 0, [n \in 0 .. 0 |-> 0])
    BY DEF Adds
  <2>2. QED
    BY <2>1
<1>2. \E f : Adds(R, 11, f)
  <2>1. \A m \in Nat : (\E f : Adds(R, m, f)) => \E g : Adds(R, m + 1, g)
    BY LongerSum
  <2>2. \E f : Adds(R, 1, f)
    BY <1>1, <2>1
  <2>3. \E f : Adds(R, 2, f)
    BY <2>1, <2>2
  <2>4. \E f : Adds(R, 3, f)
    BY <2>1, <2>3
  <2>5. \E f : Adds(R, 4, f)
    BY <2>1, <2>4
  <2>6. \E f : Adds(R, 5, f)
    BY <2>1, <2>5
  <2>7. \E f : Adds(R, 6, f)
    BY <2>1, <2>6
  <2>8. \E f : Adds(R, 7, f)
    BY <2>1, <2>7
  <2>9. \E f : Adds(R, 8, f)
    BY <2>1, <2>8
  <2>10. \E f : Adds(R, 9, f)
    BY <2>1, <2>9
  <2>11. \E f : Adds(R, 10, f)
    BY <2>1, <2>10
  <2>12. QED
    BY <2>1, <2>11
<1>3. PICK f : f = CHOOSE g : Adds(R, 11, g)
  OBVIOUS
<1>4. Adds(R, 11, f)
  BY <1>2, <1>3
<1>5. SumOfWeights(R) = f[11]
  <2>1. SumOfWeights(R) =
          (CHOOSE g : Adds(R, Len(Rules), g))[Len(Rules)]
    BY DEF SumOfWeights, Adds
  <2>2. QED
    BY <1>3, <2>1, ElevenRules
<1>6. PICK w : w = [n \in 0 .. 11 |->
                     IF Rules[n] \in R THEN Weight[Rules[n]] ELSE 0]
  OBVIOUS
<1>7. \A n \in 0 .. 11 : f[n] = IF n = 0 THEN 0 ELSE f[n - 1] + w[n]
  BY <1>4, <1>6 DEF Adds
<1>8. /\ w[1] = Part(R, "social_only", 32) /\ w[2] = Part(R, "no_website", 30)
      /\ w[3] = Part(R, "broken_website", 25) /\ w[4] = Part(R, "not_mobile_friendly", 15)
      /\ w[5] = Part(R, "no_booking", 12) /\ w[6] = Part(R, "ssl_missing", 10)
      /\ w[7] = Part(R, "no_contact_form", 8) /\ w[8] = Part(R, "email_missing", 6)
      /\ w[9] = Part(R, "no_social_links", 5) /\ w[10] = Part(R, "meta_missing", 4)
      /\ w[11] = Part(R, "phone_missing", 2)
  BY <1>6, ElevenRules, Weights DEF Part
<1>9. \A n \in 1 .. 11 : w[n] \in Int
  BY <1>6, ElevenRules, Weights
<1>10. f[0] = 0 /\ f[1] = w[1] /\ f[2] = f[1] + w[2] /\ f[3] = f[2] + w[3]
  BY <1>7, <1>9
<1>11. f[4] = f[3] + w[4] /\ f[5] = f[4] + w[5] /\ f[6] = f[5] + w[6] /\ f[7] = f[6] + w[7]
  BY <1>7
<1>12. f[8] = f[7] + w[8] /\ f[9] = f[8] + w[9] /\ f[10] = f[9] + w[10] /\ f[11] = f[10] + w[11]
  BY <1>7
<1>13. f[11] = w[1] + w[2] + w[3] + w[4] + w[5] + w[6] + w[7] + w[8] + w[9] + w[10] + w[11]
  BY <1>9, <1>10, <1>11, <1>12
<1>14. QED
  BY <1>5, <1>8, <1>13

\* Fewer rules never add up to more.
LEMMA SumGrows ==
    ASSUME NEW R, NEW S, S \subseteq R
    PROVE  /\ SumOfWeights(S) \in Nat /\ SumOfWeights(R) \in Nat
           /\ SumOfWeights(S) <= SumOfWeights(R)
<1>1. \A rule : rule \in S => rule \in R
  OBVIOUS
<1>2. SumOfWeights(S) \in Nat /\ SumOfWeights(R) \in Nat
  BY SumIs DEF Part
<1>3. SumOfWeights(S) <= SumOfWeights(R)
  BY <1>1, SumIs DEF Part
<1>4. QED
  BY <1>2, <1>3

-----------------------------------------------------------------------------
(* The totals of a lead.                                                    *)

LEMMA FiringApplies ==
    ASSUME NEW l
    PROVE  /\ TotalScore(l) \in Nat /\ MaxScore(l) \in Nat
           /\ TotalScore(l) <= MaxScore(l)
<1>1. {rule \in Applicable(l) : Fires(rule, l)} \subseteq Applicable(l)
  OBVIOUS
<1>2. QED
  BY <1>1, SumGrows DEF TotalScore, MaxScore

\* What can be won, by what the lead has to show.
LEMMA MaxOfKind ==
    ASSUME NEW l \in Lead
    PROVE  /\ MaxScore(l) \in {45, 43, 23, 48, 87}
           /\ Unassessed(l) => MaxScore(l) = 23
           /\ HasWebsite(l) /\ SiteDown(l) => MaxScore(l) = 48
<1>1. PICK R : R = Applicable(l)
  OBVIOUS
<1>2. MaxScore(l) = SumOfWeights(R)
  BY <1>1 DEF MaxScore
<1>3. /\ "social_only" \in R <=> SocialOnly(l)
      /\ "no_website" \in R <=> ~HasWebsite(l) /\ ~SocialOnly(l)
      /\ "broken_website" \in R <=> HasWebsite(l) /\ ~SiteOpaque(l)
      /\ "ssl_missing" \in R <=> HasWebsite(l)
  BY <1>1, RuleNames DEF Applicable, Applies
<1>4. /\ "not_mobile_friendly" \in R <=> HasLiveSite(l)
      /\ "no_booking" \in R <=> HasLiveSite(l)
      /\ "no_contact_form" \in R <=> HasLiveSite(l)
      /\ "meta_missing" \in R <=> HasLiveSite(l)
  BY <1>1, RuleNames DEF Applicable, Applies
<1>5. "email_missing" \in R /\ "no_social_links" \in R /\ "phone_missing" \in R
  BY <1>1, RuleNames DEF Applicable, Applies
<1>6. /\ ~(SocialOnly(l) /\ HasWebsite(l))
      /\ ~(HasLiveSite(l) /\ SiteOpaque(l))
      /\ HasLiveSite(l) => HasWebsite(l)
      /\ SiteDown(l) => ~SiteOpaque(l) /\ ~HasLiveSite(l)
      /\ Unassessed(l) <=> SiteOpaque(l) /\ HasWebsite(l)
  BY DEF SocialOnly, HasWebsite, HasLiveSite, IsReachable,
         SiteOpaque, SiteDown, Unassessed
<1>7. CASE SocialOnly(l)
  <2>1. SumOfWeights(R) = 45
    BY <1>3, <1>4, <1>5, <1>6, <1>7, SumIs DEF Part
  <2>2. QED
    BY <1>2, <1>6, <1>7, <2>1
<1>8. CASE ~SocialOnly(l) /\ ~HasWebsite(l)
  <2>1. SumOfWeights(R) = 43
    BY <1>3, <1>4, <1>5, <1>6, <1>8, SumIs DEF Part
  <2>2. QED
    BY <1>2, <1>6, <1>8, <2>1
<1>9. CASE Unassessed(l)
  <2>1. SumOfWeights(R) = 23
    BY <1>3, <1>4, <1>5, <1>6, <1>9, SumIs DEF Part
  <2>2. QED
    BY <1>2, <1>6, <1>9, <2>1
<1>10. CASE HasLiveSite(l)
  <2>1. SumOfWeights(R) = 87
    BY <1>3, <1>4, <1>5, <1>6, <1>10, SumIs DEF Part
  <2>2. QED
    BY <1>2, <1>6, <1>10, <2>1
<1>11. CASE HasWebsite(l) /\ ~SiteOpaque(l) /\ ~HasLiveSite(l)
  <2>1. SumOfWeights(R) = 48
    BY <1>3, <1>4, <1>5, <1>6, <1>11, SumIs DEF Part
  <2>2. QED
    BY <1>2, <1>6, <1>11, <2>1
<1>12. QED
  BY <1>6, <1>7, <1>8, <1>9, <1>10, <1>11

\* The more it lacks, the higher the percentage, rounded down as it is.
LEMMA PercentGrows ==
    ASSUME NEW max \in {45, 43, 23, 48, 87}, NEW a \in Nat, NEW b \in Nat, a <= b, b <= max
    PROVE  /\ (a * 100) \div max \in 0 .. 100 /\ (b * 100) \div max \in 0 .. 100
           /\ (a * 100) \div max <= (b * 100) \div max
<1>1. CASE max = 45
  BY <1>1
<1>2. CASE max = 43
  BY <1>2
<1>3. CASE max = 23
  BY <1>3
<1>4. CASE max = 48
  BY <1>4
<1>5. CASE max = 87
  BY <1>5
<1>6. QED
  BY <1>1, <1>2, <1>3, <1>4, <1>5

LEMMA PercentIs ==
    ASSUME NEW l \in Lead
    PROVE  /\ Percent(l) = (TotalScore(l) * 100) \div MaxScore(l)
           /\ Percent(l) \in 0 .. 100
           /\ RankedScore(l) \in 0 .. 100
<1>1. MaxScore(l) \in {45, 43, 23, 48, 87}
  BY MaxOfKind
<1>2. PICK total, max : total = TotalScore(l) /\ max = MaxScore(l)
  OBVIOUS
<1>3. total \in Nat /\ total <= max /\ max # 0
  BY <1>1, <1>2, FiringApplies
<1>4. Percent(l) = (total * 100) \div max
  BY <1>2, <1>3 DEF Percent
<1>5. (total * 100) \div max \in 0 .. 100
  <2>1. max \in {45, 43, 23, 48, 87} /\ total <= total
    BY <1>1, <1>2, <1>3
  <2>2. QED
    BY <1>3, <2>1, PercentGrows
<1>6. RankedScore(l) \in 0 .. 100
  <2>1. PICK p : p = Percent(l)
    OBVIOUS
  <2>2. p \in 0 .. 100 /\ p \div 2 \in 0 .. 100
    BY <1>4, <1>5, <2>1
  <2>3. QED
    BY <2>1, <2>2 DEF RankedScore
<1>7. QED
  BY <1>2, <1>4, <1>5, <1>6

-----------------------------------------------------------------------------
(* A lead nobody could look at, and one whose site is dead.                 *)

LEMMA DeadRanksHigh ==
    ASSUME NEW l \in Dead
    PROVE  RankedScore(l) >= 52
<1>1. /\ l \in Lead /\ HasWebsite(l) /\ SiteDown(l)
      /\ ~Unassessed(l) /\ ~SiteOpaque(l)
  BY DEF Dead, Unassessed, SiteOpaque, SiteDown
<1>2. PICK total : total = TotalScore(l)
  OBVIOUS
<1>3. total \in Nat /\ total >= 25 /\ total <= 48
  <2>1. PICK F : F = {rule \in Applicable(l) : Fires(rule, l)}
    OBVIOUS
  <2>2. "broken_website" \in Applicable(l)
    BY <1>1, RuleNames DEF Applicable, Applies
  <2>3. Fires("broken_website", l)
    BY <1>1 DEF Fires
  <2>4. "broken_website" \in F
    BY <2>1, <2>2, <2>3
  <2>5. SumOfWeights(F) >= 25
    BY <2>4, SumIs DEF Part
  <2>6. total = SumOfWeights(F)
    BY <1>2, <2>1 DEF TotalScore
  <2>7. MaxScore(l) = 48
    BY <1>1, MaxOfKind
  <2>8. QED
    BY <1>2, <2>5, <2>6, <2>7, FiringApplies
<1>4. Percent(l) = (total * 100) \div 48
  BY <1>1, <1>2, MaxOfKind, PercentIs
<1>5. (total * 100) \div 48 >= 52
  BY <1>3
<1>6. QED
  BY <1>1, <1>4, <1>5 DEF RankedScore

LEMMA UnassessedRanksLow ==
    ASSUME NEW l \in Lead, Unassessed(l)
    PROVE  RankedScore(l) <= 50 /\ Priority(l) # "high"
<1>1. PICK p : p = Percent(l)
  OBVIOUS
<1>2. p \in 0 .. 100
  BY <1>1, PercentIs
<1>3. p \div 2 <= 50
  BY <1>2
<1>4. RankedScore(l) = p \div 2
  BY <1>1 DEF RankedScore
<1>5. Priority(l) # "high"
  BY DEF Priority
<1>6. QED
  BY <1>3, <1>4, <1>5

\* A blend of two scores that are apart stays apart, as long as the mark of the
\* higher one stands no better; 5 stands for a score that is not blended at all.
LEMMA BlendsApart ==
    ASSUME NEW r \in Nat, r <= 50, NEW t \in Nat, t >= 52,
           NEW a \in Audit, NEW b \in Audit, Standing(b) <= Standing(a),
           NEW x, x = IF a = NoAudit THEN r ELSE (r * 7 + AIScore(a) * 3) \div 10,
           NEW y, y = IF b = NoAudit THEN t ELSE (t * 7 + AIScore(b) * 3) \div 10
    PROVE  x < y
<1>1. /\ a = NoAudit \/ (a \in 0 .. 10 /\ a # NoAudit)
      /\ b = NoAudit \/ (b \in 0 .. 10 /\ b # NoAudit)
  BY DEF Audit, Averages
<1>2. CASE a = NoAudit /\ b = NoAudit
  BY <1>2
<1>3. CASE a # NoAudit /\ b = NoAudit
  <2>1. a \in 0 .. 10 /\ a >= 5
    BY <1>1, <1>3 DEF Standing
  <2>2. x = (r * 7 + (10 - a) * 10 * 3) \div 10 /\ y = t
    BY <1>3 DEF AIScore
  <2>3. QED
    BY <2>1, <2>2
<1>4. CASE a = NoAudit /\ b # NoAudit
  <2>1. b \in 0 .. 10 /\ b <= 5
    BY <1>1, <1>4 DEF Standing
  <2>2. y = (t * 7 + (10 - b) * 10 * 3) \div 10 /\ x = r
    BY <1>4 DEF AIScore
  <2>3. QED
    BY <2>1, <2>2
<1>5. CASE a # NoAudit /\ b # NoAudit
  <2>1. a \in 0 .. 10 /\ b \in 0 .. 10 /\ b <= a
    BY <1>1, <1>5 DEF Standing
  <2>2. /\ x = (r * 7 + (10 - a) * 10 * 3) \div 10
        /\ y = (t * 7 + (10 - b) * 10 * 3) \div 10
    BY <1>5 DEF AIScore
  <2>3. QED
    BY <2>1, <2>2
<1>6. QED
  BY <1>2, <1>3, <1>4, <1>5

LEMMA BelowDead == OneLead => UnassessedStaysBelowDead
<1> SUFFICES ASSUME OneLead, Unassessed(lead)
             PROVE  /\ Priority(lead) # "high"
                    /\ \A a \in Audit : Standing(a) <= Standing(mark) =>
                          \A total \in DeadTotals[a] : StoredTotal(lead, mark) < total
  BY DEF UnassessedStaysBelowDead
<1>1. lead \in Lead /\ mark \in Audit
  BY DEF OneLead
<1>2. Priority(lead) # "high"
  BY <1>1, UnassessedRanksLow
<1>3. ASSUME NEW a \in Audit, Standing(a) <= Standing(mark), NEW total \in DeadTotals[a]
      PROVE  StoredTotal(lead, mark) < total
  <2>1. PICK l \in Dead : total = StoredTotal(l, a)
    BY <1>3 DEF DeadTotals
  <2>2. l \in Lead
    BY DEF Dead
  <2>3. PICK r, t : r = RankedScore(lead) /\ t = RankedScore(l)
    OBVIOUS
  <2>4. r \in Nat /\ r <= 50
    BY <1>1, <2>3, PercentIs, UnassessedRanksLow
  <2>5. t \in Nat /\ t >= 52
    BY <2>2, <2>3, PercentIs, DeadRanksHigh
  <2>6. StoredTotal(lead, mark) =
           IF mark = NoAudit THEN r ELSE (r * 7 + AIScore(mark) * 3) \div 10
    BY <2>3 DEF StoredTotal
  <2>7. total = IF a = NoAudit THEN t ELSE (t * 7 + AIScore(a) * 3) \div 10
    BY <2>1, <2>3 DEF StoredTotal
  <2>8. QED
    BY <1>1, <1>3, <2>4, <2>5, <2>6, <2>7, BlendsApart
<1>4. QED
  BY <1>2, <1>3

-----------------------------------------------------------------------------
(* A gap that closes.                                                       *)

LEMMA ClosingGap ==
    ASSUME NEW l \in Lead, NEW g \in Gap,
           NEW closed, closed = [l EXCEPT !.has[g] = TRUE],
           NEW open, open = [l EXCEPT !.has[g] = FALSE]
    PROVE  /\ closed \in Lead /\ open \in Lead
           /\ MaxScore(closed) = MaxScore(open)
           /\ TotalScore(closed) <= TotalScore(open)
           /\ Unassessed(closed) = Unassessed(open)
<1>1. /\ closed \in Lead /\ open \in Lead
      /\ closed.site = open.site /\ closed.crawl = open.crawl
      /\ \A h \in Gap : open.has[h] => closed.has[h]
  BY DEF Lead
<1>2. /\ SocialOnly(closed) = SocialOnly(open)
      /\ HasWebsite(closed) = HasWebsite(open)
      /\ Crawled(closed) = Crawled(open)
  BY <1>1 DEF SocialOnly, HasWebsite, Crawled
<1>3. /\ SiteOpaque(closed) = SiteOpaque(open)
      /\ SiteDown(closed) = SiteDown(open)
      /\ IsReachable(closed) = IsReachable(open)
  BY <1>1, <1>2 DEF SiteOpaque, SiteDown, IsReachable
<1>4. HasLiveSite(closed) = HasLiveSite(open)
  BY <1>2, <1>3 DEF HasLiveSite
<1>5. \A rule : Applies(rule, closed) = Applies(rule, open)
  BY <1>2, <1>3, <1>4 DEF Applies
<1>6. Applicable(closed) = Applicable(open)
  BY <1>5 DEF Applicable
<1>7. \A h \in Gap : Has(open, h) => Has(closed, h)
  BY <1>1, <1>2 DEF Has
<1>8. \A rule : Fires(rule, closed) => Fires(rule, open)
  BY <1>2, <1>3, <1>7 DEF Fires, Gap
<1>9. TotalScore(closed) <= TotalScore(open)
  <2>1. {rule \in Applicable(closed) : Fires(rule, closed)}
          \subseteq {rule \in Applicable(open) : Fires(rule, open)}
    BY <1>6, <1>8
  <2>2. QED
    BY <2>1, SumGrows DEF TotalScore
<1>10. MaxScore(closed) = MaxScore(open)
  BY <1>6 DEF MaxScore
<1>11. Unassessed(closed) = Unassessed(open)
  BY <1>2, <1>3 DEF Unassessed
<1>12. QED
  BY <1>1, <1>9, <1>10, <1>11

\* The blend of the two scores rounds down, and keeps their order.
LEMMA BlendGrows ==
    ASSUME NEW a \in Nat, NEW b \in Nat, NEW c \in Nat, NEW d \in Nat, a <= b, c <= d
    PROVE  (a * 7 + c * 3) \div 10 <= (b * 7 + d * 3) \div 10
OBVIOUS

LEMMA BetterRanksLower == OneLead => BetterNeverRanksHigher
<1> SUFFICES ASSUME OneLead, NEW g \in Gap,
                    NEW closed, closed = [lead EXCEPT !.has[g] = TRUE],
                    NEW open, open = [lead EXCEPT !.has[g] = FALSE]
             PROVE  /\ StoredTotal(closed, mark) <= StoredTotal(open, mark)
                    /\ mark # NoAudit =>
                          \A a \in Averages : a >= mark =>
                              StoredTotal(closed, a) <= StoredTotal(open, mark)
  BY DEF BetterNeverRanksHigher
<1>1. lead \in Lead /\ mark \in Audit
  BY DEF OneLead
<1>2. /\ closed \in Lead /\ open \in Lead
      /\ MaxScore(closed) = MaxScore(open)
      /\ TotalScore(closed) <= TotalScore(open)
      /\ Unassessed(closed) = Unassessed(open)
  BY <1>1, ClosingGap
<1>3. PICK c, o : c = RankedScore(closed) /\ o = RankedScore(open)
  OBVIOUS
<1>4. c \in 0 .. 100 /\ o \in 0 .. 100 /\ c <= o
  <2>1. PICK p, q, max, t, u :
           /\ p = Percent(closed) /\ q = Percent(open)
           /\ max = MaxScore(open)
           /\ t = TotalScore(closed) /\ u = TotalScore(open)
    OBVIOUS
  <2>2. /\ max \in {45, 43, 23, 48, 87} /\ t \in Nat /\ u \in Nat /\ t <= u /\ u <= max
    BY <1>2, <2>1, MaxOfKind, FiringApplies
  <2>3. p = (t * 100) \div max /\ q = (u * 100) \div max
    BY <1>2, <2>1, PercentIs
  <2>4. p \in 0 .. 100 /\ q \in 0 .. 100 /\ p <= q
    BY <2>2, <2>3, PercentGrows
  <2>5. p \div 2 <= q \div 2
    BY <2>4
  <2>6. c <= o
    BY <1>2, <1>3, <2>1, <2>4, <2>5 DEF RankedScore
  <2>7. QED
    BY <1>2, <1>3, <2>6, PercentIs
<1>5. ASSUME NEW a \in Audit, NEW b \in Audit,
             a = b \/ (b # NoAudit /\ a >= b)
      PROVE  StoredTotal(closed, a) <= StoredTotal(open, b)
  <2>1. CASE b = NoAudit
    BY <1>3, <1>4, <1>5, <2>1 DEF StoredTotal
  <2>2. CASE b # NoAudit
    <3>1. a \in 0 .. 10 /\ b \in 0 .. 10 /\ a >= b
      BY <1>5, <2>2 DEF Audit, Averages, NoAudit
    <3>2. a # NoAudit
      BY <3>1 DEF NoAudit
    <3>3. PICK i, j : i = (10 - a) * 10 /\ j = (10 - b) * 10
      OBVIOUS
    <3>4. i \in Nat /\ j \in Nat /\ i <= j
      BY <3>1, <3>3
    <3>5. (c * 7 + i * 3) \div 10 <= (o * 7 + j * 3) \div 10
      BY <1>4, <3>4, BlendGrows
    <3>6. /\ StoredTotal(closed, a) = (c * 7 + i * 3) \div 10
          /\ StoredTotal(open, b) = (o * 7 + j * 3) \div 10
      BY <1>3, <2>2, <3>2, <3>3 DEF StoredTotal, AIScore
    <3>7. QED
      BY <3>5, <3>6
  <2>3. QED
    BY <2>1, <2>2
<1>6. QED
  BY <1>1, <1>5 DEF Audit

-----------------------------------------------------------------------------
(* The sales line.                                                          *)

\* A lead without a reason to call has what every rule looks for.
LEMMA NoReason ==
    ASSUME lead \in Lead, Reasons(lead) = {}
    PROVE  /\ HasWebsite(lead) /\ ~SiteDown(lead)
           /\ \A g \in {"ssl", "email", "phone", "social"} : Has(lead, g)
           /\ HasLiveSite(lead) => \A g \in {"mobile", "booking", "meta"} : Has(lead, g)
<1>1. ASSUME NEW n \in 1 .. 11 PROVE ~ (Applies(Rules[n], lead) /\ Fires(Rules[n], lead))
  <2>1. n \in DOMAIN Rules
    BY DEF Rules
  <2>2. QED
    BY <2>1 DEF Reasons
<1>2. PICK R : R = Rules
  OBVIOUS
<1>3. \A n \in 1 .. 11 : ~ (Applies(R[n], lead) /\ Fires(R[n], lead))
  BY <1>1, <1>2
<1>4. /\ ~ (Applies("social_only", lead) /\ Fires("social_only", lead))
      /\ ~ (Applies("no_website", lead) /\ Fires("no_website", lead))
      /\ ~ (Applies("broken_website", lead) /\ Fires("broken_website", lead))
      /\ ~ (Applies("not_mobile_friendly", lead) /\ Fires("not_mobile_friendly", lead))
      /\ ~ (Applies("no_booking", lead) /\ Fires("no_booking", lead))
      /\ ~ (Applies("ssl_missing", lead) /\ Fires("ssl_missing", lead))
  BY <1>2, <1>3, ElevenRules
<1>5. /\ ~ (Applies("email_missing", lead) /\ Fires("email_missing", lead))
      /\ ~ (Applies("no_social_links", lead) /\ Fires("no_social_links", lead))
      /\ ~ (Applies("meta_missing", lead) /\ Fires("meta_missing", lead))
      /\ ~ (Applies("phone_missing", lead) /\ Fires("phone_missing", lead))
  BY <1>2, <1>3, ElevenRules
<1>6. HasWebsite(lead)
  BY <1>4 DEF Applies, Fires
<1>7. ~SiteDown(lead)
  BY <1>4, <1>6 DEF Applies, Fires, SiteDown, SiteOpaque
<1>8. Has(lead, "ssl")
  BY <1>4, <1>6 DEF Applies, Fires
<1>9. Has(lead, "email") /\ Has(lead, "social") /\ Has(lead, "phone")
  BY <1>5 DEF Applies, Fires
<1>10. ASSUME HasLiveSite(lead)
       PROVE  Has(lead, "mobile") /\ Has(lead, "booking") /\ Has(lead, "meta")
  BY <1>4, <1>5, <1>10 DEF Applies, Fires
<1>11. QED
  BY <1>6, <1>7, <1>8, <1>9, <1>10

LEMMA HonestPitch == OneLead => PitchIsHonest
<1> SUFFICES ASSUME OneLead,
                    NEW pitch, pitch = SalesSuggestion(lead),
                    NEW gap, gap = pitch[Len(pitch)]
             PROVE  /\ gap = "broken_website" =>
                          HasWebsite(lead) /\ lead.crawl = "down"
                    /\ gap \in {"not_mobile_friendly", "no_booking", "no_contact_form",
                                "meta_missing"} =>
                          HasWebsite(lead) /\ lead.crawl = "live"
                    /\ gap = "ssl_missing" /\ address.looked => ~address.https
                    /\ gap = "solid" =>
                          /\ HasWebsite(lead) /\ lead.crawl # "down"
                          /\ \A g \in {"ssl", "email", "phone", "social"} : lead.has[g]
                          /\ lead.crawl = "live" => \A g \in Gap : lead.has[g]
                    /\ SocialOnly(lead) => gap = "social only"
                    /\ Unassessed(lead) => gap \in {"could not assess", "solid"}
  BY DEF PitchIsHonest
<1>1. ASSUME SocialOnly(lead) PROVE Reasons(lead) # {}
  <2>1. 1 \in DOMAIN Rules /\ Rules[1] = "social_only"
    BY ElevenRules DEF Rules
  <2>2. Applies("social_only", lead) /\ Fires("social_only", lead)
    BY <1>1 DEF Applies, Fires
  <2>3. QED
    BY <2>1, <2>2 DEF Reasons
<1>2. CASE Reasons(lead) = {}
  <2>1. gap = "solid"
    BY <1>2 DEF SalesSuggestion
  <2>2. /\ HasWebsite(lead) /\ ~SiteDown(lead)
        /\ \A g \in {"ssl", "email", "phone", "social"} : Has(lead, g)
        /\ HasLiveSite(lead) => \A g \in {"mobile", "booking", "meta"} : Has(lead, g)
    BY <1>2, NoReason DEF OneLead
  <2>3. lead.crawl # "down" /\ (lead.crawl = "live" => HasLiveSite(lead))
    BY <2>2 DEF HasWebsite, SiteDown, HasLiveSite, IsReachable, Crawled, SocialOnly
  <2>4. /\ \A g \in {"ssl", "email", "phone", "social"} : lead.has[g]
        /\ lead.crawl = "live" => \A g \in Gap : lead.has[g]
    BY <2>2, <2>3 DEF Has, Gap
  <2>5. QED
    BY <1>1, <1>2, <2>1, <2>2, <2>3, <2>4
<1>3. CASE Reasons(lead) # {} /\ SocialOnly(lead)
  <2>1. gap = "social only"
    BY <1>3 DEF SalesSuggestion
  <2>2. ~Unassessed(lead)
    BY <1>3 DEF Unassessed, HasWebsite, SocialOnly
  <2>3. QED
    BY <2>1, <2>2
<1>4. CASE /\ Reasons(lead) # {} /\ ~SocialOnly(lead)
           /\ Unassessed(lead)
  <2>1. gap = "could not assess"
    BY <1>4 DEF SalesSuggestion
  <2>2. QED
    BY <1>4, <2>1
<1>5. CASE /\ Reasons(lead) # {} /\ ~SocialOnly(lead)
           /\ ~Unassessed(lead)
  <2>1. gap = FirstReason(lead)
    BY <1>5 DEF SalesSuggestion
  <2>2. Applies(gap, lead) /\ Fires(gap, lead)
    <3>1. PICK S : S = Reasons(lead)
      OBVIOUS
    <3>2. S \subseteq Nat /\ S # {}
      BY <1>5, <3>1, ElevenRules DEF Reasons, Rules
    <3>3. \E n \in S : \A m \in S : n <= m
      BY <3>2, Least
    <3>4. PICK n : n = CHOOSE k \in S : \A m \in S : k <= m
      OBVIOUS
    <3>5. n \in S
      BY <3>3, <3>4
    <3>6. gap = Rules[n]
      BY <2>1, <3>1, <3>4 DEF FirstReason
    <3>7. QED
      BY <3>1, <3>5, <3>6 DEF Reasons
  <2>3. gap = "broken_website" => HasWebsite(lead) /\ SiteDown(lead)
    BY <2>2 DEF Applies, Fires
  <2>4. gap \in {"not_mobile_friendly", "no_booking", "no_contact_form", "meta_missing"} =>
           HasLiveSite(lead)
    BY <2>2 DEF Applies
  <2>5. gap = "ssl_missing" /\ address.looked => ~address.https
    <3>1. gap = "ssl_missing" => HasWebsite(lead) /\ ~Has(lead, "ssl")
      BY <2>2 DEF Applies, Fires
    <3>2. address.looked => lead.crawl # "none" /\ lead.has["ssl"] = address.https
      BY DEF OneLead
    <3>3. QED
      BY <3>1, <3>2 DEF Has, Crawled, HasWebsite, SocialOnly
  <2>6. gap # "solid"
    BY <2>2 DEF Applies
  <2>7. QED
    BY <1>5, <2>3, <2>4, <2>5, <2>6 DEF SiteDown, HasLiveSite, IsReachable
<1>6. QED
  BY <1>2, <1>3, <1>4, <1>5

-----------------------------------------------------------------------------
(* The theorems about the engine.                                           *)

\* Its states are of what the engine is asked about.
LEMMA SameTerms ==
    Life!Gap = Gap /\ Life!Lead = Lead /\ Life!Averages = Averages /\ Life!NoAudit = NoAudit
BY DEF Life!Gap, Gap, Life!Lead, Lead, Life!Averages, Averages, Life!NoAudit, NoAudit

LEMMA LeadTyped == Life!Init => OneLead
<1> SUFFICES ASSUME Life!Init PROVE OneLead
  OBVIOUS
<1>1. lead \in Lead
  BY SameTerms DEF Life!Init, Lead
<1>2. mark \in Audit
  BY SameTerms DEF Life!Init, Audit
<1>3. PICK own \in BOOLEAN : address \in [https : {own, FALSE}, looked : {FALSE}]
  BY DEF Life!Init
<1>4. address \in [https : BOOLEAN, looked : BOOLEAN] /\ ~address.looked
  BY <1>3
<1>5. QED
  BY <1>1, <1>2, <1>4 DEF OneLead

LEMMA LeadStays == OneLead /\ [Life!Next]_(Life!vars) => OneLead'
<1> SUFFICES ASSUME OneLead, [Life!Next]_(Life!vars) PROVE OneLead'
  OBVIOUS
<1>1. /\ lead \in Lead /\ mark \in Audit
      /\ address \in [https : BOOLEAN, looked : BOOLEAN]
      /\ address.looked => lead.crawl # "none" /\ lead.has["ssl"] = address.https
  BY DEF OneLead
<1>2. CASE Life!Crawl
  <2>1. PICK current \in BOOLEAN : address' = [address EXCEPT !.looked = current]
    BY <1>2 DEF Life!Crawl
  <2>2. PICK verdict \in {"live", "down", "blocked", "unknown"},
             found \in [Gap -> BOOLEAN] :
           /\ address'.looked => found["ssl"] = address.https
           /\ lead' = [lead EXCEPT !.crawl = verdict, !.has = found]
    BY <1>2, SameTerms DEF Life!Crawl
  <2>3. /\ address' \in [https : BOOLEAN, looked : BOOLEAN]
        /\ address'.https = address.https
    BY <1>1, <2>1
  <2>4. lead' \in Lead /\ lead'.crawl = verdict /\ lead'.has = found
    BY <1>1, <2>2 DEF Lead
  <2>5. mark' = mark
    BY <1>2 DEF Life!Crawl
  <2>6. QED
    BY <1>1, <2>2, <2>3, <2>4, <2>5 DEF OneLead
<1>3. CASE Life!CrawlSocial
  <2>1. /\ lead' = [lead EXCEPT !.has["social"] = TRUE]
        /\ mark' = mark /\ address' = address
    BY <1>3 DEF Life!CrawlSocial
  <2>2. /\ lead' \in Lead /\ lead'.crawl = lead.crawl
        /\ lead'.has["ssl"] = lead.has["ssl"]
    BY <1>1, <2>1 DEF Lead, Gap
  <2>3. QED
    BY <1>1, <2>1, <2>2 DEF OneLead
<1>4. CASE Life!AuditSite
  <2>1. mark' \in Audit /\ lead' = lead /\ address' = address
    BY <1>4, SameTerms DEF Life!AuditSite, Audit
  <2>2. QED
    BY <1>1, <2>1 DEF OneLead
<1>5. CASE Life!Edit
  <2>1. PICK s \in {"none", "social", "own"}, p \in BOOLEAN :
           /\ lead' = [lead EXCEPT !.site = s, !.has["phone"] = p]
           /\ \/ address' = address
              \/ address' \in [https : {s = "own", FALSE}, looked : {FALSE}]
    BY <1>5 DEF Life!Edit
  <2>2. /\ lead' \in Lead /\ lead'.crawl = lead.crawl
        /\ lead'.has["ssl"] = lead.has["ssl"]
    BY <1>1, <2>1 DEF Lead, Gap
  <2>3. \/ address' = address
        \/ address' \in [https : BOOLEAN, looked : BOOLEAN] /\ ~address'.looked
    BY <2>1
  <2>4. mark' = mark
    BY <1>5 DEF Life!Edit
  <2>5. QED
    BY <1>1, <2>2, <2>3, <2>4 DEF OneLead
<1>6. CASE UNCHANGED Life!vars
  BY <1>1, <1>6 DEF Life!vars, OneLead
<1>7. QED
  BY <1>2, <1>3, <1>4, <1>5, <1>6 DEF Life!Next

\* The rows of a lead stay such as the tables can hold.
THEOREM LeadsTyped == Life!Spec => []OneLead
BY LeadTyped, LeadStays, PTL DEF Life!Spec

\* The engine ranks a lead that the crawler could not look at at 50 at most, every
\* site known to be dead at 52 at least (Percent, RankedScore, Priority), and the
\* blend of ruleScoring keeps them apart where the marks do not stand against it.
THEOREM UnassessedRankBelowDead == Life!Spec => []UnassessedStaysBelowDead
BY BelowDead, LeadsTyped, PTL

\* What can be won is the same and no rule starts to fire as a gap closes: the
\* percentage, its half and the blend with the audit keep their order, whatever
\* is lost to rounding (Evaluate, Percent, ruleScoring).
THEOREM BetterRankNoHigher == Life!Spec => []BetterNeverRanksHigher
BY BetterRanksLower, LeadsTyped, PTL

\* The reason that the sales line leads with is that of a rule that applies and
\* fires (SalesSuggestion), and the ssl column is that of the address once a crawl
\* of it is stored, so it says nothing that was not seen beyond what it names.
THEOREM PitchesAreHonest == Life!Spec => []PitchIsHonest
BY HonestPitch, LeadsTyped, PTL
=============================================================================
