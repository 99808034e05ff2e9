----------------------------- MODULE Collection -----------------------------
(***************************************************************************)
(* One collection: the request that records a scrape job and queues it     *)
(* (scrape.go), the workers that run a source adapter for it (handlers.go  *)
(* and the adapters), and the record of it that the caller polls.  The     *)
(* record is written as a whole by whoever read it, its writes may fail    *)
(* without anybody noticing, and the job may run late, again, or twice.    *)
(***************************************************************************)
EXTENDS Integers, SequencesExt, FiniteSetsExt

CONSTANTS
    Handler,       \* goroutines that may run the job
    Knowing,       \* sets of those whose process may have registered the source
    Kind,          \* which adapters are considered
    Offer,         \* what a source may hold: sequences of records
    Asked,         \* limits a caller may ask for
    DefaultLimit,  \* 60 in the code
    MaxLimit,      \* 500 in the code
    PageSize,      \* results of a page of the Places API, 20 in the code
    MaxPages,      \* pages it serves, 3 in the code
    MaxRetries,    \* Job.MaxRetries
    MaxFaults      \* bound on the faults of a behaviour

Adapter == {"csv", "gmaps", "places"}
Record == {"fine", "closed", "broken"}

ASSUME HandlerAssumption == Knowing \subseteq SUBSET Handler
ASSUME SourceAssumption == Kind \subseteq Adapter /\ Offer \subseteq Seq(Record)
ASSUME LimitAssumption ==
    /\ Asked \subseteq Int
    /\ DefaultLimit \in Nat \ {0} /\ MaxLimit \in Nat \ {0} /\ DefaultLimit <= MaxLimit
    /\ PageSize \in Nat \ {0} /\ MaxPages \in Nat \ {0}
ASSUME BoundAssumption == MaxRetries \in Nat \ {0} /\ MaxFaults \in Nat

VARIABLES
    source,   \* the adapter, what its source holds, and who has registered it
    limit,    \* the limit in the payload
    row,      \* the scrape_jobs row
    api,      \* where the request stands
    list,     \* the retry counts of the copies of the job on the Redis list
    worker,   \* per handler, where it stands and what it holds
    stored,   \* records of the source that are businesses now
    mishaps,  \* what went wrong so far
    faults    \* how often

vars == <<source, limit, row, api, list, worker, stored, mishaps, faults>>

-----------------------------------------------------------------------------
NoRow == [status |-> "none"]
Row == [status : {"pending", "running", "completed", "failed"},
        error : {"", "enqueue", "attempt"}, started : BOOLEAN, ended : BOOLEAN,
        found : Nat, new : Nat, bad : Nat]
Pending == [status |-> "pending", error |-> "", started |-> FALSE, ended |-> FALSE,
            found |-> 0, new |-> 0, bad |-> 0]

\* pos is the last record the adapter has read, got the records it has sent,
\* bad the errors it has sent, copy the row the handler has read.
Worker == [at : {"idle", "begin", "mark", "scrape", "insert",
                 "complete", "completed", "fail", "failed"},
           tries : 0 .. MaxRetries, late : BOOLEAN, pos : Nat, got : SUBSET Nat,
           bad : Nat, new : Nat, copy : Row \union {NoRow}]
Idle == [at |-> "idle", tries |-> 0, late |-> FALSE, pos |-> 0, got |-> {},
         bad |-> 0, new |-> 0, copy |-> NoRow]

Mishap == {"lost reply", "twice", "unregistered", "killed", "dropped",
           "unknown commit", "unwritten"}

TypeOK ==
    /\ source \in [kind : Kind, offer : Offer, known : Knowing]
    /\ limit \in 1 .. MaxLimit
    /\ row \in Row \union {NoRow}
    /\ api \in {"new", "push", "refuse", "accepted", "refused"}
    /\ list \in Seq(0 .. MaxRetries)
    /\ worker \in [Handler -> Worker]
    /\ stored \subseteq DOMAIN source.offer
    /\ mishaps \subseteq Mishap
    /\ faults \in 0 .. MaxFaults

Init ==
    /\ source \in [kind : Kind, offer : Offer, known : Knowing]
    /\ limit = DefaultLimit
    /\ row = NoRow
    /\ api = "new"
    /\ list = <<>>
    /\ worker = [h \in Handler |-> Idle]
    /\ stored = {}
    /\ mishaps = {}
    /\ faults = 0

\* A step in which something goes wrong.
Goes(wrong) ==
    /\ faults < MaxFaults
    /\ faults' = faults + 1
    /\ mishaps' = mishaps \union {wrong}

Smoothly == UNCHANGED <<mishaps, faults>>

-----------------------------------------------------------------------------
(* POST /scrape.                                                            *)

Clamp(asked) == IF asked <= 0 \/ asked > MaxLimit THEN DefaultLimit ELSE asked

\* An incomplete request, or one whose row cannot be inserted, leaves nothing.
Reject ==
    /\ api = "new"
    /\ api' = "refused"
    /\ UNCHANGED <<source, limit, row, list, worker, stored, mishaps, faults>>

Create ==
    /\ api = "new"
    /\ \E asked \in Asked : limit' = Clamp(asked)
    /\ row' = Pending
    /\ api' = "push"
    /\ UNCHANGED <<source, list, worker, stored, mishaps, faults>>

\* The client of the queue may send a command twice when a reply is overdue.
Enqueue ==
    /\ api = "push"
    /\ api' = "accepted"
    /\ \/ list' = <<0>> \o list /\ Smoothly
       \/ list' = <<0, 0>> \o list /\ Goes("twice")
    /\ UNCHANGED <<source, limit, row, worker, stored>>

\* The error says nothing about whether Redis ran the command.
EnqueueFails ==
    /\ api = "push"
    /\ api' = "refuse"
    /\ \/ UNCHANGED list /\ Smoothly
       \/ list' = <<0>> \o list /\ Goes("lost reply")
    /\ UNCHANGED <<source, limit, row, worker, stored>>

\* Every column is written from the handler's own copy; an error is ignored.
Refuse ==
    /\ api = "refuse"
    /\ api' = "refused"
    /\ \/ row' = [Pending EXCEPT !.status = "failed", !.error = "enqueue"] /\ Smoothly
       \/ UNCHANGED row /\ Goes("unwritten")
    /\ UNCHANGED <<source, limit, list, worker, stored>>

-----------------------------------------------------------------------------
(* The worker around the handler.                                           *)

Pop(h) ==
    /\ worker[h].at = "idle"
    /\ list # <<>>
    /\ worker' = [worker EXCEPT ![h] = [Idle EXCEPT !.at = "begin", !.tries = Last(list)]]
    /\ list' = Front(list)
    /\ UNCHANGED <<source, limit, row, api, stored, mishaps, faults>>

Stops(h) == worker' = [worker EXCEPT ![h] = Idle]

\* Mutant: the job is enqueued afresh, and its retry_count with it.
RequeueAfresh(h) == list' = <<0>> \o list /\ Stops(h)

\* The last failure parks the job on the dead list.
Requeue(h) ==
    /\ list' = IF worker[h].tries + 1 >= MaxRetries THEN list
               ELSE <<worker[h].tries + 1>> \o list
    /\ Stops(h)

\* Whether the failed job is pushed back or that push fails too.
Returns(h) ==
    \/ Requeue(h) /\ Smoothly
    \/ UNCHANGED list /\ Stops(h) /\ Goes("dropped")

\* CollectTimeout passes: from here on the handler's context is dead.
Expire(h) ==
    /\ worker[h].at # "idle" /\ ~worker[h].late
    /\ worker' = [worker EXCEPT ![h].late = TRUE]
    /\ UNCHANGED <<source, limit, row, api, list, stored, mishaps, faults>>

\* The process is killed; the adapter's goroutine may also take it down.
Kill(h) ==
    /\ worker[h].at # "idle"
    /\ Stops(h)
    /\ Goes("killed")
    /\ UNCHANGED <<source, limit, row, api, list, stored>>

-----------------------------------------------------------------------------
(* collectBusiness: reads and writes of the record, whose errors are only   *)
(* logged.                                                                  *)

Moves(h, to) == worker' = [worker EXCEPT ![h].at = to]

\* A process without the source touches no record at all.
UnknownSource(h) ==
    /\ worker[h].at = "begin" /\ h \notin source.known
    /\ Requeue(h)
    /\ mishaps' = mishaps \union {"unregistered"}
    /\ UNCHANGED <<source, limit, row, api, stored, faults>>

\* GetByID; the whole row is remembered.
Reads(h, from, to) ==
    /\ worker[h].at = from /\ ~worker[h].late
    /\ worker' = [worker EXCEPT ![h].at = to, ![h].copy = row]
    /\ UNCHANGED <<source, limit, row, api, list, stored, mishaps, faults>>

\* Update: every column is written, those of the copy included.
Writes(h, from, record) ==
    /\ worker[h].at = from /\ ~worker[h].late
    /\ row' = record
    /\ UNCHANGED <<source, limit, api, stored>>

\* A query fails when the context is dead, and sometimes anyway.
Misses(h, steps) ==
    /\ worker[h].at \in steps
    /\ IF worker[h].late THEN mishaps' = mishaps \union {"unwritten"} /\ UNCHANGED faults
       ELSE Goes("unwritten")
    /\ UNCHANGED <<source, limit, row, api, stored>>

ReadToMark(h) == h \in source.known /\ Reads(h, "begin", "mark")

MarkRunning(h) ==
    /\ Writes(h, "mark", [worker[h].copy EXCEPT !.status = "running", !.started = TRUE])
    /\ Moves(h, "scrape") /\ UNCHANGED list /\ Smoothly

MarkMisses(h) ==
    /\ h \in source.known
    /\ Misses(h, {"begin", "mark"})
    /\ Moves(h, "scrape") /\ UNCHANGED list

-----------------------------------------------------------------------------
(* Scrape of the three adapters, with the loop that receives its results.   *)

\* What each adapter makes of a record: it sends it, sends an error, or skips
\* it.  A record is broken when it has no name or cannot be parsed, closed when
\* the source says permanently closed.
CsvTreats(record) == IF record = "broken" THEN "error" ELSE "send"

GmapsTreats(record) == IF record = "fine" THEN "send" ELSE "skip"

PlacesTreats(record) == IF record = "closed" THEN "skip" ELSE "send"

Treatment(record) ==
    CASE source.kind = "csv" -> CsvTreats(record)
      [] source.kind = "gmaps" -> GmapsTreats(record)
      [] source.kind = "places" -> PlacesTreats(record)

AtLimit(h) == Cardinality(worker[h].got) >= limit

\* The Places API serves MaxPages pages.
Served == IF source.kind = "places" THEN PageSize * MaxPages ELSE Len(source.offer)

Exhausted(h) == worker[h].pos >= Len(source.offer) \/ worker[h].pos >= Served

AtPageEnd(h) == source.kind = "places" /\ worker[h].pos % PageSize = 0

\* The next record, of a page that was fetched in time; with a dead context
\* select may still take this branch.
Transfer(h) ==
    /\ worker[h].at = "scrape" /\ ~AtLimit(h) /\ ~Exhausted(h)
    /\ ~(worker[h].late /\ AtPageEnd(h))
    /\ LET next == worker[h].pos + 1
           does == Treatment(source.offer[next])
       IN worker' = [worker EXCEPT ![h].pos = next,
                                   ![h].got = IF does = "send" THEN @ \union {next} ELSE @,
                                   ![h].bad = IF does = "error" THEN @ + 1 ELSE @]
    /\ UNCHANGED <<source, limit, row, api, list, stored, mishaps, faults>>

\* No such file, no readable header, no name column.
CsvBreaks(h) == worker[h].pos = 0

\* No docker or binary, no query, a browser that fails or outlives GMAPS_TIMEOUT,
\* a results file without a title: all before the first record.
GmapsBreaks(h) == worker[h].pos = 0

\* A page that cannot be fetched or decoded, the first or a later one.
PlacesBreaks(h) ==
    \/ worker[h].pos = 0
    \/ AtPageEnd(h) /\ ~AtLimit(h) /\ ~Exhausted(h)

\* A dead context at a send, or at the wait for the next page.
Interrupted(h) ==
    /\ worker[h].late /\ worker[h].pos < Len(source.offer)
    /\ ~AtLimit(h) \/ AtPageEnd(h)

Breaks(h) ==
    \/ source.kind = "csv" /\ CsvBreaks(h)
    \/ source.kind = "gmaps" /\ GmapsBreaks(h)
    \/ source.kind = "places" /\ PlacesBreaks(h)
    \/ Interrupted(h)

\* Mutant: whatever had arrived before the error is stored all the same.
KeepPartialBatch(h) ==
    /\ worker[h].at = "scrape" /\ Breaks(h)
    /\ Moves(h, "insert")
    /\ UNCHANGED <<source, limit, row, api, list, stored, mishaps, faults>>

\* Mutant: an error of the adapter is returned before failJob.
ScrapeFailsUntold(h) ==
    /\ worker[h].at = "scrape" /\ Breaks(h)
    /\ Requeue(h)
    /\ UNCHANGED <<source, limit, row, api, stored, mishaps, faults>>

\* What was sent before is dropped with the batch.
ScrapeFails(h) ==
    /\ worker[h].at = "scrape" /\ Breaks(h)
    /\ Moves(h, "fail")
    /\ UNCHANGED <<source, limit, row, api, list, stored, mishaps, faults>>

ScrapeEnds(h) ==
    /\ worker[h].at = "scrape" /\ (AtLimit(h) \/ Exhausted(h))
    /\ Moves(h, "insert")
    /\ UNCHANGED <<source, limit, row, api, list, stored, mishaps, faults>>

-----------------------------------------------------------------------------
(* BulkInsertWithJobs and the end of the handler.                           *)

Insert(h) ==
    /\ worker[h].at = "insert" /\ (~worker[h].late \/ worker[h].got = {})
    /\ stored' = stored \union worker[h].got
    /\ worker' = [worker EXCEPT ![h].at = "complete",
                                ![h].new = Cardinality(worker[h].got \ stored)]
    /\ UNCHANGED <<source, limit, row, api, list, mishaps, faults>>

\* Mutant: the businesses are inserted one by one, without a transaction.
InsertFailsHalfWay(h) ==
    /\ worker[h].at = "insert" /\ worker[h].got # {}
    /\ Moves(h, "fail")
    /\ \E part \in SUBSET worker[h].got : stored' = stored \union part
    /\ Smoothly
    /\ UNCHANGED <<source, limit, row, api, list>>

\* The transaction fails, or its commit succeeds and the reply is lost.
InsertFails(h) ==
    /\ worker[h].at = "insert" /\ worker[h].got # {}
    /\ Moves(h, "fail")
    /\ \/ UNCHANGED stored /\ Smoothly
       \/ stored' = stored \union worker[h].got /\ Goes("unknown commit")
    /\ UNCHANGED <<source, limit, row, api, list>>

ReadToComplete(h) == Reads(h, "complete", "completed")

Completed(h) ==
    [worker[h].copy EXCEPT !.status = "completed", !.ended = TRUE, !.bad = worker[h].bad,
                           !.found = Cardinality(worker[h].got), !.new = worker[h].new]

CompleteJob(h) ==
    /\ Writes(h, "completed", Completed(h))
    /\ Stops(h) /\ UNCHANGED list /\ Smoothly

CompleteMisses(h) ==
    /\ Misses(h, {"complete", "completed"})
    /\ Stops(h) /\ UNCHANGED list

ReadToFail(h) == Reads(h, "fail", "failed")

FailJob(h) ==
    /\ Writes(h, "failed", [worker[h].copy EXCEPT !.status = "failed", !.ended = TRUE,
                                                  !.error = "attempt"])
    /\ Returns(h)

FailMisses(h) == Misses(h, {"fail", "failed"}) /\ Requeue(h)

-----------------------------------------------------------------------------
Request == Reject \/ Create \/ Enqueue \/ EnqueueFails \/ Refuse

Bookkeeping(h) ==
    \/ UnknownSource(h) \/ ReadToMark(h) \/ MarkRunning(h) \/ MarkMisses(h)
    \/ ReadToComplete(h) \/ CompleteJob(h) \/ CompleteMisses(h)
    \/ ReadToFail(h) \/ FailJob(h) \/ FailMisses(h)

Collect(h) ==
    \/ Transfer(h) \/ ScrapeFails(h) \/ ScrapeEnds(h) \/ Insert(h) \/ InsertFails(h)

Next ==
    \/ Request
    \/ \E h \in Handler : Pop(h) \/ Bookkeeping(h) \/ Collect(h) \/ Expire(h) \/ Kill(h)

Spec == Init /\ [][Next]_vars

\* The request is served, a free slot takes a job, and a handler proceeds: its
\* own deadline and those of the adapters end every wait of it.
FairSpec ==
    /\ Spec
    /\ WF_vars(Request)
    /\ \A h \in Handler : WF_vars(Pop(h) \/ Bookkeeping(h) \/ Collect(h))

-----------------------------------------------------------------------------
Settled ==
    /\ api \in {"accepted", "refused"}
    /\ list = <<>>
    /\ \A h \in Handler : worker[h].at = "idle"

\* The request's caller always gets to see how it ended: when nothing is left to
\* do for it, the record says completed or failed, unless a write of it was lost
\* (a failed query, or the deadline that failJob inherits), a process died with
\* the job, or one without the source had a try of it.
EndIsTold ==
    Settled /\ row # NoRow /\ row.status \notin {"completed", "failed"} =>
        mishaps \intersect {"unwritten", "killed", "dropped", "unregistered"} # {}

\* What the request names: the records a run sends, and the errors before them.
Sent == {p \in DOMAIN source.offer : p <= Served /\ Treatment(source.offer[p]) = "send"}
Wanted == {p \in Sent : Cardinality({q \in Sent : q <= p}) <= limit}
Flawed ==
    {p \in DOMAIN source.offer :
        /\ p <= Served /\ Treatment(source.offer[p]) = "error"
        /\ Cardinality({q \in Sent : q < p}) < limit}

\* A completed collection is whole: every business the source offers within the
\* limit is stored, and the counts are those of one run over it, however many
\* runs failed half way or overlapped.
CompletedIsWhole ==
    row # NoRow /\ row.status = "completed" =>
        /\ stored = Wanted
        /\ row.found = Cardinality(Wanted) /\ row.bad = Cardinality(Flawed)
        /\ row.new <= row.found

\* Businesses are stored as a whole or not at all, and those of a collection
\* that ended as failed are not: unless it ran twice, a reply (of the push, of
\* the commit) got lost, or the write that says it was completed did.
FailedStoredNothing ==
    /\ stored \in {{}, Wanted}
    /\ Settled /\ row # NoRow /\ row.status = "failed" /\ stored # {} =>
          mishaps \intersect {"twice", "lost reply", "unknown commit", "unwritten"} # {}

\* Every collection comes to an end: no hand-over of a result, wait for the
\* adapter or retry goes on for ever.
CollectionEnds == <>[]Settled
=============================================================================
