------------------------------ MODULE Pipeline ------------------------------
(***************************************************************************)
(* The chain of jobs that turns one stored business into a ranked and      *)
(* searchable lead (handlers.go), under what the outbox and the queue      *)
(* really give it: the first job is delivered at least once, several       *)
(* handlers run at the same time, a handler may fail at any point and is   *)
(* tried again from its beginning, and the API edits the lead or asks for  *)
(* a rescan meanwhile.                                                     *)
(*                                                                         *)
(*    crawl --> [audit -->] score --> recommendation --> embedding         *)
(*                                                                         *)
(* Leads share nothing but the queue, so the module follows one.  A row is *)
(* represented by what it was computed from: a score by the website        *)
(* column, the websites row and the audit that ruleScoring read.           *)
(***************************************************************************)
EXTENDS Integers, SequencesExt

CONSTANTS
    Own,            \* addresses of sites of their own
    Social,         \* addresses on social networks
    Handler,        \* goroutines that may run a job at the same time
    WithAI,         \* those whose process has an AI provider
    WithEmbedder,   \* those whose process has an embedding provider
    MaxRetries,     \* Job.MaxRetries
    Scene           \* the handlers and addresses of a behaviour, and bounds on the
                    \* pushes that happen twice and on the edits and rescans

NoSite == ""
Address == Own \union Social \union {NoSite}

ASSUME AddressAssumption == NoSite \notin Own \union Social /\ Own \intersect Social = {}
ASSUME ProviderAssumption == WithAI \subseteq Handler /\ WithEmbedder \subseteq Handler
ASSUME BoundAssumption ==
    /\ MaxRetries \in Nat \ {0}
    /\ Scene \subseteq [handlers : SUBSET Handler, sites : SUBSET Address,
                        duplicates : Nat, requests : Nat]

VARIABLES
    bound,     \* the scene of this behaviour
    site,      \* businesses.website
    web,       \* the websites row
    audit,     \* the latest audit_reports row
    score,     \* the lead_scores row
    vec,       \* the lead_embeddings row
    first,     \* the job in the outbox
    pending,   \* the outbox still owes a delivery of it
    spare,     \* pushes that may still happen twice
    api,       \* the job a request is about to push
    requests,  \* edits and rescans so far
    list,      \* the Redis list
    job,       \* per handler, the job it runs
    at,        \* per handler, where it stands
    seen,      \* per handler, the rows it has read or is about to write
    buried,    \* some job of the lead is on the dead list
    lost,      \* some job vanished: process killed, push not done
    misread    \* some error of a read was taken for a missing row

rows == <<site, web, audit, score, vec>>
sources == <<bound, first, pending, api, requests>>
handlers == <<job, at, seen>>
vars == <<rows, sources, spare, list, handlers, buried, lost, misread>>

-----------------------------------------------------------------------------
NoRow == [row |-> "none"]

Kind == {"crawl", "audit", "score", "recommend", "embed"}

\* website_crawl insists on a URL; the other handlers read none.
JobRecord ==
    {j \in [kind : Kind, url : Address, tries : 0 .. MaxRetries] :
        j.kind = "crawl" <=> j.url # NoSite}
NoJob == [kind |-> "none", url |-> NoSite, tries |-> 0]

Web == [url : Own, verdict : {"live", "unread"}]
AuditRow == [of : Own]
Evaluation == [site : Address, web : Web \union {NoRow}, audit : AuditRow \union {NoRow}]

\* words is the evaluation the sales suggestion was written for, folded how
\* often an audit was appended to it.
Score == [numbers : Evaluation, words : Evaluation, folded : Nat]

\* Gaps and priority depend on the site that was assessed, not on the audit.
Gaps == [site : Address, web : Web \union {NoRow}]
Document == [site : Address, web : Web \union {NoRow}, gaps : Gaps \union {NoRow}]
Seen == [site : Address, web : Web \union {NoRow}, audit : AuditRow \union {NoRow},
         score : Score \union {NoRow}]
Blank == [site |-> NoSite, web |-> NoRow, audit |-> NoRow, score |-> NoRow]

TypeOK ==
    /\ bound \in Scene
    /\ site \in bound.sites
    /\ web \in Web \union {NoRow}
    /\ audit \in AuditRow \union {NoRow}
    /\ score \in Score \union {NoRow}
    /\ vec \in Document \union {NoRow}
    /\ first \in JobRecord
    /\ pending \in BOOLEAN
    /\ spare \in 0 .. bound.duplicates
    /\ api \in JobRecord \union {NoJob}
    /\ requests \in 0 .. bound.requests
    /\ list \in Seq(JobRecord)
    /\ job \in [Handler -> JobRecord \union {NoJob}]
    /\ at \in [Handler -> {"idle", "begin", "score", "web", "audit", "check", "store", "next"}]
    /\ seen \in [Handler -> Seen]
    /\ <<buried, lost, misread>> \in BOOLEAN \X BOOLEAN \X BOOLEAN

\* jobFor of collectBusiness, and enqueuePipeline of the API.
FirstJob(s) == [kind |-> IF s = NoSite THEN "score" ELSE "crawl", url |-> s, tries |-> 0]

Follow(k) == [kind |-> k, url |-> NoSite, tries |-> 0]

\* The business is stored: by a collection, with its job in the outbox, or by
\* POST /businesses, which then pushes the job itself.
Init ==
    /\ bound \in Scene
    /\ site \in bound.sites
    /\ web = NoRow
    /\ audit = NoRow
    /\ score = NoRow
    /\ vec = NoRow
    /\ first = FirstJob(site)
    /\ \/ pending = TRUE /\ api = NoJob
       \/ pending = FALSE /\ api = first
    /\ spare = bound.duplicates
    /\ requests = 0
    /\ list = <<>>
    /\ job = [h \in Handler |-> NoJob]
    /\ at = [h \in Handler |-> "idle"]
    /\ seen = [h \in Handler |-> Blank]
    /\ buried = FALSE
    /\ lost = FALSE
    /\ misread = FALSE

Push(j) == list' = <<j>> \o list

-----------------------------------------------------------------------------
(* Where jobs come from.                                                    *)

\* The relay pushes the entry, and marks it unless it is cut short.
Deliver ==
    /\ pending
    /\ Push(first)
    /\ \/ pending' = FALSE /\ UNCHANGED spare
       \/ spare > 0 /\ spare' = spare - 1 /\ UNCHANGED pending
    /\ UNCHANGED <<rows, bound, first, api, requests, handlers, buried, lost, misread>>

\* PATCH with another website; the pipeline is asked for after the update.
Edit ==
    /\ api = NoJob /\ requests < bound.requests
    /\ requests' = requests + 1
    /\ \E s \in bound.sites \ {site} : site' = s /\ api' = FirstJob(s)
    /\ UNCHANGED <<bound, web, audit, score, vec, first, pending, spare, list, handlers,
                   buried, lost, misread>>

Rescan ==
    /\ api = NoJob /\ requests < bound.requests
    /\ requests' = requests + 1
    /\ api' = FirstJob(site)
    /\ UNCHANGED <<rows, bound, first, pending, spare, list, handlers, buried, lost, misread>>

\* enqueuePipeline; its failure is swallowed.
Request ==
    /\ api # NoJob
    /\ api' = NoJob
    /\ \/ Push(api) /\ UNCHANGED lost
       \/ lost' = TRUE /\ UNCHANGED list
    /\ UNCHANGED <<rows, bound, first, pending, spare, requests, handlers, buried, misread>>

-----------------------------------------------------------------------------
(* A handler: one job, read and write steps in the order of the code.       *)

Pop(h) ==
    /\ h \in bound.handlers
    /\ job[h] = NoJob
    /\ list # <<>>
    /\ job' = [job EXCEPT ![h] = Last(list)]
    /\ at' = [at EXCEPT ![h] = "begin"]
    /\ list' = Front(list)
    /\ UNCHANGED <<rows, sources, spare, seen, buried, lost, misread>>

Running(h, kind, step) == job[h].kind = kind /\ at[h] = step

Ends(h) ==
    /\ job' = [job EXCEPT ![h] = NoJob]
    /\ at' = [at EXCEPT ![h] = "idle"]
    /\ seen' = [seen EXCEPT ![h] = Blank]

\* The handler remembers what it read and goes on.
Sees(h, record, step) ==
    /\ seen' = [seen EXCEPT ![h] = record]
    /\ at' = [at EXCEPT ![h] = step]
    /\ UNCHANGED <<rows, sources, spare, list, job, buried, lost>>

Goes(h, step) ==
    /\ at' = [at EXCEPT ![h] = step]
    /\ UNCHANGED <<sources, spare, list, job, seen, buried, lost, misread>>

\* Mutant: the job is enqueued afresh, and its retry_count with it.
RequeueAfresh(j, pushed) ==
    list' = <<[j EXCEPT !.tries = 0]>> \o pushed /\ UNCHANGED buried

\* A job that failed goes back onto the list, or once too often to the dead list.
Requeue(j, pushed) ==
    IF j.tries + 1 >= MaxRetries
    THEN list' = pushed /\ buried' = TRUE
    ELSE list' = <<[j EXCEPT !.tries = @ + 1]>> \o pushed /\ UNCHANGED buried

\* The last statement of most handlers: push the next job, return.  When only
\* the reply of the push is lost, the next job is out and this one fails.
Chain(h, kind) ==
    /\ \/ Push(Follow(kind)) /\ UNCHANGED <<spare, buried>>
       \/ spare > 0 /\ spare' = spare - 1 /\ Requeue(job[h], <<Follow(kind)>> \o list)
    /\ Ends(h)
    /\ UNCHANGED <<rows, sources, lost, misread>>

Returns(h) ==
    /\ Ends(h)
    /\ UNCHANGED <<rows, sources, spare, list, buried, lost, misread>>

\* What a best-effort read may yield: the row, or nothing when it fails.
BestEffort(row) == {<<row, misread>>, <<NoRow, misread \/ row # NoRow>>}

-----------------------------------------------------------------------------
(* crawlWebsite.                                                            *)

\* A social address is recorded as a profile and not fetched.
StoreProfile(h) ==
    /\ Running(h, "crawl", "begin") /\ job[h].url \in Social
    /\ Goes(h, "next")
    /\ UNCHANGED rows

\* The page loads, or it does not (down, blocked, disallowed).
Fetch(h) ==
    /\ Running(h, "crawl", "begin") /\ job[h].url \in Own
    /\ \E verdict \in {"live", "unread"} :
          Sees(h, [Blank EXCEPT !.web = [url |-> job[h].url, verdict |-> verdict]], "store")
    /\ UNCHANGED misread

\* Websites.Create upserts the row; the inserts after it are not read here.
StoreSite(h) ==
    /\ Running(h, "crawl", "store")
    /\ web' = seen[h].web
    /\ Goes(h, "next")
    /\ UNCHANGED <<site, audit, score, vec>>

Assessable(h) == seen[h].web # NoRow /\ seen[h].web.verdict = "live"

\* Mutant: a page that could not be read ends the chain.
AfterCrawlIfRead(h) ==
    /\ Running(h, "crawl", "next")
    /\ IF ~Assessable(h) THEN Returns(h)
       ELSE Chain(h, IF h \in WithAI THEN "audit" ELSE "score")

AfterCrawl(h) ==
    /\ Running(h, "crawl", "next")
    /\ Chain(h, IF Assessable(h) /\ h \in WithAI THEN "audit" ELSE "score")

-----------------------------------------------------------------------------
(* aiAudit.                                                                 *)

SkipAudit(h) ==
    /\ Running(h, "audit", "begin") /\ h \notin WithAI
    /\ Chain(h, "score")

\* The model is asked about the row as it is now, whoever wrote it.
ReadSite(h) ==
    /\ Running(h, "audit", "begin") /\ h \in WithAI
    /\ web # NoRow
    /\ Sees(h, [Blank EXCEPT !.web = web], "store")
    /\ UNCHANGED misread

StoreAudit(h) ==
    /\ Running(h, "audit", "store")
    /\ audit' = [of |-> seen[h].web.url]
    /\ Goes(h, "next")
    /\ UNCHANGED <<site, web, score, vec>>

AfterAudit(h) == Running(h, "audit", "next") /\ Chain(h, "score")

-----------------------------------------------------------------------------
(* ruleScoring: three reads at three moments, one write.                    *)

ReadBusiness(h) ==
    /\ Running(h, "score", "begin")
    /\ Sees(h, [Blank EXCEPT !.site = site], "web")
    /\ UNCHANGED misread

\* The row does not count for a business with a social profile only.
ReadWebsite(h) ==
    /\ Running(h, "score", "web")
    /\ \E r \in IF seen[h].site \in Social THEN {<<NoRow, misread>>} ELSE BestEffort(web) :
          /\ Sees(h, [seen[h] EXCEPT !.web = r[1]], "audit")
          /\ misread' = r[2]

ReadAudit(h) ==
    /\ Running(h, "score", "audit")
    /\ \E r \in BestEffort(audit) :
          /\ Sees(h, [seen[h] EXCEPT !.audit = r[1]], "store")
          /\ misread' = r[2]

Evaluate(h) == [site |-> seen[h].site, web |-> seen[h].web, audit |-> seen[h].audit]

\* Mutant: the error of Scores.Create is logged and the chain goes on.
StoreScoreFails(h) ==
    /\ Running(h, "score", "store")
    /\ Goes(h, "next")
    /\ UNCHANGED rows

StoreScore(h) ==
    /\ Running(h, "score", "store")
    /\ score' = [numbers |-> Evaluate(h), words |-> Evaluate(h), folded |-> 0]
    /\ Goes(h, "next")
    /\ UNCHANGED <<site, web, audit, vec>>

AfterScore(h) == Running(h, "score", "next") /\ Chain(h, "recommend")

-----------------------------------------------------------------------------
(* genRecommendation: the score row is read, extended and written back.     *)

ReadScore(h) ==
    /\ Running(h, "recommend", "begin")
    /\ score # NoRow
    /\ Sees(h, [Blank EXCEPT !.score = score], "audit")
    /\ UNCHANGED misread

\* No audit (or an error, which passes for none): done, nothing to embed.
NoAuditToFold(h) ==
    /\ Running(h, "recommend", "audit")
    /\ \E r \in BestEffort(audit) : r[1] = NoRow /\ misread' = r[2]
    /\ Ends(h)
    /\ UNCHANGED <<rows, sources, spare, list, buried, lost>>

ReadAuditToFold(h) ==
    /\ Running(h, "recommend", "audit")
    /\ audit # NoRow
    /\ Goes(h, "store")
    /\ UNCHANGED rows

\* Mutant: the UPDATE sets the suggestion column and leaves the others alone.
UpdateSuggestionOnly(h) ==
    /\ Running(h, "recommend", "store")
    /\ score' = [score EXCEPT !.words = seen[h].score.words,
                              !.folded = seen[h].score.folded + 1]
    /\ Goes(h, "next")
    /\ UNCHANGED <<site, web, audit, vec>>

\* Scores.Update is the same upsert as Create: every column is written.
UpdateScore(h) ==
    /\ Running(h, "recommend", "store")
    /\ score' = [seen[h].score EXCEPT !.folded = @ + 1]
    /\ Goes(h, "next")
    /\ UNCHANGED <<site, web, audit, vec>>

AfterRecommend(h) == Running(h, "recommend", "next") /\ Chain(h, "embed")

-----------------------------------------------------------------------------
(* embedLead and buildDocument.                                             *)

SkipEmbedding(h) ==
    /\ Running(h, "embed", "begin") /\ h \notin WithEmbedder
    /\ Returns(h)

ReadBusinessToEmbed(h) ==
    /\ Running(h, "embed", "begin") /\ h \in WithEmbedder
    /\ Sees(h, [Blank EXCEPT !.site = site], "score")
    /\ UNCHANGED misread

ReadScoreToEmbed(h) ==
    /\ Running(h, "embed", "score")
    /\ \E r \in BestEffort(score) :
          /\ Sees(h, [seen[h] EXCEPT !.score = r[1]], "web")
          /\ misread' = r[2]

ReadWebsiteToEmbed(h) ==
    /\ Running(h, "embed", "web")
    /\ \E r \in BestEffort(web) :
          /\ Sees(h, [seen[h] EXCEPT !.web = r[1]], "check")
          /\ misread' = r[2]

DocumentOf(s, w, sc) ==
    [site |-> s, web |-> w,
     gaps |-> IF sc = NoRow THEN NoRow
              ELSE [site |-> sc.numbers.site, web |-> sc.numbers.web]]

Text(h) == DocumentOf(seen[h].site, seen[h].web, seen[h].score)

\* Mutant: a lead that has a vector is not embedded again.
EmbeddedBefore(h) == vec # NoRow

\* NeedsEmbedding finds the hash of this very text.
Unchanged(h) == vec = Text(h)

CheckEmbedding(h) ==
    /\ Running(h, "embed", "check")
    /\ IF Unchanged(h) THEN Returns(h) ELSE Goes(h, "store") /\ UNCHANGED rows

\* The provider answered; the vector of this text replaces the one on record.
StoreVector(h) ==
    /\ Running(h, "embed", "store")
    /\ vec' = Text(h)
    /\ Ends(h)
    /\ UNCHANGED <<site, web, audit, score, sources, spare, list, buried, lost, misread>>

-----------------------------------------------------------------------------
(* What goes wrong.                                                         *)

\* An error, a deadline or a panic, at any point: the job is tried again.
Fail(h) ==
    /\ job[h] # NoJob
    /\ Requeue(job[h], list)
    /\ Ends(h)
    /\ UNCHANGED <<rows, sources, spare, lost, misread>>

\* The process is killed, or the push back of the job fails.
Lose(h) ==
    /\ job[h] # NoJob
    /\ lost' = TRUE
    /\ Ends(h)
    /\ UNCHANGED <<rows, sources, spare, list, buried, misread>>

-----------------------------------------------------------------------------
Crawl(h) == StoreProfile(h) \/ Fetch(h) \/ StoreSite(h) \/ AfterCrawl(h)

AIAudit(h) == SkipAudit(h) \/ ReadSite(h) \/ StoreAudit(h) \/ AfterAudit(h)

RuleScoring(h) ==
    \/ ReadBusiness(h) \/ ReadWebsite(h) \/ ReadAudit(h)
    \/ StoreScore(h) \/ AfterScore(h)

GenRecommendation(h) ==
    \/ ReadScore(h) \/ NoAuditToFold(h) \/ ReadAuditToFold(h)
    \/ UpdateScore(h) \/ AfterRecommend(h)

EmbedLead(h) ==
    \/ SkipEmbedding(h) \/ ReadBusinessToEmbed(h) \/ ReadScoreToEmbed(h)
    \/ ReadWebsiteToEmbed(h) \/ CheckEmbedding(h) \/ StoreVector(h)

\* A handler that is not struck by a fault.
Handle(h) ==
    \/ Pop(h) \/ Crawl(h) \/ AIAudit(h) \/ RuleScoring(h)
    \/ GenRecommendation(h) \/ EmbedLead(h)

Next ==
    \/ Deliver \/ Edit \/ Rescan \/ Request
    \/ \E h \in Handler : Handle(h) \/ Fail(h) \/ Lose(h)

Spec == Init /\ [][Next]_vars

\* Workers take jobs and their handlers proceed; so do the relay and the API.
FairSpec ==
    /\ Spec
    /\ WF_vars(Deliver) /\ WF_vars(Request)
    /\ \A h \in Handler : WF_vars(Handle(h) \/ Fail(h))

-----------------------------------------------------------------------------
Busy(h) == job[h] # NoJob

Quiet == ~pending /\ api = NoJob /\ list = <<>> /\ \A h \in Handler : ~Busy(h)

InFlight(kinds) ==
    \/ \E n \in DOMAIN list : list[n].kind \in kinds
    \/ \E h \in Handler : job[h].kind \in kinds

\* Every stage finds what it is about: an audit job the websites row, a
\* recommendation the score, an embedding the score and the audit.  Each row is
\* stored before the job that needs it is pushed, and no retry undoes it.
StageFindsItsInput ==
    /\ InFlight({"audit"}) => web # NoRow
    /\ InFlight({"recommend", "embed"}) => score # NoRow
    /\ InFlight({"embed"}) => audit # NoRow

\* The numbers and the words of a stored score belong to one evaluation,
\* however rescoring and the write-back of a recommendation interleave.
OneEvaluation == score # NoRow => score.numbers = score.words

\* A stored business is never "not failed, just invisible": as long as it has
\* no score, a job of it is on its way, parked, or lost to a known fault.
NothingForgotten ==
    score = NoRow =>
        \/ pending \/ api # NoJob
        \/ InFlight({"crawl", "audit", "score"})
        \/ buried \/ lost

\* With one handler at a time, whatever was retried, edited or rescanned: when
\* the work is done the score is that of the rows on record, and the vector, if
\* the lead has an audit and its handler an embedding provider, that of the
\* document on record.
SettlesCurrent ==
    (\E h \in Handler : bound.handlers = {h}) /\ Quiet /\ ~buried /\ ~lost /\ ~misread =>
        /\ score # NoRow
        /\ score.numbers = [site |-> site, audit |-> audit,
                            web |-> IF site \in Social THEN NoRow ELSE web]
        /\ audit # NoRow /\ bound.handlers \subseteq WithEmbedder
              => vec = DocumentOf(site, web, score)

\* The work for a lead comes to an end: the chain has no cycle and retries run
\* out.
ChainEnds == <>[]Quiet

\* relay.go:22 "the job handlers are written to be idempotent": no delivery of
\* a job appends the audit to the same suggestion again.
FoldedOnce == score # NoRow => score.folded <= 1
=============================================================================
