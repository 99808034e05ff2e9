-------------------------------- MODULE Desk --------------------------------
(***************************************************************************)
(* The lead list as the people who work it see and change it: the pages    *)
(* the dashboard asks for and the answers it shows (index.html, LeadRepo), *)
(* the edits, additions and deletions of the API (leads.go, BusinessRepo), *)
(* and the collections that write the same rows and leave their jobs in    *)
(* the outbox, while an edit queues its own directly.                      *)
(***************************************************************************)
EXTENDS Integers, SequencesExt, FiniteSetsExt

CONSTANTS
    Lead,         \* leads
    Editor,       \* goroutines of the API that serve an edit, an addition or a rescan
    Site,         \* websites a lead may have, next to none
    Name,         \* the name of each lead
    Score,        \* scores a lead may get, next to none
    High,         \* the lowest score of a high priority
    Limit,        \* the dashboard's page size
    DefaultSize,  \* defaultPageSize
    MaxSize,      \* maxPageSize
    Scene         \* bounds on the requests and writes of a behaviour, its editors and leads,
                  \* and those of the leads that are there at first, with their website

None == -1

ASSUME LeadAssumption ==
    IsFiniteSet(Lead) /\ Name \in [Lead -> Nat] /\ Score \subseteq Nat /\ High \in Nat
ASSUME SiteAssumption == None \notin Site
ASSUME SizeAssumption ==
    {DefaultSize, MaxSize} \subseteq Nat \ {0} /\ Limit \in 1 .. MaxSize
ASSUME SceneAssumption ==
    Scene \subseteq [asked : Nat, writes : Nat, editors : SUBSET Editor, leads : SUBSET Lead,
                    first : SUBSET Lead, site : Site]

VARIABLES
    bound,     \* the bounds of this behaviour
    table,     \* the businesses rows
    score,     \* the lead_scores rows
    crawled,   \* the website the last job queued of each lead is about
    outbox,    \* the crawls that collections have left to the relay; rows alike count as
               \* one, for the relay may push a row twice anyway
    overtaken, \* leads given another website while a crawl of the old one was in the outbox
    writes,    \* writes so far
    editor,    \* per editor, where its request stands
    disturbed, \* leads written by another between a request's read and its last step
    page,      \* what the dashboard's controls say: [number, only high?]
    asked,     \* requests for a page so far
    open,      \* those without an answer yet
    view,      \* the answer that is shown
    turned,    \* writes, as the dashboard knew them when it last asked for page 1 or
               \* turned to a further page
    crossed,   \* whether, since page 1 was last asked for, two requests were open or one failed
    walk       \* the rows of the pages turned through, from the first on

jobs == <<crawled, outbox, overtaken>>
data == <<table, score, jobs, editor, disturbed>>
dash == <<page, asked, open, view, turned, crossed, walk>>
vars == <<bound, data, writes, dash>>

-----------------------------------------------------------------------------
Absent == [is |-> "new"]
Gone == [is |-> "gone"]
Row == [is : {"there"}, site : Site \union {None}, extra : Nat]
Request == [at : {"idle"}] \union [at : {"edit"}, lead : Lead, row : Row]
               \union [at : {"push"}, lead : Lead, site : Site \union {None}]

There(l) == table[l].is = "there"
Leads == {l \in Lead : There(l)}
Idle == [at |-> "idle"]
NoView == [n |-> 0]

TypeOK ==
    /\ bound \in Scene
    /\ table \in [Lead -> Row \union {Absent, Gone}]
    /\ score \in [Lead -> Score \union {None}]
    /\ crawled \in [Lead -> Site \union {None}]
    /\ outbox \subseteq [lead : Lead, site : Site] /\ overtaken \subseteq Lead
    /\ writes \in 0 .. bound.writes /\ asked \in 0 .. bound.asked
    /\ editor \in [Editor -> Request]
    /\ disturbed \subseteq Lead
    /\ page \in [number : Nat \ {0}, high : BOOLEAN]
    /\ \A r \in open : r.n \in 1 .. asked

\* Every lead of the start has been through the pipeline, or waits for its score.
Init ==
    /\ bound \in Scene
    /\ table = [l \in Lead |-> IF l \in bound.first
                               THEN [is |-> "there", site |-> bound.site, extra |-> 0] ELSE Absent]
    /\ crawled = [l \in Lead |-> IF l \in bound.first THEN bound.site ELSE None]
    /\ outbox = {} /\ overtaken = {}
    /\ score \in [Lead -> Score \union {None}]
    /\ \A l \in Lead \ bound.first : score[l] = None
    /\ writes = 0
    /\ editor = [e \in Editor |-> Idle]
    /\ disturbed = {}
    /\ page = [number |-> 1, high |-> FALSE]
    /\ asked = 0 /\ open = {} /\ view = NoView
    /\ turned = 0 /\ crossed = FALSE
    /\ walk = [from |-> 0, rows |-> <<>>, whole |-> FALSE]

\* A write of a row: whoever else is at work on it is disturbed.
Writes(l, others) ==
    /\ writes < bound.writes
    /\ writes' = writes + 1
    /\ disturbed' = IF \E e \in others : editor[e].at # "idle" /\ editor[e].lead = l
                    THEN disturbed \union {l} ELSE disturbed
    /\ UNCHANGED <<bound, dash>>

\* The website is written: a crawl of another one may be pushed after the next job.
Readdresses(l, site) ==
    overtaken' = IF \E job \in outbox : job.lead = l /\ job.site # site
                 THEN overtaken \union {l} ELSE overtaken

-----------------------------------------------------------------------------
(* The API: leads.go.                                                       *)

Serves(e, record) == editor' = [editor EXCEPT ![e] = record]

\* Create: an INSERT, which the dedup key of a lead that is there refuses.
Add(e, l) ==
    /\ editor[e].at = "idle" /\ table[l] = Absent
    /\ \E site \in Site \union {None} :
          /\ table' = [table EXCEPT ![l] = [is |-> "there", site |-> site, extra |-> 0]]
          /\ Serves(e, [at |-> "push", lead |-> l, site |-> site])
    /\ Writes(l, Editor \ {e})
    /\ UNCHANGED <<score, jobs>>

\* Update reads the row first.
Open(e, l) ==
    /\ editor[e].at = "idle" /\ There(l) /\ writes < bound.writes
    /\ Serves(e, [at |-> "edit", lead |-> l, row |-> table[l]])
    /\ UNCHANGED <<bound, table, score, jobs, writes, disturbed, dash>>

\* Mutant: the row is made from the form alone.
SavedAfresh(row, site) == [is |-> "there", site |-> site, extra |-> 0]

\* Every column is written back, those of the form from the form.
Saved(row, site) == [row EXCEPT !.site = site]

\* Mutant: a website that is taken away needs no crawl.
ChangedToSite(row, site) == site # None /\ row.site # site

\* websiteChanged, by the row that was read.
Changed(row, site) == row.site # site

Save(e, l) ==
    /\ editor[e].at = "edit" /\ editor[e].lead = l /\ There(l)
    /\ \E site \in Site \union {None} :
          /\ table' = [table EXCEPT ![l] = Saved(editor[e].row, site)]
          /\ Serves(e, IF Changed(editor[e].row, site)
                       THEN [at |-> "push", lead |-> l, site |-> site] ELSE Idle)
          /\ Readdresses(l, site)
    /\ Writes(l, Editor \ {e})
    /\ UNCHANGED <<score, crawled, outbox>>

\* The lead has been deleted meanwhile: 404.
SaveFails(e) ==
    /\ editor[e].at = "edit" /\ ~There(editor[e].lead)
    /\ Serves(e, Idle)
    /\ UNCHANGED <<bound, table, score, jobs, writes, disturbed, dash>>

\* Rescan queues the website it has read.
Rescan(e, l) ==
    /\ editor[e].at = "idle" /\ There(l) /\ writes < bound.writes
    /\ Serves(e, [at |-> "push", lead |-> l, site |-> table[l].site])
    /\ UNCHANGED <<bound, table, score, jobs, writes, disturbed, dash>>

\* enqueuePipeline; an error of the queue is not reported.
Push(e) ==
    /\ editor[e].at = "push"
    /\ Serves(e, Idle)
    /\ LET l == editor[e].lead
       IN \/ /\ crawled' = [crawled EXCEPT ![l] = editor[e].site]
             /\ disturbed' = IF \E f \in Editor \ {e} : editor[f].at # "idle" /\ editor[f].lead = l
                             THEN disturbed \union {l} ELSE disturbed
          \/ disturbed' = disturbed \union {l} /\ UNCHANGED crawled
    /\ UNCHANGED <<bound, table, score, outbox, overtaken, writes, dash>>

\* Delete and BulkDelete: one statement, the score goes with the row.
Delete(l) ==
    /\ There(l)
    /\ table' = [table EXCEPT ![l] = Gone]
    /\ score' = [score EXCEPT ![l] = None]
    /\ Writes(l, Editor)
    /\ UNCHANGED <<jobs, editor>>

-----------------------------------------------------------------------------
(* The pipeline.                                                            *)

\* An upsert, in one transaction with the outbox row of its job: COALESCE keeps
\* a website the source does not know, and scoring alone says nothing new of it.
Collect(l, site) ==
    /\ table[l].is # "gone"
    /\ LET kept == IF site = None /\ There(l) THEN table[l].site ELSE site
           next == IF There(l) THEN table[l].extra + 1 ELSE 0
       IN /\ table' = [table EXCEPT ![l] = [is |-> "there", site |-> kept, extra |-> next]]
          /\ Readdresses(l, kept)
    /\ outbox' = IF site = None THEN outbox ELSE outbox \union {[lead |-> l, site |-> site]}
    /\ Writes(l, Editor)
    /\ UNCHANGED <<score, crawled, editor>>

\* The relay pushes a row, whenever it gets to it; the mark may fail.
Publish(job) ==
    /\ crawled' = [crawled EXCEPT ![job.lead] = job.site]
    /\ outbox' \in {outbox, outbox \ {job}}
    /\ UNCHANGED <<bound, table, score, overtaken, editor, disturbed, writes, dash>>

Scored(l) ==
    /\ There(l)
    /\ \E s \in Score \ {score[l]} : score' = [score EXCEPT ![l] = s]
    /\ Writes(l, {})
    /\ UNCHANGED <<table, jobs, editor>>

-----------------------------------------------------------------------------
(* LeadRepo.List: two statements, each of its own snapshot.                 *)

Matching(high) == {l \in Leads : high => score[l] >= High}

\* Mutant: ties are not broken.
ByScoreOnly(l, m) == score[l] > score[m]

\* leadSort: by score, the unscored last, then by name.
Before(l, m) ==
    \/ score[l] > score[m]
    \/ /\ score[l] = score[m]
       /\ Name[l] < Name[m]

\* Orders the database may give: rows that leadSort does not tell apart come as
\* they please, anew in each statement.
Orders(set) ==
    {s \in SetToSeqs(set) : \A i, j \in DOMAIN s : i < j => ~Before(s[j], s[i])}

\* paginate
PageSize(limit) ==
    IF limit <= 0 THEN DefaultSize ELSE IF limit > MaxSize THEN MaxSize ELSE limit

Slice(s, number) ==
    LET size == PageSize(Limit)
    IN SubSeq(s, (number - 1) * size + 1,
              IF number * size < Len(s) THEN number * size ELSE Len(s))

Count(r) ==
    /\ r.total = None
    /\ open' = (open \ {r}) \union
               {[r EXCEPT !.total = Cardinality(Matching(r.high)), !.counted = writes]}
    /\ UNCHANGED <<bound, data, writes, page, asked, view, turned, crossed, walk>>

Select(r) ==
    /\ r.total # None /\ ~r.done
    /\ \E s \in Orders(Matching(r.high)) :
          open' = (open \ {r}) \union {[r EXCEPT !.rows = Slice(s, r.number), !.done = TRUE]}
    /\ UNCHANGED <<bound, data, writes, page, asked, view, turned, crossed, walk>>

-----------------------------------------------------------------------------
(* The dashboard: what is asked for, and the last answer to arrive.          *)

Asks(number, high, known) ==
    /\ asked < bound.asked
    /\ asked' = asked + 1
    /\ page' = [number |-> number, high |-> high]
    /\ open' = open \union {[n |-> asked + 1, number |-> number, high |-> high,
                             total |-> None, counted |-> 0, rows |-> <<>>, done |-> FALSE]}
    /\ turned' = known
    /\ crossed' = (open # {} \/ (crossed /\ number # 1))
    /\ UNCHANGED <<bound, data, writes, view, walk>>

Load == asked = 0 /\ Asks(1, FALSE, writes)

\* Mutant: the page number stays.
FilterInPlace == asked > 0 /\ Asks(page.number, ~page.high, writes)

Filter == asked > 0 /\ Asks(1, ~page.high, writes)

\* The button goes by the total that is shown.
NextPage ==
    /\ view # NoView /\ page.number * Limit < view.total
    /\ Asks(page.number + 1, page.high, view.counted)

\* It stops at page 1, and does not look whether the list still has the page.
PrevPage == page.number > 1 /\ Asks(page.number - 1, page.high, turned)

\* A refresh asks for the same page again, after a deletion or an edit.
Refresh == view # NoView /\ Asks(page.number, page.high, turned)

Follows(r) ==
    /\ view # NoView /\ walk.whole
    /\ r.number = view.number + 1 /\ r.high = view.high /\ r.counted = walk.from

Arrive(r) ==
    /\ r.done
    /\ open' = open \ {r}
    /\ view' = r
    /\ walk' = IF r.number = 1 THEN [from |-> r.counted, rows |-> r.rows, whole |-> TRUE]
               ELSE IF Follows(r) THEN [walk EXCEPT !.rows = @ \o r.rows]
               ELSE [walk EXCEPT !.whole = FALSE]
    /\ UNCHANGED <<bound, data, writes, page, asked, turned, crossed>>

\* The toast says so; the rows that are shown stay.
LoadFails(r) ==
    /\ open' = open \ {r}
    /\ crossed' = TRUE
    /\ UNCHANGED <<bound, data, writes, page, asked, view, turned, walk>>

-----------------------------------------------------------------------------
Edits ==
    \/ \E e \in bound.editors, l \in bound.leads : Add(e, l) \/ Open(e, l) \/ Save(e, l) \/ Rescan(e, l)
    \/ \E e \in Editor : SaveFails(e) \/ Push(e)
    \/ \E l \in bound.leads : Delete(l) \/ Scored(l)
    \/ \E l \in bound.leads, site \in Site \union {None} : Collect(l, site)
    \/ \E job \in outbox : Publish(job)

Reads ==
    \/ Load \/ Filter \/ NextPage \/ PrevPage \/ Refresh
    \/ \E r \in open : Count(r) \/ Select(r) \/ Arrive(r) \/ LoadFails(r)

Next == Edits \/ Reads

Spec == Init /\ [][Next]_vars

-----------------------------------------------------------------------------
\* leads.go:198, "so the score is not left describing a site that is no longer
\* theirs": when no request is under way and no crawl waits in the outbox, the
\* last job of a lead is about the website it has, unless another write came
\* between a request's read and its end, the queue failed, or the website
\* changed while a crawl of the old one waited: the relay may push that one last.
ScoreFollowsSite ==
    \A l \in Leads :
        /\ l \notin disturbed \union overtaken
        /\ \A e \in Editor : editor[e].at # "idle" => editor[e].lead # l
        /\ \A job \in outbox : job.lead # l
        => crawled[l] = table[l].site

\* What a collection brought beside the form's fields survives every edit that
\* it did not overlap.
EditKeepsTheRest ==
    [][\A l \in Lead : There(l) /\ There(l)' /\ l \notin disturbed'
          => table'[l].extra >= table[l].extra]_vars

\* Turning through the pages from the first to the last shows every lead that
\* matches, each once, provided that nothing was written on the way and no two
\* leads have the score and the name in common.
WalkIsWhole ==
    /\ view # NoView /\ walk.whole /\ walk.from = writes
    /\ view.number * Limit >= view.total
    /\ \A l, m \in Leads : l # m => score[l] # score[m] \/ Name[l] # Name[m]
    => IsInjective(walk.rows) /\ ToSet(walk.rows) = Matching(view.high)

\* The table shows the page that the controls name, unless two requests were
\* open at once or one failed since page 1 was last asked for; and it is blank
\* only when no lead matches, unless the list was written since the dashboard
\* was on page 1 or last turned to a further page.
ViewIsHonest ==
    open = {} /\ view # NoView /\ ~crossed =>
        /\ view.number = page.number /\ view.high = page.high
        /\ view.rows = <<>> /\ turned = writes => Matching(page.high) = {}
=============================================================================
