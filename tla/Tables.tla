------------------------------- MODULE Tables -------------------------------
(***************************************************************************)
(* What the crawls of one lead leave in its tables (the repositories of    *)
(* repos.go as crawlWebsite and the extract jobs of handlers.go call       *)
(* them), while other crawls of it run and the lead may be deleted.  Each  *)
(* action is a statement of PostgreSQL under READ COMMITTED: it sees what  *)
(* is committed when it starts, waits for the locks it needs, and keeps    *)
(* its own until its transaction ends.                                     *)
(***************************************************************************)
EXTENDS Naturals, Sequences, FiniteSets

CONSTANTS
    Actor,     \* goroutines of the workers
    Eraser,    \* the request that deletes the lead
    Kind,      \* job types that run, of those below
    Platform,  \* social platforms
    Contact,   \* what identifies a contact
    Found,     \* what the n-th crawl finds on the pages
    MaxJobs    \* bound on the jobs of a behaviour

JobType == {"crawl", "unreachable", "contacts", "socials", "technologies"}

ASSUME ActorAssumption ==
    Eraser \notin Actor /\ IsFiniteSet(Actor) /\ Kind \subseteq JobType
ASSUME FoundAssumption ==
    /\ MaxJobs \in Nat
    /\ \A n \in 1 .. MaxJobs :
          /\ Found[n].contacts \subseteq Contact
          /\ Found[n].socials \in Seq(Platform)
          /\ Found[n].bare \subseteq Found[n].techs

VARIABLES
    lead,        \* whether the businesses row is there
    site,        \* the websites row: the job that wrote it last, 0 for no row
    result,      \* the job of the latest crawl_results row, 0 for no row
    contacts,    \* rows [by, is]
    socials,     \* per platform, the job of its row, 0 for no row
    techs,       \* rows [by, is]
    actor,       \* per actor, the job it runs and its open transaction
    eraser,      \* the rows the deletion locks next, "idle" before and "over" after it
    jobs,        \* jobs begun
    overlapped   \* tables that two open transactions have written

tables == <<lead, site, result, contacts, socials, techs>>
vars == <<tables, actor, eraser, jobs, overlapped>>

Row(set) == [by : 1 .. MaxJobs, is : set]
Tech == UNION {Found[n].techs : n \in 1 .. MaxJobs}

\* A job that begins a part, with no transaction open yet.
Afresh(at, kind, job, of, left, line) ==
    [at |-> at, kind |-> kind, job |-> job, of |-> of, left |-> left, line |-> line,
     added |-> {}, held |-> {}, seen |-> {}, removed |-> {}, shares |-> {}]
Idle == Afresh("idle", "crawl", 0, 0, {}, <<>>)

Stage == {"idle", "website", "result", "load", "contacts", "socials", "techs", "remove",
          "insert", "commit"}

Work == [at : Stage, kind : JobType, job : 0 .. MaxJobs, of : 0 .. MaxJobs,
         left : SUBSET Contact, line : Seq(Platform), added : SUBSET Contact,
         held : SUBSET Platform, seen : SUBSET Row(Tech), removed : SUBSET Row(Tech),
         shares : SUBSET {"lead", "site"}]

TypeOK ==
    /\ lead \in BOOLEAN
    /\ site \in 0 .. MaxJobs /\ result \in 0 .. MaxJobs
    /\ contacts \subseteq Row(Contact) /\ techs \subseteq Row(Tech)
    /\ socials \in [Platform -> 0 .. MaxJobs]
    /\ actor \in [Actor -> Work]
    /\ eraser \in {"idle", "site", "techs", "socials", "over"}
    /\ jobs \in 0 .. MaxJobs
    /\ overlapped \subseteq {"contacts", "techs"}

Init ==
    /\ lead = TRUE
    /\ site = 0 /\ result = 0
    /\ contacts = {} /\ techs = {}
    /\ socials = [p \in Platform |-> 0]
    /\ actor = [a \in Actor |-> Idle]
    /\ eraser = "idle"
    /\ jobs = 0
    /\ overlapped = {}

-----------------------------------------------------------------------------
(* Locks: a row that is inserted shares its parent's, the deletion excludes. *)

LeadFree == eraser \in {"idle", "over"}
SiteFree == eraser \in {"idle", "site", "over"}
TechsFree(rows, a) ==
    /\ eraser # "socials" \/ rows \intersect techs = {}
    /\ \A b \in Actor \ {a} : actor[b].removed \intersect rows = {}
SocialFree(p, a) == \A b \in Actor \ {a} : p \notin actor[b].held

Sharing(parent) == \E a \in Actor : parent \in actor[a].shares

Moves(a, record) == actor' = [actor EXCEPT ![a] = record]

-----------------------------------------------------------------------------
(* crawlWebsite and the extract jobs.                                       *)

Begin(a) ==
    /\ actor[a].at = "idle" /\ jobs < MaxJobs
    /\ jobs' = jobs + 1
    /\ \E kind \in Kind :
          Moves(a, IF kind \in {"crawl", "unreachable"}
                   THEN Afresh("website", kind, jobs + 1, jobs + 1, {}, <<>>)
                   ELSE Afresh("load", kind, jobs + 1, 0, {}, <<>>))
    /\ UNCHANGED <<tables, eraser, overlapped>>

\* The part of the page that a job stores, each contact and platform once.
ToStore(a, part, of) ==
    Afresh(part, actor[a].kind, actor[a].job, of,
           IF part = "contacts" THEN Found[of].contacts ELSE {},
           IF part = "socials" THEN Found[of].socials ELSE <<>>)

Ends(a) == Moves(a, Idle)

PartOf(kind) == IF kind = "technologies" THEN "techs" ELSE kind

\* storedCrawl: the latest crawl of the website, whichever job it is of.
Load(a) ==
    /\ actor[a].at = "load" /\ result # 0
    /\ Moves(a, ToStore(a, PartOf(actor[a].kind), result))
    /\ UNCHANGED <<tables, eraser, jobs, overlapped>>

StoreWebsite(a) ==
    /\ actor[a].at = "website" /\ lead
    /\ SiteFree /\ (site = 0 => LeadFree)
    /\ site' = actor[a].job
    /\ Moves(a, [actor[a] EXCEPT !.at = "result"])
    /\ UNCHANGED <<lead, result, contacts, socials, techs, eraser, jobs, overlapped>>

\* A page that could not be read leaves what earlier crawls have extracted.
StoreResult(a) ==
    /\ actor[a].at = "result" /\ site # 0 /\ SiteFree
    /\ result' = actor[a].job
    /\ IF actor[a].kind = "unreachable" THEN Ends(a)
       ELSE Moves(a, ToStore(a, "contacts", actor[a].of))
    /\ UNCHANGED <<lead, site, contacts, socials, techs, eraser, jobs, overlapped>>

-----------------------------------------------------------------------------
(* ContactRepo.BulkUpsert.                                                  *)

Known(x) == \E row \in contacts : row.is = x

Adds(a, x) ==
    /\ lead /\ LeadFree
    /\ Moves(a, [actor[a] EXCEPT !.left = @ \ {x}, !.added = @ \union {x},
                                 !.shares = @ \union {"lead"}])

\* A transaction that writes the table while another one does.
Marks(a, table, places) ==
    overlapped' = IF \E b \in Actor \ {a} : actor[b].at \in places
                  THEN overlapped \union {table} ELSE overlapped

\* Mutant: a plain INSERT of every contact.
InsertContactAgain(a) ==
    /\ actor[a].at = "contacts"
    /\ \E x \in actor[a].left : Adds(a, x)
    /\ Marks(a, "contacts", {"contacts"})
    /\ UNCHANGED <<tables, eraser, jobs>>

\* INSERT ... WHERE NOT EXISTS, which sees no row that is not committed.
InsertContact(a) ==
    /\ actor[a].at = "contacts"
    /\ \E x \in actor[a].left :
          IF Known(x) THEN Moves(a, [actor[a] EXCEPT !.left = @ \ {x}])
          ELSE Adds(a, x)
    /\ Marks(a, "contacts", {"contacts"})
    /\ UNCHANGED <<tables, eraser, jobs>>

CommitContacts(a) ==
    /\ actor[a].at = "contacts" /\ actor[a].left = {}
    /\ contacts' = contacts \union {[by |-> actor[a].job, is |-> x] : x \in actor[a].added}
    /\ IF actor[a].kind = "contacts" THEN Ends(a)
       ELSE Moves(a, ToStore(a, "socials", actor[a].of))
    /\ UNCHANGED <<lead, site, result, socials, techs, eraser, jobs, overlapped>>

-----------------------------------------------------------------------------
(* SocialRepo.BulkUpsert: a row per platform, in the order of the page.     *)

Fresh(a) == Head(actor[a].line)

UpsertSocial(a) ==
    /\ actor[a].at = "socials" /\ actor[a].line # <<>>
    /\ SocialFree(Fresh(a), a)
    /\ socials[Fresh(a)] = 0 => lead /\ LeadFree
    /\ Moves(a, [actor[a] EXCEPT !.line = Tail(@), !.held = @ \union {Fresh(a)},
                    !.shares = IF socials[Fresh(a)] = 0 THEN @ \union {"lead"} ELSE @])
    /\ UNCHANGED <<tables, eraser, jobs, overlapped>>

CommitSocials(a) ==
    /\ actor[a].at = "socials" /\ actor[a].line = <<>>
    /\ socials' = [p \in Platform |-> IF p \in actor[a].held THEN actor[a].job ELSE socials[p]]
    /\ IF actor[a].kind = "socials" THEN Ends(a)
       ELSE Moves(a, ToStore(a, "techs", actor[a].of))
    /\ UNCHANGED <<lead, site, result, contacts, techs, eraser, jobs, overlapped>>

-----------------------------------------------------------------------------
(* TechnologyRepo.ReplaceForWebsite.                                        *)

\* DELETE takes its snapshot, and waits for the rows another one has deleted.
SeeTechs(a) ==
    /\ actor[a].at = "techs"
    /\ Moves(a, [actor[a] EXCEPT !.at = "remove", !.seen = techs])
    /\ Marks(a, "techs", {"remove", "insert", "commit"})
    /\ UNCHANGED <<tables, eraser, jobs>>

RemoveTechs(a) ==
    /\ actor[a].at = "remove" /\ TechsFree(actor[a].seen, a)
    /\ Moves(a, [actor[a] EXCEPT !.at = "insert", !.removed = actor[a].seen \intersect techs])
    /\ UNCHANGED <<tables, eraser, jobs, overlapped>>

\* Without the headers an extract job finds less.
Detected(a) == IF actor[a].kind = "crawl" THEN Found[actor[a].of].techs
               ELSE Found[actor[a].of].bare

InsertTechs(a) ==
    /\ actor[a].at = "insert"
    /\ Detected(a) # {} => site # 0 /\ SiteFree
    /\ Moves(a, [actor[a] EXCEPT !.at = "commit",
                                 !.shares = IF Detected(a) # {} THEN {"site"} ELSE {}])
    /\ UNCHANGED <<tables, eraser, jobs, overlapped>>

\* Mutant: what an earlier crawl has seen is kept.
CommitTechsToo(a) ==
    /\ actor[a].at = "commit"
    /\ techs' = techs \union
                {[by |-> actor[a].job, is |-> t] : t \in Detected(a)}
    /\ Ends(a)
    /\ UNCHANGED <<lead, site, result, contacts, socials, eraser, jobs, overlapped>>

CommitTechs(a) ==
    /\ actor[a].at = "commit"
    /\ techs' = (techs \ actor[a].removed) \union
                {[by |-> actor[a].job, is |-> t] : t \in Detected(a)}
    /\ Ends(a)
    /\ UNCHANGED <<lead, site, result, contacts, socials, eraser, jobs, overlapped>>

-----------------------------------------------------------------------------
(* BusinessRepo.Delete with its cascade, and what ends a job early.          *)

EraseLead ==
    /\ eraser = "idle" /\ lead /\ ~Sharing("lead")
    /\ eraser' = "site"
    /\ UNCHANGED <<tables, actor, jobs, overlapped>>

EraseSite ==
    /\ eraser = "site" /\ ~Sharing("site")
    /\ eraser' = "techs"
    /\ UNCHANGED <<tables, actor, jobs, overlapped>>

EraseTechs ==
    /\ eraser = "techs"
    /\ \A a \in Actor : actor[a].removed \intersect techs = {}
    /\ eraser' = "socials"
    /\ UNCHANGED <<tables, actor, jobs, overlapped>>

\* Mutant: the technologies have no ON DELETE CASCADE.
EraseRestButTechs ==
    /\ eraser = "socials"
    /\ \A a \in Actor : \A p \in actor[a].held : socials[p] = 0
    /\ lead' = FALSE /\ site' = 0 /\ result' = 0
    /\ contacts' = {} /\ socials' = [p \in Platform |-> 0]
    /\ eraser' = "over"
    /\ UNCHANGED <<techs, actor, jobs, overlapped>>

EraseRest ==
    /\ eraser = "socials"
    /\ \A a \in Actor : \A p \in actor[a].held : socials[p] = 0
    /\ lead' = FALSE /\ site' = 0 /\ result' = 0
    /\ contacts' = {} /\ techs' = {} /\ socials' = [p \in Platform |-> 0]
    /\ eraser' = "over"
    /\ UNCHANGED <<actor, jobs, overlapped>>

EraseFails ==
    /\ eraser \in {"site", "techs", "socials"}
    /\ eraser' = "over"
    /\ UNCHANGED <<tables, actor, jobs, overlapped>>

\* Mutant: the job is over, its transaction is not.
LeaveOpen(a) ==
    /\ Moves(a, [actor[a] EXCEPT !.at = "idle"])
    /\ UNCHANGED <<tables, eraser, jobs, overlapped>>

Rollback(a) ==
    /\ Moves(a, Idle)
    /\ UNCHANGED <<tables, eraser, jobs, overlapped>>

\* A query fails or the deadline passes.
Fails(a) == actor[a].at # "idle" /\ Rollback(a)

\* A row whose parent is not there: no crawl to load, or a foreign key.
Orphan(a) ==
    /\ \/ actor[a].at = "load" /\ result = 0
       \/ actor[a].at = "website" /\ ~lead
       \/ actor[a].at = "result" /\ site = 0
       \/ actor[a].at = "contacts" /\ actor[a].left # {} /\ ~lead
       \/ actor[a].at = "socials" /\ actor[a].line # <<>> /\ ~lead
       \/ actor[a].at = "insert" /\ Detected(a) # {} /\ site = 0
    /\ Rollback(a)

\* x cannot go on before y has ended its transaction.
Waits(x, y) ==
    \/ /\ x \in Actor /\ y = Eraser
       /\ \/ actor[x].at = "contacts" /\ actor[x].left # {} /\ ~LeadFree
          \/ actor[x].at = "socials" /\ actor[x].line # <<>> /\ ~LeadFree
                /\ socials[Fresh(x)] = 0
          \/ actor[x].at = "insert" /\ ~SiteFree
          \/ actor[x].at = "remove" /\ ~TechsFree(actor[x].seen, x)
    \/ /\ x = Eraser /\ y \in Actor
       /\ \/ eraser = "site" /\ "site" \in actor[y].shares
          \/ eraser = "techs" /\ actor[y].removed \intersect techs # {}
          \/ eraser = "socials" /\ \E p \in actor[y].held : socials[p] # 0
    \/ /\ x \in Actor /\ y \in Actor \ {x}
       /\ \/ actor[x].at = "socials" /\ actor[x].line # <<>> /\ Fresh(x) \in actor[y].held
          \/ actor[x].at = "remove" /\ actor[y].removed \intersect actor[x].seen # {}

Deadlocked(x) ==
    \E y \in Actor \union {Eraser} : Waits(x, y) /\
        (Waits(y, x) \/ \E z \in Actor \union {Eraser} : Waits(y, z) /\ Waits(z, x))

\* PostgreSQL breaks a cycle by failing one of its statements.
Victim(x) == Deadlocked(x) /\ IF x = Eraser THEN EraseFails ELSE Fails(x)

-----------------------------------------------------------------------------
Step(a) ==
    \/ Load(a) \/ StoreWebsite(a) \/ StoreResult(a) \/ InsertContact(a) \/ CommitContacts(a)
    \/ UpsertSocial(a) \/ CommitSocials(a)
    \/ SeeTechs(a) \/ RemoveTechs(a) \/ InsertTechs(a) \/ CommitTechs(a) \/ Orphan(a)

Cascade == EraseSite \/ EraseTechs \/ EraseRest

Next ==
    \/ \E a \in Actor : Begin(a) \/ Step(a) \/ Fails(a)
    \/ EraseLead \/ Cascade \/ EraseFails
    \/ \E x \in Actor \union {Eraser} : Victim(x)

Spec == Init /\ [][Next]_vars

\* The database runs a statement that does not wait and ends every cycle of waits.
FairSpec ==
    /\ Spec
    /\ \A a \in Actor : WF_vars(Step(a))
    /\ WF_vars(Cascade)
    /\ WF_vars(\E x \in Actor \union {Eraser} : Victim(x))

-----------------------------------------------------------------------------
\* repos.go:683-684, "a re-crawl never leaves stale detections behind or a
\* half-empty window": the technologies are the whole detection of one job,
\* unless two replacements overlapped.
TechsAreOfOneJob ==
    /\ "techs" \notin overlapped =>
          \A r \in techs : \A s \in techs : r.by = s.by
    /\ \A r \in techs : {t.is : t \in {t \in techs : t.by = r.by}} \in
          UNION {{Found[n].techs, Found[n].bare} : n \in 1 .. MaxJobs}

\* The comment says never.
NeverStale == \A r \in techs : \A s \in techs : r.by = s.by

\* Nobody is listed twice, unless two upserts overlapped; and then never more
\* often than there were actors to do so.
ContactsOnce ==
    \A x \in Contact :
        LET copies == Cardinality({row \in contacts : row.is = x})
        IN copies <= (IF "contacts" \in overlapped THEN Cardinality(Actor) ELSE 1)

\* A deleted lead leaves nothing, though crawls of it are still under way.
NothingOutlivesTheLead ==
    /\ ~lead => site = 0 /\ contacts = {} /\ \A p \in Platform : socials[p] = 0
    /\ site = 0 => result = 0 /\ techs = {}

\* Two crawls, or a crawl and a deletion, may wait for one another's locks (the
\* platforms in different orders, a website and its technologies); every job
\* and every deletion ends nevertheless.
EveryoneEnds ==
    /\ \A a \in Actor : []<>(actor[a].at = "idle")
    /\ []<>(eraser \in {"idle", "over"})
=============================================================================
