------------------------------- MODULE Release -------------------------------
(***************************************************************************)
(* How a commit reaches the running service: the runs of deploy.sh, the    *)
(* start of a process (main.go) and its migrations (postgres.go), which    *)
(* are read from the checkout by whatever binary is started.               *)
(***************************************************************************)
EXTENDS Integers

CONSTANTS
    Script,    \* runs of deploy.sh, by hand and by a timer
    Process,   \* processes of the app on the database
    Service,   \* the one that systemd runs
    Newest,    \* the last commit; the first one is deployed
    Last,      \* the number of migrations there will be
    History,   \* what the commits may be like
    Scene      \* bounds on the runs of deploy.sh that get past the lock, the processes
               \* started by hand and the faults

Version == 1 .. Newest
Migration == 1 .. Last
None == 0

ASSUME ProcessAssumption == Service \in Process
ASSUME BoundAssumption == 
    /\ Scene \subseteq [runs : Nat, launches : Nat, faults : Nat]
    /\ {Newest, Last} \subseteq Nat \ {0}

Trait == {"good", "unbuildable", "failing", "sick"}

\* The migrations of a commit are numbered up to what it ships, none takes one
\* away; the SQL of some may be bad, until a later commit mends it.  The first
\* commit is good and ships the first migration.
ASSUME HistoryAssumption ==
    /\ History \subseteq [Version -> [trait : Trait, ships : Migration, bad : SUBSET Migration]]
    /\ \A h \in History :
          /\ h[1] = [trait |-> "good", ships |-> 1, bad |-> {}]
          /\ \A v, w \in Version : v < w => h[v].ships <= h[w].ships

VARIABLES
    bound,       \* the bounds of this behaviour
    commit,      \* what each commit is like, how many migrations it ships, which are bad
    breaking,    \* the migrations an older binary cannot work with
    origin, fetched, checkout, new, binary, previous,
    lock,        \* whether the lock file is held
    script,      \* where each run of the script stands
    runs, launches, faults,
    proc,        \* where each process stands
    applied,     \* the rows of schema_migrations
    ran,         \* how often each migration has been committed
    worked,      \* the binary that was last seen healthy
    interrupted  \* whether a run since then ended between its swap and its verdict

files == <<origin, fetched, checkout, new, binary, previous>>
data == <<applied, ran>>
past == <<worked, interrupted>>
counts == <<runs, launches, faults>>
given == <<bound, commit, breaking>>
vars == <<given, files, lock, script, counts, proc, data, past>>

-----------------------------------------------------------------------------
Off == [at |-> "down", v |-> None, known |-> {}, listed |-> 0]

\* The migrations in the tree of a commit, those its binary was written with.
Shipped(v) == {k \in Migration : k <= commit[v].ships}
Fits(v) == breaking \intersect applied \subseteq Shipped(v)

Up == proc[Service].at = "up"

\* The first commit runs, or nothing has been deployed yet.
Init ==
    /\ bound \in Scene /\ commit \in History
    /\ breaking \in SUBSET (Migration \ {1})
    /\ origin = 1 /\ fetched = 1 /\ checkout = 1
    /\ new = None /\ previous = None
    /\ \/ /\ binary = 1
          /\ proc = [[p \in Process |-> Off] EXCEPT ![Service] =
                         [at |-> "up", v |-> 1, known |-> {1}, listed |-> 1]]
          /\ applied = {1}
       \/ binary = None /\ proc = [p \in Process |-> Off] /\ applied = {}
    /\ ran = [k \in Migration |-> IF k \in applied THEN 1 ELSE 0]
    /\ worked = binary
    /\ lock = FALSE /\ script = [s \in Script |-> "idle"]
    /\ runs = 0 /\ launches = 0 /\ faults = 0 /\ interrupted = FALSE

\* A push to origin.
Push ==
    /\ origin < Newest /\ origin' = origin + 1
    /\ UNCHANGED <<given, fetched, checkout, new, binary, previous, lock, script, counts, proc, data, past>>

-----------------------------------------------------------------------------
(* A process: run, RunMigrations, applyMigration.                           *)

Becomes(p, record) ==
    /\ proc' = [proc EXCEPT ![p] = record]
    /\ UNCHANGED <<given, files, lock, script, counts, past>>

Started(v) == [at |-> "starting", v |-> v, known |-> {}, listed |-> 0]

\* The other processes are started by hand.
Launch(p) ==
    /\ p # Service /\ proc[p].at = "down" /\ binary # None
    /\ launches < bound.launches /\ launches' = launches + 1
    /\ proc' = [proc EXCEPT ![p] = Started(binary)]
    /\ UNCHANGED <<given, files, lock, script, runs, faults, data, past>>

\* appliedVersions
Read(p) ==
    /\ proc[p].at = "starting"
    /\ Becomes(p, [proc[p] EXCEPT !.at = "read", !.known = applied]) /\ UNCHANGED data

\* Glob: the *.up.sql of the checkout, whatever commit the binary was built from.
List(p) ==
    /\ proc[p].at = "read"
    /\ Becomes(p, [proc[p] EXCEPT !.at = "next", !.listed = commit[checkout].ships])
    /\ UNCHANGED data

Missing(p) == {k \in Migration : k <= proc[p].listed} \ proc[p].known
Due(p) == CHOOSE k \in Missing(p) : \A m \in Missing(p) : k <= m

\* The body is the one in the checkout by now.
Bad == commit[checkout].bad

\* A migration that another process has applied meanwhile, or is about to, may
\* do it once more.
Exec(p) ==
    /\ proc[p].at = "next" /\ Missing(p) # {} /\ Due(p) \notin Bad
    /\ Becomes(p, [proc[p] EXCEPT !.at = "done"]) /\ UNCHANGED data

\* Its SQL fails by itself, or on what another process has applied; run returns
\* the error.
ExecFails(p) ==
    /\ proc[p].at = "next" /\ Missing(p) # {} /\ Due(p) \in Bad \union applied
    /\ Becomes(p, Off) /\ UNCHANGED data

\* Mutant: ON CONFLICT DO NOTHING.
MayAlwaysRecord(p) == TRUE

\* The primary key makes an INSERT wait for the transaction that has one like it.
MayRecord(p) ==
    /\ Due(p) \notin applied
    /\ \A q \in Process \ {p} : proc[q].at = "recorded" => Due(q) # Due(p)

Record(p) ==
    /\ proc[p].at = "done" /\ MayRecord(p)
    /\ Becomes(p, [proc[p] EXCEPT !.at = "recorded"]) /\ UNCHANGED data

Conflict(p) ==
    /\ proc[p].at = "done" /\ Due(p) \in applied
    /\ Becomes(p, Off) /\ UNCHANGED data

Commit(p) ==
    /\ proc[p].at = "recorded"
    /\ applied' = applied \union {Due(p)}
    /\ ran' = [ran EXCEPT ![Due(p)] = @ + 1]
    /\ Becomes(p, [proc[p] EXCEPT !.at = "next", !.known = @ \union {Due(p)}])

\* Workers, relay and server start; a sick commit exits or never gets ready, and
\* so does an old binary that cannot work with a newer schema.
Serve(p) ==
    /\ proc[p].at = "next" /\ Missing(p) = {}
    /\ IF commit[proc[p].v].trait = "good" /\ Fits(proc[p].v)
       THEN Becomes(p, [proc[p] EXCEPT !.at = "up"])
       ELSE \E at \in {"ill", "down"} : Becomes(p, [proc[p] EXCEPT !.at = at])
    /\ UNCHANGED data

\* Redis or Postgres does not answer: run returns the error, an open transaction
\* is rolled back.
StartFails(p) ==
    /\ proc[p].at \notin {"up", "ill", "down"} /\ faults < bound.faults
    /\ faults' = faults + 1
    /\ proc' = [proc EXCEPT ![p] = Off]
    /\ UNCHANGED <<given, files, lock, script, runs, launches, data, past>>

-----------------------------------------------------------------------------
(* deploy.sh                                                                *)

Goes(s, from, to) == script[s] = from /\ script' = [script EXCEPT ![s] = to]

\* The lock goes with the process that holds it.
Ends(s, from) == Goes(s, from, "idle") /\ lock' = FALSE

\* Mutant: no flock.
Unlocked == TRUE

\* flock -n: the script goes no further while another holds it.
Free == ~lock

Fetch(s) ==
    /\ runs < bound.runs /\ Free
    /\ runs' = runs + 1 /\ lock' = TRUE
    /\ Goes(s, "idle", "fetched")
    /\ fetched' = origin
    /\ UNCHANGED <<given, origin, checkout, new, binary, previous, launches, faults, proc, data, past>>

\* Nothing new and no --force; or a dirty tree, or a diverged branch.
Refuse(s) ==
    /\ Ends(s, "fetched")
    /\ UNCHANGED <<given, files, counts, proc, data, past>>

Merge(s) ==
    /\ Goes(s, "fetched", "merged")
    /\ checkout' = fetched
    /\ UNCHANGED <<given, origin, fetched, new, binary, previous, lock, counts, proc, data, past>>

Build(s) ==
    /\ IF commit[checkout].trait = "unbuildable"
       THEN Ends(s, "merged") /\ UNCHANGED new
       ELSE Goes(s, "merged", "built") /\ new' = checkout /\ UNCHANGED lock
    /\ UNCHANGED <<given, origin, fetched, checkout, binary, previous, counts, proc, data, past>>

\* go test runs in the checkout.
Test(s) ==
    /\ IF commit[checkout].trait \in {"unbuildable", "failing"}
       THEN Ends(s, "built") /\ new' = None
       ELSE Goes(s, "built", "tested") /\ UNCHANGED <<new, lock>>
    /\ UNCHANGED <<given, origin, fetched, checkout, binary, previous, counts, proc, data, past>>

\* Mutant: a binary that was kept once stays.
KeptOnce == IF previous = None THEN binary ELSE previous

Kept == IF binary = None THEN previous ELSE binary

Keep(s) ==
    /\ Goes(s, "tested", "kept")
    /\ previous' = Kept
    /\ UNCHANGED <<given, origin, fetched, checkout, new, binary, lock, counts, proc, data, past>>

\* mv; without a .new it fails and so does the script.
Swap(s) ==
    /\ IF new = None THEN Ends(s, "kept") /\ UNCHANGED <<new, binary>>
       ELSE Goes(s, "kept", "swapped") /\ binary' = new /\ new' = None /\ UNCHANGED lock
    /\ UNCHANGED <<given, origin, fetched, checkout, previous, counts, proc, data, past>>

\* Mutant: the rollback restarts nothing.
RestartedFrom(at) == IF at = "swapped" THEN Started(binary) ELSE proc[Service]

\* systemctl restart ends the process that runs.
Restarted(at) == Started(binary)

Restart(s) ==
    /\ \/ Goes(s, "swapped", "waiting") \/ Goes(s, "restored", "waiting again")
    /\ proc' = [proc EXCEPT ![Service] = Restarted(script[s])]
    /\ UNCHANGED <<given, files, lock, counts, data, past>>

Healthy(s) ==
    /\ Up
    /\ \/ Ends(s, "waiting") \/ Ends(s, "waiting again")
    /\ worked' = binary /\ interrupted' = FALSE
    /\ UNCHANGED <<given, files, counts, proc, data>>

\* The process has exited, or the last of the tries has passed.
Unhealthy(s) ==
    /\ ~Up
    /\ \/ Goes(s, "waiting", "failed") /\ UNCHANGED lock
       \/ Ends(s, "waiting again")
    /\ UNCHANGED <<given, files, counts, proc, data, past>>

RollBack(s) ==
    /\ IF previous = None THEN Ends(s, "failed") /\ UNCHANGED <<binary, previous>>
       ELSE /\ Goes(s, "failed", "restored") /\ UNCHANGED lock
            /\ binary' = previous /\ previous' = None
    /\ UNCHANGED <<given, origin, fetched, checkout, new, counts, proc, data, past>>

\* The session is gone, or a command fails under set -e.
Stop(s) ==
    /\ script[s] # "idle" /\ faults < bound.faults
    /\ faults' = faults + 1
    /\ Ends(s, script[s])
    /\ interrupted' = (interrupted \/ script[s] \in {"swapped", "waiting", "failed", "restored",
                                                    "waiting again"})
    /\ UNCHANGED <<given, files, runs, launches, proc, data, worked>>

-----------------------------------------------------------------------------
Start(p) ==
    \/ Read(p) \/ List(p) \/ Exec(p) \/ ExecFails(p)
    \/ Record(p) \/ Conflict(p) \/ Commit(p) \/ Serve(p)

Deploy(s) ==
    \/ Merge(s) \/ Build(s) \/ Test(s) \/ Keep(s) \/ Swap(s)
    \/ Restart(s) \/ Healthy(s) \/ Unhealthy(s) \/ RollBack(s)

Next ==
    \/ Push
    \/ \E p \in Process : Launch(p) \/ Start(p) \/ StartFails(p)
    \/ \E s \in Script : Fetch(s) \/ Refuse(s) \/ Deploy(s) \/ Stop(s)

\* The script and the processes go on by themselves.
Spec ==
    /\ Init /\ [][Next]_vars
    /\ \A s \in Script : WF_vars(Deploy(s))
    /\ \A p \in Process : WF_vars(Start(p))

-----------------------------------------------------------------------------
Stage == {"idle", "fetched", "merged", "built", "tested", "kept", "swapped", "waiting",
          "failed", "restored", "waiting again"}
Running == [at : {"down", "starting", "read", "next", "done", "recorded", "up", "ill"},
            v : Version \union {None}, known : SUBSET Migration, listed : 0 .. Last]

TypeOK ==
    /\ bound \in Scene /\ commit \in History /\ breaking \subseteq Migration
    /\ origin \in Version /\ fetched \in Version /\ checkout \in Version
    /\ new \in Version \union {None} /\ binary \in Version \union {None}
    /\ previous \in Version \union {None} /\ worked \in Version \union {None}
    /\ lock \in BOOLEAN /\ interrupted \in BOOLEAN
    /\ script \in [Script -> Stage]
    /\ runs \in Nat /\ launches \in Nat /\ faults \in Nat
    /\ proc \in [Process -> Running]
    /\ applied \subseteq Migration /\ ran \in [Migration -> Nat]

\* deploy.sh:13, "a build that fails, or tests that fail, never reach the running
\* service", with two runs at once and runs that are cut off anywhere.  It is so
\* of the binary alone: the migrations of the commit are in the checkout by then.
OnlyTestedRuns ==
    proc[Service].at # "down" => commit[proc[Service].v].trait \in {"good", "sick"}

\* deploy.sh:14, "a new binary that does not come up healthy is replaced by the
\* one that was working", unless a run was cut off between swap and verdict, or
\* none has worked yet.
RollbackIsToTheWorking ==
    \A s \in Script : script[s] \in {"restored", "waiting again"} =>
        binary = worked \/ interrupted \/ worked = None

\* Each migration is committed once, in order, by processes that start together,
\* die half-way, or list the migrations of different checkouts.
MigratedOnce ==
    /\ \A k \in Migration : ran[k] = IF k \in applied THEN 1 ELSE 0
    /\ \A k \in applied, m \in Migration : m < k => m \in applied

\* What the checkout would have a process apply at its start cannot be applied.
Blocked == \E k \in Shipped(checkout) \ applied : k \in Bad

\* After a swap the service comes up, with the new binary or the old one, unless
\* another fault happens, a run was cut off, nothing has worked yet, a migration
\* left the working binary behind, or the commit brought one that fails: the old
\* binary then starts with the same migration and exits too.
ServiceReturns ==
    \A s \in Script, n \in UNION {0 .. b.faults : b \in Scene} :
        script[s] = "swapped" /\ faults = n ~>
            Up \/ faults > n \/ interrupted \/ worked = None \/ ~Fits(worked) \/ Blocked
=============================================================================
