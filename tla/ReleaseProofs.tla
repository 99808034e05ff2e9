------------------------- MODULE ReleaseProofs --------------------------
(***************************************************************************)
(* Safety of deployment and migrations for any number of runs of deploy.sh *)
(* at once, of processes on one database, of commits, migrations and       *)
(* faults.                                                                 *)
(***************************************************************************)
EXTENDS Release, WellFoundedInduction, TLAPS

\* flock: at most one run of the script is past its beginning, and it holds
\* the lock.
OneRun ==
    /\ \A s \in Script : script[s] # "idle" => lock
    /\ \A s, t \in Script : script[s] # "idle" /\ script[t] # "idle" => s = t

\* What a run has built is what lies in the checkout, and from the test on it is
\* a build that passed; so is everything that was ever kept or started.
Passed(v) == commit[v].trait \in {"good", "sick"}

Vetted ==
    /\ binary # None => Passed(binary)
    /\ previous # None => Passed(previous)
    /\ \A p \in Process : proc[p].at # "down" => proc[p].v # None /\ Passed(proc[p].v)
    /\ \A s \in Script :
          /\ script[s] \in {"built", "tested", "kept"} => new = checkout
          /\ script[s] \in {"tested", "kept"} => Passed(new)
          /\ script[s] \in {"swapped", "waiting", "failed", "restored", "waiting again"}
                => binary # None

\* Where the binary that was last seen healthy is: installed until the swap, and
\* again after the rollback, and kept in between.
WorkingIsKept ==
    ~interrupted /\ worked # None =>
        /\ (\A s \in Script :
               script[s] \notin {"swapped", "waiting", "failed"}) => binary = worked
        /\ \A s \in Script :
              script[s] \in {"kept", "swapped", "waiting", "failed"} => previous = worked

\* A process that has recorded a migration is the only one to do so, and what it
\* believes to be applied is.
Migrating ==
    /\ \A p \in Process :
          /\ proc[p].at \in {"read", "next", "done", "recorded"} => proc[p].known \subseteq applied
          /\ proc[p].at \in {"done", "recorded"} => Missing(p) # {}
          /\ proc[p].at = "recorded" => Due(p) \notin applied
    /\ \A p, q \in Process :
          p # q /\ proc[p].at = "recorded" /\ proc[q].at = "recorded" => Due(p) # Due(q)

-----------------------------------------------------------------------------
\* A set of migrations has a first one.
LEMMA Least ==
    ASSUME NEW S, S \subseteq Nat, S # {}
    PROVE  \E k \in S : \A m \in S : k <= m
<1> DEFINE Less == {ss \in Nat \X Nat : ss[1] < ss[2]}
<1>1. IsWellFoundedOn(Less, Nat)
  BY NatLessThanWellFounded DEF OpToRel
<1> HIDE DEF Less
<1>2. PICK k \in S : \A m \in S : ~ (<<m, k>> \in Less)
  BY <1>1, WFMin
<1>3. ASSUME NEW m \in S PROVE k <= m
  <2>1. k \in Nat /\ m \in Nat /\ <<m, k>> \in Nat \X Nat
    OBVIOUS
  <2>2. ~ (<<m, k>>[1] < <<m, k>>[2])
    BY <1>2, <2>1 DEF Less
  <2>3. QED
    BY <2>1, <2>2
<1>4. QED
  BY <1>3

\* The migration a process applies next is one it lacks, and it has applied
\* every earlier one.
LEMMA DueFacts ==
    ASSUME TypeOK, NEW p \in Process, Missing(p) # {}
    PROVE  /\ Due(p) \in Missing(p) /\ Due(p) \in Migration
           /\ \A m \in Migration : m < Due(p) => m \in proc[p].known
<1>1. Missing(p) \subseteq Migration /\ Migration \subseteq Nat /\ proc[p].listed \in Nat
  BY BoundAssumption DEF Missing, Migration, TypeOK, Running
<1>2. \E k \in Missing(p) : \A m \in Missing(p) : k <= m
  BY <1>1, Least
<1>3. Due(p) \in Missing(p) /\ \A m \in Missing(p) : Due(p) <= m
  BY <1>2 DEF Due
<1>4. ASSUME NEW m \in Migration, m < Due(p) PROVE m \in proc[p].known
  <2>1. Due(p) \in Nat /\ m \in Nat /\ Due(p) <= proc[p].listed
    BY <1>1, <1>3 DEF Missing
  <2>2. m \notin Missing(p) /\ m <= proc[p].listed
    BY <1>1, <1>3, <1>4, <2>1
  <2>3. QED
    BY <2>2 DEF Missing
<1>5. QED
  BY <1>1, <1>3, <1>4

-----------------------------------------------------------------------------
ReleaseInv ==
    TypeOK /\ OneRun /\ Vetted /\ WorkingIsKept /\ Migrating /\ MigratedOnce

\* The service runs the first commit, or nothing yet.
LEMMA InitRelease == Init => ReleaseInv
<1> SUFFICES ASSUME Init PROVE ReleaseInv
  OBVIOUS
<1>1. /\ bound \in Scene /\ Scene \subseteq [runs : Nat, launches : Nat, faults : Nat]
      /\ 1 \in Version /\ 1 \in Migration /\ None \notin Version
      /\ commit \in [Version -> [trait : Trait, ships : Migration, bad : SUBSET Migration]]
      /\ commit[1] = [trait |-> "good", ships |-> 1, bad |-> {}]
  BY BoundAssumption, HistoryAssumption DEF Init, Version, Migration, None
<1>2. proc \in [Process ->
            [at : {"down", "up"}, v : {None, 1}, known : {{}, {1}}, listed : {0, 1}]]
  BY ProcessAssumption DEF Init, Off
<1>3. TypeOK
  <2>1. {0, 1} \subseteq 0 .. Last
    BY BoundAssumption
  <2> proc \in [Process -> Running]
    BY <1>1, <1>2, <2>1 DEF Running
  <2>2. /\ applied \subseteq Migration /\ ran \in [Migration -> Nat]
        /\ binary \in Version \union {None}
    BY <1>1 DEF Init
  <2>3. script \in [Script -> Stage]
    BY DEF Init, Stage
  <2>4. QED
    BY <1>1, <2>2, <2>3 DEF Init, TypeOK
<1>4. OneRun /\ WorkingIsKept
  BY DEF Init, OneRun, WorkingIsKept
<1>5. Vetted
  <2>1. \A p \in Process : proc[p].at # "down" => proc[p].v = 1
    BY ProcessAssumption DEF Init, Off
  <2>2. QED
    BY <1>1, <2>1 DEF Init, Vetted, Passed, None
<1>6. Migrating
  <2>1. \A p \in Process : proc[p].at \in {"down", "up"}
    BY ProcessAssumption DEF Init, Off
  <2>2. QED
    BY <2>1 DEF Migrating
<1>7. MigratedOnce
  BY <1>1 DEF Init, MigratedOnce, Migration
<1>8. QED
  BY <1>3, <1>4, <1>5, <1>6, <1>7 DEF ReleaseInv

\* Types.
LEMMA ReleaseTypes == ReleaseInv /\ [Next]_vars => TypeOK'
<1> SUFFICES ASSUME ReleaseInv, [Next]_vars PROVE TypeOK'
  OBVIOUS
<1>1. /\ TypeOK /\ Migrating /\ Vetted
      /\ bound.runs \in Nat /\ bound.launches \in Nat /\ bound.faults \in Nat
  BY BoundAssumption DEF ReleaseInv, TypeOK
<1>2. \A p \in Process : proc[p].at = "recorded" => Due(p) \in Migration
  <2> TAKE p \in Process
  <2> HAVE proc[p].at = "recorded"
  <2>1. Missing(p) # {} /\ proc[p].v # None
    BY <1>1 DEF Migrating, Vetted
  <2>2. proc[p].v \in Version
    BY <1>1, <2>1 DEF TypeOK, Running
  <2>3. QED
    BY <1>1, <2>1, <2>2, DueFacts
<1> USE <1>1 DEF TypeOK, given, files, data, past, counts
<1>3. CASE Push
  <2>1. origin' \in Version
    BY <1>3, BoundAssumption DEF Push, Version
  <2>2. QED
    BY <1>3, <2>1 DEF Push
<1>4. ASSUME NEW p \in Process, NEW r, r \in Running, proc' = [proc EXCEPT ![p] = r]
      PROVE  proc' \in [Process -> Running]
  BY <1>4
<1> 0 \in 0 .. Last /\ \A v \in Version : commit[v].ships \in 0 .. Last
  BY BoundAssumption, HistoryAssumption DEF Migration
<1>5. ASSUME NEW p \in Process, Launch(p) \/ StartFails(p) PROVE TypeOK'
  <2>1. Started(binary) \in Running /\ Off \in Running
    BY DEF Started, Off, Running
  <2>2. proc' \in [Process -> Running]
    BY <1>4, <1>5, <2>1 DEF Launch, StartFails
  <2>3. QED
    BY <1>5, <2>2 DEF Launch, StartFails
<1>6. ASSUME NEW p \in Process, Start(p) PROVE TypeOK'
  <2>1. PICK r \in Running : Becomes(p, r)
    <3>1. /\ proc[p].at \in {"down", "starting", "read", "next", "done", "recorded", "up", "ill"}
          /\ proc[p] = [at |-> proc[p].at, v |-> proc[p].v, known |-> proc[p].known,
                        listed |-> proc[p].listed]
          /\ proc[p].v \in Version \union {None} /\ proc[p].known \in SUBSET Migration
          /\ proc[p].listed \in 0 .. Last
      BY DEF Running
    <3>2. /\ Off \in Running
          /\ \A at \in {"read", "next", "done", "recorded", "up", "ill", "down"} :
                /\ [proc[p] EXCEPT !.at = at] \in Running
                /\ [proc[p] EXCEPT !.at = at, !.listed = commit[checkout].ships] \in Running
                /\ [proc[p] EXCEPT !.at = at, !.known = applied] \in Running
                /\ proc[p].at = "recorded" =>
                      [proc[p] EXCEPT !.at = at, !.known = @ \union {Due(p)}] \in Running
      BY <1>2, <3>1 DEF Running, Off
    <3>3. CASE Commit(p)
      BY <3>2, <3>3 DEF Commit
    <3>4. QED
      BY <1>6, <3>2, <3>3 DEF Start, Read, List, Exec, ExecFails, Record, Conflict, Serve
  <2>2. proc' \in [Process -> Running] /\ UNCHANGED <<given, files, lock, script, counts, past>>
    BY <1>4, <2>1 DEF Becomes
  <2>3. applied' \in SUBSET Migration /\ ran' \in [Migration -> Nat]
    BY <1>2, <1>6 DEF Start, Read, List, Exec, ExecFails, Record, Conflict, Commit, Serve
  <2>4. QED
    BY <2>2, <2>3
<1>7. ASSUME NEW s \in Script, NEW to \in Stage, script' = [script EXCEPT ![s] = to]
      PROVE  script' \in [Script -> Stage]
  BY <1>7
<1>8. ASSUME NEW s \in Script, Fetch(s) \/ Refuse(s) \/ Deploy(s) \/ Stop(s)
      PROVE  script' \in [Script -> Stage] /\ lock' \in BOOLEAN
  <2>1. \E to \in Stage : script' = [script EXCEPT ![s] = to]
    BY <1>8 DEF Fetch, Refuse, Deploy, Stop, Merge, Build, Test, Keep, Swap, Restart, Healthy,
                Unhealthy, RollBack, Goes, Ends, Stage
  <2>2. lock' \in {lock, TRUE, FALSE}
    BY <1>8 DEF Fetch, Refuse, Deploy, Stop, Merge, Build, Test, Keep, Swap, Restart, Healthy,
                Unhealthy, RollBack, Goes, Ends
  <2>3. QED
    BY <1>7, <2>1, <2>2
<1>9. ASSUME NEW s \in Script, Fetch(s) \/ Refuse(s) \/ Stop(s) PROVE TypeOK'
  <2>1. interrupted' \in BOOLEAN
    <3>1. CASE interrupted' = interrupted
      BY <3>1
    <3>2. CASE Stop(s)
      <4> DEFINE late == script[s] \in {"swapped", "waiting", "failed", "restored",
                                       "waiting again"}
      <4>1. interrupted' = (interrupted \/ late)
        BY <3>2 DEF Stop
      <4> HIDE DEF late
      <4>2. (interrupted \/ late) \in BOOLEAN
        OBVIOUS
      <4>3. QED
        BY <4>1, <4>2
    <3>3. QED
      BY <1>9, <3>1, <3>2 DEF Fetch, Refuse
  <2>2. /\ fetched' \in {fetched, origin} /\ runs' \in {runs, runs + 1}
        /\ faults' \in {faults, faults + 1}
        /\ UNCHANGED <<given, origin, checkout, new, binary, previous, launches, proc, data,
                       worked>>
    BY <1>9 DEF Fetch, Refuse, Stop
  <2>3. QED
    BY <1>8, <1>9, <2>1, <2>2
<1>10. ASSUME NEW s \in Script, Merge(s) \/ Build(s) \/ Test(s) PROVE TypeOK'
  <2>1. checkout' \in Version /\ new' \in Version \union {None}
    BY <1>10 DEF Merge, Build, Test
  <2>2. QED
    BY <1>8, <1>10, <2>1 DEF Merge, Build, Test, Deploy
<1>11. ASSUME NEW s \in Script, Keep(s) \/ Swap(s) \/ RollBack(s) PROVE TypeOK'
  <2>1. /\ new' \in Version \union {None} /\ binary' \in Version \union {None}
        /\ previous' \in Version \union {None}
    BY <1>11 DEF Keep, Kept, Swap, RollBack
  <2>2. QED
    BY <1>8, <1>11, <2>1 DEF Keep, Swap, RollBack, Deploy
<1>12. ASSUME NEW s \in Script, Restart(s) PROVE TypeOK'
  <2>1. Started(binary) \in Running
    BY DEF Started, Running
  <2>2. proc' \in [Process -> Running]
    BY <1>4, <1>12, <2>1, ProcessAssumption DEF Restart, Restarted
  <2>3. QED
    BY <1>8, <1>12, <2>2 DEF Restart, Deploy
<1>13. ASSUME NEW s \in Script, Healthy(s) \/ Unhealthy(s) PROVE TypeOK'
  BY <1>8, <1>13 DEF Healthy, Unhealthy, Deploy
<1>14. CASE UNCHANGED vars
  BY <1>14 DEF vars
<1>15. QED
  BY <1>3, <1>5, <1>6, <1>9, <1>10, <1>11, <1>12, <1>13, <1>14 DEF Next, Deploy

-----------------------------------------------------------------------------
\* A run that is past its beginning goes on, keeping the lock, or ends.
LEMMA OneRunStep == ReleaseInv /\ [Next]_vars => OneRun'
<1> SUFFICES ASSUME ReleaseInv, [Next]_vars PROVE OneRun'
  OBVIOUS
<1>1. script \in [Script -> Stage] /\ OneRun
  BY DEF ReleaseInv, TypeOK
<1>2. CASE UNCHANGED <<script, lock>>
  BY <1>1, <1>2 DEF OneRun
<1>3. ASSUME NEW s \in Script, Fetch(s) PROVE OneRun'
  <2>1. lock = FALSE /\ lock' = TRUE /\ script' = [script EXCEPT ![s] = "fetched"]
    BY <1>3 DEF Fetch, Free, Goes
  <2>2. QED
    BY <1>1, <2>1 DEF OneRun
<1>4. ASSUME NEW s \in Script, Refuse(s) \/ Deploy(s) \/ Stop(s) PROVE OneRun'
  <2>1. \E to \in Stage : /\ script[s] # "idle" /\ script' = [script EXCEPT ![s] = to]
                          /\ lock' = lock \/ (to = "idle" /\ lock' = FALSE)
    BY <1>4 DEF Refuse, Deploy, Stop, Merge, Build, Test, Keep, Swap, Restart, Healthy,
                Unhealthy, RollBack, Goes, Ends, Stage
  <2>2. QED
    BY <1>1, <2>1 DEF OneRun
<1>5. QED
  BY <1>2, <1>3, <1>4
  DEF Next, Push, Launch, Start, StartFails, Read, List, Exec, ExecFails, Record, Conflict, Commit,
      Serve, Becomes, vars

\* Only a build that passed the tests is installed, kept or started.
LEMMA VettedStep == ReleaseInv /\ [Next]_vars => Vetted'
<1> SUFFICES ASSUME ReleaseInv, [Next]_vars PROVE Vetted'
  OBVIOUS
<1>1. /\ script \in [Script -> Stage] /\ proc \in [Process -> Running] /\ OneRun /\ Vetted
      /\ commit' = commit
  BY DEF ReleaseInv, TypeOK, Next, Push, Launch, Start, StartFails, Read, List, Exec, ExecFails,
         Record, Conflict, Commit, Serve, Becomes, Fetch, Refuse, Deploy, Stop, Merge, Build,
         Test, Keep, Swap, Restart, Healthy, Unhealthy, RollBack, vars, given
<1>2. \A v : Passed(v)' <=> Passed(v)
  BY <1>1 DEF Passed
<1> USE <1>1, <1>2 DEF files
<1> HIDE DEF Passed
\* What runs, when the files and the runs of the script stay.
<1>3. ASSUME NEW p \in Process, NEW r, proc' = [proc EXCEPT ![p] = r],
             r.at # "down" => r.v # None /\ Passed(r.v), UNCHANGED <<files, script>>
      PROVE  Vetted'
  BY <1>3 DEF Vetted
<1>4. ASSUME NEW p \in Process, Launch(p) PROVE Vetted'
  <2>1. binary # None /\ Passed(binary)
    BY <1>4 DEF Launch, Vetted
  <2>2. Started(binary).v = binary
    BY DEF Started
  <2>3. QED
    BY <1>3, <1>4, <2>1, <2>2 DEF Launch
<1>5. ASSUME NEW p \in Process, Start(p) \/ StartFails(p) PROVE Vetted'
  <2>1. proc[p].at # "down" => proc[p].v # None /\ Passed(proc[p].v)
    BY DEF Vetted
  <2>2. \A at, known :
           /\ [proc[p] EXCEPT !.at = at].v = proc[p].v
           /\ [proc[p] EXCEPT !.at = at, !.known = known].v = proc[p].v
           /\ [proc[p] EXCEPT !.at = at, !.listed = known].v = proc[p].v
    BY DEF Running
  <2> DEFINE Keeps(r) == /\ proc' = [proc EXCEPT ![p] = r] /\ UNCHANGED <<files, script>>
                         /\ proc[p].at # "down"
                         /\ r.at = "down" \/ r.v = proc[p].v
  <2>3. \E r : Keeps(r)
    <3>1. CASE Read(p)
      <4>1. Keeps([proc[p] EXCEPT !.at = "read", !.known = applied])
        BY <2>2, <3>1 DEF Read, Becomes
      <4>2. QED
        BY <4>1
    <3>2. CASE Commit(p)
      <4>1. Keeps([proc[p] EXCEPT !.at = "next", !.known = @ \union {Due(p)}])
        BY <2>2, <3>2 DEF Commit, Becomes
      <4>2. QED
        BY <4>1
    <3>3. CASE Exec(p) \/ Record(p) \/ Serve(p)
      <4>1. \E at : Keeps([proc[p] EXCEPT !.at = at])
        BY <2>2, <3>3 DEF Exec, Record, Serve, Becomes
      <4>2. QED
        BY <4>1
    <3>4. CASE ExecFails(p) \/ Conflict(p) \/ StartFails(p)
      <4>1. Keeps(Off)
        BY <3>4 DEF ExecFails, Conflict, StartFails, Becomes, Off
      <4>2. QED
        BY <4>1
    <3>5. CASE List(p)
      <4>1. Keeps([proc[p] EXCEPT !.at = "next", !.listed = commit[checkout].ships])
        BY <2>2, <3>5 DEF List, Becomes
      <4>2. QED
        BY <4>1
    <3>6. QED
      BY <1>5, <3>1, <3>2, <3>3, <3>4, <3>5 DEF Start
  <2>4. QED
    BY <1>3, <2>1, <2>3
\* The script.
<1>6. ASSUME NEW s \in Script, script[s] # "idle" PROVE \A t \in Script \ {s} : script[t] = "idle"
  BY <1>6 DEF OneRun
<1>7. CASE UNCHANGED <<checkout, new, binary, previous, proc, script>>
  BY <1>7 DEF Vetted
<1>8. ASSUME NEW s \in Script, Fetch(s) \/ Refuse(s) \/ Stop(s) PROVE Vetted'
  <2>1. /\ UNCHANGED <<checkout, new, binary, previous, proc>>
        /\ \E to \in {"idle", "fetched"} : script' = [script EXCEPT ![s] = to]
    BY <1>8 DEF Fetch, Refuse, Stop, Goes, Ends
  <2>2. QED
    BY <2>1 DEF Vetted
<1>9. ASSUME NEW s \in Script, Merge(s) PROVE Vetted'
  BY <1>6, <1>9 DEF Merge, Goes, Vetted
<1>10. ASSUME NEW s \in Script, Build(s) PROVE Vetted'
  <2>1. /\ script[s] = "merged" /\ UNCHANGED <<checkout, binary, previous, proc>>
        /\ \/ script' = [script EXCEPT ![s] = "idle"]
           \/ script' = [script EXCEPT ![s] = "built"] /\ new' = checkout
    BY <1>10 DEF Build, Goes, Ends
  <2>2. QED
    BY <1>6, <2>1 DEF Vetted
<1>11. ASSUME NEW s \in Script, Test(s) PROVE Vetted'
  <2>1. /\ script[s] = "built" /\ UNCHANGED <<checkout, binary, previous, proc>>
        /\ \/ script' = [script EXCEPT ![s] = "idle"]
           \/ /\ script' = [script EXCEPT ![s] = "tested"] /\ new' = new
              /\ commit[checkout].trait \notin {"unbuildable", "failing"}
    BY <1>11 DEF Test, Goes, Ends
  <2>2. script'[s] = "tested" => Passed(new)
    <3>1. commit[checkout].trait \in Trait
      <4>1. commit \in [Version -> [trait : Trait, ships : Migration, bad : SUBSET Migration]] /\ checkout \in Version
        BY HistoryAssumption DEF ReleaseInv, TypeOK
      <4>2. QED
        BY <4>1
    <3>2. new = checkout
      BY <2>1 DEF Vetted
    <3>3. script'[s] = "tested" => commit[checkout].trait \notin {"unbuildable", "failing"}
      BY <2>1
    <3>4. commit[checkout].trait \notin {"unbuildable", "failing"} => Passed(checkout)
      BY <3>1 DEF Passed, Trait
    <3>5. QED
      BY <3>2, <3>3, <3>4
  <2>3. CASE script' = [script EXCEPT ![s] = "idle"]
    <3>1. \A t \in Script : script'[t] = "idle"
      BY <1>6, <2>1, <2>3
    <3>2. QED
      BY <2>1, <3>1 DEF Vetted
  <2>4. CASE script' = [script EXCEPT ![s] = "tested"] /\ new' = new
    <3>1. Passed(new) /\ new = checkout
      BY <2>1, <2>2, <2>4 DEF Vetted
    <3>2. \A t \in Script \ {s} : script'[t] = "idle"
      BY <1>6, <2>1, <2>4
    <3>3. script'[s] = "tested"
      BY <2>4
    <3>4. QED
      BY <2>1, <2>4, <3>1, <3>2, <3>3 DEF Vetted
  <2>5. QED
    BY <2>1, <2>3, <2>4
<1>12. ASSUME NEW s \in Script, Keep(s) PROVE Vetted'
  <2>1. /\ script[s] = "tested" /\ script' = [script EXCEPT ![s] = "kept"]
        /\ previous' = (IF binary = None THEN previous ELSE binary)
        /\ UNCHANGED <<checkout, new, binary, proc>>
    BY <1>12 DEF Keep, Kept, Goes
  <2>2. QED
    BY <1>6, <2>1 DEF Vetted
<1>13. ASSUME NEW s \in Script, Swap(s) PROVE Vetted'
  <2>1. /\ script[s] = "kept" /\ UNCHANGED <<checkout, previous, proc>>
        /\ \/ script' = [script EXCEPT ![s] = "idle"] /\ UNCHANGED <<new, binary>>
           \/ script' = [script EXCEPT ![s] = "swapped"] /\ new # None /\ binary' = new
    BY <1>13 DEF Swap, Goes, Ends
  <2>2. QED
    BY <1>6, <2>1 DEF Vetted
<1>14. ASSUME NEW s \in Script, Restart(s) PROVE Vetted'
  <2>1. /\ script[s] \in {"swapped", "restored"} /\ UNCHANGED <<checkout, new, binary, previous>>
        /\ \E to \in {"waiting", "waiting again"} : script' = [script EXCEPT ![s] = to]
        /\ proc' = [proc EXCEPT ![Service] = Started(binary)]
    BY <1>14 DEF Restart, Restarted, Goes, files
  <2>2. binary # None /\ Passed(binary) /\ Started(binary).v = binary
    BY <2>1 DEF Vetted, Started
  <2>3. QED
    BY <1>6, <2>1, <2>2 DEF Vetted
<1>15. ASSUME NEW s \in Script, Healthy(s) \/ Unhealthy(s) PROVE Vetted'
  <2>1. /\ script[s] \in {"waiting", "waiting again"}
        /\ UNCHANGED <<checkout, new, binary, previous, proc>>
        /\ \E to \in {"idle", "failed"} : script' = [script EXCEPT ![s] = to]
    BY <1>15 DEF Healthy, Unhealthy, Goes, Ends, files
  <2>2. QED
    BY <1>6, <2>1 DEF Vetted
<1>16. ASSUME NEW s \in Script, RollBack(s) PROVE Vetted'
  <2>1. /\ script[s] = "failed" /\ UNCHANGED <<checkout, new, proc>>
        /\ \/ script' = [script EXCEPT ![s] = "idle"] /\ UNCHANGED <<binary, previous>>
           \/ /\ script' = [script EXCEPT ![s] = "restored"]
              /\ previous # None /\ binary' = previous /\ previous' = None
    BY <1>16 DEF RollBack, Goes, Ends
  <2>2. QED
    BY <1>6, <2>1 DEF Vetted
<1>17. QED
  BY <1>4, <1>5, <1>7, <1>8, <1>9, <1>10, <1>11, <1>12, <1>13, <1>14, <1>15, <1>16
  DEF Next, Deploy, Push, vars

\* The working binary moves from its place to that of the previous one and back.
LEMMA WorkingStep == ReleaseInv /\ [Next]_vars => WorkingIsKept'
<1> SUFFICES ASSUME ReleaseInv, [Next]_vars PROVE WorkingIsKept'
  OBVIOUS
<1>1. script \in [Script -> Stage] /\ OneRun /\ WorkingIsKept
  BY DEF ReleaseInv, TypeOK
<1> USE <1>1 DEF files, past
<1>2. ASSUME NEW s \in Script, script[s] # "idle" PROVE \A t \in Script \ {s} : script[t] = "idle"
  BY <1>2 DEF OneRun
<1>3. CASE UNCHANGED <<script, binary, previous, past>>
  BY <1>3 DEF WorkingIsKept
<1>4. ASSUME NEW s \in Script, Fetch(s) \/ Refuse(s) \/ Merge(s) \/ Build(s) \/ Test(s)
      PROVE  WorkingIsKept'
  <2>1. /\ UNCHANGED <<binary, previous, past>>
        /\ script[s] \in {"idle", "fetched", "merged", "built"}
        /\ \E to \in {"idle", "fetched", "merged", "built", "tested"} :
              script' = [script EXCEPT ![s] = to]
    BY <1>4 DEF Fetch, Refuse, Merge, Build, Test, Goes, Ends
  <2>2. QED
    BY <2>1 DEF WorkingIsKept
<1>5. ASSUME NEW s \in Script, Keep(s) PROVE WorkingIsKept'
  <2>1. /\ script[s] = "tested" /\ script' = [script EXCEPT ![s] = "kept"]
        /\ previous' = (IF binary = None THEN previous ELSE binary)
        /\ UNCHANGED <<binary, past>>
    BY <1>5 DEF Keep, Kept, Goes
  <2>2. \A t \in Script \ {s} : script[t] = "idle" /\ script'[t] = "idle"
    BY <1>2, <2>1
  <2>3. QED
    BY <2>1, <2>2 DEF WorkingIsKept
<1>6. ASSUME NEW s \in Script, Swap(s) PROVE WorkingIsKept'
  <2>1. /\ script[s] = "kept" /\ UNCHANGED <<previous, past>>
        /\ \/ script' = [script EXCEPT ![s] = "idle"] /\ UNCHANGED binary
           \/ script' = [script EXCEPT ![s] = "swapped"]
    BY <1>6 DEF Swap, Goes, Ends
  <2>2. \A t \in Script \ {s} : script[t] = "idle" /\ script'[t] = "idle"
    BY <1>2, <2>1
  <2>3. QED
    BY <2>1, <2>2 DEF WorkingIsKept
<1>7. ASSUME NEW s \in Script, Restart(s) PROVE WorkingIsKept'
  <2>1. /\ UNCHANGED <<binary, previous, past>>
        /\ \/ script[s] = "swapped" /\ script' = [script EXCEPT ![s] = "waiting"]
           \/ script[s] = "restored" /\ script' = [script EXCEPT ![s] = "waiting again"]
    BY <1>7 DEF Restart, Goes
  <2>2. \A t \in Script \ {s} : script[t] = "idle" /\ script'[t] = "idle"
    BY <1>2, <2>1
  <2>3. QED
    BY <2>1, <2>2 DEF WorkingIsKept
<1>8. ASSUME NEW s \in Script, Healthy(s) PROVE WorkingIsKept'
  <2>1. /\ script[s] # "idle" /\ script' = [script EXCEPT ![s] = "idle"]
        /\ UNCHANGED binary /\ worked' = binary
    BY <1>8 DEF Healthy, Goes, Ends
  <2>2. \A t \in Script : script'[t] = "idle"
    BY <1>2, <2>1
  <2>3. QED
    BY <2>1, <2>2 DEF WorkingIsKept
<1>9. ASSUME NEW s \in Script, Unhealthy(s) PROVE WorkingIsKept'
  <2>1. /\ UNCHANGED <<binary, previous, past>>
        /\ \/ script[s] = "waiting" /\ script' = [script EXCEPT ![s] = "failed"]
           \/ script[s] = "waiting again" /\ script' = [script EXCEPT ![s] = "idle"]
    BY <1>9 DEF Unhealthy, Goes, Ends
  <2>2. \A t \in Script \ {s} : script[t] = "idle" /\ script'[t] = "idle"
    BY <1>2, <2>1
  <2>3. QED
    BY <2>1, <2>2 DEF WorkingIsKept
<1>10. ASSUME NEW s \in Script, RollBack(s) PROVE WorkingIsKept'
  <2>1. /\ script[s] = "failed" /\ UNCHANGED past
        /\ \/ script' = [script EXCEPT ![s] = "idle"] /\ previous = None
           \/ script' = [script EXCEPT ![s] = "restored"] /\ binary' = previous
    BY <1>10 DEF RollBack, Goes, Ends
  <2>2. \A t \in Script \ {s} : script[t] = "idle" /\ script'[t] = "idle"
    BY <1>2, <2>1
  <2>3. QED
    BY <2>1, <2>2 DEF WorkingIsKept
<1>11. ASSUME NEW s \in Script, Stop(s) PROVE WorkingIsKept'
  <2>1. /\ script[s] # "idle" /\ script' = [script EXCEPT ![s] = "idle"]
        /\ UNCHANGED <<binary, previous, worked>>
        /\ ~interrupted' => ~interrupted
        /\ ~interrupted' => script[s] \notin {"swapped", "waiting", "failed"}
    BY <1>11 DEF Stop, Goes, Ends
  <2>2. \A t \in Script : script'[t] = "idle"
    BY <1>2, <2>1
  <2>3. \A t \in Script \ {s} : script[t] = "idle"
    BY <1>2, <2>1
  <2>4. QED
    BY <2>1, <2>2, <2>3 DEF WorkingIsKept
<1>12. QED
  BY <1>3, <1>4, <1>5, <1>6, <1>7, <1>8, <1>9, <1>10, <1>11
  DEF Next, Deploy, Push, Launch, Start, StartFails, Read, List, Exec, ExecFails, Record, Conflict,
      Commit, Serve, Becomes, vars

\* The primary key of schema_migrations serialises the processes: of those that
\* apply one migration, one records it and the others fail on it.
LEMMA MigratingStep == ReleaseInv /\ [Next]_vars => Migrating' /\ MigratedOnce'
<1> SUFFICES ASSUME ReleaseInv, [Next]_vars PROVE Migrating' /\ MigratedOnce'
  OBVIOUS
<1>1. /\ proc \in [Process -> Running] /\ applied \subseteq Migration
      /\ ran \in [Migration -> Nat] /\ Migrating /\ MigratedOnce /\ commit' = commit
  BY DEF ReleaseInv, TypeOK, Next, Push, Launch, Start, StartFails, Read, List, Exec, ExecFails,
         Record, Conflict, Commit, Serve, Becomes, Fetch, Refuse, Deploy, Stop, Merge, Build,
         Test, Keep, Swap, Restart, Healthy, Unhealthy, RollBack, vars, given
<1>2. \A p \in Process : UNCHANGED <<proc[p].listed, proc[p].known>> =>
         Missing(p)' = Missing(p) /\ Due(p)' = Due(p)
  BY DEF Missing, Due
<1> USE <1>1, <1>2 DEF data
\* A process that takes another place, the tables as they are.
<1>3. ASSUME NEW p \in Process, NEW r, proc' = [proc EXCEPT ![p] = r], UNCHANGED data,
             r.at \notin {"done", "recorded"}, r.at \in {"read", "next"} => r.known \subseteq applied
      PROVE  Migrating' /\ MigratedOnce'
  <2>1. proc'[p] = r /\ \A q \in Process \ {p} : proc'[q] = proc[q]
    BY <1>3
  <2>2. Migrating'
    BY <1>3, <2>1 DEF Migrating
  <2>3. MigratedOnce'
    BY <1>3 DEF MigratedOnce
  <2>4. QED
    BY <2>2, <2>3
<1>4. CASE UNCHANGED <<proc, data>>
  BY <1>4 DEF Migrating, MigratedOnce
<1>5. ASSUME NEW p \in Process,
             Launch(p) \/ Read(p) \/ List(p) \/ ExecFails(p) \/ Conflict(p) \/ Serve(p) \/ StartFails(p)
      PROVE  Migrating' /\ MigratedOnce'
  <2> DEFINE Fresh(r) == /\ proc' = [proc EXCEPT ![p] = r] /\ UNCHANGED data
                         /\ r.at \notin {"done", "recorded"}
                         /\ r.at \in {"read", "next"} => r.known \subseteq applied
  <2>1. \A at, known :
           /\ [proc[p] EXCEPT !.at = at].at = at
           /\ [proc[p] EXCEPT !.at = at, !.known = known].at = at
           /\ [proc[p] EXCEPT !.at = at, !.known = known].known = known
           /\ [proc[p] EXCEPT !.at = at, !.listed = known].at = at
           /\ [proc[p] EXCEPT !.at = at, !.listed = known].known = proc[p].known
    BY DEF Running
  <2>2. \E r : Fresh(r)
    <3>1. CASE Read(p)
      <4>1. Fresh([proc[p] EXCEPT !.at = "read", !.known = applied])
        BY <2>1, <3>1 DEF Read, Becomes
      <4>2. QED
        BY <4>1
    <3>2. CASE Serve(p)
      <4>1. PICK at \in {"up", "ill", "down"} : Becomes(p, [proc[p] EXCEPT !.at = at])
        BY <3>2 DEF Serve
      <4>2. Fresh([proc[p] EXCEPT !.at = at])
        BY <2>1, <3>2, <4>1 DEF Serve, Becomes
      <4>3. QED
        BY <4>2
    <3>3. CASE Launch(p)
      <4>1. Fresh(Started(binary))
        BY <3>3 DEF Launch, Started
      <4>2. QED
        BY <4>1
    <3>4. CASE ExecFails(p) \/ Conflict(p) \/ StartFails(p)
      <4>1. Fresh(Off)
        BY <3>4 DEF ExecFails, Conflict, StartFails, Becomes, Off
      <4>2. QED
        BY <4>1
    <3>5. CASE List(p)
      <4>1. proc[p].known \subseteq applied
        BY <3>5 DEF List, Migrating
      <4>2. Fresh([proc[p] EXCEPT !.at = "next", !.listed = commit[checkout].ships])
        BY <2>1, <3>5, <4>1 DEF List, Becomes
      <4>3. QED
        BY <4>2
    <3>6. QED
      BY <1>5, <3>1, <3>2, <3>3, <3>4, <3>5
  <2>3. QED
    BY <1>3, <2>2
<1>6. ASSUME NEW s \in Script, Restart(s) PROVE Migrating' /\ MigratedOnce'
  <2>1. /\ proc' = [proc EXCEPT ![Service] = Started(binary)] /\ UNCHANGED data
        /\ Started(binary).at = "starting"
    BY <1>6 DEF Restart, Restarted, Started
  <2>2. QED
    BY <1>3, <2>1, ProcessAssumption
<1>7. ASSUME NEW p \in Process, Exec(p) PROVE Migrating' /\ MigratedOnce'
  <2>1. /\ proc[p].at = "next" /\ Missing(p) # {} /\ UNCHANGED data
        /\ proc' = [proc EXCEPT ![p] = [proc[p] EXCEPT !.at = "done"]]
    BY <1>7 DEF Exec, Becomes
  <2>2. /\ proc'[p].at = "done" /\ UNCHANGED <<proc[p].listed, proc[p].known>>
        /\ \A q \in Process \ {p} : proc'[q] = proc[q]
    BY <2>1 DEF Running
  <2>3. Missing(p)' # {}
    BY <1>2, <2>1, <2>2
  <2>4. Migrating'
    BY <1>2, <2>1, <2>2, <2>3 DEF Migrating
  <2>5. QED
    BY <2>1, <2>4 DEF MigratedOnce
<1>8. ASSUME NEW p \in Process, Record(p) PROVE Migrating' /\ MigratedOnce'
  <2>1. /\ proc[p].at = "done" /\ Due(p) \notin applied /\ UNCHANGED data
        /\ \A q \in Process \ {p} : proc[q].at = "recorded" => Due(q) # Due(p)
        /\ proc' = [proc EXCEPT ![p] = [proc[p] EXCEPT !.at = "recorded"]]
    BY <1>8 DEF Record, MayRecord, Becomes
  <2>2. /\ proc'[p].at = "recorded" /\ UNCHANGED <<proc[p].listed, proc[p].known>>
        /\ \A q \in Process \ {p} : proc'[q] = proc[q]
    BY <2>1 DEF Running
  <2>3. \A q \in Process : Missing(q)' = Missing(q) /\ Due(q)' = Due(q)
    BY <1>2, <2>2
  <2>4. Migrating'
    BY <2>1, <2>2, <2>3 DEF Migrating
  <2>5. QED
    BY <2>1, <2>4 DEF MigratedOnce
<1>9. ASSUME NEW p \in Process, Commit(p) PROVE Migrating' /\ MigratedOnce'
  <2>1. /\ proc[p].at = "recorded"
        /\ applied' = applied \union {Due(p)} /\ ran' = [ran EXCEPT ![Due(p)] = @ + 1]
        /\ proc' = [proc EXCEPT ![p] =
                       [proc[p] EXCEPT !.at = "next", !.known = @ \union {Due(p)}]]
    BY <1>9 DEF Commit, Becomes
  <2>2. /\ proc'[p].at = "next" /\ proc'[p].known = proc[p].known \union {Due(p)}
        /\ \A q \in Process \ {p} : proc'[q] = proc[q]
    BY <2>1 DEF Running
  <2>3. \A q \in Process \ {p} : Missing(q)' = Missing(q) /\ Due(q)' = Due(q)
    BY <1>2, <2>2
  <2>4. /\ proc[p].known \subseteq applied /\ Due(p) \notin applied
        /\ \A q \in Process \ {p} : proc[q].at = "recorded" => Due(q) # Due(p)
    BY <2>1 DEF Migrating
  <2>5. Migrating'
    BY <2>1, <2>2, <2>3, <2>4 DEF Migrating
  <2>6. Due(p) \in Migration /\ \A m \in Migration : m < Due(p) => m \in proc[p].known
    <3>1. Missing(p) # {} /\ proc[p].v # None /\ proc[p].v \in Version \union {None}
      BY <2>1 DEF Migrating, ReleaseInv, Vetted, Running
    <3>2. QED
      BY <3>1, DueFacts DEF ReleaseInv
  <2>7. \A k \in Migration : ran'[k] = IF k \in applied' THEN 1 ELSE 0
    BY <2>1, <2>4, <2>6 DEF MigratedOnce
  <2>8. \A k \in applied', m \in Migration : m < k => m \in applied'
    BY <2>1, <2>4, <2>6 DEF MigratedOnce
  <2>9. QED
    BY <2>5, <2>7, <2>8 DEF MigratedOnce
<1>10. QED
  BY <1>4, <1>5, <1>6, <1>7, <1>8, <1>9
  DEF Next, Deploy, Start, Push, Fetch, Refuse, Stop, Merge, Build, Test, Keep, Swap,
      Healthy, Unhealthy, RollBack, vars

-----------------------------------------------------------------------------
\* The inductive invariant, for deployments and processes together.
THEOREM ReleaseInvariant == Spec => []ReleaseInv
<1>1. ReleaseInv /\ [Next]_vars => ReleaseInv'
  BY ReleaseTypes, OneRunStep, VettedStep, WorkingStep, MigratingStep DEF ReleaseInv
<1>2. QED
  BY InitRelease, <1>1, PTL DEF Spec

\* deploy.sh:13: a build that fails or whose tests fail never runs as the service.
THEOREM TestedOnly == Spec => []OnlyTestedRuns
<1>1. ReleaseInv => OnlyTestedRuns
  BY ProcessAssumption DEF ReleaseInv, Vetted, Passed, OnlyTestedRuns
<1>2. QED
  BY ReleaseInvariant, <1>1, PTL

\* deploy.sh:14: what a rollback installs is the binary that was last seen
\* healthy, unless a run was cut off between swap and verdict.
THEOREM RollsBackToTheWorking == Spec => []RollbackIsToTheWorking
<1>1. ReleaseInv => RollbackIsToTheWorking
  <2> SUFFICES ASSUME ReleaseInv, NEW s \in Script,
                      script[s] \in {"restored", "waiting again"},
                      ~interrupted, worked # None
               PROVE  binary = worked
    BY DEF RollbackIsToTheWorking
  <2>1. \A t \in Script : script[t] \notin {"swapped", "waiting", "failed"}
    BY DEF ReleaseInv, OneRun
  <2>2. QED
    BY <2>1 DEF ReleaseInv, WorkingIsKept
<1>2. QED
  BY ReleaseInvariant, <1>1, PTL

\* postgres.go:60-110: a migration is committed once and after every earlier one,
\* however many processes start together and whichever checkouts they list.
THEOREM EachMigratedOnce == Spec => []MigratedOnce
<1>1. ReleaseInv => MigratedOnce
  BY DEF ReleaseInv
<1>2. QED
  BY ReleaseInvariant, <1>1, PTL
=============================================================================
