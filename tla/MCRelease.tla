------------------------------ MODULE MCRelease ------------------------------
(* Finite instances of Release for TLC. *)
EXTENDS Release, TLC

Of(trait, ships, bad) == [trait |-> trait, ships |-> ships, bad |-> bad]

\* A good or a sick commit, and then a sick one or one that fails its tests; one
\* that does not build, and then a good one; or one with a migration that fails,
\* and then a good one that mends it.
Histories ==
    {1 :> Of("good", 1, {}) @@ 2 :> two @@ 3 :> three :
        two \in {Of("good", 1, {}), Of("sick", 2, {})},
        three \in {Of("failing", 2, {}), Of("sick", 2, {})}}
    \union {1 :> Of("good", 1, {}) @@ 2 :> Of("unbuildable", 1, {}) @@ 3 :> Of("good", 2, {})}
    \union {1 :> Of("good", 1, {}) @@ 2 :> Of("good", 2, {2}) @@ 3 :> Of("good", 2, {})}

\* Two deployments of the service alone, or one beside another process.
Scenes == {[runs |-> 2, launches |-> 0, faults |-> 1], [runs |-> 1, launches |-> 1, faults |-> 1]}
=============================================================================
