------------------------------- MODULE MCDesk -------------------------------
(* Finite instances of Desk for TLC. *)
EXTENDS Desk, TLC

CONSTANTS l1, l2, l3, e1, e2

Leads3 == {l1, l2, l3}
Editors == {e1, e2}

\* Two of the names are the same.
Names == l1 :> 1 @@ l2 :> 1 @@ l3 :> 2

\* Either the list is read and written to a little, or it is written to.
Scenes == {[asked |-> 3, writes |-> 1, editors |-> {}, leads |-> Leads3, first |-> Leads3,
            site |-> 0],
           [asked |-> 0, writes |-> 3, editors |-> Editors, leads |-> {l1, l2}, first |-> {l1},
            site |-> 0]}

Alike == Permutations(Editors)
=============================================================================
