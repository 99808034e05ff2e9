---------------------------- MODULE MCCollection ----------------------------
(* Finite instances of Collection for TLC. *)
EXTENDS Collection, TLC

CONSTANTS h1, h2

TwoHandlers == {h1, h2}
SomeKnow == {{h1, h2}, {h1}}

AllKinds == {"csv", "gmaps", "places"}

\* Nothing, and more than the limit or the pages hold, a flaw in between.
Offers == {<<>>, <<"fine", "broken", "closed">>}

\* Below, within and above the bounds of the clamp.
Limits == {0, 1, 3, 4}
=============================================================================
