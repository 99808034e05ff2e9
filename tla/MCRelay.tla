------------------------------ MODULE MCRelay ------------------------------
(* Finite instances of Relay for TLC. *)
EXTENDS Relay, TLC

CONSTANTS r1, r2, p1

OneRelay == {r1}
TwoRelays == {r1, r2}
OneProducer == {p1}

TwoEntries == 1 .. 2
ThreeEntries == 1 .. 3
LastEntry == {2}
NoEntry == {}
=============================================================================
