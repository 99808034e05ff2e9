----------------------------- MODULE MCPipeline -----------------------------
(* Finite instances of Pipeline for TLC. *)
EXTENDS Pipeline, TLC

CONSTANTS h1, h2

OneHandler == {h1}
TwoHandlers == {h1, h2}

TwoOwn == {"shop", "newshop"}
OneSocial == {"profile"}

\* Two handlers and a push that happens twice; or one handler, and an edit or a
\* rescan.
Scenes == {[handlers |-> TwoHandlers, sites |-> {"shop", NoSite}, duplicates |-> 1, requests |-> 0],
           [handlers |-> OneHandler, sites |-> {"shop", "newshop", "profile"},
            duplicates |-> 0, requests |-> 1]}
=============================================================================
