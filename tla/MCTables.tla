------------------------------ MODULE MCTables ------------------------------
(* Finite instances of Tables for TLC. *)
EXTENDS Tables, TLC

CONSTANTS a1, a2

TwoActors == {a1, a2}

\* The second page names the platforms in another order, and one technology is
\* only seen in the headers.
Pages ==
    <<[contacts |-> {"x", "y"}, socials |-> <<"fb", "ig">>, techs |-> {"cms", "cdn"}, bare |-> {"cms"}],
      [contacts |-> {"x"}, socials |-> <<"ig", "fb">>, techs |-> {"shop"}, bare |-> {"shop"}],
      [contacts |-> {}, socials |-> <<>>, techs |-> {}, bare |-> {}]>>
=============================================================================
