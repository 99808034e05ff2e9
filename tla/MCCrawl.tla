------------------------------ MODULE MCCrawl ------------------------------
(* Finite instances of Crawl for TLC. *)
EXTENDS Crawl, TLC

CONSTANTS c1, c2

TwoCrawlers == {c1, c2}
Symmetry == Permutations(TwoCrawlers)

Rule(k, v) == [key |-> k, value |-> v]
\* A group of two agents, with an exception that is shorter than its rule.
Closed == <<Rule("agent", "other"), Rule("agent", "*"), Rule("allow", 1),
            Rule("disallow", 2)>>
\* The same group the other way round.
Joint == <<Rule("agent", "*"), Rule("agent", "other"), Rule("disallow", 2)>>
\* A rule, a longer exception to it, and a group for somebody else.
Open == <<Rule("agent", "us"), Rule("disallow", 1), Rule("allow", 2),
          Rule("disallow", 2), Rule("disallow", 0), Rule("disallow", Elsewhere),
          Rule("agent", "other"), Rule("disallow", 3)>>

Up(file) == [up |-> TRUE, file |-> file]
Down == [up |-> FALSE, file |-> <<>>]

Is(robots, page, links) == [robots |-> robots, page |-> page, links |-> links]
Shows(code, html) == [sends |-> "answer", code |-> code, html |-> html]
Nothing(sends) == [sends |-> sends, code |-> 0, html |-> FALSE]

Versions ==
    {Is(Up(Closed), Shows(403, TRUE), <<>>),
     Is(Up(Open), Shows(200, TRUE), <<"contact", "blog", "about", "about us">>),
     Is(Up(Joint), Shows(403, FALSE), <<>>),
     Is(Down, Nothing("none"), <<>>),
     Is(Up(<<>>), Nothing("slow"), <<"contact">>)}
=============================================================================
