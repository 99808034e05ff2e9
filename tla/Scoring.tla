------------------------------ MODULE Scoring ------------------------------
(***************************************************************************)
(* The rule engine (scoring.go) and the part of ruleScoring (handlers.go)  *)
(* that turns what the tables hold about a lead into a stored score.       *)
(*                                                                         *)
(* A lead is what the tables say: the kind of address in the website       *)
(* column, the verdict of the last crawl (a websites row survives an edit  *)
(* of that column), and what contacts and social profiles are on record.   *)
(***************************************************************************)
EXTENDS Integers, Sequences

\* (quality + seo + mobile) / 3 of an audit on record; each mark is clamped.
Averages == 0 .. 10
NoAudit == -1
Audit == Averages \union {NoAudit}

Gap == {"ssl", "booking", "mobile", "meta", "phone", "email", "social"}

\* site: no address, a profile on a social network, or an address of their own.
\* crawl: crawl_status of the websites row, "none" when no crawl ran.
\* has: what was found; ssl, booking, mobile and meta are columns of that row.
Lead == [site  : {"none", "social", "own"},
         crawl : {"none", "live", "down", "blocked", "unknown"},
         has   : [Gap -> BOOLEAN]]

-----------------------------------------------------------------------------
(* EvalContext, as ruleScoring fills it in.                                 *)

SocialOnly(l) == l.site = "social"
HasWebsite(l) == l.site = "own"

\* The websites row counts only where its columns were copied.
Crawled(l) == l.crawl # "none" /\ ~SocialOnly(l)
IsReachable(l) == Crawled(l) /\ l.crawl = "live"
SiteDown(l) == Crawled(l) /\ l.crawl = "down"
SiteOpaque(l) == Crawled(l) /\ l.crawl \in {"blocked", "unknown"}
Has(l, g) ==
    /\ l.has[g]
    /\ g \in {"ssl", "booking", "mobile", "meta"} => Crawled(l)

HasLiveSite(l) == HasWebsite(l) /\ IsReachable(l)

-----------------------------------------------------------------------------
(* DefaultRules, in order: when each applies, when it fires.                *)
(* HasContactForm is HasBooking, the proxy that ruleScoring uses.           *)

Rules == <<"social_only", "no_website", "broken_website", "not_mobile_friendly",
           "no_booking", "ssl_missing", "no_contact_form", "email_missing",
           "no_social_links", "meta_missing", "phone_missing">>

Applies(rule, l) ==
    \/ rule \in {"email_missing", "no_social_links", "phone_missing"}
    \/ rule = "social_only" /\ SocialOnly(l)
    \/ rule = "no_website" /\ ~HasWebsite(l) /\ ~SocialOnly(l)
    \/ rule = "broken_website" /\ HasWebsite(l) /\ ~SiteOpaque(l)
    \/ rule = "ssl_missing" /\ HasWebsite(l)
    \/ /\ rule \in {"not_mobile_friendly", "no_booking", "no_contact_form",
                    "meta_missing"}
       /\ HasLiveSite(l)

Fires(rule, l) ==
    \/ rule = "social_only" /\ SocialOnly(l)
    \/ rule = "no_website" /\ ~HasWebsite(l)
    \/ rule = "broken_website" /\ SiteDown(l)
    \/ rule = "not_mobile_friendly" /\ ~Has(l, "mobile")
    \/ rule \in {"no_booking", "no_contact_form"} /\ ~Has(l, "booking")
    \/ rule = "ssl_missing" /\ ~Has(l, "ssl")
    \/ rule = "email_missing" /\ ~Has(l, "email")
    \/ rule = "no_social_links" /\ ~Has(l, "social")
    \/ rule = "meta_missing" /\ ~Has(l, "meta")
    \/ rule = "phone_missing" /\ ~Has(l, "phone")

-----------------------------------------------------------------------------
(* Evaluate: both totals run over the rules that apply.                     *)

Weight ==
    [social_only |-> 32, no_website |-> 30, broken_website |-> 25,
     not_mobile_friendly |-> 15, no_booking |-> 12, ssl_missing |-> 10,
     no_contact_form |-> 8, email_missing |-> 6, no_social_links |-> 5,
     meta_missing |-> 4, phone_missing |-> 2]

\* The weights of the rules of a set, added up in the order of the rules.
SumOfWeights(R) ==
    LET sum[n \in 0 .. Len(Rules)] ==
          IF n = 0 THEN 0
          ELSE sum[n - 1] + IF Rules[n] \in R THEN Weight[Rules[n]] ELSE 0
    IN sum[Len(Rules)]

Applicable(l) == {rule \in DOMAIN Weight : Applies(rule, l)}

MaxScore(l) == SumOfWeights(Applicable(l))

\* Mutant: a rule pays when its check passes.
TotalOfPassing(l) == SumOfWeights({rule \in Applicable(l) : ~Fires(rule, l)})

TotalScore(l) == SumOfWeights({rule \in Applicable(l) : Fires(rule, l)})

Unassessed(l) == SiteOpaque(l) /\ HasWebsite(l)

Percent(l) == IF MaxScore(l) = 0 THEN 0 ELSE (TotalScore(l) * 100) \div MaxScore(l)

\* Mutant: the collapsed denominator is not damped.
UndampedScore(l) == Percent(l)

\* What the engine ranks a lead by; halved for one nobody could look at.
RankedScore(l) == IF Unassessed(l) THEN Percent(l) \div 2 ELSE Percent(l)

Priority(l) ==
    IF Unassessed(l)
    THEN IF Percent(l) >= 60 THEN "medium" ELSE "low"
    ELSE IF Percent(l) >= 60 THEN "high" ELSE IF Percent(l) >= 30 THEN "medium" ELSE "low"

\* Whose reasons are listed, and the one that is listed first.
Reasons(l) == {n \in DOMAIN Rules : Applies(Rules[n], l) /\ Fires(Rules[n], l)}
FirstReason(l) == Rules[CHOOSE n \in Reasons(l) : \A m \in Reasons(l) : n <= m]

\* Mutant: an unreadable site is pitched like any other.
ConfidentSuggestion(l) ==
    IF Reasons(l) = {} THEN <<"solid">>
    ELSE IF SocialOnly(l) THEN <<"social only">>
    ELSE <<Priority(l), FirstReason(l)>>

\* Which opener SalesSuggestion picks, and the gap it leads with.
SalesSuggestion(l) ==
    IF Reasons(l) = {} THEN <<"solid">>
    ELSE IF SocialOnly(l) THEN <<"social only">>
    ELSE IF Unassessed(l) THEN <<"could not assess">>
    ELSE <<Priority(l), FirstReason(l)>>

-----------------------------------------------------------------------------
(* What ruleScoring stores: an audit, when one exists, is folded in.        *)

AIScore(a) == IF a = NoAudit THEN 0 ELSE (10 - a) * 10

StoredTotal(l, a) ==
    IF a = NoAudit THEN RankedScore(l)
    ELSE (RankedScore(l) * 7 + AIScore(a) * 3) \div 10

-----------------------------------------------------------------------------
(* What the engine promises of a lead, whatever becomes known of it.        *)

VARIABLES
    lead,     \* what the tables hold about it
    mark,     \* the average of its audit
    address   \* the site's: is it https, and is the crawl on record one of it

Dead == {l \in Lead : HasWebsite(l) /\ SiteDown(l)}
DeadTotals == [a \in Audit |-> {StoredTotal(l, a) : l \in Dead}]

\* A lead without an audit keeps its place among audits of the middle mark.
Standing(a) == IF a = NoAudit THEN 5 ELSE a

\* A lead nobody could look at is never a "high" one, and what the list sorts
\* it by is less than that of any site known to be dead, however many of the
\* few rules that apply to it fire.  The one way past is an audit: the mark of
\* another time folds in at 30%, so a worse Standing may outrank a dead site.
UnassessedStaysBelowDead ==
    Unassessed(lead) =>
        /\ Priority(lead) # "high"
        /\ \A a \in Audit : Standing(a) <= Standing(mark) =>
              \A total \in DeadTotals[a] : StoredTotal(lead, mark) < total

\* What improves can only lower the score: no gap that closes in a site, its
\* contacts or its profiles, and no better mark of an audit, through the
\* percentages, the damping and the blend that each round down, makes it look
\* like a better prospect.
BetterNeverRanksHigher ==
    \A g \in Gap :
        LET closed == [lead EXCEPT !.has[g] = TRUE]
            open == [lead EXCEPT !.has[g] = FALSE]
        IN  /\ StoredTotal(closed, mark) <= StoredTotal(open, mark)
            /\ mark # NoAudit =>
                  \A a \in Averages : a >= mark =>
                      StoredTotal(closed, a) <= StoredTotal(open, mark)

\* The sales line never claims what was not seen: "does not load" only of a
\* site that is down, a fault of the page only of a page that loaded, and
\* neither of a business that has no site of its own; "no HTTPS" of no https
\* address that the crawl on record is of; "solid" only with an address and
\* contacts and profiles that lack nothing, nor the page where one loaded.
\* It does say "no HTTPS" of an address nobody has looked at yet (HasSSL starts
\* FALSE), and "solid" of a site it could not read but otherwise knows well.
PitchIsHonest ==
    LET pitch == SalesSuggestion(lead)
        gap == pitch[Len(pitch)]
    IN  /\ gap = "broken_website" => HasWebsite(lead) /\ lead.crawl = "down"
        /\ gap \in {"not_mobile_friendly", "no_booking", "no_contact_form", "meta_missing"}
              => HasWebsite(lead) /\ lead.crawl = "live"
        /\ gap = "ssl_missing" /\ address.looked => ~address.https
        /\ gap = "solid" =>
              /\ HasWebsite(lead) /\ lead.crawl # "down"
              /\ \A g \in {"ssl", "email", "phone", "social"} : lead.has[g]
              /\ lead.crawl = "live" => \A g \in Gap : lead.has[g]
        /\ SocialOnly(lead) => gap = "social only"
        /\ Unassessed(lead) => gap \in {"could not assess", "solid"}
=============================================================================
