------------------------------ MODULE LeadLife ------------------------------
(***************************************************************************)
(* A lead over time, as the rule engine meets it: each crawl, audit or     *)
(* edit changes what is known of it (crawlWebsite, aiAudit, Update), and   *)
(* the next ruleScoring starts from there.                                 *)
(***************************************************************************)
EXTENDS Scoring

vars == <<lead, mark, address>>

Address == [https : BOOLEAN, looked : BOOLEAN]

TypeOK == lead \in Lead /\ mark \in Audit /\ address \in Address

Init ==
    /\ lead \in [site : {"none", "social", "own"}, crawl : {"none"},
                 has : [Gap -> {FALSE}]]
    /\ mark = NoAudit
    /\ address \in [https : {lead.site = "own", FALSE}, looked : {FALSE}]

\* A crawl of a site of their own brings a verdict.  Only a page that loaded
\* shows booking, viewport and description; contacts and profiles only grow.
\* HTTPS is read off the address of the job, which may be one of before an edit.
Crawl ==
    /\ \E current \in BOOLEAN :
          /\ current => HasWebsite(lead)
          /\ address' = [address EXCEPT !.looked = current]
    /\ \E verdict \in {"live", "down", "blocked", "unknown"}, found \in [Gap -> BOOLEAN] :
          /\ address'.looked => found["ssl"] = address.https
          /\ \A g \in {"booking", "mobile", "meta"} : found[g] => verdict = "live"
          /\ \A g \in {"phone", "email", "social"} :
                /\ lead.has[g] => found[g]
                /\ found[g] => lead.has[g] \/ verdict = "live"
          /\ lead' = [lead EXCEPT !.crawl = verdict, !.has = found]
    /\ UNCHANGED mark

\* crawlWebsite on a social link records the profile and nothing else.
CrawlSocial ==
    /\ SocialOnly(lead)
    /\ lead' = [lead EXCEPT !.has["social"] = TRUE]
    /\ UNCHANGED <<mark, address>>

\* aiAudit of the row on record; later crawls do not take it back.
AuditSite ==
    /\ lead.crawl = "live"
    /\ mark' \in Averages
    /\ UNCHANGED <<lead, address>>

\* PUT on the lead: the phone number changes, or the address, of which no
\* crawl is on record then; the websites row of the old one stays.
Edit ==
    /\ \E s \in {"none", "social", "own"}, p \in BOOLEAN :
          /\ lead' = [lead EXCEPT !.site = s, !.has["phone"] = p]
          /\ \/ s = lead.site /\ UNCHANGED address
             \/ address' \in [https : {s = "own", FALSE}, looked : {FALSE}]
    /\ UNCHANGED mark

Next == Crawl \/ CrawlSocial \/ AuditSite \/ Edit

Spec == Init /\ [][Next]_vars
=============================================================================
