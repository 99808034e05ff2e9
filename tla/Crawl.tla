------------------------------- MODULE Crawl -------------------------------
(***************************************************************************)
(* Concurrent crawls of one host (crawler.go, robots.go and the beginning  *)
(* of crawlWebsite in handlers.go): they share the cached robots.txt of    *)
(* the host, while the site behind it may change, stall or go away, and    *)
(* each ends in a verdict on the site that a pitch is made from.           *)
(*                                                                         *)
(* Only the network and the delay between pages take time; the steps of    *)
(* the program between them do not.                                        *)
(***************************************************************************)
EXTENDS Integers, SequencesExt

CONSTANTS
    Crawler,        \* goroutines that crawl a website of this host
    Version,        \* what the site may be: its robots.txt, landing page and links
    RespectRobots,  \* CRAWLER_RESPECT_ROBOTS
    TTL,            \* robotsTTL, an hour in the code
    Timeout,        \* CRAWLER_TIMEOUT
    Delay,          \* CRAWLER_DELAY
    JobTimeout,     \* WORKER_JOB_TIMEOUT
    MaxPages,       \* CRAWLER_MAX_PAGES
    MaxTime,        \* bound on the clock
    MaxVersions     \* bound on the versions of the site

\* robots.txt is lines [key, value]; an agent is "us", "*" or "other", a path is
\* the length of the part of the landing page's path that it matches, 0 when it
\* is empty and Elsewhere when it is no prefix of it.
Elsewhere == -1
Line ==
    [key : {"agent"}, value : {"us", "*", "other"}]
        \union [key : {"allow", "disallow"}, value : Nat \union {Elsewhere}]

ASSUME TimeAssumption ==
    /\ TTL \in Nat \ {0} /\ Timeout \in Nat \ {0} /\ Delay \in Nat /\ JobTimeout \in Nat \ {0}
    /\ MaxPages \in Nat /\ RespectRobots \in BOOLEAN
ASSUME VersionAssumption ==
    \A v \in Version :
        /\ {"robots", "page", "links"} = DOMAIN v
        /\ v.robots.up \in BOOLEAN /\ v.robots.file \in Seq(Line)
        /\ v.page.html \in BOOLEAN
        /\ v.page.sends = "answer" => v.page.code \in 100 .. 599
ASSUME BoundAssumption == MaxTime \in Nat /\ MaxVersions \in Nat \ {0}

VARIABLES
    now,    \* the clock
    site,   \* the versions of the site so far, with the time each appeared
    cache,  \* the cached robots.txt of the host
    crawl,  \* per crawler, where it stands
    stored  \* the websites row: the last verdict stored

vars == <<now, site, cache, crawl, stored>>

-----------------------------------------------------------------------------
(* robots.txt, and what it says of us.                                      *)

\* The last agent line before a rule decides whether it is for us.
ReadLine(read, line) ==
    IF line.key = "agent" THEN [read EXCEPT !.applies = line.value \in {"us", "*"}]
    ELSE IF ~read.applies THEN read
    ELSE IF line.key = "allow" THEN [read EXCEPT !.allow = @ \union {line.value}]
    ELSE [read EXCEPT !.disallow = @ \union {line.value}]

Unread == [applies |-> FALSE, allow |-> {}, disallow |-> {}]

\* What is read of so many lines.
ReadTo(file) ==
    LET read[n \in 0 .. Len(file)] ==
          IF n = 0 THEN Unread ELSE ReadLine(read[n - 1], file[n])
    IN read

Parse(file) == ReadTo(file)[Len(file)]

\* Mutant: Allow beats Disallow at any length.
AllowBeatsAll(rules) == \A d \in rules.disallow : d > 0 => \E a \in rules.allow : a > 0

\* The longest match wins, Allow at equal length.
Allowed(rules) ==
    \A d \in rules.disallow : d > 0 => \E a \in rules.allow : a >= d

-----------------------------------------------------------------------------
(* The landing page: no answer at all (refused, unresolved, a sixth         *)
(* redirect), one that does not come, or a code with a body, HTML or not.   *)

\* classify
Classify(code, error) ==
    CASE error -> "down"
      [] ~error /\ code \in 200 .. 399 -> "live"
      [] ~error /\ code \in {401, 403, 405, 406, 429, 451} -> "blocked"
      [] ~error /\ (code >= 500 \/ code \in {404, 410}) -> "down"
      [] OTHER -> "unknown"

\* The links of a page that are worth a fetch, each once.
Interesting(links) == SelectSeq(links, LAMBDA link : link \in {"contact", "about", "about us"})

Idle == [at |-> "idle"]
Stage == {"robots", "ask", "answered", "store robots", "landing", "delay", "page", "save"}

Busy(c) == crawl[c].at # "idle"
Dead(c) == Busy(c) /\ now >= crawl[c].began + JobTimeout

TypeOK ==
    /\ now \in 0 .. MaxTime
    /\ \A n \in DOMAIN site : site[n].is \in Version /\ site[n].from \in 0 .. now
    /\ cache = Idle \/ cache.fetchedAt \in 0 .. now
    /\ \A c \in Crawler : Busy(c) =>
          /\ crawl[c].at \in Stage
          /\ crawl[c].status \in {"", "live", "down", "blocked", "unknown"}
          /\ crawl[c].pages = 1 \/ crawl[c].pages \in 0 .. MaxPages
          /\ crawl[c].began \in 0 .. now /\ crawl[c].since \in crawl[c].began .. now
    /\ stored = Idle \/ stored.status \in {"live", "down", "blocked", "unknown"}

Init ==
    /\ now = 0
    /\ \E v \in Version : site = <<[is |-> v, from |-> 0]>>
    /\ cache = Idle
    /\ crawl = [c \in Crawler |-> Idle]
    /\ stored = Idle

Site == Last(site).is

\* The owner changes the site.
SiteChanges ==
    /\ Len(site) < MaxVersions
    /\ \E v \in Version \ {Site} : site' = Append(site, [is |-> v, from |-> now])
    /\ UNCHANGED <<now, cache, crawl, stored>>

\* Waiting from now on at another place.
Goes(c, to) == [crawl[c] EXCEPT !.at = to, !.since = now]

Continues(c, record) ==
    /\ crawl' = [crawl EXCEPT ![c] = record]
    /\ UNCHANGED <<now, site, stored>>

-----------------------------------------------------------------------------
(* Crawl.                                                                   *)

\* A URL that cannot be normalised has no status; it is stored all the same.
Begin(c) ==
    /\ ~Busy(c)
    /\ \E url \in {"fine", "bad"} :
          Continues(c, [at |-> CASE url = "bad" -> "save"
                                 [] url = "fine" /\ RespectRobots -> "robots"
                                 [] OTHER -> "landing",
                        began |-> now, since |-> now, rules |-> Idle,
                        status |-> "", pages |-> 0, links |-> <<>>])
    /\ UNCHANGED cache

\* allowed: a crawl that is kept out has looked at nothing.
Decides(c, entry) ==
    IF Allowed(entry.rules)
    THEN Continues(c, [Goes(c, "landing") EXCEPT !.rules = entry])
    ELSE Continues(c, [Goes(c, "save") EXCEPT !.rules = entry, !.status = "unknown"])

\* Mutant: an entry is good for one tick more.
FreshOffByOne(entry) == now - entry.fetchedAt <= TTL

Fresh(entry) == now - entry.fetchedAt < TTL

Lookup(c) ==
    /\ crawl[c].at = "robots"
    /\ IF cache # Idle /\ Fresh(cache) THEN Decides(c, cache)
       ELSE Continues(c, Goes(c, "ask"))
    /\ UNCHANGED cache

\* The server sends what is its robots.txt now, nothing when it has none; the
\* body arrives later.
RobotsAnswered(c) ==
    /\ crawl[c].at = "ask" /\ ~Dead(c) /\ Site.robots.up
    /\ Continues(c, [crawl[c] EXCEPT !.at = "answered",
                        !.rules = [rules |-> Parse(Site.robots.file),
                                   served |-> now, fetchedAt |-> now]])
    /\ UNCHANGED cache

\* fetchedAt is the time of the parsing, not that of the answer.
RobotsArrive(c) ==
    /\ crawl[c].at = "answered" /\ ~Dead(c)
    /\ Continues(c, [crawl[c] EXCEPT !.at = "store robots", !.rules.fetchedAt = now])
    /\ UNCHANGED cache

\* Under the lock, whatever another crawl has stored since the lookup.
StoreRobots(c) ==
    /\ crawl[c].at = "store robots"
    /\ cache' = crawl[c].rules
    /\ Decides(c, crawl[c].rules)

Overdue(c) == Dead(c) \/ now = crawl[c].since + Timeout

\* No restrictions then; nothing is cached.
RobotsFail(c) ==
    /\ \/ crawl[c].at = "ask" /\ (Overdue(c) \/ ~Site.robots.up)
       \/ crawl[c].at = "answered" /\ Overdue(c)
    /\ Continues(c, [Goes(c, "landing") EXCEPT !.rules = Idle])
    /\ UNCHANGED cache

Landed(c, code, error) ==
    LET status == Classify(code, error)
        links == IF status = "live" THEN Interesting(Site.links) ELSE <<>>
    IN /\ Continues(c, [Goes(c, IF links # <<>> /\ 1 < MaxPages THEN "delay" ELSE "save")
                        EXCEPT !.status = status, !.pages = 1, !.links = links])
       /\ UNCHANGED cache

\* A body that is not HTML is an error, whatever the code.
Landing(c) ==
    /\ crawl[c].at = "landing" /\ ~Dead(c) /\ Site.page.sends = "answer"
    /\ Landed(c, Site.page.code, ~Site.page.html)

LandingFails(c) ==
    /\ crawl[c].at = "landing"
    /\ \/ Site.page.sends = "none" \/ Dead(c)
       \/ Site.page.sends = "slow" /\ Overdue(c)
    /\ Landed(c, 0, TRUE)

\* The wait before another page; select may see either end first.
Wait(c) ==
    /\ crawl[c].at = "delay" /\ now >= crawl[c].since + Delay
    /\ Continues(c, Goes(c, "page"))
    /\ UNCHANGED cache

GiveUp(c) ==
    /\ crawl[c].at = "delay" /\ Dead(c)
    /\ Continues(c, Idle)
    /\ UNCHANGED cache

\* What another page gives, or its error, does not change the verdict.
Page(c) ==
    /\ crawl[c].at = "page"
    /\ Overdue(c) \/ Site.page.sends # "slow"
    /\ LET left == Tail(crawl[c].links)
       IN Continues(c, [Goes(c, IF left # <<>> /\ crawl[c].pages + 1 < MaxPages
                                THEN "delay" ELSE "save")
                        EXCEPT !.pages = @ + 1, !.links = left])
    /\ UNCHANGED cache

-----------------------------------------------------------------------------
(* crawlWebsite: the verdict is stored.                                     *)

\* orUnknown: the column has a constraint, and no empty value.
OrUnknown(status) == IF status = "" THEN "unknown" ELSE status

Verdict(c) == [status |-> OrUnknown(crawl[c].status), rules |-> crawl[c].rules,
               pages |-> crawl[c].pages, began |-> crawl[c].began, ended |-> now]

\* Mutant: a crawl that ran into its deadline is stored rather than lost.
SaveAnyway(c) ==
    /\ crawl[c].at = "save"
    /\ stored' = Verdict(c)
    /\ crawl' = [crawl EXCEPT ![c] = Idle]
    /\ UNCHANGED <<now, site, cache>>

Save(c) ==
    /\ crawl[c].at = "save" /\ ~Dead(c)
    /\ stored' = Verdict(c)
    /\ crawl' = [crawl EXCEPT ![c] = Idle]
    /\ UNCHANGED <<now, site, cache>>

\* A dead context or a failing query: the job fails with nothing stored.
SaveFails(c) ==
    /\ crawl[c].at = "save"
    /\ Continues(c, Idle)
    /\ UNCHANGED cache

-----------------------------------------------------------------------------
\* Mutant: the delay is a plain sleep, which no deadline ends.
LastTickAsleep(c) ==
    CASE crawl[c].at \in {"ask", "answered", "landing", "page"} ->
            crawl[c].since + Timeout
      [] crawl[c].at = "delay" -> crawl[c].since + Delay
      [] OTHER -> now

\* The latest time at which what the crawl waits for has ended.
LastTick(c) ==
    LET deadline == crawl[c].began + JobTimeout
        Soonest(t) == IF t < deadline THEN t ELSE deadline
    IN CASE crawl[c].at \in {"ask", "answered", "landing", "page"} ->
              Soonest(crawl[c].since + Timeout)
         [] crawl[c].at = "delay" -> Soonest(crawl[c].since + Delay)
         [] OTHER -> now

\* Time passes while every crawl waits for the network or the next page.
Tick ==
    /\ now < MaxTime
    /\ \A c \in Crawler : Busy(c) => now < LastTick(c)
    /\ now' = now + 1
    /\ UNCHANGED <<site, cache, crawl, stored>>

Looks(c) ==
    \/ Begin(c) \/ Lookup(c) \/ RobotsAnswered(c) \/ RobotsArrive(c) \/ StoreRobots(c)
    \/ RobotsFail(c)

Fetches(c) ==
    \/ Landing(c) \/ LandingFails(c) \/ Wait(c) \/ GiveUp(c) \/ Page(c)
    \/ Save(c) \/ SaveFails(c)

Next == SiteChanges \/ Tick \/ \E c \in Crawler : Looks(c) \/ Fetches(c)

Spec == Init /\ [][Next]_vars

-----------------------------------------------------------------------------
\* The versions the site had at some time between the two.
During(begin, end) ==
    {site[n].is : n \in {n \in DOMAIN site :
        /\ site[n].from <= end
        /\ n < Len(site) => site[n + 1].from >= begin}}

\* The versions whose robots.txt a crawl of that time may have gone by.
Consulted(begin, end) == During(begin - TTL - Timeout + 1, end)

Named(line) == line.key = "agent" /\ line.value \in {"us", "*"}

\* A rule is for us when its group names us: one of the agent lines in a row that
\* the rules of the group follow.
Ours(file, m) ==
    \E n \in 1 .. m - 1 :
        /\ Named(file[n])
        /\ \A k \in n + 1 .. m :
              file[k].key = "agent" => \A j \in n .. k : file[j].key = "agent"

\* parseRobots goes by the last of those lines alone, and overlooks the rules of
\* a group that names us before another agent.
OursByLast(file, m) ==
    \E n \in 1 .. m - 1 : Named(file[n]) /\ \A k \in n + 1 .. m : file[k].key # "agent"
Overlooked(v) ==
    LET file == v.robots.file
    IN \E m \in DOMAIN file :
          file[m].key # "agent" /\ Ours(file, m) /\ ~OursByLast(file, m)

\* One of them forbids, with no exception as long.
KeepsOut(v) ==
    LET file == v.robots.file
    IN v.robots.up /\ \E m \in DOMAIN file :
          /\ file[m].key = "disallow" /\ Ours(file, m) /\ file[m].value > 0
          /\ \A n \in DOMAIN file : file[n].key = "allow" /\ Ours(file, n) =>
                file[n].value < file[m].value
Says(v, codes) == v.page.sends = "answer" /\ v.page.html /\ v.page.code \in codes

Refusals == {401, 403, 405, 406, 429, 451}
Failures == {404, 410} \union 500 .. 599

\* The site shows what is said of it.
Warrants(v, status) ==
    CASE status = "live" -> Says(v, 200 .. 399)
      [] status = "blocked" -> Says(v, Refusals)
      [] status = "down" -> v.page.sends # "answer" \/ v.page.code \in Failures
      [] OTHER -> Says(v, (100 .. 599) \ (200 .. 399 \union Refusals \union Failures))

\* An answer that is no HTML page, whatever its code: a refusal in plain text, or
\* a document.  fetch calls it an error, and classify takes errors for no answer.
NotAPage(v) == v.page.sends = "answer" /\ ~v.page.html

\* A pitch quotes the verdict.  "live" is said of a site that showed its page,
\* "blocked" of one that refused, and "down" only of one that failed, stalled or
\* was not there while the crawl lasted - or, the one verdict that is wrong, that
\* answered with something else than a page: never because the crawl ran into its
\* own deadline, robots.txt kept it out or the cache was out of date.
VerdictHasEvidence ==
    stored # Idle =>
        \/ stored.status = "unknown" /\ stored.pages = 0
        \/ \E v \in During(stored.began, stored.ended) :
              Warrants(v, stored.status) \/ (stored.status = "down" /\ NotAPage(v))

\* A crawl that goes by a robots.txt goes by one that the site served within the
\* hour of the cache and the one fetch before it, however the crawls that fill
\* the cache overtake one another; kept out, it was kept out by that.
RulesAreRecent ==
    \A c \in Crawler :
        crawl[c].at \in {"landing", "save"} /\ crawl[c].pages = 0 /\ crawl[c].rules # Idle =>
            /\ crawl[c].since - crawl[c].rules.served < TTL + Timeout
            /\ crawl[c].at = "save" =>
                  \E v \in Consulted(crawl[c].began, crawl[c].since) :
                      KeepsOut(v) \/ Overlooked(v)

\* A landing page that every robots.txt of the time forbids is not fetched: unless
\* none could be had, as "unreachable means no restrictions", or rules of one are
\* overlooked.  It is about the landing page: the other pages of a crawl are
\* fetched without a question.
KeptOutStaysOut ==
    stored # Idle /\ stored.pages > 0 /\ stored.rules # Idle =>
        \E v \in Consulted(stored.began, stored.ended) : ~KeepsOut(v) \/ Overlooked(v)

\* crawler.go:114, "so one tarpit host cannot pin a worker forever": a crawl is
\* over when its job's time is, and earlier when the fetches and delays are.
CrawlIsBounded ==
    \A c \in Crawler : Busy(c) =>
        /\ now - crawl[c].began <= JobTimeout
        /\ now - crawl[c].began <=
              Timeout * (1 + crawl[c].pages + 1) + Delay * (crawl[c].pages + 1)
=============================================================================
