---------------------------- MODULE CrawlProofs ----------------------------
(***************************************************************************)
(* How long a crawl takes and what its verdict rests on, for any number of *)
(* crawls, any site, any history of it, and any timeouts and delays.       *)
(***************************************************************************)
EXTENDS Crawl, SequenceTheorems, WellFoundedInduction, TLAPS

Fields == {"at", "began", "since", "rules", "status", "pages", "links"}

\* The time that the landing page and p - 1 others take, with robots.txt before.
Cost(p) == Timeout * (1 + p) + Delay * (p - 1)

\* Before the landing page, and while robots.txt is asked for.
Early == {"robots", "ask", "answered", "store robots", "landing"}
Asking == {"ask", "answered", "store robots"}

\* Where fetches and delays bring a crawl by the time t.
PacedAt(at, began, since, pages, t) ==
    /\ at \in Stage
    /\ began \in Nat /\ since \in Nat /\ pages \in Nat /\ t \in Nat
    /\ began <= since /\ since <= t /\ t <= began + JobTimeout
    /\ at \in Early => pages = 0
    /\ at = "robots" => t = began
    /\ at \in Asking => since = began /\ t <= since + Timeout
    /\ at = "landing" => since <= began + Timeout /\ t <= since + Timeout
    /\ at \in {"delay", "page"} => pages # 0
    /\ at = "delay" => since <= began + Cost(pages) /\ t <= since + Delay
    /\ at = "page" => since <= began + Cost(pages) + Delay /\ t <= since + Timeout
    /\ at = "save" /\ pages = 0 => t <= began + Timeout
    /\ at = "save" /\ pages # 0 => t <= began + Cost(pages)

\* A crawl is where they have brought it by now.
Paced(r) == DOMAIN r = Fields /\ PacedAt(r.at, r.began, r.since, r.pages, now)

\* What classify goes by: the site shows it, or answers with no page.
Bears(v, status) == Warrants(v, status) \/ (status = "down" /\ NotAPage(v))

\* A verdict that will be stored was shown while the crawl lasted: one that the
\* deadline of the job made "down" will not.
Judged(r) ==
    r.at \in {"delay", "page", "save"} =>
        \/ r.status \in {"", "unknown"} /\ r.pages = 0
        \/ r.status = "down" /\ now >= r.began + JobTimeout
        \/ r.status # "" /\ \E v \in During(r.began, now) : Bears(v, r.status)

History ==
    /\ now \in Nat
    /\ site \in Seq([is : Version, from : Nat]) /\ site # <<>>
    /\ \A n \in DOMAIN site : site[n].from <= now

Kept ==
    stored # Idle => stored.began \in Nat /\ stored.ended \in Nat
                     /\ stored.began <= stored.ended /\ stored.ended <= now

CrawlInv ==
    /\ History
    /\ DOMAIN crawl = Crawler
    /\ \A c \in Crawler : crawl[c] = Idle \/ (Paced(crawl[c]) /\ Judged(crawl[c]))
    /\ Kept
    /\ VerdictHasEvidence

-----------------------------------------------------------------------------
(* Times.                                                                   *)

LEMMA Costs ==
    ASSUME NEW p \in Nat
    PROVE  /\ Cost(p) \in Int
           /\ Cost(1) = Timeout + Timeout
           /\ Cost(p + 1) = Cost(p) + Timeout + Delay
           /\ Timeout * (1 + p + 1) + Delay * (p + 1) = Cost(p) + Timeout + Delay + Delay
           /\ p # 0 => Cost(p) >= Timeout
<1>1. Timeout \in Nat /\ Delay \in Nat
  BY TimeAssumption
<1>2. /\ Timeout * (1 + p) \in Nat
      /\ Delay * (p - 1) = Delay * p - Delay /\ Delay * p \in Nat
  BY <1>1
<1>3. /\ Timeout * (1 + (p + 1)) = Timeout * (1 + p) + Timeout
      /\ Timeout * (1 + p + 1) = Timeout * (1 + p) + Timeout
      /\ Delay * ((p + 1) - 1) = Delay * p
      /\ Delay * (p + 1) = Delay * p + Delay
  BY <1>1
<1>4. Cost(p) = Timeout * (1 + p) + (Delay * p - Delay)
  BY <1>2 DEF Cost
<1>5. Cost(p + 1) = Timeout * (1 + p) + Timeout + Delay * p
  BY <1>3 DEF Cost
<1>6. Cost(1) = Timeout + Timeout
  BY <1>1 DEF Cost
<1>7. ASSUME p # 0 PROVE Cost(p) >= Timeout
  <2>1. Timeout * (1 + p) = Timeout + Timeout * p /\ Timeout * p \in Nat
    BY <1>1
  <2>2. Delay * (p - 1) \in Nat
    BY <1>1, <1>7
  <2>3. QED
    BY <1>1, <2>1, <2>2 DEF Cost
<1>8. Cost(p) \in Int
  BY <1>1, <1>2, <1>4
<1>9. Cost(p + 1) = Cost(p) + Timeout + Delay
  BY <1>1, <1>2, <1>4, <1>5
<1>10. Timeout * (1 + p + 1) + Delay * (p + 1) = Cost(p) + Timeout + Delay + Delay
  BY <1>1, <1>2, <1>3, <1>4
<1>11. QED
  BY <1>6, <1>7, <1>8, <1>9, <1>10

\* The timeouts as numbers.
LEMMA Times ==
    Timeout \in Nat /\ Delay \in Nat /\ JobTimeout \in Nat
BY TimeAssumption

\* The stages before, while and after robots.txt is asked for exclude one another.
LEMMA Places ==
    /\ \A at \in Asking :
          /\ at \in Early /\ at \in Stage
          /\ at \notin {"robots", "landing", "delay", "page", "save"}
    /\ \A at \in {"robots", "landing"} : at \in Early /\ at \in Stage /\ at \notin Asking
    /\ \A at \in {"delay", "page", "save"} :
          at \in Stage /\ at \notin Early /\ at \notin Asking
    /\ \A at \in Stage :
          at \in Asking \/ at \in {"robots", "landing"} \/ at \in {"delay", "page", "save"}
BY DEF Asking, Early, Stage

\* What holds at every stage.
LEMMA PaceOf ==
    ASSUME NEW at, NEW began, NEW since, NEW pages, NEW t,
           PacedAt(at, began, since, pages, t)
    PROVE  /\ at \in Stage /\ began \in Nat /\ since \in Nat /\ pages \in Nat /\ t \in Nat
           /\ began <= since /\ since <= t /\ t <= began + JobTimeout /\ began <= t
           /\ at \in Early => pages = 0
           /\ at \in Asking \/ at = "robots" => t <= began + Timeout
<1>1. /\ at \in Stage /\ began \in Nat /\ since \in Nat /\ pages \in Nat /\ t \in Nat
      /\ began <= since /\ since <= t /\ t <= began + JobTimeout
      /\ at \in Early => pages = 0
  BY DEF PacedAt
<1>2. at \in Asking => t <= began + Timeout
  BY DEF PacedAt
<1>3. at = "robots" => t = began
  BY DEF PacedAt
<1>4. QED
  BY <1>1, <1>2, <1>3, Times

LEMMA EarlyPace ==
    ASSUME NEW at \in Early, NEW began, NEW since, NEW pages, NEW t,
           PacedAt(at, began, since, pages, t)
    PROVE  pages = 0 /\ began \in Nat /\ began <= t
<1>1. began \in Nat /\ began <= t
  BY PaceOf
<1>2. pages = 0
  BY PaceOf
<1>3. QED
  BY <1>1, <1>2

\* A crawl begins with nothing spent.
LEMMA PacedStart ==
    ASSUME NEW began \in Nat, NEW at \in {"save", "robots", "landing"}
    PROVE  PacedAt(at, began, began, 0, began)
BY Times, Places DEF PacedAt

\* Asking for robots.txt takes one timeout in all.
LEMMA PacedRobots ==
    ASSUME NEW at, NEW began, NEW since, NEW pages, NEW t,
           PacedAt(at, began, since, pages, t),
           NEW to \in Asking, NEW s,
           \/ at = "robots" /\ s = t
           \/ at \in Asking /\ s = since
    PROVE  PacedAt(to, began, s, pages, t)
BY Times, Places DEF PacedAt

\* The landing page is asked for within that timeout.
LEMMA PacedPastRobots ==
    ASSUME NEW at, at \in Asking \/ at = "robots",
           NEW began, NEW since, NEW pages, NEW t,
           PacedAt(at, began, since, pages, t), NEW to \in {"landing", "save"}
    PROVE  PacedAt(to, began, t, pages, t)
<1>1. /\ began \in Nat /\ t \in Nat /\ t <= began + Timeout /\ began <= t /\ pages = 0
      /\ t <= began + JobTimeout
  BY PaceOf, Places
<1>2. QED
  BY <1>1, Times, Places DEF PacedAt

\* The landing page takes another.
LEMMA PacedLanding ==
    ASSUME NEW began, NEW since, NEW pages, NEW t,
           PacedAt("landing", began, since, pages, t), NEW to \in {"delay", "save"},
           Cost(1) = Timeout + Timeout
    PROVE  PacedAt(to, began, t, 1, t)
<1>1. /\ began \in Nat /\ t \in Nat /\ since \in Nat /\ began <= t /\ t <= began + JobTimeout
  BY PaceOf
<1>2. t <= began + Timeout + Timeout
  BY <1>1, Times DEF PacedAt
<1>3. QED
  BY <1>1, <1>2, Times, Places DEF PacedAt

\* A delay adds a delay.
LEMMA PacedWait ==
    ASSUME NEW began, NEW since, NEW pages, NEW t,
           PacedAt("delay", began, since, pages, t), NEW cost \in Int, cost = Cost(pages)
    PROVE  PacedAt("page", began, t, pages, t)
<1>1. /\ began \in Nat /\ t \in Nat /\ since \in Nat /\ began <= t /\ t <= began + JobTimeout
      /\ pages \in Nat /\ pages # 0
  BY PaceOf DEF PacedAt
<1>2. t <= began + cost + Delay
  BY <1>1, Times DEF PacedAt
<1>3. QED
  BY <1>1, <1>2, Times, Places DEF PacedAt

\* A page adds a timeout: the cost of one page more.
LEMMA PacedPage ==
    ASSUME NEW began, NEW since, NEW pages, NEW t,
           PacedAt("page", began, since, pages, t), NEW to \in {"delay", "save"},
           NEW cost \in Int, cost = Cost(pages), Cost(pages + 1) = cost + Timeout + Delay
    PROVE  PacedAt(to, began, t, pages + 1, t)
<1>1. /\ began \in Nat /\ t \in Nat /\ since \in Nat /\ began <= t /\ t <= began + JobTimeout
      /\ pages \in Nat
  BY PaceOf
<1>2. t <= began + cost + Delay + Timeout
  BY <1>1, Times DEF PacedAt
<1>3. PICK more : more = pages + 1
  OBVIOUS
<1>4. more \in Nat /\ more # 0 /\ t <= began + Cost(more)
  BY <1>1, <1>2, <1>3, Times
<1>5. PacedAt(to, began, t, more, t)
  BY <1>1, <1>4, Times, Places DEF PacedAt
<1>6. QED
  BY <1>3, <1>5

\* Waiting keeps the pace while what is waited for is not overdue.
LEMMA PacedTick ==
    ASSUME NEW at \in {"ask", "answered", "landing", "page", "delay"},
           NEW began, NEW since, NEW pages, NEW t,
           PacedAt(at, began, since, pages, t), t < began + JobTimeout,
           at # "delay" => t < since + Timeout,
           at = "delay" => t < since + Delay
    PROVE  PacedAt(at, began, since, pages, t + 1)
<1>1. PICK u : u = t + 1
  OBVIOUS
<1>2. /\ began \in Nat /\ t \in Nat /\ since \in Nat /\ pages \in Nat
      /\ began <= since /\ since <= t
  BY PaceOf
<1>3. /\ u \in Nat /\ since <= u /\ u <= began + JobTimeout
      /\ at # "delay" => u <= since + Timeout
      /\ at = "delay" => u <= since + Delay
  BY <1>1, <1>2, Times
<1>4. at # "robots" /\ at # "save"
  OBVIOUS
<1>5. at \in Asking => at # "delay"
  BY Places
<1> HIDE DEF Stage
<1>6. PacedAt(at, began, since, pages, u)
  BY <1>2, <1>3, <1>4, <1>5 DEF PacedAt
<1>7. QED
  BY <1>1, <1>6

\* What a stage may have spent, by the pages it has seen.
LEMMA PacedBound ==
    ASSUME NEW at, NEW began, NEW since, NEW pages, NEW t,
           PacedAt(at, began, since, pages, t),
           NEW cost \in Int, cost = Cost(pages), pages # 0 => cost >= Timeout
    PROVE  /\ pages = 0 => t - began <= Timeout + Timeout
           /\ pages # 0 => t - began <= cost + Delay + Timeout
<1>1. /\ began \in Nat /\ t \in Nat /\ since \in Nat /\ pages \in Nat
      /\ began <= since /\ since <= t /\ at \in Stage
  BY PaceOf
<1>2. CASE at \in Asking \/ at = "robots"
  BY <1>1, <1>2, PaceOf, Times, Places
<1>3. CASE at = "landing"
  <2>1. since <= began + Timeout /\ t <= since + Timeout /\ pages = 0
    BY <1>3, Places DEF PacedAt
  <2>2. QED
    BY <1>1, <2>1, Times
<1>4. CASE at = "delay"
  <2>1. since <= began + cost /\ t <= since + Delay /\ pages # 0
    BY <1>4 DEF PacedAt
  <2>2. QED
    BY <1>1, <2>1, Times
<1>5. CASE at = "page"
  <2>1. since <= began + cost + Delay /\ t <= since + Timeout /\ pages # 0
    BY <1>5 DEF PacedAt
  <2>2. QED
    BY <1>1, <2>1, Times
<1>6. CASE at = "save"
  <2>1. CASE pages = 0
    <3>1. t <= began + Timeout
      BY <1>6, <2>1 DEF PacedAt
    <3>2. QED
      BY <1>1, <2>1, <3>1, Times
  <2>2. CASE pages # 0
    <3>1. t <= began + cost
      BY <1>6, <2>2 DEF PacedAt
    <3>2. QED
      BY <1>1, <2>2, <3>1, Times
  <2>3. QED
    BY <2>1, <2>2
<1>7. QED
  BY <1>1, <1>2, <1>3, <1>4, <1>5, <1>6, Places
-----------------------------------------------------------------------------
(* What the site was.                                                       *)

LEMMA Versions ==
    ASSUME History
    PROVE  /\ Len(site) \in Nat \ {0} /\ DOMAIN site = 1 .. Len(site)
           /\ \A n \in DOMAIN site : site[n].is \in Version /\ site[n].from \in Nat
<1>1. PICK S : S = [is : Version, from : Nat]
  OBVIOUS
<1>2. site \in Seq(S) /\ site # <<>>
  BY <1>1 DEF History
<1>3. /\ Len(site) \in Nat \ {0} /\ DOMAIN site = 1 .. Len(site)
      /\ \A n \in DOMAIN site : site[n] \in S
  BY <1>2
<1>4. QED
  BY <1>1, <1>3

LEMMA SiteNow ==
    ASSUME History, NEW begin \in Nat, begin <= now
    PROVE  Site \in Version /\ Site \in During(begin, now)
<1>1. /\ Len(site) \in DOMAIN site /\ Len(site) \in Nat
      /\ site[Len(site)].is \in Version
  BY Versions
<1>2. Site = site[Len(site)].is
  BY DEF Site, Last
<1>3. site[Len(site)].from <= now
  BY <1>1 DEF History
<1>4. QED
  BY <1>1, <1>2, <1>3 DEF During

LEMMA LongerDuring ==
    ASSUME History, NEW begin, NEW end \in Nat, NEW later \in Nat, end <= later
    PROVE  During(begin, end) \subseteq During(begin, later)
<1>1. \A n \in DOMAIN site : site[n].from <= end => site[n].from <= later
  BY Versions
<1>2. QED
  BY <1>1 DEF During

LEMMA GrownDuring ==
    ASSUME History, NEW begin \in Int, NEW end, begin <= now,
           NEW v \in Version, site' = Append(site, [is |-> v, from |-> now])
    PROVE  During(begin, end) \subseteq During(begin, end)'
<1> DEFINE e == [is |-> v, from |-> now]
<1>1. site \in Seq([is : Version, from : Nat]) /\ e \in [is : Version, from : Nat]
  BY DEF History
<1>2. /\ Len(site) \in Nat /\ DOMAIN site = 1 .. Len(site)
      /\ Len(site') = Len(site) + 1 /\ DOMAIN site' = 1 .. Len(site) + 1
      /\ \A n \in 1 .. Len(site) : site'[n] = site[n]
      /\ site'[Len(site) + 1] = e
  BY <1>1
<1>3. e.from = now
  OBVIOUS
<1> HIDE DEF e
<1>4. ASSUME NEW n \in DOMAIN site, site[n].from <= end,
             n < Len(site) => site[n + 1].from >= begin
      PROVE  /\ n \in DOMAIN site' /\ site'[n].is = site[n].is /\ site'[n].from <= end
             /\ n < Len(site') => site'[n + 1].from >= begin
  <2>1. n \in DOMAIN site' /\ site'[n] = site[n]
    BY <1>2
  <2>2. CASE n < Len(site)
    <3>1. site'[n + 1] = site[n + 1]
      BY <1>2, <2>2
    <3>2. QED
      BY <1>4, <2>1, <2>2, <3>1
  <2>3. CASE n = Len(site)
    BY <1>2, <1>3, <1>4, <2>1, <2>3 DEF History
  <2>4. QED
    BY <1>2, <2>2, <2>3
<1>5. QED
  BY <1>4 DEF During

LEMMA SameDuring ==
    ASSUME site' = site
    PROVE  \A begin, end : During(begin, end)' = During(begin, end)
BY DEF During

\* What classify makes of the page is what the page shows, where it is one.
LEMMA Classified ==
    ASSUME NEW v \in Version, v.page.sends = "answer",
           NEW status, status = Classify(v.page.code, ~v.page.html)
    PROVE  status # "" /\ Bears(v, status)
<1>1. v.page.html \in BOOLEAN /\ v.page.code \in 100 .. 599
  BY VersionAssumption
<1>2. CASE ~v.page.html
  <2>1. status = "down"
    BY <1>2 DEF Classify
  <2>2. QED
    BY <1>2, <2>1 DEF Bears, NotAPage
<1>3. CASE v.page.html /\ v.page.code \in 200 .. 399
  <2>1. status = "live"
    BY <1>3 DEF Classify
  <2>2. QED
    BY <1>3, <2>1 DEF Bears, Warrants, Says
<1>4. CASE v.page.html /\ v.page.code \in Refusals
  <2>1. status = "blocked"
    BY <1>1, <1>4 DEF Classify, Refusals
  <2>2. QED
    BY <1>4, <2>1 DEF Bears, Warrants, Says
<1>5. CASE v.page.html /\ v.page.code \in Failures
  <2>1. status = "down"
    BY <1>1, <1>5 DEF Classify, Failures
  <2>2. QED
    BY <1>5, <2>1 DEF Bears, Warrants
<1>6. CASE v.page.html /\ v.page.code \notin 200 .. 399 \union Refusals \union Failures
  <2>1. status = "unknown"
    BY <1>1, <1>6 DEF Classify, Refusals, Failures
  <2>2. PICK others : others = (100 .. 599) \ (200 .. 399 \union Refusals \union Failures)
    OBVIOUS
  <2>3. v.page.code \in others
    BY <1>1, <1>6, <2>2
  <2>4. status \notin {"live", "blocked", "down"}
    BY <2>1
  <2>5. Warrants(v, status) = Says(v, others)
    BY <2>2, <2>4 DEF Warrants
  <2>6. Says(v, others)
    BY <1>6, <2>3 DEF Says
  <2>7. QED
    BY <2>1, <2>5, <2>6 DEF Bears
<1>7. QED
  BY <1>1, <1>2, <1>3, <1>4, <1>5, <1>6

-----------------------------------------------------------------------------
(* A step of one crawl.                                                     *)

LEMMA IdleAt == Idle.at = "idle"
BY DEF Idle

LEMMA Changed ==
    ASSUME NEW r, DOMAIN r = Fields, NEW to
    PROVE  /\ DOMAIN [r EXCEPT !.at = to, !.since = now] = Fields
           /\ [r EXCEPT !.at = to, !.since = now].at = to
           /\ [r EXCEPT !.at = to, !.since = now].since = now
           /\ [r EXCEPT !.at = to, !.since = now].began = r.began
           /\ [r EXCEPT !.at = to, !.since = now].status = r.status
           /\ [r EXCEPT !.at = to, !.since = now].pages = r.pages
           /\ [r EXCEPT !.at = to, !.since = now].rules = r.rules
BY DEF Fields

LEMMA StepOf ==
    ASSUME CrawlInv, NEW c \in Crawler, NEW r, Continues(c, r),
           r = Idle \/ (Paced(r) /\ Judged(r))
    PROVE  CrawlInv'
<1>1. /\ crawl' = [crawl EXCEPT ![c] = r]
      /\ now' = now /\ site' = site /\ stored' = stored
  BY DEF Continues
<1>2. /\ DOMAIN crawl' = Crawler /\ crawl'[c] = r
      /\ \A d \in Crawler \ {c} : crawl'[d] = crawl[d]
  BY <1>1 DEF CrawlInv
<1>3. History' /\ Kept'
  BY <1>1 DEF CrawlInv, History, Kept
<1>4. ASSUME NEW d \in Crawler, Paced(crawl'[d]) PROVE Paced(crawl[d])'
  BY <1>1, <1>4 DEF Paced, PacedAt, Cost, Early, Asking
<1>5. ASSUME NEW d \in Crawler, Judged(crawl'[d]) PROVE Judged(crawl[d])'
  BY <1>1, <1>5 DEF Judged, During
<1>6. ASSUME NEW d \in Crawler
      PROVE  crawl'[d] = Idle \/ (Paced(crawl[d])' /\ Judged(crawl[d])')
  BY <1>2, <1>4, <1>5 DEF CrawlInv
<1>7. VerdictHasEvidence'
  BY <1>1, SameDuring DEF CrawlInv, VerdictHasEvidence
<1>8. QED
  BY <1>2, <1>3, <1>6, <1>7 DEF CrawlInv


LEMMA At ==
    ASSUME CrawlInv, NEW c \in Crawler, crawl[c].at # "idle"
    PROVE  Paced(crawl[c]) /\ Judged(crawl[c]) /\ DOMAIN crawl[c] = Fields
BY IdleAt DEF CrawlInv, Paced

LEMMA Went ==
    ASSUME CrawlInv, NEW c \in Crawler, crawl[c].at # "idle", NEW to
    PROVE  /\ DOMAIN Goes(c, to) = Fields
           /\ Goes(c, to).at = to /\ Goes(c, to).since = now
           /\ Goes(c, to).began = crawl[c].began
           /\ Goes(c, to).status = crawl[c].status
           /\ Goes(c, to).pages = crawl[c].pages
           /\ Goes(c, to).rules = crawl[c].rules
BY At, Changed DEF Goes

LEMMA Begins ==
    ASSUME CrawlInv, NEW c \in Crawler, Begin(c)
    PROVE  CrawlInv'
<1>1. PICK url \in {"fine", "bad"} :
         Continues(c, [at |-> CASE url = "bad" -> "save"
                                [] url = "fine" /\ RespectRobots -> "robots"
                                [] OTHER -> "landing",
                       began |-> now, since |-> now, rules |-> Idle,
                       status |-> "", pages |-> 0, links |-> <<>>])
  BY DEF Begin
<1>2. PICK to : to = CASE url = "bad" -> "save"
                       [] url = "fine" /\ RespectRobots -> "robots"
                       [] OTHER -> "landing"
  OBVIOUS
<1>3. to \in {"save", "robots", "landing"}
  BY <1>2, TimeAssumption
<1>4. PICK r : r = [at |-> to, began |-> now, since |-> now, rules |-> Idle,
                    status |-> "", pages |-> 0, links |-> <<>>]
  OBVIOUS
<1>5. /\ DOMAIN r = Fields /\ r.at = to /\ r.began = now /\ r.since = now
      /\ r.status = "" /\ r.pages = 0
  BY <1>4 DEF Fields
<1>6. Continues(c, r)
  BY <1>1, <1>2, <1>4
<1>7. now \in Nat
  BY DEF CrawlInv, History
<1>8. Paced(r)
  BY <1>3, <1>5, <1>7, PacedStart DEF Paced
<1>9. Judged(r)
  BY <1>5 DEF Judged
<1>10. QED
  BY <1>6, <1>8, <1>9, StepOf

LEMMA Deciding ==
    ASSUME CrawlInv, NEW c \in Crawler, crawl[c].at \in {"robots", "store robots"},
           NEW entry, Decides(c, entry)
    PROVE  CrawlInv'
<1>1. Paced(crawl[c]) /\ now \in Nat
  BY At DEF CrawlInv, History
<1>2. crawl[c].pages = 0 /\ (crawl[c].at \in Asking \/ crawl[c].at = "robots")
  BY <1>1, PaceOf, Places DEF Paced, Asking
<1>3. CASE Allowed(entry.rules)
  <2>1. PICK g : g = Goes(c, "landing")
    OBVIOUS
  <2>2. PICK r : r = [g EXCEPT !.rules = entry]
    OBVIOUS
  <2>3. /\ DOMAIN g = Fields /\ g.at = "landing" /\ g.since = now
        /\ g.began = crawl[c].began /\ g.pages = 0
    BY <1>2, <2>1, Went
  <2>4. /\ DOMAIN r = Fields /\ r.at = "landing" /\ r.since = now
        /\ r.began = crawl[c].began /\ r.pages = 0
    BY <2>2, <2>3 DEF Fields
  <2>5. Paced(r)
    BY <1>1, <1>2, <2>4, PacedPastRobots DEF Paced
  <2>8. Judged(r)
    BY <2>4 DEF Judged
  <2>6. Continues(c, r)
    BY <1>3, <2>1, <2>2 DEF Decides
  <2>7. QED
    BY <2>5, <2>6, <2>8, StepOf
<1>4. CASE ~Allowed(entry.rules)
  <2>1. PICK g : g = Goes(c, "save")
    OBVIOUS
  <2>2. PICK r : r = [g EXCEPT !.rules = entry, !.status = "unknown"]
    OBVIOUS
  <2>3. /\ DOMAIN g = Fields /\ g.at = "save" /\ g.since = now
        /\ g.began = crawl[c].began /\ g.pages = 0
    BY <1>2, <2>1, Went
  <2>4. /\ DOMAIN r = Fields /\ r.at = "save" /\ r.since = now /\ r.status = "unknown"
        /\ r.began = crawl[c].began /\ r.pages = 0
    BY <2>2, <2>3 DEF Fields
  <2>5. Paced(r)
    BY <1>1, <1>2, <2>4, PacedPastRobots DEF Paced
  <2>8. Judged(r)
    BY <2>4 DEF Judged
  <2>6. Continues(c, r)
    BY <1>4, <2>1, <2>2 DEF Decides
  <2>7. QED
    BY <2>5, <2>6, <2>8, StepOf
<1>5. QED
  BY <1>3, <1>4

\* The request for robots.txt and its answer take one timeout together.
LEMMA RobotsAsked ==
    ASSUME CrawlInv, NEW c \in Crawler,
           NEW to \in Asking, NEW r,
           \/ crawl[c].at = "robots" /\ r.since = now
           \/ crawl[c].at \in Asking /\ r.since = crawl[c].since,
           DOMAIN r = Fields, r.at = to, r.began = crawl[c].began, r.pages = crawl[c].pages,
           Continues(c, r)
    PROVE  CrawlInv'
<1>1. Paced(crawl[c])
  <2>1. crawl[c].at # "idle"
    BY DEF Asking
  <2>2. QED
    BY <2>1, At
<1>2. Paced(r)
  BY <1>1, PacedRobots DEF Paced
<1>3. Judged(r)
  BY Places DEF Judged
<1>4. QED
  BY <1>2, <1>3, StepOf

LEMMA LooksUp ==
    ASSUME CrawlInv, NEW c \in Crawler, Lookup(c)
    PROVE  CrawlInv'
<1>1. CASE Decides(c, cache)
  BY <1>1, Deciding DEF Lookup
<1>2. CASE Continues(c, Goes(c, "ask"))
  <2>1. PICK r : r = Goes(c, "ask")
    OBVIOUS
  <2>2. /\ DOMAIN r = Fields /\ r.at = "ask" /\ r.since = now
        /\ r.began = crawl[c].began /\ r.pages = crawl[c].pages
    BY <2>1, Went DEF Lookup
  <2>3. QED
    BY <1>2, <2>1, <2>2, RobotsAsked DEF Lookup, Asking
<1>3. QED
  BY <1>1, <1>2 DEF Lookup

LEMMA Answers ==
    ASSUME CrawlInv, NEW c \in Crawler, RobotsAnswered(c) \/ RobotsArrive(c)
    PROVE  CrawlInv'
<1>1. crawl[c].at \in {"ask", "answered"}
  BY DEF RobotsAnswered, RobotsArrive
<1>2. DOMAIN crawl[c] = Fields
  BY <1>1, At
<1>3. CASE RobotsAnswered(c)
  <2>1. PICK rules : Continues(c, [crawl[c] EXCEPT !.at = "answered", !.rules = rules])
    BY <1>3 DEF RobotsAnswered
  <2>2. PICK r : r = [crawl[c] EXCEPT !.at = "answered", !.rules = rules]
    OBVIOUS
  <2>3. /\ DOMAIN r = Fields /\ r.at = "answered" /\ r.since = crawl[c].since
        /\ r.began = crawl[c].began /\ r.pages = crawl[c].pages
    BY <1>2, <2>2 DEF Fields
  <2>4. QED
    BY <1>1, <2>1, <2>2, <2>3, RobotsAsked DEF Asking
<1>4. CASE RobotsArrive(c)
  <2>1. Continues(c, [crawl[c] EXCEPT !.at = "store robots", !.rules.fetchedAt = now])
    BY <1>4 DEF RobotsArrive
  <2>2. PICK r : r = [crawl[c] EXCEPT !.at = "store robots", !.rules.fetchedAt = now]
    OBVIOUS
  <2>3. /\ DOMAIN r = Fields /\ r.at = "store robots" /\ r.since = crawl[c].since
        /\ r.began = crawl[c].began /\ r.pages = crawl[c].pages
    BY <1>2, <2>2 DEF Fields
  <2>4. QED
    BY <1>1, <2>1, <2>2, <2>3, RobotsAsked DEF Asking
<1>5. QED
  BY <1>3, <1>4

LEMMA RobotsFailing ==
    ASSUME CrawlInv, NEW c \in Crawler, RobotsFail(c)
    PROVE  CrawlInv'
<1>1. crawl[c].at \in {"ask", "answered"}
  BY DEF RobotsFail
<1>2. Paced(crawl[c]) /\ now \in Nat
  BY <1>1, At DEF CrawlInv, History
<1>3. PICK g : g = Goes(c, "landing")
  OBVIOUS
<1>4. PICK r : r = [g EXCEPT !.rules = Idle]
  OBVIOUS
<1>5. /\ DOMAIN g = Fields /\ g.at = "landing" /\ g.since = now
      /\ g.began = crawl[c].began /\ g.pages = crawl[c].pages
  BY <1>1, <1>3, Went
<1>6. /\ DOMAIN r = Fields /\ r.at = "landing" /\ r.since = now
      /\ r.began = crawl[c].began /\ r.pages = crawl[c].pages
  BY <1>4, <1>5 DEF Fields
<1>7. Paced(r) /\ Judged(r)
  <2>1. crawl[c].at \in Asking
    BY <1>1 DEF Asking
  <2>2. Paced(r)
    BY <1>2, <1>6, <2>1, PacedPastRobots DEF Paced
  <2>3. Judged(r)
    BY <1>6 DEF Judged
  <2>4. QED
    BY <2>2, <2>3
<1>8. Continues(c, r)
  BY <1>3, <1>4 DEF RobotsFail
<1>9. QED
  BY <1>7, <1>8, StepOf

LEMMA Lands ==
    ASSUME CrawlInv, NEW c \in Crawler, crawl[c].at = "landing", NEW code, NEW error,
           Landed(c, code, error), NEW status, status = Classify(code, error),
           \/ status # "" /\ Bears(Site, status)
           \/ status = "down" /\ Dead(c)
    PROVE  CrawlInv'
<1>1. PICK links : links = IF status = "live" THEN Interesting(Site.links) ELSE <<>>
  OBVIOUS
<1>2. PICK to : to = IF links # <<>> /\ 1 < MaxPages THEN "delay" ELSE "save"
  OBVIOUS
<1>3. to \in {"delay", "save"}
  BY <1>2
<1>4. PICK g : g = Goes(c, to)
  OBVIOUS
<1>5. PICK r : r = [g EXCEPT !.status = status, !.pages = 1, !.links = links]
  OBVIOUS
<1>6. Continues(c, r)
  BY <1>1, <1>2, <1>4, <1>5 DEF Landed
<1>7. /\ DOMAIN g = Fields /\ g.at = to /\ g.since = now /\ g.began = crawl[c].began
  BY <1>4, Went
<1>8. /\ DOMAIN r = Fields /\ r.at = to /\ r.since = now /\ r.began = crawl[c].began
      /\ r.pages = 1 /\ r.status = status
  BY <1>5, <1>7 DEF Fields
<1>9. Paced(crawl[c]) /\ History /\ now \in Nat
  BY At DEF CrawlInv, History
<1>10. Cost(1) = Timeout + Timeout
  BY Costs
<1>11. Paced(r)
  BY <1>3, <1>8, <1>9, <1>10, PacedLanding DEF Paced
<1>12. r.began \in Nat /\ r.began <= now
  BY <1>8, <1>11, PaceOf DEF Paced
<1>13. Site \in During(r.began, now)
  BY <1>9, <1>12, SiteNow
<1>14. Judged(r)
  BY <1>8, <1>13 DEF Judged, Dead
<1>15. QED
  BY <1>6, <1>11, <1>14, StepOf

LEMMA LandingSteps ==
    ASSUME CrawlInv, NEW c \in Crawler, Landing(c) \/ LandingFails(c)
    PROVE  CrawlInv'
<1>1. crawl[c].at = "landing"
  BY DEF Landing, LandingFails
<1>2. Site \in Version
  <2>1. History /\ now \in Nat /\ 0 <= now
    BY DEF CrawlInv, History
  <2>2. QED
    BY <2>1, SiteNow
<1>3. CASE Landing(c)
  <2>1. Site.page.sends = "answer" /\ Landed(c, Site.page.code, ~Site.page.html)
    BY <1>3 DEF Landing
  <2>2. PICK status : status = Classify(Site.page.code, ~Site.page.html)
    OBVIOUS
  <2>3. status # "" /\ Bears(Site, status)
    BY <1>2, <2>1, <2>2, Classified
  <2>4. QED
    BY <1>1, <2>1, <2>2, <2>3, Lands
<1>4. CASE LandingFails(c)
  <2>1. Landed(c, 0, TRUE)
    BY <1>4 DEF LandingFails
  <2>2. PICK status : status = Classify(0, TRUE)
    OBVIOUS
  <2>3. status = "down"
    BY <2>2 DEF Classify
  <2>4. Site.page.sends # "answer" \/ Dead(c)
    BY <1>4 DEF LandingFails
  <2>5. Site.page.sends # "answer" => Bears(Site, "down")
    BY DEF Bears, Warrants
  <2>6. QED
    BY <1>1, <2>1, <2>2, <2>3, <2>4, <2>5, Lands
<1>5. QED
  BY <1>3, <1>4

LEMMA Waits ==
    ASSUME CrawlInv, NEW c \in Crawler, Wait(c)
    PROVE  CrawlInv'
<1>1. crawl[c].at = "delay" /\ Continues(c, Goes(c, "page"))
  BY DEF Wait
<1>2. Paced(crawl[c]) /\ Judged(crawl[c]) /\ now \in Nat
  BY <1>1, At DEF CrawlInv, History
<1>3. PICK r : r = Goes(c, "page")
  OBVIOUS
<1>4. /\ DOMAIN r = Fields /\ r.at = "page" /\ r.since = now
      /\ r.began = crawl[c].began /\ r.pages = crawl[c].pages
      /\ r.status = crawl[c].status
  BY <1>1, <1>3, Went
<1>5. Cost(crawl[c].pages) \in Int
  BY <1>2, PaceOf, Costs DEF Paced
<1>6. Paced(r)
  BY <1>1, <1>2, <1>4, <1>5, PacedWait DEF Paced
<1>7. Judged(r)
  BY <1>1, <1>2, <1>4 DEF Judged
<1>8. QED
  BY <1>1, <1>3, <1>6, <1>7, StepOf

LEMMA Pages ==
    ASSUME CrawlInv, NEW c \in Crawler, Page(c)
    PROVE  CrawlInv'
<1>1. crawl[c].at = "page"
  BY DEF Page
<1>2. Paced(crawl[c]) /\ Judged(crawl[c]) /\ now \in Nat
  BY <1>1, At DEF CrawlInv, History
<1>3. PICK left : left = Tail(crawl[c].links)
  OBVIOUS
<1>4. PICK to : to = IF left # <<>> /\ crawl[c].pages + 1 < MaxPages THEN "delay" ELSE "save"
  OBVIOUS
<1>5. to \in {"delay", "save"}
  BY <1>4
<1>6. PICK g : g = Goes(c, to)
  OBVIOUS
<1>7. /\ DOMAIN g = Fields /\ g.at = to /\ g.since = now /\ g.began = crawl[c].began
      /\ g.pages = crawl[c].pages /\ g.status = crawl[c].status
  BY <1>1, <1>6, Went
<1>8. PICK r : r = [g EXCEPT !.pages = g.pages + 1, !.links = left]
  OBVIOUS
<1>9. Continues(c, r)
  BY <1>3, <1>4, <1>6, <1>8 DEF Page
<1>10. /\ DOMAIN r = Fields /\ r.at = to /\ r.since = now /\ r.began = crawl[c].began
       /\ r.pages = crawl[c].pages + 1 /\ r.status = crawl[c].status
  BY <1>7, <1>8 DEF Fields
<1>11. /\ Cost(crawl[c].pages) \in Int /\ crawl[c].pages \in Nat
       /\ Cost(crawl[c].pages + 1) = Cost(crawl[c].pages) + Timeout + Delay
  BY <1>2, PaceOf, Costs DEF Paced
<1>12. Paced(r)
  BY <1>1, <1>2, <1>5, <1>10, <1>11, PacedPage DEF Paced
<1>13. crawl[c].pages # 0
  BY <1>1, <1>2 DEF Paced, PacedAt
<1>14. Judged(r)
  BY <1>1, <1>2, <1>10, <1>13 DEF Judged
<1>15. QED
  BY <1>9, <1>12, <1>14, StepOf

\* The verdict is stored with its evidence: the deadline has not passed.
LEMMA Saves ==
    ASSUME CrawlInv, NEW c \in Crawler, Save(c)
    PROVE  CrawlInv'
<1>1. /\ crawl[c].at = "save" /\ ~Dead(c) /\ stored' = Verdict(c)
      /\ crawl' = [crawl EXCEPT ![c] = Idle] /\ now' = now /\ site' = site
  BY DEF Save
<1>2. Paced(crawl[c]) /\ Judged(crawl[c]) /\ now \in Nat /\ DOMAIN crawl = Crawler
  BY <1>1, At DEF CrawlInv, History
<1>3. /\ stored'.status = OrUnknown(crawl[c].status) /\ stored'.pages = crawl[c].pages
      /\ stored'.began = crawl[c].began /\ stored'.ended = now
  BY <1>1 DEF Verdict
<1>4. /\ DOMAIN crawl' = Crawler /\ crawl'[c] = Idle
      /\ \A d \in Crawler \ {c} : crawl'[d] = crawl[d]
  BY <1>1, <1>2
<1>5. History'
  BY <1>1 DEF CrawlInv, History
<1>6. ASSUME NEW d \in Crawler
      PROVE  crawl'[d] = Idle \/ (Paced(crawl[d])' /\ Judged(crawl[d])')
  <2>1. CASE d = c
    BY <1>4, <2>1
  <2>2. CASE d # c /\ crawl[d] = Idle
    BY <1>4, <2>2
  <2>3. CASE d # c /\ Paced(crawl[d]) /\ Judged(crawl[d])
    <3>1. PICK r : r = crawl[d]
      OBVIOUS
    <3>2. Paced(r)'
      BY <1>1, <2>3, <3>1 DEF Paced, PacedAt, Cost, Early, Asking
    <3>3. Judged(r)'
      <4>1. During(r.began, now)' = During(r.began, now)
        BY <1>1, SameDuring
      <4>2. QED
        BY <1>1, <2>3, <3>1, <4>1 DEF Judged
    <3>4. QED
      BY <1>4, <2>3, <3>1, <3>2, <3>3
  <2>4. QED
    BY <2>1, <2>2, <2>3 DEF CrawlInv
<1>7. Kept'
  BY <1>1, <1>2, <1>3, PaceOf DEF Kept, Paced
<1>8. VerdictHasEvidence'
  <2>1. \/ crawl[c].status \in {"", "unknown"} /\ crawl[c].pages = 0
        \/ /\ crawl[c].status # ""
           /\ \E v \in During(crawl[c].began, now) : Bears(v, crawl[c].status)
    BY <1>1, <1>2 DEF Judged, Dead, Busy
  <2>2. CASE crawl[c].status \in {"", "unknown"} /\ crawl[c].pages = 0
    BY <1>3, <2>2 DEF VerdictHasEvidence, OrUnknown
  <2>3. CASE /\ crawl[c].status # ""
             /\ \E v \in During(crawl[c].began, now) : Bears(v, crawl[c].status)
    <3>1. stored'.status = crawl[c].status
      BY <1>3, <2>3 DEF OrUnknown
    <3>2. PICK begin, end : begin = stored'.began /\ end = stored'.ended
      OBVIOUS
    <3>3. PICK v \in During(begin, end) : Bears(v, stored'.status)
      BY <1>3, <2>3, <3>1, <3>2
    <3>4. v \in During(stored.began, stored.ended)'
      BY <1>1, <3>2, <3>3 DEF During
    <3>5. QED
      BY <3>3, <3>4 DEF VerdictHasEvidence, Bears, NotAPage, Warrants, Says
  <2>4. QED
    BY <2>1, <2>2, <2>3
<1>9. QED
  BY <1>4, <1>5, <1>6, <1>7, <1>8 DEF CrawlInv

LEMMA Stops ==
    ASSUME CrawlInv, NEW c \in Crawler, GiveUp(c) \/ SaveFails(c)
    PROVE  CrawlInv'
BY StepOf DEF GiveUp, SaveFails

-----------------------------------------------------------------------------
(* The site and the clock.                                                  *)

LEMMA SiteStep ==
    ASSUME CrawlInv, SiteChanges
    PROVE  CrawlInv'
<1>1. PICK v \in Version : site' = Append(site, [is |-> v, from |-> now])
  BY DEF SiteChanges
<1>2. now' = now /\ crawl' = crawl /\ stored' = stored /\ History /\ now \in Nat
  BY DEF SiteChanges, CrawlInv, History
<1>3. History'
  <2>1. PICK e : e = [is |-> v, from |-> now]
    OBVIOUS
  <2>2. PICK S : S = [is : Version, from : Nat]
    OBVIOUS
  <2>3. e \in S /\ e.from = now
    BY <1>2, <2>1, <2>2
  <2>4. site \in Seq(S) /\ site' = Append(site, e)
    BY <1>1, <1>2, <2>1, <2>2 DEF History
  <2>5. /\ site' \in Seq(S) /\ site' # <<>>
        /\ \A n \in DOMAIN site' : site'[n] = e \/ (n \in DOMAIN site /\ site'[n] = site[n])
    BY <2>3, <2>4
  <2>6. \A n \in DOMAIN site' : site'[n].from <= now
    BY <1>2, <2>3, <2>5 DEF History
  <2>7. QED
    BY <1>2, <2>2, <2>5, <2>6 DEF History
<1>4. ASSUME NEW begin \in Nat, begin <= now, NEW end
      PROVE  During(begin, end) \subseteq During(begin, end)'
  BY <1>1, <1>2, <1>4, GrownDuring
<1>5. ASSUME NEW c \in Crawler, Paced(crawl[c]), Judged(crawl[c])
      PROVE  Paced(crawl[c])' /\ Judged(crawl[c])'
  <2>1. Paced(crawl[c])'
    BY <1>2, <1>5 DEF Paced, PacedAt, Cost, Early, Asking
  <2>2. PICK begin, end : begin = crawl[c].began /\ end = now
    OBVIOUS
  <2>3. begin \in Nat /\ begin <= now
    BY <1>2, <1>5, <2>2, PaceOf DEF Paced
  <2>4. \A w \in During(begin, end) : w \in During(begin, end)'
    BY <1>4, <2>3
  <2>5. Judged(crawl[c])'
    <3>1. \A w \in During(crawl[c].began, now) : w \in During(crawl[c].began, now)'
      BY <1>2, <2>2, <2>4 DEF During
    <3>2. QED
      BY <1>2, <1>5, <3>1 DEF Judged
  <2>6. QED
    BY <2>1, <2>5
<1>6. Kept'
  BY <1>2 DEF CrawlInv, Kept
<1>7. VerdictHasEvidence'
  <2>1. CASE stored = Idle
    BY <1>2, <2>1 DEF VerdictHasEvidence
  <2>2. CASE stored # Idle
    <3>1. PICK begin, end : begin = stored.began /\ end = stored.ended
      OBVIOUS
    <3>2. begin \in Nat /\ begin <= now
      BY <1>2, <2>2, <3>1 DEF CrawlInv, Kept
    <3>3. \A w \in During(begin, end) : w \in During(begin, end)'
      BY <1>4, <3>2
    <3>4. QED
      <4>1. \A w \in During(stored.began, stored.ended) : w \in During(stored.began, stored.ended)'
        BY <1>2, <3>1, <3>3 DEF During
      <4>2. QED
        BY <1>2, <2>2, <4>1 DEF CrawlInv, VerdictHasEvidence
  <2>3. QED
    BY <2>1, <2>2
<1>8. QED
  BY <1>2, <1>3, <1>5, <1>6, <1>7 DEF CrawlInv

\* Time passes only while a crawl has time left for what it waits for.
LEMMA TickStep ==
    ASSUME CrawlInv, Tick
    PROVE  CrawlInv'
<1>1. /\ now' = now + 1 /\ site' = site /\ crawl' = crawl /\ stored' = stored
      /\ \A c \in Crawler : Busy(c) => now < LastTick(c)
  BY DEF Tick
<1>2. History /\ now \in Nat
  BY DEF CrawlInv, History
<1>3. History'
  <2>1. \A n \in DOMAIN site : site[n].from \in Nat
    BY <1>2, Versions
  <2>2. QED
    BY <1>1, <1>2, <2>1 DEF History
<1>4. ASSUME NEW begin, NEW end \in Nat, NEW later \in Nat, end <= later
      PROVE  During(begin, end) \subseteq During(begin, later)
  BY <1>2, <1>4, LongerDuring
<1>5. ASSUME NEW c \in Crawler, Paced(crawl[c]), Judged(crawl[c])
      PROVE  Paced(crawl[c])' /\ Judged(crawl[c])'
  <2>1. crawl[c].began \in Nat /\ crawl[c].since \in Nat /\ crawl[c].at \in Stage
    BY <1>5, PaceOf DEF Paced
  <2>2. Busy(c)
    BY <2>1 DEF Busy, Stage
  <2>3. now < LastTick(c)
    BY <1>1, <2>2
  <2>4. /\ crawl[c].at \in {"ask", "answered", "landing", "page", "delay"}
        /\ now < crawl[c].began + JobTimeout
        /\ crawl[c].at \in {"ask", "answered", "landing", "page"} =>
              now < crawl[c].since + Timeout
        /\ crawl[c].at = "delay" => now < crawl[c].since + Delay
    <3>1. CASE crawl[c].at \in {"ask", "answered", "landing", "page"}
      BY <1>2, <2>1, <2>3, <3>1, Times DEF LastTick
    <3>2. CASE crawl[c].at = "delay"
      BY <1>2, <2>1, <2>3, <3>2, Times DEF LastTick
    <3>3. CASE crawl[c].at \notin {"ask", "answered", "landing", "page", "delay"}
      BY <1>2, <2>3, <3>3 DEF LastTick
    <3>4. QED
      BY <3>1, <3>2, <3>3
  <2>5. Paced(crawl[c])'
    <3>1. PacedAt(crawl[c].at, crawl[c].began, crawl[c].since, crawl[c].pages, now + 1)
      BY <1>5, <2>4, PacedTick DEF Paced
    <3>2. QED
      BY <1>1, <1>5, <3>1 DEF Paced, PacedAt, Cost, Early, Asking
  <2>6. Judged(crawl[c])'
    <3>1. PICK begin, end : begin = crawl[c].began /\ end = now
      OBVIOUS
    <3>2. \A w \in During(begin, end) : w \in During(begin, end + 1)
      BY <1>2, <1>4, <3>1
    <3>3. CASE crawl[c].status \in {"", "unknown"} /\ crawl[c].pages = 0
      BY <1>1, <3>3 DEF Judged
    <3>4. CASE crawl[c].status = "down" /\ now >= crawl[c].began + JobTimeout
      BY <1>2, <2>1, <2>4, <3>4, Times
    <3>5. CASE crawl[c].at \in {"delay", "page", "save"} =>
                  /\ crawl[c].status # ""
                  /\ \E v \in During(crawl[c].began, now) : Bears(v, crawl[c].status)
      <4>1. \A w \in During(crawl[c].began, now) : w \in During(crawl[c].began, now)'
        BY <1>1, <3>1, <3>2 DEF During
      <4>2. QED
        BY <1>1, <3>5, <4>1 DEF Judged
    <3>6. QED
      BY <1>5, <3>3, <3>4, <3>5 DEF Judged
  <2>7. QED
    BY <2>5, <2>6
<1>6. Kept'
  BY <1>1, <1>2 DEF CrawlInv, Kept
<1>7. VerdictHasEvidence'
  BY <1>1 DEF CrawlInv, VerdictHasEvidence, During
<1>8. QED
  BY <1>1, <1>3, <1>5, <1>6, <1>7 DEF CrawlInv

-----------------------------------------------------------------------------
LEMMA InitialState == Init => CrawlInv
<1> SUFFICES ASSUME Init PROVE CrawlInv
  OBVIOUS
<1>1. PICK v \in Version : site = <<[is |-> v, from |-> 0]>>
  BY DEF Init
<1>2. now = 0 /\ crawl = [c \in Crawler |-> Idle] /\ stored = Idle
  BY DEF Init
<1>3. History
  <2>1. PICK e : e = [is |-> v, from |-> 0]
    OBVIOUS
  <2>2. PICK S : S = [is : Version, from : Nat]
    OBVIOUS
  <2>3. e \in S /\ e.from = 0 /\ site = <<e>>
    BY <1>1, <2>1, <2>2
  <2>4. site \in Seq(S) /\ site # <<>> /\ \A n \in DOMAIN site : site[n] = e
    BY <2>3
  <2>5. QED
    BY <1>2, <2>2, <2>3, <2>4 DEF History
<1>4. QED
  BY <1>2, <1>3 DEF CrawlInv, Kept, VerdictHasEvidence

LEMMA StepInv == CrawlInv /\ [Next]_vars => CrawlInv'
<1> SUFFICES ASSUME CrawlInv, [Next]_vars PROVE CrawlInv'
  OBVIOUS
<1>1. ASSUME NEW c \in Crawler, Looks(c) PROVE CrawlInv'
  <2>1. CASE StoreRobots(c)
    BY <2>1, Deciding DEF StoreRobots
  <2>2. QED
    BY <1>1, <2>1, Begins, LooksUp, Answers, RobotsFailing DEF Looks
<1>2. ASSUME NEW c \in Crawler, Fetches(c) PROVE CrawlInv'
  BY <1>2, LandingSteps, Waits, Pages, Saves, Stops DEF Fetches
<1>3. CASE UNCHANGED vars
  <2>1. now' = now /\ site' = site /\ crawl' = crawl /\ stored' = stored
    BY <1>3 DEF vars
  <2>2. History' /\ Kept' /\ VerdictHasEvidence'
    <3>1. History' /\ Kept'
      BY <2>1 DEF CrawlInv, History, Kept
    <3>2. VerdictHasEvidence'
      BY <2>1, SameDuring DEF CrawlInv, VerdictHasEvidence
    <3>3. QED
      BY <3>1, <3>2
  <2>3. ASSUME NEW c \in Crawler, Paced(crawl[c]) PROVE Paced(crawl[c])'
    BY <2>1, <2>3 DEF Paced, PacedAt, Cost, Early, Asking
  <2>4. ASSUME NEW c \in Crawler, Judged(crawl[c]) PROVE Judged(crawl[c])'
    BY <2>1, <2>4 DEF Judged, During
  <2>5. QED
    BY <2>1, <2>2, <2>3, <2>4 DEF CrawlInv
<1>4. QED
  BY <1>1, <1>2, <1>3, SiteStep, TickStep DEF Next

-----------------------------------------------------------------------------
\* The invariant holds of every behaviour: where a crawl stands after so much
\* time, and what its verdict rests on so far.
THEOREM CrawlInvariant == Spec => []CrawlInv
BY InitialState, StepInv, PTL DEF Spec

\* A stored verdict was shown by the site while the crawl lasted (classify, and
\* the deadline that a crawl's job puts on it), or is "down" of an answer that was
\* no HTML page.
THEOREM EvidenceOfVerdict == Spec => []VerdictHasEvidence
<1>1. CrawlInv => VerdictHasEvidence
  BY DEF CrawlInv
<1>2. QED
  BY <1>1, CrawlInvariant, PTL

\* No host can hold a crawl: it is over when its job's time is, and earlier when
\* its fetches and delays are, whatever the timeouts and the number of pages.
THEOREM CrawlEndsInTime == Spec => []CrawlIsBounded
<1>1. CrawlInv => CrawlIsBounded
  <2> SUFFICES ASSUME CrawlInv, NEW c \in Crawler, Busy(c)
               PROVE  /\ now - crawl[c].began <= JobTimeout
                      /\ now - crawl[c].began <=
                            Timeout * (1 + crawl[c].pages + 1) + Delay * (crawl[c].pages + 1)
    BY DEF CrawlIsBounded
  <2>1. Paced(crawl[c]) /\ now \in Nat
    BY At DEF Busy, CrawlInv, History
  <2>2. PICK p, began : p = crawl[c].pages /\ began = crawl[c].began
    OBVIOUS
  <2>3. p \in Nat /\ began \in Nat /\ now <= began + JobTimeout
    BY <2>1, <2>2, PaceOf DEF Paced
  <2>4. PICK cost : cost = Cost(p)
    OBVIOUS
  <2>5. PICK bound : bound = Timeout * (1 + p + 1) + Delay * (p + 1)
    OBVIOUS
  <2>6. cost \in Int /\ bound = cost + Timeout + Delay + Delay /\ (p # 0 => cost >= Timeout)
    BY <2>3, <2>4, <2>5, Costs
  <2>7. /\ p = 0 => now - began <= Timeout + Timeout
        /\ p # 0 => now - began <= cost + Delay + Timeout
    BY <2>1, <2>2, <2>4, <2>6, PacedBound DEF Paced
  <2>8. now - began <= JobTimeout /\ now - began <= bound
    <3>1. CASE p = 0
      <4>1. bound = Timeout + Timeout + Delay
        BY <2>5, <3>1, Times
      <4>2. QED
        BY <2>1, <2>3, <2>7, <3>1, <4>1, Times
    <3>2. CASE p # 0
      BY <2>1, <2>3, <2>6, <2>7, <3>2, Times
    <3>3. QED
      BY <3>1, <3>2
  <2>9. QED
    BY <2>2, <2>5, <2>8
<1>2. QED
  BY <1>1, CrawlInvariant, PTL

-----------------------------------------------------------------------------
(* What a robots.txt says, and which one a crawl goes by.                   *)

LEMMA Least ==
    ASSUME NEW S, S \subseteq Nat, S # {}
    PROVE  \E k \in S : \A m \in S : k <= m
<1> DEFINE Less == {ss \in Nat \X Nat : ss[1] < ss[2]}
<1>1. IsWellFoundedOn(Less, Nat)
  BY NatLessThanWellFounded DEF OpToRel
<1> HIDE DEF Less
<1>2. PICK k \in S : \A m \in S : ~ (<<m, k>> \in Less)
  BY <1>1, WFMin
<1>3. ASSUME NEW m \in S PROVE k <= m
  <2>1. k \in Nat /\ m \in Nat /\ <<m, k>> \in Nat \X Nat
    OBVIOUS
  <2>2. ~ (<<m, k>>[1] < <<m, k>>[2])
    BY <1>2, <2>1 DEF Less
  <2>3. QED
    BY <2>1, <2>2
<1>4. QED
  BY <1>3

\* A reading of the first m lines.
Reads(file, m, f) ==
    f = [n \in 0 .. m |-> IF n = 0 THEN Unread ELSE ReadLine(f[n - 1], file[n])]

LEMMA LongerReading ==
    ASSUME NEW file, NEW m \in Nat, NEW f, Reads(file, m, f)
    PROVE  \E g : Reads(file, m + 1, g)
<1> DEFINE g == [n \in 0 .. m + 1 |->
                   IF n = m + 1 THEN ReadLine(f[m], file[m + 1]) ELSE f[n]]
<1>1. ASSUME NEW n \in 0 .. m + 1
      PROVE  g[n] = IF n = 0 THEN Unread ELSE ReadLine(g[n - 1], file[n])
  <2>1. CASE n = 0
    BY <2>1 DEF Reads
  <2>2. CASE n = m + 1
    BY <2>2
  <2>3. CASE n # 0 /\ n # m + 1
    <3>1. n \in 0 .. m /\ n - 1 \in 0 .. m + 1 /\ n - 1 # m + 1
      BY <2>3
    <3>2. g[n] = f[n] /\ g[n - 1] = f[n - 1]
      BY <2>3, <3>1
    <3>3. f[n] = ReadLine(f[n - 1], file[n])
      BY <2>3, <3>1 DEF Reads
    <3>4. QED
      BY <2>3, <3>2, <3>3
  <2>4. QED
    BY <2>1, <2>2, <2>3
<1>2. g = [n \in 0 .. m + 1 |-> g[n]]
  OBVIOUS
<1> HIDE DEF g
<1>3. Reads(file, m + 1, g)
  BY <1>1, <1>2 DEF Reads
<1>4. QED
  BY <1>3

LEMMA EveryReading ==
    ASSUME NEW file, NEW m \in Nat
    PROVE  \E f : Reads(file, m, f)
<1> DEFINE Lacking == {n \in Nat : ~ \E f : Reads(file, n, f)}
<1> SUFFICES ASSUME Lacking # {} PROVE FALSE
  OBVIOUS
<1>1. PICK k \in Lacking : \A n \in Lacking : k <= n
  BY Least
<1>2. k # 0
  <2>1. Reads(file, 0, [n \in 0 .. 0 |-> Unread])
    BY DEF Reads
  <2>2. QED
    BY <2>1
<1>3. k - 1 \in Nat /\ k - 1 \notin Lacking
  BY <1>1, <1>2
<1>4. PICK f : Reads(file, k - 1, f)
  BY <1>3
<1>5. \E g : Reads(file, (k - 1) + 1, g)
  BY <1>3, <1>4, LongerReading
<1>6. (k - 1) + 1 = k
  BY <1>3
<1>7. QED
  BY <1>1, <1>5, <1>6

\* The lines are read one after another, from nothing.
LEMMA ReadingSteps ==
    ASSUME NEW file, Len(file) \in Nat
    PROVE  /\ ReadTo(file)[0] = Unread
           /\ \A n \in Nat : n < Len(file) =>
                 ReadTo(file)[n + 1] = ReadLine(ReadTo(file)[n], file[n + 1])
<1>1. PICK m : m = Len(file)
  OBVIOUS
<1>2. PICK f : f = ReadTo(file)
  OBVIOUS
<1>3. f = CHOOSE g : Reads(file, m, g)
  BY <1>1, <1>2 DEF ReadTo, Reads
<1>4. Reads(file, m, f)
  BY <1>1, <1>3, EveryReading
<1>5. \A n \in 0 .. m : f[n] = IF n = 0 THEN Unread ELSE ReadLine(f[n - 1], file[n])
  BY <1>4 DEF Reads
<1>6. f[0] = Unread
  BY <1>1, <1>5
<1>7. ASSUME NEW n \in Nat, n < m PROVE f[n + 1] = ReadLine(f[n], file[n + 1])
  <2>1. n + 1 \in 0 .. m /\ n + 1 # 0 /\ (n + 1) - 1 = n
    BY <1>1, <1>7
  <2>2. QED
    BY <1>5, <2>1
<1>8. QED
  BY <1>1, <1>2, <1>6, <1>7

\* The rules among the first n lines, and whether the next one is for us.
OursAt(file, n) ==
    \E k \in 1 .. n :
        /\ file[k].key = "agent" /\ file[k].value \in {"us", "*"}
        /\ \A j \in k + 1 .. n : file[j].key # "agent"
RulesTo(file, key, n) == {file[m].value : m \in {m \in 1 .. n : file[m].key = key /\ OursByLast(file, m)}}

ReadAt(file, n) ==
    LET read == ReadTo(file)[n]
    IN /\ DOMAIN read = {"applies", "allow", "disallow"}
       /\ read.applies = OursAt(file, n)
       /\ read.allow = RulesTo(file, "allow", n)
       /\ read.disallow = RulesTo(file, "disallow", n)

LEMMA FileLines ==
    ASSUME NEW file \in Seq(Line)
    PROVE  /\ Len(file) \in Nat /\ DOMAIN file = 1 .. Len(file)
           /\ \A n \in 1 .. Len(file) :
                 /\ file[n].key \in {"agent", "allow", "disallow"}
                 /\ file[n].key = "agent" => file[n].value \in {"us", "*", "other"}
                 /\ file[n].key # "agent" => file[n].value \in Int
<1>1. Len(file) \in Nat /\ DOMAIN file = 1 .. Len(file)
  OBVIOUS
<1>2. \A n \in 1 .. Len(file) : file[n] \in Line
  OBVIOUS
<1>3. \A line \in Line :
         /\ line.key \in {"agent", "allow", "disallow"}
         /\ line.key = "agent" => line.value \in {"us", "*", "other"}
         /\ line.key # "agent" => line.value \in Int
  BY DEF Line, Elsewhere
<1>4. QED
  BY <1>1, <1>2, <1>3

LEMMA OursNext ==
    ASSUME NEW file, NEW n \in Nat
    PROVE  /\ file[n + 1].key = "agent" =>
                 OursAt(file, n + 1) = (file[n + 1].value \in {"us", "*"})
           /\ file[n + 1].key # "agent" =>
                 OursAt(file, n + 1) = OursAt(file, n) /\ OursByLast(file, n + 1) = OursAt(file, n)
<1>1. PICK us : us = {"us", "*"}
  OBVIOUS
<1>2. CASE file[n + 1].key = "agent"
  <2>1. ASSUME OursAt(file, n + 1) PROVE file[n + 1].value \in us
    <3>1. PICK k \in 1 .. n + 1 :
             /\ file[k].value \in us
             /\ \A j \in k + 1 .. n + 1 : file[j].key # "agent"
      BY <1>1, <2>1 DEF OursAt
    <3>2. k = n + 1
      BY <1>2, <3>1
    <3>3. QED
      BY <3>1, <3>2
  <2>2. ASSUME file[n + 1].value \in us PROVE OursAt(file, n + 1)
    <3>1. n + 1 \in 1 .. n + 1 /\ (n + 1) + 1 .. n + 1 = {}
      OBVIOUS
    <3>2. QED
      BY <1>1, <1>2, <2>2, <3>1 DEF OursAt
  <2>3. OursAt(file, n + 1) \in BOOLEAN
    BY DEF OursAt
  <2>4. QED
    BY <1>1, <1>2, <2>1, <2>2, <2>3
<1>3. CASE file[n + 1].key # "agent"
  <2>1. \A k \in 1 .. n :
           (\A j \in k + 1 .. n + 1 : file[j].key # "agent")
             <=> (\A j \in k + 1 .. n : file[j].key # "agent")
    BY <1>3
  <2>2. OursAt(file, n + 1) = OursAt(file, n)
    BY <1>3, <2>1 DEF OursAt
  <2>3. (n + 1) - 1 = n
    OBVIOUS
  <2>4. OursByLast(file, n + 1) = OursAt(file, n)
    BY <2>1, <2>3 DEF OursByLast, Named, OursAt
  <2>5. QED
    BY <1>3, <2>2, <2>4
<1>4. QED
  BY <1>2, <1>3

LEMMA RulesNext ==
    ASSUME NEW file, NEW n \in Nat, NEW key
    PROVE  RulesTo(file, key, n + 1) =
             RulesTo(file, key, n)
               \union IF file[n + 1].key = key /\ OursByLast(file, n + 1)
                      THEN {file[n + 1].value} ELSE {}
<1>1. \A m : m \in 1 .. n + 1 <=> m \in 1 .. n \/ m = n + 1
  OBVIOUS
<1>2. QED
  BY <1>1 DEF RulesTo

LEMMA ReadNext ==
    ASSUME NEW file \in Seq(Line), NEW n \in Nat, n < Len(file), ReadAt(file, n)
    PROVE  ReadAt(file, n + 1)
<1>1. PICK read, next, line :
         read = ReadTo(file)[n] /\ next = ReadTo(file)[n + 1] /\ line = file[n + 1]
  OBVIOUS
<1>2. /\ DOMAIN read = {"applies", "allow", "disallow"}
      /\ read.applies = OursAt(file, n)
      /\ read.allow = RulesTo(file, "allow", n)
      /\ read.disallow = RulesTo(file, "disallow", n)
  BY <1>1 DEF ReadAt
<1>3. n + 1 \in 1 .. Len(file) /\ line.key \in {"agent", "allow", "disallow"}
  <2>1. n + 1 \in 1 .. Len(file)
    BY FileLines
  <2>2. QED
    BY <1>1, <2>1, FileLines
<1>4. next = ReadLine(read, line)
  BY <1>1, FileLines, ReadingSteps
<1>5. /\ line.key = "agent" => OursAt(file, n + 1) = (line.value \in {"us", "*"})
      /\ line.key # "agent" =>
            OursAt(file, n + 1) = OursAt(file, n) /\ OursByLast(file, n + 1) = OursAt(file, n)
  BY <1>1, OursNext
<1>6. \A key : RulesTo(file, key, n + 1) =
         RulesTo(file, key, n)
           \union IF line.key = key /\ OursByLast(file, n + 1) THEN {line.value} ELSE {}
  BY <1>1, RulesNext
<1>7. OursAt(file, n) \in BOOLEAN
  BY DEF OursAt
<1>8. /\ DOMAIN next = {"applies", "allow", "disallow"}
      /\ next.applies = OursAt(file, n + 1)
      /\ next.allow = RulesTo(file, "allow", n + 1)
      /\ next.disallow = RulesTo(file, "disallow", n + 1)
  <2>1. CASE line.key = "agent"
    <3>1. next = [read EXCEPT !.applies = line.value \in {"us", "*"}]
      BY <1>4, <2>1 DEF ReadLine
    <3>2. /\ RulesTo(file, "allow", n + 1) = RulesTo(file, "allow", n)
          /\ RulesTo(file, "disallow", n + 1) = RulesTo(file, "disallow", n)
      BY <1>6, <2>1
    <3>3. QED
      BY <1>2, <1>5, <2>1, <3>1, <3>2
  <2>2. CASE line.key # "agent" /\ ~read.applies
    <3>1. next = read /\ ~OursByLast(file, n + 1) /\ OursAt(file, n + 1) = OursAt(file, n)
      BY <1>2, <1>4, <1>5, <2>2 DEF ReadLine
    <3>2. /\ RulesTo(file, "allow", n + 1) = RulesTo(file, "allow", n)
          /\ RulesTo(file, "disallow", n + 1) = RulesTo(file, "disallow", n)
      BY <1>6, <3>1
    <3>3. QED
      BY <1>2, <3>1, <3>2
  <2>3. CASE line.key = "allow" /\ read.applies
    <3>1. /\ next = [read EXCEPT !.allow = read.allow \union {line.value}]
          /\ OursByLast(file, n + 1) /\ OursAt(file, n + 1) = OursAt(file, n)
      BY <1>2, <1>4, <1>5, <2>3 DEF ReadLine
    <3>2. /\ RulesTo(file, "allow", n + 1) = RulesTo(file, "allow", n) \union {line.value}
          /\ RulesTo(file, "disallow", n + 1) = RulesTo(file, "disallow", n)
      BY <1>6, <2>3, <3>1
    <3>3. QED
      BY <1>2, <3>1, <3>2
  <2>4. CASE line.key = "disallow" /\ read.applies
    <3>1. /\ next = [read EXCEPT !.disallow = read.disallow \union {line.value}]
          /\ OursByLast(file, n + 1) /\ OursAt(file, n + 1) = OursAt(file, n)
      BY <1>2, <1>4, <1>5, <2>4 DEF ReadLine
    <3>2. /\ RulesTo(file, "disallow", n + 1) = RulesTo(file, "disallow", n) \union {line.value}
          /\ RulesTo(file, "allow", n + 1) = RulesTo(file, "allow", n)
      BY <1>6, <2>4, <3>1
    <3>3. QED
      BY <1>2, <3>1, <3>2
  <2>5. QED
    BY <1>3, <2>1, <2>2, <2>3, <2>4
<1>9. QED
  BY <1>1, <1>8 DEF ReadAt

\* What is kept of a robots.txt is the rules whose last agent line names us.
LEMMA ParseReads ==
    ASSUME NEW file \in Seq(Line)
    PROVE  /\ Parse(file).allow = RulesTo(file, "allow", Len(file))
           /\ Parse(file).disallow = RulesTo(file, "disallow", Len(file))
<1>1. ReadAt(file, 0)
  <2>1. ReadTo(file)[0] = [applies |-> FALSE, allow |-> {}, disallow |-> {}]
    BY FileLines, ReadingSteps DEF Unread
  <2>2. ~OursAt(file, 0) /\ OursAt(file, 0) \in BOOLEAN
    BY DEF OursAt
  <2>3. RulesTo(file, "allow", 0) = {} /\ RulesTo(file, "disallow", 0) = {}
    BY DEF RulesTo
  <2>4. PICK read : read = ReadTo(file)[0]
    OBVIOUS
  <2>5. /\ DOMAIN read = {"applies", "allow", "disallow"}
        /\ read.applies = FALSE /\ read.allow = {} /\ read.disallow = {}
    BY <2>1, <2>4
  <2>6. QED
    BY <2>2, <2>3, <2>4, <2>5 DEF ReadAt
<1>2. ReadAt(file, Len(file))
  <2> DEFINE Unlike == {n \in 0 .. Len(file) : ~ReadAt(file, n)}
  <2> SUFFICES ASSUME Unlike # {} PROVE FALSE
    BY FileLines
  <2>1. Unlike \subseteq Nat
    BY FileLines
  <2>2. PICK k \in Unlike : \A n \in Unlike : k <= n
    BY <2>1, Least
  <2>3. k \in Nat /\ k # 0 /\ k <= Len(file)
    BY <1>1, <2>2, FileLines
  <2>4. k - 1 \in Nat /\ k - 1 < Len(file) /\ (k - 1) + 1 = k /\ k - 1 \notin Unlike
    BY <2>2, <2>3, FileLines
  <2>5. ReadAt(file, k - 1)
    BY <2>3, <2>4, FileLines
  <2>6. ReadAt(file, k)
    BY <2>4, <2>5, ReadNext
  <2>7. QED
    BY <2>2, <2>6
<1>3. QED
  BY <1>2 DEF ReadAt, Parse

\* The longest match over what was kept is what the file says of us, when none of
\* its rules is overlooked.
LEMMA SaysWhatItSays ==
    ASSUME NEW v \in Version, v.robots.up, ~Overlooked(v)
    PROVE  KeepsOut(v) <=> ~Allowed(Parse(v.robots.file))
<1>1. PICK file : file = v.robots.file
  OBVIOUS
<1>2. file \in Seq(Line)
  BY <1>1, VersionAssumption
<1>3. PICK allow, disallow :
         allow = Parse(file).allow /\ disallow = Parse(file).disallow
  OBVIOUS
<1>4. /\ allow = RulesTo(file, "allow", Len(file))
      /\ disallow = RulesTo(file, "disallow", Len(file))
  BY <1>2, <1>3, ParseReads
<1>5. /\ DOMAIN file = 1 .. Len(file)
      /\ \A n \in DOMAIN file : file[n].key # "agent" => file[n].value \in Int
  BY <1>2, FileLines
<1>6. ~Allowed(Parse(file)) <=>
         \E d \in disallow : d > 0 /\ \A a \in allow : ~(a >= d)
  BY <1>3 DEF Allowed
<1>7. (\E d \in disallow : d > 0 /\ \A a \in allow : ~(a >= d)) <=>
         \E m \in DOMAIN file :
            /\ file[m].key = "disallow" /\ OursByLast(file, m) /\ file[m].value > 0
            /\ \A a \in allow : ~(a >= file[m].value)
  BY <1>4, <1>5 DEF RulesTo
<1>8. ASSUME NEW m \in DOMAIN file, file[m].key = "disallow"
      PROVE  (\A a \in allow : ~(a >= file[m].value)) <=>
               \A n \in DOMAIN file : file[n].key = "allow" /\ OursByLast(file, n) =>
                  file[n].value < file[m].value
  <2>1. (\A a \in allow : ~(a >= file[m].value)) <=>
           \A n \in DOMAIN file : file[n].key = "allow" /\ OursByLast(file, n) =>
              ~(file[n].value >= file[m].value)
    BY <1>4, <1>5 DEF RulesTo
  <2>2. \A n \in DOMAIN file : file[n].key = "allow" =>
           file[n].value \in Int /\ file[m].value \in Int
    BY <1>5, <1>8
  <2>3. QED
    BY <2>1, <2>2
<1>9. ASSUME NEW m \in DOMAIN file, file[m].key # "agent"
      PROVE  Ours(file, m) <=> OursByLast(file, m)
  <2>1. Ours(file, m) => OursByLast(file, m)
    BY <1>1, <1>9 DEF Overlooked
  <2>2. OursByLast(file, m) => Ours(file, m)
    BY DEF Ours, OursByLast
  <2>3. QED
    BY <2>1, <2>2
<1>10. KeepsOut(v) <=>
         \E m \in DOMAIN file :
            /\ file[m].key = "disallow" /\ Ours(file, m) /\ file[m].value > 0
            /\ \A n \in DOMAIN file : file[n].key = "allow" /\ Ours(file, n) =>
                  file[n].value < file[m].value
  BY <1>1 DEF KeepsOut
<1>11. KeepsOut(v) <=>
         \E m \in DOMAIN file :
            /\ file[m].key = "disallow" /\ OursByLast(file, m) /\ file[m].value > 0
            /\ \A n \in DOMAIN file : file[n].key = "allow" /\ OursByLast(file, n) =>
                  file[n].value < file[m].value
  BY <1>9, <1>10
<1>12. QED
  BY <1>1, <1>6, <1>7, <1>8, <1>11

-----------------------------------------------------------------------------
\* An entry that the site served at a time, parsed within a fetch of it.
Sourced(e) ==
    /\ DOMAIN e = {"rules", "served", "fetchedAt"}
    /\ e.served \in Nat /\ e.fetchedAt \in Nat
    /\ e.served <= e.fetchedAt /\ e.fetchedAt <= now
    /\ e.fetchedAt <= e.served + Timeout
    /\ \E v \in During(e.served, e.served) :
          v.robots.up /\ e.rules = Parse(v.robots.file)

Past == {"landing", "delay", "page", "save"}
KeptOut(r) == r.at = "save" /\ r.pages = 0

\* What a crawl goes by was served since it asked, or in the hour of the cache
\* and the fetch before it; past the decision, that is what it decided by.
Ruled(r) ==
    \/ r.rules = Idle /\ r.at \notin {"answered", "store robots"}
    \/ /\ Sourced(r.rules)
       /\ r.at = "answered" => r.since <= r.rules.served
       /\ r.at = "store robots" => r.rules.fetchedAt = now
       /\ r.at \in Past =>
             /\ r.began < r.rules.served + TTL + Timeout
             /\ Allowed(r.rules.rules) <=> ~KeptOut(r)
       /\ r.at \in Past /\ r.pages = 0 =>
             r.rules.served <= r.since /\ r.since < r.rules.served + TTL + Timeout

RuleInv ==
    /\ \A c \in Crawler : crawl[c] = Idle \/ Ruled(crawl[c])
    /\ cache = Idle \/ Sourced(cache)
    /\ KeptOutStaysOut

LEMMA Hour == TTL \in Nat /\ TTL > 0 /\ Timeout \in Nat /\ Timeout > 0
BY TimeAssumption

LEMMA SourcedTimes ==
    ASSUME now \in Nat, NEW e, Sourced(e)
    PROVE  /\ e.served \in Nat /\ e.fetchedAt \in Nat /\ e.served <= e.fetchedAt
           /\ e.fetchedAt <= now /\ e.served <= now /\ e.fetchedAt <= e.served + Timeout
BY DEF Sourced

LEMMA WiderDuring ==
    ASSUME History, NEW begin \in Int, NEW b \in Int, NEW e \in Int, NEW end \in Int,
           begin <= b, e <= end
    PROVE  During(b, e) \subseteq During(begin, end)
<1>1. ASSUME NEW n \in DOMAIN site
      PROVE  /\ site[n].from <= e => site[n].from <= end
             /\ n < Len(site) /\ site[n + 1].from >= b => site[n + 1].from >= begin
  <2>1. site[n].from \in Nat /\ n \in Nat
    BY Versions
  <2>2. n < Len(site) => site[n + 1].from \in Nat
    BY Versions
  <2>3. QED
    BY <2>1, <2>2
<1>2. QED
  BY <1>1 DEF During

\* The site was served as a version of it.
LEMMA DuringVersion ==
    ASSUME History, NEW begin, NEW end
    PROVE  During(begin, end) \subseteq Version
BY Versions DEF During

\* What was true of a time stays true as the site changes and time passes.
LEMMA PastStays ==
    ASSUME History, NEW begin \in Int, NEW end, begin <= now,
           \/ site' = site
           \/ \E v \in Version : site' = Append(site, [is |-> v, from |-> now])
    PROVE  \A w \in During(begin, end) : w \in During(begin, end)'
<1>1. CASE site' = site
  BY <1>1 DEF During
<1>2. CASE \E v \in Version : site' = Append(site, [is |-> v, from |-> now])
  <2>1. PICK v \in Version : site' = Append(site, [is |-> v, from |-> now])
    BY <1>2
  <2>2. During(begin, end) \subseteq During(begin, end)'
    BY <2>1, GrownDuring
  <2>3. QED
    BY <2>2
<1>3. QED
  BY <1>1, <1>2

LEMMA SourcedStays ==
    ASSUME History, NEW e, Sourced(e), now' \in Nat, now <= now',
           \/ site' = site
           \/ \E v \in Version : site' = Append(site, [is |-> v, from |-> now])
    PROVE  Sourced(e)'
<1>1. PICK served : served = e.served
  OBVIOUS
<1>2. /\ e.fetchedAt \in Nat /\ served \in Nat /\ served <= e.fetchedAt
      /\ e.fetchedAt <= now /\ now \in Nat
  BY <1>1 DEF Sourced, History
<1>3. PICK v \in During(served, served) : v.robots.up /\ e.rules = Parse(v.robots.file)
  BY <1>1 DEF Sourced
<1>4. v \in During(served, served)'
  <2>1. served \in Int /\ served <= now
    BY <1>2
  <2>2. \A w \in During(served, served) : w \in During(served, served)'
    BY <2>1, PastStays
  <2>3. QED
    BY <1>3, <2>2
<1>5. v \in During(e.served, e.served)'
  BY <1>1, <1>4 DEF During
<1>6. e.fetchedAt <= now'
  BY <1>2
<1>7. QED
  BY <1>3, <1>5, <1>6 DEF Sourced

LEMMA RuledStays ==
    ASSUME History, NEW r, Ruled(r), now' \in Nat, now <= now',
           now' = now \/ r.at # "store robots",
           \/ site' = site
           \/ \E v \in Version : site' = Append(site, [is |-> v, from |-> now])
    PROVE  Ruled(r)'
<1>1. CASE r.rules = Idle /\ r.at \notin {"answered", "store robots"}
  BY <1>1 DEF Ruled
<1>2. CASE Sourced(r.rules)
  <2>1. PICK e : e = r.rules
    OBVIOUS
  <2>2. Sourced(e)'
    BY <1>2, <2>1, SourcedStays
  <2>3. Sourced(r.rules)'
    BY <2>1, <2>2 DEF Sourced, During
  <2>4. Ruled(r) => (r.at = "store robots" => r.rules.fetchedAt = now')
    BY <1>2 DEF Ruled, Sourced, Idle
  <2>5. CASE r.rules = Idle /\ r.at \notin {"answered", "store robots"}
    BY <2>5 DEF Ruled
  <2>6. CASE ~(r.rules = Idle /\ r.at \notin {"answered", "store robots"})
    BY <2>3, <2>4, <2>6 DEF Ruled, KeptOut, Past
  <2>7. QED
    BY <2>5, <2>6
<1>3. QED
  BY <1>1, <1>2 DEF Ruled

LEMMA RuledSame ==
    ASSUME now' = now, site' = site, NEW r, Ruled(r)
    PROVE  Ruled(r)'
<1>1. Sourced(r.rules) => Sourced(r.rules)'
  <2>1. \A t : During(t, t)' = During(t, t)
    BY SameDuring
  <2>2. QED
    BY <2>1 DEF Sourced
<1>2. QED
  BY <1>1 DEF Ruled, KeptOut

\* What is stored stays evidence.
LEMMA KeptOutStays ==
    ASSUME History, Kept, KeptOutStaysOut, stored' = stored,
           \/ site' = site
           \/ \E v \in Version : site' = Append(site, [is |-> v, from |-> now])
    PROVE  KeptOutStaysOut'
<1>1. CASE stored # Idle /\ stored.pages > 0 /\ stored.rules # Idle
  <2>1. PICK began, ended : began = stored.began /\ ended = stored.ended
    OBVIOUS
  <2>2. began \in Nat /\ ended \in Nat /\ began <= now /\ now \in Nat
    BY <1>1, <2>1 DEF Kept, History
  <2>3. PICK begin : begin = began - TTL - Timeout + 1
    OBVIOUS
  <2>4. begin \in Int /\ begin <= now
    BY <2>2, <2>3, Hour
  <2>5. PICK v \in During(begin, ended) : ~KeepsOut(v) \/ Overlooked(v)
    BY <1>1, <2>1, <2>3 DEF KeptOutStaysOut, Consulted
  <2>6. v \in During(begin, ended)'
    BY <2>4, <2>5, PastStays
  <2>7. v \in Consulted(stored.began, stored.ended)'
    BY <2>1, <2>3, <2>6 DEF Consulted, During
  <2>8. (~KeepsOut(v) \/ Overlooked(v))'
    BY <2>5 DEF KeepsOut, Overlooked, Ours, OursByLast, Named
  <2>9. QED
    BY <2>7, <2>8 DEF KeptOutStaysOut
<1>2. CASE ~(stored # Idle /\ stored.pages > 0 /\ stored.rules # Idle)
  BY <1>2 DEF KeptOutStaysOut
<1>3. QED
  BY <1>1, <1>2

\* A step of one crawl, to a place with rules of its own.
LEMMA RuleStepOf ==
    ASSUME CrawlInv, RuleInv, NEW c \in Crawler, NEW r, Continues(c, r),
           r = Idle \/ Ruled(r), NEW e, cache' = e, e = Idle \/ Sourced(e)
    PROVE  RuleInv'
<1>1. /\ crawl' = [crawl EXCEPT ![c] = r]
      /\ now' = now /\ site' = site /\ stored' = stored
  BY DEF Continues
<1>2. /\ DOMAIN crawl' = Crawler /\ crawl'[c] = r
      /\ \A d \in Crawler \ {c} : crawl'[d] = crawl[d]
  BY <1>1 DEF CrawlInv
<1>3. History /\ Kept /\ now \in Nat
  BY DEF CrawlInv, History
<1>4. ASSUME NEW d \in Crawler PROVE crawl'[d] = Idle \/ Ruled(crawl[d])'
  <2>1. PICK s : s = crawl'[d]
    OBVIOUS
  <2>2. s = Idle \/ Ruled(s)
    BY <1>2, <2>1 DEF RuleInv
  <2>3. CASE Ruled(s)
    <3>1. Ruled(s)'
      BY <1>1, <1>3, <2>3, RuledStays
    <3>2. QED
      BY <2>1, <3>1 DEF Ruled, Sourced, During, KeptOut
  <2>4. QED
    BY <2>1, <2>2, <2>3
<1>5. cache' = Idle \/ Sourced(cache)'
  <2>1. CASE Sourced(e)
    <3>1. Sourced(e)'
      BY <1>1, <1>3, <2>1, SourcedStays
    <3>2. QED
      BY <3>1 DEF Sourced, During
  <2>2. QED
    BY <2>1
<1>6. KeptOutStaysOut'
  BY <1>1, <1>3, KeptOutStays DEF RuleInv
<1>7. QED
  BY <1>4, <1>5, <1>6 DEF RuleInv

LEMMA BeginsRuled ==
    ASSUME CrawlInv, RuleInv, NEW c \in Crawler, Begin(c)
    PROVE  RuleInv'
<1>1. PICK to : Continues(c, [at |-> to, began |-> now, since |-> now, rules |-> Idle,
                              status |-> "", pages |-> 0, links |-> <<>>])
                /\ to \in {"save", "robots", "landing"}
  <2>1. PICK url \in {"fine", "bad"} :
           Continues(c, [at |-> CASE url = "bad" -> "save"
                                  [] url = "fine" /\ RespectRobots -> "robots"
                                  [] OTHER -> "landing",
                         began |-> now, since |-> now, rules |-> Idle,
                         status |-> "", pages |-> 0, links |-> <<>>])
    BY DEF Begin
  <2>2. PICK to : to = CASE url = "bad" -> "save"
                         [] url = "fine" /\ RespectRobots -> "robots"
                         [] OTHER -> "landing"
    OBVIOUS
  <2>3. to \in {"save", "robots", "landing"}
    BY <2>2, TimeAssumption
  <2>4. QED
    BY <2>1, <2>2, <2>3
<1>2. PICK r : r = [at |-> to, began |-> now, since |-> now, rules |-> Idle,
                    status |-> "", pages |-> 0, links |-> <<>>]
  OBVIOUS
<1>3. Ruled(r)
  BY <1>1, <1>2 DEF Ruled
<1>4. PICK e : e = cache
  OBVIOUS
<1>5. cache' = e /\ (e = Idle \/ Sourced(e))
  BY <1>4 DEF Begin, RuleInv
<1>6. QED
  BY <1>1, <1>2, <1>3, <1>5, RuleStepOf

LEMMA Sooner ==
    ASSUME NEW began \in Nat, NEW t \in Nat, NEW served \in Nat,
           began <= t, t < served + TTL + Timeout
    PROVE  began < served + TTL + Timeout
BY Hour

\* A decision is made by rules of the hour before it.
LEMMA DecidesRuled ==
    ASSUME CrawlInv, RuleInv, NEW c \in Crawler, crawl[c].at \in {"robots", "store robots"},
           NEW entry, Sourced(entry), now < entry.served + TTL + Timeout,
           Decides(c, entry), NEW e, cache' = e, e = Idle \/ Sourced(e)
    PROVE  RuleInv'
<1>1. Paced(crawl[c]) /\ now \in Nat /\ crawl[c].at # "idle"
  BY At DEF CrawlInv, History
<1>2. crawl[c].pages = 0 /\ crawl[c].began \in Nat /\ crawl[c].began <= now
  <2>1. crawl[c].at \in Early
    BY DEF Early
  <2>2. PacedAt(crawl[c].at, crawl[c].began, crawl[c].since, crawl[c].pages, now)
    BY <1>1 DEF Paced
  <2>3. QED
    BY <2>1, <2>2, EarlyPace
<1>3. entry.served \in Nat /\ entry.served <= now
  BY <1>1, SourcedTimes
<1>4. PICK to : to = IF Allowed(entry.rules) THEN "landing" ELSE "save"
  OBVIOUS
<1>5. PICK g : g = Goes(c, to)
  OBVIOUS
<1>6. /\ DOMAIN g = Fields /\ g.at = to /\ g.since = now
      /\ g.began = crawl[c].began /\ g.pages = 0
  BY <1>1, <1>2, <1>5, Went
<1>7. PICK r : r = IF Allowed(entry.rules) THEN [g EXCEPT !.rules = entry]
                   ELSE [g EXCEPT !.rules = entry, !.status = "unknown"]
  OBVIOUS
<1>8. Continues(c, r)
  <2>1. CASE Allowed(entry.rules)
    BY <1>4, <1>5, <1>7, <2>1 DEF Decides
  <2>2. CASE ~Allowed(entry.rules)
    BY <1>4, <1>5, <1>7, <2>2 DEF Decides
  <2>3. QED
    BY <2>1, <2>2
<1>9. /\ r.at = to /\ r.since = now /\ r.began = crawl[c].began
      /\ r.pages = 0 /\ r.rules = entry
  <2>1. CASE Allowed(entry.rules)
    BY <1>6, <1>7, <2>1 DEF Fields
  <2>2. CASE ~Allowed(entry.rules)
    BY <1>6, <1>7, <2>2 DEF Fields
  <2>3. QED
    BY <2>1, <2>2
<1>10. Ruled(r)
  <2>1. Sourced(r.rules)
    BY <1>9
  <2>2. r.at \in {"landing", "save"}
    BY <1>4, <1>9
  <2>3. r.began < r.rules.served + TTL + Timeout
    <3>1. crawl[c].began < entry.served + TTL + Timeout
      BY <1>1, <1>2, <1>3, Sooner
    <3>2. QED
      BY <1>9, <3>1
  <2>4. r.rules.served <= r.since /\ r.since < r.rules.served + TTL + Timeout
    BY <1>3, <1>9
  <2>5. Allowed(r.rules.rules) <=> ~KeptOut(r)
    <3>1. Allowed(entry.rules) \in BOOLEAN
      BY DEF Allowed
    <3>2. QED
      BY <1>4, <1>9, <3>1 DEF KeptOut
  <2>6. QED
    BY <2>1, <2>2, <2>3, <2>4, <2>5 DEF Ruled
<1>11. QED
  BY <1>8, <1>10, RuleStepOf

LEMMA LooksUpRuled ==
    ASSUME CrawlInv, RuleInv, NEW c \in Crawler, Lookup(c)
    PROVE  RuleInv'
<1>1. PICK e : e = cache
  OBVIOUS
<1>2. cache' = e /\ (e = Idle \/ Sourced(e)) /\ crawl[c].at = "robots"
  BY <1>1 DEF Lookup, RuleInv
<1>3. CASE cache # Idle /\ Fresh(cache)
  <2>1. Sourced(e) /\ now - e.fetchedAt < TTL /\ Decides(c, e)
    BY <1>1, <1>2, <1>3 DEF Lookup, Fresh
  <2>2. now < e.served + TTL + Timeout
    <3>1. e.fetchedAt <= e.served + Timeout /\ e.fetchedAt \in Nat /\ e.served \in Nat
      BY <2>1 DEF Sourced
    <3>2. now \in Nat
      BY DEF CrawlInv, History
    <3>3. QED
      BY <2>1, <3>1, <3>2, Hour
  <2>3. QED
    BY <1>2, <2>1, <2>2, DecidesRuled
<1>4. CASE ~(cache # Idle /\ Fresh(cache))
  <2>1. Continues(c, Goes(c, "ask"))
    BY <1>4 DEF Lookup
  <2>2. PICK r : r = Goes(c, "ask")
    OBVIOUS
  <2>3. r.at = "ask" /\ r.rules = crawl[c].rules
    BY <1>2, <2>2, Went
  <2>4. crawl[c].rules = Idle \/ Sourced(crawl[c].rules)
    <3>1. crawl[c] # Idle
      BY <1>2, IdleAt
    <3>2. QED
      BY <3>1 DEF RuleInv, Ruled
  <2>5. Ruled(r)
    BY <2>3, <2>4 DEF Ruled, Past
  <2>6. QED
    BY <1>2, <2>1, <2>2, <2>5, RuleStepOf
<1>5. QED
  BY <1>3, <1>4

\* The server sends what is its robots.txt then, and it is parsed within a timeout.
LEMMA AnswersRuled ==
    ASSUME CrawlInv, RuleInv, NEW c \in Crawler, RobotsAnswered(c) \/ RobotsArrive(c)
    PROVE  RuleInv'
<1>1. PICK e : e = cache
  OBVIOUS
<1>2. cache' = e /\ (e = Idle \/ Sourced(e)) /\ crawl[c].at \in {"ask", "answered"}
  BY <1>1 DEF RobotsAnswered, RobotsArrive, RuleInv
<1>3. /\ Paced(crawl[c]) /\ DOMAIN crawl[c] = Fields /\ now \in Nat
      /\ History /\ crawl[c] # Idle
  BY <1>2, At, IdleAt DEF CrawlInv, History
<1>4. /\ crawl[c].since \in Nat /\ crawl[c].since <= now
      /\ now <= crawl[c].since + Timeout
  <2>1. crawl[c].at \in Asking
    BY <1>2 DEF Asking
  <2>2. now <= crawl[c].since + Timeout
    BY <1>3, <2>1 DEF Paced, PacedAt
  <2>3. QED
    BY <1>3, <2>2, PaceOf DEF Paced
<1>5. CASE RobotsAnswered(c)
  <2>1. PICK rules : rules = [rules |-> Parse(Site.robots.file),
                              served |-> now, fetchedAt |-> now]
    OBVIOUS
  <2>2. PICK r : r = [crawl[c] EXCEPT !.at = "answered", !.rules = rules]
    OBVIOUS
  <2>3. Continues(c, r) /\ Site.robots.up
    BY <1>5, <2>1, <2>2 DEF RobotsAnswered
  <2>4. r.at = "answered" /\ r.since = crawl[c].since /\ r.rules = rules
    BY <1>3, <2>2 DEF Fields
  <2>5. Site \in During(now, now)
    BY <1>3, SiteNow
  <2>6. Sourced(rules)
    <3>1. /\ DOMAIN rules = {"rules", "served", "fetchedAt"}
          /\ rules.rules = Parse(Site.robots.file)
          /\ rules.served = now /\ rules.fetchedAt = now
      BY <2>1
    <3>2. now <= now + Timeout
      BY <1>3, Hour
    <3>3. QED
      BY <1>3, <2>3, <2>5, <3>1, <3>2 DEF Sourced
  <2>7. Ruled(r)
    <3>1. rules.served = now
      BY <2>1
    <3>2. QED
      BY <1>4, <2>4, <2>6, <3>1 DEF Ruled, Past
  <2>8. QED
    BY <1>2, <2>3, <2>7, RuleStepOf
<1>6. CASE RobotsArrive(c)
  <2>1. PICK old : old = crawl[c].rules
    OBVIOUS
  <2>2. crawl[c].at = "answered" /\ Sourced(old) /\ crawl[c].since <= old.served
    BY <1>3, <1>6, <2>1 DEF RobotsArrive, RuleInv, Ruled
  <2>3. PICK rules : rules = [old EXCEPT !.fetchedAt = now]
    OBVIOUS
  <2>4. /\ DOMAIN rules = {"rules", "served", "fetchedAt"} /\ rules.rules = old.rules
        /\ rules.served = old.served /\ rules.fetchedAt = now
    BY <2>2, <2>3 DEF Sourced
  <2>5. Sourced(rules)
    <3>1. old.served \in Nat /\ old.served <= now
      BY <1>3, <2>2 DEF Sourced
    <3>2. now <= old.served + Timeout
      BY <1>3, <1>4, <2>2, <3>1, Hour
    <3>3. \E v \in During(old.served, old.served) :
             v.robots.up /\ old.rules = Parse(v.robots.file)
      BY <2>2 DEF Sourced
    <3>4. QED
      BY <1>3, <2>4, <3>1, <3>2, <3>3 DEF Sourced
  <2>6. PICK r : r = [crawl[c] EXCEPT !.at = "store robots", !.rules = rules]
    OBVIOUS
  <2>7. Continues(c, r)
    <3>1. Continues(c, [crawl[c] EXCEPT !.at = "store robots", !.rules.fetchedAt = now])
      BY <1>6 DEF RobotsArrive
    <3>2. r = [crawl[c] EXCEPT !.at = "store robots", !.rules.fetchedAt = now]
      BY <1>3, <2>1, <2>3, <2>6 DEF Fields
    <3>3. QED
      BY <3>1, <3>2
  <2>8. r.at = "store robots" /\ r.rules = rules
    BY <1>3, <2>6 DEF Fields
  <2>9. Ruled(r)
    BY <2>4, <2>5, <2>8 DEF Ruled, Past
  <2>10. QED
    BY <1>2, <2>7, <2>9, RuleStepOf
<1>7. QED
  BY <1>5, <1>6

LEMMA StoresRuled ==
    ASSUME CrawlInv, RuleInv, NEW c \in Crawler, StoreRobots(c)
    PROVE  RuleInv'
<1>1. PICK e : e = crawl[c].rules
  OBVIOUS
<1>2. crawl[c].at = "store robots" /\ cache' = e /\ Decides(c, e)
  BY <1>1 DEF StoreRobots
<1>3. Sourced(e) /\ e.fetchedAt = now
  BY <1>1, <1>2, IdleAt DEF RuleInv, Ruled
<1>4. now < e.served + TTL + Timeout
  <2>1. now <= e.served + Timeout /\ e.served \in Nat /\ now \in Nat
    BY <1>3 DEF Sourced
  <2>2. QED
    BY <2>1, Hour
<1>5. QED
  BY <1>2, <1>3, <1>4, DecidesRuled

LEMMA FailsRuled ==
    ASSUME CrawlInv, RuleInv, NEW c \in Crawler, RobotsFail(c)
    PROVE  RuleInv'
<1>1. PICK e : e = cache
  OBVIOUS
<1>2. cache' = e /\ (e = Idle \/ Sourced(e)) /\ crawl[c].at \in {"ask", "answered"}
  BY <1>1 DEF RobotsFail, RuleInv
<1>3. PICK g : g = Goes(c, "landing")
  OBVIOUS
<1>4. PICK r : r = [g EXCEPT !.rules = Idle]
  OBVIOUS
<1>5. DOMAIN g = Fields /\ g.at = "landing"
  BY <1>2, <1>3, Went
<1>6. r.at = "landing" /\ r.rules = Idle
  BY <1>4, <1>5 DEF Fields
<1>7. Continues(c, r)
  BY <1>3, <1>4 DEF RobotsFail
<1>8. Ruled(r)
  BY <1>6 DEF Ruled
<1>9. QED
  BY <1>2, <1>7, <1>8, RuleStepOf

\* Past the decision, with the landing page seen, the rules are what they were.
LEMMA PastRuled ==
    ASSUME CrawlInv, RuleInv, NEW c \in Crawler, crawl[c].at \in Past, ~KeptOut(crawl[c]),
           NEW r, r.at \in Past, r.pages # 0, r.began = crawl[c].began,
           r.rules = crawl[c].rules
    PROVE  Ruled(r)
<1>1. Ruled(crawl[c])
  <2>1. crawl[c] # Idle
    BY IdleAt DEF Past
  <2>2. QED
    BY <2>1 DEF RuleInv
<1>2. r.at \notin {"answered", "store robots"}
  BY DEF Past
<1>3. ~KeptOut(r)
  BY DEF KeptOut
<1>4. QED
  BY <1>1, <1>2, <1>3 DEF Ruled

LEMMA FetchesRuled ==
    ASSUME CrawlInv, RuleInv, NEW c \in Crawler,
           Landing(c) \/ LandingFails(c) \/ Wait(c) \/ Page(c)
    PROVE  RuleInv'
<1>1. PICK e : e = cache
  OBVIOUS
<1>2. cache' = e /\ (e = Idle \/ Sourced(e))
  BY <1>1 DEF Landing, LandingFails, Landed, Wait, Page, RuleInv
<1>3. crawl[c].at \in {"landing", "delay", "page"}
  BY DEF Landing, LandingFails, Wait, Page
<1>4. crawl[c].at \in Past /\ ~KeptOut(crawl[c]) /\ crawl[c].at # "idle"
  BY <1>3 DEF Past, KeptOut
<1>5. ASSUME NEW code, NEW error, Landed(c, code, error) PROVE RuleInv'
  <2>1. PICK status : status = Classify(code, error)
    OBVIOUS
  <2>2. PICK links : links = IF status = "live" THEN Interesting(Site.links) ELSE <<>>
    OBVIOUS
  <2>3. PICK to : to = IF links # <<>> /\ 1 < MaxPages THEN "delay" ELSE "save"
    OBVIOUS
  <2>4. PICK g : g = Goes(c, to)
    OBVIOUS
  <2>5. PICK r : r = [g EXCEPT !.status = status, !.pages = 1, !.links = links]
    OBVIOUS
  <2>6. Continues(c, r)
    BY <1>5, <2>1, <2>2, <2>3, <2>4, <2>5 DEF Landed
  <2>7. DOMAIN g = Fields /\ g.at = to /\ g.began = crawl[c].began /\ g.rules = crawl[c].rules
    BY <1>4, <2>4, Went
  <2>8. r.at = to /\ r.began = crawl[c].began /\ r.rules = crawl[c].rules /\ r.pages = 1
    BY <2>5, <2>7 DEF Fields
  <2>9. r.at \in Past /\ r.pages # 0
    BY <2>3, <2>8 DEF Past
  <2>10. Ruled(r)
    BY <1>4, <2>8, <2>9, PastRuled
  <2>11. QED
    BY <1>2, <2>6, <2>10, RuleStepOf
<1>6. CASE Landing(c) \/ LandingFails(c)
  BY <1>5, <1>6 DEF Landing, LandingFails
<1>7. Paced(crawl[c])
  BY <1>4, At
<1>8. CASE Wait(c)
  <2>1. crawl[c].at = "delay" /\ Continues(c, Goes(c, "page"))
    BY <1>8 DEF Wait
  <2>2. crawl[c].pages # 0
    BY <1>7, <2>1 DEF Paced, PacedAt
  <2>3. PICK r : r = Goes(c, "page")
    OBVIOUS
  <2>4. /\ r.at = "page" /\ r.began = crawl[c].began /\ r.rules = crawl[c].rules
        /\ r.pages = crawl[c].pages
    BY <1>4, <2>3, Went
  <2>5. r.at \in Past /\ r.pages # 0
    BY <2>2, <2>4 DEF Past
  <2>6. Ruled(r)
    BY <1>4, <2>4, <2>5, PastRuled
  <2>7. QED
    BY <1>2, <2>1, <2>3, <2>6, RuleStepOf
<1>9. CASE Page(c)
  <2>1. crawl[c].at = "page"
    BY <1>9 DEF Page
  <2>2. crawl[c].pages \in Nat
    BY <1>7, PaceOf DEF Paced
  <2>3. PICK left : left = Tail(crawl[c].links)
    OBVIOUS
  <2>4. PICK to : to = IF left # <<>> /\ crawl[c].pages + 1 < MaxPages THEN "delay" ELSE "save"
    OBVIOUS
  <2>5. PICK g : g = Goes(c, to)
    OBVIOUS
  <2>6. /\ DOMAIN g = Fields /\ g.at = to /\ g.began = crawl[c].began
        /\ g.rules = crawl[c].rules /\ g.pages = crawl[c].pages
    BY <1>4, <2>5, Went
  <2>7. PICK r : r = [g EXCEPT !.pages = g.pages + 1, !.links = left]
    OBVIOUS
  <2>8. Continues(c, r)
    BY <1>9, <2>3, <2>4, <2>5, <2>7 DEF Page
  <2>9. /\ r.at = to /\ r.began = crawl[c].began /\ r.rules = crawl[c].rules
        /\ r.pages = crawl[c].pages + 1
    BY <2>6, <2>7 DEF Fields
  <2>10. r.at \in Past /\ r.pages # 0
    BY <2>2, <2>4, <2>9 DEF Past
  <2>11. Ruled(r)
    BY <1>4, <2>9, <2>10, PastRuled
  <2>12. QED
    BY <1>2, <2>8, <2>11, RuleStepOf
<1>10. QED
  BY <1>6, <1>8, <1>9

\* A crawl that saw the landing page went by a robots.txt that did not forbid it.
LEMMA SavesRuled ==
    ASSUME CrawlInv, RuleInv, NEW c \in Crawler, Save(c)
    PROVE  RuleInv'
<1>1. /\ crawl[c].at = "save" /\ stored' = Verdict(c) /\ cache' = cache
      /\ crawl' = [crawl EXCEPT ![c] = Idle] /\ now' = now /\ site' = site
  BY DEF Save
<1>2. /\ Paced(crawl[c]) /\ now \in Nat /\ DOMAIN crawl = Crawler /\ History
      /\ crawl[c] # Idle
  BY <1>1, At, IdleAt DEF CrawlInv, History
<1>3. /\ stored'.pages = crawl[c].pages /\ stored'.rules = crawl[c].rules
      /\ stored'.began = crawl[c].began /\ stored'.ended = now
  BY <1>1 DEF Verdict
<1>4. ASSUME NEW d \in Crawler PROVE crawl'[d] = Idle \/ Ruled(crawl[d])'
  <2>1. CASE crawl'[d] = Idle
    BY <2>1
  <2>2. CASE crawl'[d] # Idle
    <3>1. PICK r : r = crawl[d]
      OBVIOUS
    <3>2. crawl'[d] = r /\ Ruled(r)
      BY <1>1, <1>2, <2>2, <3>1 DEF RuleInv
    <3>3. Ruled(r)'
      BY <1>1, <3>2, RuledSame
    <3>4. QED
      BY <3>2, <3>3
  <2>3. QED
    BY <2>1, <2>2
<1>5. cache' = Idle \/ Sourced(cache)'
  BY <1>1 DEF RuleInv, Sourced, During
<1>6. KeptOutStaysOut'
  <2>1. CASE crawl[c].pages > 0 /\ crawl[c].rules # Idle
    <3>1. PICK e, began : e = crawl[c].rules /\ began = crawl[c].began
      OBVIOUS
    <3>2. crawl[c].pages # 0
      <4>1. crawl[c].pages \in Nat
        BY <1>2, PaceOf DEF Paced
      <4>2. QED
        BY <2>1, <4>1
    <3>3. Sourced(e) /\ began < e.served + TTL + Timeout /\ Allowed(e.rules)
      BY <1>1, <1>2, <2>1, <3>1, <3>2 DEF RuleInv, Ruled, Past, KeptOut
    <3>4. began \in Nat /\ e.served \in Nat /\ e.served <= now
      BY <1>2, <3>1, <3>3, PaceOf, SourcedTimes DEF Paced
    <3>5. PICK begin, served : begin = began - TTL - Timeout + 1 /\ served = e.served
      OBVIOUS
    <3>6. begin \in Int /\ served \in Nat /\ begin <= served /\ served <= now
      BY <3>3, <3>4, <3>5, Hour
    <3>7. PICK v \in During(served, served) : v.robots.up /\ e.rules = Parse(v.robots.file)
      BY <3>3, <3>5 DEF Sourced
    <3>8. v \in Version
      BY <1>2, <3>7, DuringVersion
    <3>9. ~KeepsOut(v) \/ Overlooked(v)
      BY <3>3, <3>7, <3>8, SaysWhatItSays
    <3>10. v \in During(begin, now)
      BY <1>2, <3>6, <3>7, WiderDuring
    <3>11. v \in Consulted(stored.began, stored.ended)'
      BY <1>1, <1>3, <3>1, <3>5, <3>10 DEF Consulted, During
    <3>12. QED
      BY <3>9, <3>11 DEF KeptOutStaysOut, KeepsOut, Overlooked, Ours, OursByLast, Named
  <2>2. CASE ~(crawl[c].pages > 0 /\ crawl[c].rules # Idle)
    BY <1>3, <2>2 DEF KeptOutStaysOut
  <2>3. QED
    BY <2>1, <2>2
<1>7. QED
  BY <1>4, <1>5, <1>6 DEF RuleInv

LEMMA StopsRuled ==
    ASSUME CrawlInv, RuleInv, NEW c \in Crawler, GiveUp(c) \/ SaveFails(c)
    PROVE  RuleInv'
<1>1. PICK e : e = cache
  OBVIOUS
<1>2. cache' = e /\ (e = Idle \/ Sourced(e)) /\ Continues(c, Idle)
  BY <1>1 DEF GiveUp, SaveFails, RuleInv
<1>3. QED
  BY <1>2, RuleStepOf

\* The site changes, or time passes where no crawl is about to store its rules.
LEMMA WorldRuled ==
    ASSUME CrawlInv, RuleInv, SiteChanges \/ Tick
    PROVE  RuleInv'
<1>1. /\ crawl' = crawl /\ stored' = stored /\ cache' = cache
      /\ \/ site' = site
         \/ \E v \in Version : site' = Append(site, [is |-> v, from |-> now])
  BY DEF SiteChanges, Tick
<1>2. History /\ Kept /\ now \in Nat
  BY DEF CrawlInv, History
<1>3. now' \in Nat /\ now <= now'
  BY <1>2 DEF SiteChanges, Tick
<1>4. ASSUME NEW c \in Crawler, crawl[c].at = "store robots" PROVE now' = now
  <2>1. Busy(c) /\ LastTick(c) = now
    BY <1>4 DEF Busy, LastTick
  <2>2. ~Tick
    BY <1>2, <2>1 DEF Tick
  <2>3. QED
    BY <2>2 DEF SiteChanges
<1>5. ASSUME NEW c \in Crawler PROVE crawl'[c] = Idle \/ Ruled(crawl[c])'
  <2>1. PICK r : r = crawl[c]
    OBVIOUS
  <2>2. CASE Ruled(r)
    <3>1. now' = now \/ r.at # "store robots"
      BY <1>4, <2>1
    <3>2. Ruled(r)'
      BY <1>1, <1>2, <1>3, <2>2, <3>1, RuledStays
    <3>3. QED
      BY <1>1, <2>1, <3>2 DEF Ruled, Sourced, During, KeptOut
  <2>3. QED
    BY <1>1, <2>1, <2>2 DEF RuleInv
<1>6. cache' = Idle \/ Sourced(cache)'
  <2>1. PICK e : e = cache
    OBVIOUS
  <2>2. CASE Sourced(e)
    <3>1. Sourced(e)'
      BY <1>1, <1>2, <1>3, <2>2, SourcedStays
    <3>2. QED
      BY <1>1, <2>1, <3>1 DEF Sourced, During
  <2>3. QED
    BY <1>1, <2>1, <2>2 DEF RuleInv
<1>7. KeptOutStaysOut'
  BY <1>1, <1>2, KeptOutStays DEF RuleInv
<1>8. QED
  BY <1>5, <1>6, <1>7 DEF RuleInv

LEMMA InitialRules == Init => RuleInv
BY DEF Init, RuleInv, KeptOutStaysOut

LEMMA StepRules == CrawlInv /\ RuleInv /\ [Next]_vars => RuleInv'
<1> SUFFICES ASSUME CrawlInv, RuleInv, [Next]_vars PROVE RuleInv'
  OBVIOUS
<1>1. ASSUME NEW c \in Crawler, Looks(c) PROVE RuleInv'
  BY <1>1, BeginsRuled, LooksUpRuled, AnswersRuled, StoresRuled, FailsRuled DEF Looks
<1>2. ASSUME NEW c \in Crawler, Fetches(c) PROVE RuleInv'
  BY <1>2, FetchesRuled, SavesRuled, StopsRuled DEF Fetches
<1>3. CASE UNCHANGED vars
  <2>1. /\ now' = now /\ site' = site /\ crawl' = crawl /\ stored' = stored
        /\ cache' = cache
    BY <1>3 DEF vars
  <2>2. KeptOutStaysOut'
    BY <2>1, KeptOutStays DEF RuleInv, CrawlInv
  <2>3. cache' = Idle \/ Sourced(cache)'
    BY <2>1 DEF RuleInv, Sourced, During
  <2>4. ASSUME NEW c \in Crawler PROVE crawl'[c] = Idle \/ Ruled(crawl[c])'
    <3>1. PICK r : r = crawl[c]
      OBVIOUS
    <3>2. r = Idle \/ Ruled(r)
      BY <3>1 DEF RuleInv
    <3>3. Ruled(r) => Ruled(r)'
      BY <2>1, RuledSame
    <3>4. QED
      BY <2>1, <3>1, <3>2, <3>3
  <2>5. QED
    BY <2>2, <2>3, <2>4 DEF RuleInv
<1>4. QED
  BY <1>1, <1>2, <1>3, WorldRuled DEF Next

\* Whatever a crawl goes by, or the cache holds, the site served it, and when.
THEOREM RulesInvariant == Spec => [](CrawlInv /\ RuleInv)
BY InitialState, StepInv, InitialRules, StepRules, PTL DEF Spec

\* However crawls overtake one another at the cache (get, fetch), the robots.txt
\* a crawl goes by was served within the hour of the cache and one fetch before
\* the decision, and a crawl that was kept out was kept out by it.
THEOREM RobotsAreRecent == Spec => []RulesAreRecent
<1>1. CrawlInv /\ RuleInv => RulesAreRecent
  <2> SUFFICES ASSUME CrawlInv, RuleInv, NEW c \in Crawler,
                      crawl[c].at \in {"landing", "save"}, crawl[c].pages = 0,
                      crawl[c].rules # Idle
               PROVE  /\ crawl[c].since - crawl[c].rules.served < TTL + Timeout
                      /\ crawl[c].at = "save" =>
                            \E v \in Consulted(crawl[c].began, crawl[c].since) :
                               KeepsOut(v) \/ Overlooked(v)
    BY DEF RulesAreRecent
  <2>1. PICK e, began, since :
           e = crawl[c].rules /\ began = crawl[c].began /\ since = crawl[c].since
    OBVIOUS
  <2>2. Ruled(crawl[c]) /\ Paced(crawl[c]) /\ History /\ now \in Nat
    BY At, IdleAt DEF RuleInv, CrawlInv, History
  <2>3. /\ Sourced(e) /\ e.served <= since /\ since < e.served + TTL + Timeout
        /\ crawl[c].at = "save" => ~Allowed(e.rules)
    BY <2>1, <2>2 DEF Ruled, Past, KeptOut
  <2>4. began \in Nat /\ since \in Nat /\ began <= since /\ e.served \in Nat
    BY <2>1, <2>2, <2>3, PaceOf, SourcedTimes DEF Paced
  <2>5. since - e.served < TTL + Timeout
    BY <2>3, <2>4, Hour
  <2>6. ASSUME crawl[c].at = "save"
        PROVE  \E v \in Consulted(began, since) : KeepsOut(v) \/ Overlooked(v)
    <3>1. PICK begin, served : begin = began - TTL - Timeout + 1 /\ served = e.served
      OBVIOUS
    <3>2. begin \in Int /\ served \in Nat /\ begin <= served /\ served <= since
      BY <2>3, <2>4, <3>1, Hour
    <3>3. PICK v \in During(served, served) : v.robots.up /\ e.rules = Parse(v.robots.file)
      BY <2>3, <3>1 DEF Sourced
    <3>4. KeepsOut(v) \/ Overlooked(v)
      BY <2>2, <2>3, <2>6, <3>3, DuringVersion, SaysWhatItSays
    <3>5. v \in During(begin, since)
      BY <2>2, <2>4, <3>2, <3>3, WiderDuring
    <3>6. QED
      BY <3>1, <3>4, <3>5 DEF Consulted
  <2>7. QED
    BY <2>1, <2>5, <2>6
<1>2. QED
  BY <1>1, RulesInvariant, PTL

\* A landing page that every robots.txt of the time forbids is not fetched, for
\* any robots.txt: what parseRobots keeps of its lines, and the longest match over
\* that, say of the page what the groups of the file say, but for groups that name
\* us before another agent.
THEOREM KeptOutIsKept == Spec => []KeptOutStaysOut
<1>1. RuleInv => KeptOutStaysOut
  BY DEF RuleInv
<1>2. QED
  BY <1>1, RulesInvariant, PTL

-----------------------------------------------------------------------------
(* Types.                                                                   *)

Verdicts == {"live", "down", "blocked", "unknown"}

\* A crawl that has seen another page than the landing page had one to spare.
Within(r) ==
    /\ r.status \in Verdicts \union {""}
    /\ r.pages = 1 \/ r.pages <= MaxPages
    /\ r.at \in {"delay", "page"} => r.pages < MaxPages

\* What the types of the variables add to both invariants.
Bounded ==
    /\ now <= MaxTime
    /\ \A c \in Crawler : crawl[c] = Idle \/ Within(crawl[c])
    /\ stored = Idle \/ stored.status \in Verdicts

LEMMA PageLimit == MaxPages \in Nat /\ 0 <= MaxPages
BY TimeAssumption

LEMMA VerdictOf ==
    ASSUME NEW code, NEW error
    PROVE  Classify(code, error) \in Verdicts
<1>1. \/ Classify(code, error) = "live" \/ Classify(code, error) = "down"
      \/ Classify(code, error) = "blocked" \/ Classify(code, error) = "unknown"
  BY DEF Classify
<1>2. QED
  BY <1>1 DEF Verdicts

LEMMA BoundedStep ==
    ASSUME CrawlInv, Bounded, NEW c \in Crawler, NEW r, r = Idle \/ Within(r), Continues(c, r)
    PROVE  Bounded'
<1>1. crawl' = [crawl EXCEPT ![c] = r] /\ now' = now /\ stored' = stored
  BY DEF Continues
<1>2. \A d \in Crawler : crawl'[d] = Idle \/ Within(crawl'[d])
  BY <1>1 DEF CrawlInv, Bounded
<1>3. QED
  BY <1>1, <1>2 DEF Bounded, Within

\* Elsewhere than between pages, with the pages that were seen before.
LEMMA WithinStays ==
    ASSUME Bounded, NEW c \in Crawler, Busy(c), NEW r, r.pages = crawl[c].pages,
           r.status \in {crawl[c].status, "unknown"}, r.at \notin {"delay", "page"}
    PROVE  Within(r)
<1>1. Within(crawl[c])
  BY IdleAt DEF Bounded, Busy
<1>2. QED
  BY <1>1 DEF Within, Verdicts

LEMMA BeginsBounded ==
    ASSUME CrawlInv, Bounded, NEW c \in Crawler, Begin(c)
    PROVE  Bounded'
<1>1. PICK url \in {"fine", "bad"} :
         Continues(c, [at |-> CASE url = "bad" -> "save"
                                [] url = "fine" /\ RespectRobots -> "robots"
                                [] OTHER -> "landing",
                       began |-> now, since |-> now, rules |-> Idle,
                       status |-> "", pages |-> 0, links |-> <<>>])
  BY DEF Begin
<1>2. PICK to : to = CASE url = "bad" -> "save"
                       [] url = "fine" /\ RespectRobots -> "robots"
                       [] OTHER -> "landing"
  OBVIOUS
<1>3. to \notin {"delay", "page"}
  BY <1>2, TimeAssumption
<1>4. PICK r : r = [at |-> to, began |-> now, since |-> now, rules |-> Idle,
                    status |-> "", pages |-> 0, links |-> <<>>]
  OBVIOUS
<1>5. r.at = to /\ r.status = "" /\ r.pages = 0 /\ 0 <= MaxPages
  BY <1>4, PageLimit
<1>6. QED
  BY <1>1, <1>2, <1>3, <1>4, <1>5, BoundedStep DEF Within

LEMMA DecidesBounded ==
    ASSUME CrawlInv, Bounded, NEW c \in Crawler, Busy(c), NEW entry, Decides(c, entry)
    PROVE  Bounded'
<1>1. PICK g, h : g = Goes(c, "landing") /\ h = Goes(c, "save")
  OBVIOUS
<1>2. /\ DOMAIN g = Fields /\ g.at = "landing"
      /\ g.status = crawl[c].status /\ g.pages = crawl[c].pages
      /\ DOMAIN h = Fields /\ h.at = "save" /\ h.pages = crawl[c].pages
  BY <1>1, Went DEF Busy
<1>3. PICK r, q : /\ r = [g EXCEPT !.rules = entry]
                  /\ q = [h EXCEPT !.rules = entry, !.status = "unknown"]
  OBVIOUS
<1>4. /\ r.at = "landing" /\ r.status = crawl[c].status /\ r.pages = crawl[c].pages
      /\ q.at = "save" /\ q.status = "unknown" /\ q.pages = crawl[c].pages
  BY <1>2, <1>3 DEF Fields
<1>5. Within(r) /\ Within(q)
  BY <1>4, WithinStays
<1>6. Continues(c, r) \/ Continues(c, q)
  BY <1>1, <1>3 DEF Decides
<1>7. QED
  BY <1>5, <1>6, BoundedStep

LEMMA LooksBounded ==
    ASSUME CrawlInv, Bounded, NEW c \in Crawler, Looks(c)
    PROVE  Bounded'
<1>1. CASE Begin(c)
  BY <1>1, BeginsBounded
<1>2. CASE Lookup(c)
  <2>1. Busy(c)
    BY <1>2 DEF Lookup, Busy
  <2>2. CASE Continues(c, Goes(c, "ask"))
    <3>1. PICK r : r = Goes(c, "ask")
      OBVIOUS
    <3>2. r.at = "ask" /\ r.status = crawl[c].status /\ r.pages = crawl[c].pages
      BY <2>1, <3>1, Went DEF Busy
    <3>3. QED
      BY <2>1, <2>2, <3>1, <3>2, WithinStays, BoundedStep
  <2>3. QED
    BY <1>2, <2>1, <2>2, DecidesBounded DEF Lookup
<1>3. CASE RobotsAnswered(c)
  <2>1. PICK e : Continues(c, [crawl[c] EXCEPT !.at = "answered", !.rules = e])
    BY <1>3 DEF RobotsAnswered
  <2>2. PICK r : r = [crawl[c] EXCEPT !.at = "answered", !.rules = e]
    OBVIOUS
  <2>3. Busy(c) /\ DOMAIN crawl[c] = Fields
    BY <1>3, At DEF RobotsAnswered, Busy
  <2>4. r.at = "answered" /\ r.status = crawl[c].status /\ r.pages = crawl[c].pages
    BY <2>2, <2>3 DEF Fields
  <2>5. QED
    BY <2>1, <2>2, <2>3, <2>4, WithinStays, BoundedStep
<1>4. CASE RobotsArrive(c)
  <2>1. PICK r : r = [crawl[c] EXCEPT !.at = "store robots", !.rules.fetchedAt = now]
    OBVIOUS
  <2>2. Continues(c, r) /\ Busy(c) /\ DOMAIN crawl[c] = Fields
    BY <1>4, <2>1, At DEF RobotsArrive, Busy
  <2>3. r.at = "store robots" /\ r.status = crawl[c].status /\ r.pages = crawl[c].pages
    BY <2>1, <2>2 DEF Fields
  <2>4. QED
    BY <2>2, <2>3, WithinStays, BoundedStep
<1>5. CASE StoreRobots(c)
  BY <1>5, DecidesBounded DEF StoreRobots, Busy
<1>6. CASE RobotsFail(c)
  <2>1. PICK g : g = Goes(c, "landing")
    OBVIOUS
  <2>2. PICK r : r = [g EXCEPT !.rules = Idle]
    OBVIOUS
  <2>3. Busy(c) /\ Continues(c, r)
    BY <1>6, <2>1, <2>2 DEF RobotsFail, Busy
  <2>4. DOMAIN g = Fields /\ g.at = "landing"
        /\ g.status = crawl[c].status /\ g.pages = crawl[c].pages
    BY <2>1, <2>3, Went DEF Busy
  <2>5. r.at = "landing" /\ r.status = crawl[c].status /\ r.pages = crawl[c].pages
    BY <2>2, <2>4 DEF Fields
  <2>6. QED
    BY <2>3, <2>5, WithinStays, BoundedStep
<1>7. QED
  BY <1>1, <1>2, <1>3, <1>4, <1>5, <1>6 DEF Looks

LEMMA LandsBounded ==
    ASSUME CrawlInv, Bounded, NEW c \in Crawler, crawl[c].at = "landing",
           NEW code, NEW error, Landed(c, code, error)
    PROVE  Bounded'
<1>1. PICK status, links :
         /\ status = Classify(code, error)
         /\ links = IF status = "live" THEN Interesting(Site.links) ELSE <<>>
  OBVIOUS
<1>2. PICK to : to = IF links # <<>> /\ 1 < MaxPages THEN "delay" ELSE "save"
  OBVIOUS
<1>3. PICK g : g = Goes(c, to)
  OBVIOUS
<1>4. PICK r : r = [g EXCEPT !.status = status, !.pages = 1, !.links = links]
  OBVIOUS
<1>5. Continues(c, r)
  BY <1>1, <1>2, <1>3, <1>4 DEF Landed
<1>6. DOMAIN g = Fields /\ g.at = to
  BY <1>3, Went
<1>7. r.at = to /\ r.pages = 1 /\ r.status = status
  BY <1>4, <1>6 DEF Fields
<1>8. to = "save" \/ 1 < MaxPages
  BY <1>2
<1>9. Within(r)
  BY <1>1, <1>7, <1>8, VerdictOf DEF Within
<1>10. QED
  BY <1>5, <1>9, BoundedStep

LEMMA PagesBounded ==
    ASSUME CrawlInv, Bounded, NEW c \in Crawler, Page(c)
    PROVE  Bounded'
<1>1. crawl[c].at = "page" /\ Paced(crawl[c])
  BY At DEF Page
<1>2. Within(crawl[c]) /\ crawl[c].pages \in Nat
  BY <1>1, IdleAt, PaceOf DEF Bounded, Paced
<1>3. PICK left : left = Tail(crawl[c].links)
  OBVIOUS
<1>4. PICK to : to = IF left # <<>> /\ crawl[c].pages + 1 < MaxPages THEN "delay" ELSE "save"
  OBVIOUS
<1>5. PICK g : g = Goes(c, to)
  OBVIOUS
<1>6. /\ DOMAIN g = Fields /\ g.at = to
      /\ g.pages = crawl[c].pages /\ g.status = crawl[c].status
  BY <1>1, <1>5, Went
<1>7. PICK r : r = [g EXCEPT !.pages = g.pages + 1, !.links = left]
  OBVIOUS
<1>8. Continues(c, r)
  BY <1>3, <1>4, <1>5, <1>7 DEF Page
<1>9. r.at = to /\ r.pages = crawl[c].pages + 1 /\ r.status = crawl[c].status
  BY <1>6, <1>7 DEF Fields
<1>10. to = "save" \/ crawl[c].pages + 1 < MaxPages
  BY <1>4
<1>11. crawl[c].pages < MaxPages /\ r.status \in Verdicts \union {""}
  BY <1>1, <1>2, <1>9 DEF Within
<1>12. crawl[c].pages + 1 <= MaxPages
  <2>1. PICK p : p = crawl[c].pages
    OBVIOUS
  <2>2. p \in Nat /\ p < MaxPages
    BY <1>2, <1>11, <2>1
  <2>3. QED
    BY <2>1, <2>2, PageLimit
<1>13. Within(r)
  BY <1>9, <1>10, <1>11, <1>12 DEF Within
<1>14. QED
  BY <1>8, <1>13, BoundedStep

LEMMA FetchesBounded ==
    ASSUME CrawlInv, Bounded, NEW c \in Crawler, Fetches(c)
    PROVE  Bounded'
<1>1. CASE Landing(c) \/ LandingFails(c)
  BY <1>1, LandsBounded DEF Landing, LandingFails
<1>2. CASE Wait(c)
  <2>1. PICK r : r = Goes(c, "page")
    OBVIOUS
  <2>2. crawl[c].at = "delay" /\ Continues(c, r)
    BY <1>2, <2>1 DEF Wait
  <2>3. r.at = "page" /\ r.status = crawl[c].status /\ r.pages = crawl[c].pages
    BY <2>1, <2>2, Went
  <2>4. Within(crawl[c])
    BY <2>2, IdleAt DEF Bounded
  <2>5. Within(r)
    BY <2>2, <2>3, <2>4 DEF Within
  <2>6. QED
    BY <2>2, <2>5, BoundedStep
<1>3. CASE Page(c)
  BY <1>3, PagesBounded
<1>4. CASE GiveUp(c) \/ SaveFails(c)
  BY <1>4, BoundedStep DEF GiveUp, SaveFails
<1>5. CASE Save(c)
  <2>1. /\ crawl[c].at = "save" /\ stored' = Verdict(c) /\ now' = now
        /\ crawl' = [crawl EXCEPT ![c] = Idle]
    BY <1>5 DEF Save
  <2>2. Within(crawl[c])
    BY <2>1, IdleAt DEF Bounded
  <2>3. stored'.status \in Verdicts
    BY <2>1, <2>2 DEF Verdict, OrUnknown, Within, Verdicts
  <2>4. \A d \in Crawler : crawl'[d] = Idle \/ Within(crawl'[d])
    BY <2>1 DEF CrawlInv, Bounded
  <2>5. QED
    BY <2>1, <2>3, <2>4 DEF Bounded, Within
<1>6. QED
  BY <1>1, <1>2, <1>3, <1>4, <1>5 DEF Fetches

LEMMA BoundedAlways == CrawlInv /\ Bounded /\ [Next]_vars => Bounded'
<1> SUFFICES ASSUME CrawlInv, Bounded, [Next]_vars PROVE Bounded'
  OBVIOUS
<1>1. ASSUME now' <= MaxTime, UNCHANGED <<crawl, stored>> PROVE Bounded'
  BY <1>1 DEF Bounded, Within
<1>2. CASE SiteChanges \/ UNCHANGED vars
  <2>1. now' <= MaxTime /\ UNCHANGED <<crawl, stored>>
    BY <1>2 DEF SiteChanges, vars, Bounded
  <2>2. QED
    BY <1>1, <2>1
<1>3. CASE Tick
  <2>1. now' <= MaxTime /\ UNCHANGED <<crawl, stored>>
    BY <1>3, BoundAssumption DEF Tick, CrawlInv, History
  <2>2. QED
    BY <1>1, <2>1
<1>4. QED
  BY <1>2, <1>3, LooksBounded, FetchesBounded DEF Next

\* Every variable is of its type; in particular a crawl fetches no more pages than
\* CRAWLER_MAX_PAGES, the landing page excepted (Crawl), and no verdict is stored
\* that the column's constraint refuses (orUnknown).
THEOREM CrawlTyped == Spec => []TypeOK
<1>1. Init => Bounded
  BY BoundAssumption DEF Init, Bounded
<1>2. CrawlInv /\ RuleInv /\ Bounded => TypeOK
  <2> SUFFICES ASSUME CrawlInv, RuleInv, Bounded PROVE TypeOK
    OBVIOUS
  <2>1. now \in 0 .. MaxTime
    BY BoundAssumption DEF CrawlInv, History, Bounded
  <2>2. ASSUME NEW n \in DOMAIN site PROVE site[n].is \in Version /\ site[n].from \in 0 .. now
    BY Versions, <2>1 DEF CrawlInv, History
  <2>3. cache = Idle \/ cache.fetchedAt \in 0 .. now
    BY <2>1 DEF RuleInv, Sourced
  <2>4. ASSUME NEW c \in Crawler, Busy(c)
        PROVE  /\ crawl[c].at \in Stage
               /\ crawl[c].status \in {"", "live", "down", "blocked", "unknown"}
               /\ crawl[c].pages = 1 \/ crawl[c].pages \in 0 .. MaxPages
               /\ crawl[c].began \in 0 .. now /\ crawl[c].since \in crawl[c].began .. now
    <3>1. Paced(crawl[c]) /\ Within(crawl[c])
      BY <2>4, At, IdleAt DEF Busy, Bounded
    <3>2. /\ crawl[c].at \in Stage /\ crawl[c].pages \in Nat
          /\ crawl[c].began \in Nat /\ crawl[c].since \in Nat
          /\ crawl[c].began <= crawl[c].since /\ crawl[c].since <= now
      BY <3>1 DEF Paced, PacedAt
    <3>3. crawl[c].status \in {"", "live", "down", "blocked", "unknown"}
      BY <3>1 DEF Within, Verdicts
    <3>4. crawl[c].pages = 1 \/ crawl[c].pages \in 0 .. MaxPages
      <4>1. PICK p : p = crawl[c].pages
        OBVIOUS
      <4>2. p \in Nat /\ (p = 1 \/ p <= MaxPages)
        BY <3>1, <3>2, <4>1 DEF Within
      <4>3. QED
        BY <4>1, <4>2, PageLimit
    <3>5. crawl[c].began \in 0 .. now /\ crawl[c].since \in crawl[c].began .. now
      BY <2>1, <3>2
    <3>6. QED
      BY <3>2, <3>3, <3>4, <3>5
  <2>5. stored = Idle \/ stored.status \in {"live", "down", "blocked", "unknown"}
    BY DEF Bounded, Verdicts
  <2>6. QED
    BY <2>1, <2>2, <2>3, <2>4, <2>5 DEF TypeOK
<1>3. QED
  BY <1>1, <1>2, BoundedAlways, RulesInvariant, PTL DEF Spec
=============================================================================
