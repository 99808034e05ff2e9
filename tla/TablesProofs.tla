---------------------------- MODULE TablesProofs ----------------------------
(***************************************************************************)
(* What concurrent jobs of one lead, and its deletion, leave in its        *)
(* tables, for any number of jobs and actors, whatever they found: nothing *)
(* of a deleted lead, technologies of one job, contacts once.              *)
(***************************************************************************)
EXTENDS Tables, FiniteSetTheorems, TLAPS

Parts == {"contacts", "socials", "techs", "remove", "insert", "commit"}

\* A job keeps what it has written in an open transaction of that part alone,
\* and has parts of a crawl that there is.
InOrder(a) ==
    /\ actor[a].at # "idle" => actor[a].job # 0
    /\ actor[a].at = "load" => actor[a].kind \in {"contacts", "socials", "technologies"}
    /\ actor[a].at \in Parts \union {"website", "result"} => actor[a].of # 0
    /\ actor[a].at # "contacts" => actor[a].added = {}
    /\ actor[a].at # "socials" => actor[a].held = {}

\* A row that is not committed yet shares its parent's lock.
Backed(a) ==
    /\ actor[a].added # {} => "lead" \in actor[a].shares
    /\ \A p \in actor[a].held : socials[p] = 0 => "lead" \in actor[a].shares
    /\ actor[a].at = "commit" /\ Detected(a) # {} => "site" \in actor[a].shares

\* A lock that is shared keeps the parent there, and the deletion away from it.
Kept(a) ==
    /\ "lead" \in actor[a].shares => lead /\ eraser \in {"idle", "over"}
    /\ "site" \in actor[a].shares => site # 0 /\ eraser \in {"idle", "site", "over"}

Covered == \A a \in Actor : InOrder(a) /\ Backed(a) /\ Kept(a)

\* Only a lead that is there is being deleted.
Erasing == eraser \notin {"idle", "over"} => lead

TablesInv == TypeOK /\ Covered /\ Erasing /\ NothingOutlivesTheLead

-----------------------------------------------------------------------------
\* A move changes the record of one actor.
LEMMA Movement ==
    ASSUME actor \in [Actor -> Work], NEW a \in Actor, NEW r \in Work, Moves(a, r)
    PROVE  /\ actor' \in [Actor -> Work]
           /\ actor'[a] = r
           /\ \A b \in Actor \ {a} : actor'[b] = actor[b]
    BY DEF Moves

\* An actor that does not move is covered as it was: no parent goes away.
LEMMA Bystanders ==
    ASSUME TypeOK, Covered, NEW a \in Actor,
           \A b \in Actor \ {a} : actor'[b] = actor[b],
           lead' = lead, eraser' = eraser,
           site # 0 => site' # 0,
           \A p \in Platform : socials'[p] = 0 => socials[p] = 0
    PROVE  \A b \in Actor \ {a} : InOrder(b)' /\ Backed(b)' /\ Kept(b)'
<1> TAKE b \in Actor \ {a}
<1>1. actor'[b] = actor[b] /\ InOrder(b) /\ Backed(b) /\ Kept(b)
      BY DEF Covered
<1>2. InOrder(b)'
      BY <1>1 DEF InOrder
<1>3. actor[b].held \subseteq Platform
      BY DEF TypeOK, Work
<1>4. Backed(b)'
      BY <1>1, <1>3 DEF Backed, Detected
<1>5. Kept(b)'
      BY <1>1 DEF Kept
<1> QED BY <1>2, <1>4, <1>5

\* A job that begins a part holds nothing.
LEMMA AfreshTyped ==
    ASSUME NEW at \in Stage, NEW kind \in JobType, NEW job \in 0 .. MaxJobs,
           NEW of \in 0 .. MaxJobs, NEW left \in SUBSET Contact, NEW line \in Seq(Platform)
    PROVE  Afresh(at, kind, job, of, left, line) \in Work
    BY DEF Afresh, Work

LEMMA AfreshHoldsNothing ==
    ASSUME NEW at, NEW kind, NEW job, NEW of, NEW left, NEW line, NEW r,
           r = Afresh(at, kind, job, of, left, line)
    PROVE  /\ r.at = at /\ r.kind = kind /\ r.job = job /\ r.of = of
           /\ r.added = {} /\ r.held = {} /\ r.shares = {}
    BY DEF Afresh

LEMMA IdleTyped ==
    /\ Idle \in Work
    /\ Idle.at = "idle" /\ Idle.added = {} /\ Idle.held = {} /\ Idle.shares = {}
<1>1. /\ <<>> \in Seq(Platform) /\ 0 \in 0 .. MaxJobs /\ {} \in SUBSET Contact
      /\ "idle" \in Stage /\ "crawl" \in JobType
      BY FoundAssumption DEF Stage, JobType
<1>2. Idle \in Work
      BY <1>1, AfreshTyped DEF Idle
<1> QED BY <1>2 DEF Idle, Afresh

\* What a page gives is typed.
LEMMA ToStoreTyped ==
    ASSUME TypeOK, NEW a \in Actor, NEW of \in 1 .. MaxJobs,
           NEW part \in {"contacts", "socials", "techs"}
    PROVE  LET r == ToStore(a, part, of)
           IN /\ r \in Work
              /\ r.at = part /\ r.kind = actor[a].kind /\ r.job = actor[a].job /\ r.of = of
              /\ r.added = {} /\ r.held = {} /\ r.shares = {}
<1>1. Found[of].contacts \subseteq Contact /\ Found[of].socials \in Seq(Platform)
      BY FoundAssumption
<1>2. actor[a].kind \in JobType /\ actor[a].job \in 0 .. MaxJobs /\ of \in 0 .. MaxJobs
      BY FoundAssumption DEF TypeOK, Work
<1>3. <<>> \in Seq(Platform) /\ part \in Stage
      BY DEF Stage
<1>4. (IF part = "contacts" THEN Found[of].contacts ELSE {}) \in SUBSET Contact
      BY <1>1
<1>5. (IF part = "socials" THEN Found[of].socials ELSE <<>>) \in Seq(Platform)
      BY <1>1, <1>3
<1>6. ToStore(a, part, of) \in Work
      BY <1>2, <1>3, <1>4, <1>5, AfreshTyped DEF ToStore
<1> QED BY <1>6 DEF ToStore, Afresh

-----------------------------------------------------------------------------
(* The steps of an actor.                                                   *)

\* An actor that holds nothing and begins a part is covered.
LEMMA FreshIsCovered ==
    ASSUME NEW a \in Actor, actor'[a].added = {}, actor'[a].held = {}, actor'[a].shares = {},
           actor'[a].at # "commit",
           actor'[a].at # "idle" => actor'[a].job # 0,
           actor'[a].at = "load" => actor'[a].kind \in {"contacts", "socials", "technologies"},
           actor'[a].at \in Parts \union {"website", "result"} => actor'[a].of # 0
    PROVE  InOrder(a)' /\ Backed(a)' /\ Kept(a)'
    BY DEF InOrder, Backed, Kept

LEMMA RollbackInv ==
    ASSUME TablesInv, NEW a \in Actor, Rollback(a)
    PROVE  TablesInv'
<1> USE DEF TablesInv
<1>1. Moves(a, Idle) /\ UNCHANGED <<lead, site, result, contacts, socials, techs, eraser, jobs>>
      BY DEF Rollback, tables
<1>2. overlapped' = overlapped
      BY DEF Rollback
<1>3. /\ actor' \in [Actor -> Work] /\ actor'[a] = Idle
      /\ \A b \in Actor \ {a} : actor'[b] = actor[b]
      BY <1>1, IdleTyped, Movement DEF TypeOK
<1>4. TypeOK'
      BY <1>1, <1>2, <1>3 DEF TypeOK, Row, Tech
<1>5. \A b \in Actor \ {a} : InOrder(b)' /\ Backed(b)' /\ Kept(b)'
      BY <1>1, <1>3, Bystanders
<1>6. InOrder(a)' /\ Backed(a)' /\ Kept(a)'
      BY <1>3, IdleTyped, FreshIsCovered DEF Parts
<1>7. Covered'
      BY <1>5, <1>6 DEF Covered
<1>8. Erasing' /\ NothingOutlivesTheLead'
      BY <1>1 DEF Erasing, NothingOutlivesTheLead
<1> QED BY <1>4, <1>7, <1>8

LEMMA BeginInv ==
    ASSUME TablesInv, NEW a \in Actor, Begin(a)
    PROVE  TablesInv'
<1> USE DEF TablesInv
<1>1. PICK kind \in Kind :
         Moves(a, IF kind \in {"crawl", "unreachable"}
                  THEN Afresh("website", kind, jobs + 1, jobs + 1, {}, <<>>)
                  ELSE Afresh("load", kind, jobs + 1, 0, {}, <<>>))
      BY DEF Begin
<1>2. /\ UNCHANGED <<lead, site, result, contacts, socials, techs, eraser, overlapped>>
      /\ jobs' = jobs + 1 /\ jobs < MaxJobs
      BY DEF Begin, tables
<1>3. /\ <<>> \in Seq(Platform) /\ {} \in SUBSET Contact /\ kind \in JobType
      /\ "website" \in Stage /\ "load" \in Stage
      BY ActorAssumption DEF Stage
<1>4. jobs + 1 \in 1 .. MaxJobs /\ 0 \in 0 .. MaxJobs
      BY <1>2, FoundAssumption DEF TypeOK
<1>5. PICK r \in Work :
         /\ Moves(a, r)
         /\ r.added = {} /\ r.held = {} /\ r.shares = {} /\ r.job = jobs + 1
         /\ \/ r.at = "website" /\ r.of = jobs + 1
            \/ /\ r.at = "load" /\ r.of = 0
               /\ r.kind \in {"contacts", "socials", "technologies"}
      <2>1. jobs + 1 \in 0 .. MaxJobs
            BY <1>4
      <2>2. CASE kind \in {"crawl", "unreachable"}
            <3> DEFINE r == Afresh("website", kind, jobs + 1, jobs + 1, {}, <<>>)
            <3>1. r \in Work /\ Moves(a, r)
                  BY <1>1, <1>3, <2>1, <2>2, AfreshTyped
            <3> QED BY <3>1, AfreshHoldsNothing
      <2>3. CASE kind \notin {"crawl", "unreachable"}
            <3> DEFINE r == Afresh("load", kind, jobs + 1, 0, {}, <<>>)
            <3>1. r \in Work /\ Moves(a, r)
                  BY <1>1, <1>3, <1>4, <2>1, <2>3, AfreshTyped
            <3>2. kind \in {"contacts", "socials", "technologies"}
                  BY <1>3, <2>3 DEF JobType
            <3> QED BY <3>1, <3>2, AfreshHoldsNothing
      <2> QED BY <2>2, <2>3
<1>6. r.at # "commit" /\ r.job # 0
      /\ (r.at = "load" => r.kind \in {"contacts", "socials", "technologies"})
      /\ (r.at \in Parts \union {"website", "result"} => r.of # 0)
      BY <1>4, <1>5 DEF Parts
<1>7. /\ actor' \in [Actor -> Work] /\ actor'[a] = r
      /\ \A b \in Actor \ {a} : actor'[b] = actor[b]
      BY <1>5, Movement DEF TypeOK
<1>8. TypeOK'
      BY <1>2, <1>4, <1>7 DEF TypeOK, Row, Tech
<1>9. \A b \in Actor \ {a} : InOrder(b)' /\ Backed(b)' /\ Kept(b)'
      BY <1>2, <1>7, Bystanders
<1>11. InOrder(a)' /\ Backed(a)' /\ Kept(a)'
      BY <1>5, <1>6, <1>7, FreshIsCovered
<1>12. Covered'
      BY <1>9, <1>11 DEF Covered
<1>13. Erasing' /\ NothingOutlivesTheLead'
      BY <1>2 DEF Erasing, NothingOutlivesTheLead
<1> QED BY <1>8, <1>12, <1>13

\* What a step of one actor must show, the others being covered as they were.
LEMMA OneMoves ==
    ASSUME TablesInv, NEW a \in Actor, NEW r \in Work, Moves(a, r),
           lead' = lead, eraser' = eraser,
           site' \in 0 .. MaxJobs, result' \in 0 .. MaxJobs,
           contacts' \subseteq Row(Contact), techs' \subseteq Row(Tech),
           socials' \in [Platform -> 0 .. MaxJobs],
           jobs' = jobs, overlapped' \subseteq {"contacts", "techs"},
           site # 0 => site' # 0,
           \A p \in Platform : socials'[p] = 0 => socials[p] = 0,
           actor'[a] = r => InOrder(a)' /\ Backed(a)' /\ Kept(a)',
           NothingOutlivesTheLead'
    PROVE  TablesInv'
<1> USE DEF TablesInv
<1>1. /\ actor' \in [Actor -> Work] /\ actor'[a] = r
      /\ \A b \in Actor \ {a} : actor'[b] = actor[b]
      BY Movement DEF TypeOK
<1>2. TypeOK'
      BY <1>1 DEF TypeOK, Row, Tech
<1>3. \A b \in Actor \ {a} : InOrder(b)' /\ Backed(b)' /\ Kept(b)'
      BY <1>1, Bystanders
<1>4. Covered'
      BY <1>1, <1>3 DEF Covered
<1>5. Erasing'
      BY DEF Erasing
<1> QED BY <1>2, <1>4, <1>5

\* The actor begins a part of the crawl's page, and changes nothing else.
LEMMA LoadInv ==
    ASSUME TablesInv, NEW a \in Actor, Load(a)
    PROVE  TablesInv'
<1> USE DEF TablesInv
<1> DEFINE r == ToStore(a, PartOf(actor[a].kind), result)
<1>1. /\ actor[a].at = "load" /\ result # 0 /\ Moves(a, r)
      /\ UNCHANGED <<lead, site, result, contacts, socials, techs, eraser, jobs, overlapped>>
      BY DEF Load, tables
<1>2. result \in 1 .. MaxJobs /\ PartOf(actor[a].kind) \in {"contacts", "socials", "techs"}
      /\ actor[a].job # 0
      BY <1>1 DEF TypeOK, Covered, InOrder, PartOf
<1>3. /\ r \in Work /\ r.at \in {"contacts", "socials", "techs"}
      /\ r.job # 0 /\ r.of # 0
      /\ r.added = {} /\ r.held = {} /\ r.shares = {}
      BY <1>2, ToStoreTyped
<1>4. ASSUME actor'[a] = r PROVE InOrder(a)' /\ Backed(a)' /\ Kept(a)'
      <2> HIDE DEF r
      <2> QED BY <1>3, <1>4, FreshIsCovered
<1>5. NothingOutlivesTheLead'
      BY <1>1 DEF NothingOutlivesTheLead
<1> HIDE DEF r
<1>6. /\ site' \in 0 .. MaxJobs /\ result' \in 0 .. MaxJobs
      /\ contacts' \subseteq Row(Contact) /\ techs' \subseteq Row(Tech)
      /\ socials' \in [Platform -> 0 .. MaxJobs] /\ overlapped' \subseteq {"contacts", "techs"}
      BY <1>1 DEF TypeOK
<1> QED BY <1>1, <1>3, <1>4, <1>5, <1>6, OneMoves

LEMMA StoreWebsiteInv ==
    ASSUME TablesInv, NEW a \in Actor, StoreWebsite(a)
    PROVE  TablesInv'
<1> USE DEF TablesInv
<1> DEFINE r == [actor[a] EXCEPT !.at = "result"]
<1>1. /\ actor[a].at = "website" /\ lead /\ site' = actor[a].job /\ Moves(a, r)
      /\ UNCHANGED <<lead, result, contacts, socials, techs, eraser, jobs, overlapped>>
      BY DEF StoreWebsite
<1>2. actor[a] \in Work /\ InOrder(a) /\ Backed(a) /\ Kept(a)
      BY DEF TypeOK, Covered
<1>3. site' \in 1 .. MaxJobs
      BY <1>1, <1>2 DEF Work, InOrder
<1>4. /\ r \in Work /\ r.at = "result" /\ r.job = actor[a].job /\ r.of = actor[a].of
      /\ r.added = {} /\ r.held = {} /\ r.shares = actor[a].shares
      BY <1>1, <1>2 DEF Work, Stage, InOrder
<1>5. ASSUME actor'[a] = r PROVE InOrder(a)' /\ Backed(a)' /\ Kept(a)'
      <2> HIDE DEF r
      <2> QED BY <1>1, <1>2, <1>3, <1>4, <1>5 DEF InOrder, Backed, Kept, Parts
<1>6. NothingOutlivesTheLead'
      BY <1>1, <1>3 DEF NothingOutlivesTheLead
<1>7. /\ site' \in 0 .. MaxJobs /\ result' \in 0 .. MaxJobs
      /\ contacts' \subseteq Row(Contact) /\ techs' \subseteq Row(Tech)
      /\ socials' \in [Platform -> 0 .. MaxJobs] /\ overlapped' \subseteq {"contacts", "techs"}
      BY <1>1, <1>3 DEF TypeOK
<1> HIDE DEF r
<1> QED BY <1>1, <1>3, <1>4, <1>5, <1>6, <1>7, OneMoves

LEMMA StoreResultInv ==
    ASSUME TablesInv, NEW a \in Actor, StoreResult(a)
    PROVE  TablesInv'
<1> USE DEF TablesInv
<1>1. /\ actor[a].at = "result" /\ site # 0 /\ result' = actor[a].job
      /\ UNCHANGED <<lead, site, contacts, socials, techs, eraser, jobs, overlapped>>
      /\ Moves(a, Idle) \/ Moves(a, ToStore(a, "contacts", actor[a].of))
      BY DEF StoreResult, Ends
<1>2. actor[a] \in Work /\ InOrder(a)
      BY DEF TypeOK, Covered
<1>3. actor[a].job \in 1 .. MaxJobs /\ actor[a].of \in 1 .. MaxJobs
      BY <1>1, <1>2 DEF Work, InOrder
<1>4. PICK r \in Work : /\ Moves(a, r) /\ r.at \in {"idle", "contacts"}
                        /\ r.at = "idle" \/ (r.job # 0 /\ r.of # 0)
                        /\ r.added = {} /\ r.held = {} /\ r.shares = {}
      BY <1>1, <1>3, IdleTyped, ToStoreTyped
<1>5. ASSUME actor'[a] = r PROVE InOrder(a)' /\ Backed(a)' /\ Kept(a)'
      BY <1>4, <1>5, FreshIsCovered DEF Parts
<1>6. NothingOutlivesTheLead'
      BY <1>1 DEF NothingOutlivesTheLead
<1>7. /\ site' \in 0 .. MaxJobs /\ result' \in 0 .. MaxJobs
      /\ contacts' \subseteq Row(Contact) /\ techs' \subseteq Row(Tech)
      /\ socials' \in [Platform -> 0 .. MaxJobs] /\ overlapped' \subseteq {"contacts", "techs"}
      BY <1>1, <1>3 DEF TypeOK
<1> QED BY <1>1, <1>4, <1>5, <1>6, <1>7, OneMoves

LEMMA InsertContactInv ==
    ASSUME TablesInv, NEW a \in Actor, InsertContact(a)
    PROVE  TablesInv'
<1> USE DEF TablesInv
<1>1. /\ actor[a].at = "contacts"
      /\ UNCHANGED <<lead, site, result, contacts, socials, techs, eraser, jobs>>
      BY DEF InsertContact, tables
<1>2. actor[a] \in Work /\ InOrder(a) /\ Backed(a) /\ Kept(a)
      BY DEF TypeOK, Covered
<1>3. overlapped' \subseteq {"contacts", "techs"}
      BY DEF InsertContact, Marks, TypeOK
<1>4. PICK x \in actor[a].left :
         \/ Moves(a, [actor[a] EXCEPT !.left = @ \ {x}])
         \/ Adds(a, x)
      BY DEF InsertContact
<1>5. NothingOutlivesTheLead'
      BY <1>1 DEF NothingOutlivesTheLead
<1>6. /\ site' \in 0 .. MaxJobs /\ result' \in 0 .. MaxJobs
      /\ contacts' \subseteq Row(Contact) /\ techs' \subseteq Row(Tech)
      /\ socials' \in [Platform -> 0 .. MaxJobs]
      BY <1>1 DEF TypeOK
<1>7. CASE Moves(a, [actor[a] EXCEPT !.left = @ \ {x}])
      <2> DEFINE r == [actor[a] EXCEPT !.left = actor[a].left \ {x}]
      <2>1. r \in Work /\ r.at = actor[a].at /\ r.job = actor[a].job /\ r.of = actor[a].of
            /\ r.kind = actor[a].kind
            /\ r.added = actor[a].added /\ r.held = actor[a].held /\ r.shares = actor[a].shares
            BY <1>2 DEF Work
      <2>2. ASSUME actor'[a] = r PROVE InOrder(a)' /\ Backed(a)' /\ Kept(a)'
            <3> HIDE DEF r
            <3> QED BY <1>1, <1>2, <2>1, <2>2 DEF InOrder, Backed, Kept, Parts
      <2>3. Moves(a, r)
            BY <1>7
      <2> HIDE DEF r
      <2> QED BY <1>1, <1>3, <1>5, <1>6, <2>1, <2>2, <2>3, OneMoves
<1>8. CASE Adds(a, x)
      <2> DEFINE r == [actor[a] EXCEPT !.left = actor[a].left \ {x},
                                       !.added = actor[a].added \union {x},
                                       !.shares = actor[a].shares \union {"lead"}]
      <2>1. Moves(a, r) /\ lead /\ eraser \in {"idle", "over"}
            BY <1>8 DEF Adds, LeadFree
      <2>2. r \in Work /\ r.at = actor[a].at /\ r.job = actor[a].job /\ r.of = actor[a].of
            /\ r.held = actor[a].held /\ r.shares = actor[a].shares \union {"lead"}
            BY <1>2 DEF Work
      <2>3. ASSUME actor'[a] = r PROVE InOrder(a)' /\ Backed(a)' /\ Kept(a)'
            <3> HIDE DEF r
            <3> QED BY <1>1, <1>2, <2>1, <2>2, <2>3 DEF InOrder, Backed, Kept, Parts
      <2> HIDE DEF r
      <2> QED BY <1>1, <1>3, <1>5, <1>6, <2>1, <2>2, <2>3, OneMoves
<1> QED BY <1>4, <1>7, <1>8

LEMMA CommitContactsInv ==
    ASSUME TablesInv, NEW a \in Actor, CommitContacts(a)
    PROVE  TablesInv'
<1> USE DEF TablesInv
<1>1. /\ actor[a].at = "contacts"
      /\ contacts' = contacts \union {[by |-> actor[a].job, is |-> x] : x \in actor[a].added}
      /\ UNCHANGED <<lead, site, result, socials, techs, eraser, jobs, overlapped>>
      /\ Moves(a, Idle) \/ Moves(a, ToStore(a, "socials", actor[a].of))
      BY DEF CommitContacts, Ends
<1>2. actor[a] \in Work /\ InOrder(a) /\ Backed(a) /\ Kept(a)
      BY DEF TypeOK, Covered
<1>3. actor[a].job \in 1 .. MaxJobs /\ actor[a].of \in 1 .. MaxJobs
      /\ actor[a].added \subseteq Contact
      BY <1>1, <1>2 DEF Work, InOrder, Parts
<1>4. PICK r \in Work : /\ Moves(a, r) /\ r.at \in {"idle", "socials"}
                        /\ r.at = "idle" \/ (r.job # 0 /\ r.of # 0)
                        /\ r.added = {} /\ r.held = {} /\ r.shares = {}
      BY <1>1, <1>3, IdleTyped, ToStoreTyped
<1>5. ASSUME actor'[a] = r PROVE InOrder(a)' /\ Backed(a)' /\ Kept(a)'
      BY <1>4, <1>5, FreshIsCovered DEF Parts
\* A contact that is added shares the lead's lock, so the lead is there.
<1>6. NothingOutlivesTheLead'
      <2>1. CASE actor[a].added = {}
            BY <1>1, <2>1 DEF NothingOutlivesTheLead
      <2>2. CASE actor[a].added # {}
            BY <1>1, <1>2, <2>2 DEF NothingOutlivesTheLead, Backed, Kept
      <2> QED BY <2>1, <2>2
<1>7. {[by |-> actor[a].job, is |-> x] : x \in actor[a].added} \subseteq Row(Contact)
      BY <1>3 DEF Row
<1>8. /\ site' \in 0 .. MaxJobs /\ result' \in 0 .. MaxJobs
      /\ contacts' \subseteq Row(Contact) /\ techs' \subseteq Row(Tech)
      /\ socials' \in [Platform -> 0 .. MaxJobs] /\ overlapped' \subseteq {"contacts", "techs"}
      BY <1>1, <1>7 DEF TypeOK
<1> QED BY <1>1, <1>4, <1>5, <1>6, <1>8, OneMoves

LEMMA UpsertSocialInv ==
    ASSUME TablesInv, NEW a \in Actor, UpsertSocial(a)
    PROVE  TablesInv'
<1> USE DEF TablesInv
<1> DEFINE s == IF socials[Fresh(a)] = 0 THEN actor[a].shares \union {"lead"}
                ELSE actor[a].shares
           r == [actor[a] EXCEPT !.line = Tail(actor[a].line),
                                 !.held = actor[a].held \union {Fresh(a)}, !.shares = s]
<1>1. /\ actor[a].at = "socials" /\ actor[a].line # <<>>
      /\ socials[Fresh(a)] = 0 => lead /\ eraser \in {"idle", "over"}
      /\ Moves(a, r)
      /\ UNCHANGED <<lead, site, result, contacts, socials, techs, eraser, jobs, overlapped>>
      BY DEF UpsertSocial, tables, LeadFree
<1>2. actor[a] \in Work /\ InOrder(a) /\ Backed(a) /\ Kept(a)
      BY DEF TypeOK, Covered
<1>3. actor[a].line \in Seq(Platform) /\ actor[a].line # <<>>
      BY <1>1, <1>2 DEF Work
<1>4. Fresh(a) \in Platform /\ Tail(actor[a].line) \in Seq(Platform)
      BY <1>3 DEF Fresh
<1>5. s \in SUBSET {"lead", "site"}
      BY <1>2 DEF Work
<1>6. actor[a].shares \subseteq s /\ s \subseteq actor[a].shares \union {"lead"}
      /\ (socials[Fresh(a)] = 0 => "lead" \in s)
      OBVIOUS
<1>7. "lead" \in s /\ "lead" \notin actor[a].shares => socials[Fresh(a)] = 0
      OBVIOUS
<1> HIDE DEF s
<1>8. /\ r \in Work /\ r.at = "socials" /\ r.job = actor[a].job /\ r.of = actor[a].of
      /\ r.added = actor[a].added /\ r.held = actor[a].held \union {Fresh(a)} /\ r.shares = s
      BY <1>1, <1>2, <1>4, <1>5 DEF Work
<1>9. ASSUME actor'[a] = r PROVE InOrder(a)' /\ Backed(a)' /\ Kept(a)'
      <2> HIDE DEF r
      <2>1. InOrder(a)'
            BY <1>1, <1>2, <1>8, <1>9 DEF InOrder, Parts
      <2>2. Backed(a)'
            BY <1>1, <1>2, <1>6, <1>8, <1>9 DEF InOrder, Backed
      <2>3. Kept(a)'
            BY <1>1, <1>2, <1>6, <1>7, <1>8, <1>9 DEF Kept
      <2> QED BY <2>1, <2>2, <2>3
<1>10. NothingOutlivesTheLead'
      BY <1>1 DEF NothingOutlivesTheLead
<1>11. /\ site' \in 0 .. MaxJobs /\ result' \in 0 .. MaxJobs
      /\ contacts' \subseteq Row(Contact) /\ techs' \subseteq Row(Tech)
      /\ socials' \in [Platform -> 0 .. MaxJobs] /\ overlapped' \subseteq {"contacts", "techs"}
      BY <1>1 DEF TypeOK
<1> HIDE DEF r
<1> QED BY <1>1, <1>8, <1>9, <1>10, <1>11, OneMoves

LEMMA CommitSocialsInv ==
    ASSUME TablesInv, NEW a \in Actor, CommitSocials(a)
    PROVE  TablesInv'
<1> USE DEF TablesInv
<1>1. /\ actor[a].at = "socials"
      /\ socials' = [p \in Platform |-> IF p \in actor[a].held THEN actor[a].job ELSE socials[p]]
      /\ UNCHANGED <<lead, site, result, contacts, techs, eraser, jobs, overlapped>>
      /\ Moves(a, Idle) \/ Moves(a, ToStore(a, "techs", actor[a].of))
      BY DEF CommitSocials, Ends
<1>2. actor[a] \in Work /\ InOrder(a) /\ Backed(a) /\ Kept(a)
      BY DEF TypeOK, Covered
<1>3. actor[a].job \in 1 .. MaxJobs /\ actor[a].of \in 1 .. MaxJobs
      BY <1>1, <1>2 DEF Work, InOrder, Parts
<1>4. PICK r \in Work : /\ Moves(a, r) /\ r.at \in {"idle", "techs"}
                        /\ r.at = "idle" \/ (r.job # 0 /\ r.of # 0)
                        /\ r.added = {} /\ r.held = {} /\ r.shares = {}
      BY <1>1, <1>3, IdleTyped, ToStoreTyped
<1>5. ASSUME actor'[a] = r PROVE InOrder(a)' /\ Backed(a)' /\ Kept(a)'
      BY <1>4, <1>5, FreshIsCovered DEF Parts
\* A profile that is new shares the lead's lock; one that is not had a lead.
<1>6. NothingOutlivesTheLead'
      <2>1. SUFFICES ASSUME ~lead, NEW p \in Platform PROVE socials'[p] = 0
            BY <1>1 DEF NothingOutlivesTheLead
      <2>2. socials[p] = 0
            BY <2>1 DEF NothingOutlivesTheLead
      <2>3. p \notin actor[a].held
            BY <1>2, <2>1, <2>2 DEF Backed, Kept
      <2> QED BY <1>1, <2>2, <2>3
<1>7. socials' \in [Platform -> 0 .. MaxJobs] /\ \A p \in Platform : socials'[p] = 0 => socials[p] = 0
      BY <1>1, <1>3 DEF TypeOK
<1>8. /\ site' \in 0 .. MaxJobs /\ result' \in 0 .. MaxJobs
      /\ contacts' \subseteq Row(Contact) /\ techs' \subseteq Row(Tech)
      /\ socials' \in [Platform -> 0 .. MaxJobs] /\ overlapped' \subseteq {"contacts", "techs"}
      BY <1>1, <1>7 DEF TypeOK
<1> QED BY <1>1, <1>4, <1>5, <1>6, <1>7, <1>8, OneMoves

LEMMA SeeTechsInv ==
    ASSUME TablesInv, NEW a \in Actor, SeeTechs(a)
    PROVE  TablesInv'
<1> USE DEF TablesInv
<1> DEFINE r == [actor[a] EXCEPT !.at = "remove", !.seen = techs]
<1>1. /\ actor[a].at = "techs" /\ Moves(a, r)
      /\ UNCHANGED <<lead, site, result, contacts, socials, techs, eraser, jobs>>
      BY DEF SeeTechs, tables
<1>2. actor[a] \in Work /\ InOrder(a) /\ Backed(a) /\ Kept(a) /\ techs \subseteq Row(Tech)
      BY DEF TypeOK, Covered
<1>3. overlapped' \subseteq {"contacts", "techs"}
      BY DEF SeeTechs, Marks, TypeOK
<1>4. /\ r \in Work /\ r.at = "remove" /\ r.job = actor[a].job /\ r.of = actor[a].of
      /\ r.added = actor[a].added /\ r.held = actor[a].held /\ r.shares = actor[a].shares
      BY <1>2 DEF Work, Stage
<1>5. ASSUME actor'[a] = r PROVE InOrder(a)' /\ Backed(a)' /\ Kept(a)'
      <2> HIDE DEF r
      <2> QED BY <1>1, <1>2, <1>4, <1>5 DEF InOrder, Backed, Kept, Parts
<1>6. NothingOutlivesTheLead'
      BY <1>1 DEF NothingOutlivesTheLead
<1>7. /\ site' \in 0 .. MaxJobs /\ result' \in 0 .. MaxJobs
      /\ contacts' \subseteq Row(Contact) /\ techs' \subseteq Row(Tech)
      /\ socials' \in [Platform -> 0 .. MaxJobs] /\ overlapped' \subseteq {"contacts", "techs"}
      BY <1>1, <1>3 DEF TypeOK
<1> HIDE DEF r
<1> QED BY <1>1, <1>4, <1>5, <1>6, <1>7, OneMoves

LEMMA RemoveTechsInv ==
    ASSUME TablesInv, NEW a \in Actor, RemoveTechs(a)
    PROVE  TablesInv'
<1> USE DEF TablesInv
<1> DEFINE r == [actor[a] EXCEPT !.at = "insert", !.removed = actor[a].seen \intersect techs]
<1>1. /\ actor[a].at = "remove" /\ Moves(a, r)
      /\ UNCHANGED <<lead, site, result, contacts, socials, techs, eraser, jobs, overlapped>>
      BY DEF RemoveTechs, tables
<1>2. actor[a] \in Work /\ InOrder(a) /\ Backed(a) /\ Kept(a)
      BY DEF TypeOK, Covered
<1>3. actor[a].seen \intersect techs \in SUBSET Row(Tech)
      BY <1>2 DEF Work
<1>4. /\ r \in Work /\ r.at = "insert" /\ r.job = actor[a].job /\ r.of = actor[a].of
      /\ r.added = actor[a].added /\ r.held = actor[a].held /\ r.shares = actor[a].shares
      BY <1>2, <1>3 DEF Work, Stage
<1>5. ASSUME actor'[a] = r PROVE InOrder(a)' /\ Backed(a)' /\ Kept(a)'
      <2> HIDE DEF r
      <2> QED BY <1>1, <1>2, <1>4, <1>5 DEF InOrder, Backed, Kept, Parts
<1>6. NothingOutlivesTheLead'
      BY <1>1 DEF NothingOutlivesTheLead
<1>7. /\ site' \in 0 .. MaxJobs /\ result' \in 0 .. MaxJobs
      /\ contacts' \subseteq Row(Contact) /\ techs' \subseteq Row(Tech)
      /\ socials' \in [Platform -> 0 .. MaxJobs] /\ overlapped' \subseteq {"contacts", "techs"}
      BY <1>1 DEF TypeOK
<1> HIDE DEF r
<1> QED BY <1>1, <1>4, <1>5, <1>6, <1>7, OneMoves

LEMMA InsertTechsInv ==
    ASSUME TablesInv, NEW a \in Actor, InsertTechs(a)
    PROVE  TablesInv'
<1> USE DEF TablesInv
<1> DEFINE s == IF Detected(a) # {} THEN {"site"} ELSE {}
           r == [actor[a] EXCEPT !.at = "commit", !.shares = s]
<1>1. /\ actor[a].at = "insert" /\ Moves(a, r)
      /\ Detected(a) # {} => site # 0 /\ eraser \in {"idle", "site", "over"}
      /\ UNCHANGED <<lead, site, result, contacts, socials, techs, eraser, jobs, overlapped>>
      BY DEF InsertTechs, tables, SiteFree
<1>2. actor[a] \in Work /\ InOrder(a)
      BY DEF TypeOK, Covered
<1>3. s \in SUBSET {"lead", "site"} /\ "lead" \notin s /\ ("site" \in s <=> Detected(a) # {})
      OBVIOUS
<1> HIDE DEF s
<1>4. /\ r \in Work /\ r.at = "commit" /\ r.job = actor[a].job /\ r.of = actor[a].of
      /\ r.kind = actor[a].kind
      /\ r.added = actor[a].added /\ r.held = actor[a].held /\ r.shares = s
      BY <1>2, <1>3 DEF Work, Stage
<1>5. ASSUME actor'[a] = r PROVE InOrder(a)' /\ Backed(a)' /\ Kept(a)'
      <2> HIDE DEF r
      <2>1. Detected(a)' = Detected(a)
            BY <1>4, <1>5 DEF Detected
      <2>2. actor'[a].added = {} /\ actor'[a].held = {}
            BY <1>1, <1>2, <1>4, <1>5 DEF InOrder
      <2>3. InOrder(a)'
            BY <1>1, <1>2, <1>4, <1>5 DEF InOrder, Parts
      <2>4. Backed(a)'
            BY <1>3, <1>4, <1>5, <2>1, <2>2 DEF Backed
      <2>5. Kept(a)'
            BY <1>1, <1>3, <1>4, <1>5 DEF Kept
      <2> QED BY <2>3, <2>4, <2>5
<1>6. NothingOutlivesTheLead'
      BY <1>1 DEF NothingOutlivesTheLead
<1>7. /\ site' \in 0 .. MaxJobs /\ result' \in 0 .. MaxJobs
      /\ contacts' \subseteq Row(Contact) /\ techs' \subseteq Row(Tech)
      /\ socials' \in [Platform -> 0 .. MaxJobs] /\ overlapped' \subseteq {"contacts", "techs"}
      BY <1>1 DEF TypeOK
<1> HIDE DEF r
<1> QED BY <1>1, <1>4, <1>5, <1>6, <1>7, OneMoves

LEMMA DetectedTyped ==
    ASSUME TablesInv, NEW a \in Actor, actor[a].of # 0
    PROVE  Detected(a) \subseteq Tech
<1>1. actor[a].of \in 1 .. MaxJobs
      BY FoundAssumption DEF TablesInv, TypeOK, Work
<1>2. Found[actor[a].of].bare \subseteq Found[actor[a].of].techs
      BY <1>1, FoundAssumption
<1> QED BY <1>1, <1>2 DEF Detected, Tech

LEMMA CommitTechsInv ==
    ASSUME TablesInv, NEW a \in Actor, CommitTechs(a)
    PROVE  TablesInv'
<1> USE DEF TablesInv
<1>1. /\ actor[a].at = "commit" /\ Moves(a, Idle)
      /\ techs' = (techs \ actor[a].removed) \union
                  {[by |-> actor[a].job, is |-> t] : t \in Detected(a)}
      /\ UNCHANGED <<lead, site, result, contacts, socials, eraser, jobs, overlapped>>
      BY DEF CommitTechs, Ends
<1>2. actor[a] \in Work /\ InOrder(a) /\ Backed(a) /\ Kept(a)
      BY DEF TypeOK, Covered
<1>3. actor[a].job \in 1 .. MaxJobs /\ Detected(a) \subseteq Tech
      BY <1>1, <1>2, DetectedTyped DEF Work, InOrder, Parts
<1>4. ASSUME actor'[a] = Idle PROVE InOrder(a)' /\ Backed(a)' /\ Kept(a)'
      BY <1>4, IdleTyped, FreshIsCovered DEF Parts
\* A technology that is added shares the website's lock, so the website is there.
<1>5. NothingOutlivesTheLead'
      <2>1. SUFFICES ASSUME site = 0 PROVE techs' = {}
            BY <1>1 DEF NothingOutlivesTheLead
      <2>2. techs = {} /\ Detected(a) = {}
            BY <1>1, <1>2, <2>1 DEF NothingOutlivesTheLead, Backed, Kept
      <2> QED BY <1>1, <2>2
<1>6. {[by |-> actor[a].job, is |-> t] : t \in Detected(a)} \subseteq Row(Tech)
      BY <1>3 DEF Row
<1>7. /\ site' \in 0 .. MaxJobs /\ result' \in 0 .. MaxJobs
      /\ contacts' \subseteq Row(Contact) /\ techs' \subseteq Row(Tech)
      /\ socials' \in [Platform -> 0 .. MaxJobs] /\ overlapped' \subseteq {"contacts", "techs"}
      BY <1>1, <1>6 DEF TypeOK
<1> QED BY <1>1, <1>4, <1>5, <1>7, IdleTyped, OneMoves

-----------------------------------------------------------------------------
(* The steps of the deletion.                                               *)

\* While the deletion locks a row, nobody shares it.
LEMMA LockingInv ==
    ASSUME TablesInv, EraseLead \/ EraseSite \/ EraseTechs \/ EraseFails
    PROVE  TablesInv'
<1> USE DEF TablesInv
<1>1. UNCHANGED <<lead, site, result, contacts, socials, techs, actor, jobs, overlapped>>
      BY DEF EraseLead, EraseSite, EraseTechs, EraseFails, tables
<1>2. \/ eraser = "idle" /\ eraser' = "site" /\ lead /\ ~Sharing("lead")
      \/ eraser = "site" /\ eraser' = "techs" /\ ~Sharing("site")
      \/ eraser = "techs" /\ eraser' = "socials"
      \/ eraser' = "over"
      BY DEF EraseLead, EraseSite, EraseTechs, EraseFails
<1>3. TypeOK'
      BY <1>1, <1>2 DEF TypeOK, Row, Tech
<1>4. ASSUME NEW a \in Actor PROVE InOrder(a)' /\ Backed(a)' /\ Kept(a)'
      <2>1. InOrder(a) /\ Backed(a) /\ Kept(a)
            BY DEF Covered
      <2>2. InOrder(a)' /\ Backed(a)'
            BY <1>1, <2>1 DEF InOrder, Backed, Detected
      <2>3. Kept(a)'
            BY <1>1, <1>2, <2>1 DEF Kept, Sharing
      <2> QED BY <2>2, <2>3
<1>5. Covered'
      BY <1>4 DEF Covered
<1>6. Erasing' /\ NothingOutlivesTheLead'
      BY <1>1, <1>2 DEF Erasing, NothingOutlivesTheLead
<1> QED BY <1>3, <1>5, <1>6

\* When the rows go, nobody has a row of its own under way.
LEMMA EraseRestInv ==
    ASSUME TablesInv, EraseRest
    PROVE  TablesInv'
<1> USE DEF TablesInv
<1>1. /\ eraser = "socials" /\ eraser' = "over"
      /\ lead' = FALSE /\ site' = 0 /\ result' = 0
      /\ contacts' = {} /\ techs' = {} /\ socials' = [p \in Platform |-> 0]
      /\ UNCHANGED <<actor, jobs, overlapped>>
      /\ \A a \in Actor : \A p \in actor[a].held : socials[p] = 0
      BY DEF EraseRest
<1>2. 0 \in 0 .. MaxJobs
      BY FoundAssumption
<1>3. TypeOK'
      BY <1>1, <1>2 DEF TypeOK, Row, Tech
<1>4. ASSUME NEW a \in Actor PROVE InOrder(a)' /\ Backed(a)' /\ Kept(a)'
      <2>1. InOrder(a) /\ Backed(a) /\ Kept(a)
            BY DEF Covered
      <2>2. "lead" \notin actor[a].shares /\ "site" \notin actor[a].shares
            BY <1>1, <2>1 DEF Kept
      <2>3. actor[a].held = {} /\ actor[a].added = {}
            BY <1>1, <2>1, <2>2 DEF Backed
      <2>4. InOrder(a)' /\ Backed(a)'
            BY <1>1, <2>1, <2>2, <2>3 DEF InOrder, Backed, Detected
      <2>5. Kept(a)'
            BY <1>1, <2>2 DEF Kept
      <2> QED BY <2>4, <2>5
<1>5. Covered'
      BY <1>4 DEF Covered
<1>6. Erasing' /\ NothingOutlivesTheLead'
      BY <1>1 DEF Erasing, NothingOutlivesTheLead
<1> QED BY <1>3, <1>5, <1>6

-----------------------------------------------------------------------------
LEMMA InitInv == Init => TablesInv
<1> SUFFICES ASSUME Init PROVE TablesInv
    OBVIOUS
<1>1. TypeOK
      BY IdleTyped, FoundAssumption DEF Init, TypeOK
<1>2. Covered
      BY IdleTyped DEF Init, Covered, InOrder, Backed, Kept, Parts
<1> QED BY <1>1, <1>2 DEF Init, TablesInv, Erasing, NothingOutlivesTheLead

LEMMA StepInv == TablesInv /\ [Next]_vars => TablesInv'
<1> SUFFICES ASSUME TablesInv, [Next]_vars PROVE TablesInv'
    OBVIOUS
<1>1. ASSUME NEW a \in Actor, Step(a) PROVE TablesInv'
      <2>1. CASE Orphan(a)
            BY <2>1, RollbackInv DEF Orphan
      <2> QED BY <1>1, <2>1, LoadInv, StoreWebsiteInv, StoreResultInv, InsertContactInv,
                 CommitContactsInv, UpsertSocialInv, CommitSocialsInv, SeeTechsInv,
                 RemoveTechsInv, InsertTechsInv, CommitTechsInv DEF Step
<1>2. ASSUME NEW a \in Actor, Fails(a) PROVE TablesInv'
      BY <1>2, RollbackInv DEF Fails
<1>3. ASSUME NEW x \in Actor \union {Eraser}, Victim(x) PROVE TablesInv'
      BY <1>2, <1>3, LockingInv DEF Victim
<1>4. CASE UNCHANGED vars
      <2>1. /\ TypeOK' /\ Erasing' /\ NothingOutlivesTheLead'
            BY <1>4 DEF vars, tables, TablesInv, TypeOK, Erasing, NothingOutlivesTheLead, Row, Tech
      <2>2. Covered'
            BY <1>4 DEF vars, tables, TablesInv, Covered, InOrder, Backed, Kept, Detected
      <2> QED BY <2>1, <2>2 DEF TablesInv
<1>5. CASE Next
      BY <1>1, <1>2, <1>3, <1>5, BeginInv, LockingInv, EraseRestInv DEF Next, Cascade
<1> QED BY <1>4, <1>5

\* The invariant holds in every reachable state.
THEOREM TablesInvariant == Spec => []TablesInv
<1> QED BY InitInv, StepInv, PTL DEF Spec

\* A deleted lead leaves no website, contact, profile, crawl or technology behind
\* (BusinessRepo.Delete beside crawlWebsite and the extract jobs).
THEOREM DeletionIsWhole == Spec => []NothingOutlivesTheLead
<1>1. TablesInv => NothingOutlivesTheLead
      BY DEF TablesInv
<1> QED BY <1>1, TablesInvariant, PTL

-----------------------------------------------------------------------------
(* The technologies are of one job.                                         *)

Places == {"remove", "insert", "commit"}

\* Rows of jobs that are over.
Old(rows) ==
    \A r \in rows : r.by <= jobs /\ \A b \in Actor : actor[b].at # "idle" => r.by # actor[b].job

\* Of a job's rows that are still there, all or none.
Closed(rows) ==
    \A r \in rows : \A s \in techs : r \in techs /\ s.by = r.by => s \in rows

JobsApart ==
    /\ \A a \in Actor : actor[a].at # "idle" => actor[a].job <= jobs
    /\ \A a, b \in Actor :
          actor[a].at # "idle" /\ actor[b].at # "idle" /\ a # b => actor[a].job # actor[b].job
    /\ Old(techs)

Snapshots ==
    \A a \in Actor :
        /\ actor[a].at \notin Places => actor[a].seen = {}
        /\ actor[a].removed \subseteq actor[a].seen
        /\ actor[a].at \notin {"insert", "commit"} => actor[a].removed = {}
        /\ Old(actor[a].seen)
        /\ Closed(actor[a].seen) /\ Closed(actor[a].removed)

\* A replacement that is alone removes whatever there is.
Alone ==
    "techs" \notin overlapped =>
        \A a \in Actor :
            /\ \A b \in Actor : actor[a].at \in Places /\ actor[b].at \in Places => a = b
            /\ actor[a].at = "remove" => techs \subseteq actor[a].seen
            /\ actor[a].at \in {"insert", "commit"} => techs \subseteq actor[a].removed

TechsInv == JobsApart /\ Snapshots /\ Alone /\ TechsAreOfOneJob

\* A step that touches neither the technologies nor what is known of them.
Quiet(a) ==
    /\ \A b \in Actor \ {a} : actor'[b] = actor[b]
    /\ techs' = techs /\ jobs' = jobs
    /\ "techs" \in overlapped' <=> "techs" \in overlapped
    /\ actor'[a].at = "idle" \/ (actor[a].at # "idle" /\ actor'[a].job = actor[a].job)
    /\ \/ /\ actor'[a].at \notin Places
          /\ actor'[a].seen = {} /\ actor'[a].removed = {}
       \/ /\ actor'[a].at = actor[a].at \/ (actor[a].at = "insert" /\ actor'[a].at = "commit")
          /\ actor'[a].seen = actor[a].seen /\ actor'[a].removed = actor[a].removed
       \/ /\ actor'[a].at \notin Places /\ actor[a].at \notin Places
          /\ actor'[a].seen = actor[a].seen /\ actor'[a].removed = actor[a].removed

LEMMA QuietInv ==
    ASSUME TablesInv, TablesInv', TechsInv, NEW a \in Actor, Quiet(a)
    PROVE  TechsInv'
<1> USE DEF TechsInv
<1>1. ASSUME NEW b \in Actor, actor'[b].at # "idle"
      PROVE  actor[b].at # "idle" /\ actor'[b].job = actor[b].job
      BY <1>1 DEF Quiet
<1>2. ASSUME NEW b \in Actor
      PROVE  \/ actor'[b].seen = {} /\ actor'[b].removed = {}
             \/ actor'[b].seen = actor[b].seen /\ actor'[b].removed = actor[b].removed
      BY <1>2 DEF Quiet
<1>3. techs' = techs /\ jobs' = jobs /\ ("techs" \in overlapped' <=> "techs" \in overlapped)
      BY DEF Quiet
<1>4. JobsApart'
      BY <1>1, <1>3 DEF JobsApart, Old
<1>5. Snapshots'
      <2> SUFFICES ASSUME NEW b \in Actor
                   PROVE  /\ actor'[b].at \notin Places => actor'[b].seen = {}
                          /\ actor'[b].removed \subseteq actor'[b].seen
                          /\ actor'[b].at \notin {"insert", "commit"} => actor'[b].removed = {}
                          /\ Old(actor[b].seen)'
                          /\ Closed(actor[b].seen)' /\ Closed(actor[b].removed)'
          BY DEF Snapshots
      <2>1. /\ actor[b].at \notin Places => actor[b].seen = {}
            /\ actor[b].removed \subseteq actor[b].seen
            /\ actor[b].at \notin {"insert", "commit"} => actor[b].removed = {}
            /\ Old(actor[b].seen)
            /\ Closed(actor[b].seen) /\ Closed(actor[b].removed)
            BY DEF Snapshots
      <2>2. /\ actor'[b].at \notin Places => actor'[b].seen = {}
            /\ actor'[b].removed \subseteq actor'[b].seen
            /\ actor'[b].at \notin {"insert", "commit"} => actor'[b].removed = {}
            BY <2>1 DEF Quiet, Places
      <2>3. Old(actor[b].seen)'
            BY <1>1, <1>2, <1>3, <2>1 DEF Old
      <2>4. Closed(actor[b].seen)' /\ Closed(actor[b].removed)'
            BY <1>2, <1>3, <2>1 DEF Closed
      <2> QED BY <2>2, <2>3, <2>4
<1>6. Alone'
      <2> SUFFICES ASSUME "techs" \notin overlapped', NEW b \in Actor
                   PROVE  /\ \A c \in Actor : actor'[b].at \in Places /\ actor'[c].at \in Places => b = c
                          /\ actor'[b].at = "remove" => techs' \subseteq actor'[b].seen
                          /\ actor'[b].at \in {"insert", "commit"} => techs' \subseteq actor'[b].removed
          BY DEF Alone
      <2>1. ASSUME NEW c \in Actor, actor'[c].at \in Places
            PROVE  /\ actor[c].at \in Places
                   /\ actor'[c].at = "remove" <=> actor[c].at = "remove"
                   /\ actor'[c].seen = actor[c].seen /\ actor'[c].removed = actor[c].removed
            BY <2>1 DEF Quiet, Places
      <2> QED BY <1>3, <2>1 DEF Alone, Places
<1>7. TechsAreOfOneJob'
      BY <1>3 DEF TechsAreOfOneJob
<1> QED BY <1>4, <1>5, <1>6, <1>7

LEMMA StepIsQuiet ==
    ASSUME TablesInv, NEW a \in Actor,
           \/ Load(a) \/ StoreWebsite(a) \/ StoreResult(a) \/ InsertContact(a)
           \/ CommitContacts(a) \/ UpsertSocial(a) \/ CommitSocials(a) \/ InsertTechs(a)
           \/ Rollback(a)
    PROVE  Quiet(a)
<1> USE DEF TablesInv
<1>1. /\ actor \in [Actor -> Work] /\ actor[a] \in Work
      BY DEF TypeOK
<1>2. ASSUME NEW r, Moves(a, r) PROVE actor'[a] = r /\ \A b \in Actor \ {a} : actor'[b] = actor[b]
      BY <1>1, <1>2 DEF Moves
<1>3. /\ Idle.at = "idle" /\ Idle.seen = {} /\ Idle.removed = {}
      BY DEF Idle, Afresh
<1>4. ASSUME NEW part, NEW of
      PROVE  LET r == ToStore(a, part, of)
             IN /\ r.at = part /\ r.job = actor[a].job /\ r.seen = {} /\ r.removed = {}
      BY DEF ToStore, Afresh
<1>5. CASE Rollback(a)
      BY <1>2, <1>3, <1>5 DEF Rollback, tables, Quiet, Places
<1>6. CASE Load(a)
      <2>1. actor[a].kind \in {"contacts", "socials", "technologies"}
            BY <1>6 DEF Load, Covered, InOrder
      <2>2. PartOf(actor[a].kind) \notin Places
            BY <2>1 DEF PartOf, Places
      <2> QED BY <1>2, <1>4, <1>6, <2>2 DEF Load, tables, Quiet
<1>7. CASE StoreWebsite(a)
      <2>1. actor'[a] = [actor[a] EXCEPT !.at = "result"]
            BY <1>2, <1>7 DEF StoreWebsite
      <2>2. actor'[a].at = "result" /\ actor'[a].job = actor[a].job
            /\ actor'[a].seen = actor[a].seen /\ actor'[a].removed = actor[a].removed
            BY <1>1, <2>1 DEF Work
      <2> QED BY <1>2, <1>7, <2>2 DEF StoreWebsite, Quiet, Places
<1>8. CASE StoreResult(a)
      BY <1>2, <1>3, <1>4, <1>8 DEF StoreResult, Ends, Quiet, Places
<1>9. CASE InsertContact(a)
      <2>1. PICK x \in actor[a].left :
               \/ Moves(a, [actor[a] EXCEPT !.left = @ \ {x}])
               \/ Moves(a, [actor[a] EXCEPT !.left = @ \ {x}, !.added = @ \union {x},
                                            !.shares = @ \union {"lead"}])
            BY <1>9 DEF InsertContact, Adds
      <2>2. \/ actor'[a] = [actor[a] EXCEPT !.left = actor[a].left \ {x}]
            \/ actor'[a] = [actor[a] EXCEPT !.left = actor[a].left \ {x},
                                            !.added = actor[a].added \union {x},
                                            !.shares = actor[a].shares \union {"lead"}]
            BY <1>2, <2>1
      <2>3. actor'[a].at = actor[a].at /\ actor'[a].job = actor[a].job
            /\ actor'[a].seen = actor[a].seen /\ actor'[a].removed = actor[a].removed
            BY <1>1, <2>2 DEF Work
      <2>4. "techs" \in overlapped' <=> "techs" \in overlapped
            BY <1>9 DEF InsertContact, Marks
      <2>5. \A b \in Actor \ {a} : actor'[b] = actor[b]
            BY <1>2, <2>1
      <2> QED BY <1>9, <2>3, <2>4, <2>5 DEF InsertContact, tables, Quiet, Places
<1>10. CASE CommitContacts(a)
      BY <1>2, <1>3, <1>4, <1>10 DEF CommitContacts, Ends, Quiet, Places
<1>11. CASE UpsertSocial(a)
      <2> DEFINE s == IF socials[Fresh(a)] = 0 THEN actor[a].shares \union {"lead"}
                      ELSE actor[a].shares
      <2>1. Moves(a, [actor[a] EXCEPT !.line = Tail(actor[a].line),
                                      !.held = actor[a].held \union {Fresh(a)}, !.shares = s])
            BY <1>11 DEF UpsertSocial
      <2> HIDE DEF s
      <2>2. actor'[a] = [actor[a] EXCEPT !.line = Tail(actor[a].line),
                                        !.held = actor[a].held \union {Fresh(a)}, !.shares = s]
            BY <1>2, <2>1
      <2>3. actor'[a].at = actor[a].at /\ actor'[a].job = actor[a].job
            /\ actor'[a].seen = actor[a].seen /\ actor'[a].removed = actor[a].removed
            BY <1>1, <2>2 DEF Work
      <2>4. \A b \in Actor \ {a} : actor'[b] = actor[b]
            BY <1>2, <2>1
      <2> QED BY <1>11, <2>3, <2>4 DEF UpsertSocial, tables, Quiet, Places
<1>12. CASE CommitSocials(a)
      BY <1>2, <1>3, <1>4, <1>12 DEF CommitSocials, Ends, Quiet, Places
<1>13. CASE InsertTechs(a)
      <2> DEFINE s == IF Detected(a) # {} THEN {"site"} ELSE {}
      <2>1. Moves(a, [actor[a] EXCEPT !.at = "commit", !.shares = s])
            BY <1>13 DEF InsertTechs
      <2> HIDE DEF s
      <2>2. actor'[a] = [actor[a] EXCEPT !.at = "commit", !.shares = s]
            BY <1>2, <2>1
      <2>3. actor'[a].at = "commit" /\ actor'[a].job = actor[a].job
            /\ actor'[a].seen = actor[a].seen /\ actor'[a].removed = actor[a].removed
            BY <1>1, <2>2 DEF Work
      <2>4. \A b \in Actor \ {a} : actor'[b] = actor[b]
            BY <1>2, <2>1
      <2> QED BY <1>13, <2>3, <2>4 DEF InsertTechs, tables, Quiet, Places
<1> QED BY <1>5, <1>6, <1>7, <1>8, <1>9, <1>10, <1>11, <1>12, <1>13

LEMMA BeginApart ==
    ASSUME TablesInv, TablesInv', TechsInv, NEW a \in Actor, Begin(a)
    PROVE  TechsInv'
<1> USE DEF TechsInv
<1>1. /\ techs' = techs /\ jobs' = jobs + 1 /\ overlapped' = overlapped /\ jobs \in Nat
      BY FoundAssumption DEF Begin, tables, TablesInv, TypeOK
<1>2. /\ \A b \in Actor \ {a} : actor'[b] = actor[b]
      /\ actor'[a].at \in {"website", "load"} /\ actor'[a].job = jobs + 1
      /\ actor'[a].seen = {} /\ actor'[a].removed = {}
      BY DEF Begin, Moves, Afresh, TablesInv, TypeOK
<1>3. /\ \A r \in techs : r.by \in Nat
      /\ \A b \in Actor : actor[b].job \in Nat /\ \A r \in actor[b].seen : r.by \in Nat
      <2>1. ASSUME NEW r \in Row(Tech) PROVE r.by \in Nat
            BY FoundAssumption DEF Row
      <2>2. techs \subseteq Row(Tech) /\ \A b \in Actor : actor[b] \in Work
            BY DEF TablesInv, TypeOK
      <2>3. ASSUME NEW b \in Actor PROVE actor[b].job \in Nat /\ actor[b].seen \subseteq Row(Tech)
            BY <2>2, FoundAssumption DEF Work
      <2> QED BY <2>1, <2>2, <2>3
<1>4. ASSUME NEW rows, Old(rows), \A r \in rows : r.by \in Nat
      PROVE  Old(rows)'
      <2>1. ASSUME NEW r \in rows PROVE r.by <= jobs /\ r.by # jobs + 1 /\ r.by <= jobs + 1
            BY <1>1, <1>4 DEF Old
      <2>2. ASSUME NEW r \in rows, NEW b \in Actor, actor'[b].at # "idle"
            PROVE  r.by # actor'[b].job
            BY <1>2, <1>4, <2>1, <2>2 DEF Old
      <2> QED BY <1>1, <2>1, <2>2 DEF Old
<1>5. JobsApart'
      <2>1. Old(techs)'
            BY <1>1, <1>3, <1>4 DEF JobsApart, Old
      <2>2. ASSUME NEW b \in Actor, actor'[b].at # "idle" PROVE actor'[b].job <= jobs'
            BY <1>1, <1>2, <1>3, <2>2 DEF JobsApart
      <2>3. ASSUME NEW b \in Actor, NEW c \in Actor, actor'[b].at # "idle", actor'[c].at # "idle",
                   b # c
            PROVE  actor'[b].job # actor'[c].job
            <3>1. \A d \in Actor : d # a /\ actor[d].at # "idle" => actor[d].job # jobs + 1
                  BY <1>1, <1>3 DEF JobsApart
            <3> QED BY <1>2, <2>3, <3>1 DEF JobsApart
      <2> QED BY <2>1, <2>2, <2>3 DEF JobsApart
<1>6. Snapshots'
      <2> SUFFICES ASSUME NEW b \in Actor
                   PROVE  /\ actor'[b].at \notin Places => actor'[b].seen = {}
                          /\ actor'[b].removed \subseteq actor'[b].seen
                          /\ actor'[b].at \notin {"insert", "commit"} => actor'[b].removed = {}
                          /\ Old(actor[b].seen)'
                          /\ Closed(actor[b].seen)' /\ Closed(actor[b].removed)'
          BY DEF Snapshots
      <2>1. CASE b = a
            BY <1>2, <2>1 DEF Old, Closed
      <2>2. CASE b # a
            <3>1. actor'[b] = actor[b]
                  BY <1>2, <2>2
            <3>2. Old(actor[b].seen)'
                  BY <1>3, <1>4, <3>1 DEF Snapshots, Old
            <3> QED BY <1>1, <3>1, <3>2 DEF Snapshots, Closed
      <2> QED BY <2>1, <2>2
<1>7. Alone'
      BY <1>1, <1>2 DEF Alone, Places
<1>8. TechsAreOfOneJob'
      BY <1>1 DEF TechsAreOfOneJob
<1> QED BY <1>5, <1>6, <1>7, <1>8

\* What is old stays so while no job begins.
LEMMA OldStays ==
    ASSUME jobs' = jobs,
           \A b \in Actor : actor'[b].at # "idle" =>
               actor[b].at # "idle" /\ actor'[b].job = actor[b].job
    PROVE  /\ Old(techs) /\ techs' = techs => Old(techs)'
           /\ \A a \in Actor :
                 Old(actor[a].seen) /\ actor'[a].seen = actor[a].seen => Old(actor[a].seen)'
<1>1. Old(techs) /\ techs' = techs => Old(techs)'
      BY DEF Old
<1>2. ASSUME NEW a \in Actor, Old(actor[a].seen), actor'[a].seen = actor[a].seen
      PROVE  Old(actor[a].seen)'
      BY <1>2 DEF Old
<1> QED BY <1>1, <1>2

\* The snapshot is what there is; a second one is an overlap.
LEMMA SeeTechsApart ==
    ASSUME TablesInv, TablesInv', TechsInv, NEW a \in Actor, SeeTechs(a)
    PROVE  TechsInv'
<1> USE DEF TechsInv
<1>1. /\ techs' = techs /\ jobs' = jobs /\ actor[a].at = "techs"
      /\ "techs" \notin overlapped' =>
            /\ "techs" \notin overlapped
            /\ \A b \in Actor \ {a} : actor[b].at \notin Places
      BY DEF SeeTechs, tables, Marks, Places
<1>2. actor'[a] = [actor[a] EXCEPT !.at = "remove", !.seen = techs]
      /\ \A b \in Actor \ {a} : actor'[b] = actor[b]
      BY DEF SeeTechs, Moves, TablesInv, TypeOK
<1>3. /\ actor'[a].at = "remove" /\ actor'[a].job = actor[a].job
      /\ actor'[a].seen = techs /\ actor'[a].removed = actor[a].removed
      BY <1>2 DEF TablesInv, TypeOK, Work
<1>4. \A b \in Actor : actor'[b].at # "idle" =>
               actor[b].at # "idle" /\ actor'[b].job = actor[b].job
      BY <1>1, <1>2, <1>3
<1>5. JobsApart'
      BY <1>1, <1>4, OldStays DEF JobsApart
<1>6. Snapshots'
      <2> SUFFICES ASSUME NEW b \in Actor
                   PROVE  /\ actor'[b].at \notin Places => actor'[b].seen = {}
                          /\ actor'[b].removed \subseteq actor'[b].seen
                          /\ actor'[b].at \notin {"insert", "commit"} => actor'[b].removed = {}
                          /\ Old(actor[b].seen)'
                          /\ Closed(actor[b].seen)' /\ Closed(actor[b].removed)'
          BY DEF Snapshots
      <2>1. CASE b = a
            <3>1. actor'[a].removed = {}
                  BY <1>1, <1>3 DEF Snapshots
            <3>2. Old(techs)'
                  BY <1>1, <1>4, OldStays DEF JobsApart
            <3>3. Old(actor[a].seen)'
                  BY <1>1, <1>3, <3>2 DEF Old
            <3> QED BY <1>1, <1>3, <2>1, <3>1, <3>3 DEF Closed, Places
      <2>2. CASE b # a
            <3>1. actor'[b] = actor[b]
                  BY <1>2, <2>2
            <3>2. Old(actor[b].seen)'
                  BY <1>1, <1>4, <3>1, OldStays DEF Snapshots
            <3> QED BY <1>1, <3>1, <3>2 DEF Snapshots, Closed
      <2> QED BY <2>1, <2>2
<1>7. Alone'
      <2> SUFFICES ASSUME "techs" \notin overlapped', NEW b \in Actor
                   PROVE  /\ \A c \in Actor : actor'[b].at \in Places /\ actor'[c].at \in Places => b = c
                          /\ actor'[b].at = "remove" => techs' \subseteq actor'[b].seen
                          /\ actor'[b].at \in {"insert", "commit"} => techs' \subseteq actor'[b].removed
          BY DEF Alone
      <2>1. ASSUME NEW c \in Actor, c # a PROVE actor'[c].at \notin Places
            BY <1>1, <1>2, <2>1
      <2> QED BY <1>1, <1>3, <2>1 DEF Places
<1>8. TechsAreOfOneJob'
      <2>1. "techs" \notin overlapped' => "techs" \notin overlapped
            BY <1>1
      <2> QED BY <1>1, <2>1 DEF TechsAreOfOneJob
<1> QED BY <1>5, <1>6, <1>7, <1>8

LEMMA RemoveTechsApart ==
    ASSUME TablesInv, TablesInv', TechsInv, NEW a \in Actor, RemoveTechs(a)
    PROVE  TechsInv'
<1> USE DEF TechsInv
<1>1. /\ techs' = techs /\ jobs' = jobs /\ overlapped' = overlapped /\ actor[a].at = "remove"
      BY DEF RemoveTechs, tables
<1>2. actor'[a] = [actor[a] EXCEPT !.at = "insert", !.removed = actor[a].seen \intersect techs]
      /\ \A b \in Actor \ {a} : actor'[b] = actor[b]
      BY DEF RemoveTechs, Moves, TablesInv, TypeOK
<1>3. /\ actor'[a].at = "insert" /\ actor'[a].job = actor[a].job
      /\ actor'[a].seen = actor[a].seen /\ actor'[a].removed = actor[a].seen \intersect techs
      BY <1>2 DEF TablesInv, TypeOK, Work
<1>4. \A b \in Actor : actor'[b].at # "idle" =>
               actor[b].at # "idle" /\ actor'[b].job = actor[b].job
      BY <1>1, <1>2, <1>3
<1>5. JobsApart'
      BY <1>1, <1>4, OldStays DEF JobsApart
<1>6. Snapshots'
      <2> SUFFICES ASSUME NEW b \in Actor
                   PROVE  /\ actor'[b].at \notin Places => actor'[b].seen = {}
                          /\ actor'[b].removed \subseteq actor'[b].seen
                          /\ actor'[b].at \notin {"insert", "commit"} => actor'[b].removed = {}
                          /\ Old(actor[b].seen)'
                          /\ Closed(actor[b].seen)' /\ Closed(actor[b].removed)'
          BY DEF Snapshots
      <2>1. actor'[b].seen = actor[b].seen
            BY <1>2, <1>3
      <2>2. Old(actor[b].seen)'
            BY <1>1, <1>4, <2>1, OldStays DEF Snapshots
      <2>3. Closed(actor[b].seen)'
            BY <1>1, <2>1 DEF Snapshots, Closed
      <2>4. Closed(actor[b].removed)'
            BY <1>1, <1>2, <1>3 DEF Snapshots, Closed
      <2>5. /\ actor'[b].at \notin Places => actor'[b].seen = {}
            /\ actor'[b].removed \subseteq actor'[b].seen
            /\ actor'[b].at \notin {"insert", "commit"} => actor'[b].removed = {}
            BY <1>2, <1>3 DEF Snapshots, Places
      <2> QED BY <2>2, <2>3, <2>4, <2>5
<1>7. Alone'
      <2> SUFFICES ASSUME "techs" \notin overlapped', NEW b \in Actor
                   PROVE  /\ \A c \in Actor : actor'[b].at \in Places /\ actor'[c].at \in Places => b = c
                          /\ actor'[b].at = "remove" => techs' \subseteq actor'[b].seen
                          /\ actor'[b].at \in {"insert", "commit"} => techs' \subseteq actor'[b].removed
          BY DEF Alone
      <2>1. actor[a].at \in Places /\ techs \subseteq actor[a].seen /\ "techs" \notin overlapped
            BY <1>1 DEF Alone, Places
      <2>2. ASSUME NEW c \in Actor, c # a PROVE actor'[c].at \notin Places
            BY <1>2, <2>1, <2>2 DEF Alone
      <2>3. techs' \subseteq actor'[a].removed
            BY <1>1, <1>3, <2>1
      <2> QED BY <1>3, <2>2, <2>3 DEF Places
<1>8. TechsAreOfOneJob'
      BY <1>1 DEF TechsAreOfOneJob
<1> QED BY <1>5, <1>6, <1>7, <1>8

\* What one replacement stores is the whole detection of its job, and what it
\* removes are whole detections.
LEMMA CommitTechsApart ==
    ASSUME TablesInv, TablesInv', TechsInv, NEW a \in Actor, CommitTechs(a)
    PROVE  TechsInv'
<1> USE DEF TechsInv
<1> DEFINE own == {[by |-> actor[a].job, is |-> t] : t \in Detected(a)}
<1>1. /\ techs' = (techs \ actor[a].removed) \union own
      /\ jobs' = jobs /\ overlapped' = overlapped /\ actor[a].at = "commit"
      BY DEF CommitTechs
<1>2. actor'[a] = Idle /\ \A b \in Actor \ {a} : actor'[b] = actor[b]
      BY DEF CommitTechs, Ends, Moves, TablesInv, TypeOK
<1>3. /\ Idle.at = "idle" /\ Idle.seen = {} /\ Idle.removed = {}
      BY DEF Idle, Afresh
<1>4. /\ \A r \in own : r.by = actor[a].job
      /\ {r.is : r \in own} = Detected(a)
      <2>1. ASSUME NEW t \in Detected(a) PROVE \E r \in own : r.is = t
            <3>1. [by |-> actor[a].job, is |-> t] \in own
                  OBVIOUS
            <3> HIDE DEF own
            <3> QED BY <3>1
      <2>2. ASSUME NEW r \in own PROVE r.by = actor[a].job /\ r.is \in Detected(a)
            OBVIOUS
      <2> HIDE DEF own
      <2> QED BY <2>1, <2>2
<1>5. \A r \in techs : r.by # actor[a].job
      BY <1>1 DEF JobsApart, Old
<1> HIDE DEF own
<1>6. \A b \in Actor : actor'[b].at # "idle" =>
               actor[b].at # "idle" /\ actor'[b].job = actor[b].job
      BY <1>2, <1>3
<1>7. JobsApart'
      <2>1. ASSUME NEW r \in techs'
            PROVE  r.by <= jobs /\ \A b \in Actor : actor'[b].at # "idle" => r.by # actor'[b].job
            <3>1. CASE r \in techs
                  BY <1>2, <1>3, <3>1 DEF JobsApart, Old
            <3>2. CASE r \in own
                  BY <1>1, <1>2, <1>3, <1>4, <3>2 DEF JobsApart
            <3> QED BY <1>1, <2>1, <3>1, <3>2
      <2>2. Old(techs)'
            BY <1>1, <2>1 DEF Old
      <2> QED BY <1>1, <1>2, <1>3, <2>2 DEF JobsApart
<1>8. Snapshots'
      <2> SUFFICES ASSUME NEW b \in Actor
                   PROVE  /\ actor'[b].at \notin Places => actor'[b].seen = {}
                          /\ actor'[b].removed \subseteq actor'[b].seen
                          /\ actor'[b].at \notin {"insert", "commit"} => actor'[b].removed = {}
                          /\ Old(actor[b].seen)'
                          /\ Closed(actor[b].seen)' /\ Closed(actor[b].removed)'
          BY DEF Snapshots
      <2>1. CASE b = a
            BY <1>2, <1>3, <2>1 DEF Old, Closed
      <2>2. CASE b # a
            <3>1. actor'[b] = actor[b] /\ Old(actor[b].seen)
                  /\ Closed(actor[b].seen) /\ Closed(actor[b].removed)
                  /\ actor[b].removed \subseteq actor[b].seen
                  BY <1>2, <2>2 DEF Snapshots
            <3>2. Old(actor[b].seen)'
                  BY <1>1, <1>6, <3>1, OldStays
            <3>3. \A r \in actor[b].seen : r.by # actor[a].job
                  BY <1>1, <3>1 DEF Old
            <3>4. Closed(actor[b].seen)'
                  BY <1>1, <1>4, <3>1, <3>3 DEF Closed
            <3>5. Closed(actor[b].removed)'
                  <4>1. \A r \in actor[b].removed : r.by # actor[a].job
                        BY <3>1, <3>3
                  <4> QED BY <1>1, <1>4, <3>1, <4>1 DEF Closed
            <3> QED BY <3>1, <3>2, <3>4, <3>5 DEF Snapshots
      <2> QED BY <2>1, <2>2
<1>9. Alone'
      <2> SUFFICES ASSUME "techs" \notin overlapped', NEW b \in Actor
                   PROVE  actor'[b].at \notin Places
          BY DEF Alone, Places
      <2>1. CASE b = a
            BY <1>2, <1>3, <2>1 DEF Places
      <2>2. CASE b # a
            BY <1>1, <1>2, <2>2 DEF Alone, Places
      <2> QED BY <2>1, <2>2
<1>10. ASSUME "techs" \notin overlapped' PROVE \A r \in techs' : r.by = actor[a].job
      <2>1. techs \subseteq actor[a].removed
            BY <1>1, <1>10 DEF Alone
      <2> QED BY <1>1, <1>4, <2>1
<1> DEFINE Whole == UNION {{Found[n].techs, Found[n].bare} : n \in 1 .. MaxJobs}
<1>11. ASSUME NEW r \in techs' PROVE {t.is : t \in {t \in techs' : t.by = r.by}} \in Whole
      <2>1. CASE r \in own
            <3>1. {t \in techs' : t.by = r.by} = own
                  BY <1>1, <1>4, <1>5, <2>1
            <3>2. actor[a].of \in 1 .. MaxJobs
                  BY <1>1 DEF TablesInv, Covered, InOrder, Parts, TypeOK, Work
            <3>3. Detected(a) \in Whole
                  BY <3>2 DEF Detected
            <3> QED BY <1>4, <3>1, <3>3
      <2>2. CASE r \notin own
            <3>1. r \in techs /\ r \notin actor[a].removed
                  BY <1>1, <1>11, <2>2
            <3>2. {t \in techs' : t.by = r.by} = {t \in techs : t.by = r.by}
                  BY <1>1, <1>4, <1>5, <3>1 DEF Snapshots, Closed
            <3>3. {t.is : t \in {t \in techs : t.by = r.by}} \in Whole
                  BY <3>1 DEF TechsAreOfOneJob
            <3> QED BY <3>2, <3>3
      <2> QED BY <2>1, <2>2
<1>12. TechsAreOfOneJob'
      BY <1>10, <1>11 DEF TechsAreOfOneJob
<1> QED BY <1>7, <1>8, <1>9, <1>12

\* The deletion removes all of them, or none yet.
LEMMA DeletionApart ==
    ASSUME TablesInv, TechsInv, EraseLead \/ Cascade \/ EraseFails
    PROVE  TechsInv'
<1> USE DEF TechsInv
<1>1. /\ UNCHANGED <<actor, jobs, overlapped>>
      /\ techs' = techs \/ techs' = {}
      BY DEF EraseLead, Cascade, EraseSite, EraseTechs, EraseRest, EraseFails, tables
<1>2. JobsApart'
      BY <1>1 DEF JobsApart, Old
<1>3. Snapshots'
      <2> SUFFICES ASSUME NEW b \in Actor
                   PROVE  /\ actor'[b].at \notin Places => actor'[b].seen = {}
                          /\ actor'[b].removed \subseteq actor'[b].seen
                          /\ actor'[b].at \notin {"insert", "commit"} => actor'[b].removed = {}
                          /\ Old(actor[b].seen)'
                          /\ Closed(actor[b].seen)' /\ Closed(actor[b].removed)'
          BY DEF Snapshots
      <2>1. Old(actor[b].seen)'
            BY <1>1 DEF Snapshots, Old
      <2>2. Closed(actor[b].seen)' /\ Closed(actor[b].removed)'
            BY <1>1 DEF Snapshots, Closed
      <2> QED BY <1>1, <2>1, <2>2 DEF Snapshots
<1>4. Alone'
      BY <1>1 DEF Alone
<1>5. TechsAreOfOneJob'
      BY <1>1 DEF TechsAreOfOneJob
<1> QED BY <1>2, <1>3, <1>4, <1>5

LEMMA TechsInit == Init => TechsInv
<1> SUFFICES ASSUME Init PROVE TechsInv
    OBVIOUS
<1>1. Idle.at = "idle" /\ Idle.seen = {} /\ Idle.removed = {}
      BY DEF Idle, Afresh
<1>2. JobsApart /\ Snapshots
      BY <1>1 DEF Init, JobsApart, Snapshots, Old, Closed
<1>3. Alone /\ TechsAreOfOneJob
      BY <1>1 DEF Init, Alone, Places, TechsAreOfOneJob
<1> QED BY <1>2, <1>3 DEF TechsInv

LEMMA TechsStep == TablesInv /\ TablesInv' /\ TechsInv /\ [Next]_vars => TechsInv'
<1> SUFFICES ASSUME TablesInv, TablesInv', TechsInv, [Next]_vars PROVE TechsInv'
    OBVIOUS
<1>1. ASSUME NEW a \in Actor, Step(a) PROVE TechsInv'
      BY <1>1, StepIsQuiet, QuietInv, SeeTechsApart, RemoveTechsApart, CommitTechsApart
      DEF Step, Orphan
<1>2. ASSUME NEW a \in Actor, Fails(a) PROVE TechsInv'
      BY <1>2, StepIsQuiet, QuietInv DEF Fails
<1>3. ASSUME NEW x \in Actor \union {Eraser}, Victim(x) PROVE TechsInv'
      BY <1>2, <1>3, DeletionApart DEF Victim
<1>4. CASE UNCHANGED vars
      <2>1. techs' = techs /\ actor' = actor /\ jobs' = jobs /\ overlapped' = overlapped
            BY <1>4 DEF vars, tables
      <2>2. JobsApart' /\ Alone' /\ TechsAreOfOneJob'
            BY <2>1 DEF TechsInv, JobsApart, Old, Alone, TechsAreOfOneJob
      <2>3. Snapshots'
            BY <2>1 DEF TechsInv, Snapshots, Old, Closed
      <2> QED BY <2>2, <2>3 DEF TechsInv
<1>5. CASE Next
      BY <1>1, <1>2, <1>3, <1>5, BeginApart, DeletionApart DEF Next
<1> QED BY <1>4, <1>5

\* Replacements that do not overlap leave the technologies of one job, and even
\* those that do leave each job's whole (TechnologyRepo.ReplaceForWebsite).
THEOREM ReplacedWhole == Spec => []TechsAreOfOneJob
<1>1. TechsInv => TechsAreOfOneJob
      BY DEF TechsInv
<1>2. Spec => []TechsInv
      BY TechsInit, TechsStep, TablesInvariant, PTL DEF Spec
<1> QED BY <1>1, <1>2, PTL

-----------------------------------------------------------------------------
(* Contacts.                                                                *)

\* The rows of a contact, and the actors whose open transaction adds one.
Copies(x) == {row \in contacts : row.is = x}
Writers(x) == {a \in Actor : x \in actor[a].added}

\* Rows there are and rows to come: no actor adds to rows it sees, so there are
\* at most as many as actors, and without an overlap one.
Counts(x) ==
    /\ IsFiniteSet(Copies(x))
    /\ Cardinality(Copies(x)) + Cardinality(Writers(x)) <= Cardinality(Actor)
    /\ "contacts" \notin overlapped =>
          Cardinality(Copies(x)) + Cardinality(Writers(x)) <= 1

ContactsInv == \A x \in Contact : Counts(x)

LEMMA FewWriters ==
    ASSUME NEW x, NEW W, W \subseteq Actor
    PROVE  /\ IsFiniteSet(W) /\ Cardinality(W) \in Nat /\ Cardinality(Actor) \in Nat
           /\ Cardinality(W) <= Cardinality(Actor)
    BY ActorAssumption, FS_Subset, FS_CardinalityType

\* Fewer rows and fewer writers keep the count.
LEMMA CountsLess ==
    ASSUME NEW x, Counts(x), Copies(x)' \subseteq Copies(x), Writers(x)' \subseteq Writers(x),
           "contacts" \notin overlapped' => "contacts" \notin overlapped
    PROVE  Counts(x)'
<1>1. Writers(x) \subseteq Actor /\ Writers(x)' \subseteq Actor
      BY DEF Writers
<1>2. /\ Cardinality(Writers(x)) \in Nat /\ Cardinality(Writers(x)') \in Nat
      /\ Cardinality(Writers(x)') <= Cardinality(Writers(x)) /\ Cardinality(Actor) \in Nat
      BY <1>1, FewWriters, FS_Subset
<1>3. /\ IsFiniteSet(Copies(x)') /\ Cardinality(Copies(x)) \in Nat
      /\ Cardinality(Copies(x)') \in Nat /\ Cardinality(Copies(x)') <= Cardinality(Copies(x))
      BY FS_Subset, FS_CardinalityType DEF Counts
<1> QED BY <1>2, <1>3 DEF Counts

\* A step that adds neither a row nor a writer.
LEMMA NoContact ==
    ASSUME ContactsInv, contacts' \subseteq contacts,
           \A a \in Actor : actor'[a].added \subseteq actor[a].added,
           "contacts" \notin overlapped' => "contacts" \notin overlapped
    PROVE  ContactsInv'
<1> SUFFICES ASSUME NEW x \in Contact PROVE Counts(x)'
    BY DEF ContactsInv
<1>1. Copies(x)' \subseteq Copies(x) /\ Writers(x)' \subseteq Writers(x)
      BY DEF Copies, Writers
<1> QED BY <1>1, CountsLess DEF ContactsInv

\* An actor that leaves the part, or enters it, has nothing to add.
LEMMA ElsewhereNothing ==
    ASSUME TablesInv, TablesInv', ContactsInv, NEW a \in Actor,
           \A b \in Actor \ {a} : actor'[b] = actor[b],
           actor'[a].at # "contacts" \/ actor'[a].added = {},
           contacts' = contacts,
           "contacts" \notin overlapped' => "contacts" \notin overlapped
    PROVE  ContactsInv'
<1>1. actor'[a].added = {}
      BY DEF TablesInv, Covered, InOrder
<1>2. \A b \in Actor : actor'[b].added \subseteq actor[b].added
      BY <1>1
<1> QED BY <1>2, NoContact

LEMMA Inserted ==
    ASSUME TablesInv, ContactsInv, NEW a \in Actor, InsertContact(a)
    PROVE  ContactsInv'
<1>1. PICK x \in actor[a].left :
         IF Known(x) THEN Moves(a, [actor[a] EXCEPT !.left = @ \ {x}]) ELSE Adds(a, x)
      BY DEF InsertContact
<1>2. /\ actor[a].at = "contacts" /\ contacts' = contacts
      /\ overlapped' = IF \E b \in Actor \ {a} : actor[b].at \in {"contacts"}
                       THEN overlapped \union {"contacts"} ELSE overlapped
      BY DEF InsertContact, Marks, tables
<1>3. actor \in [Actor -> Work] /\ actor[a] \in Work /\ Covered
      BY DEF TablesInv, TypeOK
<1>4. CASE Known(x)
      <2>1. /\ actor'[a].added = actor[a].added
            /\ \A b \in Actor \ {a} : actor'[b] = actor[b]
            BY <1>1, <1>3, <1>4 DEF Moves, Work
      <2>2. \A b \in Actor : actor'[b].added \subseteq actor[b].added
            BY <2>1
      <2> QED BY <1>2, <2>2, NoContact
<1>5. CASE ~Known(x)
      <2>1. /\ actor'[a].added = actor[a].added \union {x}
            /\ \A b \in Actor \ {a} : actor'[b] = actor[b]
            <3>1. PICK s : s = actor[a].shares \union {"lead"}
                  OBVIOUS
            <3>2. PICK r : r = [actor[a] EXCEPT !.left = @ \ {x},
                                   !.added = @ \union {x}, !.shares = s]
                  OBVIOUS
            <3>3. r.added = actor[a].added \union {x}
                  BY <1>3, <3>2 DEF Work
            <3>4. Moves(a, r)
                  BY <1>1, <1>3, <1>5, <3>1, <3>2 DEF Adds, Work
            <3> QED BY <1>3, <3>3, <3>4 DEF Moves
      <2>2. Copies(x)' = {}
            BY <1>2, <1>5 DEF Known, Copies
      <2> SUFFICES ASSUME NEW y \in Contact PROVE Counts(y)'
          BY DEF ContactsInv
      <2>3. CASE y # x
            <3>1. Copies(y)' \subseteq Copies(y)
                  BY <1>2 DEF Copies
            <3>2. Writers(y)' \subseteq Writers(y)
                  BY <2>1, <2>3 DEF Writers
            <3>3. "contacts" \notin overlapped' => "contacts" \notin overlapped
                  BY <1>2
            <3> QED BY <3>1, <3>2, <3>3, CountsLess DEF ContactsInv
      <2>4. CASE y = x
            <3>1. Writers(x)' \subseteq Actor
                  BY DEF Writers
            <3>2. /\ IsFiniteSet(Writers(x)') /\ Cardinality(Writers(x)') \in Nat
                  /\ Cardinality(Writers(x)') <= Cardinality(Actor)
                  BY <3>1, FewWriters
            <3>3. IsFiniteSet({}) /\ Cardinality({}) = 0
                  BY FS_EmptySet
            <3>4. ASSUME "contacts" \notin overlapped' PROVE Cardinality(Writers(x)') <= 1
                  <4>1. \A b \in Actor \ {a} : actor[b].at # "contacts"
                        BY <1>2, <3>4
                  <4>2. \A b \in Actor \ {a} : actor'[b].added = {}
                        BY <1>3, <2>1, <4>1 DEF Covered, InOrder
                  <4>3. Writers(x)' \subseteq {a}
                        BY <4>2 DEF Writers
                  <4>4. IsFiniteSet({a}) /\ Cardinality({a}) = 1
                        BY FS_Singleton
                  <4>5. Cardinality(Writers(x)') <= Cardinality({a})
                        BY <4>3, <4>4, FS_Subset
                  <4> QED BY <4>4, <4>5
            <3> QED BY <2>2, <2>4, <3>2, <3>3, <3>4 DEF Counts
      <2> QED BY <2>3, <2>4
<1> QED BY <1>4, <1>5

\* A writer becomes a row.
LEMMA Committed ==
    ASSUME TablesInv, TablesInv', ContactsInv, NEW a \in Actor, CommitContacts(a)
    PROVE  ContactsInv'
<1>1. /\ contacts' = contacts \union {[by |-> actor[a].job, is |-> x] : x \in actor[a].added}
      /\ overlapped' = overlapped
      /\ IF actor[a].kind = "contacts" THEN Moves(a, Idle)
         ELSE Moves(a, ToStore(a, "socials", actor[a].of))
      BY DEF CommitContacts, Ends
<1>2. actor \in [Actor -> Work]
      BY DEF TablesInv, TypeOK
<1>3. actor'[a].added = {} /\ \A b \in Actor \ {a} : actor'[b] = actor[b]
      BY <1>1, <1>2 DEF Moves, Idle, ToStore, Afresh
<1> SUFFICES ASSUME NEW x \in Contact PROVE Counts(x)'
    BY DEF ContactsInv
<1>4. Counts(x)
      BY DEF ContactsInv
<1>5. Writers(x)' = Writers(x) \ {a}
      BY <1>3 DEF Writers
<1>6. CASE x \notin actor[a].added
      <2>1. Copies(x)' \subseteq Copies(x)
            BY <1>1, <1>6 DEF Copies
      <2>2. Writers(x)' \subseteq Writers(x)
            BY <1>5
      <2> QED BY <1>1, <1>4, <2>1, <2>2, CountsLess
<1>7. CASE x \in actor[a].added
      <2> DEFINE r == [by |-> actor[a].job, is |-> x]
      <2>1. r.is = x /\ contacts' \subseteq contacts \union
                         {[by |-> actor[a].job, is |-> y] : y \in actor[a].added}
            BY <1>1
      <2>2. Copies(x)' = Copies(x) \union {r}
            BY <1>1, <1>7 DEF Copies
      <2> HIDE DEF r
      <2>3. a \in Writers(x) /\ Writers(x) \subseteq Actor
            BY <1>7 DEF Writers
      <2>4. /\ IsFiniteSet(Writers(x)) /\ Cardinality(Writers(x)) \in Nat
            /\ Cardinality(Actor) \in Nat
            BY <2>3, FewWriters
      <2>5. Cardinality(Writers(x)') = Cardinality(Writers(x)) - 1
            BY <1>5, <2>3, <2>4, FS_RemoveElement
      <2>6. /\ IsFiniteSet(Copies(x)) /\ Cardinality(Copies(x)) \in Nat
            /\ IsFiniteSet(Copies(x)') /\ Cardinality(Copies(x)') \in Nat
            /\ Cardinality(Copies(x)') <= Cardinality(Copies(x)) + 1
            <3>1. IsFiniteSet(Copies(x)) /\ Cardinality(Copies(x)) \in Nat
                  BY <1>4, FS_CardinalityType DEF Counts
            <3>2. /\ IsFiniteSet(Copies(x) \union {r})
                  /\ Cardinality(Copies(x) \union {r}) = IF r \in Copies(x)
                        THEN Cardinality(Copies(x)) ELSE Cardinality(Copies(x)) + 1
                  BY <3>1, FS_AddElement
            <3> QED BY <2>2, <3>1, <3>2
      <2> QED BY <1>1, <1>4, <2>4, <2>5, <2>6 DEF Counts
<1> QED BY <1>6, <1>7

LEMMA StepContacts ==
    ASSUME TablesInv, TablesInv', ContactsInv, NEW a \in Actor,
           \/ Begin(a) \/ Load(a) \/ StoreWebsite(a) \/ StoreResult(a)
           \/ UpsertSocial(a) \/ CommitSocials(a) \/ SeeTechs(a) \/ RemoveTechs(a)
           \/ InsertTechs(a) \/ CommitTechs(a) \/ Rollback(a)
    PROVE  ContactsInv'
<1>1. actor \in [Actor -> Work] /\ actor[a] \in Work
      BY DEF TablesInv, TypeOK
<1>2. ASSUME NEW r, Moves(a, r) PROVE actor'[a] = r /\ \A b \in Actor \ {a} : actor'[b] = actor[b]
      BY <1>1, <1>2 DEF Moves
<1>3. /\ contacts' = contacts
      /\ "contacts" \notin overlapped' => "contacts" \notin overlapped
      BY DEF Begin, Load, StoreWebsite, StoreResult, UpsertSocial, CommitSocials, SeeTechs,
             RemoveTechs, InsertTechs, CommitTechs, Rollback, Marks, tables
<1>4. ASSUME NEW part, NEW of PROVE ToStore(a, part, of).added = {}
      BY DEF ToStore, Afresh
<1>5. Idle.added = {}
      BY DEF Idle, Afresh
<1>6. /\ \A b \in Actor \ {a} : actor'[b] = actor[b]
      /\ actor'[a].at # "contacts" \/ actor'[a].added = {}
      <2>1. CASE Begin(a)
            <3>1. PICK kind, r : Moves(a, r) /\ r.added = {}
                  BY <2>1 DEF Begin, Afresh
            <3> QED BY <1>2, <3>1
      <2>2. CASE Load(a)
            BY <1>2, <1>4, <2>2 DEF Load
      <2>3. CASE StoreWebsite(a)
            <3>1. [actor[a] EXCEPT !.at = "result"].at = "result"
                  BY <1>1 DEF Work
            <3> QED BY <1>2, <2>3, <3>1 DEF StoreWebsite
      <2>4. CASE StoreResult(a)
            BY <1>2, <1>4, <1>5, <2>4 DEF StoreResult, Ends
      <2>5. CASE UpsertSocial(a)
            <3>1. PICK line, held, shares :
                     Moves(a, [actor[a] EXCEPT !.line = line, !.held = held,
                                               !.shares = shares])
                  BY <1>1, <2>5 DEF UpsertSocial, Work
            <3>2. PICK r : r = [actor[a] EXCEPT !.line = line, !.held = held,
                                                !.shares = shares]
                  OBVIOUS
            <3>3. Moves(a, r) /\ r.at = actor[a].at
                  BY <1>1, <3>1, <3>2 DEF Work
            <3> QED BY <1>2, <2>5, <3>3 DEF UpsertSocial
      <2>6. CASE CommitSocials(a)
            BY <1>2, <1>4, <1>5, <2>6 DEF CommitSocials, Ends
      <2>7. CASE SeeTechs(a)
            <3>1. [actor[a] EXCEPT !.at = "remove", !.seen = techs].at = "remove"
                  BY <1>1 DEF Work
            <3> QED BY <1>2, <2>7, <3>1 DEF SeeTechs
      <2>8. CASE RemoveTechs(a)
            <3>1. PICK r : r = [actor[a] EXCEPT !.at = "insert",
                                   !.removed = actor[a].seen \intersect techs]
                  OBVIOUS
            <3>2. r.at = "insert"
                  BY <1>1, <3>1 DEF Work
            <3> QED BY <1>2, <2>8, <3>1, <3>2 DEF RemoveTechs
      <2>9. CASE InsertTechs(a)
            <3>1. PICK r : r = [actor[a] EXCEPT !.at = "commit",
                                   !.shares = IF Detected(a) # {} THEN {"site"} ELSE {}]
                  OBVIOUS
            <3>2. r.at = "commit"
                  BY <1>1, <3>1 DEF Work
            <3> QED BY <1>2, <2>9, <3>1, <3>2 DEF InsertTechs
      <2>10. CASE CommitTechs(a)
            BY <1>2, <1>5, <2>10 DEF CommitTechs, Ends
      <2>11. CASE Rollback(a)
            BY <1>2, <1>5, <2>11 DEF Rollback
      <2> QED BY <2>1, <2>2, <2>3, <2>4, <2>5, <2>6, <2>7, <2>8, <2>9, <2>10, <2>11
<1> QED BY <1>3, <1>6, ElsewhereNothing

LEMMA ContactsInit == Init => ContactsInv
<1> SUFFICES ASSUME Init, NEW x \in Contact PROVE Counts(x)
    BY DEF ContactsInv
<1>1. Copies(x) = {}
      BY DEF Init, Copies
<1>2. Writers(x) = {}
      BY DEF Init, Writers, Idle, Afresh
<1>3. IsFiniteSet({}) /\ Cardinality({}) = 0 /\ Cardinality(Actor) \in Nat
      BY ActorAssumption, FS_EmptySet, FS_CardinalityType
<1> QED BY <1>1, <1>2, <1>3 DEF Counts

LEMMA ContactsStep == TablesInv /\ TablesInv' /\ ContactsInv /\ [Next]_vars => ContactsInv'
<1> SUFFICES ASSUME TablesInv, TablesInv', ContactsInv, [Next]_vars PROVE ContactsInv'
    OBVIOUS
<1>1. ASSUME NEW a \in Actor, Step(a) PROVE ContactsInv'
      BY <1>1, StepContacts, Inserted, Committed DEF Step, Orphan
<1>2. ASSUME NEW a \in Actor, Fails(a) PROVE ContactsInv'
      BY <1>2, StepContacts DEF Fails
<1>3. ASSUME EraseLead \/ Cascade \/ EraseFails PROVE ContactsInv'
      <2>1. contacts' \subseteq contacts /\ actor' = actor /\ overlapped' = overlapped
            BY <1>3 DEF EraseLead, EraseSite, EraseTechs, EraseRest, EraseFails, Cascade, tables
      <2> QED BY <2>1, NoContact
<1>4. ASSUME NEW x \in Actor \union {Eraser}, Victim(x) PROVE ContactsInv'
      BY <1>2, <1>3, <1>4 DEF Victim
<1>5. CASE UNCHANGED vars
      <2>1. contacts' \subseteq contacts /\ actor' = actor /\ overlapped' = overlapped
            BY <1>5 DEF vars, tables
      <2> QED BY <2>1, NoContact
<1>6. CASE Next
      BY <1>1, <1>2, <1>3, <1>4, <1>6, StepContacts DEF Next
<1> QED BY <1>5, <1>6

\* A contact is listed once, unless two upserts overlapped, and never more often
\* than there are actors: SELECT ... NOT EXISTS sees every row that is committed.
THEOREM ListedOnce == Spec => []ContactsOnce
<1>1. ContactsInv => ContactsOnce
      <2> SUFFICES ASSUME ContactsInv, NEW x \in Contact
                   PROVE  Cardinality(Copies(x)) <=
                             (IF "contacts" \in overlapped THEN Cardinality(Actor) ELSE 1)
          BY DEF ContactsOnce, Copies
      <2>1. Counts(x)
            BY DEF ContactsInv
      <2>2. Writers(x) \subseteq Actor
            BY DEF Writers
      <2>3. Cardinality(Writers(x)) \in Nat /\ Cardinality(Actor) \in Nat
            BY <2>2, FewWriters
      <2>4. Cardinality(Copies(x)) \in Nat
            BY <2>1, FS_CardinalityType DEF Counts
      <2> QED BY <2>1, <2>3, <2>4 DEF Counts
<1> QED BY <1>1, ContactsInit, ContactsStep, TablesInvariant, PTL DEF Spec
=============================================================================
