----------------------------- MODULE DeskProofs -----------------------------
(***************************************************************************)
(* What edits, collections and rescans leave of a lead, for any number of  *)
(* leads, of requests at once, and of writes.                              *)
(***************************************************************************)
EXTENDS Desk, FiniteSetTheorems, SequenceTheorems, TLAPS

Typed ==
    /\ bound \in Scene
    /\ table \in [Lead -> Row \union {Absent, Gone}]
    /\ crawled \in [Lead -> Site \union {None}]
    /\ editor \in [Editor -> Request]
    /\ outbox \subseteq [lead : Lead, site : Site]

Busy(e, l) == editor[e].at # "idle" /\ editor[e].lead = l
Pushing(e, l) == editor[e].at = "push" /\ editor[e].lead = l

Waiting(l) == {job \in outbox : job.lead = l}

\* A request on a lead that nobody else has written holds the lead as it is.
UpToDate(l) ==
    There(l) /\ l \notin disturbed =>
        /\ \A e \in Editor : editor[e].at = "edit" /\ Busy(e, l) => editor[e].row = table[l]
        /\ \A e \in Editor : Pushing(e, l) => editor[e].site = table[l].site

\* What waits in the outbox is about its website, and the last job is or will be.
Chased(l) ==
    There(l) /\ l \notin disturbed \union overtaken =>
        /\ \A job \in Waiting(l) : job.site = table[l].site
        /\ \/ \E e \in Editor : Pushing(e, l)
           \/ Waiting(l) # {}
           \/ crawled[l] = table[l].site

\* A lead that was never added has no job, and no request is about it.
Untouched(l) ==
    table[l] = Absent =>
        crawled[l] = None /\ Waiting(l) = {} /\ \A e \in Editor : ~Busy(e, l)

DeskInv == Typed /\ \A l \in Lead : UpToDate(l) /\ Chased(l) /\ Untouched(l)

-----------------------------------------------------------------------------
\* A step about one lead leaves what is known of the others.
LEMMA OfOthers ==
    ASSUME DeskInv, NEW l \in Lead,
           table'[l] = table[l], crawled'[l] = crawled[l], Waiting(l)' = Waiting(l),
           l \in disturbed' <=> l \in disturbed, l \in overtaken' <=> l \in overtaken,
           \A e \in Editor : editor'[e] = editor[e] \/ (~Busy(e, l) /\ ~Busy(e, l)')
    PROVE  UpToDate(l)' /\ Chased(l)' /\ Untouched(l)'
<1>1. UpToDate(l) /\ Chased(l) /\ Untouched(l)
      BY DEF DeskInv
<1>2. \A e \in Editor : (Busy(e, l)' <=> Busy(e, l)) /\ (Busy(e, l) => editor'[e] = editor[e])
      BY DEF Busy
<1>3. \A e \in Editor : Pushing(e, l)' <=> Pushing(e, l)
      BY <1>2 DEF Busy, Pushing
<1>4. There(l)' <=> There(l)
      BY DEF There
<1>5. UpToDate(l)'
      <2> SUFFICES ASSUME There(l)', l \notin disturbed'
                   PROVE  /\ \A e \in Editor : editor'[e].at = "edit" /\ Busy(e, l)' => editor'[e].row = table'[l]
                          /\ \A e \in Editor : Pushing(e, l)' => editor'[e].site = table'[l].site
          BY DEF UpToDate
      <2>1. \A e \in Editor : editor'[e].at = "edit" /\ Busy(e, l)' => editor'[e].row = table'[l]
            BY <1>1, <1>2, <1>4 DEF UpToDate
      <2>2. \A e \in Editor : Pushing(e, l)' => editor'[e].site = table'[l].site
            BY <1>1, <1>2, <1>3, <1>4 DEF UpToDate, Pushing, Busy
      <2> QED BY <2>1, <2>2
<1>6. Chased(l)'
      BY <1>1, <1>3, <1>4 DEF Chased
<1>7. Untouched(l)'
      BY <1>1, <1>2 DEF Untouched
<1> QED BY <1>5, <1>6, <1>7

\* What a row, a lead that is not there and a request look like.
LEMMA Shapes ==
    /\ Absent.is = "new" /\ Gone.is = "gone" /\ Idle \in Request /\ Idle.at = "idle"
    /\ \A r \in Row : r.is = "there" /\ r.site \in Site \union {None} /\ r.extra \in Nat
    /\ \A site \in Site \union {None}, n \in Nat :
          LET r == [is |-> "there", site |-> site, extra |-> n]
          IN r \in Row /\ r.site = site /\ r.extra = n
    /\ \A r \in Request :
          \/ r.at = "idle"
          \/ r.at = "edit" /\ r.lead \in Lead /\ r.row \in Row
          \/ r.at = "push" /\ r.lead \in Lead /\ r.site \in Site \union {None}
    /\ \A l \in Lead, site \in Site \union {None} :
          LET r == [at |-> "push", lead |-> l, site |-> site]
          IN r \in Request /\ r.at = "push" /\ r.lead = l /\ r.site = site
    /\ \A l \in Lead, row \in Row :
          LET r == [at |-> "edit", lead |-> l, row |-> row]
          IN r \in Request /\ r.at = "edit" /\ r.lead = l /\ r.row = row
    BY DEF Absent, Gone, Idle, Request, Row

LEMMA Rows ==
    ASSUME Typed, NEW l \in Lead
    PROVE  (There(l) <=> table[l] \in Row) /\ (table[l] = Absent => ~There(l))
    BY Shapes DEF Typed, There

\* A request takes its next step.
LEMMA Serving ==
    ASSUME Typed, NEW e \in Editor, NEW r \in Request, Serves(e, r)
    PROVE  /\ editor' \in [Editor -> Request] /\ editor'[e] = r
           /\ \A f \in Editor \ {e} : editor'[f] = editor[f]
    BY DEF Typed, Serves

\* Who writes a lead disturbs every other request about it.
LEMMA Disturbs ==
    ASSUME NEW l \in Lead, NEW others \in SUBSET Editor, Writes(l, others)
    PROVE  /\ bound' = bound /\ disturbed \subseteq disturbed'
           /\ \A m \in Lead \ {l} : m \in disturbed' <=> m \in disturbed
           /\ l \notin disturbed' => \A e \in others : ~Busy(e, l)
    BY DEF Writes, Busy

\* Whoever changes the website overtakes the crawls of the old one.
LEMMA Readdressing ==
    ASSUME NEW l \in Lead, NEW site, Readdresses(l, site)
    PROVE  /\ \A m \in Lead \ {l} : m \in overtaken' <=> m \in overtaken
           /\ l \notin overtaken' =>
                 l \notin overtaken /\ \A job \in Waiting(l) : job.site = site
    BY DEF Readdresses, Waiting

\* The jobs of a lead, when nothing was added to the outbox.
LEMMA Quiet == ASSUME UNCHANGED outbox, NEW l PROVE Waiting(l)' = Waiting(l)
    BY DEF Waiting

LEMMA AddInv ==
    ASSUME DeskInv, NEW e \in Editor, NEW l \in Lead, Add(e, l)
    PROVE  DeskInv'
<1> USE DEF DeskInv
<1>1. PICK site \in Site \union {None} :
         /\ table' = [table EXCEPT ![l] = [is |-> "there", site |-> site, extra |-> 0]]
         /\ Serves(e, [at |-> "push", lead |-> l, site |-> site])
      BY DEF Add
<1>2. editor[e].at = "idle" /\ table[l] = Absent /\ crawled' = crawled
      /\ outbox' = outbox /\ overtaken' = overtaken /\ Writes(l, Editor \ {e})
      BY DEF Add, jobs
<1> DEFINE row == [is |-> "there", site |-> site, extra |-> 0]
           push == [at |-> "push", lead |-> l, site |-> site]
<1>3. row \in Row /\ row.site = site /\ row # Absent
      /\ push \in Request /\ push.at = "push" /\ push.lead = l /\ push.site = site
      BY Shapes
<1> HIDE DEF row, push
<1>4. Serves(e, push) /\ table' = [table EXCEPT ![l] = row]
      BY <1>1 DEF row, push
<1>5. editor' \in [Editor -> Request] /\ editor'[e] = push
      /\ \A f \in Editor \ {e} : editor'[f] = editor[f]
      BY <1>3, <1>4, Serving
<1>6. table' \in [Lead -> Row \union {Absent, Gone}] /\ table'[l] = row
      /\ \A m \in Lead \ {l} : table'[m] = table[m]
      BY <1>3, <1>4 DEF Typed
<1>7. bound' = bound /\ \A m \in Lead \ {l} : m \in disturbed' <=> m \in disturbed
      BY <1>2, Disturbs
<1>8. Typed'
      BY <1>2, <1>5, <1>6, <1>7 DEF Typed
<1>9. ASSUME NEW m \in Lead \ {l} PROVE UpToDate(m)' /\ Chased(m)' /\ Untouched(m)'
      <2>1. ~Busy(e, m) /\ ~Busy(e, m)'
            BY <1>2, <1>3, <1>5 DEF Busy
      <2> QED BY <1>2, <1>5, <1>6, <1>7, <2>1, Quiet, OfOthers
<1>10. \A f \in Editor \ {e} : ~Busy(f, l)'
      BY <1>2, <1>5 DEF Untouched, Busy
<1>11. UpToDate(l)' /\ Chased(l)' /\ Untouched(l)'
      <2>1. Pushing(e, l)' /\ editor'[e].site = table'[l].site /\ editor'[e].at # "edit"
            BY <1>3, <1>5, <1>6 DEF Pushing
      <2>2. UpToDate(l)'
            BY <1>10, <2>1 DEF UpToDate, Pushing, Busy
      <2>3. Untouched(l)'
            BY <1>3, <1>6 DEF Untouched
      <2>4. Waiting(l)' = {}
            BY <1>2, Quiet DEF Untouched
      <2>5. Chased(l)'
            BY <2>1, <2>4 DEF Chased
      <2> QED BY <2>2, <2>3, <2>5
<1> QED BY <1>8, <1>9, <1>11

LEMMA OpenInv ==
    ASSUME DeskInv, NEW e \in Editor, NEW l \in Lead, Open(e, l)
    PROVE  DeskInv'
<1> USE DEF DeskInv
<1> DEFINE edit == [at |-> "edit", lead |-> l, row |-> table[l]]
<1>1. /\ editor[e].at = "idle" /\ There(l) /\ Serves(e, edit)
      /\ UNCHANGED <<bound, table, crawled, outbox, overtaken, disturbed>>
      BY DEF Open, jobs
<1>2. table[l] \in Row
      BY <1>1, Rows
<1>3. edit \in Request /\ edit.at = "edit" /\ edit.lead = l /\ edit.row = table[l]
      BY <1>2, Shapes
<1> HIDE DEF edit
<1>4. editor' \in [Editor -> Request] /\ editor'[e] = edit
      /\ \A f \in Editor \ {e} : editor'[f] = editor[f]
      BY <1>1, <1>3, Serving
<1>5. Typed'
      BY <1>1, <1>4 DEF Typed
<1>6. ASSUME NEW m \in Lead \ {l} PROVE UpToDate(m)' /\ Chased(m)' /\ Untouched(m)'
      <2>1. ~Busy(e, m) /\ ~Busy(e, m)'
            BY <1>1, <1>3, <1>4 DEF Busy
      <2> QED BY <1>1, <1>4, <2>1, Quiet, OfOthers
<1>7. UpToDate(l)'
      <2> SUFFICES ASSUME l \notin disturbed
                   PROVE  /\ \A f \in Editor : editor'[f].at = "edit" /\ Busy(f, l)' => editor'[f].row = table'[l]
                          /\ \A f \in Editor : Pushing(f, l)' => editor'[f].site = table'[l].site
          BY <1>1 DEF UpToDate
      <2>1. \A f \in Editor : editor'[f].at = "edit" /\ Busy(f, l)' => editor'[f].row = table'[l]
            BY <1>1, <1>3, <1>4 DEF UpToDate, Busy
      <2>2. \A f \in Editor : Pushing(f, l) <=> Pushing(f, l)'
            BY <1>1, <1>3, <1>4 DEF Pushing
      <2>3. \A f \in Editor : Pushing(f, l)' => editor'[f].site = table'[l].site
            BY <1>1, <1>3, <1>4, <2>2 DEF UpToDate, Pushing
      <2> QED BY <2>1, <2>3
<1>8. Chased(l)'
      <2>1. \A f \in Editor : Pushing(f, l)' <=> Pushing(f, l)
            BY <1>1, <1>3, <1>4 DEF Pushing
      <2> QED BY <1>1, <2>1, Quiet DEF Chased, There
<1>9. Untouched(l)'
      BY <1>1, Rows DEF Untouched
<1> QED BY <1>5, <1>6, <1>7, <1>8, <1>9

\* The row that is saved is a row, with the site of the form and the rest as read.
LEMMA SavedRow ==
    ASSUME NEW row \in Row, NEW site \in Site \union {None}
    PROVE  /\ Saved(row, site) \in Row
           /\ Saved(row, site).site = site /\ Saved(row, site).extra = row.extra
    BY DEF Saved, Row

LEMMA SaveInv ==
    ASSUME DeskInv, NEW e \in Editor, NEW l \in Lead, Save(e, l)
    PROVE  DeskInv' /\ (l \notin disturbed' => table'[l].extra = table[l].extra)
<1> USE DEF DeskInv
<1>1. PICK site \in Site \union {None} :
         /\ table' = [table EXCEPT ![l] = Saved(editor[e].row, site)]
         /\ Serves(e, IF Changed(editor[e].row, site)
                      THEN [at |-> "push", lead |-> l, site |-> site] ELSE Idle)
         /\ Readdresses(l, site)
      BY DEF Save
<1>2. editor[e].at = "edit" /\ editor[e].lead = l /\ There(l) /\ crawled' = crawled
      /\ outbox' = outbox
      /\ Writes(l, Editor \ {e})
      BY DEF Save
<1> DEFINE push == [at |-> "push", lead |-> l, site |-> site]
           row == Saved(editor[e].row, site)
<1>3. editor[e].row \in Row
      BY <1>2, Shapes DEF Typed
<1>4. row \in Row /\ row.site = site /\ row.extra = editor[e].row.extra
      BY <1>3, SavedRow
<1>5. push \in Request /\ push.at = "push" /\ push.lead = l /\ push.site = site
      /\ Idle \in Request /\ Idle.at = "idle"
      BY Shapes
<1>6. Serves(e, IF Changed(editor[e].row, site) THEN push ELSE Idle)
      /\ table' = [table EXCEPT ![l] = row] /\ Readdresses(l, site)
      BY <1>1
<1> HIDE DEF push, row
<1>7. PICK r \in Request :
         /\ Serves(e, r)
         /\ \/ r = push /\ editor[e].row.site # site
            \/ r = Idle /\ editor[e].row.site = site
      BY <1>5, <1>6 DEF Changed
<1>8. editor' \in [Editor -> Request] /\ editor'[e] = r
      /\ \A f \in Editor \ {e} : editor'[f] = editor[f]
      BY <1>7, Serving
<1>9. table' \in [Lead -> Row \union {Absent, Gone}] /\ table'[l] = row
      /\ \A m \in Lead \ {l} : table'[m] = table[m]
      BY <1>4, <1>6 DEF Typed
<1>10. /\ bound' = bound /\ \A m \in Lead \ {l} : m \in disturbed' <=> m \in disturbed
       /\ l \notin disturbed' => l \notin disturbed /\ \A f \in Editor \ {e} : ~Busy(f, l)
       /\ \A m \in Lead \ {l} : m \in overtaken' <=> m \in overtaken
       /\ l \notin overtaken' => l \notin overtaken /\ \A job \in Waiting(l) : job.site = site
      BY <1>2, <1>6, Disturbs, Readdressing
<1>11. Typed'
      BY <1>2, <1>8, <1>9, <1>10 DEF Typed
<1>12. ASSUME NEW m \in Lead \ {l} PROVE UpToDate(m)' /\ Chased(m)' /\ Untouched(m)'
      <2>1. ~Busy(e, m) /\ ~Busy(e, m)'
            BY <1>2, <1>5, <1>7, <1>8 DEF Busy
      <2> QED BY <1>2, <1>8, <1>9, <1>10, <2>1, Quiet, OfOthers
<1>13. l \notin disturbed' => editor[e].row = table[l]
      BY <1>2, <1>10 DEF UpToDate, Busy
<1>14. l \notin disturbed' => \A f \in Editor \ {e} : ~Busy(f, l)' /\ ~Pushing(f, l)' /\ ~Pushing(f, l)
      BY <1>8, <1>10 DEF Busy, Pushing
<1>15. r = push => Pushing(e, l)' /\ editor'[e].site = site /\ editor'[e].at # "edit"
      BY <1>5, <1>8 DEF Pushing
<1>16. r = Idle => ~Busy(e, l)' /\ ~Pushing(e, l)'
      BY <1>5, <1>8 DEF Busy, Pushing
<1>17. UpToDate(l)'
      <2> SUFFICES ASSUME l \notin disturbed'
                   PROVE  /\ \A f \in Editor : editor'[f].at = "edit" /\ Busy(f, l)' => editor'[f].row = table'[l]
                          /\ \A f \in Editor : Pushing(f, l)' => editor'[f].site = table'[l].site
          BY DEF UpToDate
      <2> QED BY <1>4, <1>7, <1>9, <1>14, <1>15, <1>16
<1>18. Chased(l)'
      <2> SUFFICES ASSUME l \notin disturbed', l \notin overtaken'
                   PROVE  /\ \A job \in Waiting(l)' : job.site = table'[l].site
                          /\ \/ \E f \in Editor : Pushing(f, l)'
                             \/ Waiting(l)' # {}
                             \/ crawled'[l] = table'[l].site
          BY DEF Chased
      <2>1. Waiting(l)' = Waiting(l) /\ table'[l].site = site
            BY <1>2, <1>4, <1>9, Quiet
      <2>2. CASE r = push
            BY <1>10, <1>15, <2>1, <2>2
      <2>3. CASE r = Idle /\ editor[e].row.site = site
            <3>1. ~Pushing(e, l)
                  BY <1>2 DEF Pushing
            <3>2. Waiting(l) # {} \/ crawled[l] = table[l].site
                  BY <1>2, <1>10, <1>14, <3>1 DEF Chased
            <3> QED BY <1>2, <1>10, <1>13, <2>1, <2>3, <3>2
      <2> QED BY <1>7, <2>2, <2>3
<1>19. Untouched(l)'
      BY <1>4, <1>9, Shapes DEF Untouched
<1> QED BY <1>4, <1>9, <1>11, <1>12, <1>13, <1>17, <1>18, <1>19

LEMMA SaveFailsInv ==
    ASSUME DeskInv, NEW e \in Editor, SaveFails(e)
    PROVE  DeskInv'
<1> USE DEF DeskInv
<1>1. /\ editor[e].at = "edit" /\ ~There(editor[e].lead) /\ Serves(e, Idle)
      /\ UNCHANGED <<bound, table, crawled, outbox, overtaken, disturbed>>
      BY DEF SaveFails, jobs
<1>2. editor' \in [Editor -> Request] /\ editor'[e] = Idle
      /\ \A f \in Editor \ {e} : editor'[f] = editor[f]
      BY <1>1, Shapes, Serving
<1>3. Typed'
      BY <1>1, <1>2 DEF Typed
<1>4. ASSUME NEW m \in Lead PROVE UpToDate(m)' /\ Chased(m)' /\ Untouched(m)'
      <2>1. CASE m = editor[e].lead
            <3>1. ~There(m)'
                  BY <1>1, <2>1 DEF There
            <3>2. Untouched(m)'
                  BY <1>1, <1>2, Shapes, Quiet DEF Untouched, Busy
            <3> QED BY <3>1, <3>2 DEF UpToDate, Chased
      <2>2. CASE m # editor[e].lead
            <3>1. ~Busy(e, m) /\ ~Busy(e, m)'
                  BY <1>2, <2>2, Shapes DEF Busy
            <3> QED BY <1>1, <1>2, <3>1, Quiet, OfOthers
      <2> QED BY <2>1, <2>2
<1> QED BY <1>3, <1>4

LEMMA RescanInv ==
    ASSUME DeskInv, NEW e \in Editor, NEW l \in Lead, Rescan(e, l)
    PROVE  DeskInv'
<1> USE DEF DeskInv
<1> DEFINE push == [at |-> "push", lead |-> l, site |-> table[l].site]
<1>1. /\ editor[e].at = "idle" /\ There(l) /\ Serves(e, push)
      /\ UNCHANGED <<bound, table, crawled, outbox, overtaken, disturbed>>
      BY DEF Rescan, jobs
<1>2. table[l] \in Row /\ table[l].site \in Site \union {None}
      BY <1>1, Rows, Shapes
<1>3. push \in Request /\ push.at = "push" /\ push.lead = l /\ push.site = table[l].site
      BY <1>2, Shapes
<1> HIDE DEF push
<1>4. editor' \in [Editor -> Request] /\ editor'[e] = push
      /\ \A f \in Editor \ {e} : editor'[f] = editor[f]
      BY <1>1, <1>3, Serving
<1>5. Typed'
      BY <1>1, <1>4 DEF Typed
<1>6. ASSUME NEW m \in Lead \ {l} PROVE UpToDate(m)' /\ Chased(m)' /\ Untouched(m)'
      <2>1. ~Busy(e, m) /\ ~Busy(e, m)'
            BY <1>1, <1>3, <1>4 DEF Busy
      <2> QED BY <1>1, <1>4, <2>1, Quiet, OfOthers
<1>7. UpToDate(l)'
      <2> SUFFICES ASSUME l \notin disturbed
                   PROVE  /\ \A f \in Editor : editor'[f].at = "edit" /\ Busy(f, l)' => editor'[f].row = table'[l]
                          /\ \A f \in Editor : Pushing(f, l)' => editor'[f].site = table'[l].site
          BY <1>1 DEF UpToDate
      <2>1. \A f \in Editor : editor'[f].at = "edit" /\ Busy(f, l)' => editor'[f].row = table'[l]
            BY <1>1, <1>3, <1>4 DEF UpToDate, Busy
      <2>2. \A f \in Editor : Pushing(f, l)' => editor'[f].site = table'[l].site
            BY <1>1, <1>3, <1>4 DEF UpToDate, Pushing
      <2> QED BY <2>1, <2>2
<1>8. Chased(l)'
      <2>1. Pushing(e, l)'
            BY <1>3, <1>4 DEF Pushing
      <2> QED BY <1>1, <2>1, Quiet DEF Chased
<1>9. Untouched(l)'
      BY <1>1, Rows DEF Untouched
<1> QED BY <1>5, <1>6, <1>7, <1>8, <1>9

LEMMA PushInv ==
    ASSUME DeskInv, NEW e \in Editor, Push(e)
    PROVE  DeskInv'
<1> USE DEF DeskInv
<1>1. /\ editor[e].at = "push" /\ Serves(e, Idle)
      /\ UNCHANGED <<bound, table, outbox, overtaken>>
      BY DEF Push
<1>2. editor[e].lead \in Lead /\ editor[e].site \in Site \union {None}
      BY <1>1, Shapes DEF Typed
<1> PICK l \in Lead : l = editor[e].lead
      BY <1>2
<1>3. editor' \in [Editor -> Request] /\ editor'[e] = Idle
      /\ \A f \in Editor \ {e} : editor'[f] = editor[f]
      BY <1>1, Shapes, Serving
<1>4. /\ crawled' = [crawled EXCEPT ![l] = editor[e].site] \/ crawled' = crawled
      /\ disturbed' = disturbed \union {l} \/ disturbed' = disturbed
      /\ l \notin disturbed' =>
            /\ crawled' = [crawled EXCEPT ![l] = editor[e].site] /\ l \notin disturbed
            /\ \A f \in Editor \ {e} : ~Busy(f, l)
      BY DEF Push, Busy
<1>5. crawled' \in [Lead -> Site \union {None}] /\ \A m \in Lead \ {l} : crawled'[m] = crawled[m]
      BY <1>2, <1>4 DEF Typed
<1>6. Typed'
      BY <1>1, <1>3, <1>5 DEF Typed
<1>7. ASSUME NEW m \in Lead \ {l} PROVE UpToDate(m)' /\ Chased(m)' /\ Untouched(m)'
      <2>1. ~Busy(e, m) /\ ~Busy(e, m)'
            BY <1>3, Shapes DEF Busy
      <2>2. m \in disturbed' <=> m \in disturbed
            BY <1>4
      <2> QED BY <1>1, <1>3, <1>5, <2>1, <2>2, Quiet, OfOthers
<1>8. Busy(e, l) /\ table[l] # Absent
      BY <1>1, <1>2 DEF Busy, Untouched
<1>9. Untouched(l)'
      BY <1>1, <1>8 DEF Untouched
<1>10. UpToDate(l)' /\ Chased(l)'
      <2>5. Waiting(l)' = Waiting(l)
            BY <1>1, Quiet
      <2>6. There(l)' /\ l \notin disturbed' \union overtaken' =>
               \A job \in Waiting(l) : job.site = table[l].site
            BY <1>1, <1>4 DEF Chased, There
      <2> SUFFICES ASSUME There(l)', l \notin disturbed'
                   PROVE  /\ \A f \in Editor : ~Busy(f, l)'
                          /\ crawled'[l] = table'[l].site
          BY <1>1, <2>5, <2>6 DEF UpToDate, Chased, Busy, Pushing
      <2>1. \A f \in Editor : ~Busy(f, l)'
            BY <1>3, <1>4, Shapes DEF Busy
      <2>2. crawled'[l] = editor[e].site
            BY <1>2, <1>4 DEF Typed
      <2>3. There(l)
            BY <1>1 DEF There
      <2>4. editor[e].site = table[l].site
            BY <1>1, <1>2, <1>4, <2>3 DEF UpToDate, Pushing
      <2> QED BY <1>1, <2>1, <2>2, <2>4
<1> QED BY <1>6, <1>7, <1>9, <1>10

LEMMA DeleteInv ==
    ASSUME DeskInv, NEW l \in Lead, Delete(l)
    PROVE  DeskInv'
<1> USE DEF DeskInv
<1>1. /\ table' = [table EXCEPT ![l] = Gone] /\ Writes(l, Editor)
      /\ UNCHANGED <<crawled, outbox, overtaken, editor>>
      BY DEF Delete, jobs
<1>2. table' \in [Lead -> Row \union {Absent, Gone}] /\ table'[l] = Gone
      /\ \A m \in Lead \ {l} : table'[m] = table[m]
      BY <1>1 DEF Typed
<1>3. bound' = bound /\ \A m \in Lead \ {l} : m \in disturbed' <=> m \in disturbed
      BY <1>1, Disturbs
<1>4. Typed'
      BY <1>1, <1>2, <1>3 DEF Typed
<1>5. ASSUME NEW m \in Lead \ {l} PROVE UpToDate(m)' /\ Chased(m)' /\ Untouched(m)'
      BY <1>1, <1>2, <1>3, Quiet, OfOthers
<1>6. ~There(l)' /\ table'[l] # Absent
      BY <1>2, Shapes DEF There
<1>7. UpToDate(l)' /\ Chased(l)' /\ Untouched(l)'
      BY <1>6 DEF UpToDate, Chased, Untouched
<1> QED BY <1>4, <1>5, <1>7

\* A collection writes the website and its job together, and counts up the rest.
LEMMA CollectInv ==
    ASSUME DeskInv, NEW l \in Lead, NEW site \in Site \union {None}, Collect(l, site)
    PROVE  DeskInv' /\ (There(l) => table'[l].extra >= table[l].extra)
<1> USE DEF DeskInv
<1> DEFINE kept == IF site = None /\ There(l) THEN table[l].site ELSE site
           next == IF There(l) THEN table[l].extra + 1 ELSE 0
           row == [is |-> "there", site |-> kept, extra |-> next]
           job == [lead |-> l, site |-> site]
<1>1. /\ table[l].is # "gone" /\ table' = [table EXCEPT ![l] = row] /\ Readdresses(l, kept)
      /\ outbox' = IF site = None THEN outbox ELSE outbox \union {job}
      /\ Writes(l, Editor) /\ editor' = editor /\ crawled' = crawled
      BY DEF Collect
<1>2. There(l) => table[l].site \in Site \union {None} /\ table[l].extra \in Nat
      BY Rows, Shapes
<1>3. kept \in Site \union {None} /\ next \in Nat /\ (There(l) => next >= table[l].extra)
      BY <1>2
<1>4. (site = None /\ There(l) => kept = table[l].site) /\ (~(site = None /\ There(l)) => kept = site)
      OBVIOUS
<1> HIDE DEF kept, next
<1>5. row \in Row /\ row.site = kept /\ row.extra = next /\ row # Absent
      BY <1>3, Shapes
<1> HIDE DEF row
<1>6. table' \in [Lead -> Row \union {Absent, Gone}] /\ table'[l] = row
      /\ \A m \in Lead \ {l} : table'[m] = table[m]
      BY <1>1, <1>5 DEF Typed
<1>7. /\ outbox' \subseteq [lead : Lead, site : Site]
      /\ Waiting(l)' = IF site = None THEN Waiting(l) ELSE Waiting(l) \union {job}
      /\ \A m \in Lead \ {l} : Waiting(m)' = Waiting(m)
      BY <1>1 DEF Typed, Waiting
<1>8. /\ bound' = bound /\ \A m \in Lead \ {l} : m \in disturbed' <=> m \in disturbed
      /\ l \notin disturbed' => l \notin disturbed /\ \A f \in Editor : ~Busy(f, l)
      /\ \A m \in Lead \ {l} : m \in overtaken' <=> m \in overtaken
      /\ l \notin overtaken' => l \notin overtaken /\ \A old \in Waiting(l) : old.site = kept
      BY <1>1, Disturbs, Readdressing
<1>9. Typed'
      BY <1>1, <1>6, <1>7, <1>8 DEF Typed
<1>10. ASSUME NEW m \in Lead \ {l} PROVE UpToDate(m)' /\ Chased(m)' /\ Untouched(m)'
      BY <1>1, <1>6, <1>7, <1>8, OfOthers
<1>11. table[l] = Absent \/ There(l)
      BY <1>1, Shapes DEF Typed, There
<1>12. UpToDate(l)'
      BY <1>1, <1>8 DEF UpToDate, Busy, Pushing
<1>13. Chased(l)'
      <2> SUFFICES ASSUME l \notin disturbed', l \notin overtaken'
                   PROVE  /\ \A old \in Waiting(l)' : old.site = kept
                          /\ Waiting(l)' # {} \/ crawled[l] = kept
          BY <1>1, <1>5, <1>6 DEF Chased
      <2>1. \A f \in Editor : ~Pushing(f, l)
            BY <1>8 DEF Busy, Pushing
      <2>2. CASE site # None
            <3>1. job.site = kept /\ Waiting(l)' = Waiting(l) \union {job}
                  BY <1>4, <1>7, <2>2
            <3>2. \A old \in Waiting(l) : old.site = kept
                  BY <1>8
            <3> QED BY <3>1, <3>2
      <2>3. CASE site = None /\ table[l] = Absent
            <3>1. crawled[l] = None /\ ~There(l)
                  BY <2>3, Rows DEF Untouched
            <3> QED BY <1>4, <1>7, <1>8, <2>3, <3>1
      <2>4. CASE site = None /\ There(l)
            <3>1. Waiting(l) # {} \/ crawled[l] = table[l].site
                  BY <1>8, <2>1, <2>4 DEF Chased
            <3> QED BY <1>4, <1>7, <1>8, <2>4, <3>1
      <2> QED BY <1>11, <2>2, <2>3, <2>4
<1>14. Untouched(l)'
      BY <1>5, <1>6 DEF Untouched
<1> QED BY <1>3, <1>5, <1>6, <1>9, <1>10, <1>12, <1>13, <1>14

\* What the relay pushes is about the website, unless it was overtaken.
LEMMA PublishInv ==
    ASSUME DeskInv, NEW job \in outbox, Publish(job)
    PROVE  DeskInv' /\ table' = table
<1> USE DEF DeskInv
<1>1. job.lead \in Lead /\ job.site \in Site
      BY DEF Typed
<1> PICK l \in Lead : l = job.lead
      BY <1>1
<1>2. /\ crawled' = [crawled EXCEPT ![l] = job.site] /\ outbox' \in {outbox, outbox \ {job}}
      /\ UNCHANGED <<bound, table, editor, disturbed, overtaken>>
      BY DEF Publish
<1>3. /\ crawled' \in [Lead -> Site \union {None}] /\ crawled'[l] = job.site
      /\ \A m \in Lead \ {l} : crawled'[m] = crawled[m]
      BY <1>1, <1>2 DEF Typed
<1>4. /\ outbox' \subseteq outbox /\ job \in Waiting(l) /\ Waiting(l)' \subseteq Waiting(l)
      /\ \A m \in Lead \ {l} : Waiting(m)' = Waiting(m)
      BY <1>2 DEF Waiting
<1>5. Typed'
      BY <1>2, <1>3, <1>4 DEF Typed
<1>6. ASSUME NEW m \in Lead \ {l} PROVE UpToDate(m)' /\ Chased(m)' /\ Untouched(m)'
      BY <1>2, <1>3, <1>4, OfOthers
<1>7. UpToDate(l)' /\ Untouched(l)'
      BY <1>2, <1>4 DEF UpToDate, Untouched, There, Busy, Pushing
<1>8. Chased(l)'
      BY <1>2, <1>3, <1>4 DEF Chased, There
<1> QED BY <1>2, <1>5, <1>6, <1>7, <1>8

\* A score, and everything the dashboard does, leave the rows as they are.
LEMMA RowsStay ==
    ASSUME DeskInv, UNCHANGED <<bound, table, jobs, editor, disturbed>>
    PROVE  DeskInv'
<1> USE DEF DeskInv, jobs
<1>1. Typed'
      BY DEF Typed
<1>2. ASSUME NEW m \in Lead PROVE UpToDate(m)' /\ Chased(m)' /\ Untouched(m)'
      BY Quiet, OfOthers
<1> QED BY <1>1, <1>2

LEMMA ScoredStays ==
    ASSUME NEW l \in Lead, Scored(l)
    PROVE  UNCHANGED <<bound, table, jobs, editor, disturbed>>
    BY DEF Scored, Writes

LEMMA ReadsStay ==
    ASSUME Reads
    PROVE  UNCHANGED <<bound, table, jobs, editor, disturbed>>
<1>1. CASE Load \/ Filter \/ NextPage \/ PrevPage \/ Refresh
      BY <1>1 DEF Load, Filter, NextPage, PrevPage, Refresh, Asks, data
<1>2. CASE \E r \in open : Count(r) \/ Select(r) \/ Arrive(r) \/ LoadFails(r)
      BY <1>2 DEF Count, Select, Arrive, LoadFails, data
<1> QED BY <1>1, <1>2 DEF Reads

-----------------------------------------------------------------------------
LEMMA InitInv == Init => DeskInv
<1> SUFFICES ASSUME Init PROVE DeskInv
    OBVIOUS
<1>1. bound.site \in Site /\ bound \in Scene
      BY SceneAssumption DEF Init
<1> DEFINE row == [is |-> "there", site |-> bound.site, extra |-> 0]
<1>2. row \in Row /\ row.site = bound.site /\ row # Absent
      BY <1>1, Shapes
<1> HIDE DEF row
<1>3. /\ table = [l \in Lead |-> IF l \in bound.first THEN row ELSE Absent]
      /\ crawled = [l \in Lead |-> IF l \in bound.first THEN bound.site ELSE None]
      /\ editor = [e \in Editor |-> Idle]
      /\ outbox = {} /\ overtaken = {}
      BY DEF Init, row
<1>4. Typed
      BY <1>1, <1>2, <1>3, Shapes DEF Typed
<1>5. ASSUME NEW l \in Lead PROVE UpToDate(l) /\ Chased(l) /\ Untouched(l)
      <2>1. Waiting(l) = {} /\ \A e \in Editor : ~Busy(e, l) /\ ~Pushing(e, l)
            BY <1>3, Shapes DEF Busy, Pushing, Waiting
      <2>2. CASE l \in bound.first
            BY <1>2, <1>3, <2>1, <2>2 DEF UpToDate, Chased, Untouched
      <2>3. CASE l \notin bound.first
            <3>1. ~There(l)
                  BY <1>3, <2>3, Shapes DEF There
            <3> QED BY <1>3, <2>1, <2>3, <3>1 DEF UpToDate, Chased, Untouched
      <2> QED BY <2>2, <2>3
<1> QED BY <1>4, <1>5 DEF DeskInv

\* A step keeps the invariant, and what an undisturbed lead has beside the form.
LEMMA StepInv ==
    ASSUME DeskInv, [Next]_vars
    PROVE  /\ DeskInv'
           /\ \A l \in Lead : There(l) /\ There(l)' /\ l \notin disturbed'
                 => table'[l].extra >= table[l].extra
<1> DEFINE Keeps(l) == There(l) /\ There(l)' /\ l \notin disturbed'
                          => table'[l].extra >= table[l].extra
<1> SUFFICES DeskInv' /\ \A l \in Lead : Keeps(l)
    OBVIOUS
<1>1. ASSUME NEW l \in Lead, table'[l] = table[l] PROVE Keeps(l)
      <2>1. There(l) => table[l].extra \in Nat
            BY Rows, Shapes DEF DeskInv
      <2> QED BY <1>1, <2>1
<1>2. CASE table' = table /\ DeskInv'
      BY <1>1, <1>2
<1>3. ASSUME NEW e \in Editor, NEW l \in Lead, Add(e, l) PROVE DeskInv' /\ \A m \in Lead : Keeps(m)
      <2>1. DeskInv'
            BY <1>3, AddInv
      <2>2. \A m \in Lead \ {l} : table'[m] = table[m]
            BY <1>3 DEF Add, DeskInv, Typed
      <2>3. ~There(l)
            BY <1>3, Rows DEF Add, DeskInv
      <2> QED BY <1>1, <2>1, <2>2, <2>3
<1>4. ASSUME NEW e \in Editor, NEW l \in Lead, Save(e, l) PROVE DeskInv' /\ \A m \in Lead : Keeps(m)
      <2>1. DeskInv' /\ (l \notin disturbed' => table'[l].extra = table[l].extra)
            BY <1>4, SaveInv
      <2>2. \A m \in Lead \ {l} : table'[m] = table[m]
            BY <1>4 DEF Save, DeskInv, Typed
      <2>3. There(l) => table[l].extra \in Nat
            BY Rows, Shapes DEF DeskInv
      <2>4. Keeps(l)
            BY <2>1, <2>3
      <2> QED BY <1>1, <2>1, <2>2, <2>4
<1>5. ASSUME NEW l \in Lead, NEW site \in Site \union {None}, Collect(l, site)
      PROVE  DeskInv' /\ \A m \in Lead : Keeps(m)
      <2>1. DeskInv' /\ (There(l) => table'[l].extra >= table[l].extra)
            BY <1>5, CollectInv
      <2>2. \A m \in Lead \ {l} : table'[m] = table[m]
            BY <1>5 DEF Collect, DeskInv, Typed
      <2> QED BY <1>1, <2>1, <2>2
<1>6. ASSUME NEW l \in Lead, Delete(l) PROVE DeskInv' /\ \A m \in Lead : Keeps(m)
      <2>1. DeskInv'
            BY <1>6, DeleteInv
      <2>2. table'[l] = Gone /\ \A m \in Lead \ {l} : table'[m] = table[m]
            BY <1>6 DEF Delete, DeskInv, Typed
      <2>3. ~There(l)'
            BY <2>2, Shapes DEF There
      <2> QED BY <1>1, <2>1, <2>2, <2>3
<1>7. ASSUME NEW e \in Editor,
             (\E l \in Lead : Open(e, l) \/ Rescan(e, l)) \/ SaveFails(e) \/ Push(e)
      PROVE  DeskInv' /\ table' = table
      <2>1. DeskInv'
            BY <1>7, OpenInv, RescanInv, SaveFailsInv, PushInv
      <2>2. table' = table
            BY <1>7 DEF Open, Rescan, SaveFails, Push
      <2> QED BY <2>1, <2>2
<1>8. CASE Reads \/ (\E l \in Lead : Scored(l)) \/ UNCHANGED vars
      <2>1. UNCHANGED <<bound, table, jobs, editor, disturbed>>
            BY <1>8, ReadsStay, ScoredStays DEF vars, data
      <2> QED BY <1>2, <2>1, RowsStay
<1>9. bound.editors \subseteq Editor /\ bound.leads \subseteq Lead
      BY SceneAssumption DEF DeskInv, Typed
<1> HIDE DEF Keeps
<1>10. CASE Edits
      BY <1>2, <1>3, <1>4, <1>5, <1>6, <1>7, <1>8, <1>9, <1>10, PublishInv DEF Edits
<1> QED BY <1>8, <1>10 DEF Next

\* The invariant holds in every reachable state.
THEOREM DeskInvariant == Spec => []DeskInv
<1> QED BY InitInv, StepInv, PTL DEF Spec

\* Without a disturbance, with no request on the way and no crawl in the outbox, a
\* lead's last job is about the website it has (Update, Create and Rescan in
\* leads.go, collections and the relay), unless an edit has overtaken a crawl.
THEOREM ScoredForItsSite == Spec => []ScoreFollowsSite
<1>1. DeskInv => ScoreFollowsSite
      BY DEF DeskInv, Chased, Waiting, Busy, Pushing, ScoreFollowsSite, Leads
<1> QED BY <1>1, DeskInvariant, PTL

\* An edit that nothing overlaps keeps what collections have brought (Update
\* writes back every column it has read).
THEOREM RestIsKept == Spec => EditKeepsTheRest
<1>1. DeskInv /\ [Next]_vars =>
         [\A l \in Lead : There(l) /\ There(l)' /\ l \notin disturbed'
              => table'[l].extra >= table[l].extra]_vars
      BY StepInv
<1> QED BY <1>1, DeskInvariant, PTL DEF Spec, EditKeepsTheRest

-----------------------------------------------------------------------------
(* The dashboard.                                                           *)

\* A request for a page, and its answer.
Ask == [n : Nat, number : Nat \ {0}, high : BOOLEAN, total : Nat \union {None},
        counted : Nat, rows : Seq(Lead), done : BOOLEAN]

\* What an answer says is so, unless the list was written since it was counted.
Honest(r) ==
    /\ r \in Ask
    /\ r.done => r.total # None
    /\ r.total # None => r.counted <= writes
    /\ r.total # None /\ r.counted = writes => r.total = Cardinality(Matching(r.high))
    /\ r.done /\ r.counted = writes =>
          \E s \in Orders(Matching(r.high)) : r.rows = Slice(s, r.number)

\* An answer to what the controls say.
Current(r) ==
    /\ r.number = page.number /\ r.high = page.high
    /\ r.total # None => turned <= r.counted

\* One request at a time, for a page that the list had when it was turned to.
Orderly ==
    ~crossed =>
        /\ \/ open = {} /\ view = NoView
           \/ \E r \in open : open = {r} /\ Current(r)
           \/ open = {} /\ view # NoView /\ Current(view)
        /\ turned = writes =>
              \/ page.number = 1
              \/ (page.number - 1) * Limit < Cardinality(Matching(page.high))

\* How many of n rows the pages up to a number hold.
UpTo(number, n) == IF number * Limit < n THEN number * Limit ELSE n

Distinct == \A l, m \in Leads : l # m => score[l] # score[m] \/ Name[l] # Name[m]

\* The pages turned through are the beginning of the one order there is.
Walked ==
    view # NoView /\ walk.whole =>
        /\ view.counted = walk.from
        /\ walk.from = writes /\ Distinct =>
              \E s \in Orders(Matching(view.high)) :
                  walk.rows = SubSeq(s, 1, UpTo(view.number, Len(s)))

PageTyped ==
    /\ writes \in Nat /\ asked \in Nat /\ turned \in 0 .. writes
    /\ page \in [number : Nat \ {0}, high : BOOLEAN]
    /\ \A r \in open : Honest(r)
    /\ view # NoView => Honest(view) /\ view.done
    /\ walk \in [from : Nat, rows : Seq(Lead), whole : BOOLEAN]

PageInv ==
    /\ score \in [Lead -> Score \union {None}]
    /\ PageTyped /\ Orderly /\ Walked

-----------------------------------------------------------------------------
\* A set of numbers that is not empty has a least one.
LEMMA Least ==
    ASSUME NEW S, S \subseteq Nat, S # {}
    PROVE  \E k \in S : \A m \in S : k <= m
<1> DEFINE Less == {ss \in Nat \X Nat : ss[1] < ss[2]}
<1>1. IsWellFoundedOn(Less, Nat)
      BY NatLessThanWellFounded DEF OpToRel
<1> HIDE DEF Less
<1>2. PICK k \in S : \A m \in S : ~ (<<m, k>> \in Less)
      BY <1>1, WFMin
<1>3. ASSUME NEW m \in S PROVE k <= m
      <2>1. k \in Nat /\ m \in Nat /\ <<m, k>> \in Nat \X Nat
            OBVIOUS
      <2>2. ~ (<<m, k>>[1] < <<m, k>>[2])
            BY <1>2, <2>1 DEF Less
      <2> QED BY <2>1, <2>2
<1> QED BY <1>3

\* An order lists every element of the set once.
LEMMA OrderLists ==
    ASSUME NEW S, S \subseteq Lead, NEW s \in Orders(S)
    PROVE  /\ s \in Seq(Lead) /\ Len(s) = Cardinality(S) /\ Cardinality(S) \in Nat
           /\ IsInjective(s) /\ ToSet(s) = S
<1>1. IsFiniteSet(S) /\ Cardinality(S) \in Nat
      BY LeadAssumption, FS_Subset, FS_CardinalityType
<1> PICK n \in Nat : n = Cardinality(S)
      BY <1>1
<1>2. s \in [1 .. n -> S] /\ \A i, j \in 1 .. n : i # j => s[i] # s[j]
      BY DEF Orders, SetToSeqs
<1>3. s \in Seq(Lead) /\ Len(s) = n /\ DOMAIN s = 1 .. n
      BY <1>2
<1>4. IsInjective(s)
      BY <1>2, <1>3 DEF IsInjective
<1>5. s \in Injection(1 .. n, S)
      BY <1>2, <1>3, <1>4 DEF Injection
<1>6. Cardinality(1 .. n) = n
      BY FS_Interval
<1>7. s \in Surjection(1 .. n, S)
      BY <1>1, <1>5, <1>6, FS_Injection
<1>8. ToSet(s) = S
      <2>1. \A x \in S : \E i \in 1 .. n : s[i] = x
            BY <1>7 DEF Surjection
      <2> QED BY <1>2, <1>3, <2>1 DEF ToSet
<1> QED BY <1>1, <1>2, <1>3, <1>4, <1>8

\* leadSort tells two leads apart that differ in score or name.
LEMMA BeforeOrAfter ==
    ASSUME score \in [Lead -> Score \union {None}], NEW l \in Lead, NEW m \in Lead,
           score[l] # score[m] \/ Name[l] # Name[m]
    PROVE  (Before(l, m) \/ Before(m, l)) /\ ~(Before(l, m) /\ Before(m, l))
<1>1. Score \subseteq Nat /\ Name \in [Lead -> Nat]
      BY LeadAssumption
<1>2. Name[l] \in Int /\ Name[m] \in Int
      BY <1>1
<1>3. score[l] \in Int /\ score[m] \in Int
      <2>1. \A x \in Score \union {None} : x \in Int
            BY <1>1 DEF None
      <2>2. score[l] \in Score \union {None} /\ score[m] \in Score \union {None}
            OBVIOUS
      <2> QED BY <2>1, <2>2
<1> QED BY <1>2, <1>3 DEF Before

\* Without ties there is one order.
LEMMA OneOrder ==
    ASSUME score \in [Lead -> Score \union {None}],
           NEW S, S \subseteq Lead,
           \A l, m \in S : l # m => score[l] # score[m] \/ Name[l] # Name[m],
           NEW s \in Orders(S), NEW t \in Orders(S)
    PROVE  s = t
<1>1. /\ s \in Seq(Lead) /\ IsInjective(s) /\ ToSet(s) = S
      /\ t \in Seq(Lead) /\ IsInjective(t) /\ ToSet(t) = S
      /\ Len(s) = Len(t)
      BY OrderLists
<1> PICK n \in Nat : n = Len(s)
      BY <1>1
<1>2. DOMAIN s = 1 .. n /\ DOMAIN t = 1 .. n
      BY <1>1
<1>3. /\ \A i, j \in 1 .. n : i < j => ~Before(s[j], s[i]) /\ ~Before(t[j], t[i])
      BY <1>2 DEF Orders
<1>4. \A i, j \in 1 .. n : (s[i] = s[j] => i = j) /\ (t[i] = t[j] => i = j)
      BY <1>1, <1>2 DEF IsInjective
<1>5. \A i \in 1 .. n : s[i] \in S /\ t[i] \in S
      BY <1>1, <1>2 DEF ToSet
<1>6. \A x \in S : (\E i \in 1 .. n : s[i] = x) /\ (\E i \in 1 .. n : t[i] = x)
      BY <1>1, <1>2 DEF ToSet
<1> DEFINE Apart == {i \in 1 .. n : s[i] # t[i]}
<1>7. CASE Apart = {}
      BY <1>1, <1>2, <1>7
<1>8. CASE Apart # {}
      <2>1. PICK i \in Apart : \A k \in Apart : i <= k
            <3>1. Apart \subseteq Nat
                  OBVIOUS
            <3> QED BY <1>8, <3>1, Least
      <2>2. i \in 1 .. n /\ s[i] # t[i] /\ \A k \in 1 .. n : k < i => s[k] = t[k]
            BY <2>1
      <2>3. PICK j \in 1 .. n : t[j] = s[i]
            BY <1>5, <1>6, <2>2
      <2>4. PICK k \in 1 .. n : s[k] = t[i]
            BY <1>5, <1>6, <2>2
      <2>5. j > i
            BY <1>4, <2>2, <2>3
      <2>6. k > i
            BY <1>4, <2>2, <2>4
      <2>7. ~Before(s[k], s[i]) /\ ~Before(t[j], t[i])
            BY <1>3, <2>2, <2>5, <2>6
      <2>8. ~Before(t[i], s[i]) /\ ~Before(s[i], t[i])
            BY <2>3, <2>4, <2>7
      <2>9. Before(t[i], s[i]) \/ Before(s[i], t[i])
            BY <1>5, <2>2, BeforeOrAfter
      <2> QED BY <2>8, <2>9
<1> QED BY <1>7, <1>8

LEMMA MatchingFinite ==
    ASSUME NEW high
    PROVE  /\ Matching(high) \subseteq Lead /\ IsFiniteSet(Matching(high))
           /\ Cardinality(Matching(high)) \in Nat
<1>1. Matching(high) \subseteq Lead
      BY DEF Matching, Leads
<1> QED BY <1>1, LeadAssumption, FS_Subset, FS_CardinalityType

-----------------------------------------------------------------------------
(* Pages.                                                                   *)

LEMMA Size == Limit \in Nat \ {0} /\ PageSize(Limit) = Limit
<1>1. MaxSize \in Nat /\ Limit \in 1 .. MaxSize
      BY SizeAssumption
<1>2. Limit \in Nat \ {0} /\ ~(Limit <= 0) /\ ~(Limit > MaxSize)
      BY <1>1
<1> QED BY <1>2 DEF PageSize

LEMMA Products ==
    ASSUME NEW k \in Nat
    PROVE  k * Limit \in Nat /\ (k + 1) * Limit = k * Limit + Limit
    BY Size

\* Where a page begins and ends.
LEMMA Cut ==
    ASSUME NEW k \in Nat, NEW n \in Nat
    PROVE  /\ UpTo(k, n) \in 0 .. n
           /\ k * Limit < n => UpTo(k, n) = k * Limit
           /\ ~(k * Limit < n) => UpTo(k, n) = n
           /\ UpTo(k, n) <= UpTo(k + 1, n)
<1> PICK a \in Nat : a = k * Limit
      BY Products
<1> PICK b \in Nat : b = (k + 1) * Limit
      BY Products
<1>1. a <= b
      BY Products, Size
<1>2. UpTo(k, n) = (IF a < n THEN a ELSE n) /\ UpTo(k + 1, n) = (IF b < n THEN b ELSE n)
      BY DEF UpTo
<1> QED BY <1>1, <1>2

LEMMA Sliced ==
    ASSUME NEW s \in Seq(Lead), NEW k \in Nat
    PROVE  /\ Slice(s, k + 1) = SubSeq(s, k * Limit + 1, UpTo(k + 1, Len(s)))
           /\ Slice(s, k + 1) \in Seq(Lead)
           /\ SubSeq(s, 1, UpTo(k, Len(s))) \in Seq(Lead)
<1> PICK n \in Nat : n = Len(s)
      OBVIOUS
<1> PICK a \in Nat : a = k * Limit
      BY Products
<1>1. Slice(s, k + 1) = SubSeq(s, a + 1, UpTo(k + 1, n))
      <2>1. (k + 1) - 1 = k
            OBVIOUS
      <2> QED BY <2>1, Size DEF Slice, UpTo
<1>2. UpTo(k, n) \in 0 .. n /\ UpTo(k + 1, n) \in 0 .. n
      <2>1. \A i \in Nat : UpTo(i, n) \in 0 .. n
            BY Cut
      <2>2. k + 1 \in Nat
            OBVIOUS
      <2> QED BY <2>1, <2>2
<1>3. \A i \in 1 .. n : s[i] \in Lead
      OBVIOUS
<1>4. \A m \in Nat \ {0}, j \in 0 .. n : SubSeq(s, m, j) \in Seq(Lead)
      <2> TAKE m \in Nat \ {0}, j \in 0 .. n
      <2>1. \A i \in m .. j : s[i] \in Lead
            BY <1>3
      <2> QED BY <2>1, SubSeqProperties
<1>5. SubSeq(s, a + 1, UpTo(k + 1, n)) \in Seq(Lead) /\ SubSeq(s, 1, UpTo(k, n)) \in Seq(Lead)
      BY <1>2, <1>4
<1> QED BY <1>1, <1>5

\* The next page goes on where the pages before it end.
LEMMA GoesOn ==
    ASSUME NEW s \in Seq(Lead), NEW k \in Nat
    PROVE  SubSeq(s, 1, UpTo(k, Len(s))) \o Slice(s, k + 1) = SubSeq(s, 1, UpTo(k + 1, Len(s)))
<1> PICK n \in Nat : n = Len(s)
      OBVIOUS
<1> PICK a \in Nat : a = k * Limit
      BY Products
<1> PICK b \in 0 .. n : b = UpTo(k + 1, n)
      <2>1. \A i \in Nat : UpTo(i, n) \in 0 .. n
            BY Cut
      <2> QED BY <2>1
<1>1. UpTo(k, n) \in 0 .. n /\ UpTo(k, n) <= b
      /\ (a < n => UpTo(k, n) = a) /\ (~(a < n) => UpTo(k, n) = n)
      BY Cut
<1>2. Slice(s, k + 1) = SubSeq(s, a + 1, b)
      BY Sliced
<1>3. CASE a < n
      <2>1. SubSeq(s, 1, a) \o SubSeq(s, a + 1, b) = SubSeq(s, 1, b)
            <3>1. 1 \in 1 .. Len(s) + 1 /\ a \in 1 - 1 .. Len(s) /\ b \in a .. Len(s)
                  BY <1>1, <1>3
            <3> QED BY <3>1, ConcatAdjacentSubSeq
      <2> QED BY <1>1, <1>2, <1>3, <2>1
<1>4. CASE ~(a < n)
      <2>1. b = n /\ UpTo(k, n) = n
            BY <1>1, <1>4
      <2>2. SubSeq(s, a + 1, b) = <<>>
            BY <1>4, SubSeqEmpty
      <2>3. SubSeq(s, 1, n) \in Seq(Lead)
            BY <2>1, Sliced
      <2> QED BY <1>2, <2>1, <2>2, <2>3, ConcatEmptySeq
<1> QED BY <1>3, <1>4

\* A page is blank only behind the end.
LEMMA BlankPage ==
    ASSUME NEW s \in Seq(Lead), NEW k \in Nat, Slice(s, k + 1) = <<>>
    PROVE  Len(s) <= k * Limit
<1> PICK n \in Nat : n = Len(s)
      OBVIOUS
<1> PICK a \in Nat : a = k * Limit
      BY Products
<1> PICK b \in Nat : b = (k + 1) * Limit /\ b > a
      BY Products, Size
<1> SUFFICES ASSUME a < n PROVE FALSE
      OBVIOUS
<1> PICK c \in a + 1 .. n : c = UpTo(k + 1, n)
      BY DEF UpTo
<1>1. \A i \in a + 1 .. c : s[i] \in Lead
      OBVIOUS
<1>2. Len(SubSeq(s, a + 1, c)) = c - (a + 1) + 1
      BY <1>1, SubSeqProperties
<1>3. Len(SubSeq(s, a + 1, c)) = 0
      <2>1. SubSeq(s, a + 1, c) = <<>>
            BY Sliced
      <2> QED BY <2>1
<1> QED BY <1>2, <1>3

-----------------------------------------------------------------------------
(* What a step does to the answers.                                         *)

LEMMA ListStays ==
    ASSUME UNCHANGED <<table, score>>
    PROVE  /\ \A high : Matching(high)' = Matching(high)
           /\ \A S : Orders(S)' = Orders(S)
           /\ Distinct' = Distinct
<1>1. Leads' = Leads
      BY DEF Leads, There
<1>2. \A high : Matching(high)' = Matching(high)
      BY <1>1 DEF Matching
<1>3. \A S : Orders(S)' = Orders(S)
      BY DEF Orders, Before
<1>4. Distinct' = Distinct
      BY <1>1 DEF Distinct
<1> QED BY <1>2, <1>3, <1>4

LEMMA HonestStays ==
    ASSUME UNCHANGED <<table, score, writes>>, NEW r, Honest(r)
    PROVE  Honest(r)'
    BY ListStays DEF Honest

\* A write makes every answer an old one.
LEMMA HonestAges ==
    ASSUME writes \in Nat, writes' = writes + 1, NEW r, Honest(r)
    PROVE  Honest(r)' /\ (r.total # None => r.counted # writes')
<1>1. r.total # None => r.counted \in Nat /\ r.counted <= writes
      BY DEF Honest, Ask
<1>2. r.total # None => r.counted <= writes' /\ r.counted # writes'
      BY <1>1
<1> QED BY <1>2 DEF Honest

LEMMA WritesAge ==
    ASSUME PageInv, UNCHANGED dash, writes' = writes + 1,
           score' \in [Lead -> Score \union {None}]
    PROVE  PageInv'
<1>0. UNCHANGED <<page, asked, open, view, turned, crossed, walk>>
      BY DEF dash
<1>1. writes \in Nat /\ writes' \in Nat /\ turned \in 0 .. writes /\ turned \in 0 .. writes'
      /\ turned # writes'
      BY DEF PageInv, PageTyped
<1>2. PageTyped'
      BY <1>0, <1>1, HonestAges DEF PageInv, PageTyped
<1>3. Orderly'
      BY <1>0, <1>1 DEF PageInv, Orderly, Current
<1>4. view # NoView => view.counted # writes'
      <2> SUFFICES ASSUME view # NoView PROVE view.counted # writes'
          OBVIOUS
      <2>1. Honest(view) /\ view.total # None
            BY DEF PageInv, PageTyped, Honest
      <2> QED BY <1>1, <2>1, HonestAges
<1>5. Walked'
      BY <1>0, <1>4 DEF PageInv, Walked
<1> QED BY <1>2, <1>3, <1>5 DEF PageInv

LEMMA PagesStay ==
    ASSUME PageInv, UNCHANGED <<table, score, writes, page, asked, open, view, turned, crossed, walk>>
    PROVE  PageInv'
<1>1. PageTyped'
      BY HonestStays DEF PageInv, PageTyped
<1>2. Orderly'
      BY ListStays DEF PageInv, Orderly, Current
<1>3. Walked'
      BY ListStays DEF PageInv, Walked
<1> QED BY <1>1, <1>2, <1>3 DEF PageInv

\* Edits leave the dashboard alone.
LEMMA EditsApart == ASSUME Edits PROVE UNCHANGED <<bound, dash>>
<1>1. ASSUME NEW l, NEW others, Writes(l, others) PROVE UNCHANGED <<bound, dash>>
      BY <1>1 DEF Writes
<1>2. ASSUME NEW e, NEW l, Add(e, l) \/ Save(e, l) PROVE UNCHANGED <<bound, dash>>
      BY <1>1, <1>2 DEF Add, Save
<1>3. ASSUME NEW e, NEW l, Open(e, l) \/ Rescan(e, l) PROVE UNCHANGED <<bound, dash>>
      BY <1>3 DEF Open, Rescan
<1>4. ASSUME NEW e, SaveFails(e) \/ Push(e) PROVE UNCHANGED <<bound, dash>>
      BY <1>4 DEF SaveFails, Push
<1>5. ASSUME NEW l, NEW site, Delete(l) \/ Scored(l) \/ Collect(l, site)
      PROVE  UNCHANGED <<bound, dash>>
      BY <1>1, <1>5 DEF Delete, Scored, Collect
<1>6. ASSUME NEW job, Publish(job) PROVE UNCHANGED <<bound, dash>>
      BY <1>6 DEF Publish
<1> QED BY <1>2, <1>3, <1>4, <1>5, <1>6 DEF Edits

\* What is written is counted.
LEMMA EditsAge ==
    ASSUME PageInv, Edits
    PROVE  PageInv'
<1> USE DEF PageInv
<1>1. UNCHANGED dash
      BY EditsApart
<1>2. CASE UNCHANGED <<table, score, writes>>
      BY <1>1, <1>2, PagesStay DEF dash
<1>3. CASE writes' = writes + 1 /\ score' \in [Lead -> Score \union {None}]
      BY <1>1, <1>3, WritesAge
<1>4. ASSUME NEW l, Delete(l) PROVE score' \in [Lead -> Score \union {None}]
      BY <1>4 DEF Delete
<1>5. ASSUME NEW l, Scored(l) PROVE score' \in [Lead -> Score \union {None}]
      BY <1>5 DEF Scored
<1>6. \/ UNCHANGED <<table, score, writes>>
      \/ writes' = writes + 1 /\ score' = score
      \/ \E l : writes' = writes + 1 /\ (Delete(l) \/ Scored(l))
      <2>1. ASSUME NEW e, NEW l, Add(e, l) \/ Save(e, l)
            PROVE  writes' = writes + 1 /\ score' = score
            BY <2>1 DEF Add, Save, Writes
      <2>2. ASSUME NEW e, NEW l, Open(e, l) \/ Rescan(e, l)
            PROVE  UNCHANGED <<table, score, writes>>
            BY <2>2 DEF Open, Rescan
      <2>3. ASSUME NEW e, SaveFails(e) \/ Push(e)
            PROVE  UNCHANGED <<table, score, writes>>
            BY <2>3 DEF SaveFails, Push
      <2>4. ASSUME NEW l, Delete(l) \/ Scored(l) PROVE writes' = writes + 1
            BY <2>4 DEF Delete, Scored, Writes
      <2>5. ASSUME NEW l, NEW site \in Site \union {None}, Collect(l, site)
            PROVE  writes' = writes + 1 /\ score' = score
            BY <2>5 DEF Collect, Writes
      <2>6. ASSUME NEW job, Publish(job) PROVE UNCHANGED <<table, score, writes>>
            BY <2>6 DEF Publish
      <2> QED BY <2>1, <2>2, <2>3, <2>4, <2>5, <2>6 DEF Edits
<1> QED BY <1>2, <1>3, <1>4, <1>5, <1>6

LEMMA AsksInv ==
    ASSUME PageInv, NEW number \in Nat \ {0}, NEW high \in BOOLEAN, NEW known \in 0 .. writes,
           Asks(number, high, known),
           ~crossed' /\ known = writes =>
              number = 1 \/ (number - 1) * Limit < Cardinality(Matching(high))
    PROVE  PageInv'
<1> PICK r : r = [n |-> asked + 1, number |-> number, high |-> high,
                  total |-> None, counted |-> 0, rows |-> <<>>, done |-> FALSE]
      OBVIOUS
<1>1. /\ asked' = asked + 1 /\ page' = [number |-> number, high |-> high]
      /\ open' = open \union {r} /\ turned' = known
      /\ crossed' = (open # {} \/ (crossed /\ number # 1))
      /\ UNCHANGED <<table, score, writes, view, walk>>
      BY DEF Asks, data
<1>2. r \in Ask /\ r.number = number /\ r.high = high /\ r.total = None /\ r.done = FALSE
      BY DEF Ask, PageInv, PageTyped
<1>3. page'.number = number /\ page'.high = high /\ page' \in [number : Nat \ {0}, high : BOOLEAN]
      BY <1>1
<1>4. Honest(r)'
      BY <1>2 DEF Honest
<1>5. PageTyped'
      <2>1. \A q \in open' : Honest(q)'
            BY <1>1, <1>4, HonestStays DEF PageInv, PageTyped
      <2>2. view' # NoView => Honest(view)' /\ view'.done
            <3>1. view # NoView => Honest(view)' /\ view.done
                  BY <1>1, HonestStays DEF PageInv, PageTyped
            <3> QED BY <1>1, <3>1
      <2>3. /\ writes' \in Nat /\ asked' \in Nat /\ turned' \in 0 .. writes'
            /\ walk' \in [from : Nat, rows : Seq(Lead), whole : BOOLEAN]
            BY <1>1 DEF PageInv, PageTyped
      <2> QED BY <1>3, <2>1, <2>2, <2>3 DEF PageTyped
<1>6. Orderly'
      <2> SUFFICES ASSUME ~crossed'
                   PROVE  /\ \E q \in open' : open' = {q} /\ Current(q)'
                          /\ turned' = writes' => \/ page'.number = 1
                                                 \/ (page'.number - 1) * Limit < Cardinality(Matching(high)')
          BY <1>3 DEF Orderly
      <2>1. open' = {r}
            BY <1>1
      <2>2. Current(r)'
            BY <1>2, <1>3 DEF Current
      <2>3. Matching(high)' = Matching(high)
            BY <1>1, ListStays
      <2> QED BY <1>1, <1>3, <2>1, <2>2, <2>3
<1>7. Walked'
      BY <1>1, ListStays DEF PageInv, Walked
<1> QED BY <1>1, <1>5, <1>6, <1>7 DEF PageInv

LEMMA TurnsInv ==
    ASSUME PageInv, Load \/ Filter \/ NextPage \/ PrevPage \/ Refresh
    PROVE  PageInv'
<1> USE DEF PageInv
<1>0. /\ writes \in 0 .. writes /\ turned \in 0 .. writes
      /\ page.number \in Nat \ {0} /\ page.high \in BOOLEAN
      BY DEF PageTyped
<1>1. ASSUME NEW high \in BOOLEAN, Asks(1, high, writes) PROVE PageInv'
      <2> PICK number \in Nat \ {0} : number = 1
            OBVIOUS
      <2> QED BY <1>0, <1>1, AsksInv
<1>2. CASE Load \/ Filter
      BY <1>0, <1>1, <1>2 DEF Load, Filter
<1> DEFINE Has(p) == p = 1 \/ (p - 1) * Limit < Cardinality(Matching(page.high))
<1>3. CASE NextPage
      <2>1. /\ view # NoView /\ page.number * Limit < view.total
            /\ Asks(page.number + 1, page.high, view.counted)
            BY <1>3 DEF NextPage
      <2>2. Honest(view) /\ view.total # None /\ view.counted \in 0 .. writes
            BY <2>1 DEF PageTyped, Honest, Ask
      <2>3. ASSUME ~crossed', view.counted = writes PROVE Has(page.number + 1)
            <3>1. ~crossed /\ open = {}
                  <4>1. crossed' = (open # {} \/ (crossed /\ page.number + 1 # 1))
                        BY <2>1 DEF Asks
                  <4>2. page.number + 1 # 1
                        BY <1>0
                  <4> QED BY <2>3, <4>1, <4>2
            <3>2. view.high = page.high
                  BY <2>1, <3>1 DEF Orderly, Current
            <3>3. view.total = Cardinality(Matching(page.high))
                  BY <2>2, <2>3, <3>2 DEF Honest
            <3>4. (page.number + 1) - 1 = page.number
                  BY <1>0
            <3> QED BY <2>1, <3>3, <3>4
      <2>4. page.number + 1 \in Nat \ {0}
            BY <1>0
      <2> QED BY <1>0, <2>1, <2>2, <2>3, <2>4, AsksInv
<1>4. CASE PrevPage
      <2>1. page.number > 1 /\ Asks(page.number - 1, page.high, turned)
            BY <1>4 DEF PrevPage
      <2>2. ASSUME ~crossed', turned = writes PROVE Has(page.number - 1)
            <3> SUFFICES ASSUME page.number - 1 # 1 PROVE Has(page.number - 1)
                OBVIOUS
            <3>1. ~crossed
                  BY <2>1, <2>2 DEF Asks
            <3>2. (page.number - 1) * Limit < Cardinality(Matching(page.high))
                  BY <2>1, <2>2, <3>1, <1>0 DEF Orderly
            <3> PICK k \in Nat : page.number = k + 2
                  <4>1. page.number - 2 \in Nat /\ page.number = (page.number - 2) + 2
                        BY <1>0, <2>1
                  <4> QED BY <4>1
            <3>3. (k + 1) * Limit < Cardinality(Matching(page.high)) /\ k * Limit \in Nat
                  /\ (k + 1) * Limit = k * Limit + Limit /\ Limit \in Nat
                  BY <3>2, Products, Size
            <3>4. Cardinality(Matching(page.high)) \in Nat
                  BY MatchingFinite
            <3>5. k * Limit < Cardinality(Matching(page.high))
                  BY <3>3, <3>4
            <3> QED BY <3>5
      <2>3. page.number - 1 \in Nat \ {0}
            BY <1>0, <2>1
      <2> QED BY <1>0, <2>1, <2>2, <2>3, AsksInv
<1>5. CASE Refresh
      <2>1. Asks(page.number, page.high, turned)
            BY <1>5 DEF Refresh
      <2>2. ASSUME ~crossed', turned = writes PROVE Has(page.number)
            <3> SUFFICES ASSUME page.number # 1 PROVE Has(page.number)
                OBVIOUS
            <3>1. ~crossed
                  BY <2>1, <2>2 DEF Asks
            <3> QED BY <2>2, <3>1 DEF Orderly
      <2> QED BY <1>0, <2>1, <2>2, AsksInv
<1> QED BY <1>2, <1>3, <1>4, <1>5

\* An open request takes its next step.
LEMMA Replaced ==
    ASSUME PageInv, NEW r \in open, NEW q, open' = (open \ {r}) \union {q}, Honest(q)',
           q.number = r.number, q.high = r.high, crossed \/ q.counted >= turned,
           UNCHANGED <<table, score, writes, page, asked, view, turned, crossed, walk>>
    PROVE  PageInv'
<1> USE DEF PageInv
<1>1. PageTyped'
      BY HonestStays DEF PageTyped
<1>2. Orderly'
      <2> SUFFICES ASSUME ~crossed
                   PROVE  /\ \E p \in open' : open' = {p} /\ Current(p)'
                          /\ turned = writes => \/ page.number = 1
                                               \/ (page.number - 1) * Limit < Cardinality(Matching(page.high)')
          BY DEF Orderly
      <2>1. open = {r} /\ Current(r)
            BY DEF Orderly
      <2>2. open' = {q} /\ Current(q)'
            BY <2>1 DEF Current
      <2> QED BY <2>2, ListStays DEF Orderly
<1>3. Walked'
      BY ListStays DEF Walked
<1> QED BY <1>1, <1>2, <1>3

LEMMA CountInv ==
    ASSUME PageInv, NEW r \in open, Count(r)
    PROVE  PageInv'
<1> USE DEF PageInv
<1> PICK q : q = [r EXCEPT !.total = Cardinality(Matching(r.high)), !.counted = writes]
      OBVIOUS
<1>1. /\ r.total = None /\ open' = (open \ {r}) \union {q}
      /\ UNCHANGED <<table, score, writes, page, asked, view, turned, crossed, walk>>
      BY DEF Count, data
<1>2. Honest(r) /\ r \in Ask /\ r.done = FALSE
      BY <1>1 DEF PageTyped, Honest, Ask
<1> PICK c \in Nat : c = Cardinality(Matching(r.high))
      BY MatchingFinite
<1>3. writes \in Nat /\ turned <= writes
      BY DEF PageTyped
<1>4. /\ q \in Ask /\ q.number = r.number /\ q.high = r.high /\ q.total = c
      /\ q.counted = writes /\ q.done = FALSE
      BY <1>2, <1>3 DEF Ask
<1>5. Honest(q)'
      BY <1>1, <1>3, <1>4, ListStays DEF Honest
<1> QED BY <1>1, <1>3, <1>4, <1>5, Replaced

LEMMA SelectInv ==
    ASSUME PageInv, NEW r \in open, Select(r)
    PROVE  PageInv'
<1> USE DEF PageInv
<1>1. PICK s \in Orders(Matching(r.high)) :
         open' = (open \ {r}) \union {[r EXCEPT !.rows = Slice(s, r.number), !.done = TRUE]}
      BY DEF Select
<1>2. /\ r.total # None
      /\ UNCHANGED <<table, score, writes, page, asked, view, turned, crossed, walk>>
      BY DEF Select, data
<1>3. Honest(r) /\ r \in Ask /\ r.number - 1 \in Nat /\ r.number = (r.number - 1) + 1
      BY DEF PageTyped, Honest, Ask
<1> PICK rows \in Seq(Lead) : rows = Slice(s, r.number)
      <2>1. s \in Seq(Lead)
            BY OrderLists, MatchingFinite
      <2> QED BY <1>3, <2>1, Sliced
<1> PICK q : q = [r EXCEPT !.rows = rows, !.done = TRUE]
      OBVIOUS
<1>4. /\ q \in Ask /\ q.number = r.number /\ q.high = r.high /\ q.total = r.total
      /\ q.counted = r.counted /\ q.done = TRUE /\ q.rows = rows
      BY <1>3 DEF Ask
<1>5. Honest(q)'
      BY <1>1, <1>2, <1>3, <1>4, ListStays DEF Honest
<1>6. r.counted >= turned \/ crossed
      BY <1>2 DEF Orderly, Current
<1> QED BY <1>1, <1>2, <1>4, <1>5, <1>6, Replaced

LEMMA ArriveInv ==
    ASSUME PageInv, NEW r \in open, Arrive(r)
    PROVE  PageInv'
<1> USE DEF PageInv
<1>1. /\ r.done /\ open' = open \ {r} /\ view' = r
      /\ UNCHANGED <<table, score, writes, page, asked, turned, crossed>>
      BY DEF Arrive, data
<1>2. /\ Honest(r) /\ r \in Ask /\ r.counted \in Nat /\ r.rows \in Seq(Lead)
      /\ r.number \in Nat \ {0} /\ r.total # None
      BY <1>1 DEF PageTyped, Honest, Ask
<1>3. Honest(r)'
      BY <1>1, <1>2, HonestStays
<1>4. walk \in [from : Nat, rows : Seq(Lead), whole : BOOLEAN]
      BY DEF PageTyped
<1>5. \A p \in open' : Honest(p)'
      BY <1>1, HonestStays DEF PageTyped
<1>6. Orderly'
      <2> SUFFICES ASSUME ~crossed
                   PROVE  /\ open' = {} /\ Current(r)'
                          /\ turned = writes => \/ page.number = 1
                                               \/ (page.number - 1) * Limit < Cardinality(Matching(page.high)')
                          /\ view' # NoView
          BY <1>1 DEF Orderly
      <2>1. open = {r} /\ Current(r)
            BY DEF Orderly
      <2>2. open' = {} /\ Current(r)'
            BY <1>1, <2>1 DEF Current
      <2>3. view' # NoView
            BY <1>1, <1>2 DEF Ask, NoView
      <2> QED BY <1>1, <2>2, <2>3, ListStays DEF Orderly
<1> DEFINE Tells(s) == s \in Orders(Matching(r.high)) /\ s \in Seq(Lead) /\ r.rows = Slice(s, r.number)
<1>7. r.counted = writes => \E s : Tells(s)
      BY <1>1, <1>2, OrderLists, MatchingFinite DEF Honest
<1>8. SUFFICES /\ walk' \in [from : Nat, rows : Seq(Lead), whole : BOOLEAN]
               /\ walk'.whole =>
                    /\ r.counted = walk'.from
                    /\ walk'.from = writes /\ Distinct =>
                          \E s \in Orders(Matching(r.high)) :
                              walk'.rows = SubSeq(s, 1, UpTo(r.number, Len(s)))
      <2>1. Walked'
            BY <1>1, <1>8, ListStays DEF Walked
      <2>2. PageTyped'
            BY <1>1, <1>3, <1>5, <1>8 DEF PageTyped
      <2> QED BY <1>1, <1>6, <2>1, <2>2
<1>9. CASE r.number = 1
      <2>1. walk' = [from |-> r.counted, rows |-> r.rows, whole |-> TRUE]
            BY <1>9 DEF Arrive
      <2>2. \A s : Tells(s) => r.rows = SubSeq(s, 1, UpTo(1, Len(s)))
            <3> SUFFICES ASSUME NEW s, Tells(s) PROVE r.rows = SubSeq(s, 1, UpTo(1, Len(s)))
                OBVIOUS
            <3>1. Slice(s, 0 + 1) = SubSeq(s, 0 * Limit + 1, UpTo(0 + 1, Len(s)))
                  BY Sliced
            <3>2. 0 * Limit + 1 = 1 /\ 0 + 1 = 1
                  BY Size
            <3> QED BY <1>9, <3>1, <3>2
      <2>3. /\ walk'.from = r.counted /\ walk'.rows = r.rows
            /\ walk' \in [from : Nat, rows : Seq(Lead), whole : BOOLEAN]
            BY <1>2, <2>1
      <2> QED BY <1>7, <1>9, <2>2, <2>3
<1>10. CASE r.number # 1 /\ Follows(r)
      <2>1. /\ view # NoView /\ walk.whole
            /\ r.number = view.number + 1 /\ r.high = view.high /\ r.counted = walk.from
            BY <1>10 DEF Follows
      <2>2. walk' = [walk EXCEPT !.rows = @ \o r.rows]
            BY <1>10 DEF Arrive
      <2>3. walk'.rows = walk.rows \o r.rows /\ walk'.from = walk.from
            BY <1>4, <2>2
      <2>4. walk.rows \o r.rows \in Seq(Lead)
            BY <1>2, <1>4, ConcatProperties
      <2>5. walk' \in [from : Nat, rows : Seq(Lead), whole : BOOLEAN]
            BY <1>4, <2>2, <2>4
      <2>6. ASSUME walk.from = writes, Distinct
            PROVE  \E s \in Orders(Matching(r.high)) :
                       walk'.rows = SubSeq(s, 1, UpTo(r.number, Len(s)))
            <3>1. PICK s \in Orders(Matching(r.high)) :
                     walk.rows = SubSeq(s, 1, UpTo(view.number, Len(s)))
                  BY <2>1, <2>6 DEF Walked
            <3>2. PICK t : Tells(t)
                  BY <1>7, <2>1, <2>6
            <3>3. s = t
                  <4>1. Matching(r.high) \subseteq Leads /\ Matching(r.high) \subseteq Lead
                        BY MatchingFinite DEF Matching
                  <4>2. \A l, m \in Matching(r.high) : l # m => score[l] # score[m] \/ Name[l] # Name[m]
                        BY <2>6, <4>1 DEF Distinct
                  <4> QED BY <3>2, <4>1, <4>2, OneOrder
            <3>4. view.number \in Nat
                  BY <2>1 DEF PageTyped, Honest, Ask
            <3>5. SubSeq(s, 1, UpTo(view.number, Len(s))) \o Slice(s, view.number + 1)
                     = SubSeq(s, 1, UpTo(view.number + 1, Len(s)))
                  BY <3>2, <3>3, <3>4, GoesOn
            <3> QED BY <2>1, <2>3, <3>1, <3>2, <3>3, <3>5
      <2> QED BY <2>1, <2>3, <2>5, <2>6
<1>11. CASE r.number # 1 /\ ~Follows(r)
      <2>1. walk' = [walk EXCEPT !.whole = FALSE]
            BY <1>11 DEF Arrive
      <2>2. walk'.whole = FALSE /\ walk' \in [from : Nat, rows : Seq(Lead), whole : BOOLEAN]
            BY <1>4, <2>1
      <2> QED BY <2>2
<1> QED BY <1>9, <1>10, <1>11

LEMMA LoadFailsInv ==
    ASSUME PageInv, NEW r \in open, LoadFails(r)
    PROVE  PageInv'
<1> USE DEF PageInv
<1>1. /\ open' = open \ {r} /\ crossed' = TRUE
      /\ UNCHANGED <<table, score, writes, page, asked, view, turned, walk>>
      BY DEF LoadFails, data
<1>2. PageTyped'
      BY <1>1, HonestStays DEF PageTyped
<1>3. Orderly' /\ Walked'
      BY <1>1, ListStays DEF Orderly, Walked
<1> QED BY <1>1, <1>2, <1>3

LEMMA PageStep == PageInv /\ [Next]_vars => PageInv'
<1> SUFFICES ASSUME PageInv, [Next]_vars PROVE PageInv'
    OBVIOUS
<1>1. CASE Edits
      BY <1>1, EditsAge
<1>2. CASE Reads
      BY <1>2, TurnsInv, CountInv, SelectInv, ArriveInv, LoadFailsInv DEF Reads
<1>3. CASE UNCHANGED vars
      BY <1>3, PagesStay DEF vars, data, dash
<1> QED BY <1>1, <1>2, <1>3 DEF Next

\* What the dashboard shows and knows, in every reachable state.
THEOREM PagesInvariant == Spec => []PageInv
<1>1. Init => PageInv
      <2> SUFFICES ASSUME Init PROVE PageInv
          OBVIOUS
      <2>1. /\ writes = 0 /\ asked = 0 /\ turned = 0 /\ open = {} /\ view = NoView
            /\ page = [number |-> 1, high |-> FALSE]
            /\ walk = [from |-> 0, rows |-> <<>>, whole |-> FALSE]
            BY DEF Init
      <2>2. score \in [Lead -> Score \union {None}]
            BY DEF Init
      <2> QED BY <2>1, <2>2 DEF PageInv, PageTyped, Orderly, Walked
<1> QED BY <1>1, PageStep, PTL DEF Spec

\* Pages turned through from the first to the last show every lead that matches
\* once, when no write comes between and no two leads tie (LeadRepo.List).
THEOREM EveryLeadIsShown == Spec => []WalkIsWhole
<1>1. PageInv => WalkIsWhole
      <2> SUFFICES ASSUME PageInv, view # NoView, walk.whole, walk.from = writes,
                          view.number * Limit >= view.total, Distinct
                   PROVE  IsInjective(walk.rows) /\ ToSet(walk.rows) = Matching(view.high)
          BY DEF WalkIsWhole, Distinct
      <2>1. PICK s \in Orders(Matching(view.high)) :
               walk.rows = SubSeq(s, 1, UpTo(view.number, Len(s)))
            BY DEF PageInv, Walked
      <2>2. /\ s \in Seq(Lead) /\ Len(s) = Cardinality(Matching(view.high)) /\ Len(s) \in Nat
            /\ IsInjective(s) /\ ToSet(s) = Matching(view.high)
            BY OrderLists, MatchingFinite
      <2>3. view.total = Len(s) /\ view.number \in Nat
            BY <2>2 DEF PageInv, PageTyped, Walked, Honest, Ask
      <2> PICK a \in Nat : a = view.number * Limit
            BY <2>3, Products
      <2>4. UpTo(view.number, Len(s)) = Len(s)
            BY <2>2, <2>3 DEF UpTo
      <2>5. walk.rows = s
            BY <2>1, <2>2, <2>4, SubSeqFull
      <2> QED BY <2>2, <2>5
<1> QED BY <1>1, PagesInvariant, PTL

\* The table shows the page that the controls name, and is blank only when no
\* lead matches, but for answers that cross, failures and writes (load, prev and
\* next of the dashboard).
THEOREM PageIsShown == Spec => []ViewIsHonest
<1>1. PageInv => ViewIsHonest
      <2> SUFFICES ASSUME PageInv, open = {}, view # NoView, ~crossed
                   PROVE  /\ view.number = page.number /\ view.high = page.high
                          /\ view.rows = <<>> /\ turned = writes => Matching(page.high) = {}
          BY DEF ViewIsHonest
      <2>1. Current(view) /\ Honest(view) /\ view.done
            BY DEF PageInv, Orderly, PageTyped
      <2>2. view.number = page.number /\ view.high = page.high
            BY <2>1 DEF Current
      <2>3. ASSUME view.rows = <<>>, turned = writes PROVE Matching(page.high) = {}
            <3>1. view.counted = writes
                  BY <2>1, <2>3 DEF Current, Honest, Ask, PageInv, PageTyped
            <3>2. PICK s \in Orders(Matching(page.high)) : Slice(s, page.number) = <<>>
                  BY <2>1, <2>2, <2>3, <3>1 DEF Honest
            <3>3. s \in Seq(Lead) /\ Len(s) = Cardinality(Matching(page.high)) /\ Len(s) \in Nat
                  BY OrderLists, MatchingFinite
            <3>4. page.number - 1 \in Nat /\ page.number = (page.number - 1) + 1
                  BY DEF PageInv, PageTyped
            <3> PICK a \in Nat : a = (page.number - 1) * Limit
                  BY <3>4, Products
            <3>5. Len(s) <= a
                  BY <3>2, <3>3, <3>4, BlankPage
            <3>6. page.number = 1
                  BY <2>3, <3>3, <3>5 DEF PageInv, Orderly
            <3>7. a = 0
                  BY <3>6, Size
            <3>8. Cardinality(Matching(page.high)) = 0
                  BY <3>3, <3>5, <3>7
            <3> QED BY <3>8, MatchingFinite, FS_EmptySet
      <2> QED BY <2>2, <2>3
<1> QED BY <1>1, PagesInvariant, PTL

-----------------------------------------------------------------------------
(* Types.                                                                   *)

\* What the types of the variables add to both invariants.
Bounded ==
    /\ writes \in 0 .. bound.writes /\ asked \in 0 .. bound.asked
    /\ disturbed \subseteq Lead /\ overtaken \subseteq Lead
    /\ \A r \in open : r.n \in 1 .. asked

LEMMA Bounds == ASSUME Typed PROVE bound.writes \in Nat /\ bound.asked \in Nat
BY SceneAssumption DEF Typed

\* Who is disturbed is at work on a lead, or it was written.
LEMMA EditsBounded ==
    ASSUME DeskInv, Bounded, Edits
    PROVE  Bounded'
<1>0. bound.writes \in Nat
      BY Bounds DEF DeskInv
<1>1. bound' = bound /\ open' = open /\ asked' = asked
      BY EditsApart DEF dash
<1>2. ASSUME NEW l \in Lead, NEW others \in SUBSET Editor, Writes(l, others)
      PROVE  writes' \in 0 .. bound.writes /\ disturbed' \subseteq Lead
      BY <1>0, <1>2 DEF Writes, Bounded
<1>3. ASSUME NEW e \in Editor, Push(e)
      PROVE  writes' \in 0 .. bound.writes /\ disturbed' \subseteq Lead
      <2>1. editor[e].at = "push" /\ editor[e] \in Request
            BY <1>3 DEF Push, DeskInv, Typed
      <2>2. editor[e].lead \in Lead
            BY <2>1, Shapes
      <2> QED BY <1>3, <2>2 DEF Push, Bounded
<1>4. \/ \E l \in Lead, others \in SUBSET Editor : Writes(l, others)
      \/ \E e \in Editor : Push(e)
      \/ UNCHANGED <<writes, disturbed>>
      <2>1. ASSUME NEW e \in Editor, NEW l \in Lead, Add(e, l) \/ Save(e, l)
            PROVE  \E others \in SUBSET Editor : Writes(l, others)
            BY <2>1 DEF Add, Save
      <2>2. ASSUME NEW l \in Lead, Delete(l) \/ Scored(l)
            PROVE  \E others \in SUBSET Editor : Writes(l, others)
            BY <2>2 DEF Delete, Scored
      <2>3. ASSUME NEW l \in Lead, NEW site \in Site \union {None}, Collect(l, site)
            PROVE  \E others \in SUBSET Editor : Writes(l, others)
            BY <2>3 DEF Collect
      <2>4. ASSUME NEW e \in Editor, NEW l \in Lead, Open(e, l) \/ Rescan(e, l)
            PROVE  UNCHANGED <<writes, disturbed>>
            BY <2>4 DEF Open, Rescan
      <2>5. ASSUME NEW e \in Editor, SaveFails(e)
            PROVE  UNCHANGED <<writes, disturbed>>
            BY <2>5 DEF SaveFails
      <2>6. bound.editors \subseteq Editor
            BY SceneAssumption DEF DeskInv, Typed
      <2>7. bound.leads \subseteq Lead
            BY SceneAssumption DEF DeskInv, Typed
      <2>8. ASSUME NEW job, Publish(job) PROVE UNCHANGED <<writes, disturbed>>
            BY <2>8 DEF Publish
      <2> QED BY <2>1, <2>2, <2>3, <2>4, <2>5, <2>6, <2>7, <2>8 DEF Edits
<1>5. writes' \in 0 .. bound.writes /\ disturbed' \subseteq Lead
      BY <1>2, <1>3, <1>4 DEF Bounded
<1>6. overtaken' \subseteq Lead
      <2>1. bound.leads \subseteq Lead
            BY SceneAssumption DEF DeskInv, Typed
      <2>2. ASSUME NEW l \in Lead, NEW site, Readdresses(l, site) PROVE overtaken' \subseteq Lead
            BY <2>2 DEF Readdresses, Bounded
      <2>3. ASSUME NEW e, NEW l \in Lead, Save(e, l) PROVE overtaken' \subseteq Lead
            BY <2>2, <2>3 DEF Save
      <2>4. ASSUME NEW l \in Lead, NEW site, Collect(l, site) PROVE overtaken' \subseteq Lead
            BY <2>2, <2>4 DEF Collect
      <2>5. \/ \E l \in Lead : (\E e : Save(e, l)) \/ \E site : Collect(l, site)
            \/ overtaken' = overtaken
            BY <2>1 DEF Edits, Add, Open, Rescan, SaveFails, Push, Delete, Scored, Publish, jobs
      <2> QED BY <2>3, <2>4, <2>5 DEF Bounded
<1> QED BY <1>1, <1>5, <1>6 DEF Bounded

LEMMA ReadsBounded ==
    ASSUME DeskInv, PageInv, Bounded, Reads
    PROVE  Bounded'
<1>0. bound.asked \in Nat
      BY Bounds DEF DeskInv
<1>1. UNCHANGED <<bound, writes, disturbed, overtaken>>
      BY DEF Reads, Load, Filter, NextPage, PrevPage, Refresh, Asks, Count, Select, Arrive,
             LoadFails, data, jobs
<1>2. ASSUME NEW number, NEW high, NEW known, Asks(number, high, known)
      PROVE  asked' \in 0 .. bound.asked /\ \A r \in open' : r.n \in 1 .. asked'
      BY <1>0, <1>2 DEF Asks, Bounded
<1>3. ASSUME NEW r \in open, Count(r) \/ Select(r) \/ Arrive(r) \/ LoadFails(r)
      PROVE  asked' = asked /\ \A q \in open' : \E p \in open : q.n = p.n
      <2>1. r \in Ask
            BY DEF PageInv, PageTyped, Honest
      <2>2. \A total, counted, rows :
               /\ [r EXCEPT !.total = total, !.counted = counted].n = r.n
               /\ [r EXCEPT !.rows = rows, !.done = TRUE].n = r.n
            BY <2>1 DEF Ask
      <2>3. CASE Count(r) \/ Select(r)
            BY <2>2, <2>3 DEF Count, Select
      <2>4. CASE Arrive(r) \/ LoadFails(r)
            BY <2>4 DEF Arrive, LoadFails
      <2> QED BY <1>3, <2>3, <2>4
<1>4. asked' \in 0 .. bound.asked /\ \A r \in open' : r.n \in 1 .. asked'
      <2>1. CASE Load \/ Filter \/ NextPage \/ PrevPage \/ Refresh
            BY <1>2, <2>1 DEF Load, Filter, NextPage, PrevPage, Refresh
      <2>2. ASSUME NEW r \in open, Count(r) \/ Select(r) \/ Arrive(r) \/ LoadFails(r)
            PROVE  asked' \in 0 .. bound.asked /\ \A q \in open' : q.n \in 1 .. asked'
            BY <1>3, <2>2 DEF Bounded
      <2> QED BY <2>1, <2>2 DEF Reads
<1> QED BY <1>1, <1>4 DEF Bounded

\* Every variable is of its type: what is counted stays within its bounds, what
\* is stored is a row of the tables (businesses, lead_scores), and what is asked
\* for was asked for once.
THEOREM DeskTyped == Spec => []TypeOK
<1>1. Init => Bounded
      BY Bounds, SceneAssumption DEF Init, Bounded
<1>2. DeskInv /\ PageInv /\ Bounded /\ [Next]_vars => Bounded'
      <2> SUFFICES ASSUME DeskInv, PageInv, Bounded, [Next]_vars PROVE Bounded'
          OBVIOUS
      <2>1. CASE UNCHANGED vars
            <3>1. UNCHANGED <<bound, writes, asked, disturbed, overtaken, open>>
                  BY <2>1 DEF vars, data, dash, jobs
            <3> QED BY <3>1 DEF Bounded
      <2> QED BY <2>1, EditsBounded, ReadsBounded DEF Next
<1>3. DeskInv /\ PageInv /\ Bounded => TypeOK
      BY DEF DeskInv, Typed, PageInv, PageTyped, Bounded, TypeOK
<1> QED BY <1>1, <1>2, <1>3, DeskInvariant, PagesInvariant, PTL DEF Spec
=============================================================================
