------------------------- MODULE ReporterFormProofs -------------------------
(***************************************************************************)
(* Proofs about ReporterForm, for any number of tabs, saves and faults.    *)
(***************************************************************************)
EXTENDS ReporterForm, FiniteSetTheorems, TLAPS

Waits == {"adding", "stored", "counting"}

\* A save under way belongs to a tab, which shows the form and is busy with it
\* and with no other.
OwnInv ==
  \A k \in Saves : Awaiting(k) =>
    /\ save[k].tab \in Tabs
    /\ tab[save[k].tab].phase = "ready"
    /\ tab[save[k].tab].busy
    /\ \A j \in Saves : Awaiting(j) /\ save[j].tab = save[k].tab => j = k

\* The saves of the entry a form shows belong to its tab and are under way or failed.
FormInv ==
  \A t \in Tabs : \A j \in tab[t].form.from :
    save[j].tab = t /\ save[j].pc \in {"adding", "stored", "failed"}

\* The saves of the same entry before a save have failed; what is stored has been
\* started.
SaveInv ==
  \A k \in Saves :
    /\ \A j \in save[k].before : save[j].pc = "failed"
    /\ k \in outbox => save[k].pc \notin {"none", "adding"}
    /\ save[k].pc = "stored" => k \in outbox

\* The saves whose storing a tab has heard of, or never will.
Heard == {k \in outbox : save[k].pc # "stored"}

TallyInv ==
  /\ disk.sent <= Cardinality(Heard)
  /\ \A t \in Tabs : tab[t].sent <= Cardinality(Heard)
  /\ IsFiniteSet(Lights)
  /\ Cardinality(Lights) <= Cardinality(Heard)

FInv == TypeOK /\ OwnInv /\ FormInv /\ SaveInv /\ TallyInv

-----------------------------------------------------------------------------
(* Forms and pages *)

LEMMA NullIsNothing ==
  /\ Null \notin Items /\ Null \notin Locations /\ Null \notin Words
  /\ IsFiniteSet(Saves)
  BY FormAssumption DEF FormAssumption

LEMMA BlankForm ==
  ASSUME NEW l \in Locations \union {Null}
  PROVE  Blank(l) \in Forms /\ Blank(l).from = {}
  BY DEF Blank, Forms, Prices

LEMMA PageTyped ==
  ASSUME TypeOK, NEW phase \in {"closed", "loading", "ready", "error"}
  PROVE  Page(phase) \in Pages
<1>1. Blank(disk.location) \in Forms
  BY BlankForm DEF TypeOK
<1> QED BY <1>1 DEF Page, Pages, TypeOK

LEMMA NoPageTyped == NoPage \in Pages /\ NoPage.form = Blank(Null)
  BY BlankForm DEF NoPage, Pages

\* Whatever the reporter does to the form, it goes on with its entry and the item
\* chosen in it, or begins a new one.
LEMMA TypesAForm ==
  ASSUME TypeOK, NEW t \in Tabs, Types(t)
  PROVE  \E f \in Forms :
           /\ SetForm(t, f)
           /\ \/ f.from = {}
              \/ f.from = tab[t].form.from /\ f.item = tab[t].form.item
<1> DEFINE o == tab[t].form
<1>o. o \in Forms
  BY DEF TypeOK, Pages
<1>1. CASE \E l \in Locations : ChooseLocation(t, l)
  <2> PICK l \in Locations : ChooseLocation(t, l)
    BY <1>1
  <2> DEFINE f == [o EXCEPT !.location = l]
  <2>1. f \in Forms /\ f.from = o.from /\ f.item = o.item
    BY <1>o DEF Forms
  <2> QED BY <2>1 DEF ChooseLocation
<1>2. CASE \E w \in Words \union {Null} : Search(t, w)
  <2> PICK w \in Words \union {Null} : Search(t, w)
    BY <1>2
  <2> DEFINE f == [o EXCEPT !.query = w]
  <2>1. f \in Forms /\ f.from = o.from /\ f.item = o.item
    BY <1>o DEF Forms
  <2> QED BY <2>1 DEF Search
<1>3. CASE \E i \in Items : SelectItem(t, i)
  <2> PICK i \in Items : SelectItem(t, i)
    BY <1>3
  <2> DEFINE f == [o EXCEPT !.item = i, !.query = Null, !.from = {}]
  <2>1. f \in Forms /\ f.from = {}
    BY <1>o DEF Forms
  <2> QED BY <2>1 DEF SelectItem
<1>4. CASE ClearItem(t)
  <2> DEFINE f == [o EXCEPT !.item = Null, !.query = Null, !.from = {}]
  <2>1. f \in Forms /\ f.from = {}
    BY <1>o DEF Forms
  <2> QED BY <1>4, <2>1 DEF ClearItem
<1>5. CASE \E p \in Prices : TypePrice(t, p)
  <2> PICK p \in Prices : TypePrice(t, p)
    BY <1>5
  <2> DEFINE f == [o EXCEPT !.price = p]
  <2>1. f \in Forms /\ f.from = o.from /\ f.item = o.item
    BY <1>o DEF Forms
  <2> QED BY <2>1 DEF TypePrice
<1> QED BY <1>1, <1>2, <1>3, <1>4, <1>5 DEF Types

-----------------------------------------------------------------------------
(* The tally *)

LEMMA HeardIsFinite ==
  ASSUME TypeOK
  PROVE  IsFiniteSet(Heard) /\ Cardinality(Heard) \in Nat
<1>1. Heard \subseteq Saves
  BY DEF Heard, TypeOK
<1> QED BY <1>1, NullIsNothing, FS_Subset, FS_CardinalityType

\* A step that counts nothing, or takes its count from localStorage.
LEMMA NothingCounted ==
  ASSUME TypeOK, TypeOK', TallyInv,
         Heard \subseteq Heard', disk'.sent = disk.sent, Lights' \subseteq Lights,
         \A t \in Tabs : tab'[t].sent \in {tab[t].sent, disk.sent, 0}
  PROVE  TallyInv'
<1>1. /\ IsFiniteSet(Heard') /\ Cardinality(Heard) <= Cardinality(Heard')
      /\ Cardinality(Heard) \in Nat /\ Cardinality(Heard') \in Nat
  <2>1. Heard' \subseteq Saves
    BY DEF Heard, TypeOK
  <2>2. IsFiniteSet(Heard')
    BY <2>1, NullIsNothing, FS_Subset
  <2> QED BY <2>2, HeardIsFinite, FS_Subset, FS_CardinalityType
<1>2. /\ IsFiniteSet(Lights') /\ Cardinality(Lights') <= Cardinality(Lights)
      /\ Cardinality(Lights) \in Nat /\ Cardinality(Lights') \in Nat
  BY FS_Subset, FS_CardinalityType DEF TallyInv
<1>3. disk.sent \in Nat /\ \A t \in Tabs : tab[t].sent \in Nat
  BY DEF TypeOK, Pages
<1> QED BY <1>1, <1>2, <1>3 DEF TallyInv

\* A step that counts one report more than before, and lights one bar at most.
LEMMA OneCounted ==
  ASSUME TypeOK, TypeOK', TallyInv, NEW k \in Saves, NEW i,
         k \notin Heard, Heard' = Heard \union {k},
         disk'.sent <= Cardinality(Heard) + 1, Lights' \subseteq Lights \union {i},
         \A t \in Tabs : tab'[t].sent <= Cardinality(Heard) + 1
  PROVE  TallyInv'
<1>1. Cardinality(Heard') = Cardinality(Heard) + 1
  BY HeardIsFinite, FS_AddElement
<1>2. /\ IsFiniteSet(Lights \union {i})
      /\ Cardinality(Lights \union {i}) <= Cardinality(Lights) + 1
      /\ Cardinality(Lights) \in Nat
  <2>1. IsFiniteSet(Lights) /\ Cardinality(Lights) \in Nat
    BY FS_CardinalityType DEF TallyInv
  <2> DEFINE L == Lights
  <2> HIDE DEF L
  <2>2. IsFiniteSet(L) /\ Cardinality(L) \in Nat
    BY <2>1 DEF L
  <2>3. /\ IsFiniteSet(L \union {i})
        /\ Cardinality(L \union {i}) = IF i \in L THEN Cardinality(L) ELSE Cardinality(L) + 1
    BY <2>2, FS_AddElement
  <2>4. Cardinality(L \union {i}) <= Cardinality(L) + 1
    BY <2>2, <2>3
  <2> QED BY <2>2, <2>3, <2>4 DEF L
<1>3. /\ IsFiniteSet(Lights') /\ Cardinality(Lights') <= Cardinality(Lights \union {i})
      /\ Cardinality(Lights') \in Nat /\ Cardinality(Lights \union {i}) \in Nat
  BY <1>2, FS_Subset, FS_CardinalityType
<1> QED BY <1>1, <1>2, <1>3, HeardIsFinite DEF TallyInv

-----------------------------------------------------------------------------
(* Steps that start or end no save *)

Disks == [location: Locations \union {Null}, sent: Nat, filled: SUBSET Items,
          catalogue: BOOLEAN]

\* A page no save belongs to is replaced, by a new one or by itself.
LEMMA PageReplaced ==
  ASSUME FInv, NEW t \in Tabs, NEW p \in Pages, tab[t].phase # "ready",
         tab' = [tab EXCEPT ![t] = p], UNCHANGED <<save, outbox, faults, closes>>,
         disk' \in Disks, disk'.sent = disk.sent, disk'.filled = disk.filled,
         p.form.from \subseteq tab[t].form.from,
         p.sent \in {tab[t].sent, disk.sent}, p.filled \in {tab[t].filled, disk.filled}
  PROVE  FInv'
<1>1. TypeOK'
  BY DEF FInv, TypeOK, Disks
<1>2. OwnInv'
  <2>1. \A k \in Saves : Awaiting(k) => save[k].tab # t
    BY DEF FInv, OwnInv
  <2> QED BY <2>1 DEF FInv, OwnInv, Awaiting, TypeOK
<1>3. FormInv'
  BY DEF FInv, FormInv, TypeOK
<1>4. SaveInv'
  BY DEF FInv, SaveInv
<1>5. TallyInv'
  <2>1. Heard' = Heard
    BY DEF Heard
  <2>2. \A u \in Tabs : /\ tab'[u].sent \in {tab[u].sent, disk.sent}
                        /\ tab'[u].filled \subseteq Lights
    BY DEF FInv, TypeOK, Lights
  <2>3. Lights' \subseteq Lights
    BY <2>2 DEF Lights
  <2> QED BY <1>1, <2>1, <2>2, <2>3, NothingCounted DEF FInv
<1> QED BY <1>1, <1>2, <1>3, <1>4, <1>5 DEF FInv

LEMMA LoadsKeep ==
  ASSUME FInv, NEW t \in Tabs, Open(t) \/ Fetched(t) \/ FellBack(t)
  PROVE  FInv'
<1>t. tab[t] \in Pages /\ disk \in Disks
  BY DEF FInv, TypeOK, Disks
<1>1. CASE Open(t)
  <2> DEFINE p == Page("loading")
  <2>1. p \in Pages
    BY PageTyped DEF FInv
  <2>2. p.form = Blank(disk.location) /\ p.sent = disk.sent /\ p.filled = disk.filled
    BY DEF Page
  <2>3. p.form.from = {}
    BY <2>2, <1>t, BlankForm DEF Disks
  <2>4. tab' = [tab EXCEPT ![t] = p] /\ tab[t].phase # "ready"
    BY <1>1 DEF Open
  <2> HIDE DEF p
  <2> QED BY <1>1, <1>t, <2>1, <2>2, <2>3, <2>4, PageReplaced DEF Open
<1>2. ASSUME Fetched(t) \/ FellBack(t)
      PROVE  FInv'
  <2> PICK phase \in {"ready", "error"} : tab' = [tab EXCEPT ![t] = [@ EXCEPT !.phase = phase]]
    BY <1>2 DEF Fetched, FellBack
  <2> DEFINE p == [tab[t] EXCEPT !.phase = phase]
  <2>1. p \in Pages /\ p.form = tab[t].form /\ p.sent = tab[t].sent /\ p.filled = tab[t].filled
    BY <1>t DEF Pages
  <2>2. disk' \in Disks /\ disk'.sent = disk.sent /\ disk'.filled = disk.filled
    BY <1>2, <1>t DEF Fetched, FellBack, Disks
  <2>3. tab' = [tab EXCEPT ![t] = p] /\ tab[t].phase # "ready"
    BY <1>2 DEF Fetched, FellBack
  <2>4. UNCHANGED <<save, outbox, faults, closes>>
    BY <1>2 DEF Fetched, FellBack
  <2> HIDE DEF p
  <2> QED BY <1>t, <2>1, <2>2, <2>3, <2>4, PageReplaced
<1> QED BY <1>1, <1>2

LEMMA TypesKeep ==
  ASSUME FInv, NEW t \in Tabs, Types(t)
  PROVE  FInv'
<1>1. tab[t] \in Pages
  BY DEF FInv, TypeOK
<1> PICK f \in Forms : SetForm(t, f) /\ f.from \subseteq tab[t].form.from
  BY <1>1, TypesAForm DEF FInv
<1> DEFINE p == [tab[t] EXCEPT !.form = f]
<1>2. tab' = [tab EXCEPT ![t] = p] /\ UNCHANGED <<save, outbox, disk, faults, closes>>
  BY DEF SetForm
<1>3. /\ p \in Pages /\ p.form = f /\ p.phase = tab[t].phase /\ p.busy = tab[t].busy
      /\ p.sent = tab[t].sent /\ p.filled = tab[t].filled
  BY <1>1 DEF Pages
<1> HIDE DEF p
<1>4. TypeOK'
  BY <1>2, <1>3 DEF FInv, TypeOK
<1>5. \A u \in Tabs : /\ tab'[u].phase = tab[u].phase /\ tab'[u].busy = tab[u].busy
                      /\ tab'[u].sent = tab[u].sent /\ tab'[u].filled = tab[u].filled
  BY <1>2, <1>3 DEF FInv, TypeOK
<1>6. OwnInv'
  BY <1>2, <1>5 DEF FInv, OwnInv, Awaiting
<1>7. FormInv'
  BY <1>2, <1>3 DEF FInv, FormInv, TypeOK
<1>8. SaveInv'
  BY <1>2 DEF FInv, SaveInv
<1>9. TallyInv'
  <2>1. Heard' = Heard
    BY <1>2 DEF Heard
  <2>2. Lights' \subseteq Lights
    BY <1>2, <1>5 DEF Lights
  <2> QED BY <1>2, <1>4, <1>5, <2>1, <2>2, NothingCounted DEF FInv
<1> QED BY <1>4, <1>6, <1>7, <1>8, <1>9 DEF FInv

LEMMA CloseKeeps ==
  ASSUME FInv, NEW t \in Tabs, Close(t)
  PROVE  FInv'
<1>1. /\ tab' = [tab EXCEPT ![t] = NoPage] /\ outbox' = outbox /\ disk' = disk
      /\ faults' = faults /\ closes' = closes + 1 /\ closes < MaxCloses
  BY DEF Close
<1>2. \A k \in Saves : save'[k] = IF Awaiting(k) /\ save[k].tab = t
                                 THEN [save[k] EXCEPT !.pc = "cut"] ELSE save[k]
  BY DEF Close
<1>3. \A k \in Saves : /\ save[k] \in Calls /\ save'[k] \in Calls
                       /\ save'[k].tab = save[k].tab /\ save'[k].before = save[k].before
                       /\ save'[k].pc \in {save[k].pc, "cut"}
                       /\ save'[k].pc # save[k].pc => Awaiting(k) /\ save[k].tab = t
  <2> SUFFICES ASSUME NEW k \in Saves
               PROVE  /\ save[k] \in Calls /\ save'[k] \in Calls
                      /\ save'[k].tab = save[k].tab /\ save'[k].before = save[k].before
                      /\ save'[k].pc \in {save[k].pc, "cut"}
                      /\ save'[k].pc # save[k].pc => Awaiting(k) /\ save[k].tab = t
    OBVIOUS
  <2>1. save[k] \in Calls
    BY DEF FInv, TypeOK
  <2>2. CASE Awaiting(k) /\ save[k].tab = t
    <3>1. save'[k] = [save[k] EXCEPT !.pc = "cut"]
      BY <1>2, <2>2
    <3> QED BY <2>1, <2>2, <3>1 DEF Calls
  <2>3. CASE ~(Awaiting(k) /\ save[k].tab = t)
    <3>1. save'[k] = save[k]
      BY <1>2, <2>3
    <3> QED BY <2>1, <3>1
  <2> QED BY <2>2, <2>3
<1>4. TypeOK'
  <2>1. save' \in [Saves -> Calls]
    BY <1>3 DEF Close
  <2>2. closes' \in 0..MaxCloses
    BY <1>1, FormAssumption DEF FInv, TypeOK, FormAssumption
  <2> QED BY <1>1, <2>1, <2>2, NoPageTyped DEF FInv, TypeOK
<1>5. OwnInv'
  <2>1. ASSUME NEW k \in Saves, Awaiting(k)'
        PROVE  Awaiting(k) /\ save[k].tab # t
    <3>1. save'[k].pc # "cut"
      BY <2>1 DEF Awaiting
    <3>2. save'[k].pc = save[k].pc
      BY <1>3, <3>1
    <3>3. Awaiting(k)
      BY <2>1, <3>2 DEF Awaiting
    <3>4. CASE save[k].tab = t
      <4>1. save'[k] = [save[k] EXCEPT !.pc = "cut"]
        BY <1>2, <3>3, <3>4
      <4> QED BY <1>3, <3>1, <4>1 DEF Calls
    <3> QED BY <3>3, <3>4
  <2> QED BY <1>1, <1>3, <2>1 DEF FInv, OwnInv, TypeOK
<1>6. FormInv'
  <2>1. Blank(Null).from = {}
    BY BlankForm
  <2>2. \A u \in Tabs \ {t} : tab'[u] = tab[u]
    BY <1>1 DEF FInv, TypeOK
  <2>3. tab'[t].form = Blank(Null)
    BY <1>1, NoPageTyped DEF FInv, TypeOK
  <2>4. \A u \in Tabs : tab[u].form.from \subseteq Saves
    BY DEF FInv, TypeOK, Pages, Forms
  <2> QED BY <1>3, <2>1, <2>2, <2>3, <2>4 DEF FInv, FormInv
<1>7. SaveInv'
  <2>1. \A k \in Saves : save[k].before \subseteq Saves
    BY <1>3 DEF Calls
  <2> QED BY <1>1, <1>3, <2>1 DEF FInv, SaveInv, Awaiting
<1>8. TallyInv'
  <2>1. Heard \subseteq Heard'
    BY <1>1, <1>3 DEF Heard, FInv, TypeOK
  <2>2. \A u \in Tabs : /\ tab'[u].sent \in {tab[u].sent, 0}
                        /\ tab'[u].filled \subseteq tab[u].filled
    BY <1>1 DEF FInv, TypeOK, NoPage
  <2>3. Lights' \subseteq Lights
    BY <1>1, <2>2 DEF Lights
  <2> QED BY <1>1, <1>4, <2>1, <2>2, <2>3, NothingCounted DEF FInv
<1> QED BY <1>4, <1>5, <1>6, <1>7, <1>8 DEF FInv

-----------------------------------------------------------------------------
(* submit() *)

LEMMA SubmitKeeps ==
  ASSUME FInv, NEW t \in Tabs, NEW k \in Saves, Submit(t, k)
  PROVE  FInv'
<1> DEFINE f == tab[t].form
           p == [tab[t] EXCEPT !.busy = TRUE, !.form.from = f.from \union {k}]
           c == [pc |-> "adding", tab |-> t, item |-> f.item, before |-> f.from]
<1>1. /\ tab[t] \in Pages /\ f \in Forms /\ save[k].pc = "none"
      /\ tab[t].phase = "ready" /\ ~tab[t].busy
      /\ save' = [save EXCEPT ![k] = c] /\ UNCHANGED <<outbox, disk, faults, closes>>
  BY DEF FInv, TypeOK, Submit, Ready, CanSubmit, Pages
<1>2. tab' = [tab EXCEPT ![t] = p]
  BY <1>1 DEF Submit
<1>3. p.form = [f EXCEPT !.from = f.from \union {k}]
  BY <1>1 DEF Pages
<1>4. /\ p.form \in Forms /\ p.form.from = f.from \union {k}
  BY <1>1, <1>3 DEF Forms
<1>5. /\ p \in Pages /\ p.busy /\ p.phase = "ready" /\ p.sent = tab[t].sent
      /\ p.filled = tab[t].filled
  BY <1>1, <1>4 DEF Pages
<1>6. c \in Calls
  BY <1>1 DEF Calls, Forms
<1>7. /\ c.pc = "adding" /\ c.tab = t /\ c.before = f.from
  OBVIOUS
<1>8. f.from \subseteq Saves
  BY <1>1 DEF Forms
<1> HIDE DEF p, c, f
<1>9. \A j \in Saves : save'[j] = IF j = k THEN c ELSE save[j]
  BY <1>1 DEF FInv, TypeOK
<1>10. \A u \in Tabs : tab'[u] = IF u = t THEN p ELSE tab[u]
  BY <1>2 DEF FInv, TypeOK
<1>11. \A j \in Saves : Awaiting(j) => save[j].tab # t
  BY <1>1 DEF FInv, OwnInv
<1>12. \A j \in f.from : save[j].pc = "failed" /\ save[j].tab = t /\ j # k
  BY <1>1, <1>8, <1>11 DEF FInv, FormInv, Awaiting, f
<1>13. TypeOK'
  BY <1>1, <1>2, <1>5, <1>6 DEF FInv, TypeOK
<1>14. OwnInv'
  BY <1>5, <1>7, <1>9, <1>10, <1>11 DEF FInv, OwnInv, Awaiting
<1>15. FormInv'
  <2>1. \A u \in Tabs : tab[u].form.from \subseteq Saves
    BY DEF FInv, TypeOK, Pages, Forms
  <2>2. ASSUME NEW u \in Tabs, u # t
        PROVE  k \notin tab[u].form.from
    BY <1>1, <2>2 DEF FInv, FormInv
  <2>3. ASSUME NEW u \in Tabs
        PROVE  \A j \in tab'[u].form.from :
                    save'[j].tab = u /\ save'[j].pc \in {"adding", "stored", "failed"}
    <3>1. CASE u = t
      BY <3>1, <1>4, <1>7, <1>8, <1>9, <1>10, <1>12
    <3>2. CASE u # t
      BY <3>2, <2>1, <2>2, <1>9, <1>10 DEF FInv, FormInv
    <3> QED BY <3>1, <3>2
  <2> QED BY <2>3 DEF FormInv
<1>16. SaveInv'
  <2>1. \A j \in Saves : save[j].before \subseteq Saves
    BY DEF FInv, TypeOK, Calls
  <2>2. ASSUME NEW j \in Saves
        PROVE  /\ \A i \in save'[j].before : save'[i].pc = "failed"
               /\ j \in outbox => save'[j].pc \notin {"none", "adding"}
               /\ save'[j].pc = "stored" => j \in outbox
    <3>1. CASE j = k
      BY <3>1, <1>1, <1>7, <1>8, <1>9, <1>12 DEF FInv, SaveInv
    <3>2. CASE j # k
      BY <3>2, <1>1, <2>1, <1>9 DEF FInv, SaveInv
    <3> QED BY <3>1, <3>2
  <2> QED BY <2>2, <1>1 DEF SaveInv
<1>17. TallyInv'
  <2>1. k \notin outbox /\ outbox' = outbox
    BY <1>1 DEF FInv, SaveInv
  <2>2. Heard' = Heard
    BY <2>1, <1>9 DEF Heard, FInv, TypeOK
  <2>3. \A u \in Tabs : tab'[u].sent = tab[u].sent /\ tab'[u].filled = tab[u].filled
    BY <1>5, <1>10
  <2>4. Lights' \subseteq Lights
    BY <1>1, <2>3 DEF Lights
  <2> QED BY <1>1, <1>13, <2>2, <2>3, <2>4, NothingCounted DEF FInv
<1> QED BY <1>13, <1>14, <1>15, <1>16, <1>17 DEF FInv

\* A save goes on, up to what it counts.
LEMMA SaveStep ==
  ASSUME FInv, NEW k \in Saves, Awaiting(k), NEW p \in Pages,
         NEW pc \in {"stored", "counting", "told", "failed"},
         tab' = [tab EXCEPT ![save[k].tab] = p], save' = [save EXCEPT ![k].pc = pc],
         p.phase = "ready", pc \in Waits => p.busy,
         p.form.from \subseteq tab[save[k].tab].form.from,
         pc = "counting" => p.form.from = {}, pc = "told" => save[k].pc = "counting",
         outbox \subseteq outbox', outbox' \subseteq outbox \union {k},
         k \in outbox' => save[k].pc # "adding" \/ pc = "stored", pc = "stored" => k \in outbox',
         disk' \in Disks, faults' \in 0..MaxFaults, closes' = closes
  PROVE  TypeOK' /\ OwnInv' /\ FormInv' /\ SaveInv'
<1> DEFINE t == save[k].tab
<1>1. t \in Tabs /\ tab[t].phase = "ready" /\ tab[t].busy
  BY DEF FInv, OwnInv
<1>2. \A j \in Saves \ {k} : Awaiting(j) => save[j].tab # t
  BY DEF FInv, OwnInv
<1>3. \A j \in Saves : save'[j] = IF j = k THEN [save[k] EXCEPT !.pc = pc] ELSE save[j]
  BY DEF FInv, TypeOK
<1>4. save[k] \in Calls /\ save[k].pc \in Waits
  BY DEF FInv, TypeOK, Awaiting, Waits
<1>5. /\ save'[k] \in Calls /\ save'[k].pc = pc /\ save'[k].tab = t
      /\ save'[k].before = save[k].before
  BY <1>3, <1>4 DEF Calls
<1>6. \A u \in Tabs : tab'[u] = IF u = t THEN p ELSE tab[u]
  BY DEF FInv, TypeOK
<1>7. TypeOK'
  <2>1. save' \in [Saves -> Calls]
    BY <1>5 DEF FInv, TypeOK
  <2>2. tab' \in [Tabs -> Pages]
    BY <1>1 DEF FInv, TypeOK
  <2>3. outbox' \subseteq Saves
    BY DEF FInv, TypeOK
  <2> QED BY <2>1, <2>2, <2>3 DEF FInv, TypeOK, Disks
<1> HIDE DEF t
<1>8. OwnInv'
  BY <1>1, <1>2, <1>3, <1>5, <1>6 DEF FInv, OwnInv, Awaiting, Waits
<1>9. FormInv'
  <2>1. \A u \in Tabs : tab[u].form.from \subseteq Saves
    BY DEF FInv, TypeOK, Pages, Forms
  <2>2. ASSUME NEW u \in Tabs
        PROVE  /\ tab'[u].form.from \subseteq tab[u].form.from
               /\ k \in tab'[u].form.from => u = t /\ pc \in {"stored", "failed"}
    BY <1>4, <1>6 DEF FInv, FormInv, Waits, t
  <2> QED BY <1>3, <1>5, <2>1, <2>2 DEF FInv, FormInv
<1>10. SaveInv'
  <2>1. \A j \in Saves : save[j].before \subseteq Saves
    BY DEF FInv, TypeOK, Calls
  <2>2. ASSUME NEW j \in Saves, NEW i \in save[j].before
        PROVE  i # k /\ save'[i].pc = "failed"
    BY <1>3, <1>4, <2>1 DEF FInv, SaveInv, Waits
  <2>3. ASSUME NEW j \in Saves
        PROVE  /\ save'[j].before = save[j].before
               /\ j \in outbox' => save'[j].pc \notin {"none", "adding"}
               /\ save'[j].pc = "stored" => j \in outbox'
    <3>1. CASE j = k
      BY <3>1, <1>4, <1>5 DEF FInv, SaveInv, Waits
    <3>2. CASE j # k
      BY <3>2, <1>3 DEF FInv, SaveInv
    <3> QED BY <3>1, <3>2
  <2> QED BY <2>2, <2>3 DEF SaveInv
<1> QED BY <1>7, <1>8, <1>9, <1>10

LEMMA EnqueueKeeps ==
  ASSUME FInv, NEW k \in Saves, Enqueue(k)
  PROVE  FInv'
<1> DEFINE p == tab[save[k].tab]
<1>1. /\ Awaiting(k) /\ save[k].tab \in Tabs /\ p \in Pages /\ p.phase = "ready" /\ p.busy
      /\ save[k].pc = "adding"
  BY DEF FInv, TypeOK, OwnInv, Awaiting, Enqueue
<1>2. tab' = [tab EXCEPT ![save[k].tab] = p] /\ UNCHANGED <<tab, disk, faults, closes>>
  BY <1>1 DEF Enqueue, FInv, TypeOK
<1>3. save' = [save EXCEPT ![k].pc = "stored"] /\ outbox' = outbox \union {k}
  BY DEF Enqueue
<1>4. disk' \in Disks /\ faults' \in 0..MaxFaults
  BY <1>2 DEF FInv, TypeOK, Disks
<1>5. TypeOK' /\ OwnInv' /\ FormInv' /\ SaveInv'
  <2> HIDE DEF p
  <2> DEFINE pc == "stored"
  <2>1. pc \in {"stored", "counting", "told", "failed"} /\ save' = [save EXCEPT ![k].pc = pc]
        /\ pc # "counting" /\ pc # "told" /\ p.form.from \subseteq tab[save[k].tab].form.from
    BY <1>3 DEF p
  <2> HIDE DEF pc
  <2>2. pc = "stored"
    BY DEF pc
  <2> QED BY <1>1, <1>2, <1>3, <1>4, <2>1, <2>2, SaveStep
<1>6. TallyInv'
  <2>1. \A j \in Saves : save'[j].pc = IF j = k THEN "stored" ELSE save[j].pc
    BY <1>3 DEF FInv, TypeOK, Calls
  <2>2. Heard' = Heard
    BY <1>1, <1>3, <2>1 DEF Heard, FInv, TypeOK, SaveInv
  <2>3. Lights' = Lights
    BY <1>2 DEF Lights
  <2> QED BY <1>2, <1>5, <2>2, <2>3, NothingCounted DEF FInv
<1> QED BY <1>5, <1>6 DEF FInv

\* What a save ends with when it counts nothing.
LEMMA FinishKeeps ==
  ASSUME FInv, NEW k \in Saves, Awaiting(k), save[k].pc # "stored",
         NEW pc \in {"told", "failed"}, pc = "told" => save[k].pc = "counting",
         Finish(k, tab[save[k].tab], pc),
         UNCHANGED <<outbox, disk, closes>>, faults' \in 0..MaxFaults
  PROVE  FInv'
<1> DEFINE p == [tab[save[k].tab] EXCEPT !.busy = FALSE]
<1>1. save[k].tab \in Tabs /\ tab[save[k].tab] \in Pages
  BY DEF FInv, TypeOK, OwnInv
<1>2. /\ p \in Pages /\ p.phase = "ready" /\ p.form = tab[save[k].tab].form
      /\ p.sent = tab[save[k].tab].sent /\ p.filled = tab[save[k].tab].filled
  BY <1>1 DEF Pages, FInv, OwnInv
<1>3. tab' = [tab EXCEPT ![save[k].tab] = p] /\ save' = [save EXCEPT ![k].pc = pc]
  BY DEF Finish
<1> HIDE DEF p
<1>4. disk' \in Disks /\ (k \in outbox' => save[k].pc # "adding")
  BY DEF FInv, TypeOK, Disks, SaveInv
<1>5. TypeOK' /\ OwnInv' /\ FormInv' /\ SaveInv'
  BY <1>2, <1>3, <1>4, SaveStep DEF Waits
<1>6. TallyInv'
  <2>1. \A j \in Saves : save'[j].pc = IF j = k THEN pc ELSE save[j].pc
    BY <1>3 DEF FInv, TypeOK, Calls
  <2>2. Heard' = Heard
    BY <2>1 DEF Heard, FInv, TypeOK
  <2>3. \A u \in Tabs : tab'[u].sent = tab[u].sent /\ tab'[u].filled = tab[u].filled
    BY <1>2, <1>3 DEF FInv, TypeOK
  <2>4. Lights' \subseteq Lights
    BY <2>3 DEF Lights
  <2> QED BY <1>5, <2>2, <2>3, <2>4, NothingCounted DEF FInv
<1> QED BY <1>5, <1>6 DEF FInv

\* A stored save is counted, as far as localStorage allows.
LEMMA CountKeeps ==
  ASSUME FInv, NEW k \in Saves, save[k].pc = "stored",
         NEW p \in Pages, NEW pc \in {"counting", "failed"},
         tab' = [tab EXCEPT ![save[k].tab] = p], save' = [save EXCEPT ![k].pc = pc],
         p.phase = "ready", pc = "counting" => p.busy /\ p.form.from = {},
         p.form.from \subseteq tab[save[k].tab].form.from,
         p.sent <= tab[save[k].tab].sent + 1, NEW i,
         p.filled \subseteq tab[save[k].tab].filled \union {i},
         disk' \in Disks, disk'.sent \in {disk.sent, tab[save[k].tab].sent + 1},
         disk'.filled \subseteq Lights \union {i},
         faults' \in 0..MaxFaults, UNCHANGED <<outbox, closes>>
  PROVE  FInv'
<1>1. Awaiting(k) /\ save[k].tab \in Tabs /\ k \in outbox
  BY DEF FInv, OwnInv, Awaiting, SaveInv
<1>2. TypeOK' /\ OwnInv' /\ FormInv' /\ SaveInv'
  BY <1>1, SaveStep DEF Waits
<1>3. \A j \in Saves : save'[j].pc = IF j = k THEN pc ELSE save[j].pc
  BY DEF FInv, TypeOK, Calls
<1>4. k \notin Heard /\ Heard' = Heard \union {k}
  BY <1>1, <1>3 DEF Heard, FInv, TypeOK
<1>5. \A u \in Tabs : tab'[u] = IF u = save[k].tab THEN p ELSE tab[u]
  BY DEF FInv, TypeOK
<1>6. \A u \in Tabs : tab[u].sent \in Nat /\ p.sent \in Nat /\ disk.sent \in Nat
                     /\ disk'.sent \in Nat
  BY DEF FInv, TypeOK, Pages, Disks
<1> DEFINE n == Cardinality(Heard)
<1>7. n \in Nat /\ disk.sent <= n /\ \A u \in Tabs : tab[u].sent <= n
  BY HeardIsFinite DEF FInv, TallyInv
<1> HIDE DEF n
<1>8. disk'.sent <= n + 1 /\ \A u \in Tabs : tab'[u].sent <= n + 1
  BY <1>1, <1>5, <1>6, <1>7
<1>9. Lights' \subseteq Lights \union {i}
  <2>1. \A u \in Tabs : tab'[u].filled \subseteq Lights \union {i}
    BY <1>1, <1>5 DEF Lights
  <2> QED BY <2>1 DEF Lights
<1>10. TallyInv'
  BY <1>2, <1>4, <1>8, <1>9, OneCounted DEF FInv, n
<1> QED BY <1>2, <1>10 DEF FInv

LEMMA CountedPages ==
  ASSUME NEW p \in Pages
  PROVE  /\ Counted(p) \in Pages /\ Counted(p).sent = p.sent + 1
         /\ Counted(p).form = p.form /\ Counted(p).phase = p.phase
         /\ Counted(p).busy = p.busy /\ Counted(p).filled = p.filled
         /\ Lit(p) \in Pages /\ Lit(p).sent = p.sent /\ Lit(p).form = p.form
         /\ Lit(p).phase = p.phase /\ Lit(p).busy = p.busy
         /\ Lit(p).filled \subseteq p.filled \union {p.form.item}
<1>1. Counted(p) = [p EXCEPT !.sent = p.sent + 1]
  BY DEF Counted
<1>2. p.form \in Forms
  BY DEF Pages
<1>3. p.form.item = Null \/ p.form.item \in Items
  BY <1>2 DEF Forms
<1> DEFINE lit == IF p.form.item = Null THEN p.filled ELSE p.filled \union {p.form.item}
<1>4. Lit(p) = [p EXCEPT !.filled = lit]
  BY DEF Lit
<1>5. lit \subseteq Items /\ lit \subseteq p.filled \union {p.form.item}
  BY <1>3 DEF Pages
<1> HIDE DEF lit
<1> QED BY <1>1, <1>4, <1>5 DEF Pages

LEMMA ThankKeeps ==
  ASSUME FInv, NEW k \in Saves, Thank(k)
  PROVE  FInv'
<1> DEFINE page == tab[save[k].tab]
           counted == Lit(Counted(page))
           p == [counted EXCEPT !.form = ResetEntry(page.form)]
           pc == "counting"
<1>1. /\ save[k].pc = "stored" /\ save[k].tab \in Tabs /\ page \in Pages
      /\ page.phase = "ready" /\ page.busy
  BY DEF Thank, FInv, OwnInv, Awaiting, TypeOK
<1>2. /\ counted \in Pages /\ counted.sent = page.sent + 1 /\ counted.form = page.form
      /\ counted.phase = "ready" /\ counted.busy
      /\ counted.filled \subseteq page.filled \union {page.form.item}
  <2> HIDE DEF page
  <2>1. Counted(page) \in Pages
    BY <1>1, CountedPages
  <2> QED BY <1>1, <2>1, CountedPages
<1>3. tab' = [tab EXCEPT ![save[k].tab] = p]
  BY <1>2 DEF Thank
<1>4. page.form \in Forms /\ page.form.location \in Locations \union {Null}
  BY <1>1 DEF Pages, Forms
<1>5. disk' = [disk EXCEPT !.location = page.form.location, !.sent = counted.sent,
                           !.filled = IF counted = Counted(page) THEN @ ELSE counted.filled]
      /\ save' = [save EXCEPT ![k].pc = pc] /\ UNCHANGED <<outbox, faults, closes>>
  BY DEF Thank
<1>6. page.filled \subseteq Lights /\ disk.filled \subseteq Lights
  BY <1>1 DEF Lights
<1> HIDE DEF counted
<1>7. /\ ResetEntry(page.form) \in Forms /\ ResetEntry(page.form).from = {}
  BY <1>4, BlankForm DEF ResetEntry
<1>8. /\ p \in Pages /\ p.phase = "ready" /\ p.busy /\ p.form = ResetEntry(page.form)
      /\ p.sent = page.sent + 1 /\ p.filled \subseteq page.filled \union {page.form.item}
  BY <1>2, <1>7 DEF Pages
<1>9. /\ disk' \in Disks /\ disk'.sent = page.sent + 1
      /\ disk'.filled \subseteq Lights \union {page.form.item}
  <2>1. disk \in Disks /\ counted.sent \in Nat /\ counted.filled \subseteq Items
    BY <1>2 DEF FInv, TypeOK, Disks, Pages
  <2>2. disk' \in Disks
    BY <1>4, <1>5, <2>1 DEF Disks
  <2>3. disk'.filled \in {disk.filled, counted.filled}
    BY <1>5, <2>1 DEF Disks
  <2> QED BY <1>2, <1>5, <1>6, <2>1, <2>2, <2>3 DEF Disks
<1>10. faults' \in 0..MaxFaults /\ p.sent <= page.sent + 1
  BY <1>1, <1>5, <1>8 DEF FInv, TypeOK, Pages
<1>11. pc \in {"counting", "failed"} /\ p.form.from = {}
  BY <1>7, <1>8
<1> HIDE DEF p, pc
<1> QED BY <1>1, <1>3, <1>5, <1>8, <1>9, <1>10, <1>11, CountKeeps

\* Fail(k, p) at any of the writes of localStorage.
LEMMA FailKeeps ==
  ASSUME FInv, NEW k \in Saves, save[k].pc = "stored", NEW q \in Pages, Fail(k, q),
         q.phase = "ready", q.form = tab[save[k].tab].form,
         q.sent <= tab[save[k].tab].sent + 1, NEW i,
         q.filled \subseteq tab[save[k].tab].filled \union {i},
         disk' \in Disks, disk'.sent \in {disk.sent, tab[save[k].tab].sent + 1},
         disk'.filled = disk.filled, UNCHANGED <<outbox, closes>>
  PROVE  FInv'
<1> DEFINE p == [q EXCEPT !.busy = FALSE]
           pc == "failed"
<1>1. /\ p \in Pages /\ p.phase = "ready" /\ p.form = q.form
      /\ p.sent = q.sent /\ p.filled = q.filled
  BY DEF Pages
<1>2. tab' = [tab EXCEPT ![save[k].tab] = p] /\ save' = [save EXCEPT ![k].pc = pc]
  BY DEF Fail, Finish
<1>3. faults' \in 0..MaxFaults
  BY FormAssumption DEF Fail, FInv, TypeOK, FormAssumption
<1>4. save[k].tab \in Tabs /\ disk'.filled \subseteq Lights \union {i}
  BY <1>1 DEF FInv, OwnInv, FormInv, Awaiting, Lights
<1>5. pc \in {"counting", "failed"} /\ pc # "counting"
  OBVIOUS
<1> HIDE DEF p, pc
<1> QED BY <1>1, <1>2, <1>3, <1>4, <1>5, CountKeeps

LEMMA ThankFailsKeeps ==
  ASSUME FInv, NEW k \in Saves, ThankFails(k)
  PROVE  FInv'
<1> DEFINE page == tab[save[k].tab]
           i == page.form.item
           placed == [disk EXCEPT !.location = page.form.location]
<1>1. /\ save[k].pc = "stored" /\ save[k].tab \in Tabs /\ page \in Pages
      /\ page.phase = "ready" /\ UNCHANGED <<outbox, closes>>
  BY DEF ThankFails, FInv, OwnInv, Awaiting, TypeOK
<1>2. page.form.location \in Locations \union {Null} /\ page.sent \in Nat /\ disk \in Disks
  BY <1>1 DEF Pages, Forms, FInv, TypeOK, Disks
<1>3. placed \in Disks /\ placed.sent = disk.sent /\ placed.filled = disk.filled
  BY <1>2 DEF Disks
<1>4. /\ Counted(page) \in Pages /\ Counted(page).sent = page.sent + 1
      /\ Counted(page).form = page.form /\ Counted(page).phase = "ready"
      /\ Counted(page).filled = page.filled
  <2> HIDE DEF page
  <2> QED BY <1>1, CountedPages
<1>5. /\ Lit(Counted(page)) \in Pages /\ Lit(Counted(page)).sent = page.sent + 1
      /\ Lit(Counted(page)).form = page.form /\ Lit(Counted(page)).phase = "ready"
      /\ Lit(Counted(page)).filled \subseteq page.filled \union {i}
  <2> DEFINE c == Counted(page)
  <2>1. c \in Pages /\ c.sent = page.sent + 1 /\ c.form = page.form /\ c.phase = "ready"
        /\ c.filled = page.filled
    BY <1>4
  <2> HIDE DEF c
  <2>2. /\ Lit(c) \in Pages /\ Lit(c).sent = page.sent + 1 /\ Lit(c).form = page.form
        /\ Lit(c).phase = "ready" /\ Lit(c).filled \subseteq page.filled \union {i}
    BY <2>1, CountedPages
  <2> QED BY <2>2 DEF c
<1>6. CASE Fail(k, page) /\ UNCHANGED disk
  <2>1. page.sent <= page.sent + 1
    BY <1>2
  <2> QED BY <1>1, <1>2, <1>6, <2>1, FailKeeps
<1>7. CASE Fail(k, Counted(page)) /\ disk' = placed
  <2>1. Counted(page).sent <= page.sent + 1
    BY <1>2, <1>4
  <2> QED BY <1>1, <1>3, <1>4, <1>7, <2>1, FailKeeps
<1>8. CASE Fail(k, Lit(Counted(page))) /\ disk' = [placed EXCEPT !.sent = page.sent + 1]
  <2>1. Lit(Counted(page)).sent <= page.sent + 1
    BY <1>2, <1>5
  <2>2. disk' \in Disks /\ disk'.sent = page.sent + 1 /\ disk'.filled = disk.filled
    <3> DEFINE n == page.sent + 1
               d == placed
    <3>1. n \in Nat /\ d \in Disks /\ d.filled = disk.filled /\ disk' = [d EXCEPT !.sent = n]
      BY <1>2, <1>3, <1>8
    <3> HIDE DEF n, d
    <3>2. disk' \in Disks /\ disk'.sent = n /\ disk'.filled = disk.filled
      BY <3>1 DEF Disks
    <3> QED BY <3>2 DEF n
  <2> QED BY <1>1, <1>5, <1>8, <2>1, <2>2, FailKeeps
<1> QED BY <1>6, <1>7, <1>8 DEF ThankFails

LEMMA EndsKeep ==
  ASSUME FInv, NEW k \in Saves, Refreshed(k) \/ RefreshFails(k) \/ EnqueueFails(k)
  PROVE  FInv'
<1>1. CASE Refreshed(k)
  <2>1. /\ Awaiting(k) /\ save[k].pc = "counting" /\ Finish(k, tab[save[k].tab], "told")
        /\ UNCHANGED <<outbox, disk, faults, closes>> /\ faults' \in 0..MaxFaults
    BY <1>1 DEF Refreshed, Awaiting, FInv, TypeOK
  <2> QED BY <2>1, FinishKeeps
<1>2. CASE RefreshFails(k) \/ EnqueueFails(k)
  <2>1. /\ Awaiting(k) /\ save[k].pc # "stored" /\ Finish(k, tab[save[k].tab], "failed")
        /\ UNCHANGED <<outbox, disk, closes>>
    BY <1>2 DEF RefreshFails, EnqueueFails, Fail, Awaiting
  <2>2. faults' \in 0..MaxFaults
    BY <1>2, FormAssumption DEF RefreshFails, EnqueueFails, Fail, FInv, TypeOK, FormAssumption
  <2> QED BY <2>1, <2>2, FinishKeeps
<1> QED BY <1>1, <1>2

-----------------------------------------------------------------------------
(* Theorems *)

LEMMA InitForm == Init => FInv
<1> SUFFICES ASSUME Init PROVE FInv
  OBVIOUS
<1>1. \A t \in Tabs : tab[t] = NoPage
  BY DEF Init
<1>2. /\ NoPage.form.from = {} /\ NoPage.sent = 0 /\ NoPage.filled = {}
  BY NoPageTyped, BlankForm DEF NoPage
<1>c. NoCall \in Calls /\ NoCall.pc = "none" /\ NoCall.before = {}
  BY DEF NoCall, Calls
<1>3. \A k \in Saves : save[k].pc = "none" /\ save[k].before = {} /\ save[k] \in Calls
  BY <1>c DEF Init
<1>4. TypeOK
  <2>1. tab \in [Tabs -> Pages]
    BY NoPageTyped DEF Init
  <2>2. save \in [Saves -> Calls]
    BY <1>c DEF Init
  <2> QED BY <2>1, <2>2, FormAssumption DEF Init, TypeOK, FormAssumption
<1>5. OwnInv /\ SaveInv
  BY <1>3 DEF OwnInv, SaveInv, Awaiting, Init
<1>6. FormInv
  BY <1>1, <1>2 DEF FormInv
<1>7. TallyInv
  <2>1. Heard = {} /\ Lights = {}
    BY <1>1, <1>2 DEF Heard, Lights, Init
  <2>2. disk.sent = 0 /\ \A t \in Tabs : tab[t].sent = 0
    BY <1>1, <1>2 DEF Init
  <2> QED BY <2>1, <2>2, FS_EmptySet DEF TallyInv
<1> QED BY <1>4, <1>5, <1>6, <1>7 DEF FInv

LEMMA NextForm ==
  ASSUME FInv, [Next]_vars
  PROVE  FInv'
<1>1. CASE UNCHANGED vars
  BY <1>1 DEF vars, FInv, TypeOK, OwnInv, FormInv, SaveInv, TallyInv, Heard, Lights, Awaiting
<1>2. CASE \E t \in Tabs : Loads(t) \/ Types(t)
  BY <1>2, LoadsKeep, CloseKeeps, TypesKeep DEF Loads
<1>3. CASE \E t \in Tabs, k \in Saves : Submit(t, k)
  BY <1>3, SubmitKeeps
<1>4. CASE \E k \in Saves : Resumes(k) \/ Breaks(k)
  BY <1>4, EnqueueKeeps, ThankKeeps, ThankFailsKeeps, EndsKeep DEF Resumes, Breaks
<1> QED BY <1>1, <1>2, <1>3, <1>4 DEF Next

\* The inductive invariant of the form, for any number of tabs (app.js:56-655).
THEOREM FormInvariance == Spec => []FInv
<1> QED BY InitForm, NextForm, PTL DEF Spec

\* Every tab, save and record keeps its type.
THEOREM FormTypeCorrect == Spec => []TypeOK
<1>1. FInv => TypeOK
  BY DEF FInv
<1> QED BY <1>1, FormInvariance, PTL

\* Neither the count nor the bars claim more than is stored, for any number of tabs
\* that overwrite each other's localStorage (app.js:67-88, 616-625).
THEOREM TallyIsHonest == Spec => []HonestTally
<1>1. FInv => HonestTally
  <2> SUFFICES ASSUME FInv PROVE HonestTally
    OBVIOUS
  <2>1. /\ IsFiniteSet(outbox) /\ Cardinality(Heard) <= Cardinality(outbox)
        /\ Cardinality(outbox) \in Nat /\ Cardinality(Heard) \in Nat
    <3>1. outbox \subseteq Saves /\ Heard \subseteq outbox
      BY DEF FInv, TypeOK, Heard
    <3>2. IsFiniteSet(outbox)
      BY <3>1, NullIsNothing, FS_Subset
    <3> QED BY <3>1, <3>2, FS_Subset, FS_CardinalityType
  <2>2. Cardinality(Lights) \in Nat
    BY FS_CardinalityType DEF FInv, TallyInv
  <2>3. disk.sent \in Nat /\ \A t \in Tabs : tab[t].sent \in Nat
    BY DEF FInv, TypeOK, Pages
  <2> QED BY <2>1, <2>2, <2>3 DEF FInv, TallyInv, HonestTally
<1> QED BY <1>1, FormInvariance, PTL

\* An entry is stored again only after the app has said that it failed
\* (app.js:537-544, 577-581).
THEOREM EntriesAreStoredOnce == Spec => []OncePerEntry
<1>1. FInv => OncePerEntry
  BY DEF FInv, TypeOK, SaveInv, OncePerEntry
<1> QED BY <1>1, FormInvariance, PTL

-----------------------------------------------------------------------------
(* The bars *)

\* The saves of an entry are of the item chosen in it.
ItemInv ==
  \A t \in Tabs : \A k \in tab[t].form.from : save[k].item = tab[t].form.item

\* A step that starts no save: every form goes on with its entry or begins another.
LEMMA EntriesKept ==
  ASSUME FInv, ItemInv,
         \A u \in Tabs : \/ tab'[u].form.from = {}
                         \/ /\ tab'[u].form.from = tab[u].form.from
                            /\ tab'[u].form.item = tab[u].form.item,
         \A k \in Saves : save'[k].item = save[k].item
  PROVE  ItemInv'
<1>1. \A u \in Tabs : tab[u].form.from \subseteq Saves
  BY DEF FInv, TypeOK, Pages, Forms
<1> QED BY <1>1 DEF ItemInv

LEMMA LoadsKeepEntries ==
  ASSUME FInv, ItemInv, NEW t \in Tabs, Loads(t)
  PROVE  ItemInv'
<1>1. tab \in [Tabs -> Pages] /\ save \in [Saves -> Calls]
  BY DEF FInv, TypeOK
<1>2. disk.location \in Locations \union {Null}
  BY DEF FInv, TypeOK
<1>3. \A phase : Page(phase).form.from = {}
  BY <1>2, BlankForm DEF Page
<1>4. NoPage.form.from = {}
  BY NoPageTyped, BlankForm
<1>5. CASE Open(t)
  <2>1. \A u \in Tabs : tab'[u] = IF u = t THEN Page("loading") ELSE tab[u]
    BY <1>1, <1>5 DEF Open
  <2> QED BY <1>3, <1>5, <2>1, EntriesKept DEF Open
<1>6. CASE Fetched(t) \/ FellBack(t)
  <2>1. \A u \in Tabs : tab'[u].form = tab[u].form
    BY <1>1, <1>6 DEF Fetched, FellBack, Pages
  <2>2. save' = save
    BY <1>6 DEF Fetched, FellBack
  <2> QED BY <2>1, <2>2, EntriesKept
<1>7. CASE Close(t)
  <2>1. \A u \in Tabs : tab'[u] = IF u = t THEN NoPage ELSE tab[u]
    BY <1>1, <1>7 DEF Close
  <2>2. \A k \in Saves : save'[k].item = save[k].item
    BY <1>1, <1>7 DEF Close, Calls
  <2> QED BY <1>4, <2>1, <2>2, EntriesKept
<1> QED BY <1>5, <1>6, <1>7 DEF Loads

LEMMA TypesKeepEntries ==
  ASSUME FInv, ItemInv, NEW t \in Tabs, Types(t)
  PROVE  ItemInv'
<1>1. tab \in [Tabs -> Pages]
  BY DEF FInv, TypeOK
<1> PICK f \in Forms : /\ SetForm(t, f)
                       /\ \/ f.from = {}
                          \/ f.from = tab[t].form.from /\ f.item = tab[t].form.item
  BY TypesAForm DEF FInv
<1>2. \A u \in Tabs : tab'[u].form = IF u = t THEN f ELSE tab[u].form
  BY <1>1 DEF SetForm, Pages
<1> QED BY <1>2, EntriesKept DEF SetForm

LEMMA SubmitKeepsEntries ==
  ASSUME FInv, ItemInv, NEW t \in Tabs, NEW k \in Saves, Submit(t, k)
  PROVE  ItemInv'
<1>1. tab \in [Tabs -> Pages] /\ save \in [Saves -> Calls] /\ save[k].pc = "none"
  BY DEF FInv, TypeOK, Submit
<1>2. \A u \in Tabs : tab[u].form \in Forms /\ tab[u].form.from \subseteq Saves
  BY <1>1 DEF Pages, Forms
<1>3. \A u \in Tabs : k \notin tab[u].form.from
  BY <1>1 DEF FInv, FormInv
<1>4. \A j \in Saves : save'[j].item = IF j = k THEN tab[t].form.item ELSE save[j].item
  BY <1>1 DEF Submit
<1>5. tab' = [tab EXCEPT ![t] = [tab[t] EXCEPT !.busy = TRUE,
                                   !.form = [tab[t].form EXCEPT !.from = @ \union {k}]]]
  BY <1>1, <1>2 DEF Submit, Pages, Forms
<1>6. \A u \in Tabs : /\ tab'[u].form.item = tab[u].form.item
                      /\ tab'[u].form.from \subseteq
                           IF u = t THEN tab[u].form.from \union {k} ELSE tab[u].form.from
  <2>1. [tab[t] EXCEPT !.busy = TRUE,
           !.form = [tab[t].form EXCEPT !.from = @ \union {k}]].form
          = [tab[t].form EXCEPT !.from = @ \union {k}]
    BY <1>1 DEF Pages
  <2>2. tab'[t].form = [tab[t].form EXCEPT !.from = @ \union {k}]
    BY <1>1, <1>5, <2>1
  <2>3. \A u \in Tabs \ {t} : tab'[u] = tab[u]
    BY <1>1, <1>5
  <2>4. /\ tab'[t].form.item = tab[t].form.item
        /\ tab'[t].form.from = tab[t].form.from \union {k}
    BY <1>2, <2>2 DEF Forms
  <2> QED BY <2>3, <2>4
<1> QED BY <1>2, <1>3, <1>4, <1>6 DEF ItemInv

\* A save that fails leaves the form as it is.
LEMMA FailKeepsForm ==
  ASSUME FInv, NEW k \in Saves, Awaiting(k), NEW q, q.form = tab[save[k].tab].form,
         q \in Pages, NEW pc, Finish(k, q, pc)
  PROVE  /\ \A u \in Tabs : tab'[u].form = tab[u].form
         /\ \A u \in Tabs \ {save[k].tab} : tab'[u] = tab[u]
         /\ tab'[save[k].tab].filled = q.filled
         /\ \A j \in Saves : save'[j].item = save[j].item
<1>1. tab \in [Tabs -> Pages] /\ save \in [Saves -> Calls] /\ save[k].tab \in Tabs
  BY DEF FInv, TypeOK, OwnInv
<1>2. [q EXCEPT !.busy = FALSE].form = q.form /\ [q EXCEPT !.busy = FALSE].filled = q.filled
  BY DEF Pages
<1>3. tab'[save[k].tab] = [q EXCEPT !.busy = FALSE]
      /\ \A u \in Tabs \ {save[k].tab} : tab'[u] = tab[u]
  BY <1>1 DEF Finish
<1>4. \A j \in Saves : save'[j].item = save[j].item
  BY <1>1 DEF Finish, Calls
<1> QED BY <1>2, <1>3, <1>4

\* What a step of a save does to the forms and to the bars.
LEMMA SavesKeepEntries ==
  ASSUME FInv, ItemInv, NEW k \in Saves, Resumes(k) \/ Breaks(k)
  PROVE  /\ ItemInv'
         /\ save[k].pc # "stored" => Lights' \subseteq Lights
         /\ save[k].pc = "stored" => Lights' \subseteq Lights \union {tab[save[k].tab].form.item}
<1> DEFINE t == save[k].tab
           page == tab[t]
<1>1. Awaiting(k)
  BY DEF Resumes, Breaks, Enqueue, Thank, Refreshed, EnqueueFails, ThankFails,
         RefreshFails, Awaiting
<1>2. /\ tab \in [Tabs -> Pages] /\ save \in [Saves -> Calls] /\ t \in Tabs /\ page \in Pages
      /\ disk \in Disks
  BY <1>1 DEF FInv, TypeOK, OwnInv, Disks
<1>3. \A u \in Tabs : tab[u].filled \subseteq Lights
  BY DEF Lights
<1>4. CASE Enqueue(k)
  <2>1. tab' = tab /\ disk' = disk /\ save[k].pc = "adding"
    BY <1>4 DEF Enqueue
  <2>2. \A j \in Saves : save'[j].item = save[j].item
    BY <1>2, <1>4 DEF Enqueue, Calls
  <2>3. ItemInv'
    BY <2>1, <2>2, EntriesKept
  <2> QED BY <2>1, <2>3 DEF Lights
<1>5. CASE Refreshed(k) \/ RefreshFails(k) \/ EnqueueFails(k)
  <2>1. PICK pc \in {"told", "failed"} : Finish(k, page, pc)
    BY <1>5 DEF Refreshed, RefreshFails, EnqueueFails, Fail
  <2>2. disk' = disk /\ save[k].pc # "stored"
    BY <1>5 DEF Refreshed, RefreshFails, EnqueueFails
  <2>3. /\ \A u \in Tabs : tab'[u].form = tab[u].form
        /\ \A u \in Tabs : tab'[u].filled = tab[u].filled
        /\ \A j \in Saves : save'[j].item = save[j].item
    BY <1>1, <1>2, <2>1, FailKeepsForm
  <2>4. ItemInv'
    BY <2>3, EntriesKept
  <2> QED BY <2>2, <2>3, <2>4 DEF Lights
<1>6. CASE Thank(k)
  <2> DEFINE counted == Lit(Counted(page))
             p == [counted EXCEPT !.form = ResetEntry(page.form)]
  <2> HIDE DEF page
  <2>c. Counted(page) \in Pages /\ Counted(page).form = page.form
        /\ Counted(page).filled = page.filled
    BY <1>2, CountedPages
  <2>1. /\ counted \in Pages /\ counted.form = page.form
        /\ counted.filled \subseteq page.filled \union {page.form.item}
    BY <2>c, CountedPages
  <2>2. tab' = [tab EXCEPT ![t] = p] /\ save[k].pc = "stored"
    BY <1>6, <2>1 DEF Thank, page
  <2>3. disk' = [disk EXCEPT !.location = page.form.location, !.sent = counted.sent,
                             !.filled = IF counted = Counted(page) THEN @ ELSE counted.filled]
        /\ save' = [save EXCEPT ![k].pc = "counting"]
    BY <1>6 DEF Thank, page
  <2> HIDE DEF counted
  <2>4. ResetEntry(page.form).from = {}
    <3>1. page.form.location \in Locations \union {Null}
      BY <1>2 DEF Pages, Forms
    <3> QED BY <3>1, BlankForm DEF ResetEntry
  <2>5. p.form.from = {} /\ p.filled = counted.filled
    BY <2>1, <2>4 DEF Pages
  <2> HIDE DEF p
  <2>6. \A u \in Tabs : tab'[u] = IF u = t THEN p ELSE tab[u]
    BY <1>2, <2>2
  <2>7. \A j \in Saves : save'[j].item = save[j].item
    BY <1>2, <2>3 DEF Calls
  <2>8. ItemInv'
    BY <2>5, <2>6, <2>7, EntriesKept
  <2>9. disk'.filled \in {disk.filled, counted.filled}
    BY <1>2, <2>3 DEF Disks
  <2>10. Lights' \subseteq Lights \union {page.form.item}
    <3>1. counted.filled \subseteq Lights \union {page.form.item}
      BY <1>2, <1>3, <2>1 DEF page
    <3>2. \A u \in Tabs : tab'[u].filled \subseteq Lights \union {page.form.item}
      BY <1>3, <2>5, <2>6, <3>1
    <3>3. disk'.filled \subseteq Lights \union {page.form.item}
      BY <2>9, <3>1 DEF Lights
    <3> QED BY <3>2, <3>3 DEF Lights
  <2> QED BY <2>2, <2>8, <2>10 DEF page
<1>7. CASE ThankFails(k)
  <2> DEFINE c == Counted(page)
  <2> HIDE DEF page
  <2>c. c \in Pages /\ c.form = page.form /\ c.filled = page.filled
    BY <1>2, CountedPages
  <2>l. /\ Lit(c) \in Pages /\ Lit(c).form = page.form
        /\ Lit(c).filled \subseteq page.filled \union {page.form.item}
    BY <2>c, CountedPages
  <2>1. save[k].pc = "stored"
    BY <1>7 DEF ThankFails
  <2>2. disk'.filled = disk.filled
    BY <1>2, <1>7 DEF ThankFails, Disks
  <2>3. Finish(k, page, "failed") \/ Finish(k, c, "failed") \/ Finish(k, Lit(c), "failed")
    BY <1>7 DEF ThankFails, Fail, page
  <2> HIDE DEF c
  <2>4. PICK q \in {page, c, Lit(c)} : Finish(k, q, "failed")
    BY <2>3
  <2>5. /\ q \in Pages /\ q.form = page.form
        /\ q.filled \subseteq page.filled \union {page.form.item}
    BY <1>2, <2>c, <2>l, <2>4
  <2>6. /\ \A u \in Tabs : tab'[u].form = tab[u].form
        /\ \A u \in Tabs \ {t} : tab'[u] = tab[u]
        /\ tab'[t].filled = q.filled
        /\ \A j \in Saves : save'[j].item = save[j].item
    BY <1>1, <2>4, <2>5, FailKeepsForm DEF page
  <2>7. ItemInv'
    BY <2>6, EntriesKept
  <2>8. Lights' \subseteq Lights \union {page.form.item}
    <3>1. \A u \in Tabs : tab'[u].filled \subseteq Lights \union {page.form.item}
      BY <1>2, <1>3, <2>5, <2>6 DEF page
    <3>2. disk'.filled \subseteq Lights
      BY <2>2 DEF Lights
    <3> QED BY <3>1, <3>2 DEF Lights
  <2> QED BY <2>1, <2>7, <2>8 DEF page
<1> QED BY <1>4, <1>5, <1>6, <1>7 DEF Resumes, Breaks

LEMMA SubmitLightsNothing ==
  ASSUME FInv, NEW t \in Tabs, NEW k \in Saves, Submit(t, k)
  PROVE  \A u \in Tabs : tab'[u].filled = tab[u].filled
<1>1. tab \in [Tabs -> Pages]
  BY DEF FInv, TypeOK
<1>2. tab[t].form \in Forms
  BY <1>1 DEF Pages
<1> DEFINE p == [tab[t] EXCEPT !.busy = TRUE,
                   !.form = [tab[t].form EXCEPT !.from = @ \union {k}]]
<1>3. tab' = [tab EXCEPT ![t] = p]
  BY <1>1, <1>2 DEF Submit, Pages, Forms
<1>4. p.filled = tab[t].filled
  BY <1>1 DEF Pages
<1> HIDE DEF p
<1> QED BY <1>1, <1>3, <1>4

\* Nothing lights up when a tab is opened or closed, typed in or submitted.
LEMMA OnlySavesLight ==
  ASSUME FInv, NEW t \in Tabs, Loads(t) \/ Types(t) \/ \E k \in Saves : Submit(t, k)
  PROVE  Lights' \subseteq Lights
<1>1. tab \in [Tabs -> Pages] /\ disk \in Disks
  BY DEF FInv, TypeOK, Disks
<1>2. disk'.filled = disk.filled
  BY <1>1 DEF Loads, Open, Fetched, FellBack, Close, Types, ChooseLocation, Search,
              SelectItem, ClearItem, TypePrice, SetForm, Submit, Disks
<1>3. \A u \in Tabs : tab'[u].filled \in {tab[u].filled, disk.filled, {}}
  <2>1. CASE Open(t)
    BY <1>1, <2>1 DEF Open, Page
  <2>2. CASE Fetched(t) \/ FellBack(t)
    BY <1>1, <2>2 DEF Fetched, FellBack, Pages
  <2>3. CASE Close(t)
    BY <1>1, <2>3 DEF Close, NoPage
  <2>4. CASE Types(t)
    <3> PICK f \in Forms : SetForm(t, f)
      BY <2>4, TypesAForm DEF FInv
    <3> QED BY <1>1 DEF SetForm, Pages
  <2>5. CASE \E k \in Saves : Submit(t, k)
    BY <1>1, <2>5, SubmitLightsNothing
  <2> QED BY <2>1, <2>2, <2>3, <2>4, <2>5 DEF Loads
<1>4. \A u \in Tabs : tab'[u].filled \subseteq Lights
  BY <1>3 DEF Lights
<1> QED BY <1>2, <1>4 DEF Lights

\* What BarsAreEarned says of a step.
Earns ==
  \A i \in Lights' \ Lights :
    \E k \in outbox : /\ save[k].pc = "stored"
                     /\ \/ save[k].item = i
                        \/ k \notin tab[save[k].tab].form.from

LEMMA NextKeepsEntries ==
  ASSUME FInv, ItemInv, [Next]_vars
  PROVE  ItemInv' /\ [Earns]_vars
<1>1. CASE UNCHANGED vars
  BY <1>1 DEF vars, ItemInv
<1>2. ASSUME NEW t \in Tabs, Loads(t) \/ Types(t) \/ \E k \in Saves : Submit(t, k)
      PROVE  ItemInv' /\ Earns
  <2>1. ItemInv'
    BY <1>2, LoadsKeepEntries, TypesKeepEntries, SubmitKeepsEntries
  <2>2. Lights' \subseteq Lights
    BY <1>2, OnlySavesLight
  <2> QED BY <2>1, <2>2 DEF Earns
<1>3. ASSUME NEW k \in Saves, Resumes(k) \/ Breaks(k)
      PROVE  ItemInv' /\ Earns
  <2>1. ItemInv'
    BY <1>3, SavesKeepEntries
  <2>2. CASE save[k].pc # "stored"
    <3>1. Lights' \subseteq Lights
      BY <1>3, <2>2, SavesKeepEntries
    <3> QED BY <2>1, <3>1 DEF Earns
  <2>3. CASE save[k].pc = "stored"
    <3>1. Lights' \subseteq Lights \union {tab[save[k].tab].form.item}
      BY <1>3, <2>3, SavesKeepEntries
    <3>2. k \in outbox /\ save[k].tab \in Tabs
      BY <2>3 DEF FInv, SaveInv, OwnInv, Awaiting
    <3>3. k \in tab[save[k].tab].form.from => save[k].item = tab[save[k].tab].form.item
      BY <3>2 DEF ItemInv
    <3> QED BY <2>1, <2>3, <3>1, <3>2, <3>3 DEF Earns
  <2> QED BY <2>2, <2>3
<1> QED BY <1>1, <1>2, <1>3 DEF Next

\* A bar lights up for the item of a report that has just been stored, unless the
\* reporter has changed the entry since the tap (app.js:577-625).
THEOREM BarsLightForStoredItems == Spec => BarsAreEarned
<1>1. Init => ItemInv
  <2>1. NoPage.form.from = {}
    BY NoPageTyped, BlankForm
  <2> QED BY <2>1 DEF Init, ItemInv
<1>2. FInv /\ ItemInv /\ [Next]_vars => ItemInv' /\ [Earns]_vars
  BY NextKeepsEntries
<1>3. [Earns]_vars <=> [\A i \in Lights' \ Lights :
       \E k \in outbox : /\ save[k].pc = "stored"
                        /\ \/ save[k].item = i
                           \/ k \notin tab[save[k].tab].form.from]_vars
  BY DEF Earns
<1> QED BY <1>1, <1>2, <1>3, FormInvariance, PTL DEF Spec, BarsAreEarned

-----------------------------------------------------------------------------
(* The button *)

\* The button of a tab is disabled only while a save of that tab is under way.
BusyIsAwaited ==
  \A t \in Tabs : tab[t].busy => \E k \in Saves : Awaiting(k) /\ save[k].tab = t

\* The tabs are as busy as before, or less, and every save is where it was but
\* those of the tab t, which is not busy any more.
LEMMA BusyElsewhere ==
  ASSUME BusyIsAwaited, NEW t \in Tabs, tab'[t].busy => tab[t].busy,
         \A u \in Tabs \ {t} : tab'[u] = tab[u],
         \A k \in Saves : \/ save'[k] = save[k]
                          \/ save[k].tab = t /\ ~tab'[t].busy
  PROVE  BusyIsAwaited'
<1> SUFFICES ASSUME NEW u \in Tabs, tab'[u].busy
             PROVE  \E k \in Saves : Awaiting(k)' /\ save'[k].tab = u
  BY DEF BusyIsAwaited
<1>1. PICK k \in Saves : Awaiting(k) /\ save[k].tab = u
  BY DEF BusyIsAwaited
<1>2. save'[k] = save[k]
  BY <1>1
<1> QED BY <1>1, <1>2 DEF Awaiting

\* A save goes on, or ends and leaves its tab idle.
LEMMA BusyWithSave ==
  ASSUME FInv, BusyIsAwaited, NEW k \in Saves, Awaiting(k),
         NEW p, NEW pc \in Waits \union {"told", "failed"}, p.busy => pc \in Waits,
         tab' = [tab EXCEPT ![save[k].tab] = p], save' = [save EXCEPT ![k].pc = pc]
  PROVE  BusyIsAwaited'
<1> DEFINE t == save[k].tab
<1>1. t \in Tabs /\ tab[t].busy
  BY DEF FInv, OwnInv
<1>2. \A u \in Tabs : tab'[u] = IF u = t THEN p ELSE tab[u]
  BY DEF FInv, TypeOK
<1>3. \A j \in Saves \ {k} : save'[j] = save[j]
  BY DEF FInv, TypeOK
<1>4. save'[k].pc = pc /\ save'[k].tab = t
  BY DEF FInv, TypeOK, Calls
<1> HIDE DEF t
<1>5. CASE pc \in Waits
  <2> SUFFICES ASSUME NEW u \in Tabs, tab'[u].busy
               PROVE  \E j \in Saves : Awaiting(j)' /\ save'[j].tab = u
    BY DEF BusyIsAwaited
  <2>1. CASE u = t
    BY <1>4, <1>5, <2>1 DEF Awaiting, Waits
  <2>2. CASE u # t
    <3>1. PICK j \in Saves : Awaiting(j) /\ save[j].tab = u
      BY <1>2, <2>2 DEF BusyIsAwaited
    <3>2. j # k
      BY <3>1, <2>2 DEF t
    <3> QED BY <1>3, <3>1, <3>2 DEF Awaiting
  <2> QED BY <2>1, <2>2
<1>6. CASE pc \notin Waits
  <2>1. \A j \in Saves : save'[j] = save[j] \/ (save[j].tab = t /\ ~tab'[t].busy)
    BY <1>1, <1>2, <1>3, <1>6 DEF t
  <2> QED BY <1>1, <1>2, <2>1, BusyElsewhere
<1> QED BY <1>5, <1>6

LEMMA NextBusy ==
  ASSUME FInv, BusyIsAwaited, [Next]_vars
  PROVE  BusyIsAwaited'
<1>1. CASE UNCHANGED vars
  BY <1>1 DEF vars, BusyIsAwaited, Awaiting
<1>2. ASSUME NEW t \in Tabs, Open(t) \/ Fetched(t) \/ FellBack(t)
      PROVE  BusyIsAwaited'
  <2>1. tab[t] \in Pages /\ save' = save
    BY <1>2 DEF FInv, TypeOK, Open, Fetched, FellBack
  <2>2. CASE Open(t)
    <3>1. ~tab'[t].busy /\ \A u \in Tabs \ {t} : tab'[u] = tab[u]
      BY <2>2 DEF Open, Page, FInv, TypeOK
    <3> QED BY <2>1, <3>1, BusyElsewhere
  <2>3. CASE Fetched(t) \/ FellBack(t)
    <3>1. tab'[t].busy = tab[t].busy /\ \A u \in Tabs \ {t} : tab'[u] = tab[u]
      BY <2>1, <2>3 DEF Fetched, FellBack, FInv, TypeOK, Pages
    <3> QED BY <2>1, <3>1, BusyElsewhere
  <2> QED BY <1>2, <2>2, <2>3
<1>3. ASSUME NEW t \in Tabs, Close(t)
      PROVE  BusyIsAwaited'
  <2>1. ~tab'[t].busy /\ \A u \in Tabs \ {t} : tab'[u] = tab[u]
    BY <1>3 DEF Close, NoPage, FInv, TypeOK
  <2>2. \A k \in Saves : save'[k] = save[k] \/ save[k].tab = t
    BY <1>3 DEF Close
  <2> QED BY <2>1, <2>2, BusyElsewhere
<1>4. ASSUME NEW t \in Tabs, Types(t)
      PROVE  BusyIsAwaited'
  <2>1. tab[t] \in Pages
    BY DEF FInv, TypeOK
  <2>2. PICK f \in Forms : SetForm(t, f)
    BY <1>4, <2>1, TypesAForm DEF FInv
  <2>3. /\ tab'[t].busy = tab[t].busy /\ \A u \in Tabs \ {t} : tab'[u] = tab[u]
        /\ save' = save
    BY <2>1, <2>2 DEF SetForm, FInv, TypeOK, Pages
  <2> QED BY <2>3, BusyElsewhere
<1>5. ASSUME NEW t \in Tabs, NEW k \in Saves, Submit(t, k)
      PROVE  BusyIsAwaited'
  <2>1. save'[k].pc = "adding" /\ save'[k].tab = t
    BY <1>5 DEF Submit, FInv, TypeOK
  <2>2. save[k].pc = "none" /\ \A j \in Saves \ {k} : save'[j] = save[j]
    BY <1>5 DEF Submit, FInv, TypeOK
  <2>3. \A u \in Tabs \ {t} : tab'[u] = tab[u]
    BY <1>5 DEF Submit, FInv, TypeOK
  <2> SUFFICES ASSUME NEW u \in Tabs, tab'[u].busy
               PROVE  \E j \in Saves : Awaiting(j)' /\ save'[j].tab = u
    BY DEF BusyIsAwaited
  <2>4. CASE u = t
    BY <2>1, <2>4 DEF Awaiting
  <2>5. CASE u # t
    <3>1. PICK j \in Saves : Awaiting(j) /\ save[j].tab = u
      BY <2>3, <2>5 DEF BusyIsAwaited
    <3>2. j # k
      BY <2>2, <3>1 DEF Awaiting
    <3> QED BY <2>2, <3>1, <3>2 DEF Awaiting
  <2> QED BY <2>4, <2>5
<1>6. ASSUME NEW k \in Saves, Enqueue(k)
      PROVE  BusyIsAwaited'
  <2> DEFINE p == tab[save[k].tab]
             pc == "stored"
  <2>1. Awaiting(k) /\ tab' = [tab EXCEPT ![save[k].tab] = p]
    BY <1>6 DEF Enqueue, Awaiting, FInv, TypeOK
  <2>2. save' = [save EXCEPT ![k].pc = pc] /\ pc \in Waits
    BY <1>6 DEF Enqueue, Waits
  <2> HIDE DEF p, pc
  <2> QED BY <2>1, <2>2, BusyWithSave
<1>7. ASSUME NEW k \in Saves, Thank(k)
      PROVE  BusyIsAwaited'
  <2> DEFINE c == Lit(Counted(tab[save[k].tab]))
             p == [c EXCEPT !.form = ResetEntry(c.form)]
             pc == "counting"
  <2>1. Awaiting(k) /\ tab' = [tab EXCEPT ![save[k].tab] = p]
    BY <1>7 DEF Thank, Awaiting
  <2>2. save' = [save EXCEPT ![k].pc = pc] /\ pc \in Waits
    BY <1>7 DEF Thank, Waits
  <2> HIDE DEF p, pc
  <2> QED BY <2>1, <2>2, BusyWithSave
<1>8. ASSUME NEW k \in Saves, Awaiting(k), NEW q \in Pages,
             NEW pc \in {"told", "failed"}, Finish(k, q, pc)
      PROVE  BusyIsAwaited'
  <2> DEFINE p == [q EXCEPT !.busy = FALSE]
  <2>1. ~p.busy
    BY Zenon DEF Pages
  <2>2. tab' = [tab EXCEPT ![save[k].tab] = p] /\ save' = [save EXCEPT ![k].pc = pc]
    BY <1>8 DEF Finish
  <2> HIDE DEF p
  <2> QED BY <1>8, <2>1, <2>2, BusyWithSave
<1>9. ASSUME NEW k \in Saves, Refreshed(k) \/ Breaks(k)
      PROVE  BusyIsAwaited'
  <2> DEFINE page == tab[save[k].tab]
  <2>1. Awaiting(k)
    BY <1>9 DEF Refreshed, Breaks, EnqueueFails, ThankFails, RefreshFails, Awaiting
  <2>2. page \in Pages
    BY <2>1 DEF FInv, TypeOK, OwnInv
  <2>3. Counted(page) \in Pages
    <3> HIDE DEF page
    <3> QED BY <2>2, CountedPages
  <2>4. Lit(Counted(page)) \in Pages
    <3> DEFINE c == Counted(page)
    <3>1. c \in Pages
      BY <2>3
    <3> HIDE DEF c
    <3>2. Lit(c) \in Pages
      BY <3>1, CountedPages
    <3> QED BY <3>2 DEF c
  <2>5. \/ Finish(k, page, "told") \/ Finish(k, page, "failed")
        \/ Finish(k, Counted(page), "failed") \/ Finish(k, Lit(Counted(page)), "failed")
    BY <1>9 DEF Refreshed, Breaks, EnqueueFails, ThankFails, RefreshFails, Fail
  <2> HIDE DEF page
  <2> QED BY <1>8, <2>1, <2>2, <2>3, <2>4, <2>5
<1> QED BY <1>1, <1>2, <1>3, <1>4, <1>5, <1>6, <1>7, <1>9 DEF Next, Loads, Resumes

\* No failed write and no second tab leaves the button disabled with nothing under
\* way that would give it back (app.js:577-643).
THEOREM BusyButtonIsAwaited == Spec => []BusyIsAwaited
<1>1. Init => BusyIsAwaited
  BY DEF Init, BusyIsAwaited, NoPage
<1> QED BY <1>1, NextBusy, FormInvariance, PTL DEF Spec
=============================================================================
