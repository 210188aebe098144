---------------------------- MODULE ReporterForm ----------------------------
(***************************************************************************)
(* The entry form of the reporter app: what the reporter types, what       *)
(* submit() stores, and what the app then says about it.  Every open tab   *)
(* has its own form; they share IndexedDB (the outbox) and localStorage.   *)
(*                                                                         *)
(* submit() is interrupted at each await, and nothing on the page is       *)
(* disabled meanwhile but the save button: the reporter goes on typing.    *)
(* How the stored records reach the server is ReporterOutbox, and when     *)
(* they are sent is ReporterSync.                                          *)
(***************************************************************************)
EXTENDS Naturals, FiniteSets, Sequences, Functions

CONSTANTS
  Tabs,       \* tabs of the app on this device
  Saves,      \* calls of submit(), each made once; also the records they store
  Catalogue,  \* the item codes as the catalogue lists them, by weight
  Needed,     \* the codes no location can price: config.needs
  Locations,  \* location slugs
  Words,      \* searches that are not blank
  Hits,       \* the codes whose names contain a search
  MaxFaults,  \* bound on writes the browser refuses
  MaxCloses,  \* bound on tabs closed
  Null        \* nothing entered, nothing shown

Items == Range(Catalogue)

ASSUME FormAssumption ==
  /\ IsFiniteSet(Saves)
  /\ Catalogue \in Seq(Items)
  /\ Needed \subseteq Items
  /\ Hits \in [Words -> SUBSET Items]
  /\ MaxFaults \in Nat /\ MaxCloses \in Nat
  /\ Null \notin Items \union Locations \union Words

VARIABLES
  tab,     \* what each tab holds in memory
  save,    \* the calls of submit()
  outbox,  \* the saves that have their record in IndexedDB
  disk,    \* localStorage
  faults,  \* writes refused so far
  closes   \* tabs closed so far

vars == <<tab, save, outbox, disk, faults, closes>>

-----------------------------------------------------------------------------
\* Typed or not; "invalid": not a number above zero.  The unit and the quantity come
\* and go with the item, or are typed in its details; nothing here depends on them.
Prices == {"none", "invalid", "given"}

\* from: the saves started from the entry as it stands.
Forms == [location: Locations \union {Null}, item: Items \union {Null},
          query: Words \union {Null}, price: Prices, from: SUBSET Saves]
Blank(l) == [location |-> l, item |-> Null, query |-> Null, price |-> "none", from |-> {}]

Pages == [phase: {"closed", "loading", "ready", "error"}, form: Forms, busy: BOOLEAN,
          sent: Nat, filled: SUBSET Items]

\* The component as Alpine creates it, from what localStorage remembers.
Page(phase) ==
  [phase |-> phase, form |-> Blank(disk.location), busy |-> FALSE,
   sent |-> disk.sent, filled |-> disk.filled]
NoPage == [phase |-> "closed", form |-> Blank(Null), busy |-> FALSE,
           sent |-> 0, filled |-> {}]

\* before: the saves already started from the same entry.
Calls == [pc: {"none", "adding", "stored", "counting", "told", "failed", "cut"},
          tab: Tabs \union {Null}, item: Items \union {Null}, before: SUBSET Saves]
NoCall == [pc |-> "none", tab |-> Null, item |-> Null, before |-> {}]

Ready(t) == tab[t].phase = "ready"
Awaiting(k) == save[k].pc \in {"adding", "stored", "counting"}

-----------------------------------------------------------------------------
(* What the view derives from the form *)

\* The items offered: those that match the search, the needed ones first, the
\* order of the catalogue kept within both groups.
FilteredItems(f) ==
  LET matches == SelectSeq(Catalogue, LAMBDA i : f.query = Null \/ i \in Hits[f.query])
  IN SelectSeq(matches, LAMBDA i : i \in Needed)
       \o SelectSeq(matches, LAMBDA i : i \notin Needed)

HasChosen(f) == f.item # Null
ShowPicker(f) == f.item = Null

\* Mutant of CanSubmit: a second tap on the button counts.
CanSubmitTwice(t) ==
  LET f == tab[t].form
  IN /\ f.location # Null
     /\ f.item # Null \/ f.query # Null
     /\ f.price = "given"

CanSubmit(t) ==
  LET f == tab[t].form
  IN /\ f.location # Null
     /\ f.item # Null \/ f.query # Null
     /\ f.price = "given"
     /\ ~tab[t].busy

-----------------------------------------------------------------------------
(* Opening the app *)

Open(t) ==
  /\ tab[t].phase = "closed"
  /\ tab' = [tab EXCEPT ![t] = Page("loading")]
  /\ UNCHANGED <<save, outbox, disk, faults, closes>>

\* loadCatalogue(): the form shows as soon as a catalogue is in memory.
Fetched(t) ==
  /\ tab[t].phase = "loading"
  /\ tab' = [tab EXCEPT ![t].phase = "ready"]
  /\ disk' = [disk EXCEPT !.catalogue = TRUE]
  /\ UNCHANGED <<save, outbox, faults, closes>>

\* No answer: the last snapshot stored, or the error.
FellBack(t) ==
  /\ tab[t].phase = "loading"
  /\ tab' = [tab EXCEPT ![t].phase = IF disk.catalogue THEN "ready" ELSE "error"]
  /\ UNCHANGED <<save, outbox, disk, faults, closes>>

\* The tab is closed: the saves it waits for go on or stop without it.
Close(t) ==
  /\ tab[t].phase # "closed"
  /\ closes < MaxCloses
  /\ tab' = [tab EXCEPT ![t] = NoPage]
  /\ save' = [k \in Saves |-> IF Awaiting(k) /\ save[k].tab = t
                              THEN [save[k] EXCEPT !.pc = "cut"] ELSE save[k]]
  /\ closes' = closes + 1
  /\ UNCHANGED <<outbox, disk, faults>>

-----------------------------------------------------------------------------
(* Filling in the form *)

SetForm(t, f) ==
  /\ tab' = [tab EXCEPT ![t].form = f]
  /\ UNCHANGED <<save, outbox, disk, faults, closes>>

ChooseLocation(t, l) ==
  /\ Ready(t)
  /\ SetForm(t, [tab[t].form EXCEPT !.location = l])

Search(t, w) ==
  /\ Ready(t) /\ ShowPicker(tab[t].form)
  /\ SetForm(t, [tab[t].form EXCEPT !.query = w])

\* selectItem(): a tap on one of the items offered.
SelectItem(t, i) ==
  /\ Ready(t) /\ ShowPicker(tab[t].form)
  /\ i \in Range(FilteredItems(tab[t].form))
  /\ SetForm(t, [tab[t].form EXCEPT !.item = i, !.query = Null, !.from = {}])

\* clearItem(): back to the picker.  The price stays.
ClearItem(t) ==
  /\ Ready(t) /\ HasChosen(tab[t].form)
  /\ SetForm(t, [tab[t].form EXCEPT !.item = Null, !.query = Null, !.from = {}])

TypePrice(t, p) ==
  /\ Ready(t)
  /\ SetForm(t, [tab[t].form EXCEPT !.price = p])

-----------------------------------------------------------------------------
(* submit() *)

\* resetEntry(): everything but the location.
ResetEntry(f) == Blank(f.location)

\* Mutant of Submit: the contribution is counted with the tap.
SubmitCounts(t, k) ==
  LET f == tab[t].form
  IN /\ Ready(t) /\ CanSubmit(t)
     /\ save[k].pc = "none"
     /\ save' = [save EXCEPT ![k] =
          [pc |-> "adding", tab |-> t, item |-> f.item, before |-> f.from]]
     /\ tab' = [tab EXCEPT ![t].busy = TRUE, ![t].form.from = @ \union {k}, ![t].sent = @ + 1]
     /\ UNCHANGED <<outbox, disk, faults, closes>>

\* Mutant of Submit: the bar lights with the tap.
SubmitLights(t, k) ==
  LET f == tab[t].form
  IN /\ Ready(t) /\ CanSubmit(t)
     /\ save[k].pc = "none"
     /\ save' = [save EXCEPT ![k] =
          [pc |-> "adding", tab |-> t, item |-> f.item, before |-> f.from]]
     /\ tab' = [tab EXCEPT ![t].busy = TRUE, ![t].form.from = @ \union {k},
                           ![t].filled = IF f.item = Null THEN @ ELSE @ \union {f.item}]
     /\ UNCHANGED <<outbox, disk, faults, closes>>

\* submit() up to its first await: what is stored is the form of this moment.
Submit(t, k) ==
  LET f == tab[t].form
  IN /\ Ready(t) /\ CanSubmit(t)
     /\ save[k].pc = "none"
     /\ save' = [save EXCEPT ![k] =
          [pc |-> "adding", tab |-> t, item |-> f.item, before |-> f.from]]
     /\ tab' = [tab EXCEPT ![t].busy = TRUE, ![t].form.from = @ \union {k}]
     /\ UNCHANGED <<outbox, disk, faults, closes>>

\* The transaction of enqueue() commits; the tab hears of it in a later step.
Enqueue(k) ==
  /\ save[k].pc = "adding"
  /\ outbox' = outbox \union {k}
  /\ save' = [save EXCEPT ![k].pc = "stored"]
  /\ UNCHANGED <<tab, disk, faults, closes>>

\* finally: the button works again.
Finish(k, page, pc) ==
  /\ tab' = [tab EXCEPT ![save[k].tab] = [page EXCEPT !.busy = FALSE]]
  /\ save' = [save EXCEPT ![k].pc = pc]

\* Mutant of Fail: the error leaves the button disabled.
FailBusy(k, page) ==
  /\ faults < MaxFaults
  /\ faults' = faults + 1
  /\ tab' = [tab EXCEPT ![save[k].tab] = page]
  /\ save' = [save EXCEPT ![k].pc = "failed"]

\* catch: the reporter is told that it failed, the form stays as it is.
Fail(k, page) ==
  /\ faults < MaxFaults
  /\ faults' = faults + 1
  /\ Finish(k, page, "failed")

EnqueueFails(k) ==
  /\ save[k].pc = "adding"
  /\ Fail(k, tab[save[k].tab])
  /\ UNCHANGED <<outbox, disk, closes>>

\* The contribution counted, and the bar of the item chosen now lit; LitAlways is
\* a mutant of Lit: a search that chose no item lights one too.
Counted(page) == [page EXCEPT !.sent = @ + 1]
LitAlways(page) == [page EXCEPT !.filled = @ \union {page.form.item}]
Lit(page) == [page EXCEPT !.filled = IF page.form.item = Null THEN @
                                     ELSE @ \union {page.form.item}]

\* enqueue() has returned: the rest reads the form as it is by then.
Thank(k) ==
  LET page == tab[save[k].tab]
      counted == Lit(Counted(page))
  IN /\ save[k].pc = "stored"
     /\ disk' = [disk EXCEPT !.location = page.form.location, !.sent = counted.sent,
                             !.filled = IF counted = Counted(page) THEN @ ELSE counted.filled]
     /\ tab' = [tab EXCEPT ![save[k].tab] =
          [counted EXCEPT !.form = ResetEntry(@)]]
     /\ save' = [save EXCEPT ![k].pc = "counting"]
     /\ UNCHANGED <<outbox, faults, closes>>

\* localStorage refuses the location, the count or the bars: what came before
\* the refused write has happened, what comes after it has not.
ThankFails(k) ==
  LET page == tab[save[k].tab]
      placed == [disk EXCEPT !.location = page.form.location]
  IN /\ save[k].pc = "stored"
     /\ \/ Fail(k, page) /\ UNCHANGED disk
        \/ Fail(k, Counted(page)) /\ disk' = placed
        \/ /\ Lit(page) # page
           /\ Fail(k, Lit(Counted(page)))
           /\ disk' = [placed EXCEPT !.sent = page.sent + 1]
     /\ UNCHANGED <<outbox, closes>>

\* refreshCounts() has returned, or its read has failed.
Refreshed(k) ==
  /\ save[k].pc = "counting"
  /\ Finish(k, tab[save[k].tab], "told")
  /\ UNCHANGED <<outbox, disk, faults, closes>>

RefreshFails(k) ==
  /\ save[k].pc = "counting"
  /\ Fail(k, tab[save[k].tab])
  /\ UNCHANGED <<outbox, disk, closes>>

-----------------------------------------------------------------------------
Init ==
  /\ tab = [t \in Tabs |-> NoPage]
  /\ save = [k \in Saves |-> NoCall]
  /\ outbox = {}
  /\ disk = [location |-> Null, sent |-> 0, filled |-> {}, catalogue |-> FALSE]
  /\ faults = 0 /\ closes = 0

Loads(t) == Open(t) \/ Fetched(t) \/ FellBack(t) \/ Close(t)

Types(t) ==
  \/ \E l \in Locations : ChooseLocation(t, l)
  \/ \E w \in Words \union {Null} : Search(t, w)
  \/ \E i \in Items : SelectItem(t, i)
  \/ ClearItem(t)
  \/ \E p \in Prices : TypePrice(t, p)

Resumes(k) == Enqueue(k) \/ Thank(k) \/ Refreshed(k)
Breaks(k) == EnqueueFails(k) \/ ThankFails(k) \/ RefreshFails(k)

Next ==
  \/ \E t \in Tabs : Loads(t) \/ Types(t)
  \/ \E t \in Tabs, k \in Saves : Submit(t, k)
  \/ \E k \in Saves : Resumes(k) \/ Breaks(k)

Spec == Init /\ [][Next]_vars

\* IndexedDB answers in the end; nothing is asked of the reporter.
FairSpec == Spec /\ \A k \in Saves : WF_vars(Resumes(k))

-----------------------------------------------------------------------------
TypeOK ==
  /\ tab \in [Tabs -> Pages]
  /\ save \in [Saves -> Calls]
  /\ outbox \subseteq Saves
  /\ disk \in [location: Locations \union {Null}, sent: Nat, filled: SUBSET Items,
               catalogue: BOOLEAN]
  /\ faults \in 0..MaxFaults
  /\ closes \in 0..MaxCloses

Lights == disk.filled \union UNION {tab[t].filled : t \in Tabs}

\* The count of contributions (app.js:85-88) and the bars lit (app.js:67-70) never
\* claim more reports than are stored, whatever tabs close, overwrite each
\* other's count or are refused a write.
HonestTally ==
  /\ disk.sent <= Cardinality(outbox)
  /\ \A t \in Tabs : tab[t].sent <= Cardinality(outbox)
  /\ Cardinality(Lights) <= Cardinality(outbox)

\* "Only for a code that is actually in the basket": a bar lights up for the item of a
\* report that has just been stored, unless the reporter has changed the entry since
\* the tap: what lights it is read after the await (app.js:622-625).
BarsAreEarned ==
  [][\A i \in Lights' \ Lights :
       \E k \in outbox : /\ save[k].pc = "stored"
                        /\ \/ save[k].item = i
                           \/ k \notin tab[save[k].tab].form.from]_vars

\* An entry is stored a second time only after the app has said that the first
\* save failed: a second tap stores nothing (app.js:537-544, 577-581, 641-643).
OncePerEntry ==
  \A k \in outbox : \A j \in save[k].before \intersect outbox : save[j].pc = "failed"

\* Whatever fails, the button is not left disabled (app.js:639-643).
ButtonReturns == \A t \in Tabs : tab[t].busy ~> ~tab[t].busy
=============================================================================
