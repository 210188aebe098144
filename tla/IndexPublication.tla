-------------------------- MODULE IndexPublication --------------------------
(***************************************************************************)
(* How a price reaches the published index of one location: observations   *)
(* come, go and change; a change marks the snapshots whose window holds    *)
(* it, inside its transaction or in the statement after it; the drain      *)
(* recomputes what is marked, the publisher adds the days that have no     *)
(* snapshot, an operator rebuilds a range.  A calculation reads its        *)
(* observations, asks the ML service for the missing prices, and only then *)
(* writes.                                                                 *)
(***************************************************************************)
EXTENDS Naturals, FiniteSets

CONSTANTS
  Observations, \* price observations of the location
  Editable,     \* those an administrator edits or deletes by hand
  Worths,       \* what an observation can count for: its item, price and weight
  MaxDay,       \* bound: the days are 0..MaxDay
  Window,       \* observation_window_days
  Limit,        \* drain_limit
  Broken,       \* days whose calculation throws, since the basket changed
  Drains,       \* runs of qeema:index without --from, scheduled or by hand
  Builds,       \* runs of qeema:index:publish and of qeema:index --from
  MaxKills,     \* bound on processes killed halfway
  Null          \* no day

Days == 0..MaxDay

ASSUME IndexAssumption ==
  /\ Editable \subseteq Observations
  /\ MaxDay \in Nat
  /\ Window \in Nat
  /\ Limit \in Nat \ {0}
  /\ Broken \subseteq Days
  /\ Drains \intersect Builds = {}
  /\ MaxKills \in Nat
  /\ Null \notin Nat

VARIABLES
  observation,  \* state of each price_observations row, as committed
  snapshot,     \* the index_snapshots row of each day, as committed
  open,         \* the transaction that is changing each observation
  run,          \* what each running command holds in memory
  owed,         \* changed observations whose snapshots are still to be marked
  lapsed,       \* history: days whose figure went wrong without a mark
  kills         \* processes killed so far

vars == <<observation, snapshot, open, run, owed, lapsed, kills>>

-----------------------------------------------------------------------------
\* A row that counts for nothing here (worth Null) is filed under another location.
Prices == [state: {"none", "valid", "invalid"}, day: Days, worth: Worths \union {Null}]
NoPrice == [state |-> "none", day |-> 0, worth |-> Null]

\* A transaction has changed its observation to `to` and marked the snapshots of
\* `marks`; nobody else sees either before it commits.
Transactions == [begun: BOOLEAN, to: Prices, marks: SUBSET Days]
NoTransaction == [begun |-> FALSE, to |-> NoPrice, marks |-> {}]

\* mark: no row; not stale; stale and inside the grace window; stale and due.
\* figure: the observations the published number was computed from, as they were.
Figures == SUBSET (Observations \X Worths)
Snapshots == [mark: {"absent", "fresh", "stale", "due"}, figure: Figures]
Absent == [mark |-> "absent", figure |-> {}]

Commands == Drains \union Builds
Runs == [kind: {"none", "drain", "publish", "rebuild"}, todo: SUBSET Days,
         day: Days \union {Null}, read: Figures]
Idle == [kind |-> "none", todo |-> {}, day |-> Null, read |-> {}]

Exists(d) == snapshot[d].mark # "absent"

\* observationsFor(): what the estimator sees, looking back from day d.
Counts(o, d) ==
  /\ observation[o].state = "valid"
  /\ observation[o].worth # Null
  /\ observation[o].day <= d
  /\ d <= observation[o].day + Window

Evidence(d) == {<<o, observation[o].worth>> : o \in {x \in Observations : Counts(x, d)}}

-----------------------------------------------------------------------------
(* Marking *)

\* Mutant of Affected: only the day the price was seen.
AffectedOwnDay(d) == {d}

\* markAffectedBy(): the days whose window reaches back to d.
Affected(d) == {e \in Days : d <= e /\ e <= d + Window}

\* Mutant of Mark: the stamp is refreshed by every later change.
MarkRefreshing(D) ==
  snapshot' = [d \in Days |->
    IF d \in D /\ Exists(d) THEN [snapshot[d] EXCEPT !.mark = "stale"] ELSE snapshot[d]]

\* markRange(): what is already stale keeps its first stamp.
Mark(D) ==
  snapshot' = [d \in Days |->
    IF d \in D /\ snapshot[d].mark = "fresh"
    THEN [snapshot[d] EXCEPT !.mark = "stale"] ELSE snapshot[d]]

\* The days of this location that a row as it now is can affect.
Reach(price) == IF price.worth = Null THEN {} ELSE Affected(price.day)

\* Time passes until a mark is older than publish_grace_seconds.
GraceEnds(d) ==
  /\ snapshot[d].mark = "stale"
  /\ snapshot' = [snapshot EXCEPT ![d].mark = "due"]
  /\ UNCHANGED <<observation, open, run, owed, lapsed, kills>>

-----------------------------------------------------------------------------
(* Observations change *)

\* The resolver, a reviewer or a backlog job publishes a price; the detector, a
\* reviewer or a backlog job has one no longer count.
Changes(o) ==
  CASE observation[o].state = "none"    -> [state: {"valid"}, day: Days, worth: Worths]
    [] observation[o].state = "valid"   -> {[observation[o] EXCEPT !.state = "invalid"]}
    [] observation[o].state = "invalid" -> {}

\* Snapshots a transaction has marked are locked until it ends.
Locked == UNION {open[o].marks : o \in Observations}

\* The resolver, the detector and a reviewer change the row in a transaction, and
\* the observer marks in it what is published and not stale.
Begin(o) ==
  /\ ~open[o].begun
  /\ \E to \in Changes(o) :
       /\ Reach(to) \intersect Locked = {}
       /\ open' = [open EXCEPT ![o] =
                     [begun |-> TRUE, to |-> to,
                      marks |-> {e \in Reach(to) : snapshot[e].mark = "fresh"}]]
  /\ UNCHANGED <<observation, snapshot, run, owed, lapsed, kills>>

\* A snapshot that was not there to be marked, or was stale, and has been computed
\* since without this change, is now wrong, and nothing says so.
Commit(o) ==
  /\ open[o].begun
  /\ observation' = [observation EXCEPT ![o] = open[o].to]
  /\ Mark(open[o].marks)
  /\ lapsed' = lapsed \union {e \in Reach(open[o].to) \ open[o].marks : snapshot[e].mark = "fresh"}
  /\ open' = [open EXCEPT ![o] = NoTransaction]
  /\ UNCHANGED <<run, owed, kills>>

RollBack(o) ==
  /\ open[o].begun
  /\ open' = [open EXCEPT ![o] = NoTransaction]
  /\ UNCHANGED <<observation, snapshot, run, owed, lapsed, kills>>

\* Without a transaction the change is committed and the mark is the next statement.
Put(o, price) == observation' = [observation EXCEPT ![o] = price]

Owe(o, D, d) == owed' = IF D = {} THEN owed ELSE owed \union {<<o, d>>}

\* The backlog jobs, and the create form of the admin panel.
Change(o) ==
  /\ ~open[o].begun
  /\ \E to \in Changes(o) : Put(o, to) /\ Owe(o, Reach(to), to.day)
  /\ UNCHANGED <<snapshot, open, run, lapsed, kills>>

\* The edit form: anything may change at once.  The observer marks from the new date
\* and at the new location, and only when validity, date, price per unit or
\* supersession changed (`told`): never for the item, the location or the reputation.
Edit(o, to, told) ==
  LET old == observation[o]
      reach == IF told THEN Reach(to) ELSE {}
  IN /\ o \in Editable
     /\ ~open[o].begun
     /\ old.state # "none"
     /\ to # old
     /\ to.state # old.state \/ to.day # old.day => told
     /\ Put(o, to)
     /\ Owe(o, reach, to.day)
     /\ lapsed' = lapsed \union {e \in (Reach(old) \union Reach(to)) \ reach : Exists(e)}
     /\ UNCHANGED <<snapshot, open, run, kills>>

\* Deleted in the admin panel; the observer marks as for a change.
Delete(o) ==
  /\ o \in Editable
  /\ ~open[o].begun
  /\ observation[o].state # "none"
  /\ Put(o, NoPrice)
  /\ Owe(o, Reach(observation[o]), observation[o].day)
  /\ UNCHANGED <<snapshot, open, run, lapsed, kills>>

\* The statement that was still to come; it waits for rows another one has locked.
MarkOwed(o, d) ==
  /\ <<o, d>> \in owed
  /\ Affected(d) \intersect Locked = {}
  /\ Mark(Affected(d))
  /\ owed' = owed \ {<<o, d>>}
  /\ UNCHANGED <<observation, open, run, lapsed, kills>>

\* A backlog job, or a request, is killed between its two statements.
MarkLost(o, d) ==
  /\ <<o, d>> \in owed
  /\ kills < MaxKills
  /\ kills' = kills + 1
  /\ owed' = owed \ {<<o, d>>}
  /\ lapsed' = lapsed \union {e \in Affected(d) : Exists(e)}
  /\ UNCHANGED <<observation, snapshot, open, run>>

-----------------------------------------------------------------------------
(* Commands *)

Oldest(D, n) == {d \in D : Cardinality({e \in D : e < d}) < n}

\* Mutant of StartDrain: every day that is not fresh, published or not.
StartDrainAnyDay(p) ==
  LET waiting == {d \in Days : snapshot[d].mark # "fresh"}
  IN /\ run[p] = Idle
     /\ waiting # {}
     /\ run' = [run EXCEPT ![p] = [Idle EXCEPT !.kind = "drain", !.todo = Oldest(waiting, Limit)]]
     /\ UNCHANGED <<observation, snapshot, open, owed, lapsed, kills>>

\* pending(): the oldest snapshots that are due, or, with --grace=0, that are stale.
StartDrain(p) ==
  \E marks \in {{"due"}, {"stale", "due"}} :
    LET waiting == {d \in Days : snapshot[d].mark \in marks}
    IN /\ run[p] = Idle
       /\ waiting # {}
       /\ run' = [run EXCEPT ![p] =
                    [Idle EXCEPT !.kind = "drain", !.todo = Oldest(waiting, Limit)]]
       /\ UNCHANGED <<observation, snapshot, open, owed, lapsed, kills>>

\* The back-fill window of the publisher, or the range an operator asks for.
StartBuild(p, kind, first, last) ==
  /\ run[p] = Idle
  /\ first <= last
  /\ run' = [run EXCEPT ![p] = [Idle EXCEPT !.kind = kind, !.todo = first..last]]
  /\ UNCHANGED <<observation, snapshot, open, owed, lapsed, kills>>

\* The command goes on with the days of D, or ends.
Continue(p, D) ==
  run' = [run EXCEPT ![p] =
            IF D = {} THEN Idle ELSE [kind |-> run[p].kind, todo |-> D, day |-> Null, read |-> {}]]

\* Its next day, in the order of the dates.
IsNext(p, d) ==
  run[p].day = Null /\ d \in run[p].todo /\ \A e \in run[p].todo : d <= e

\* alreadyPublished(), without --force.
Skips(p, d) == run[p].kind = "publish" /\ Exists(d)

Skip(p, d) ==
  /\ IsNext(p, d)
  /\ Skips(p, d)
  /\ Continue(p, run[p].todo \ {d})
  /\ UNCHANGED <<observation, snapshot, open, owed, lapsed, kills>>

\* cost(): the observations are read, and the ML service is asked for the rest.
Gather(p, d) ==
  /\ IsNext(p, d)
  /\ ~Skips(p, d)
  /\ d \notin Broken
  /\ run' = [run EXCEPT ![p].day = d, ![p].read = Evidence(d)]
  /\ UNCHANGED <<observation, snapshot, open, owed, lapsed, kills>>

\* Mutant of Throws: the drain dies with its first failure, like a build.
ThrowsAndStops(p, d) ==
  /\ IsNext(p, d)
  /\ ~Skips(p, d)
  /\ d \in Broken
  /\ Continue(p, {})
  /\ UNCHANGED <<observation, snapshot, open, owed, lapsed, kills>>

\* The drain logs the exception and goes on; publish and rebuild end with it.
Throws(p, d) ==
  /\ IsNext(p, d)
  /\ ~Skips(p, d)
  /\ d \in Broken
  /\ Continue(p, IF run[p].kind = "drain" THEN run[p].todo \ {d} ELSE {})
  /\ UNCHANGED <<observation, snapshot, open, owed, lapsed, kills>>

\* updateOrCreate(): the figure, and not stale, whatever was marked since.  On a row
\* that an open transaction is marking the write waits, and leaves it its mark.
Write(p) ==
  LET d == run[p].day
  IN /\ d # Null
     /\ snapshot' = [snapshot EXCEPT ![d] = [mark |-> "fresh", figure |-> run[p].read]]
     /\ lapsed' = IF run[p].read = Evidence(d) THEN lapsed \ {d} ELSE lapsed \union {d}
     /\ Continue(p, run[p].todo \ {d})
     /\ UNCHANGED <<observation, open, owed, kills>>

Killed(p) ==
  /\ run[p] # Idle
  /\ kills < MaxKills
  /\ kills' = kills + 1
  /\ run' = [run EXCEPT ![p] = Idle]
  /\ UNCHANGED <<observation, snapshot, open, owed, lapsed>>

-----------------------------------------------------------------------------
\* The broken days were published while their calculation still worked.
Init ==
  /\ observation = [o \in Observations |-> NoPrice]
  /\ snapshot = [d \in Days |->
                   IF d \in Broken THEN [mark |-> "fresh", figure |-> {}] ELSE Absent]
  /\ open = [o \in Observations |-> NoTransaction]
  /\ run = [p \in Commands |-> Idle]
  /\ owed = {}
  /\ lapsed = {}
  /\ kills = 0

\* What an administrator may make of a row.
Edited == [state: {"valid", "invalid"}, day: Days, worth: Worths \union {Null}]

Touch(o) ==
  \/ Begin(o) \/ Commit(o) \/ RollBack(o) \/ Change(o) \/ Delete(o)
  \/ \E to \in Edited, told \in BOOLEAN : Edit(o, to, told)

Start(p) ==
  \/ p \in Drains /\ StartDrain(p)
  \/ p \in Builds /\ \E kind \in {"publish", "rebuild"}, first, last \in Days :
                       StartBuild(p, kind, first, last)

Step(p) ==
  \/ \E d \in Days : Skip(p, d) \/ Gather(p, d) \/ Throws(p, d)
  \/ Write(p)

Next ==
  \/ \E o \in Observations : Touch(o)
  \/ \E o \in Observations, d \in Days : MarkOwed(o, d) \/ MarkLost(o, d)
  \/ \E d \in Days : GraceEnds(d)
  \/ \E p \in Commands : Start(p) \/ Step(p) \/ Killed(p)

Spec == Init /\ [][Next]_vars

(***************************************************************************)
(* The scheduler starts the drain every minute, a running command goes on, *)
(* time passes, a transaction ends, and a job makes its next statement     *)
(* unless it is killed, waiting its turn for a locked row.  Builds and     *)
(* changes happen or not.                                                  *)
(***************************************************************************)
Fairness ==
  /\ \A p \in Drains : WF_vars(StartDrain(p))
  /\ \A p \in Commands : WF_vars(Step(p))
  /\ \A d \in Days : WF_vars(GraceEnds(d))
  /\ \A o \in Observations : WF_vars(Commit(o) \/ RollBack(o))
  /\ \A o \in Observations, d \in Days : SF_vars(MarkOwed(o, d))

FairSpec == Spec /\ Fairness
-----------------------------------------------------------------------------
(* Properties *)

\* Every variable stays in its type; a drain never holds more than Limit
\* snapshots, and only ones that exist.
TypeOK ==
  /\ observation \in [Observations -> Prices]
  /\ snapshot \in [Days -> Snapshots]
  /\ open \in [Observations -> Transactions]
  /\ run \in [Commands -> Runs]
  /\ owed \subseteq Observations \X Days
  /\ lapsed \subseteq Days
  /\ kills \in 0..MaxKills
  /\ \A p \in Drains : /\ Cardinality(run[p].todo) <= Limit
                       /\ \A d \in run[p].todo : Exists(d)

OwedDays == UNION {Affected(x[2]) : x \in owed}

\* A published figure that is not marked stale was computed from the observations
\* that count now, except where a statement is still to come or the day lapsed, in one
\* of four ways: a calculation wrote what it had read before a change, or wrote while a
\* transaction that had already marked was open; a job died before it marked; an
\* administrator moved a row away from this date or location; or changed what the
\* observer does not watch.
StaleOrCurrent ==
  \A d \in Days :
    snapshot[d].mark = "fresh" /\ d \notin lapsed /\ d \notin OwedDays
      => snapshot[d].figure = Evidence(d)

\* "failing to recompute one that did leaves a wrong number published indefinitely":
\* a published snapshot loses its stale mark only to a figure that is current.
ClearedIsCurrent ==
  [][\A d \in Days :
       snapshot[d].mark \in {"stale", "due"} /\ snapshot'[d].mark = "fresh"
         => snapshot'[d].figure = Evidence(d)']_vars

\* Days the limit cannot keep from the drain, however busy the days before are.
Reached == {d \in Days \ Broken : d < Limit}

\* "it is what makes a correction to a historical price actually reach the published
\* figures": the figure catches up again and again, although other days cannot be
\* computed and changes never stop, unless the day lapsed.
FigureCatchesUp ==
  \A d \in Reached :
    [](Exists(d) => <>(snapshot[d].figure = Evidence(d) \/ d \in lapsed))
=============================================================================
