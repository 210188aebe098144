----------------------- MODULE IndexPublicationProofs -----------------------
(* Theorems about IndexPublication, for any number of days and commands. *)
EXTENDS IndexPublication, FiniteSetTheorems, WellFoundedInduction, TLAPS

-----------------------------------------------------------------------------
(* The oldest n of some days *)

\* A set of days that is not empty has a last one.
LEMMA LastDay ==
  ASSUME NEW D \in SUBSET Days, D # {}
  PROVE  \E m \in D : \A e \in D : e <= m
PROOF
  <1> DEFINE Bounds == {k \in Nat : \A e \in D : e <= k}
  <1>1. MaxDay \in Bounds
    BY IndexAssumption DEF IndexAssumption, Days
  <1>2. PICK m \in Bounds : \A k \in Bounds : ~(<<k, m>> \in OpToRel(<, Nat))
    <2>1. Bounds \subseteq Nat /\ Bounds # {}
      BY <1>1
    <2> HIDE DEF Bounds
    <2> QED BY <2>1, NatLessThanWellFounded, WFMin, Zenon
  <1>3. ASSUME NEW k \in Bounds PROVE m <= k
    <2>1. ~(k < m)
      BY <1>2, <1>3 DEF OpToRel
    <2> QED BY <2>1
  <1>4. m \in D
    <2> SUFFICES ASSUME m \notin D PROVE FALSE
      OBVIOUS
    <2>1. PICK e \in D : TRUE
      OBVIOUS
    <2>2. \A x \in D : x \in Nat /\ x < m
      BY IndexAssumption DEF IndexAssumption, Days
    <2>3. m - 1 \in Bounds
      BY <2>1, <2>2
    <2> QED BY <2>3, <1>3
  <1> QED BY <1>4

\* The drain's query returns at most Limit of the waiting snapshots.
LEMMA OldestBounded ==
  ASSUME NEW D \in SUBSET Days, NEW n \in Nat
  PROVE  /\ Oldest(D, n) \subseteq D
         /\ Cardinality(Oldest(D, n)) <= n
PROOF
  <1>1. Oldest(D, n) \subseteq D
    BY DEF Oldest
  <1>2. IsFiniteSet(Days)
    BY FS_Interval, IndexAssumption DEF IndexAssumption, Days
  <1>3. IsFiniteSet(D) /\ IsFiniteSet(Oldest(D, n))
    BY <1>1, <1>2, FS_Subset
  <1>4. Cardinality(Oldest(D, n)) \in Nat
    BY <1>3, FS_CardinalityType
  <1>5. CASE Oldest(D, n) = {}
    BY <1>5, FS_EmptySet
  <1>6. CASE Oldest(D, n) # {}
    <2>1. PICK m \in Oldest(D, n) : \A e \in Oldest(D, n) : e <= m
      BY <1>1, <1>6, LastDay
    <2> DEFINE Before == {e \in D : e < m}
    <2>2. IsFiniteSet(Before) /\ Cardinality(Before) < n
      BY <1>3, <2>1, FS_Subset DEF Oldest
    <2>3. Oldest(D, n) \ {m} \subseteq Before
      <3>1. \A e \in Oldest(D, n) : e \in D /\ e \in Nat /\ m \in Nat /\ e <= m
        <4>1. D \subseteq Nat
          BY IndexAssumption DEF IndexAssumption, Days
        <4> QED BY <1>1, <2>1, <4>1
      <3>2. \A e \in Oldest(D, n) \ {m} : e \in D /\ e < m
        BY <3>1
      <3> QED BY <3>2
    <2>4. Cardinality(Oldest(D, n) \ {m}) <= Cardinality(Before)
      BY <2>2, <2>3, FS_Subset
    <2>5. Cardinality(Oldest(D, n) \ {m}) = Cardinality(Oldest(D, n)) - 1
      BY <1>3, <2>1, FS_RemoveElement
    <2>6. Cardinality(Before) \in Nat
      BY <2>2, FS_CardinalityType
    <2> QED BY <1>1, <1>4, <2>2, <2>4, <2>5, <2>6
  <1> QED BY <1>1, <1>5, <1>6

-----------------------------------------------------------------------------
(* Types, and what a drain holds *)

TypeInv ==
  /\ observation \in [Observations -> Prices]
  /\ snapshot \in [Days -> Snapshots]
  /\ open \in [Observations -> Transactions]
  /\ run \in [Commands -> Runs]
  /\ owed \subseteq Observations \X Days
  /\ lapsed \subseteq Days
  /\ kills \in 0..MaxKills

DrainInv ==
  \A p \in Drains : /\ Cardinality(run[p].todo) <= Limit
                    /\ \A d \in run[p].todo : Exists(d)

LEMMA TypeOKParts == TypeOK <=> TypeInv /\ DrainInv
PROOF
  BY DEF TypeOK, TypeInv, DrainInv

LEMMA DayFacts ==
  /\ MaxDay \in Nat /\ Window \in Nat
  /\ Days \subseteq Nat /\ IsFiniteSet(Days)
  /\ Null \notin Days
  /\ \A d \in Days : Affected(d) \subseteq Days
  /\ NoPrice \in Prices /\ NoTransaction \in Transactions
PROOF
  <1>1. MaxDay \in Nat /\ Window \in Nat /\ Null \notin Nat
    BY IndexAssumption DEF IndexAssumption
  <1>2. Days \subseteq Nat /\ IsFiniteSet(Days) /\ 0 \in Days
    BY <1>1, FS_Interval DEF Days
  <1>3. \A d \in Days : Affected(d) \subseteq Days
    BY DEF Affected
  <1>4. NoPrice \in Prices
    BY <1>2 DEF NoPrice, Prices
  <1>5. NoTransaction \in Transactions
    BY <1>4 DEF NoTransaction, Transactions
  <1> QED BY <1>1, <1>2, <1>3, <1>4, <1>5

LEMMA EvidenceType == ASSUME TypeInv, NEW d \in Days PROVE Evidence(d) \in Figures
PROOF
  <1>1. ASSUME NEW o \in Observations, Counts(o, d) PROVE observation[o].worth \in Worths
    BY <1>1 DEF TypeInv, Prices, Counts
  <1> QED BY <1>1 DEF Evidence, Figures

\* A price reaches days of the model only.
LEMMA ReachType ==
  ASSUME NEW price \in Prices
  PROVE  /\ price.day \in Days
         /\ Reach(price) \in SUBSET Days
         /\ Reach(price) \in {{}, Affected(price.day)}
PROOF
  <1>1. price.day \in Days
    BY DEF Prices
  <1> QED BY <1>1, DayFacts DEF Reach

\* What a transaction makes of a row: a price that counted keeps its place.
LEMMA ChangesType ==
  ASSUME TypeInv, NEW o \in Observations, NEW to \in Changes(o)
  PROVE  /\ to \in Prices
         /\ observation[o].state = "valid" => Reach(to) = Reach(observation[o])
PROOF
  <1>1. observation[o] \in Prices
    BY DEF TypeInv
  <1>2. observation[o].state \in {"none", "valid", "invalid"}
    BY <1>1 DEF Prices
  <1>3. CASE observation[o].state = "none"
    <2>1. to \in [state: {"valid"}, day: Days, worth: Worths]
      BY <1>3 DEF Changes
    <2> QED BY <1>3, <2>1 DEF Prices
  <1>4. CASE observation[o].state = "valid"
    <2>1. to = [observation[o] EXCEPT !.state = "invalid"]
      BY <1>4 DEF Changes
    <2>2. /\ to \in Prices
          /\ to.day = observation[o].day /\ to.worth = observation[o].worth
      BY <1>1, <2>1 DEF Prices
    <2> QED BY <2>2 DEF Reach
  <1>5. CASE observation[o].state = "invalid"
    BY <1>5 DEF Changes
  <1> QED BY <1>2, <1>3, <1>4, <1>5

\* Marking changes nothing but marks, and neither adds nor removes a snapshot.
LEMMA MarkKeeps ==
  ASSUME TypeInv, NEW D \in SUBSET Days, Mark(D)
  PROVE  /\ snapshot' \in [Days -> Snapshots]
         /\ \A d \in Days : Exists(d) => Exists(d)'
         /\ \A d \in Days : snapshot'[d].figure = snapshot[d].figure
         /\ \A d \in Days : snapshot'[d].mark = "fresh" =>
                              snapshot[d].mark = "fresh" /\ d \notin D
PROOF
  <1>1. ASSUME NEW d \in Days
        PROVE  /\ snapshot[d] \in Snapshots
               /\ snapshot'[d] = IF d \in D /\ snapshot[d].mark = "fresh"
                                 THEN [snapshot[d] EXCEPT !.mark = "stale"] ELSE snapshot[d]
    BY DEF TypeInv, Mark
  <1>2. ASSUME NEW d \in Days
        PROVE  /\ snapshot'[d] \in Snapshots
               /\ Exists(d) => Exists(d)'
               /\ snapshot'[d].figure = snapshot[d].figure
               /\ snapshot'[d].mark = "fresh" => snapshot[d].mark = "fresh" /\ d \notin D
    BY <1>1 DEF Snapshots, Exists
  <1> QED BY <1>2 DEF Mark

LEMMA PutKeeps ==
  ASSUME TypeInv, NEW o \in Observations, NEW to \in Prices, Put(o, to)
  PROVE  observation' \in [Observations -> Prices]
PROOF
  BY DEF TypeInv, Put

\* What is owed covers the days the statement to come will mark.
LEMMA OweCovers ==
  ASSUME TypeInv, NEW o \in Observations, NEW d \in Days, NEW D \in {{}, Affected(d)},
         Owe(o, D, d)
  PROVE  /\ owed' \subseteq Observations \X Days
         /\ OwedDays \subseteq OwedDays'
         /\ D \subseteq OwedDays'
PROOF
  <1>1. CASE D = {}
    BY <1>1 DEF Owe, TypeInv, OwedDays, Affected
  <1>2. CASE D # {}
    <2>1. owed' = owed \union {<<o, d>>} /\ D = Affected(d)
      BY <1>2 DEF Owe
    <2>2. <<o, d>> \in owed' /\ <<o, d>>[2] = d /\ owed \subseteq owed'
      BY <2>1
    <2>3. OwedDays' = UNION {Affected(x[2]) : x \in owed'}
      BY DEF OwedDays, Affected
    <2>4. Affected(d) \in {Affected(x[2]) : x \in owed'}
      BY <2>2, Zenon
    <2>5. owed' \subseteq Observations \X Days
      BY <2>1 DEF TypeInv
    <2> QED BY <2>1, <2>2, <2>3, <2>4, <2>5 DEF OwedDays
  <1> QED BY <1>1, <1>2

\* A command that goes on holds a part of what it held.
LEMMA ContinueKeeps ==
  ASSUME TypeInv, NEW p \in Commands, NEW D \in SUBSET run[p].todo, Continue(p, D)
  PROVE  /\ run' \in [Commands -> Runs]
         /\ \A q \in Commands : run'[q].todo \subseteq run[q].todo
PROOF
  <1>1. run[p] \in Runs
    BY DEF TypeInv
  <1>2. Idle \in Runs /\ Idle.todo = {}
    BY DEF Idle, Runs, Figures
  <1> DEFINE next == IF D = {} THEN Idle
                     ELSE [kind |-> run[p].kind, todo |-> D, day |-> Null, read |-> {}]
  <1>3. next \in Runs /\ next.todo = D
    <2>1. CASE D = {}
      BY <1>2, <2>1
    <2>2. CASE D # {}
      BY <1>1, <2>2 DEF Runs, Figures
    <2> QED BY <2>1, <2>2
  <1>4. run' = [run EXCEPT ![p] = next]
    BY DEF Continue
  <1> HIDE DEF next
  <1>5. run' \in [Commands -> Runs]
    BY <1>3, <1>4 DEF TypeInv
  <1>6. ASSUME NEW q \in Commands PROVE run'[q].todo \subseteq run[q].todo
    BY <1>3, <1>4 DEF TypeInv
  <1> QED BY <1>5, <1>6

\* Drains keep within their limit while their lists shrink and snapshots stay.
LEMMA DrainKept ==
  ASSUME TypeInv, DrainInv,
         \A q \in Commands : run'[q].todo \subseteq run[q].todo,
         \A d \in Days : Exists(d) => Exists(d)'
  PROVE  DrainInv'
PROOF
  <1> SUFFICES ASSUME NEW q \in Drains
               PROVE  /\ Cardinality(run'[q].todo) <= Limit
                      /\ \A d \in run'[q].todo : Exists(d)'
    BY DEF DrainInv
  <1>1. q \in Commands /\ run[q].todo \subseteq Days
    BY DEF Commands, TypeInv, Runs
  <1>2. IsFiniteSet(run[q].todo)
    BY <1>1, DayFacts, FS_Subset
  <1>3. /\ Cardinality(run'[q].todo) <= Cardinality(run[q].todo)
        /\ Cardinality(run'[q].todo) \in Nat /\ Cardinality(run[q].todo) \in Nat
    BY <1>1, <1>2, FS_Subset, FS_CardinalityType
  <1>4. Cardinality(run[q].todo) <= Limit /\ \A d \in run[q].todo : Exists(d)
    BY DEF DrainInv
  <1>5. Limit \in Nat
    BY IndexAssumption DEF IndexAssumption
  <1>6. Cardinality(run'[q].todo) <= Limit
    BY <1>3, <1>4, <1>5
  <1> QED BY <1>1, <1>4, <1>6

-----------------------------------------------------------------------------
(* The inductive invariant: types, every fresh figure accounted for, and every open
   transaction about a row that is as it found it *)

\* The row a transaction is changing is still the one it read.
OpenInv == \A o \in Observations : open[o].begun => open[o].to \in Changes(o)

\* An observation that becomes something else changes the evidence of no day that
\* neither its old nor its new form reaches.
LEMMA EvidenceKept ==
  ASSUME TypeInv, NEW o \in Observations, NEW to \in Prices, Put(o, to), NEW e \in Days,
         to.state = "valid" => e \notin Reach(to),
         observation[o].state = "valid" => e \notin Reach(observation[o])
  PROVE  Evidence(e)' = Evidence(e)
PROOF
  <1>1. ASSUME NEW x \in Observations
        PROVE  observation'[x] = IF x = o THEN to ELSE observation[x]
    BY DEF TypeInv, Put
  <1>2. ASSUME NEW x \in Observations
        PROVE  /\ Counts(x, e)' <=> Counts(x, e)
               /\ Counts(x, e) => observation'[x].worth = observation[x].worth
    <2>1. CASE x # o
      BY <1>1, <2>1 DEF Counts
    <2>2. CASE x = o
      <3>1. ~Counts(o, e)
        BY DEF Counts, Reach, Affected
      <3>2. ~Counts(o, e)'
        BY <1>1 DEF Counts, Reach, Affected
      <3> QED BY <2>2, <3>1, <3>2
    <2> QED BY <2>1, <2>2
  <1> QED BY <1>2 DEF Evidence

\* What a change must see to, day by day: whatever it reaches is marked, owed a mark,
\* or recorded as lapsed.
LEMMA Accounted ==
  ASSUME TypeInv, StaleOrCurrent,
         \A e \in Days :
           snapshot'[e].mark = "fresh" /\ e \notin lapsed' /\ e \notin OwedDays' =>
             /\ snapshot[e].mark = "fresh" /\ e \notin lapsed /\ e \notin OwedDays
             /\ snapshot'[e].figure = snapshot[e].figure
             /\ Evidence(e)' = Evidence(e)
  PROVE  StaleOrCurrent'
PROOF
  BY DEF StaleOrCurrent

\* A change of one row, whose days are marked, owed or on record.
LEMMA PutAccounted ==
  ASSUME TypeInv, StaleOrCurrent, NEW o \in Observations, NEW to \in Prices, Put(o, to),
         \A e \in Days :
           snapshot'[e].mark = "fresh" /\ e \notin lapsed' /\ e \notin OwedDays' =>
             /\ snapshot[e].mark = "fresh" /\ e \notin lapsed /\ e \notin OwedDays
             /\ snapshot'[e].figure = snapshot[e].figure
             /\ to.state = "valid" => e \notin Reach(to)
             /\ observation[o].state = "valid" => e \notin Reach(observation[o])
  PROVE  StaleOrCurrent'
PROOF
  <1>1. ASSUME NEW e \in Days,
               snapshot'[e].mark = "fresh", e \notin lapsed', e \notin OwedDays'
        PROVE  Evidence(e)' = Evidence(e)
    BY <1>1, EvidenceKept
  <1> QED BY <1>1, Accounted

\* No transaction is about a row another one changes.
LEMMA PutKeepsOpen ==
  ASSUME TypeInv, OpenInv, NEW o \in Observations, ~open'[o].begun,
         \A x \in Observations \ {o} : /\ open'[x] = open[x]
                                       /\ observation'[x] = observation[x]
  PROVE  OpenInv'
PROOF
  BY DEF OpenInv, Changes

IInv == TypeOK /\ StaleOrCurrent /\ OpenInv

\* What an action must show: the parts of the invariant.
LEMMA IInvFromParts ==
  ASSUME TypeInv', DrainInv', StaleOrCurrent', OpenInv'
  PROVE  IInv'
PROOF
  BY DEF IInv, TypeOK, TypeInv, DrainInv

\* A row that changes without a transaction.
LEMMA PutInv ==
  ASSUME IInv, NEW o \in Observations, NEW to \in Prices, Put(o, to), ~open[o].begun,
         UNCHANGED <<snapshot, open, run, kills>>,
         owed' \subseteq Observations \X Days, lapsed' \subseteq Days,
         StaleOrCurrent'
  PROVE  IInv'
PROOF
  <1>1. TypeInv /\ DrainInv /\ OpenInv
    BY TypeOKParts DEF IInv
  <1>2. TypeInv'
    BY <1>1, PutKeeps DEF TypeInv
  <1>3. DrainInv'
    BY <1>1 DEF DrainInv, Exists
  <1>4. OpenInv'
    <2>1. \A x \in Observations \ {o} : open'[x] = open[x] /\ observation'[x] = observation[x]
      BY <1>1 DEF TypeInv, Put
    <2> QED BY <1>1, <2>1, PutKeepsOpen
  <1> QED BY <1>2, <1>3, <1>4, IInvFromParts

LEMMA InitInv == Init => IInv
PROOF
  <1> SUFFICES ASSUME Init PROVE IInv
    OBVIOUS
  <1> USE DEF Init
  <1>1. 0 \in Days /\ 0 \in 0..MaxKills
    BY IndexAssumption DEF IndexAssumption, Days
  <1>2. observation \in [Observations -> Prices] /\ open \in [Observations -> Transactions]
    BY DayFacts
  <1>3. snapshot \in [Days -> Snapshots]
    BY DEF Snapshots, Figures, Absent
  <1>4. run \in [Commands -> Runs]
    BY DEF Runs, Figures, Idle
  <1>5. TypeInv
    BY <1>1, <1>2, <1>3, <1>4 DEF TypeInv
  <1>6. DrainInv
    <2>1. \A p \in Drains : run[p].todo = {}
      BY DEF Commands, Idle
    <2>2. Limit \in Nat
      BY IndexAssumption DEF IndexAssumption
    <2>3. Cardinality({}) <= Limit
      BY <2>2, FS_EmptySet
    <2> HIDE DEF Init
    <2> QED BY <2>1, <2>3 DEF DrainInv
  <1>7. StaleOrCurrent
    <2>1. \A d \in Days : Evidence(d) = {}
      BY DEF Evidence, Counts, NoPrice
    <2> QED BY <2>1 DEF StaleOrCurrent, Absent
  <1>8. OpenInv
    BY DEF OpenInv, NoTransaction
  <1> QED BY <1>5, <1>6, <1>7, <1>8, TypeOKParts DEF IInv

LEMMA BeginInv ==
  ASSUME IInv, NEW o \in Observations, Begin(o) PROVE IInv'
PROOF
  <1>1. TypeInv /\ DrainInv /\ StaleOrCurrent /\ OpenInv
    BY TypeOKParts DEF IInv
  <1>2. PICK to \in Changes(o) :
          open' = [open EXCEPT ![o] =
                     [begun |-> TRUE, to |-> to,
                      marks |-> {e \in Reach(to) : snapshot[e].mark = "fresh"}]]
    BY DEF Begin
  <1>3. UNCHANGED <<observation, snapshot, run, owed, lapsed, kills>>
    BY DEF Begin
  <1>4. to \in Prices /\ Reach(to) \in SUBSET Days
    BY <1>1, ChangesType, ReachType
  <1>5. PICK D \in SUBSET Days : D = {e \in Reach(to) : snapshot[e].mark = "fresh"}
    BY <1>4
  <1> DEFINE begun == [begun |-> TRUE, to |-> to, marks |-> D]
  <1>6. begun \in Transactions /\ begun.to = to
    BY <1>4 DEF Transactions
  <1>7. open' = [open EXCEPT ![o] = begun]
    BY <1>2, <1>5
  <1> HIDE DEF begun
  <1>8. TypeInv'
    BY <1>1, <1>3, <1>6, <1>7 DEF TypeInv
  <1>9. DrainInv'
    BY <1>1, <1>3 DEF DrainInv, Exists
  <1>10. OwedDays' = OwedDays /\ \A e \in Days : Evidence(e)' = Evidence(e)
    BY <1>3 DEF OwedDays, Affected, Evidence, Counts
  <1>11. StaleOrCurrent'
    BY <1>1, <1>3, <1>10, Accounted
  <1>12. OpenInv'
    <2> SUFFICES ASSUME NEW x \in Observations, open'[x].begun
                 PROVE  open'[x].to \in Changes(x)'
      BY DEF OpenInv
    <2>1. Changes(x)' = Changes(x)
      BY <1>3 DEF Changes
    <2>2. CASE x = o
      BY <1>1, <1>6, <1>7, <2>1, <2>2 DEF TypeInv
    <2>3. CASE x # o
      <3>1. open'[x] = open[x]
        BY <1>1, <1>7, <2>3 DEF TypeInv
      <3> QED BY <1>1, <2>1, <3>1 DEF OpenInv
    <2> QED BY <2>2, <2>3
  <1> QED BY <1>8, <1>9, <1>11, <1>12, IInvFromParts

\* The days a transaction reaches are marked when it commits, or lapse, or were not
\* current to begin with.
LEMMA CommitInv ==
  ASSUME IInv, NEW o \in Observations, Commit(o) PROVE IInv'
PROOF
  <1>1. TypeInv /\ DrainInv /\ StaleOrCurrent /\ OpenInv
    BY TypeOKParts DEF IInv
  <1>2. open[o] \in Transactions /\ open[o].begun
    BY <1>1 DEF Commit, TypeInv
  <1>3. PICK to \in Changes(o), D \in SUBSET Days : to = open[o].to /\ D = open[o].marks
    BY <1>1, <1>2 DEF OpenInv, Transactions
  <1>4. /\ Put(o, to) /\ Mark(D)
        /\ lapsed' = lapsed \union {e \in Reach(to) \ D : snapshot[e].mark = "fresh"}
        /\ open' = [open EXCEPT ![o] = NoTransaction]
        /\ run' = run /\ owed' = owed /\ kills' = kills
    BY <1>3 DEF Commit, Put
  <1>5. /\ to \in Prices /\ Reach(to) \in SUBSET Days
        /\ observation[o].state = "valid" => Reach(to) = Reach(observation[o])
    BY <1>1, ChangesType, ReachType
  <1>6. /\ snapshot' \in [Days -> Snapshots]
        /\ \A e \in Days : Exists(e) => Exists(e)'
        /\ \A e \in Days : snapshot'[e].figure = snapshot[e].figure
        /\ \A e \in Days : snapshot'[e].mark = "fresh" =>
                             snapshot[e].mark = "fresh" /\ e \notin D
    BY <1>1, <1>4, MarkKeeps
  <1>7. TypeInv'
    <2>1. observation' \in [Observations -> Prices]
      BY <1>1, <1>4, <1>5, PutKeeps
    <2>2. open' \in [Observations -> Transactions]
      BY <1>1, <1>4, DayFacts DEF TypeInv
    <2>3. lapsed' \subseteq Days
      BY <1>1, <1>4, <1>5 DEF TypeInv
    <2> QED BY <1>1, <1>4, <1>6, <2>1, <2>2, <2>3 DEF TypeInv
  <1>8. DrainInv'
    BY <1>1, <1>4, <1>6, DrainKept
  <1>9. StaleOrCurrent'
    <2>1. OwedDays' = OwedDays
      BY <1>4 DEF OwedDays, Affected
    <2>2. ASSUME NEW e \in Days,
                 snapshot'[e].mark = "fresh", e \notin lapsed', e \notin OwedDays'
          PROVE  /\ snapshot[e].mark = "fresh" /\ e \notin lapsed /\ e \notin OwedDays
                 /\ snapshot'[e].figure = snapshot[e].figure
                 /\ e \notin Reach(to)
      BY <1>4, <1>6, <2>1, <2>2
    <2> QED BY <1>1, <1>4, <1>5, <2>2, PutAccounted
  <1>10. OpenInv'
    <2>1. \A x \in Observations \ {o} : open'[x] = open[x] /\ observation'[x] = observation[x]
      BY <1>1, <1>4 DEF TypeInv, Put
    <2>2. ~open'[o].begun
      BY <1>1, <1>4 DEF TypeInv, NoTransaction
    <2> QED BY <1>1, <2>1, <2>2, PutKeepsOpen
  <1> QED BY <1>7, <1>8, <1>9, <1>10, IInvFromParts

LEMMA RollBackInv ==
  ASSUME IInv, NEW o \in Observations, RollBack(o) PROVE IInv'
PROOF
  <1>1. TypeInv /\ DrainInv /\ StaleOrCurrent /\ OpenInv
    BY TypeOKParts DEF IInv
  <1>2. /\ open' = [open EXCEPT ![o] = NoTransaction]
        /\ UNCHANGED <<observation, snapshot, run, owed, lapsed, kills>>
    BY DEF RollBack
  <1>3. TypeInv'
    BY <1>1, <1>2, DayFacts DEF TypeInv
  <1>4. DrainInv'
    BY <1>1, <1>2 DEF DrainInv, Exists
  <1>5. OwedDays' = OwedDays /\ \A e \in Days : Evidence(e)' = Evidence(e)
    BY <1>2 DEF OwedDays, Affected, Evidence, Counts
  <1>6. StaleOrCurrent'
    BY <1>1, <1>2, <1>5, Accounted
  <1>7. OpenInv'
    <2>1. \A x \in Observations \ {o} : open'[x] = open[x] /\ observation'[x] = observation[x]
      BY <1>1, <1>2 DEF TypeInv
    <2>2. ~open'[o].begun
      BY <1>1, <1>2 DEF TypeInv, NoTransaction
    <2> QED BY <1>1, <2>1, <2>2, PutKeepsOpen
  <1> QED BY <1>3, <1>4, <1>6, <1>7, IInvFromParts

\* A backlog job owes the days it has changed.
LEMMA ChangeInv ==
  ASSUME IInv, NEW o \in Observations, Change(o) PROVE IInv'
PROOF
  <1>1. TypeInv /\ StaleOrCurrent
    BY TypeOKParts DEF IInv
  <1>2. PICK to \in Changes(o) : Put(o, to) /\ Owe(o, Reach(to), to.day)
    BY DEF Change
  <1>3. ~open[o].begun /\ UNCHANGED <<snapshot, open, run, lapsed, kills>>
    BY DEF Change
  <1>4. /\ to \in Prices /\ to.day \in Days /\ Reach(to) \in {{}, Affected(to.day)}
        /\ observation[o].state = "valid" => Reach(to) = Reach(observation[o])
    BY <1>1, ChangesType, ReachType
  <1>5a. PICK d \in Days : d = to.day
    BY <1>4
  <1>5. PICK D \in {{}, Affected(d)} : D = Reach(to)
    BY <1>4, <1>5a
  <1>6. Owe(o, D, d)
    BY <1>2, <1>5, <1>5a
  <1>7. /\ owed' \subseteq Observations \X Days
        /\ OwedDays \subseteq OwedDays' /\ D \subseteq OwedDays'
    BY <1>1, <1>6, OweCovers
  <1>8. StaleOrCurrent'
    <2>1. ASSUME NEW e \in Days,
                 snapshot'[e].mark = "fresh", e \notin lapsed', e \notin OwedDays'
          PROVE  /\ snapshot[e].mark = "fresh" /\ e \notin lapsed /\ e \notin OwedDays
                 /\ snapshot'[e].figure = snapshot[e].figure
                 /\ e \notin Reach(to)
      BY <1>3, <1>5, <1>7, <2>1
    <2> QED BY <1>1, <1>2, <1>4, <2>1, PutAccounted
  <1>9. lapsed' \subseteq Days
    BY <1>1, <1>3 DEF TypeInv
  <1> QED BY <1>2, <1>3, <1>4, <1>7, <1>8, <1>9, PutInv

\* The days the observer is not told of lapse; the others are owed.
LEMMA EditInv ==
  ASSUME IInv, NEW o \in Observations, NEW to \in Edited, NEW told \in BOOLEAN,
         Edit(o, to, told)
  PROVE  IInv'
PROOF
  <1>1. TypeInv /\ StaleOrCurrent
    BY TypeOKParts DEF IInv
  <1>2. observation[o] \in Prices /\ to \in Prices
    BY <1>1 DEF TypeInv, Edited, Prices
  <1>3. PICK old \in Prices : old = observation[o]
    BY <1>2
  <1> DEFINE reach == IF told THEN Reach(to) ELSE {}
  <1>4. /\ Put(o, to) /\ Owe(o, reach, to.day) /\ ~open[o].begun
        /\ lapsed' = lapsed \union {e \in (Reach(old) \union Reach(to)) \ reach : Exists(e)}
        /\ UNCHANGED <<snapshot, open, run, kills>>
    BY <1>3 DEF Edit
  <1>5. /\ Reach(old) \in SUBSET Days /\ Reach(to) \in SUBSET Days
        /\ to.day \in Days /\ reach \in {{}, Affected(to.day)}
    BY <1>2, ReachType
  <1>6a. PICK d \in Days : d = to.day
    BY <1>5
  <1>6. PICK D \in {{}, Affected(d)} : D = reach
    BY <1>5, <1>6a
  <1> HIDE DEF reach
  <1>7. Owe(o, D, d)
    BY <1>4, <1>6, <1>6a
  <1>8. /\ owed' \subseteq Observations \X Days
        /\ OwedDays \subseteq OwedDays' /\ D \subseteq OwedDays'
    BY <1>1, <1>7, OweCovers
  <1>9. StaleOrCurrent'
    <2>1. ASSUME NEW e \in Days,
                 snapshot'[e].mark = "fresh", e \notin lapsed', e \notin OwedDays'
          PROVE  /\ snapshot[e].mark = "fresh" /\ e \notin lapsed /\ e \notin OwedDays
                 /\ snapshot'[e].figure = snapshot[e].figure
                 /\ e \notin Reach(to) /\ e \notin Reach(old)
      <3>1. Exists(e) /\ e \notin reach
        BY <1>4, <1>6, <1>8, <2>1 DEF Exists
      <3> QED BY <1>4, <1>8, <2>1, <3>1
    <2> QED BY <1>1, <1>2, <1>3, <1>4, <2>1, PutAccounted
  <1>10. lapsed' \subseteq Days
    BY <1>1, <1>4, <1>5 DEF TypeInv
  <1> QED BY <1>2, <1>4, <1>8, <1>9, <1>10, PutInv

LEMMA DeleteInv ==
  ASSUME IInv, NEW o \in Observations, Delete(o) PROVE IInv'
PROOF
  <1>1. TypeInv /\ StaleOrCurrent
    BY TypeOKParts DEF IInv
  <1>2. PICK old \in Prices : old = observation[o]
    BY <1>1 DEF TypeInv
  <1>3. /\ Put(o, NoPrice) /\ Owe(o, Reach(old), old.day) /\ ~open[o].begun
        /\ UNCHANGED <<snapshot, open, run, lapsed, kills>>
    BY <1>2 DEF Delete
  <1>4. old.day \in Days /\ Reach(old) \in {{}, Affected(old.day)}
    BY ReachType
  <1>5a. PICK d \in Days : d = old.day
    BY <1>4
  <1>5. PICK D \in {{}, Affected(d)} : D = Reach(old)
    BY <1>4, <1>5a
  <1>6. Owe(o, D, d)
    BY <1>3, <1>5, <1>5a
  <1>7. /\ owed' \subseteq Observations \X Days
        /\ OwedDays \subseteq OwedDays' /\ D \subseteq OwedDays'
    BY <1>1, <1>6, OweCovers
  <1>8. NoPrice \in Prices /\ NoPrice.state # "valid"
    BY DayFacts DEF NoPrice
  <1>9. StaleOrCurrent'
    <2>1. ASSUME NEW e \in Days,
                 snapshot'[e].mark = "fresh", e \notin lapsed', e \notin OwedDays'
          PROVE  /\ snapshot[e].mark = "fresh" /\ e \notin lapsed /\ e \notin OwedDays
                 /\ snapshot'[e].figure = snapshot[e].figure
                 /\ e \notin Reach(old)
      BY <1>3, <1>5, <1>7, <2>1
    <2> QED BY <1>1, <1>2, <1>3, <1>8, <2>1, PutAccounted
  <1>10. lapsed' \subseteq Days
    BY <1>1, <1>3 DEF TypeInv
  <1> QED BY <1>3, <1>7, <1>8, <1>9, <1>10, PutInv

LEMMA SameTransactions ==
  ASSUME OpenInv, UNCHANGED <<observation, open>>
  PROVE  OpenInv'
PROOF
  BY DEF OpenInv, Changes

LEMMA MarkOwedInv ==
  ASSUME IInv, NEW o \in Observations, NEW d \in Days, MarkOwed(o, d) PROVE IInv'
PROOF
  <1>1. TypeInv /\ DrainInv /\ StaleOrCurrent /\ OpenInv
    BY TypeOKParts DEF IInv
  <1>2. /\ Mark(Affected(d)) /\ owed' = owed \ {<<o, d>>}
        /\ UNCHANGED <<observation, open, run, lapsed, kills>>
    BY DEF MarkOwed
  <1>3. /\ snapshot' \in [Days -> Snapshots]
        /\ \A e \in Days : Exists(e) => Exists(e)'
        /\ \A e \in Days : snapshot'[e].figure = snapshot[e].figure
        /\ \A e \in Days : snapshot'[e].mark = "fresh" =>
                             snapshot[e].mark = "fresh" /\ e \notin Affected(d)
    BY <1>1, <1>2, DayFacts, MarkKeeps
  <1>4. TypeInv'
    BY <1>1, <1>2, <1>3 DEF TypeInv
  <1>5. DrainInv'
    BY <1>1, <1>2, <1>3, DrainKept
  <1>6. OwedDays \subseteq OwedDays' \union Affected(d)
    <2>1. ASSUME NEW x \in owed PROVE Affected(x[2]) \subseteq OwedDays' \union Affected(d)
      <3>1. CASE x = <<o, d>>
        BY <3>1
      <3>2. CASE x # <<o, d>>
        <4>1. x \in owed'
          BY <1>2, <2>1, <3>2
        <4>2. Affected(x[2]) \subseteq OwedDays'
          BY <4>1 DEF OwedDays, Affected
        <4> QED BY <4>2
      <3> QED BY <3>1, <3>2
    <2> QED BY <2>1 DEF OwedDays
  <1>7. \A e \in Days : Evidence(e)' = Evidence(e)
    BY <1>2 DEF Evidence, Counts
  <1>8. StaleOrCurrent'
    BY <1>1, <1>2, <1>3, <1>6, <1>7, Accounted
  <1> QED BY <1>1, <1>2, <1>4, <1>5, <1>8, SameTransactions, IInvFromParts

LEMMA MarkLostInv ==
  ASSUME IInv, NEW o \in Observations, NEW d \in Days, MarkLost(o, d) PROVE IInv'
PROOF
  <1>1. TypeInv /\ DrainInv /\ StaleOrCurrent /\ OpenInv
    BY TypeOKParts DEF IInv
  <1>2. /\ owed' = owed \ {<<o, d>>} /\ kills < MaxKills /\ kills' = kills + 1
        /\ lapsed' = lapsed \union {e \in Affected(d) : Exists(e)}
        /\ UNCHANGED <<observation, open, run, snapshot>>
    BY DEF MarkLost
  <1>3. TypeInv'
    <2>1. kills' \in 0..MaxKills
      BY <1>1, <1>2, IndexAssumption DEF TypeInv, IndexAssumption
    <2>2. lapsed' \subseteq Days
      <3>1. Affected(d) \subseteq Days
        BY DayFacts
      <3> QED BY <1>1, <1>2, <3>1 DEF TypeInv
    <2>3. owed' \subseteq Observations \X Days
      BY <1>1, <1>2 DEF TypeInv
    <2> QED BY <1>1, <1>2, <2>1, <2>2, <2>3 DEF TypeInv
  <1>4. \A e \in Days : Exists(e) => Exists(e)'
    BY <1>2 DEF Exists
  <1>5. DrainInv'
    BY <1>1, <1>2, <1>4, DrainKept
  <1>6. OwedDays \subseteq OwedDays' \union Affected(d)
    <2>1. ASSUME NEW x \in owed PROVE Affected(x[2]) \subseteq OwedDays' \union Affected(d)
      <3>1. CASE x = <<o, d>>
        BY <3>1
      <3>2. CASE x # <<o, d>>
        <4>1. x \in owed'
          BY <1>2, <2>1, <3>2
        <4>2. Affected(x[2]) \subseteq OwedDays'
          BY <4>1 DEF OwedDays, Affected
        <4> QED BY <4>2
      <3> QED BY <3>1, <3>2
    <2> QED BY <2>1 DEF OwedDays
  <1>7. \A e \in Days : Evidence(e)' = Evidence(e)
    BY <1>2 DEF Evidence, Counts
  <1>8. ASSUME NEW e \in Days, snapshot'[e].mark = "fresh", e \notin lapsed', e \notin OwedDays'
        PROVE  e \notin lapsed /\ e \notin OwedDays
    <2>1. Exists(e) /\ e \notin Affected(d)
      BY <1>2, <1>8 DEF Exists
    <2> QED BY <1>2, <1>6, <1>8, <2>1
  <1>9. StaleOrCurrent'
    BY <1>1, <1>2, <1>7, <1>8, Accounted
  <1> QED BY <1>1, <1>2, <1>3, <1>5, <1>9, SameTransactions, IInvFromParts

LEMMA GraceEndsInv ==
  ASSUME IInv, NEW d \in Days, GraceEnds(d) PROVE IInv'
PROOF
  <1>1. TypeInv /\ DrainInv /\ StaleOrCurrent /\ OpenInv
    BY TypeOKParts DEF IInv
  <1>2. /\ snapshot[d].mark = "stale" /\ snapshot' = [snapshot EXCEPT ![d].mark = "due"]
        /\ UNCHANGED <<observation, open, run, owed, lapsed, kills>>
    BY DEF GraceEnds
  <1>3. TypeInv'
    BY <1>1, <1>2 DEF TypeInv, Snapshots
  <1>4. ASSUME NEW e \in Days
        PROVE  /\ Exists(e) => Exists(e)'
               /\ snapshot'[e].mark = "fresh" => snapshot'[e] = snapshot[e]
    BY <1>1, <1>2 DEF TypeInv, Snapshots, Exists
  <1>5. DrainInv'
    BY <1>1, <1>2, <1>4, DrainKept
  <1>6. OwedDays' = OwedDays /\ \A e \in Days : Evidence(e)' = Evidence(e)
    BY <1>2 DEF OwedDays, Affected, Evidence, Counts
  <1>7. StaleOrCurrent'
    BY <1>1, <1>2, <1>4, <1>6, Accounted
  <1> QED BY <1>1, <1>2, <1>3, <1>5, <1>7, SameTransactions, IInvFromParts

\* Steps that touch nothing but what a command holds.
LEMMA RunStepInv ==
  ASSUME IInv, UNCHANGED <<observation, snapshot, open, owed, lapsed>>,
         kills' \in 0..MaxKills, run' \in [Commands -> Runs],
         \A q \in Drains : /\ Cardinality(run'[q].todo) <= Limit
                           /\ \A d \in run'[q].todo : Exists(d)
  PROVE  IInv'
PROOF
  <1>1. TypeInv /\ DrainInv /\ StaleOrCurrent /\ OpenInv
    BY TypeOKParts DEF IInv
  <1>2. TypeInv'
    BY <1>1 DEF TypeInv
  <1>3. DrainInv'
    BY DEF DrainInv, Exists
  <1>4. OwedDays' = OwedDays /\ \A e \in Days : Evidence(e)' = Evidence(e)
    BY DEF OwedDays, Affected, Evidence, Counts
  <1>5. StaleOrCurrent'
    BY <1>1, <1>4, Accounted
  <1> QED BY <1>1, <1>2, <1>3, <1>5, SameTransactions, IInvFromParts

\* A command begins with some days and nothing read.
LEMMA Begins ==
  ASSUME NEW kind \in {"drain", "publish", "rebuild"}, NEW D \in SUBSET Days
  PROVE  LET begun == [Idle EXCEPT !.kind = kind, !.todo = D]
         IN  begun \in Runs /\ begun.todo = D
PROOF
  BY DEF Idle, Runs, Figures

LEMMA StartDrainInv ==
  ASSUME IInv, NEW p \in Drains, StartDrain(p) PROVE IInv'
PROOF
  <1>1. TypeInv /\ DrainInv
    BY TypeOKParts DEF IInv
  <1>2. PICK marks \in {{"due"}, {"stale", "due"}} :
          LET waiting == {d \in Days : snapshot[d].mark \in marks}
          IN /\ run' = [run EXCEPT ![p] =
                          [Idle EXCEPT !.kind = "drain", !.todo = Oldest(waiting, Limit)]]
             /\ UNCHANGED <<observation, snapshot, open, owed, lapsed, kills>>
    BY DEF StartDrain
  <1> DEFINE waiting == {d \in Days : snapshot[d].mark \in marks}
             list == Oldest(waiting, Limit)
  <1>3. list \subseteq waiting /\ Cardinality(list) <= Limit
    BY OldestBounded, IndexAssumption DEF IndexAssumption
  <1>4. list \subseteq Days /\ \A d \in list : Exists(d)
    BY <1>3 DEF Exists
  <1> DEFINE begun == [Idle EXCEPT !.kind = "drain", !.todo = list]
  <1>5. run' = [run EXCEPT ![p] = begun]
    BY <1>2
  <1> HIDE DEF list
  <1>b. begun \in Runs /\ begun.todo = list
    BY <1>4, Begins
  <1> HIDE DEF begun
  <1>6. p \in Commands
    BY DEF Commands
  <1>7. run' \in [Commands -> Runs]
    BY <1>1, <1>b, <1>5, <1>6 DEF TypeInv
  <1>8. ASSUME NEW q \in Drains
        PROVE  Cardinality(run'[q].todo) <= Limit /\ \A d \in run'[q].todo : Exists(d)
    <2>1. q \in Commands
      BY DEF Commands
    <2>2. CASE q = p
      BY <1>1, <1>3, <1>4, <1>5, <1>b, <2>1, <2>2 DEF TypeInv
    <2>3. CASE q # p
      <3>1. run'[q] = run[q]
        BY <1>1, <1>5, <2>1, <2>3 DEF TypeInv
      <3> QED BY <1>1, <3>1 DEF DrainInv
    <2> QED BY <2>2, <2>3
  <1>9. kills' \in 0..MaxKills /\ UNCHANGED <<observation, snapshot, open, owed, lapsed>>
    BY <1>1, <1>2 DEF TypeInv
  <1> QED BY <1>7, <1>8, <1>9, RunStepInv

LEMMA StartBuildInv ==
  ASSUME IInv, NEW p \in Builds, NEW kind \in {"publish", "rebuild"},
         NEW first \in Days, NEW last \in Days, StartBuild(p, kind, first, last)
  PROVE  IInv'
PROOF
  <1>1. TypeInv /\ DrainInv
    BY TypeOKParts DEF IInv
  <1> DEFINE begun == [Idle EXCEPT !.kind = kind, !.todo = first..last]
  <1>2. run' = [run EXCEPT ![p] = begun] /\ UNCHANGED <<observation, snapshot, open, owed, lapsed, kills>>
    BY DEF StartBuild
  <1>3. first..last \subseteq Days
    BY IndexAssumption DEF IndexAssumption, Days
  <1>4. p \in Commands /\ p \notin Drains
    BY IndexAssumption DEF IndexAssumption, Commands
  <1>b. begun \in Runs
    BY <1>3, Begins
  <1> HIDE DEF begun
  <1>5. run' \in [Commands -> Runs]
    BY <1>1, <1>2, <1>b, <1>4 DEF TypeInv
  <1>6. ASSUME NEW q \in Drains
        PROVE  Cardinality(run'[q].todo) <= Limit /\ \A d \in run'[q].todo : Exists(d)
    <2>1. run'[q] = run[q]
      BY <1>1, <1>2, <1>4 DEF TypeInv, Commands
    <2> QED BY <1>1, <2>1 DEF DrainInv
  <1>7. kills' \in 0..MaxKills
    BY <1>1, <1>2 DEF TypeInv
  <1> QED BY <1>2, <1>5, <1>6, <1>7, RunStepInv

\* A command that passes over a day, or ends.
LEMMA ContinueInv ==
  ASSUME IInv, NEW p \in Commands, NEW D \in SUBSET run[p].todo, Continue(p, D),
         UNCHANGED <<observation, snapshot, open, owed, lapsed, kills>>
  PROVE  IInv'
PROOF
  <1>1. TypeInv /\ DrainInv
    BY TypeOKParts DEF IInv
  <1>2. run' \in [Commands -> Runs] /\ \A q \in Commands : run'[q].todo \subseteq run[q].todo
    BY <1>1, ContinueKeeps
  <1>3. \A d \in Days : Exists(d) => Exists(d)'
    BY DEF Exists
  <1>4. DrainInv'
    BY <1>1, <1>2, <1>3, DrainKept
  <1>5. kills' \in 0..MaxKills
    BY <1>1 DEF TypeInv
  <1>6. \A q \in Drains : /\ Cardinality(run'[q].todo) <= Limit
                          /\ \A d \in run'[q].todo : Exists(d)
    BY <1>4 DEF DrainInv, Exists
  <1> QED BY <1>2, <1>5, <1>6, RunStepInv

LEMMA SkipInv ==
  ASSUME IInv, NEW p \in Commands, NEW d \in Days, Skip(p, d) PROVE IInv'
PROOF
  <1>1. /\ Continue(p, run[p].todo \ {d})
        /\ UNCHANGED <<observation, snapshot, open, owed, lapsed, kills>>
    BY DEF Skip
  <1>2. PICK D \in SUBSET run[p].todo : D = run[p].todo \ {d}
    OBVIOUS
  <1>3. Continue(p, D)
    BY <1>1, <1>2
  <1> QED BY <1>1, <1>3, ContinueInv

LEMMA ThrowsInv ==
  ASSUME IInv, NEW p \in Commands, NEW d \in Days, Throws(p, d) PROVE IInv'
PROOF
  <1> DEFINE rest == IF run[p].kind = "drain" THEN run[p].todo \ {d} ELSE {}
  <1>1. Continue(p, rest) /\ UNCHANGED <<observation, snapshot, open, owed, lapsed, kills>>
    BY DEF Throws
  <1>2. PICK D \in SUBSET run[p].todo : D = rest
    OBVIOUS
  <1>3. Continue(p, D)
    BY <1>1, <1>2
  <1> QED BY <1>1, <1>3, ContinueInv

LEMMA GatherInv ==
  ASSUME IInv, NEW p \in Commands, NEW d \in Days, Gather(p, d) PROVE IInv'
PROOF
  <1>1. TypeInv /\ DrainInv
    BY TypeOKParts DEF IInv
  <1>2. PICK E \in Figures : E = Evidence(d)
    BY <1>1, EvidenceType
  <1>3. /\ run' = [run EXCEPT ![p] = [run[p] EXCEPT !.day = d, !.read = E]]
        /\ UNCHANGED <<observation, snapshot, open, owed, lapsed, kills>>
    BY <1>1, <1>2 DEF Gather, TypeInv
  <1> DEFINE next == [run[p] EXCEPT !.day = d, !.read = E]
  <1>4. next \in Runs /\ next.todo = run[p].todo
    <2>1. run[p] \in Runs
      BY <1>1 DEF TypeInv
    <2> QED BY <2>1 DEF Runs
  <1>5. run' = [run EXCEPT ![p] = next]
    BY <1>3
  <1> HIDE DEF next
  <1>6. run' \in [Commands -> Runs]
    BY <1>1, <1>4, <1>5 DEF TypeInv
  <1>7. \A q \in Commands : run'[q].todo = run[q].todo
    BY <1>1, <1>4, <1>5 DEF TypeInv
  <1>8. ASSUME NEW q \in Drains
        PROVE  Cardinality(run'[q].todo) <= Limit /\ \A e \in run'[q].todo : Exists(e)
    BY <1>1, <1>7 DEF DrainInv, Commands
  <1>9. kills' \in 0..MaxKills
    BY <1>1, <1>3 DEF TypeInv
  <1> QED BY <1>3, <1>6, <1>8, <1>9, RunStepInv

\* What was read is what counts now, or the day lapses.
LEMMA WriteInv ==
  ASSUME IInv, NEW p \in Commands, Write(p) PROVE IInv'
PROOF
  <1>1. TypeInv /\ DrainInv /\ StaleOrCurrent /\ OpenInv
    BY TypeOKParts DEF IInv
  <1>2. run[p] \in Runs
    BY <1>1 DEF TypeInv
  <1>3. run[p].day \in Days /\ run[p].read \in Figures
    BY <1>2 DEF Write, Runs
  <1>4. PICK d \in Days, E \in Figures : d = run[p].day /\ E = run[p].read
    BY <1>3
  <1>5. /\ snapshot' = [snapshot EXCEPT ![d] = [mark |-> "fresh", figure |-> E]]
        /\ lapsed' = IF E = Evidence(d) THEN lapsed \ {d} ELSE lapsed \union {d}
        /\ Continue(p, run[p].todo \ {d})
        /\ UNCHANGED <<observation, open, owed, kills>>
    BY <1>4 DEF Write
  <1>6. PICK D \in SUBSET run[p].todo : D = run[p].todo \ {d}
    OBVIOUS
  <1>7. run' \in [Commands -> Runs] /\ \A q \in Commands : run'[q].todo \subseteq run[q].todo
    <2>1. Continue(p, D)
      BY <1>5, <1>6
    <2> QED BY <1>1, <2>1, ContinueKeeps
  <1>8. /\ snapshot'[d] = [mark |-> "fresh", figure |-> E]
        /\ \A e \in Days \ {d} : snapshot'[e] = snapshot[e]
    BY <1>1, <1>5 DEF TypeInv
  <1>9. TypeInv'
    <2>1. snapshot' \in [Days -> Snapshots]
      BY <1>1, <1>5 DEF TypeInv, Snapshots
    <2>2. lapsed' \subseteq Days
      BY <1>1, <1>5 DEF TypeInv
    <2> QED BY <1>1, <1>5, <1>7, <2>1, <2>2 DEF TypeInv
  <1>10. DrainInv'
    <2>1. \A e \in Days : Exists(e) => Exists(e)'
      BY <1>8 DEF Exists
    <2> QED BY <1>1, <1>7, <2>1, DrainKept
  <1>11. OwedDays' = OwedDays /\ \A e \in Days : Evidence(e)' = Evidence(e)
    BY <1>5 DEF OwedDays, Affected, Evidence, Counts
  <1>12. StaleOrCurrent'
    <2> SUFFICES ASSUME NEW e \in Days,
                        snapshot'[e].mark = "fresh", e \notin lapsed', e \notin OwedDays'
                 PROVE  snapshot'[e].figure = Evidence(e)'
      BY DEF StaleOrCurrent
    <2>1. CASE e = d
      BY <1>5, <1>8, <1>11, <2>1
    <2>2. CASE e # d
      <3>1. snapshot'[e] = snapshot[e] /\ e \notin lapsed /\ e \notin OwedDays
        BY <1>5, <1>8, <1>11, <2>2
      <3> QED BY <1>1, <1>11, <3>1 DEF StaleOrCurrent
    <2> QED BY <2>1, <2>2
  <1> QED BY <1>1, <1>5, <1>9, <1>10, <1>12, SameTransactions, IInvFromParts

LEMMA KilledInv ==
  ASSUME IInv, NEW p \in Commands, Killed(p) PROVE IInv'
PROOF
  <1>1. TypeInv /\ DrainInv
    BY TypeOKParts DEF IInv
  <1>2. /\ kills < MaxKills /\ kills' = kills + 1
        /\ run' = [run EXCEPT ![p] = Idle]
        /\ UNCHANGED <<observation, snapshot, open, owed, lapsed>>
    BY DEF Killed
  <1>3. Idle \in Runs /\ Idle.todo = {}
    BY DEF Idle, Runs, Figures
  <1>4. run' \in [Commands -> Runs]
    BY <1>1, <1>2, <1>3 DEF TypeInv
  <1>5. \A q \in Commands : run'[q].todo \subseteq run[q].todo
    BY <1>1, <1>2, <1>3 DEF TypeInv
  <1>6. DrainInv'
    <2>1. \A d \in Days : Exists(d) => Exists(d)'
      BY <1>2 DEF Exists
    <2> QED BY <1>1, <1>5, <2>1, DrainKept
  <1>7. \A q \in Drains : /\ Cardinality(run'[q].todo) <= Limit
                          /\ \A d \in run'[q].todo : Exists(d)
    BY <1>2, <1>6 DEF DrainInv, Exists
  <1>8. kills' \in 0..MaxKills
    BY <1>1, <1>2, IndexAssumption DEF TypeInv, IndexAssumption
  <1> QED BY <1>2, <1>4, <1>7, <1>8, RunStepInv

-----------------------------------------------------------------------------
LEMMA NextInv == IInv /\ [Next]_vars => IInv'
PROOF
  <1> SUFFICES ASSUME IInv, [Next]_vars PROVE IInv'
    OBVIOUS
  <1>1. CASE UNCHANGED vars
    <2> USE <1>1 DEF vars
    <2>1. TypeInv /\ DrainInv /\ StaleOrCurrent /\ OpenInv
      BY TypeOKParts DEF IInv
    <2>2. TypeInv'
      BY <2>1 DEF TypeInv
    <2>3. DrainInv'
      BY <2>1 DEF DrainInv, Exists
    <2>4. StaleOrCurrent'
      BY <2>1 DEF StaleOrCurrent, OwedDays, Affected, Evidence, Counts
    <2> QED BY <2>1, <2>2, <2>3, <2>4, SameTransactions, IInvFromParts
  <1>2. ASSUME NEW o \in Observations, Touch(o) PROVE IInv'
    BY <1>2, BeginInv, CommitInv, RollBackInv, ChangeInv, DeleteInv, EditInv DEF Touch
  <1>3. ASSUME NEW o \in Observations, NEW d \in Days, MarkOwed(o, d) \/ MarkLost(o, d)
        PROVE  IInv'
    BY <1>3, MarkOwedInv, MarkLostInv
  <1>4. ASSUME NEW d \in Days, GraceEnds(d) PROVE IInv'
    BY <1>4, GraceEndsInv
  <1>5. ASSUME NEW p \in Commands, Start(p) PROVE IInv'
    BY <1>5, StartDrainInv, StartBuildInv DEF Start
  <1>6. ASSUME NEW p \in Commands, Step(p) PROVE IInv'
    BY <1>6, SkipInv, GatherInv, ThrowsInv, WriteInv DEF Step
  <1>7. ASSUME NEW p \in Commands, Killed(p) PROVE IInv'
    BY <1>7, KilledInv
  <1> QED BY <1>1, <1>2, <1>3, <1>4, <1>5, <1>6, <1>7 DEF Next

\* The inductive invariant holds in every reachable state: types, the drain's limit,
\* and every figure that is not stale accounted for, whatever the number of
\* observations, days and commands.
THEOREM IndexInvariance == Spec => []IInv
PROOF
  <1>1. Init => IInv
    BY InitInv
  <1>2. IInv /\ [Next]_vars => IInv'
    BY NextInv
  <1> QED BY <1>1, <1>2, PTL DEF Spec

\* Types hold, and a drain holds no more than drain_limit snapshots, all of which exist
\* (IndexStaleness::pending).
THEOREM IndexTypeCorrect == Spec => []TypeOK
PROOF
  <1>1. IInv => TypeOK
    BY DEF IInv
  <1> QED BY <1>1, IndexInvariance, PTL

\* A figure that is not marked stale is computed from the observations that count now,
\* or its mark is still to come, or the day lapsed: the marks of IndexStaleness reach
\* every snapshot a change can affect.
THEOREM FiguresAreAccountedFor == Spec => []StaleOrCurrent
PROOF
  <1>1. IInv => StaleOrCurrent
    BY DEF IInv
  <1> QED BY <1>1, IndexInvariance, PTL

-----------------------------------------------------------------------------
(* The life of a mark *)

\* A snapshot that exists stays; a mark that is due does not become younger; its
\* figure changes, and its mark goes, only with the write of a calculation of that
\* day, which leaves the figure current or the day on record as lapsed; and only a
\* build publishes a day that was not published.
MarkIsKept(d) ==
  /\ Exists(d) => Exists(d)'
  /\ snapshot[d].mark = "due" => snapshot'[d].mark # "stale"
  /\ (\/ snapshot'[d].figure # snapshot[d].figure
      \/ snapshot[d].mark # "fresh" /\ snapshot'[d].mark = "fresh")
     => /\ \E p \in Commands : run[p].day = d /\ snapshot'[d].figure = run[p].read
        /\ snapshot'[d].figure = Evidence(d)' \/ d \in lapsed'
  /\ (~Exists(d) /\ Exists(d)') => \E p \in Builds : run[p].day = d

\* Marks are promises: markRange() stamps what has no stamp, and the upsert of a
\* calculation is the only thing that takes a stamp away, whatever overlaps, throws
\* or is killed (IndexStaleness.php:51-62, 75-92, IndexCalculator.php:234-304).
MarksAreKept == [][\A d \in Days : MarkIsKept(d)]_vars

\* The day a command has read for is among those it holds.
HoldsItsDay == \A p \in Commands : run[p].day # Null => run[p].day \in run[p].todo

MInv == IInv /\ HoldsItsDay

\* A command that begins, goes on or is killed has read for no day.
LEMMA NothingRead ==
  ASSUME HoldsItsDay, TypeInv, NEW p \in Commands, NEW next, next.day = Null,
         run' = [run EXCEPT ![p] = next]
  PROVE  HoldsItsDay'
PROOF
  BY DEF HoldsItsDay, TypeInv

LEMMA ContinueReadsNothing ==
  ASSUME HoldsItsDay, TypeInv, NEW p \in Commands, NEW D, Continue(p, D)
  PROVE  HoldsItsDay'
PROOF
  <1> DEFINE next == IF D = {} THEN Idle
                     ELSE [kind |-> run[p].kind, todo |-> D, day |-> Null, read |-> {}]
  <1>1. run' = [run EXCEPT ![p] = next]
    BY DEF Continue
  <1>2. next.day = Null
    BY DEF Idle
  <1> HIDE DEF next
  <1> QED BY <1>1, <1>2, NothingRead

LEMMA HoldsNext == MInv /\ [Next]_vars => MInv'
PROOF
  <1> SUFFICES ASSUME MInv, [Next]_vars PROVE HoldsItsDay'
    BY NextInv DEF MInv
  <1> USE DEF MInv
  <1>1. TypeInv
    BY TypeOKParts DEF IInv
  <1>2. CASE run' = run
    BY <1>2 DEF HoldsItsDay
  <1>3. ASSUME NEW p \in Commands, Start(p) PROVE HoldsItsDay'
    <2>1. PICK kind, D : run' = [run EXCEPT ![p] = [Idle EXCEPT !.kind = kind, !.todo = D]]
      BY <1>3 DEF Start, StartDrain, StartBuild
    <2> DEFINE begun == [Idle EXCEPT !.kind = kind, !.todo = D]
    <2>2. begun.day = Null
      BY DEF Idle
    <2>3. run' = [run EXCEPT ![p] = begun]
      BY <2>1
    <2> HIDE DEF begun
    <2> QED BY <1>1, <2>2, <2>3, NothingRead
  <1>4. ASSUME NEW p \in Commands, NEW d \in Days, Gather(p, d) PROVE HoldsItsDay'
    <2>1. PICK E : E = Evidence(d)
      OBVIOUS
    <2> DEFINE next == [run[p] EXCEPT !.day = d, !.read = E]
    <2>2. run' = [run EXCEPT ![p] = next] /\ d \in run[p].todo
      BY <1>1, <1>4, <2>1 DEF Gather, IsNext, TypeInv
    <2>3. next.day = d /\ next.todo = run[p].todo
      BY <1>1 DEF TypeInv, Runs
    <2> HIDE DEF next
    <2> QED BY <1>1, <2>2, <2>3 DEF HoldsItsDay, TypeInv
  <1>5. ASSUME NEW p \in Commands, NEW d \in Days, Skip(p, d) \/ Throws(p, d)
        PROVE  HoldsItsDay'
    BY <1>1, <1>5, ContinueReadsNothing DEF Skip, Throws
  <1>6. ASSUME NEW p \in Commands, Write(p) PROVE HoldsItsDay'
    BY <1>1, <1>6, ContinueReadsNothing DEF Write
  <1>7. ASSUME NEW p \in Commands, Killed(p) PROVE HoldsItsDay'
    <2>1. run' = [run EXCEPT ![p] = Idle] /\ Idle.day = Null
      BY <1>7 DEF Killed, Idle
    <2> QED BY <1>1, <2>1, NothingRead
  <1>8. CASE \E o \in Observations : Touch(o)
    BY <1>2, <1>8 DEF Touch, Begin, Commit, RollBack, Change, Delete, Edit
  <1>9. CASE \E o \in Observations, d \in Days : MarkOwed(o, d) \/ MarkLost(o, d)
    BY <1>2, <1>9 DEF MarkOwed, MarkLost
  <1>10. CASE \E d \in Days : GraceEnds(d)
    BY <1>2, <1>10 DEF GraceEnds
  <1>11. CASE UNCHANGED vars
    BY <1>2, <1>11 DEF vars
  <1> QED BY <1>3, <1>4, <1>5, <1>6, <1>7, <1>8, <1>9, <1>10, <1>11 DEF Next, Step

LEMMA SameSnapshots ==
  ASSUME snapshot' = snapshot
  PROVE  \A d \in Days : MarkIsKept(d)
PROOF
  BY DEF MarkIsKept, Exists

\* Marking stamps what is fresh, and nothing else.
LEMMA MarkOnlyStamps ==
  ASSUME TypeInv, NEW D \in SUBSET Days, Mark(D)
  PROVE  \A d \in Days : MarkIsKept(d)
PROOF
  <1> SUFFICES ASSUME NEW d \in Days PROVE MarkIsKept(d)
    OBVIOUS
  <1>1. snapshot[d] \in Snapshots
    BY DEF TypeInv
  <1>2. \/ snapshot'[d] = snapshot[d]
        \/ snapshot[d].mark = "fresh" /\ snapshot'[d] = [snapshot[d] EXCEPT !.mark = "stale"]
    BY DEF Mark
  <1>3. snapshot'[d].figure = snapshot[d].figure
        /\ (\/ snapshot'[d].mark = snapshot[d].mark
            \/ snapshot[d].mark = "fresh" /\ snapshot'[d].mark = "stale")
    BY <1>1, <1>2 DEF Snapshots
  <1> QED BY <1>3 DEF MarkIsKept, Exists

\* A mark comes of age.
LEMMA GraceOnlyAges ==
  ASSUME TypeInv, NEW d \in Days, GraceEnds(d)
  PROVE  \A e \in Days : MarkIsKept(e)
PROOF
  <1> SUFFICES ASSUME NEW e \in Days PROVE MarkIsKept(e)
    OBVIOUS
  <1>1. snapshot[e] \in Snapshots
    BY DEF TypeInv
  <1>2. \/ snapshot'[e] = snapshot[e]
        \/ snapshot[e].mark = "stale" /\ snapshot'[e] = [snapshot[e] EXCEPT !.mark = "due"]
    BY DEF GraceEnds, TypeInv
  <1>3. snapshot'[e].figure = snapshot[e].figure
        /\ (\/ snapshot'[e].mark = snapshot[e].mark
            \/ snapshot[e].mark = "stale" /\ snapshot'[e].mark = "due")
    BY <1>1, <1>2 DEF Snapshots
  <1> QED BY <1>3 DEF MarkIsKept, Exists

\* A calculation writes its own day, and a drain only a day that is published.
LEMMA WriteIsACalculation ==
  ASSUME MInv, NEW p \in Commands, Write(p)
  PROVE  \A e \in Days : MarkIsKept(e)
PROOF
  <1>1. TypeInv /\ DrainInv /\ HoldsItsDay
    BY TypeOKParts DEF MInv, IInv
  <1>2. run[p].day \in Days /\ run[p].day # Null
    BY <1>1 DEF Write, TypeInv, Runs
  <1>3. PICK d \in Days : d = run[p].day
    BY <1>2
  <1>4. /\ snapshot' = [snapshot EXCEPT ![d] = [mark |-> "fresh", figure |-> run[p].read]]
        /\ lapsed' = IF run[p].read = Evidence(d) THEN lapsed \ {d} ELSE lapsed \union {d}
        /\ observation' = observation
    BY <1>3 DEF Write
  <1>5. ASSUME NEW e \in Days \ {d} PROVE MarkIsKept(e)
    <2>1. snapshot'[e] = snapshot[e]
      BY <1>1, <1>4 DEF TypeInv
    <2> QED BY <2>1 DEF MarkIsKept, Exists
  <1>6. MarkIsKept(d)
    <2>1. snapshot'[d].mark = "fresh" /\ snapshot'[d].figure = run[p].read
      BY <1>1, <1>4 DEF TypeInv
    <2>2. Evidence(d)' = Evidence(d)
      BY <1>4 DEF Evidence, Counts
    <2>3. snapshot'[d].figure = Evidence(d)' \/ d \in lapsed'
      BY <1>4, <2>1, <2>2
    <2>4. p \in Drains => Exists(d)
      BY <1>1, <1>2, <1>3 DEF HoldsItsDay, DrainInv
    <2>5. p \in Builds \/ p \in Drains
      BY DEF Commands
    <2> QED BY <1>3, <2>1, <2>3, <2>4, <2>5 DEF MarkIsKept, Exists
  <1> QED BY <1>5, <1>6

LEMMA MarksStep == MInv /\ [Next]_vars => \A d \in Days : MarkIsKept(d)
PROOF
  <1> SUFFICES ASSUME MInv, [Next]_vars PROVE \A d \in Days : MarkIsKept(d)
    OBVIOUS
  <1>1. TypeInv
    BY TypeOKParts DEF MInv, IInv
  <1>2. \A d \in Days : Affected(d) \subseteq Days
    BY DayFacts
  <1>3. ASSUME NEW o \in Observations, Touch(o) PROVE \A d \in Days : MarkIsKept(d)
    <2>1. open[o].marks \in SUBSET Days
      BY <1>1 DEF TypeInv, Transactions
    <2>2. Mark(open[o].marks) \/ snapshot' = snapshot
      BY <1>3 DEF Touch, Begin, Commit, RollBack, Change, Delete, Edit
    <2> QED BY <1>1, <2>1, <2>2, MarkOnlyStamps, SameSnapshots
  <1>4. ASSUME NEW o \in Observations, NEW d \in Days, MarkOwed(o, d) \/ MarkLost(o, d)
        PROVE  \A e \in Days : MarkIsKept(e)
    <2>1. Mark(Affected(d)) \/ snapshot' = snapshot
      BY <1>4 DEF MarkOwed, MarkLost
    <2> QED BY <1>1, <1>2, <2>1, MarkOnlyStamps, SameSnapshots
  <1>5. ASSUME NEW d \in Days, GraceEnds(d) PROVE \A e \in Days : MarkIsKept(e)
    BY <1>1, <1>5, GraceOnlyAges
  <1>6. ASSUME NEW p \in Commands, Write(p) PROVE \A d \in Days : MarkIsKept(d)
    BY <1>6, WriteIsACalculation
  <1>7. ASSUME NEW p \in Commands, Start(p) \/ Killed(p) PROVE \A d \in Days : MarkIsKept(d)
    BY <1>7, SameSnapshots DEF Start, StartDrain, StartBuild, Killed
  <1>8. ASSUME NEW p \in Commands, NEW e \in Days, Skip(p, e) \/ Gather(p, e) \/ Throws(p, e)
        PROVE  \A d \in Days : MarkIsKept(d)
    BY <1>8, SameSnapshots DEF Skip, Gather, Throws
  <1>9. CASE UNCHANGED vars
    BY <1>9, SameSnapshots DEF vars
  <1> QED BY <1>3, <1>4, <1>5, <1>6, <1>7, <1>8, <1>9 DEF Next, Step

\* No snapshot vanishes, loses its mark without a calculation of its day, or has its
\* grace window begin again; and a drain republishes, it never publishes.
THEOREM MarksArePromises == Spec => MarksAreKept
PROOF
  <1>1. Init => MInv
    BY InitInv DEF MInv, Init, HoldsItsDay, Idle
  <1>2. MInv /\ [Next]_vars => MInv'
    BY HoldsNext
  <1>3. MInv /\ [Next]_vars => [\A d \in Days : MarkIsKept(d)]_vars
    BY MarksStep
  <1> QED BY <1>1, <1>2, <1>3, PTL DEF Spec, MarksAreKept
=============================================================================
