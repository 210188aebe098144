--------------------------- MODULE DashboardProofs ---------------------------
(***************************************************************************)
(* Proofs about Dashboard, for any page and any durations.                 *)
(***************************************************************************)
EXTENDS Dashboard, TLAPS

\* A figure without its timer is right, and a frame it still waits for comes too
\* late to show anything else.
CounterInv ==
  \A f \in Figures :
    f \notin timer => /\ shown[f] = Target[f]
                      /\ f \in frame => age[f] >= End

-----------------------------------------------------------------------------
(* Types *)

LEMMA EndIsNat == End \in Nat /\ Duration <= End
  BY DashboardAssumption DEF DashboardAssumption, End

LEMMA WholeIsPositive ==
  ASSUME NEW d \in Nat \ {0}
  PROVE  d * d * d \in Nat \ {0}
<1>1. d * d \in Nat \ {0}
  OBVIOUS
<1> DEFINE e == d * d
<1>2. e \in Nat \ {0}
  BY <1>1
<1> HIDE DEF e
<1>3. e * d \in Nat \ {0}
  BY <1>2
<1> QED BY <1>3 DEF e

LEMMA RoundedIsInt ==
  ASSUME NEW f \in Figures, NEW n \in Int
  PROVE  Rounded(f, n) \in Int
<1> DEFINE whole == Duration * Duration * Duration
           left == (Duration - n) * (Duration - n) * (Duration - n)
           above == 2 * Target[f] * (whole - left) + whole
<1>1. whole \in Nat \ {0}
  BY WholeIsPositive, DashboardAssumption DEF DashboardAssumption
<1>2. left \in Int
  <2>1. Duration - n \in Int
    BY DashboardAssumption DEF DashboardAssumption
  <2> DEFINE e == Duration - n
  <2>2. e \in Int
    BY <2>1
  <2> HIDE DEF e
  <2>3. e * e \in Int
    BY <2>2
  <2>4. e * e * e \in Int
    BY <2>2, <2>3
  <2> QED BY <2>4 DEF e
<1>3. Target[f] \in Nat
  BY DashboardAssumption DEF DashboardAssumption
<1>4. Rounded(f, n) = above \div (2 * whole)
  BY DEF Rounded
<1> HIDE DEF whole, left
<1>5. above \in Int
  <2>1. whole - left \in Int
    BY <1>1, <1>2
  <2>2. 2 * Target[f] \in Int
    BY <1>3
  <2>3. 2 * Target[f] * (whole - left) \in Int
    BY <2>1, <2>2
  <2> QED BY <2>3, <1>1
<1>6. 2 * whole \in Nat \ {0}
  BY <1>1
<1> HIDE DEF above
<1> QED BY <1>4, <1>5, <1>6

LEMMA RevealTyped ==
  ASSUME TypeOK, NEW S, S \subseteq Sections, Reveal(S)
  PROVE  /\ revealed' \subseteq Sections
         /\ age' \in [Figures -> Waiting..(End + Lag)]
         /\ frame' \subseteq Figures /\ timer' \subseteq Figures
         /\ shown' \in [Figures -> Int]
  BY EndIsNat, DashboardAssumption DEF TypeOK, Reveal, Waiting, DashboardAssumption

LEMMA InitTyped == Init => TypeOK
<1> SUFFICES ASSUME Init PROVE TypeOK
  OBVIOUS
<1>1. shown \in [Figures -> Int]
  BY DashboardAssumption DEF Init, DashboardAssumption
<1>2. age \in [Figures -> Waiting..(End + Lag)]
  BY EndIsNat, DashboardAssumption DEF Init, Waiting, DashboardAssumption
<1>3. renders \in [Charts -> 0..2] /\ box \in [Charts -> {"text", "empty", "chart"}]
  BY DEF Init
<1>4. library \in BOOLEAN
  BY Zenon DEF Init
<1>5. revealed \subseteq Sections /\ frame \subseteq Figures /\ timer \subseteq Figures
      /\ watched \subseteq Charts
  BY DEF Init
<1> HIDE DEF Init
<1> QED BY <1>1, <1>2, <1>3, <1>4, <1>5 DEF TypeOK

LEMMA NextTyped ==
  ASSUME TypeOK, [Next]_vars
  PROVE  TypeOK'
<1> USE DEF TypeOK, figureVars, chartVars
<1>1. CASE UNCHANGED vars
  BY <1>1 DEF vars
<1>2. CASE \E f \in Figures : Settle(f)
  <2> PICK f \in Figures : Settle(f)
    BY <1>2
  <2>1. Target[f] \in Int
    BY DashboardAssumption DEF DashboardAssumption
  <2>2. shown' \in [Figures -> Int]
    BY <2>1 DEF Settle
  <2> QED BY <2>2 DEF Settle
<1>3. CASE \E f \in Figures, now \in (-Lag)..(End + Lag) : Step(f, now)
  <2> PICK f \in Figures, now \in (-Lag)..(End + Lag) : Step(f, now)
    BY <1>3
  <2>1. now \in Int
    BY EndIsNat, DashboardAssumption DEF DashboardAssumption
  <2>2. Rounded(f, now) \in Int /\ Target[f] \in Int
    BY <2>1, RoundedIsInt, DashboardAssumption DEF DashboardAssumption
  <2>3. shown' \in [Figures -> Int]
    BY <2>2 DEF Step
  <2> QED BY <2>3 DEF Step
<1>4. CASE Tick
  <2>1. age' \in [Figures -> Waiting..(End + Lag)]
    BY <1>4, EndIsNat, DashboardAssumption DEF Tick, Begun, Waiting, DashboardAssumption
  <2> QED BY <1>4, <2>1 DEF Tick
<1>5. CASE \E s \in Sections : Intersects(s)
  BY <1>5, RevealTyped DEF Intersects
<1>6. CASE Backstop
  BY <1>6, RevealTyped DEF Backstop
<1>7. CASE \E c \in Charts : \/ \E n \in 1..2 : Near(c, n)
                             \/ ImportFails(c) \/ Draw(c)
  BY <1>7 DEF Near, ImportFails, Draw
<1>8. CASE Imported
  BY <1>8 DEF Imported
<1> QED BY <1>1, <1>2, <1>3, <1>4, <1>5, <1>6, <1>7, <1>8 DEF Next

\* Every variable keeps its type, however frames, timers and imports come
\* (dashboard.js:172-338).
THEOREM DashboardTypeCorrect == Spec => []TypeOK
<1> QED BY InitTyped, NextTyped, PTL DEF Spec

-----------------------------------------------------------------------------
(* Counters *)

LEMMA RevealCounts ==
  ASSUME TypeOK, CounterInv, NEW S, Reveal(S)
  PROVE  CounterInv'
<1> DEFINE starting == {f \in Figures : SectionOf[f] \in S \ revealed}
<1> SUFFICES ASSUME NEW f \in Figures, f \notin timer'
             PROVE  shown'[f] = Target[f] /\ (f \in frame' => age'[f] >= End)
  BY DEF CounterInv
<1>1. f \notin starting /\ f \notin timer
  BY DEF Reveal
<1>2. age'[f] = age[f] /\ shown'[f] = shown[f] /\ (f \in frame' => f \in frame)
  BY <1>1 DEF Reveal
<1> QED BY <1>1, <1>2 DEF CounterInv

LEMMA StepCounts ==
  ASSUME TypeOK, CounterInv, NEW f \in Figures, NEW now \in Int, Step(f, now)
  PROVE  CounterInv'
<1> SUFFICES ASSUME NEW g \in Figures, g \notin timer'
             PROVE  shown'[g] = Target[g] /\ (g \in frame' => age'[g] >= End)
  BY DEF CounterInv
<1>a. age' = age /\ age[f] \in Int /\ End \in Nat
  BY EndIsNat, DashboardAssumption DEF Step, TypeOK, Waiting, DashboardAssumption
<1>1. CASE g # f
  BY <1>1, <1>a DEF Step, CounterInv, TypeOK
<1>2. CASE g = f /\ now < Duration
  <2>1. f \notin timer /\ f \in frame
    BY <1>2 DEF Step
  <2>2. age[f] >= End /\ age[f] <= now + Lag
    BY <2>1 DEF CounterInv, Step
  <2>3. now >= Duration
    BY <2>2, <1>a, DashboardAssumption, LagAssumption
    DEF DashboardAssumption, LagAssumption, End
  <2> QED BY <2>3, <1>2, DashboardAssumption DEF DashboardAssumption
<1>3. CASE g = f /\ ~(now < Duration)
  BY <1>3 DEF Step, TypeOK
<1> QED BY <1>1, <1>2, <1>3

LEMMA InitCounts == Init => CounterInv
  BY DEF Init, CounterInv

LEMMA NextCounts ==
  ASSUME TypeOK, CounterInv, [Next]_vars
  PROVE  CounterInv'
<1>1. CASE UNCHANGED vars
  BY <1>1 DEF vars, CounterInv
<1>2. CASE \E f \in Figures : Settle(f)
  BY <1>2 DEF Settle, CounterInv, TypeOK
<1>3. CASE \E f \in Figures, now \in (-Lag)..(End + Lag) : Step(f, now)
  <2>1. \A now \in (-Lag)..(End + Lag) : now \in Int
    BY EndIsNat, DashboardAssumption DEF DashboardAssumption
  <2> QED BY <1>3, <2>1, StepCounts
<1>4. CASE Tick
  <2>1. \A f \in Figures : age[f] \in Int /\ age'[f] >= age[f]
    BY <1>4, EndIsNat, DashboardAssumption DEF Tick, TypeOK, Waiting, DashboardAssumption
  <2>2. \A f \in Figures : age'[f] \in Int
    BY <1>4, <2>1 DEF Tick
  <2> QED BY <1>4, <2>1, <2>2, EndIsNat DEF Tick, CounterInv
<1>5. CASE \E s \in Sections : Intersects(s)
  BY <1>5, RevealCounts DEF Intersects
<1>6. CASE Backstop
  BY <1>6, RevealCounts DEF Backstop
<1>7. CASE \E c \in Charts : \/ \E n \in 1..2 : Near(c, n)
                             \/ ImportFails(c) \/ Draw(c)
  BY <1>7 DEF Near, ImportFails, Draw, figureVars, CounterInv
<1>8. CASE Imported
  BY <1>8 DEF Imported, figureVars, CounterInv
<1> QED BY <1>1, <1>2, <1>3, <1>4, <1>5, <1>6, <1>7, <1>8 DEF Next

\* No figure is left wrong (dashboard.js:256-263): as long as a frame is not older
\* than the margin of the settling timer, a figure without its timer is right.
THEOREM CountersComeRight == Spec => []NoStuckCounter
<1>1. CounterInv => NoStuckCounter
  BY DEF CounterInv, NoStuckCounter
<1> QED BY <1>1, InitCounts, NextCounts, DashboardTypeCorrect, PTL DEF Spec

-----------------------------------------------------------------------------
(* What a figure shows meanwhile *)

\* No figure shows more than the markup says, whatever frames come; and the figures
\* of a section not yet revealed show what the markup says.
NothingInflated ==
  \A f \in Figures : /\ shown[f] <= Target[f]
                     /\ SectionOf[f] \notin revealed => shown[f] = Target[f]

\* Only the figures of revealed sections move.
Revealed == \A f \in Figures : f \in frame \union timer \/ Begun(f) => SectionOf[f] \in revealed

\* An animation begins once and does not begin again, whoever reveals its section
\* (dashboard.js:286-292).
BeginsOnce == \A f \in Figures : Begun(f) => age'[f] >= age[f]

\* What is below the next multiple has a quotient no larger.
LEMMA QuotientBelow ==
  ASSUME NEW a \in Int, NEW b \in Nat \ {0}, NEW m \in Int, a < b * (m + 1)
  PROVE  a \div b <= m
<1> DEFINE q == a \div b
<1>1. q \in Int /\ b * q <= a
  BY SMT
<1> HIDE DEF q
<1>2. CASE q <= m
  BY <1>2 DEF q
<1>3. CASE q >= m + 1
  <2> DEFINE d == q - (m + 1)
  <2>1. d \in Nat /\ q = (m + 1) + d
    BY <1>1, <1>3
  <2> HIDE DEF d
  <2>2. b * q = b * (m + 1) + b * d
    BY <2>1
  <2>3. b * d \in Nat /\ b * (m + 1) \in Int /\ b * q \in Int
    BY <1>1, <2>1
  <2> QED BY <1>1, <2>2, <2>3
<1> QED BY <1>1, <1>2, <1>3

\* Before the end of the animation the rounded figure is at most its target.
LEMMA RoundedIsBelow ==
  ASSUME NEW f \in Figures, NEW n \in Int, n < Duration
  PROVE  Rounded(f, n) <= Target[f]
<1> DEFINE T == Target[f]
           whole == Duration * Duration * Duration
           left == (Duration - n) * (Duration - n) * (Duration - n)
<1>1. whole \in Nat \ {0} /\ T \in Nat
  BY WholeIsPositive, DashboardAssumption DEF DashboardAssumption
<1>2. left \in Nat \ {0}
  <2> DEFINE e == Duration - n
  <2>1. e \in Nat \ {0}
    BY DashboardAssumption DEF DashboardAssumption
  <2> HIDE DEF e
  <2>2. e * e * e \in Nat \ {0}
    BY <2>1, WholeIsPositive
  <2> QED BY <2>2 DEF e
<1>3. Rounded(f, n) = (2 * T * (whole - left) + whole) \div (2 * whole)
  BY DEF Rounded
<1> HIDE DEF T, whole, left
<1>4. 2 * T * (whole - left) = 2 * (T * whole) - 2 * (T * left)
  <2>1. T * whole \in Nat /\ T * left \in Nat
    BY <1>1, <1>2
  <2> QED BY <1>1, <1>2, <2>1
<1>5. (2 * whole) * (T + 1) = 2 * (T * whole) + 2 * whole
  BY <1>1
<1>6. T * whole \in Nat /\ T * left \in Nat
  BY <1>1, <1>2
<1>7. 2 * T * (whole - left) + whole < (2 * whole) * (T + 1)
  <2> DEFINE u == T * whole
             v == T * left
             x == 2 * T * (whole - left)
             y == (2 * whole) * (T + 1)
  <2>1. x = 2 * u - 2 * v /\ y = 2 * u + 2 * whole /\ u \in Nat /\ v \in Nat
    BY <1>4, <1>5, <1>6
  <2> HIDE DEF u, v, x, y
  <2>2. x + whole < y
    BY <1>1, <2>1
  <2> QED BY <2>2 DEF x, y
<1>8. 2 * T * (whole - left) + whole \in Int /\ 2 * whole \in Nat \ {0}
  BY <1>1, <1>4, <1>6
<1> DEFINE a == 2 * T * (whole - left) + whole
           b == 2 * whole
<1>9. a \in Int /\ b \in Nat \ {0} /\ T \in Int /\ a < b * (T + 1)
  BY <1>1, <1>7, <1>8
<1>10. Rounded(f, n) = a \div b
  BY <1>3
<1> HIDE DEF a, b
<1> QED BY <1>9, <1>10, QuotientBelow DEF T

FiguresInv == NothingInflated /\ Revealed

LEMMA RevealFigures ==
  ASSUME TypeOK, FiguresInv, NEW S, Reveal(S)
  PROVE  FiguresInv'
<1>1. \A f \in Figures : shown'[f] = shown[f]
  BY DEF Reveal
<1>2. revealed \subseteq revealed'
  BY DEF Reveal
<1>3. \A f \in Figures : \/ SectionOf[f] \in revealed'
                         \/ /\ age'[f] = age[f] /\ (f \in frame' => f \in frame)
                            /\ (f \in timer' => f \in timer)
  BY DEF Reveal
<1> QED BY <1>1, <1>2, <1>3 DEF FiguresInv, NothingInflated, Revealed, Begun

\* One figure of a revealed section shows another number, and asks for nothing.
LEMMA FigureMoves ==
  ASSUME TypeOK, FiguresInv, NEW f \in Figures, f \in frame \union timer,
         NEW n \in Int, n <= Target[f], shown' = [shown EXCEPT ![f] = n],
         frame' \subseteq frame, timer' \subseteq timer, UNCHANGED <<revealed, age>>
  PROVE  FiguresInv'
<1>1. SectionOf[f] \in revealed
  BY DEF FiguresInv, Revealed
<1>2. \A g \in Figures : shown'[g] = IF g = f THEN n ELSE shown[g]
  BY DEF TypeOK
<1>3. NothingInflated'
  BY <1>1, <1>2 DEF FiguresInv, NothingInflated
<1>4. Revealed'
  BY DEF FiguresInv, Revealed, Begun
<1> QED BY <1>3, <1>4 DEF FiguresInv

LEMMA NextFigures ==
  ASSUME TypeOK, FiguresInv, [Next]_vars
  PROVE  FiguresInv'
<1>t. \A f \in Figures : Target[f] \in Int /\ Target[f] <= Target[f]
  BY DashboardAssumption DEF DashboardAssumption
<1>1. CASE UNCHANGED vars
  BY <1>1 DEF vars, FiguresInv, NothingInflated, Revealed, Begun
<1>2. CASE \E f \in Figures : Settle(f)
  <2> PICK f \in Figures : Settle(f)
    BY <1>2
  <2> DEFINE n == Target[f]
  <2>1. n \in Int /\ n <= Target[f] /\ shown' = [shown EXCEPT ![f] = n]
    BY <1>t DEF Settle
  <2>2. f \in frame \union timer /\ frame' \subseteq frame /\ timer' \subseteq timer
        /\ UNCHANGED <<revealed, age>>
    BY DEF Settle
  <2> HIDE DEF n
  <2> QED BY <2>1, <2>2, FigureMoves
<1>3. CASE \E f \in Figures, now \in (-Lag)..(End + Lag) : Step(f, now)
  <2> PICK f \in Figures, now \in (-Lag)..(End + Lag) : Step(f, now)
    BY <1>3
  <2> DEFINE n == IF now < Duration THEN Rounded(f, now) ELSE Target[f]
  <2>1. now \in Int
    BY EndIsNat, DashboardAssumption DEF DashboardAssumption
  <2>2. n \in Int /\ n <= Target[f]
    BY <2>1, <1>t, RoundedIsInt, RoundedIsBelow
  <2>3. shown' = [shown EXCEPT ![f] = n]
    BY DEF Step
  <2>4. f \in frame \union timer /\ frame' \subseteq frame /\ timer' \subseteq timer
        /\ UNCHANGED <<revealed, age>>
    BY DEF Step
  <2> HIDE DEF n
  <2> QED BY <2>2, <2>3, <2>4, FigureMoves
<1>4. CASE Tick
  <2>1. \A f \in Figures : ~Begun(f) => age'[f] = age[f]
    BY <1>4 DEF Tick
  <2> QED BY <1>4, <2>1 DEF Tick, FiguresInv, NothingInflated, Revealed, Begun
<1>5. CASE \E s \in Sections : Intersects(s)
  BY <1>5, RevealFigures DEF Intersects
<1>6. CASE Backstop
  BY <1>6, RevealFigures DEF Backstop
<1>7. CASE (\E c \in Charts : \/ \E n \in 1..2 : Near(c, n)
                              \/ ImportFails(c) \/ Draw(c)) \/ Imported
  BY <1>7 DEF Near, ImportFails, Draw, Imported, figureVars, FiguresInv, NothingInflated,
              Revealed, Begun
<1> QED BY <1>1, <1>2, <1>3, <1>4, <1>5, <1>6, <1>7 DEF Next

LEMMA InitFigures == Init => FiguresInv
<1>1. \A f \in Figures : Target[f] \in Int
  BY DashboardAssumption DEF DashboardAssumption
<1> QED BY <1>1 DEF Init, FiguresInv, NothingInflated, Revealed, Begun

\* The animation never claims more than the markup, not for any rounding of any
\* target and any frame, however late or early (dashboard.js:246-284); and a
\* section shows its figures untouched until it is revealed.
THEOREM FiguresAreNeverInflated == Spec => []NothingInflated
<1>1. FiguresInv => NothingInflated
  BY DEF FiguresInv
<1> QED BY <1>1, InitFigures, NextFigures, DashboardTypeCorrect, PTL DEF Spec

\* A section that the observer reports, that is on screen from the start, or that
\* the 2.5 s timer reveals counts up once (dashboard.js:286-338).
THEOREM FiguresCountUpOnce == Spec => [][BeginsOnce]_vars
<1>1. ASSUME TypeOK, FiguresInv, [Next]_vars
      PROVE  [BeginsOnce]_vars
  <2>1. \A f \in Figures : age[f] \in Int
    BY <1>1, EndIsNat, DashboardAssumption DEF TypeOK, Waiting, DashboardAssumption
  <2>2. ASSUME NEW S, Reveal(S)
        PROVE  BeginsOnce
    <3> SUFFICES ASSUME NEW f \in Figures, Begun(f)
                 PROVE  age'[f] >= age[f]
      BY DEF BeginsOnce
    <3>1. SectionOf[f] \in revealed
      BY <1>1 DEF FiguresInv, Revealed
    <3>2. age'[f] = age[f]
      BY <2>2, <3>1 DEF Reveal
    <3> QED BY <2>1, <3>2
  <2>3. Tick => BeginsOnce
    BY <2>1 DEF Tick, BeginsOnce
  <2>4. age' = age => BeginsOnce
    BY <2>1 DEF BeginsOnce
  <2>5. \/ age' = age \/ Tick
        \/ \E s \in Sections : Reveal({s})
        \/ Reveal(Sections)
    BY <1>1 DEF Next, vars, Settle, Step, Intersects, Backstop, Near, ImportFails, Draw,
                Imported, figureVars
  <2> QED BY <2>2, <2>3, <2>4, <2>5
<1> QED
  BY <1>1, InitFigures, NextFigures, DashboardTypeCorrect, PTL DEF Spec
=============================================================================
