------------------------------ MODULE Dashboard ------------------------------
(***************************************************************************)
(* What dashboard.js does to a page that is complete without it: it hides  *)
(* the sections and reveals them, counts figures up to the value already   *)
(* in the markup, and replaces the text of a chart by the chart.           *)
(*                                                                         *)
(* Frames, observers and imports come when the browser pleases, or never;  *)
(* timers come late, but they come.                                        *)
(***************************************************************************)
EXTENDS Integers

CONSTANTS
  Sections,   \* .dash__headline, .dash__panel, .dash__rail
  Figures,    \* the [data-count] elements
  SectionOf,  \* the section each figure is in
  Target,     \* data-count
  Charts,     \* chart-national, chart-fx
  Duration,   \* of the animation, in ticks of the clock
  Grace,      \* what the settling timer adds to it
  Lag         \* how far the timestamp of a frame may be behind the clock

ASSUME DashboardAssumption ==
  /\ SectionOf \in [Figures -> Sections]
  /\ Target \in [Figures -> Nat]
  /\ Duration \in Nat \ {0} /\ Grace \in Nat /\ Lag \in Nat

\* A frame is not older than the margin of the timer, 250 ms.
ASSUME LagAssumption == Lag <= Grace

VARIABLES
  revealed,  \* sections with is-revealed
  age,       \* ticks since the animation of a figure began
  frame,     \* figures that have asked for a frame
  timer,     \* figures whose settling timer is set
  shown,     \* the number a figure shows
  watched,   \* charts whose observer is connected
  renders,   \* calls of render() that wait for the chart library
  library,   \* the library has been imported
  box        \* what a chart element holds

figureVars == <<age, frame, timer, shown>>
chartVars == <<watched, renders, library, box>>
vars == <<revealed, age, frame, timer, shown, watched, renders, library, box>>

-----------------------------------------------------------------------------
(* Counting up *)

End == Duration + Grace
Waiting == -1
Begun(f) == age[f] # Waiting

\* Math.round(target * eased) with eased = 1 - (1 - t)^3 and t = n / Duration.
Rounded(f, n) ==
  LET whole == Duration * Duration * Duration
      left == (Duration - n) * (Duration - n) * (Duration - n)
  IN (2 * Target[f] * (whole - left) + whole) \div (2 * whole)

\* Mutant of Step: the timer is stopped by the first frame.
StepStopsTimer(f, now) ==
  /\ f \in frame
  /\ now <= age[f] /\ age[f] <= now + Lag
  /\ timer' = timer \ {f}
  /\ IF now < Duration
       THEN shown' = [shown EXCEPT ![f] = Rounded(f, now)] /\ UNCHANGED frame
       ELSE shown' = [shown EXCEPT ![f] = Target[f]] /\ frame' = frame \ {f}
  /\ UNCHANGED <<revealed, age>> /\ UNCHANGED chartVars

\* step(): a frame with the timestamp now, which the last one ends.
Step(f, now) ==
  /\ f \in frame
  /\ now <= age[f] /\ age[f] <= now + Lag
  /\ IF now < Duration
       THEN shown' = [shown EXCEPT ![f] = Rounded(f, now)] /\ UNCHANGED <<frame, timer>>
       ELSE /\ shown' = [shown EXCEPT ![f] = Target[f]]
            /\ frame' = frame \ {f} /\ timer' = timer \ {f}
  /\ UNCHANGED <<revealed, age>> /\ UNCHANGED chartVars

\* The settling timer.
Settle(f) ==
  /\ f \in timer /\ age[f] >= End
  /\ timer' = timer \ {f}
  /\ shown' = [shown EXCEPT ![f] = Target[f]]
  /\ UNCHANGED <<revealed, age, frame>> /\ UNCHANGED chartVars

\* Beyond End + Lag the age of a figure tells nothing more.
Tick ==
  /\ age' = [f \in Figures |-> IF Begun(f) /\ age[f] < End + Lag THEN age[f] + 1 ELSE age[f]]
  /\ UNCHANGED <<revealed, frame, timer, shown>> /\ UNCHANGED chartVars

-----------------------------------------------------------------------------
(* Revealing *)

\* reveal() of the sections S: each of them once, and countUp() of its figures.
Reveal(S) ==
  LET starting == {f \in Figures : SectionOf[f] \in S \ revealed}
  IN /\ revealed' = revealed \union S
     /\ age' = [f \in Figures |-> IF f \in starting THEN 0 ELSE age[f]]
     /\ frame' = frame \union starting /\ timer' = timer \union starting
     /\ UNCHANGED shown

\* The observer reports a section, or it is on screen from the start.
Intersects(s) ==
  /\ s \notin revealed /\ Reveal({s})
  /\ UNCHANGED chartVars

\* Mutant of Backstop: only what the observer has seen once is revealed.
BackstopSeen ==
  /\ revealed # {} /\ revealed # Sections
  /\ Reveal(revealed)
  /\ UNCHANGED chartVars

\* The 2.5 s timer, for whatever nothing has revealed by then.
Backstop ==
  /\ revealed # Sections /\ Reveal(Sections)
  /\ UNCHANGED chartVars

-----------------------------------------------------------------------------
(* Charts *)

\* Mutant of Near: the observer stays connected.
NearAgain(c, n) ==
  /\ renders' = [renders EXCEPT ![c] = @ + n]
  /\ UNCHANGED <<revealed, watched, library, box>> /\ UNCHANGED figureVars

\* A chart nears the viewport: render() once for each entry of this callback that
\* intersects; the observer is disconnected.
Near(c, n) ==
  /\ c \in watched /\ watched' = watched \ {c}
  /\ renders' = [renders EXCEPT ![c] = n]
  /\ UNCHANGED <<revealed, library, box>> /\ UNCHANGED figureVars

\* import() succeeds.
Imported ==
  /\ ~library /\ \E c \in Charts : renders[c] > 0
  /\ library' = TRUE
  /\ UNCHANGED <<revealed, watched, renders, box>> /\ UNCHANGED figureVars

\* It fails: the text stays, and nothing tries again.
ImportFails(c) ==
  /\ ~library /\ renders[c] > 0
  /\ renders' = [renders EXCEPT ![c] = 0]
  /\ UNCHANGED <<revealed, watched, library, box>> /\ UNCHANGED figureVars

\* The text is removed first.  Then the library draws; or init() or setOption() throws,
\* and the catch puts no text back, whatever its comment says; or it draws into what a
\* second render() of the same element has just emptied.
Draw(c) ==
  /\ library /\ renders[c] > 0
  /\ renders' = [renders EXCEPT ![c] = @ - 1]
  /\ \E x \in {"chart", "empty"} : box' = [box EXCEPT ![c] = x]
  /\ UNCHANGED <<revealed, watched, library>> /\ UNCHANGED figureVars

-----------------------------------------------------------------------------
Init ==
  /\ revealed = {}
  /\ age = [f \in Figures |-> Waiting]
  /\ frame = {} /\ timer = {}
  /\ shown = Target
  /\ watched = Charts /\ renders = [c \in Charts |-> 0] /\ library = FALSE
  /\ box = [c \in Charts |-> "text"]

Next ==
  \/ \E f \in Figures : Settle(f) \/ \E now \in (-Lag)..(End + Lag) : Step(f, now)
  \/ Tick
  \/ \E s \in Sections : Intersects(s)
  \/ Backstop
  \/ \E c \in Charts : \/ \E n \in 1..2 : Near(c, n)
                       \/ ImportFails(c) \/ Draw(c)
  \/ Imported

Spec == Init /\ [][Next]_vars

\* Timers and nothing else.
FairSpec == /\ Spec
            /\ WF_vars(Tick) /\ WF_vars(Backstop)
            /\ \A f \in Figures : WF_vars(Settle(f))

-----------------------------------------------------------------------------
TypeOK ==
  /\ revealed \subseteq Sections
  /\ age \in [Figures -> Waiting..(End + Lag)]
  /\ frame \subseteq Figures /\ timer \subseteq Figures
  /\ shown \in [Figures -> Int]
  /\ watched \subseteq Charts /\ renders \in [Charts -> 0..2] /\ library \in BOOLEAN
  /\ box \in [Charts -> {"text", "empty", "chart"}]

\* "A stuck counter is a wrong number, not a missing animation"
\* (dashboard.js:256-263): a figure that no timer will put right is right, even
\* when frames arrive out of time, and stays right whatever frame follows.
NoStuckCounter == \A f \in Figures : f \notin timer => shown[f] = Target[f]

\* Timers alone make the page whole: every section is revealed and every figure
\* is the one in the markup (dashboard.js:313-338), if no frame and no
\* observer ever comes.
PageCompletes == <>[](revealed = Sections /\ shown = Target)
=============================================================================
