----------------------------- MODULE PriceInbox -----------------------------
(***************************************************************************)
(* What reporting a price promises, with no tab, network or request in     *)
(* sight: a report the phone has accepted is counted at most once for as   *)
(* long as the platform remembers whose it is, and leaves the phone only   *)
(* after it has been counted.  ReporterOutbox implements this.             *)
(***************************************************************************)
EXTENDS Naturals

CONSTANT Reports      \* what a reporter saves on one phone

VARIABLES
  saved,              \* the phone has said "saved"
  cleared,            \* saved, and no longer on the phone
  counted,            \* how often the platform counts the report
  remembered          \* reports the platform would recognise if sent again

inboxVars == <<saved, cleared, counted, remembered>>

InboxInit ==
  /\ saved = {}
  /\ cleared = {}
  /\ counted = [r \in Reports |-> 0]
  /\ remembered = {}

Save(r) ==
  /\ r \notin saved
  /\ saved' = saved \union {r}
  /\ UNCHANGED <<cleared, counted, remembered>>

Count(r) ==
  /\ r \in saved
  /\ r \notin remembered
  /\ counted' = [counted EXCEPT ![r] = @ + 1]
  /\ remembered' = remembered \union {r}
  /\ UNCHANGED <<saved, cleared>>

\* Some reports leave the phone, all of them counted.
Clear(R) ==
  /\ \A r \in R : r \in saved /\ counted[r] > 0
  /\ cleared' = cleared \union R
  /\ UNCHANGED <<saved, counted, remembered>>

\* A report may turn up on the phone again: that is not a second report.
Reappear(r) ==
  /\ cleared' = cleared \ {r}
  /\ UNCHANGED <<saved, counted, remembered>>

\* The reporter is forgotten, and with it whose reports these were.
Erase ==
  /\ remembered' = {}
  /\ UNCHANGED <<saved, cleared, counted>>

InboxNext ==
  \/ \E r \in Reports : Save(r) \/ Count(r) \/ Reappear(r)
  \/ \E R \in SUBSET Reports : Clear(R)
  \/ Erase

InboxSpec == InboxInit /\ [][InboxNext]_inboxVars
=============================================================================
