------------------------ MODULE SubmissionLifecycle ------------------------
(***************************************************************************)
(* What the ingestion pipeline promises about one reported price, with no  *)
(* queue, worker, lock or retry in sight.  A submission is received once;  *)
(* a machine decides only what nobody has decided; a person decides only   *)
(* what has waited for a person, though perhaps again; screening hands a   *)
(* published row to a person and decides nothing itself; and a price that  *)
(* was refused or condemned never counts again.  SubmissionPipeline        *)
(* implements this.                                                        *)
(***************************************************************************)
CONSTANT Submissions      \* rows of the submissions table, present or to come

VARIABLES
  phase,                  \* submissions.status; "none" before the row exists
  price,                  \* the row's price observation: none, valid, invalid
  screened,               \* an anomaly verdict has been recorded for the row
  shown                   \* the row has waited for a person, and one has seen it

lifecycleVars == <<phase, price, screened, shown>>

Phases == {"none", "pending", "resolved", "needs_review", "rejected"}
Prices == {"none", "valid", "invalid"}

LifecycleInit ==
  /\ phase = [s \in Submissions |-> "none"]
  /\ price = [s \in Submissions |-> "none"]
  /\ screened = [s \in Submissions |-> FALSE]
  /\ shown = {}

\* The row is written; nobody has looked at it yet.
Receive(s) ==
  /\ phase[s] = "none"
  /\ phase' = [phase EXCEPT ![s] = "pending"]
  /\ UNCHANGED <<price, screened, shown>>

\* The machine knows the item and publishes the price.
Publish(s) ==
  /\ phase[s] = "pending"
  /\ phase' = [phase EXCEPT ![s] = "resolved"]
  /\ price' = [price EXCEPT ![s] = "valid"]
  /\ UNCHANGED <<screened, shown>>

\* The machine asks a person, or applies a ruling a person already made.
Decline(s) ==
  /\ phase[s] = "pending"
  /\ \E to \in {"needs_review", "rejected"} : phase' = [phase EXCEPT ![s] = to]
  /\ UNCHANGED <<price, screened, shown>>

\* A published price is screened, perhaps again and perhaps after a person decided;
\* doubt sends the row to a person.
Screen(s) ==
  /\ price[s] # "none"
  /\ screened' = [screened EXCEPT ![s] = TRUE]
  /\ \/ UNCHANGED <<phase, price>>
     \/ /\ phase' = [phase EXCEPT ![s] = "needs_review"]
        /\ \/ UNCHANGED price
           \/ price' = [price EXCEPT ![s] = "invalid"]
  /\ UNCHANGED shown

\* A person is shown a row that waits for one, and may decide it from then on.
Show(s) ==
  /\ phase[s] = "needs_review"
  /\ shown' = shown \union {s}
  /\ UNCHANGED <<phase, price, screened>>

\* A person confirms the row.  A price that was already there is kept as it is.
Confirm(s) ==
  /\ s \in shown
  /\ phase' = [phase EXCEPT ![s] = "resolved"]
  /\ price' = [price EXCEPT ![s] = IF @ = "none" THEN "valid" ELSE @]
  /\ UNCHANGED <<screened, shown>>

\* A person refuses the row; whatever was published for it stops counting.
Refuse(s) ==
  /\ s \in shown
  /\ phase' = [phase EXCEPT ![s] = "rejected"]
  /\ price' = [price EXCEPT ![s] = IF @ = "none" THEN "none" ELSE "invalid"]
  /\ UNCHANGED <<screened, shown>>

LifecycleNext ==
  \E s \in Submissions :
    \/ Receive(s) \/ Publish(s) \/ Decline(s)
    \/ Screen(s) \/ Show(s) \/ Confirm(s) \/ Refuse(s)

LifecycleSpec == LifecycleInit /\ [][LifecycleNext]_lifecycleVars
=============================================================================
