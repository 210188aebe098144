--------------------------- MODULE ReviewBacklog ---------------------------
(***************************************************************************)
(* The review queue for one phrase: rows whose text normalises alike, the  *)
(* reviewers who decide them one by one or in bulk, what a decision        *)
(* teaches about the phrase, and the jobs that apply one decision to every *)
(* identical row (ClearReviewBacklogJob, RejectReviewBacklogJob and the    *)
(* qeema:review:rematch command).                                          *)
(*                                                                         *)
(* A reviewer's decision is a transaction: it looks, then commits.  The    *)
(* jobs open none: they load the rows once and then write three tables per *)
(* row, statement by statement, on rows that may have changed since.       *)
(***************************************************************************)
EXTENDS Naturals, FiniteSets

CONSTANTS
  Submissions,   \* rows carrying the phrase, in the queue or to come
  Respelt,       \* those among them whose raw text is another spelling of it
  Unpriceable,   \* rows whose price, if not yet published, cannot be any more:
                 \* it cannot be expressed per base unit of the phrase's item
  Unscreened,    \* rows the detector has still to be asked about
  Items,         \* canonical items of the country's catalogue
  Reviewers,     \* people, or browser tabs, working the queue
  MaxFaults,     \* bound on jobs killed half-way
  Null           \* SQL NULL, and "no such row"

ASSUME BacklogAssumption ==
  /\ MaxFaults \in Nat
  /\ Null \notin Items
  /\ Null \notin Submissions

VARIABLES
  status,        \* submissions.status; "none" before the row is queued
  resolution,    \* the row of resolutions for the submission
  price,         \* its price observation: "none", "valid" or "invalid"
  variants,      \* items the phrase is a catalogue variant of
  ruled,         \* the phrase is in unmatchable_phrases
  desk,          \* what each reviewer's request has loaded
  work,          \* the backlog jobs
  faults,        \* jobs that died so far
  raced,         \* history: rows that were in two actors' hands at once
  reopened       \* history: decided rows a verdict has put back in the queue

rowVars == <<status, resolution, price>>
phraseVars == <<variants, ruled>>
vars == <<status, resolution, price, variants, ruled,
          desk, work, faults, raced, reopened>>

-----------------------------------------------------------------------------
Statuses == {"none", "needs_review", "resolved", "rejected"}
Prices == {"none", "valid", "invalid"}
Resolutions == [item: Items \union {Null}, method: {"machine", "human"}]
                 \union [item: Items, method: {"exact"}]
                 \union [item: {Null}, method: {"rule"}]
Unmatched == [item |-> Null, method |-> "machine"]

\* A request has loaded `rows`; for the one it is deciding it has looked up
\* whether the phrase is in the catalogue and whether there is a price.
Desks == [rows: SUBSET Submissions, row: Submissions \union {Null},
          known: BOOLEAN, priced: BOOLEAN]
EmptyDesk == [rows |-> {}, row |-> Null, known |-> FALSE, priced |-> FALSE]

\* One place per job that can exist: a phrase is learnt for an item once and
\* ruled out once; the command runs one at a time.
ClearTask(i) == [kind |-> "clear", item |-> i]
RejectTask == [kind |-> "reject", item |-> Null]
RematchTask == [kind |-> "rematch", item |-> Null]
Publishers == {ClearTask(i) : i \in Items} \union {RematchTask}
Tasks == Publishers \union {RejectTask}

Stages == {"idle", "queued", "loaded", "pricing", "priced", "named", "voided"}
Works == [stage: Stages, from: Submissions \union {Null}, item: Items \union {Null},
          todo: SUBSET Submissions, row: Submissions \union {Null}]
NoWork == [stage |-> "idle", from |-> Null, item |-> Null, todo |-> {}, row |-> Null]
Queued(s, i) == [NoWork EXCEPT !.stage = "queued", !.from = s, !.item = i]

Waiting == {s \in Submissions : status[s] = "needs_review"}
SameText(s, t) == (s \in Respelt) = (t \in Respelt)

\* The row's resolution is locked by a decision that has not committed.
Locked(s) == \E r \in Reviewers : desk[r].row = s
InAJob(s) == \E t \in Tasks : s \in work[t].todo

-----------------------------------------------------------------------------
(* The queue fills *)

\* The pipeline sends a row here: unsure what it is, or doubting its price.
Arrive(s) ==
  /\ status[s] = "none"
  /\ status' = [status EXCEPT ![s] = "needs_review"]
  /\ \E i \in Items \union {Null} :
       resolution' = [resolution EXCEPT ![s] = [item |-> i, method |-> "machine"]]
  /\ \/ price' = price
     \/ \E p \in IF s \in Unscreened THEN {"valid"} ELSE {"valid", "invalid"} :
          price' = [price EXCEPT ![s] = p]
  /\ UNCHANGED phraseVars /\ UNCHANGED <<desk, work, faults, raced, reopened>>

\* The detector doubts or refuses a price it had not seen when the row came here:
\* decided or not, the row waits again, and its resolution stays.
LateVerdict(s) ==
  /\ s \in Unscreened
  /\ price[s] # "none"
  /\ status' = [status EXCEPT ![s] = "needs_review"]
  /\ \E p \in {price[s], "invalid"} : price' = [price EXCEPT ![s] = p]
  /\ reopened' = IF status[s] = "needs_review" THEN reopened ELSE reopened \union {s}
  /\ UNCHANGED <<resolution, desk, work, faults, raced>> /\ UNCHANGED phraseVars

-----------------------------------------------------------------------------
(* Reviewers *)

\* A request loads the rows it is about: one, or a selection for bulk approval.
Open(r) ==
  /\ desk[r] = EmptyDesk
  /\ \E rows \in SUBSET Waiting \ {{}} : desk' = [desk EXCEPT ![r].rows = rows]
  /\ UNCHANGED rowVars /\ UNCHANGED phraseVars /\ UNCHANGED <<work, faults, raced, reopened>>

\* A decision's transaction begins.  It writes the row's resolution first, which
\* keeps any other decision on that row waiting, and then looks at the phrase
\* and the price; the status it never looks at.
Look(r, s) ==
  /\ desk[r].row = Null
  /\ s \in desk[r].rows
  /\ ~Locked(s)
  /\ desk' = [desk EXCEPT ![r].row = s,
                          ![r].known = (variants # {}),
                          ![r].priced = (price[s] # "none")]
  /\ raced' = IF InAJob(s) THEN raced \union {s} ELSE raced
  /\ UNCHANGED rowVars /\ UNCHANGED phraseVars /\ UNCHANGED <<work, faults, reopened>>

\* The request is done with the row; the rest of its rows are still as loaded.
Put(r, s) == desk' = [desk EXCEPT ![r] = [EmptyDesk EXCEPT !.rows = desk[r].rows \ {s}]]

\* A job enters the queue after the commit.
Enqueue(t, s) ==
  work' = [work EXCEPT ![t] = Queued(s, t.item)]

\* The phrase becomes a variant of the item, unless it already is one of some
\* item.  Two decisions that both found it unknown collide on (item, phrase).
LearnVariant(s, i, known) ==
  IF known
  THEN UNCHANGED <<variants, work>>
  ELSE /\ i \notin variants
       /\ variants' = variants \union {i}
       /\ Enqueue(ClearTask(i), s)

\* Approve commits.
Approve(r, s, i) ==
  /\ desk[r].row = s
  /\ resolution' = [resolution EXCEPT ![s] = [item |-> i, method |-> "human"]]
  /\ LearnVariant(s, i, desk[r].known)
  /\ IF desk[r].priced
     THEN UNCHANGED price
     ELSE /\ s \notin Unpriceable
          /\ price[s] = "none"
          /\ price' = [price EXCEPT ![s] = "valid"]
  /\ status' = [status EXCEPT ![s] = "resolved"]
  /\ Put(r, s)
  /\ UNCHANGED <<ruled, faults, raced, reopened>>

\* The phrase is ruled out, unless the catalogue claims it or it is ruled out.
LearnRejection(s, known) ==
  IF known \/ ruled
  THEN UNCHANGED <<ruled, work>>
  ELSE ruled' = TRUE /\ Enqueue(RejectTask, s)

\* What a rejection does to a price seen earlier; one that came since stays.
Void(s, seen) ==
  price' = IF seen THEN [price EXCEPT ![s] = "invalid"] ELSE price

\* Reject commits: a verdict on this price only, or on the phrase as well.
Reject(r, s) ==
  /\ desk[r].row = s
  /\ resolution' = [resolution EXCEPT ![s] = [item |-> Null, method |-> "human"]]
  /\ Void(s, desk[r].priced)
  /\ status' = [status EXCEPT ![s] = "rejected"]
  /\ LearnRejection(s, desk[r].known) \/ UNCHANGED <<ruled, work>>
  /\ Put(r, s)
  /\ UNCHANGED <<variants, faults, raced, reopened>>

\* The decision rolls back: no price per base unit, an insert that collides, or
\* the web worker is killed.
RollBack(r, s) ==
  /\ desk[r].row = s
  /\ Put(r, s)
  /\ UNCHANGED rowVars /\ UNCHANGED phraseVars /\ UNCHANGED <<work, faults, raced, reopened>>

\* Rows left without a decision: no suggestion to approve, or the tab is closed.
Leave(r) ==
  /\ desk[r].rows # {}
  /\ desk[r].row = Null
  /\ desk' = [desk EXCEPT ![r] = EmptyDesk]
  /\ UNCHANGED rowVars /\ UNCHANGED phraseVars /\ UNCHANGED <<work, faults, raced, reopened>>

-----------------------------------------------------------------------------
(* The backlog jobs *)

\* Mutant of StartRematch: a phrase the catalogue does not know is not passed over.
StartRematchUnlearnt(i) ==
  /\ work[RematchTask].stage = "idle"
  /\ work' = [work EXCEPT ![RematchTask] = Queued(Null, IF i \in variants THEN i ELSE Null)]
  /\ UNCHANGED rowVars /\ UNCHANGED phraseVars /\ UNCHANGED <<desk, faults, raced, reopened>>

\* An operator runs the command, which reads what the phrase is a variant of.
StartRematch(i) ==
  /\ work[RematchTask].stage = "idle"
  /\ i \in variants
  /\ work' = [work EXCEPT ![RematchTask] = Queued(Null, i)]
  /\ UNCHANGED rowVars /\ UNCHANGED phraseVars /\ UNCHANGED <<desk, faults, raced, reopened>>

\* The job takes `rows`, all in one chunk; without any it ends at once.
TakeRows(t, rows) ==
  /\ work' = [work EXCEPT ![t] = IF rows = {}
                                 THEN NoWork
                                 ELSE [@ EXCEPT !.stage = "loaded", !.todo = rows]]
  /\ raced' = raced \union {s \in rows : InAJob(s) \/ Locked(s)}
  /\ UNCHANGED rowVars /\ UNCHANGED phraseVars /\ UNCHANGED <<desk, faults, reopened>>

Spelt(t) == {s \in Submissions \ {work[t].from} : SameText(s, work[t].from)}

\* Mutant of Load: the job does not ask for rows awaiting review.
LoadAny(t) ==
  /\ work[t].stage = "queued"
  /\ TakeRows(t, IF t = RematchTask THEN Waiting
                 ELSE {s \in Spelt(t) : status[s] # "none"})

\* A worker starts the job and loads the rows in the queue; a job a decision
\* started, only those spelt like the row it was about, without that row.
Load(t) ==
  /\ work[t].stage = "queued"
  /\ TakeRows(t, IF t = RematchTask THEN Waiting ELSE Waiting \intersect Spelt(t))

\* What is left of the job after a row; it ends with its last one.
Rest(t, s) ==
  IF work[t].todo = {s}
  THEN NoWork
  ELSE [work[t] EXCEPT !.stage = "loaded", !.row = Null, !.todo = work[t].todo \ {s}]

NextRow(t, s) == work' = [work EXCEPT ![t] = Rest(t, s)]

\* The job turns to one of its rows.
TakeUp(t, s, g) == work' = [work EXCEPT ![t].row = s, ![t].stage = g]

Dies(t) == work' = [work EXCEPT ![t] = NoWork] /\ faults' = faults + 1

\* Mutant of SeekPrice: a row nobody has published is passed over.
SeekPriceOnly(t, s) ==
  /\ work[t].stage = "loaded"
  /\ s \in work[t].todo
  /\ IF price[s] = "none"
     THEN NextRow(t, s)
     ELSE TakeUp(t, s, "priced")
  /\ UNCHANGED rowVars /\ UNCHANGED phraseVars /\ UNCHANGED <<desk, faults, raced, reopened>>

\* Mutant of SeekPrice: a row in the queue is taken to have a price.
SeekPriceTrusting(t, s) ==
  /\ work[t].stage = "loaded"
  /\ s \in work[t].todo
  /\ TakeUp(t, s, "priced")
  /\ UNCHANGED rowVars /\ UNCHANGED phraseVars /\ UNCHANGED <<desk, faults, raced, reopened>>

\* The row comes up: is there a price?  Its status is as loaded, not re-read.
SeekPrice(t, s) ==
  /\ work[t].stage = "loaded"
  /\ s \in work[t].todo
  /\ TakeUp(t, s, IF price[s] = "none" THEN "pricing" ELSE "priced")
  /\ UNCHANGED rowVars /\ UNCHANGED phraseVars /\ UNCHANGED <<desk, faults, raced, reopened>>

\* There can be none: the row stays in the queue.
NoPrice(t, s) ==
  /\ work[t].stage = "pricing"
  /\ work[t].row = s
  /\ s \in Unpriceable
  /\ NextRow(t, s)
  /\ UNCHANGED rowVars /\ UNCHANGED phraseVars /\ UNCHANGED <<desk, faults, raced, reopened>>

\* A price is published for the row.
InsertPrice(t, s) ==
  /\ work[t].stage = "pricing"
  /\ work[t].row = s
  /\ s \notin Unpriceable
  /\ price[s] = "none"
  /\ price' = [price EXCEPT ![s] = "valid"]
  /\ work' = [work EXCEPT ![t].stage = "priced"]
  /\ UNCHANGED <<status, resolution, desk, faults, raced, reopened>> /\ UNCHANGED phraseVars

\* Somebody published one since: the insert is refused and the job fails.
InsertCollides(t, s) ==
  /\ work[t].stage = "pricing"
  /\ work[t].row = s
  /\ s \notin Unpriceable
  /\ price[s] # "none"
  /\ Dies(t)
  /\ UNCHANGED rowVars /\ UNCHANGED phraseVars /\ UNCHANGED <<desk, raced, reopened>>

\* The row is recorded as an exact match.
NameItem(t, s) ==
  /\ work[t].stage = "priced"
  /\ work[t].row = s
  /\ ~Locked(s)
  /\ resolution' = [resolution EXCEPT ![s] = [item |-> work[t].item, method |-> "exact"]]
  /\ work' = [work EXCEPT ![t].stage = "named"]
  /\ UNCHANGED <<status, price, desk, faults, raced, reopened>> /\ UNCHANGED phraseVars

\* The row leaves the queue, resolved.
Conclude(t, s) ==
  /\ work[t].stage = "named"
  /\ work[t].row = s
  /\ status' = [status EXCEPT ![s] = "resolved"]
  /\ NextRow(t, s)
  /\ UNCHANGED <<resolution, price, desk, faults, raced, reopened>> /\ UNCHANGED phraseVars

\* RejectReviewBacklogJob: the row is recorded as ruled out.
NameRuling(s) ==
  /\ work[RejectTask].stage = "loaded"
  /\ s \in work[RejectTask].todo
  /\ ~Locked(s)
  /\ resolution' = [resolution EXCEPT ![s] = [item |-> Null, method |-> "rule"]]
  /\ TakeUp(RejectTask, s, "named")
  /\ UNCHANGED <<status, price, desk, faults, raced, reopened>> /\ UNCHANGED phraseVars

\* Mutant of VoidPrice: what was published keeps counting.
VoidNothing(s) ==
  /\ work[RejectTask].stage = "named" /\ work[RejectTask].row = s
  /\ work' = [work EXCEPT ![RejectTask].stage = "voided"]
  /\ UNCHANGED rowVars /\ UNCHANGED phraseVars /\ UNCHANGED <<desk, faults, raced, reopened>>

\* Then its price, if it has one, stops counting,
VoidPrice(s) ==
  /\ work[RejectTask].stage = "named"
  /\ work[RejectTask].row = s
  /\ Void(s, price[s] # "none")
  /\ work' = [work EXCEPT ![RejectTask].stage = "voided"]
  /\ UNCHANGED <<status, resolution, desk, faults, raced, reopened>> /\ UNCHANGED phraseVars

\* and the row leaves the queue, rejected.
Expel(s) ==
  /\ work[RejectTask].stage = "voided"
  /\ work[RejectTask].row = s
  /\ status' = [status EXCEPT ![s] = "rejected"]
  /\ NextRow(RejectTask, s)
  /\ UNCHANGED <<resolution, price, desk, faults, raced, reopened>> /\ UNCHANGED phraseVars

\* A job is killed.  Its supervisor allows one try: nobody takes it up again.
WorkKilled(t) ==
  /\ work[t].stage # "idle"
  /\ faults < MaxFaults
  /\ Dies(t)
  /\ UNCHANGED rowVars /\ UNCHANGED phraseVars /\ UNCHANGED <<desk, raced, reopened>>

-----------------------------------------------------------------------------
Init ==
  /\ status = [s \in Submissions |-> "none"]
  /\ resolution = [s \in Submissions |-> Unmatched]
  /\ price = [s \in Submissions |-> "none"]
  /\ variants = {}
  /\ ruled = FALSE
  /\ desk = [r \in Reviewers |-> EmptyDesk]
  /\ work = [t \in Tasks |-> NoWork]
  /\ faults = 0
  /\ raced = {}
  /\ reopened = {}

\* A decision under way ends, one way or the other.
Decide(r, s) == (\E i \in Items : Approve(r, s, i)) \/ Reject(r, s) \/ RollBack(r, s)

Publish(t, s) ==
  \/ SeekPrice(t, s) \/ NoPrice(t, s) \/ InsertPrice(t, s)
  \/ InsertCollides(t, s) \/ NameItem(t, s) \/ Conclude(t, s)

Expunge(s) == NameRuling(s) \/ VoidPrice(s) \/ Expel(s)

\* What a worker does with a backlog job, left alone.
WorkStep(t) ==
  \/ Load(t)
  \/ t \in Publishers /\ \E s \in Submissions : Publish(t, s)
  \/ t = RejectTask /\ \E s \in Submissions : Expunge(s)

Next ==
  \/ \E s \in Submissions : Arrive(s) \/ LateVerdict(s)
  \/ \E r \in Reviewers : Open(r) \/ Leave(r)
  \/ \E r \in Reviewers, s \in Submissions : Look(r, s) \/ Decide(r, s)
  \/ \E i \in Items : StartRematch(i)
  \/ \E t \in Tasks : WorkStep(t) \/ WorkKilled(t)

Spec == Init /\ [][Next]_vars

(***************************************************************************)
(* Workers take the jobs a decision starts, a transaction under way ends,  *)
(* and a job that waits for a row lock is given it in turn, which is why   *)
(* its fairness is strong.  Whether a reviewer opens the queue, or an      *)
(* operator runs the command, is up to them.                               *)
(***************************************************************************)
Fairness ==
  /\ \A i \in Items : SF_vars(WorkStep(ClearTask(i)))
  /\ \A r \in Reviewers : WF_vars(\E s \in Submissions : Decide(r, s))

FairSpec == Spec /\ Fairness

-----------------------------------------------------------------------------
(* Properties *)

\* Every variable stays in its type: an exact match names an item, a ruling none.
TypeOK ==
  /\ status \in [Submissions -> Statuses]
  /\ resolution \in [Submissions -> Resolutions]
  /\ price \in [Submissions -> Prices]
  /\ variants \subseteq Items
  /\ ruled \in BOOLEAN
  /\ desk \in [Reviewers -> Desks]
  /\ work \in [Tasks -> Works]
  /\ faults \in Nat
  /\ raced \subseteq Submissions
  /\ reopened \subseteq Submissions

\* A row that left the queue as resolved has a price, in whatever order jobs,
\* commands and reviewers got at it and wherever a job was killed.
ResolvedIsBacked ==
  \A s \in Submissions : status[s] = "resolved" => price[s] # "none"

\* What a reviewer decided is replaced by a backlog job only on a row which a later
\* verdict has put back in the queue, and on one the job had already loaded when
\* the reviewer decided.
HumanVerdictStands ==
  [][\A s \in Submissions \ raced' :
       resolution[s].method = "human" /\ ~(s \in reopened /\ status[s] = "needs_review")
         => resolution'[s].method = "human"]_vars

\* The price of a rejected row does not count, unless two actors had the row in
\* hand at the same time.
RejectedStaysOut ==
  \A s \in Submissions \ raced : status[s] = "rejected" => price[s] # "valid"

\* One decision clears the backlog: once a phrase is learnt from a row, every
\* waiting row with the same text and a price leaves the queue, unless a job died.
BacklogIsCleared ==
  \A i \in Items, s \in Submissions \ Unpriceable :
    LET job == ClearTask(i)
    IN work[job].stage = "queued" /\ s \in Waiting \intersect Spelt(job)
         ~> s \notin Waiting \/ faults > 0
=============================================================================
