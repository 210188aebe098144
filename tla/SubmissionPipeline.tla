------------------------- MODULE SubmissionPipeline -------------------------
(***************************************************************************)
(* The ingestion pipeline: how a recorded submission becomes a price       *)
(* observation or a row in the review queue.  ResolveSubmissionJob and     *)
(* ScoreSubmissionAnomalyJob run on queue workers, may be killed, lost and *)
(* redelivered, and are held apart only by Laravel's uniqueness lock; the  *)
(* sweeper re-dispatches what the fast path missed; reviewers decide what  *)
(* the matcher could not.                                                  *)
(*                                                                         *)
(* One step is one transaction, or one statement where the code opens no   *)
(* transaction, and every call to the ML service separates two steps: what *)
(* was read before it may be stale when it is used.                        *)
(***************************************************************************)
EXTENDS Naturals, FiniteSets

CONSTANTS
  Submissions,   \* rows of the submissions table, present or to come
  Jobs,          \* places for queue messages that exist at the same time
  Items,         \* canonical items of the country's catalogue
  Unpriceable,   \* rows whose price cannot be expressed per base unit
  MaxAttempts,   \* qeema.pipeline.max_attempts: attempt budget and queue tries
  MaxFaults,     \* bound on kills, losses, torn writes and such lapses
  EarlyLapse,    \* may the lock of a resolve message go while it is alive?
  TornWrites,    \* may the database refuse the UPDATE of submissions.status?
  Null           \* SQL NULL, and "no such row"

ASSUME PipelineAssumption ==
  /\ MaxAttempts \in Nat \ {0}
  /\ MaxFaults \in Nat
  /\ EarlyLapse \in BOOLEAN
  /\ TornWrites \in BOOLEAN

VARIABLES
  status,        \* submissions.status; "none" before the row exists
  attempts,      \* submissions.pipeline_attempts
  resolution,    \* the row of resolutions for the submission
  observation,   \* the row of price_observations for the submission
  scores,        \* how many anomaly_scores rows the submission has
  ruled,         \* a reviewer ruled the phrase is not a product
  shown,         \* rows a reviewer's request has loaded from the queue
  job,           \* the queue: one message per place
  lock,          \* uniqueness locks held: <<kind, submission>>
  faults         \* kills, losses, torn writes and such lapses so far

rowVars == <<status, attempts, resolution, observation, scores, ruled, shown>>
queueVars == <<job, lock, faults>>
vars == <<status, attempts, resolution, observation, scores, ruled, shown,
          job, lock, faults>>

-----------------------------------------------------------------------------
Statuses == {"none", "pending", "resolved", "needs_review", "rejected"}
Kinds == {"resolve", "score"}

\* What the resolver decided to write; "resolved" carries an observation.
Answers == [to: {"resolved", "needs_review", "rejected"},
            item: Items \union {Null},
            method: {"rule", "fused"}]

\* canonical_item_id and method; `reviewed` is TRUE exactly for "human".
Resolutions == [item: Items \union {Null}, method: {"rule", "fused", "human"}]

Observations == [item: Items, valid: BOOLEAN]

(***************************************************************************)
(* A message waits ("queued"), is held by a worker, or has been deleted    *)
(* with only its failed() hook left to run ("failing", then "burying").    *)
(* "done" is the moment after the last write and before the queue is told. *)
(***************************************************************************)
Held == {"loaded", "asking", "answered", "committed", "handover", "handing",
         "screening", "done"}
Failing == {"failing", "burying"}
Stages == {"queued"} \union Failing \union Held

\* Where ResolveSubmissionJob has seen a pending row and not yet decided it.
Writing == {"loaded", "asking", "answered", "handover", "handing", "burying"}

NoMessage == [stage |-> "none", kind |-> Null, sub |-> Null,
              tries |-> 0, seen |-> 0, answer |-> Null]

Message(k, s) == [stage |-> "queued", kind |-> k, sub |-> s,
                  tries |-> 0, seen |-> 0, answer |-> Null]

Messages == [stage: Stages, kind: Kinds, sub: Submissions,
             tries: 0..MaxAttempts, seen: Nat, answer: Answers \union {Null}]

\* NULL is not a value of the columns it may stand in for.
ASSUME NullAssumption ==
  /\ Null \notin Items
  /\ Null \notin Resolutions
  /\ Null \notin Observations
  /\ Null \notin Answers

Live(j) == job[j].stage # "none"
At(j, k, g) == Live(j) /\ job[j].kind = k /\ job[j].stage = g
HasMessage(k, s) == \E j \in Jobs : Live(j) /\ job[j].kind = k /\ job[j].sub = s

-----------------------------------------------------------------------------
(* Queue mechanics shared by both jobs *)

\* dispatch() of a ShouldBeUnique job: nothing is pushed while the lock is held.
Dispatch(k, s) ==
  /\ <<k, s>> \notin lock
  /\ \E j \in Jobs :
       /\ ~Live(j)
       /\ job' = [job EXCEPT ![j] = Message(k, s)]
  /\ lock' = lock \union {<<k, s>>}

\* The message is deleted and its lock released, whoever holds the lock by now.
Settle(j) ==
  /\ job' = [job EXCEPT ![j] = NoMessage]
  /\ lock' = lock \ {<<job[j].kind, job[j].sub>>}

\* The message goes back to the queue; the lock stays held.
Requeue(m) == [m EXCEPT !.stage = "queued", !.seen = 0, !.answer = Null]

\* An exception left handle(): retry, or fail the job when its tries are spent.
AfterException(m) ==
  IF m.tries >= MaxAttempts
  THEN [Requeue(m) EXCEPT !.stage = "failing"]
  ELSE Requeue(m)

Advance(j, g) == job' = [job EXCEPT ![j].stage = g]

-----------------------------------------------------------------------------
(* Writers that add rows *)

\* RecordSubmission commits the row and dispatches its job after the commit.
RecordReported(s) ==
  /\ status[s] = "none"
  /\ status' = [status EXCEPT ![s] = "pending"]
  /\ Dispatch("resolve", s)
  /\ UNCHANGED <<attempts, resolution, observation, scores, ruled, shown, faults>>

\* The row lands and nothing is dispatched: a bulk insert that fires no event,
\* or a web worker killed between the commit and the dispatch.
RecordSilently(s) ==
  /\ status[s] = "none"
  /\ status' = [status EXCEPT ![s] = "pending"]
  /\ UNCHANGED <<attempts, resolution, observation, scores, ruled, shown>>
  /\ UNCHANGED queueVars

-----------------------------------------------------------------------------
(* ResolveSubmissionJob *)

\* Mutant of ResolveLoad: handle() does not look at the status.
ResolveLoadAnyRow(j) ==
  /\ At(j, "resolve", "queued") /\ job[j].tries < MaxAttempts
  /\ job' = [job EXCEPT ![j].stage = "loaded", ![j].tries = @ + 1,
                        ![j].seen = attempts[job[j].sub]]
  /\ UNCHANGED <<lock, faults>> /\ UNCHANGED rowVars

\* Mutant of ResolveLoad: the message has no $tries.
ResolveLoadUncounted(j) ==
  /\ At(j, "resolve", "queued") /\ status[job[j].sub] = "pending"
  /\ job' = [job EXCEPT ![j].stage = "loaded", ![j].tries = @ + 1,
                        ![j].seen = attempts[job[j].sub]]
  /\ UNCHANGED <<lock, faults>> /\ UNCHANGED rowVars

\* A worker takes the message and reads the row.
ResolveLoad(j) ==
  /\ At(j, "resolve", "queued")
  /\ job[j].tries < MaxAttempts
  /\ status[job[j].sub] = "pending"
  /\ job' = [job EXCEPT ![j].stage = "loaded", ![j].tries = @ + 1,
                        ![j].seen = attempts[job[j].sub]]
  /\ UNCHANGED <<lock, faults>> /\ UNCHANGED rowVars

\* The row is no longer pending: nothing to do, and the job ends well.
ResolveSkip(j) ==
  /\ At(j, "resolve", "queued")
  /\ job[j].tries < MaxAttempts
  /\ status[job[j].sub] # "pending"
  /\ Settle(j)
  /\ UNCHANGED faults /\ UNCHANGED rowVars

\* Delivered once too often: the queue fails the job without calling handle().
ResolveGiveUp(j) ==
  /\ At(j, "resolve", "queued")
  /\ job[j].tries = MaxAttempts
  /\ Advance(j, "failing")
  /\ UNCHANGED <<lock, faults>> /\ UNCHANGED rowVars

\* The circuit breaker is closed.
MatcherUp(j) ==
  /\ At(j, "resolve", "loaded")
  /\ Advance(j, "asking")
  /\ UNCHANGED <<lock, faults>> /\ UNCHANGED rowVars

\* The breaker is open: count the attempt and wait, unless this was the last
\* one of the budget, which falls through to the resolver.
MatcherDown(j) ==
  LET s == job[j].sub
      n == job[j].seen + 1
  IN /\ At(j, "resolve", "loaded")
     /\ attempts' = [attempts EXCEPT ![s] = n]
     /\ job' = [job EXCEPT ![j] = IF n >= MaxAttempts
                                  THEN [@ EXCEPT !.stage = "asking", !.seen = n]
                                  ELSE Requeue(@)]
     /\ UNCHANGED <<status, resolution, observation, scores, ruled, shown, lock, faults>>

\* What the resolver may decide for s: a reviewer's ruling comes before the
\* matcher; the matcher may be unsure, silent, wrong about the catalogue, or
\* sure of an item.  A sure answer for an unpriceable row goes to review.
AnswersFor(s) ==
  IF ruled
  THEN {[to |-> "rejected", item |-> Null, method |-> "rule"]}
  ELSE [to: {"needs_review"}, item: {Null}, method: {"rule"}]
         \union [to: {"needs_review"}, item: Items \union {Null}, method: {"fused"}]
         \union IF s \in Unpriceable THEN {}
                ELSE [to: {"resolved"}, item: Items, method: {"fused"}]

\* The ruling is looked up and the matcher answers; nothing is written yet.
Consult(j) ==
  /\ At(j, "resolve", "asking")
  /\ \E a \in AnswersFor(job[j].sub) :
       job' = [job EXCEPT ![j].stage = "answered", ![j].answer = a]
  /\ UNCHANGED <<lock, faults>> /\ UNCHANGED rowVars

\* Mutant of Commit: the observation is written with updateOrCreate.
CommitOverwrites(j) ==
  LET s == job[j].sub
      a == job[j].answer
  IN /\ At(j, "resolve", "answered")
     /\ resolution' = [resolution EXCEPT ![s] = [item |-> a.item, method |-> a.method]]
     /\ observation' = IF a.to = "resolved"
                       THEN [observation EXCEPT ![s] = [item |-> a.item, valid |-> TRUE]]
                       ELSE observation
     /\ status' = [status EXCEPT ![s] = a.to]
     /\ Advance(j, "committed")
     /\ UNCHANGED <<attempts, scores, ruled, shown, lock, faults>>

\* The transaction that writes the answer.  The row's status is not read again.
Commit(j) ==
  LET s == job[j].sub
      a == job[j].answer
  IN /\ At(j, "resolve", "answered")
     /\ a.to = "resolved" => observation[s] = Null
     /\ resolution' = [resolution EXCEPT ![s] = [item |-> a.item, method |-> a.method]]
     /\ observation' = IF a.to = "resolved"
                       THEN [observation EXCEPT ![s] = [item |-> a.item, valid |-> TRUE]]
                       ELSE observation
     /\ status' = [status EXCEPT ![s] = a.to]
     /\ Advance(j, "committed")
     /\ UNCHANGED <<attempts, scores, ruled, shown, lock, faults>>

\* price_observations.submission_id is UNIQUE: the transaction rolls back and
\* the job counts the collision as success.
CommitCollides(j) ==
  /\ At(j, "resolve", "answered")
  /\ job[j].answer.to = "resolved"
  /\ observation[job[j].sub] # Null
  /\ Settle(j)
  /\ UNCHANGED faults /\ UNCHANGED rowVars

\* Mutant of ResolveThrows: the budget is compared with > instead of >=.
ResolveThrowsOffByOne(j) ==
  LET n == job[j].seen + 1
  IN /\ At(j, "resolve", "asking") \/ At(j, "resolve", "answered")
     /\ attempts' = [attempts EXCEPT ![job[j].sub] = n]
     /\ job' = [job EXCEPT ![j] = IF n > MaxAttempts
                                  THEN [@ EXCEPT !.stage = "handover", !.answer = Null]
                                  ELSE AfterException(@)]
     /\ UNCHANGED <<status, resolution, observation, scores, ruled, shown, lock, faults>>

\* The resolver throws.  recordPipelineAttempt() saves the model the resolver
\* was editing: if the UPDATE of the status itself was refused, that attribute
\* is still dirty and is written together with the attempt count.
ResolveThrows(j) ==
  LET s == job[j].sub
      n == job[j].seen + 1
  IN /\ At(j, "resolve", "asking") \/ At(j, "resolve", "answered")
     /\ attempts' = [attempts EXCEPT ![s] = n]
     /\ \/ UNCHANGED <<status, faults>>
        \/ /\ TornWrites
           /\ At(j, "resolve", "answered")
           /\ faults < MaxFaults
           /\ faults' = faults + 1
           /\ status' = [status EXCEPT ![s] = job[j].answer.to]
     /\ job' = [job EXCEPT ![j] = IF n >= MaxAttempts
                                  THEN [@ EXCEPT !.stage = "handover", !.answer = Null]
                                  ELSE AfterException(@)]
     /\ UNCHANGED <<resolution, observation, scores, ruled, shown, lock>>

\* The first statement of handToReview(): upsert the resolution, keeping a
\* suggestion already stored.
NoteFailure(s) ==
  LET kept == IF resolution[s] = Null THEN Null ELSE resolution[s].item
  IN resolution' = [resolution EXCEPT ![s] = [item |-> kept, method |-> "rule"]]

\* The budget is spent: the row becomes a reviewer's work.
HandOver(j) ==
  /\ At(j, "resolve", "handover")
  /\ NoteFailure(job[j].sub)
  /\ Advance(j, "handing")
  /\ UNCHANGED <<status, attempts, observation, scores, ruled, shown, lock, faults>>

\* Mutant of FailedHook: the status is not looked at again.
FailedHookBlind(j) ==
  /\ At(j, "resolve", "failing")
  /\ NoteFailure(job[j].sub)
  /\ Advance(j, "burying")
  /\ UNCHANGED <<status, attempts, observation, scores, ruled, shown, lock, faults>>

\* failed(): the last resort for an exception or a kill handle() never saw.
FailedHook(j) ==
  /\ At(j, "resolve", "failing")
  /\ status[job[j].sub] = "pending"
  /\ NoteFailure(job[j].sub)
  /\ Advance(j, "burying")
  /\ UNCHANGED <<status, attempts, observation, scores, ruled, shown, lock, faults>>

FailedSkip(j) ==
  /\ At(j, "resolve", "failing")
  /\ status[job[j].sub] # "pending"
  /\ Settle(j)
  /\ UNCHANGED faults /\ UNCHANGED rowVars

\* The second statement of handToReview(): the row joins the review queue.
Surrender(j) ==
  /\ \/ At(j, "resolve", "handing") /\ Advance(j, "done") /\ UNCHANGED lock
     \/ At(j, "resolve", "burying") /\ Settle(j)
  /\ status' = [status EXCEPT ![job[j].sub] = "needs_review"]
  /\ UNCHANGED <<attempts, resolution, observation, scores, ruled, shown, faults>>

\* handle() has returned: the message is deleted.
Acknowledge(j) ==
  /\ Live(j)
  /\ job[j].stage = "done"
  /\ Settle(j)
  /\ UNCHANGED faults /\ UNCHANGED rowVars

\* scoreIfObserved() and the end of the job.  The place of the finished message
\* serves for the scoring job it dispatches.
Finish(j) ==
  LET s == job[j].sub
      screens == /\ status[s] = "resolved"
                 /\ observation[s] # Null
                 /\ <<"score", s>> \notin lock
  IN /\ At(j, "resolve", "committed")
     /\ IF screens
        THEN /\ job' = [job EXCEPT ![j] = Message("score", s)]
             /\ lock' = (lock \ {<<"resolve", s>>}) \union {<<"score", s>>}
        ELSE Settle(j)
     /\ UNCHANGED faults /\ UNCHANGED rowVars

-----------------------------------------------------------------------------
(* ScoreSubmissionAnomalyJob *)

\* Take the message and look: no verdict yet, and a price to judge.
ScoreLoad(j) ==
  LET s == job[j].sub
  IN /\ At(j, "score", "queued")
     /\ job[j].tries < MaxAttempts
     /\ scores[s] = 0
     /\ observation[s] # Null
     /\ job' = [job EXCEPT ![j].stage = "screening", ![j].tries = @ + 1]
     /\ UNCHANGED <<lock, faults>> /\ UNCHANGED rowVars

\* Already judged, nothing to judge, or delivered once too often.
ScoreSkip(j) ==
  LET s == job[j].sub
  IN /\ At(j, "score", "queued")
     /\ \/ job[j].tries = MaxAttempts
        \/ scores[s] # 0
        \/ observation[s] = Null
     /\ Settle(j)
     /\ UNCHANGED faults /\ UNCHANGED rowVars

\* Mutant of RecordVerdict: a condemned price stays on a resolved row.
RecordVerdictUnflagged(j) ==
  LET s == job[j].sub
  IN /\ At(j, "score", "screening")
     /\ scores' = [scores EXCEPT ![s] = @ + 1]
     /\ observation' \in {observation, [observation EXCEPT ![s].valid = FALSE]}
     /\ Advance(j, "done")
     /\ UNCHANGED <<status, attempts, resolution, ruled, shown, lock, faults>>

\* Mutant of RecordVerdict: the detector rejects the row itself.
RecordVerdictRejects(j) ==
  LET s == job[j].sub
  IN /\ At(j, "score", "screening")
     /\ scores' = [scores EXCEPT ![s] = @ + 1]
     /\ observation' = [observation EXCEPT ![s].valid = FALSE]
     /\ status' = [status EXCEPT ![s] = "rejected"]
     /\ Advance(j, "done")
     /\ UNCHANGED <<attempts, resolution, ruled, shown, lock, faults>>

\* Mutant of RecordVerdict: the row is flagged before its verdict is stored.
RecordVerdictLater(j) ==
  LET s == job[j].sub
  IN /\ At(j, "score", "screening")
     /\ scores' = scores
     /\ \E verdict \in {"clean", "suspect", "rejected"} :
          /\ observation' = IF verdict = "rejected"
                            THEN [observation EXCEPT ![s].valid = FALSE]
                            ELSE observation
          /\ status' = IF verdict = "clean"
                       THEN status
                       ELSE [status EXCEPT ![s] = "needs_review"]
     /\ Advance(j, "done")
     /\ UNCHANGED <<attempts, resolution, ruled, shown, lock, faults>>

\* The detector answered: store the verdict and act on it.
RecordVerdict(j) ==
  LET s == job[j].sub
  IN /\ At(j, "score", "screening")
     /\ scores' = [scores EXCEPT ![s] = @ + 1]
     /\ \E verdict \in {"clean", "suspect", "rejected"} :
          /\ observation' = IF verdict = "rejected"
                            THEN [observation EXCEPT ![s].valid = FALSE]
                            ELSE observation
          /\ status' = IF verdict = "clean"
                       THEN status
                       ELSE [status EXCEPT ![s] = "needs_review"]
     /\ Advance(j, "done")
     /\ UNCHANGED <<attempts, resolution, ruled, shown, lock, faults>>

\* The detector had no opinion: no verdict is recorded and the job ends.
NoVerdict(j) ==
  /\ At(j, "score", "screening")
  /\ Settle(j)
  /\ UNCHANGED faults /\ UNCHANGED rowVars

\* Scoring throws.  This job has no failed() hook: when its tries are spent the
\* message is simply gone.
ScoreThrows(j) ==
  /\ At(j, "score", "screening")
  /\ IF job[j].tries >= MaxAttempts
     THEN Settle(j)
     ELSE job' = [job EXCEPT ![j] = Requeue(@)] /\ UNCHANGED lock
  /\ UNCHANGED faults /\ UNCHANGED rowVars

-----------------------------------------------------------------------------
(* PipelineSweepCommand, the uniqueness locks, and what may go wrong *)

SweepUnresolved(s) ==
  /\ status[s] = "pending"
  /\ Dispatch("resolve", s)
  /\ UNCHANGED faults /\ UNCHANGED rowVars

SweepUnscored(s) ==
  /\ observation[s] # Null
  /\ observation[s].valid
  /\ scores[s] = 0
  /\ Dispatch("score", s)
  /\ UNCHANGED faults /\ UNCHANGED rowVars

\* Mutant of LockLapses: no uniqueFor, so the lock of a lost message stays.
LockWithoutExpiry(k, s) == <<k, s>> \in lock /\ FALSE

\* A lock outlives a lost message by uniqueFor seconds at most; it counts from the
\* dispatch.  The 300 s of a scoring lock are shorter than that job's backoff, so it
\* goes under a live message as a matter of course.  The 900 s of a resolve lock are
\* longer; with EarlyLapse it goes too, in a long queue, or because Laravel releases
\* a lock just before it runs failed() and just before it deletes a message.
LockLapses(k, s) ==
  /\ <<k, s>> \in lock
  /\ IF k = "resolve" /\ HasMessage(k, s)
     THEN EarlyLapse /\ faults < MaxFaults /\ faults' = faults + 1
     ELSE UNCHANGED faults
  /\ lock' = lock \ {<<k, s>>}
  /\ UNCHANGED job /\ UNCHANGED rowVars

\* A worker is killed: retry_after later the message is delivered again, unless
\* it was deleted already and only failed() was left to run.
WorkerKilled(j) ==
  /\ Live(j)
  /\ job[j].stage # "queued"
  /\ faults < MaxFaults
  /\ faults' = faults + 1
  /\ IF job[j].stage \in Failing
     THEN Settle(j)
     ELSE job' = [job EXCEPT ![j] = Requeue(@)] /\ UNCHANGED lock
  /\ UNCHANGED rowVars

\* The queue is flushed or the broker loses the message; the lock remains.
MessageLost(j) ==
  /\ Live(j)
  /\ job[j].stage = "queued"
  /\ faults < MaxFaults
  /\ faults' = faults + 1
  /\ job' = [job EXCEPT ![j] = NoMessage]
  /\ UNCHANGED lock /\ UNCHANGED rowVars

-----------------------------------------------------------------------------
(* The review queue and ApplyReviewDecision *)

\* A reviewer's request loads a row that awaits review.  What it decides later it
\* decides on that copy: neither the page nor the action looks at the status again,
\* and another reviewer may have loaded the row as well.
Show(s) ==
  /\ status[s] = "needs_review"
  /\ shown' = shown \union {s}
  /\ UNCHANGED <<status, attempts, resolution, observation, scores, ruled>>
  /\ UNCHANGED queueVars

\* Approve: the human resolution, an observation if there is none, resolved.
\* Without a price per base unit the whole decision rolls back.
Approve(s, i) ==
  /\ s \in shown
  /\ observation[s] # Null \/ s \notin Unpriceable
  /\ resolution' = [resolution EXCEPT ![s] = [item |-> i, method |-> "human"]]
  /\ observation' = IF observation[s] = Null
                    THEN [observation EXCEPT ![s] = [item |-> i, valid |-> TRUE]]
                    ELSE observation
  /\ status' = [status EXCEPT ![s] = "resolved"]
  /\ UNCHANGED <<attempts, scores, ruled, shown>> /\ UNCHANGED queueVars

\* Mutant of Reject: only what still awaits review loses its price.
RejectQueued(s) ==
  /\ s \in shown
  /\ resolution' = [resolution EXCEPT ![s] = [item |-> Null, method |-> "human"]]
  /\ observation' = IF observation[s] = Null \/ status[s] # "needs_review"
                    THEN observation
                    ELSE [observation EXCEPT ![s].valid = FALSE]
  /\ status' = [status EXCEPT ![s] = "rejected"]
  /\ ruled' \in {ruled, TRUE}
  /\ UNCHANGED <<attempts, scores, shown>> /\ UNCHANGED queueVars

\* Reject: the human resolution, the observation invalidated, and perhaps the
\* ruling that the phrase is not a product.
Reject(s) ==
  /\ s \in shown
  /\ resolution' = [resolution EXCEPT ![s] = [item |-> Null, method |-> "human"]]
  /\ observation' = IF observation[s] = Null
                    THEN observation
                    ELSE [observation EXCEPT ![s].valid = FALSE]
  /\ status' = [status EXCEPT ![s] = "rejected"]
  /\ ruled' \in {ruled, TRUE}
  /\ UNCHANGED <<attempts, scores, shown>> /\ UNCHANGED queueVars

-----------------------------------------------------------------------------
Init ==
  /\ status = [s \in Submissions |-> "none"]
  /\ attempts = [s \in Submissions |-> 0]
  /\ resolution = [s \in Submissions |-> Null]
  /\ observation = [s \in Submissions |-> Null]
  /\ scores = [s \in Submissions |-> 0]
  /\ ruled = FALSE
  /\ shown = {}
  /\ job = [j \in Jobs |-> NoMessage]
  /\ lock = {}
  /\ faults = 0

\* What a worker does with a message, left alone.
ResolveStep(j) ==
  \/ ResolveLoad(j) \/ ResolveSkip(j) \/ ResolveGiveUp(j)
  \/ MatcherUp(j) \/ MatcherDown(j) \/ Consult(j)
  \/ Commit(j) \/ CommitCollides(j) \/ Finish(j)
  \/ HandOver(j) \/ FailedHook(j) \/ FailedSkip(j) \/ Surrender(j)

ScoreStep(j) == ScoreLoad(j) \/ ScoreSkip(j) \/ RecordVerdict(j) \/ NoVerdict(j)

WorkerStep(j) == ResolveStep(j) \/ ScoreStep(j) \/ Acknowledge(j)

\* What may befall it.
JobFault(j) ==
  ResolveThrows(j) \/ ScoreThrows(j) \/ WorkerKilled(j) \/ MessageLost(j)

Intake(s) == RecordReported(s) \/ RecordSilently(s)
Sweep(s) == SweepUnresolved(s) \/ SweepUnscored(s)
Review(s) == Show(s) \/ (\E i \in Items : Approve(s, i)) \/ Reject(s)

Next ==
  \/ \E j \in Jobs : WorkerStep(j) \/ JobFault(j)
  \/ \E s \in Submissions : Intake(s) \/ Sweep(s) \/ Review(s)
  \/ \E k \in Kinds, s \in Submissions : LockLapses(k, s)

Spec == Init /\ [][Next]_vars

(***************************************************************************)
(* Workers keep taking messages, the scheduler runs the sweep every minute *)
(* and a lock expires on its own.  Nobody promises that a reviewer comes.  *)
(***************************************************************************)
Fairness ==
  /\ \A j \in Jobs : WF_vars(WorkerStep(j))
  /\ \A s \in Submissions : WF_vars(SweepUnresolved(s))
  /\ \A k \in Kinds, s \in Submissions :
       WF_vars(~HasMessage(k, s) /\ LockLapses(k, s))

FairSpec == Spec /\ Fairness
-----------------------------------------------------------------------------
(* Properties *)

\* Every variable stays in its type.
TypeOK ==
  /\ status \in [Submissions -> Statuses]
  /\ attempts \in [Submissions -> Nat]
  /\ resolution \in [Submissions -> Resolutions \union {Null}]
  /\ observation \in [Submissions -> Observations \union {Null}]
  /\ scores \in [Submissions -> Nat]
  /\ ruled \in BOOLEAN
  /\ shown \subseteq Submissions
  /\ job \in [Jobs -> Messages \union {NoMessage}]
  /\ lock \subseteq Kinds \X Submissions
  /\ faults \in 0..MaxFaults

\* ShouldBeUnique: a row never has two resolve messages at once, through losses,
\* redeliveries, sweeps and locks released by whoever finishes.
OneMessagePerRow ==
  \A i, j \in Jobs :
    (/\ Live(i) /\ Live(j)
     /\ job[i].kind = "resolve" /\ job[j].kind = "resolve"
     /\ job[i].sub = job[j].sub)
      => i = j

\* ResolveSubmissionJob checks the status once and writes much later, after the
\* ML call: the row a worker is about to write is still pending all that time.
WorkerWritesPendingRow ==
  \A j \in Jobs, g \in Writing :
    At(j, "resolve", g) => status[job[j].sub] = "pending"

\* A resolved row has a price observation, so that what a reviewer or a reporter
\* is told was published is in the index's reach.
ResolvedIsBacked ==
  \A s \in Submissions : status[s] = "resolved" => observation[s] # Null

\* A rejected row's price does not count, whoever rejected it and whenever: a second
\* reviewer on a stale page, or a detector whose answer comes after the decision.
RejectedStaysOut ==
  \A s \in Submissions :
    status[s] = "rejected" /\ observation[s] # Null => ~observation[s].valid

\* A row the machine resolved is published as the item its resolution names,
\* and screening has not condemned the price.
MachinePublishesItsMatch ==
  \A s \in Submissions :
    status[s] = "resolved" /\ resolution[s].method = "fused"
      => observation[s] = [item |-> resolution[s].item, valid |-> TRUE]

\* A row a person has decided waits for a person again only with a verdict on record
\* that says why: no redelivery, sweep or late failed() hook sends it back, although
\* verdicts come late and come twice.
ReopenedIsScreened ==
  \A s \in Submissions :
    status[s] = "needs_review" /\ resolution[s] # Null /\ resolution[s].method = "human"
      => scores[s] > 0

\* A row whose budget is spent is in a worker's hands until it is handed to a
\* reviewer, unless a worker was killed.
SpentBudgetIsActedOn ==
  \A s \in Submissions :
    faults = 0 /\ status[s] = "pending" /\ attempts[s] >= MaxAttempts
      => \E j \in Jobs : /\ Live(j) /\ job[j].kind = "resolve" /\ job[j].sub = s
                         /\ job[j].stage \in Held

\* No machine step replaces what a person decided about a row: a resolution
\* recorded by a reviewer is only ever replaced by another reviewer's.
HumanVerdictStands ==
  [][\A s \in Submissions :
       resolution[s] # Null /\ resolution[s].method = "human"
         => resolution'[s].method = "human"]_vars

\* UNIQUE(submission_id) outlives every lock: once a price is published for a
\* row, no redelivery, double dispatch or reviewer publishes it again or under
\* another item, and a price that was condemned never counts again.
PublicationIsFinal ==
  [][\A s \in Submissions :
       observation[s] # Null
         => /\ observation'[s] # Null
            /\ observation'[s].item = observation[s].item
            /\ observation'[s].valid => observation[s].valid]_vars


\* "nothing here can touch a submission that has already been decided.  Approving
\* something twice is guarded further down as well" (ReviewQueueResource.php:53-55):
\* the queue is scoped when a row is loaded, and nothing further down looks again.
DecidedIsLeftAlone ==
  [][\A s \in Submissions :
       status[s] \in {"resolved", "rejected"} => resolution'[s] = resolution[s]]_vars

\* The pipeline implements the life of a submission.
Price(s) ==
  IF observation[s] = Null THEN "none"
  ELSE IF observation[s].valid THEN "valid" ELSE "invalid"

Lifecycle == INSTANCE SubmissionLifecycle
  WITH phase <- status,
       price <- [s \in Submissions |-> Price(s)],
       screened <- [s \in Submissions |-> scores[s] > 0]

\* Every step of the pipeline is a step of SubmissionLifecycle or changes
\* nothing that module can see.
ImplementsLifecycle == Lifecycle!LifecycleSpec

\* Nothing stays stuck: a pending row is decided or reaches a reviewer, even if
\* its job is lost, its worker killed or the matcher never answers.
PendingIsSettled ==
  \A s \in Submissions : status[s] = "pending" ~> status[s] # "pending"
=============================================================================
