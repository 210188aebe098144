---------------------- MODULE SubmissionPipelineProofs ----------------------
(***************************************************************************)
(* What holds of SubmissionPipeline for every number of submissions, queue *)
(* places, items, attempts and faults.                                     *)
(***************************************************************************)
EXTENDS SubmissionPipeline, TLAPS

(***************************************************************************)
(* TypeOK is not inductive by itself: the answer a worker carries must be  *)
(* one the resolver can give, and a worker that screens a price needs one. *)
(***************************************************************************)
GoodAnswers ==
  [to: {"needs_review", "rejected"}, item: Items \union {Null}, method: {"rule", "fused"}]
    \union [to: {"resolved"}, item: Items, method: {"fused"}]

Carries(m) ==
  /\ m.kind = "resolve" /\ m.stage = "answered" => m.answer \in GoodAnswers
  /\ m.kind = "score" /\ m.stage = "screening" => observation[m.sub] # Null

TypeInv == TypeOK /\ \A j \in Jobs : Carries(job[j])

-----------------------------------------------------------------------------
(* Messages *)

\* What the queue does to a message leaves it a message.
LEMMA MessageTypes ==
  ASSUME NEW m \in Messages
  PROVE  /\ Requeue(m) \in Messages
         /\ AfterException(m) \in Messages
         /\ \A g \in Stages : [m EXCEPT !.stage = g] \in Messages
BY DEF Messages, Requeue, AfterException, Stages, Failing, Held

\* A dispatched message is a message, and waits.
LEMMA FreshMessageType ==
  ASSUME NEW k \in Kinds, NEW s \in Submissions
  PROVE  Message(k, s) \in Messages /\ Message(k, s).stage = "queued"
<1>1. 0 \in 0..MaxAttempts
  BY PipelineAssumption DEF PipelineAssumption
<1> QED BY <1>1 DEF Messages, Message, Stages, Failing, Held, Kinds

\* A place is free or holds a message; a message knows its row and its kind.
LEMMA LiveIsMessage ==
  ASSUME TypeOK, NEW j \in Jobs, Live(j)
  PROVE  /\ job[j] \in Messages
         /\ job[j].sub \in Submissions
         /\ job[j].kind \in Kinds
BY DEF TypeOK, Live, NoMessage, Messages

LEMMA FreePlace ==
  /\ NoMessage \notin Messages
  /\ NoMessage.stage = "none"
  /\ \A m \in Messages : m.stage # "none"
BY DEF Messages, NoMessage, Stages, Failing, Held

LEMMA GoodAnswersAreAnswers == GoodAnswers \subseteq Answers
BY DEF GoodAnswers, Answers

LEMMA ResolverAnswersWell == \A s \in Submissions : AnswersFor(s) \subseteq GoodAnswers
BY DEF AnswersFor, GoodAnswers

-----------------------------------------------------------------------------
(* Type correctness *)

LEMMA TypeInit == Init => TypeInv
<1> SUFFICES ASSUME Init PROVE TypeInv
  OBVIOUS
<1>1. TypeOK
  <2>1. /\ status \in [Submissions -> Statuses]
        /\ attempts \in [Submissions -> Nat]
        /\ resolution \in [Submissions -> Resolutions \union {Null}]
        /\ observation \in [Submissions -> Observations \union {Null}]
        /\ scores \in [Submissions -> Nat]
    BY DEF Init, Statuses
  <2>2. job \in [Jobs -> Messages \union {NoMessage}]
    BY DEF Init
  <2>3. lock \subseteq Kinds \X Submissions /\ ruled \in BOOLEAN /\ shown \subseteq Submissions
    BY DEF Init
  <2>4. faults \in 0..MaxFaults
    BY PipelineAssumption DEF PipelineAssumption, Init
  <2> QED BY <2>1, <2>2, <2>3, <2>4 DEF TypeOK
<1>2. \A j \in Jobs : Carries(job[j])
  BY DEF Init, Carries, NoMessage
<1> QED BY <1>1, <1>2 DEF TypeInv

\* A step that touches one place of the queue and no price.
LEMMA OnePlaceTypes ==
  ASSUME TypeInv, NEW j \in Jobs, NEW m \in Messages \union {NoMessage},
         job' = [job EXCEPT ![j] = m], Carries(m), observation' = observation
  PROVE  /\ job' \in [Jobs -> Messages \union {NoMessage}]
         /\ \A i \in Jobs : Carries(job[i])'
BY DEF TypeInv, TypeOK, Carries

\* A message that only moves to a stage in which it carries nothing.
LEMMA AdvanceTypes ==
  ASSUME TypeInv, NEW j \in Jobs, Live(j), NEW g \in Stages \ {"answered", "screening"},
         Advance(j, g), \A s \in Submissions : observation[s] # Null => observation'[s] # Null
  PROVE  /\ job' \in [Jobs -> Messages \union {NoMessage}]
         /\ \A i \in Jobs : Carries(job[i])'
<1>1. job[j] \in Messages /\ job[j].sub \in Submissions
  BY LiveIsMessage DEF TypeInv
<1>2. [job[j] EXCEPT !.stage = g] \in Messages
  BY <1>1, MessageTypes
<1>3. job' = [job EXCEPT ![j] = [job[j] EXCEPT !.stage = g]]
  BY DEF Advance
<1>4. job' \in [Jobs -> Messages \union {NoMessage}]
  BY <1>2, <1>3 DEF TypeInv, TypeOK
<1>5. ASSUME NEW i \in Jobs PROVE Carries(job[i])'
  <2>1. CASE i = j
    BY <1>1, <1>3, <2>1 DEF Carries, TypeInv, TypeOK, Messages
  <2>2. CASE i # j
    <3>1. job'[i] = job[i] /\ Carries(job[i])
      BY <1>3, <2>2 DEF TypeInv, TypeOK
    <3>2. CASE job[i].stage = "screening"
      <4>1. job[i].sub \in Submissions
        BY <3>2, LiveIsMessage DEF Live, TypeInv
      <4> QED BY <3>1, <3>2, <4>1 DEF Carries
    <3> QED BY <3>1, <3>2 DEF Carries
  <2> QED BY <2>1, <2>2
<1> QED BY <1>4, <1>5

LEMMA NoteFailureTypes ==
  ASSUME TypeOK, NEW s \in Submissions, NoteFailure(s)
  PROVE  resolution' \in [Submissions -> Resolutions \union {Null}]
BY DEF NoteFailure, TypeOK, Resolutions

LEMMA ResolveStepTypes ==
  ASSUME TypeInv, NEW j \in Jobs, ResolveStep(j)
  PROVE  TypeInv'
<1>m. ASSUME Live(j) PROVE /\ job[j] \in Messages
                          /\ job[j].sub \in Submissions
                          /\ job[j].kind \in Kinds
  BY <1>m, LiveIsMessage DEF TypeInv
<1>1. CASE ResolveLoad(j)
  BY <1>1, <1>m DEF ResolveLoad, At, TypeInv, TypeOK, Carries, Live, Messages,
                    Stages, Failing, Held, rowVars
<1>2. CASE ResolveSkip(j)
  BY <1>2, <1>m DEF ResolveSkip, At, TypeInv, TypeOK, Carries, Settle, rowVars, NoMessage
<1>3. CASE ResolveGiveUp(j)
  BY <1>3, AdvanceTypes DEF ResolveGiveUp, At, TypeInv, TypeOK, Stages, Failing, rowVars
<1>4. CASE MatcherUp(j)
  BY <1>4, AdvanceTypes DEF MatcherUp, At, TypeInv, TypeOK, Stages, Failing, Held, rowVars
<1>5. CASE MatcherDown(j)
  <2> DEFINE m == IF job[j].seen + 1 >= MaxAttempts
                  THEN [job[j] EXCEPT !.stage = "asking", !.seen = job[j].seen + 1]
                  ELSE Requeue(job[j])
  <2>1. job[j] \in Messages /\ job[j].sub \in Submissions
    BY <1>5, <1>m DEF MatcherDown, At
  <2>2. m \in Messages /\ Carries(m)
    <3>1. Requeue(job[j]) \in Messages /\ Requeue(job[j]).stage = "queued"
      BY <2>1 DEF Messages, Requeue, Stages
    <3>2. ASSUME NEW n \in Nat
          PROVE  /\ [job[j] EXCEPT !.stage = "asking", !.seen = n] \in Messages
                 /\ [job[j] EXCEPT !.stage = "asking", !.seen = n].stage = "asking"
      BY <2>1 DEF Messages, Stages, Failing, Held
    <3>3. job[j].seen + 1 \in Nat
      BY <2>1 DEF Messages
    <3> QED BY <3>1, <3>2, <3>3 DEF Carries
  <2>3. job' = [job EXCEPT ![j] = m] /\ observation' = observation
    BY <1>5 DEF MatcherDown
  <2>4. attempts' \in [Submissions -> Nat]
    BY <1>5, <2>1 DEF MatcherDown, TypeInv, TypeOK, Messages
  <2> HIDE DEF m
  <2> QED BY <1>5, <2>2, <2>3, <2>4, OnePlaceTypes DEF MatcherDown, TypeInv, TypeOK
<1>6. CASE Consult(j)
  <2>1. job[j] \in Messages /\ job[j].sub \in Submissions
    BY <1>6, <1>m DEF Consult, At
  <2>2. PICK a \in AnswersFor(job[j].sub) :
          job' = [job EXCEPT ![j].stage = "answered", ![j].answer = a]
    BY <1>6 DEF Consult
  <2>3. a \in GoodAnswers /\ a \in Answers
    BY <2>1, <2>2, ResolverAnswersWell, GoodAnswersAreAnswers
  <2> DEFINE m == [job[j] EXCEPT !.stage = "answered", !.answer = a]
  <2>4. m \in Messages /\ Carries(m)
    <3>1. m.kind = "resolve"
      BY <1>6, <2>1 DEF Consult, At, Messages
    <3> QED BY <2>1, <2>3, <3>1 DEF Messages, Carries, Stages, Failing, Held
  <2>5. job' = [job EXCEPT ![j] = m]
    BY <2>2
  <2> HIDE DEF m
  <2> QED BY <1>6, <2>4, <2>5, OnePlaceTypes DEF Consult, rowVars, TypeInv, TypeOK
<1>7. CASE Commit(j)
  <2> DEFINE s == job[j].sub
             a == job[j].answer
  <2>1. s \in Submissions /\ a \in GoodAnswers
    BY <1>7, <1>m DEF Commit, At, TypeInv, Carries
  <2>2. status' \in [Submissions -> Statuses]
    BY <1>7, <2>1 DEF Commit, TypeInv, TypeOK, GoodAnswers, Statuses
  <2>3. resolution' \in [Submissions -> Resolutions \union {Null}]
    BY <1>7, <2>1 DEF Commit, TypeInv, TypeOK, GoodAnswers, Resolutions
  <2>4. /\ observation' \in [Submissions -> Observations \union {Null}]
        /\ \A r \in Submissions : observation[r] # Null => observation'[r] # Null
    BY <1>7, <2>1, NullAssumption
    DEF NullAssumption, Commit, TypeInv, TypeOK, GoodAnswers, Observations
  <2>5. Live(j) /\ Advance(j, "committed") /\ "committed" \in Stages
    BY <1>7 DEF Commit, At, Stages, Failing, Held
  <2> QED BY <1>7, <2>2, <2>3, <2>4, <2>5, AdvanceTypes DEF Commit, TypeInv, TypeOK
<1>8. CASE CommitCollides(j)
  BY <1>8, <1>m DEF CommitCollides, At, TypeInv, TypeOK, Carries, Settle, rowVars, NoMessage
<1>9. CASE HandOver(j) \/ FailedHook(j)
  <2>1. /\ NoteFailure(job[j].sub) /\ job[j].sub \in Submissions /\ Live(j)
        /\ Advance(j, "handing") \/ Advance(j, "burying")
    BY <1>9, <1>m DEF HandOver, FailedHook, At
  <2>2. "handing" \in Stages /\ "burying" \in Stages
    BY DEF Stages, Failing, Held
  <2> QED BY <1>9, <2>1, <2>2, AdvanceTypes, NoteFailureTypes
          DEF HandOver, FailedHook, TypeInv, TypeOK
<1>10. CASE FailedSkip(j)
  BY <1>10, <1>m DEF FailedSkip, At, TypeInv, TypeOK, Carries, Settle, rowVars, NoMessage
<1>s. CASE Surrender(j)
  <2>1. job[j].sub \in Submissions /\ Live(j)
    BY <1>s, <1>m DEF Surrender, At
  <2>2. status' \in [Submissions -> Statuses]
    BY <1>s, <2>1 DEF Surrender, TypeInv, TypeOK, Statuses
  <2>3. CASE Settle(j)
    BY <1>s, <2>2, <2>3 DEF Surrender, TypeInv, TypeOK, Carries, Settle, NoMessage
  <2>4. CASE Advance(j, "done") /\ UNCHANGED lock
    <3>1. "done" \in Stages
      BY DEF Stages, Failing, Held
    <3> QED BY <1>s, <2>1, <2>2, <2>4, <3>1, AdvanceTypes DEF Surrender, TypeInv, TypeOK
  <2> QED BY <1>s, <2>3, <2>4 DEF Surrender
<1>11. CASE Finish(j)
  BY <1>11, <1>m, FreshMessageType DEF Finish, At, TypeInv, TypeOK, Carries, Settle,
                     rowVars, NoMessage, Kinds
<1> QED
  BY <1>1, <1>2, <1>3, <1>4, <1>5, <1>6, <1>7, <1>8, <1>9, <1>10, <1>s, <1>11 DEF ResolveStep

LEMMA ScoreStepTypes ==
  ASSUME TypeInv, NEW j \in Jobs, ScoreStep(j)
  PROVE  TypeInv'
<1>m. ASSUME Live(j) PROVE /\ job[j] \in Messages
                          /\ job[j].sub \in Submissions
                          /\ job[j].kind \in Kinds
  BY <1>m, LiveIsMessage DEF TypeInv
<1>1. CASE ScoreLoad(j)
  BY <1>1, <1>m DEF ScoreLoad, At, TypeInv, TypeOK, Carries, Live, Messages,
                    Stages, Failing, Held, rowVars
<1>2. CASE ScoreSkip(j)
  BY <1>2, <1>m DEF ScoreSkip, At, TypeInv, TypeOK, Carries, Settle, rowVars, NoMessage
<1>3. CASE RecordVerdict(j)
  <2> DEFINE s == job[j].sub
  <2>1. s \in Submissions /\ observation[s] \in Observations
    BY <1>3, <1>m DEF RecordVerdict, At, TypeInv, TypeOK, Carries
  <2>2. status' \in [Submissions -> Statuses] /\ scores' \in [Submissions -> Nat]
    BY <1>3, <2>1 DEF RecordVerdict, TypeInv, TypeOK, Statuses
  <2>3. /\ observation' \in [Submissions -> Observations \union {Null}]
        /\ \A r \in Submissions : observation[r] # Null => observation'[r] # Null
    <3>1. [observation[s] EXCEPT !.valid = FALSE] \in Observations
      BY <2>1 DEF Observations
    <3>2. \/ observation' = observation
          \/ observation' = [observation EXCEPT ![s] = [observation[s] EXCEPT !.valid = FALSE]]
      BY <1>3 DEF RecordVerdict
    <3> QED BY <2>1, <3>1, <3>2, NullAssumption DEF NullAssumption, TypeInv, TypeOK
  <2>4. Live(j) /\ Advance(j, "done") /\ "done" \in Stages
    BY <1>3 DEF RecordVerdict, At, Stages, Failing, Held
  <2> QED BY <1>3, <2>2, <2>3, <2>4, AdvanceTypes DEF RecordVerdict, TypeInv, TypeOK
<1>4. CASE NoVerdict(j)
  BY <1>4, <1>m DEF NoVerdict, At, TypeInv, TypeOK, Carries, Settle, rowVars, NoMessage
<1> QED BY <1>1, <1>2, <1>3, <1>4 DEF ScoreStep

LEMMA AcknowledgeTypes ==
  ASSUME TypeInv, NEW j \in Jobs, Acknowledge(j)
  PROVE  TypeInv'
BY DEF Acknowledge, TypeInv, TypeOK, Carries, Settle, rowVars, NoMessage

LEMMA JobFaultTypes ==
  ASSUME TypeInv, NEW j \in Jobs, JobFault(j)
  PROVE  TypeInv'
<1>1. Live(j)
  BY DEF JobFault, ResolveThrows, ScoreThrows, WorkerKilled, MessageLost, At
<1>2. job[j] \in Messages /\ job[j].sub \in Submissions
  BY <1>1, LiveIsMessage DEF TypeInv
<1>3. Requeue(job[j]) \in Messages /\ Carries(Requeue(job[j]))
  BY <1>2 DEF Messages, Requeue, Stages, Carries
<1>4. CASE ResolveThrows(j)
  <2> DEFINE m == IF job[j].seen + 1 >= MaxAttempts
                  THEN [job[j] EXCEPT !.stage = "handover", !.answer = Null]
                  ELSE AfterException(job[j])
  <2>1. m \in Messages /\ Carries(m)
    <3>1. AfterException(job[j]) \in Messages /\ Carries(AfterException(job[j]))
      BY <1>2 DEF Messages, AfterException, Requeue, Stages, Failing, Carries
    <3>2. /\ [job[j] EXCEPT !.stage = "handover", !.answer = Null] \in Messages
          /\ [job[j] EXCEPT !.stage = "handover", !.answer = Null].stage = "handover"
      BY <1>2 DEF Messages, Stages, Failing, Held
    <3> QED BY <3>1, <3>2 DEF Carries
  <2>2. job' = [job EXCEPT ![j] = m] /\ observation' = observation
    BY <1>4 DEF ResolveThrows
  <2>3. attempts' \in [Submissions -> Nat]
    BY <1>2, <1>4 DEF ResolveThrows, TypeInv, TypeOK, Messages
  <2>4. status' \in [Submissions -> Statuses]
    <3>1. At(j, "resolve", "answered") => job[j].answer \in GoodAnswers
      BY DEF TypeInv, Carries, At
    <3> QED BY <1>2, <1>4, <3>1 DEF ResolveThrows, TypeInv, TypeOK, GoodAnswers, Statuses
  <2>5. faults' \in 0..MaxFaults
    BY <1>4, PipelineAssumption DEF PipelineAssumption, ResolveThrows, TypeInv, TypeOK
  <2> HIDE DEF m
  <2> QED BY <1>4, <2>1, <2>2, <2>3, <2>4, <2>5, OnePlaceTypes DEF ResolveThrows, TypeInv, TypeOK
<1>5. CASE ScoreThrows(j)
  BY <1>3, <1>5, OnePlaceTypes DEF ScoreThrows, Settle, rowVars, TypeInv, TypeOK,
     Carries, NoMessage
<1>6. CASE WorkerKilled(j)
  <2>1. faults' \in 0..MaxFaults
    BY <1>6, PipelineAssumption DEF PipelineAssumption, WorkerKilled, TypeInv, TypeOK
  <2> QED BY <1>3, <1>6, <2>1, OnePlaceTypes
          DEF WorkerKilled, Settle, rowVars, TypeInv, TypeOK, Carries, NoMessage
<1>7. CASE MessageLost(j)
  <2>1. faults' \in 0..MaxFaults
    BY <1>7, PipelineAssumption DEF PipelineAssumption, MessageLost, TypeInv, TypeOK
  <2> QED BY <1>7, <2>1, OnePlaceTypes
          DEF MessageLost, rowVars, TypeInv, TypeOK, Carries, NoMessage
<1> QED BY <1>4, <1>5, <1>6, <1>7 DEF JobFault

LEMMA DispatchTypes ==
  ASSUME TypeInv, NEW k \in Kinds, NEW s \in Submissions, Dispatch(k, s),
         observation' = observation
  PROVE  /\ job' \in [Jobs -> Messages \union {NoMessage}]
         /\ \A i \in Jobs : Carries(job[i])'
         /\ lock' \subseteq Kinds \X Submissions
<1>1. Message(k, s) \in Messages /\ Carries(Message(k, s))
  BY FreshMessageType DEF Carries
<1>2. PICK j \in Jobs : job' = [job EXCEPT ![j] = Message(k, s)]
  BY DEF Dispatch
<1>3. lock' \subseteq Kinds \X Submissions
  BY DEF Dispatch, TypeInv, TypeOK
<1> QED BY <1>1, <1>2, <1>3, OnePlaceTypes

LEMMA RowStepTypes ==
  ASSUME TypeInv, NEW s \in Submissions, Intake(s) \/ Sweep(s) \/ Review(s)
  PROVE  TypeInv'
<1>k. "resolve" \in Kinds /\ "score" \in Kinds
  BY DEF Kinds
<1>1. CASE RecordReported(s)
  BY <1>1, <1>k, DispatchTypes DEF RecordReported, TypeInv, TypeOK, Statuses
<1>2. CASE RecordSilently(s)
  BY <1>2 DEF RecordSilently, queueVars, TypeInv, TypeOK, Statuses, Carries
<1>3. CASE SweepUnresolved(s)
  BY <1>3, <1>k, DispatchTypes DEF SweepUnresolved, rowVars, TypeInv, TypeOK
<1>4. CASE SweepUnscored(s)
  BY <1>4, <1>k, DispatchTypes DEF SweepUnscored, rowVars, TypeInv, TypeOK
<1>6. CASE Show(s)
  BY <1>6 DEF Show, queueVars, TypeInv, TypeOK, Carries
<1>5. CASE (\E i \in Items : Approve(s, i)) \/ Reject(s)
  <2>1. /\ status' \in [Submissions -> Statuses]
        /\ resolution' \in [Submissions -> Resolutions \union {Null}]
    <3>1. CASE Reject(s)
      BY <3>1 DEF Reject, TypeInv, TypeOK, Statuses, Resolutions
    <3>2. ASSUME NEW i \in Items, Approve(s, i)
          PROVE  /\ status' \in [Submissions -> Statuses]
                 /\ resolution' \in [Submissions -> Resolutions \union {Null}]
      BY <3>2 DEF Approve, TypeInv, TypeOK, Statuses, Resolutions
    <3> QED BY <1>5, <3>1, <3>2
  <2>2. /\ observation' \in [Submissions -> Observations \union {Null}]
        /\ \A r \in Submissions : observation[r] # Null => observation'[r] # Null
    <3>1. \/ observation' = observation
          \/ \E o \in Observations : observation' = [observation EXCEPT ![s] = o]
      <4>1. CASE Reject(s) /\ observation[s] # Null
        <5>1. [observation[s] EXCEPT !.valid = FALSE] \in Observations
          BY <4>1 DEF TypeInv, TypeOK, Observations
        <5> QED BY <4>1, <5>1 DEF Reject
      <4>2. CASE Reject(s) /\ observation[s] = Null
        BY <4>2 DEF Reject
      <4>3. ASSUME NEW i \in Items, Approve(s, i)
            PROVE  \/ observation' = observation
                   \/ \E o \in Observations : observation' = [observation EXCEPT ![s] = o]
        <5>1. [item |-> i, valid |-> TRUE] \in Observations
          BY DEF Observations
        <5> QED BY <4>3, <5>1 DEF Approve
      <4> QED BY <1>5, <4>1, <4>2, <4>3
    <3> QED BY <3>1, NullAssumption DEF NullAssumption, TypeInv, TypeOK
  <2>3. ASSUME NEW i \in Jobs PROVE Carries(job[i])'
    <3>1. job'[i] = job[i] /\ Carries(job[i])
      BY <1>5 DEF Approve, Reject, queueVars, TypeInv
    <3>2. CASE job[i].stage = "screening"
      <4>1. job[i].sub \in Submissions
        BY <3>2, LiveIsMessage DEF Live, TypeInv
      <4> QED BY <3>1, <4>1, <2>2 DEF Carries
    <3> QED BY <3>1, <3>2 DEF Carries
  <2>4. ruled' \in BOOLEAN
    BY <1>5, Zenon DEF Approve, Reject, TypeInv, TypeOK
  <2>5. UNCHANGED <<attempts, scores, shown, job, lock, faults>>
    BY <1>5 DEF Approve, Reject, queueVars
  <2> QED BY <2>1, <2>2, <2>3, <2>4, <2>5 DEF TypeInv, TypeOK
<1> QED BY <1>1, <1>2, <1>3, <1>4, <1>5, <1>6 DEF Intake, Sweep, Review

LEMMA TypeStep == TypeInv /\ [Next]_vars => TypeInv'
<1> SUFFICES ASSUME TypeInv, [Next]_vars PROVE TypeInv'
  OBVIOUS
<1>1. CASE \E j \in Jobs : WorkerStep(j) \/ JobFault(j)
  BY <1>1, ResolveStepTypes, ScoreStepTypes, AcknowledgeTypes, JobFaultTypes DEF WorkerStep
<1>2. CASE \E s \in Submissions : Intake(s) \/ Sweep(s) \/ Review(s)
  BY <1>2, RowStepTypes
<1>3. CASE \E k \in Kinds, s \in Submissions : LockLapses(k, s)
  <2>1. faults' \in 0..MaxFaults
    BY <1>3, PipelineAssumption DEF PipelineAssumption, LockLapses, TypeInv, TypeOK
  <2> QED BY <1>3, <2>1 DEF LockLapses, rowVars, TypeInv, TypeOK, Carries
<1>4. CASE UNCHANGED vars
  BY <1>4 DEF vars, TypeInv, TypeOK, Carries
<1> QED BY <1>1, <1>2, <1>3, <1>4 DEF Next

\* Every variable keeps its type, whatever lapses, is torn, lost or killed.
THEOREM TypeCorrect == Spec => []TypeOK
<1>1. TypeInv => TypeOK
  BY DEF TypeInv
<1> QED BY <1>1, TypeInit, TypeStep, PTL DEF Spec

-----------------------------------------------------------------------------
(* What the database alone guarantees, whatever becomes of the locks *)

Published(s) ==
  observation[s] # Null
    => /\ observation'[s] # Null
       /\ observation'[s].item = observation[s].item
       /\ observation'[s].valid => observation[s].valid

\* Condemning one price is the only way to touch a published one.
LEMMA CondemningPublishesNothing ==
  ASSUME TypeInv, NEW s \in Submissions, observation[s] # Null,
         observation' = [observation EXCEPT ![s].valid = FALSE],
         NEW r \in Submissions
  PROVE  Published(r)
<1>1. observation[s] \in Observations
  BY DEF TypeInv, TypeOK
<1>2. [observation[s] EXCEPT !.valid = FALSE] \in Observations
  BY <1>1 DEF Observations
<1>3. CASE r = s
  <2>1. observation'[r] = [observation[s] EXCEPT !.valid = FALSE]
    BY <1>3 DEF TypeInv, TypeOK
  <2>2. /\ [observation[s] EXCEPT !.valid = FALSE].item = observation[s].item
        /\ ~[observation[s] EXCEPT !.valid = FALSE].valid
    BY <1>1 DEF Observations
  <2> QED BY <1>2, <1>3, <2>1, <2>2, NullAssumption DEF NullAssumption, Published
<1>4. CASE r # s
  BY <1>4 DEF Published, TypeInv, TypeOK
<1> QED BY <1>3, <1>4

\* A first price for a row leaves the prices of the others alone.
LEMMA FirstPrice ==
  ASSUME TypeInv, NEW s \in Submissions, observation[s] = Null, NEW o,
         observation' = [observation EXCEPT ![s] = o], NEW r \in Submissions
  PROVE  Published(r)
BY DEF Published, TypeInv, TypeOK

LEMMA SamePrices ==
  ASSUME UNCHANGED observation, NEW r \in Submissions
  PROVE  Published(r)
BY DEF Published

LEMMA WorkerPublishesOnce ==
  ASSUME TypeInv, NEW j \in Jobs, WorkerStep(j) \/ JobFault(j), NEW r \in Submissions
  PROVE  Published(r)
<1>1. CASE Commit(j)
  <2>1. job[j].sub \in Submissions
    BY <1>1, LiveIsMessage DEF Commit, At, TypeInv
  <2>2. CASE job[j].answer.to = "resolved"
    <3> DEFINE o == [item |-> job[j].answer.item, valid |-> TRUE]
    <3>1. /\ observation[job[j].sub] = Null
          /\ observation' = [observation EXCEPT ![job[j].sub] = o]
      BY <1>1, <2>2 DEF Commit
    <3> HIDE DEF o
    <3> QED BY <2>1, <3>1, FirstPrice
  <2>3. CASE job[j].answer.to # "resolved"
    BY <1>1, <2>3, SamePrices DEF Commit
  <2> QED BY <2>2, <2>3
<1>2. CASE RecordVerdict(j)
  <2>1. job[j].sub \in Submissions /\ observation[job[j].sub] # Null
    BY <1>2, LiveIsMessage DEF RecordVerdict, At, TypeInv, Carries
  <2>2. \/ observation' = observation
        \/ observation' = [observation EXCEPT ![job[j].sub].valid = FALSE]
    BY <1>2 DEF RecordVerdict
  <2> QED BY <2>1, <2>2, SamePrices, CondemningPublishesNothing
<1>3. CASE ~Commit(j) /\ ~RecordVerdict(j)
  <2>1. UNCHANGED observation
    BY <1>3 DEF WorkerStep, ResolveStep, ScoreStep, Acknowledge, JobFault, rowVars,
       ResolveLoad, ResolveSkip, ResolveGiveUp, MatcherUp, MatcherDown, Consult,
       CommitCollides, Finish, HandOver, FailedHook, FailedSkip, Surrender,
       ScoreLoad, ScoreSkip, NoVerdict, ResolveThrows, ScoreThrows, WorkerKilled,
       MessageLost
  <2> QED BY <2>1, SamePrices
<1> QED BY <1>1, <1>2, <1>3

LEMMA RowStepPublishesOnce ==
  ASSUME TypeInv, NEW s \in Submissions, Intake(s) \/ Sweep(s) \/ Review(s),
         NEW r \in Submissions
  PROVE  Published(r)
<1>1. CASE Intake(s) \/ Sweep(s)
  BY <1>1, SamePrices DEF Intake, Sweep, RecordReported, RecordSilently,
     SweepUnresolved, SweepUnscored, rowVars
<1>2. ASSUME NEW i \in Items, Approve(s, i) PROVE Published(r)
  <2> DEFINE o == [item |-> i, valid |-> TRUE]
  <2>1. \/ observation' = observation
        \/ observation[s] = Null /\ observation' = [observation EXCEPT ![s] = o]
    BY <1>2 DEF Approve
  <2> HIDE DEF o
  <2> QED BY <2>1, SamePrices, FirstPrice
<1>3. CASE Reject(s)
  <2>1. \/ observation' = observation
        \/ observation[s] # Null /\ observation' = [observation EXCEPT ![s].valid = FALSE]
    BY <1>3 DEF Reject
  <2> QED BY <2>1, SamePrices, CondemningPublishesNothing
<1>4. CASE Show(s)
  BY <1>4, SamePrices DEF Show
<1> QED BY <1>1, <1>2, <1>3, <1>4 DEF Review

\* A price is published once, for every assignment of the constants: the unique
\* index needs neither the uniqueness locks nor whole writes.
THEOREM PricesArePublishedOnce == Spec => PublicationIsFinal
<1>1. TypeInv /\ [Next]_vars => [\A r \in Submissions : Published(r)]_vars
  <2> SUFFICES ASSUME TypeInv, Next, NEW r \in Submissions PROVE Published(r)
    OBVIOUS
  <2>1. ASSUME NEW k \in Kinds, NEW s \in Submissions, LockLapses(k, s)
        PROVE  Published(r)
    BY <2>1, SamePrices DEF LockLapses, rowVars
  <2> QED BY <2>1, WorkerPublishesOnce, RowStepPublishesOnce DEF Next
<1>2. Spec => []TypeInv
  BY TypeInit, TypeStep, PTL DEF Spec
<1>3. [\A r \in Submissions : Published(r)]_vars
        => [\A s \in Submissions :
              observation[s] # Null
                => /\ observation'[s] # Null
                   /\ observation'[s].item = observation[s].item
                   /\ observation'[s].valid => observation[s].valid]_vars
  BY DEF Published
<1> QED BY <1>1, <1>2, <1>3, PTL DEF Spec, PublicationIsFinal

-----------------------------------------------------------------------------
(***************************************************************************)
(* Safety, for a lock that outlives its message and a database that does   *)
(* not refuse an UPDATE halfway through the transaction.                   *)
(*                                                                         *)
(* The argument.  A live resolve message holds the one lock of its row     *)
(* (Exclusive), so no two workers are between reading and writing the same *)
(* row, and a worker that will write a row still finds it pending          *)
(* (WorkerSees).  Nothing like it holds of scoring messages, whose locks   *)
(* lapse: a row may be screened by several workers, in any order with the  *)
(* decisions people make about it.  A row that is pending has no price, no *)
(* verdict and no reader, at most the note a worker left when it gave up,  *)
(* and every other row is in one of the shapes of RowInv.                  *)
(***************************************************************************)
LocksOutliveMessages == EarlyLapse = FALSE
WritesAreWhole == TornWrites = FALSE

\* An early lapse and a torn write are faults like any other: a step that ends in
\* a run without faults is neither.
LocksHold == LocksOutliveMessages \/ faults' = 0
WritesHold == WritesAreWhole \/ faults' = 0

LEMMA FaultsAreCounted ==
  ASSUME TypeOK, [Next]_vars
  PROVE  faults \in Nat /\ faults' \in {faults, faults + 1}
<1>1. faults \in Nat
  BY PipelineAssumption DEF PipelineAssumption, TypeOK
<1>2. ASSUME NEW j \in Jobs, WorkerStep(j) \/ JobFault(j) PROVE faults' \in {faults, faults + 1}
  <2>1. CASE ResolveStep(j)
    BY <2>1 DEF ResolveStep, ResolveLoad, ResolveSkip, ResolveGiveUp, MatcherUp, MatcherDown,
           Consult, Commit, CommitCollides, Finish, HandOver, FailedHook, FailedSkip, Surrender
  <2>2. CASE ScoreStep(j) \/ Acknowledge(j)
    BY <2>2 DEF ScoreStep, ScoreLoad, ScoreSkip, RecordVerdict, NoVerdict, Acknowledge
  <2>3. CASE JobFault(j)
    BY <2>3 DEF JobFault, ResolveThrows, ScoreThrows, WorkerKilled, MessageLost
  <2> QED BY <1>2, <2>1, <2>2, <2>3 DEF WorkerStep
<1>3. ASSUME NEW s \in Submissions, Intake(s) \/ Sweep(s) \/ Review(s)
      PROVE  faults' \in {faults, faults + 1}
  BY <1>3 DEF Intake, Sweep, Review, RecordReported, RecordSilently, SweepUnresolved,
              SweepUnscored, Show, Approve, Reject, queueVars
<1>4. ASSUME (\E k \in Kinds, s \in Submissions : LockLapses(k, s)) \/ UNCHANGED vars
      PROVE  faults' \in {faults, faults + 1}
  BY <1>4 DEF LockLapses, vars
<1> QED BY <1>1, <1>2, <1>3, <1>4 DEF Next

LockIsHeld ==
  \A j \in Jobs : Live(j) /\ job[j].kind = "resolve" => <<"resolve", job[j].sub>> \in lock

Exclusive == LockIsHeld /\ OneMessagePerRow

WorkerSees(j) ==
  \A g \in Writing : At(j, "resolve", g) => status[job[j].sub] = "pending"

RowInv(s) ==
  /\ status[s] \in {"none", "pending"} => observation[s] = Null /\ scores[s] = 0
  /\ status[s] \in {"none", "pending"} /\ resolution[s] # Null
       => resolution[s].method = "rule"
  /\ status[s] = "resolved" => observation[s] # Null /\ resolution[s] # Null
  /\ status[s] = "rejected" /\ observation[s] # Null => ~observation[s].valid
  /\ status[s] = "resolved" /\ resolution[s].method = "fused"
       => observation[s] = [item |-> resolution[s].item, valid |-> TRUE]
  /\ status[s] = "needs_review" /\ resolution[s] # Null /\ resolution[s].method = "human"
       => scores[s] > 0

\* A reviewer was only ever shown rows the machine had let go of.
ShownWaited == \A s \in shown : status[s] \notin {"none", "pending"}

IInv ==
  /\ TypeInv
  /\ Exclusive
  /\ ShownWaited
  /\ \A j \in Jobs : WorkerSees(j)
  /\ \A s \in Submissions : RowInv(s)

-----------------------------------------------------------------------------
(* Exclusion *)

\* A worker deletes its message, or keeps it and its lock.
LEMMA MoveKeepsExclusion ==
  ASSUME TypeOK, Exclusive, NEW j \in Jobs, Live(j), NEW m,
         job' = [job EXCEPT ![j] = m],
         \/ m.stage = "none" /\ lock' \in {lock, lock \ {<<job[j].kind, job[j].sub>>}}
         \/ m.kind = job[j].kind /\ m.sub = job[j].sub /\ lock' = lock
  PROVE  Exclusive'
<1>1. \A i \in Jobs : i # j => job'[i] = job[i]
  BY DEF TypeOK
<1>2. job'[j] = m
  BY DEF TypeOK
<1>3. \A i \in Jobs : Live(i) /\ job[i].kind = "resolve" /\ i # j
         => <<"resolve", job[i].sub>> # <<job[j].kind, job[j].sub>>
  BY DEF Exclusive, OneMessagePerRow
<1>4. LockIsHeld'
  <2> SUFFICES ASSUME NEW i \in Jobs, job'[i].stage # "none", job'[i].kind = "resolve"
               PROVE  <<"resolve", job'[i].sub>> \in lock'
    BY DEF LockIsHeld, Live
  <2>1. CASE i # j
    <3>1. <<"resolve", job[i].sub>> \in lock
      BY <1>1, <2>1 DEF Exclusive, LockIsHeld, Live
    <3>2. <<"resolve", job[i].sub>> # <<job[j].kind, job[j].sub>>
      BY <1>1, <1>3, <2>1 DEF Live
    <3> QED BY <1>1, <2>1, <3>1, <3>2
  <2>2. CASE i = j
    <3>1. job[j].kind = "resolve" /\ job'[i].sub = job[j].sub /\ lock' = lock
      BY <1>2, <2>2
    <3> QED BY <3>1 DEF Exclusive, LockIsHeld
  <2> QED BY <2>1, <2>2
<1>5. ASSUME NEW i \in Jobs, Live(i)', job'[i].kind = "resolve"
      PROVE  Live(i) /\ job[i].kind = "resolve" /\ job'[i].sub = job[i].sub
  BY <1>1, <1>2, <1>5 DEF Live
<1>6. OneMessagePerRow'
  BY <1>5 DEF Exclusive, OneMessagePerRow
<1> QED BY <1>4, <1>6 DEF Exclusive

\* A new message takes a lock nobody held, in a place no live message keeps
\* except one whose own lock goes at the same time.
LEMMA FreshKeepsExclusion ==
  ASSUME TypeOK, Exclusive, NEW j \in Jobs, NEW k \in Kinds, NEW s \in Submissions,
         <<k, s>> \notin lock,
         job' = [job EXCEPT ![j] = Message(k, s)],
         \/ ~Live(j) /\ lock' = lock \union {<<k, s>>}
         \/ Live(j) /\ lock' = (lock \ {<<job[j].kind, job[j].sub>>}) \union {<<k, s>>}
  PROVE  Exclusive'
<1>1. \A i \in Jobs : i # j => job'[i] = job[i]
  BY DEF TypeOK
<1>2. job'[j].kind = k /\ job'[j].sub = s
  BY DEF TypeOK, Message
<1>3. \A i \in Jobs : Live(i) /\ job[i].kind = "resolve" => <<"resolve", job[i].sub>> # <<k, s>>
  BY DEF Exclusive, LockIsHeld
<1>4. \A i \in Jobs : Live(i) /\ job[i].kind = "resolve" /\ Live(j) /\ i # j
         => <<"resolve", job[i].sub>> # <<job[j].kind, job[j].sub>>
  BY DEF Exclusive, OneMessagePerRow
<1>5. LockIsHeld'
  <2> SUFFICES ASSUME NEW i \in Jobs, job'[i].stage # "none", job'[i].kind = "resolve"
               PROVE  <<"resolve", job'[i].sub>> \in lock'
    BY DEF LockIsHeld, Live
  <2>1. CASE i # j
    <3>1. <<"resolve", job[i].sub>> \in lock
      BY <1>1, <2>1 DEF Exclusive, LockIsHeld, Live
    <3>2. Live(j) => <<"resolve", job[i].sub>> # <<job[j].kind, job[j].sub>>
      BY <1>1, <1>4, <2>1 DEF Live
    <3> QED BY <1>1, <2>1, <3>1, <3>2
  <2>2. CASE i = j
    BY <1>2, <2>2
  <2> QED BY <2>1, <2>2
<1>6. OneMessagePerRow'
  BY <1>1, <1>2, <1>3 DEF Exclusive, OneMessagePerRow, Live
<1> QED BY <1>5, <1>6 DEF Exclusive

\* What a worker step does to the queue: its message moves on or is deleted, or
\* a scoring message takes its place.
MovesOrSettles(j) ==
  \E m : /\ job' = [job EXCEPT ![j] = m]
         /\ \/ m.stage = "none" /\ lock' \in {lock, lock \ {<<job[j].kind, job[j].sub>>}}
            \/ m.kind = job[j].kind /\ m.sub = job[j].sub /\ lock' = lock

IsReplaced(j) ==
  /\ <<"score", job[j].sub>> \notin lock
  /\ job' = [job EXCEPT ![j] = Message("score", job[j].sub)]
  /\ lock' = (lock \ {<<job[j].kind, job[j].sub>>}) \union {<<"score", job[j].sub>>}

LEMMA WorkerStepShape ==
  ASSUME TypeOK, NEW j \in Jobs, WorkerStep(j) \/ JobFault(j)
  PROVE  Live(j) /\ (MovesOrSettles(j) \/ IsReplaced(j))
<1>1. Live(j)
  BY DEF WorkerStep, ResolveStep, ScoreStep, JobFault, ResolveLoad, ResolveSkip, ResolveGiveUp,
         MatcherUp, MatcherDown, Consult, Commit, CommitCollides, HandOver, FailedHook,
         FailedSkip, Surrender, Acknowledge, Finish, ScoreLoad, ScoreSkip, RecordVerdict,
         NoVerdict, ResolveThrows, ScoreThrows, WorkerKilled, MessageLost, At
<1>2. job[j] \in Messages
  BY <1>1, LiveIsMessage
<1>d. ASSUME NEW m, m.stage = "none", job' = [job EXCEPT ![j] = m],
             lock' \in {lock, lock \ {<<job[j].kind, job[j].sub>>}}
      PROVE  MovesOrSettles(j)
  BY <1>d DEF MovesOrSettles
<1>3. ASSUME Settle(j) PROVE MovesOrSettles(j)
  BY <1>3, <1>d, FreePlace DEF Settle
<1>4. ASSUME NEW m, m.kind = job[j].kind, m.sub = job[j].sub,
             job' = [job EXCEPT ![j] = m], UNCHANGED lock
      PROVE  MovesOrSettles(j)
  BY <1>4 DEF MovesOrSettles
<1>5. ASSUME job' = [job EXCEPT ![j] = Requeue(@)], UNCHANGED lock PROVE MovesOrSettles(j)
  <2>1. Requeue(job[j]).kind = job[j].kind /\ Requeue(job[j]).sub = job[j].sub
    BY <1>2 DEF Requeue, Messages
  <2>2. job' = [job EXCEPT ![j] = Requeue(job[j])]
    BY <1>5
  <2> QED BY <1>4, <1>5, <2>1, <2>2
<1>6. ASSUME NEW g, Advance(j, g), UNCHANGED lock PROVE MovesOrSettles(j)
  BY <1>2, <1>4, <1>6 DEF Advance, Messages
<1>7. CASE ResolveSkip(j) \/ CommitCollides(j) \/ FailedSkip(j) \/ Acknowledge(j)
  BY <1>1, <1>3, <1>7 DEF ResolveSkip, CommitCollides, FailedSkip, Acknowledge
<1>8. CASE ScoreSkip(j) \/ NoVerdict(j)
  BY <1>1, <1>3, <1>8 DEF ScoreSkip, NoVerdict
<1>9. CASE \/ ResolveGiveUp(j) \/ MatcherUp(j) \/ Commit(j) \/ RecordVerdict(j)
           \/ HandOver(j) \/ FailedHook(j)
  BY <1>1, <1>6, <1>9
  DEF ResolveGiveUp, MatcherUp, Commit, RecordVerdict, HandOver, FailedHook
<1>s. CASE Surrender(j)
  BY <1>1, <1>3, <1>6, <1>s DEF Surrender
<1>10. CASE ResolveLoad(j)
  <2> DEFINE m == [job[j] EXCEPT !.stage = "loaded", !.tries = @ + 1, !.seen = attempts[job[j].sub]]
  <2>1. m.kind = job[j].kind /\ m.sub = job[j].sub
    BY <1>2 DEF Messages
  <2>2. job' = [job EXCEPT ![j] = m] /\ UNCHANGED lock
    BY <1>10 DEF ResolveLoad
  <2> HIDE DEF m
  <2> QED BY <1>1, <1>4, <2>1, <2>2
<1>11. CASE MatcherDown(j)
  <2> DEFINE m == IF job[j].seen + 1 >= MaxAttempts
                  THEN [job[j] EXCEPT !.stage = "asking", !.seen = job[j].seen + 1]
                  ELSE Requeue(job[j])
  <2>1. m.kind = job[j].kind /\ m.sub = job[j].sub
    BY <1>2 DEF Requeue, Messages
  <2>2. job' = [job EXCEPT ![j] = m] /\ UNCHANGED lock
    BY <1>11 DEF MatcherDown
  <2> HIDE DEF m
  <2> QED BY <1>1, <1>4, <2>1, <2>2
<1>12. CASE Consult(j)
  <2>1. PICK a \in AnswersFor(job[j].sub) :
          job' = [job EXCEPT ![j].stage = "answered", ![j].answer = a]
    BY <1>12 DEF Consult
  <2> DEFINE m == [job[j] EXCEPT !.stage = "answered", !.answer = a]
  <2>2. m.kind = job[j].kind /\ m.sub = job[j].sub
    BY <1>2 DEF Messages
  <2>3. job' = [job EXCEPT ![j] = m] /\ UNCHANGED lock
    BY <1>12, <2>1 DEF Consult
  <2> HIDE DEF m
  <2> QED BY <1>1, <1>4, <2>2, <2>3
<1>13. CASE ScoreLoad(j)
  <2> DEFINE m == [job[j] EXCEPT !.stage = "screening", !.tries = @ + 1]
  <2>1. m.kind = job[j].kind /\ m.sub = job[j].sub
    BY <1>2 DEF Messages
  <2>2. job' = [job EXCEPT ![j] = m] /\ UNCHANGED lock
    BY <1>13 DEF ScoreLoad
  <2> HIDE DEF m
  <2> QED BY <1>1, <1>4, <2>1, <2>2
<1>14. CASE ResolveThrows(j)
  <2> DEFINE m == IF job[j].seen + 1 >= MaxAttempts
                  THEN [job[j] EXCEPT !.stage = "handover", !.answer = Null]
                  ELSE AfterException(job[j])
  <2>1. m.kind = job[j].kind /\ m.sub = job[j].sub
    BY <1>2 DEF AfterException, Requeue, Messages
  <2>2. job' = [job EXCEPT ![j] = m] /\ UNCHANGED lock
    BY <1>14 DEF ResolveThrows
  <2> HIDE DEF m
  <2> QED BY <1>1, <1>4, <2>1, <2>2
<1>15. CASE ScoreThrows(j)
  BY <1>1, <1>3, <1>5, <1>15 DEF ScoreThrows
<1>16. CASE WorkerKilled(j)
  BY <1>1, <1>3, <1>5, <1>16 DEF WorkerKilled
<1>17. CASE MessageLost(j)
  BY <1>1, <1>d, <1>17, FreePlace DEF MessageLost
<1>18. CASE Finish(j)
  <2>1. job[j].kind = "resolve"
    BY <1>18 DEF Finish, At
  <2> QED BY <1>1, <1>3, <1>18, <2>1 DEF Finish, IsReplaced
<1> QED
  BY <1>1, <1>7, <1>8, <1>9, <1>s, <1>10, <1>11, <1>12, <1>13, <1>14, <1>15, <1>16, <1>17, <1>18
  DEF WorkerStep, ResolveStep, ScoreStep, JobFault

LEMMA DispatchKeepsExclusion ==
  ASSUME TypeOK, Exclusive, NEW k \in Kinds, NEW s \in Submissions, Dispatch(k, s)
  PROVE  Exclusive'
<1>1. PICK j \in Jobs : ~Live(j) /\ job' = [job EXCEPT ![j] = Message(k, s)]
  BY DEF Dispatch
<1>2. <<k, s>> \notin lock /\ lock' = lock \union {<<k, s>>}
  BY DEF Dispatch
<1> QED BY <1>1, <1>2, FreshKeepsExclusion

LEMMA ExclusiveStep ==
  ASSUME TypeOK, Exclusive, LocksHold, [Next]_vars
  PROVE  Exclusive'
<1>k. "resolve" \in Kinds /\ "score" \in Kinds
  BY DEF Kinds
<1>u. ASSUME UNCHANGED <<job, lock>> PROVE Exclusive'
  BY <1>u DEF Exclusive, LockIsHeld, OneMessagePerRow, Live
<1>1. ASSUME NEW j \in Jobs, WorkerStep(j) \/ JobFault(j)
      PROVE  Exclusive'
  <2>1. Live(j)
    BY <1>1, WorkerStepShape
  <2>2. CASE MovesOrSettles(j)
    BY <2>1, <2>2, MoveKeepsExclusion DEF MovesOrSettles
  <2>3. CASE IsReplaced(j)
    <3>1. job[j].sub \in Submissions
      BY <2>1, LiveIsMessage
    <3> QED BY <1>k, <2>1, <2>3, <3>1, FreshKeepsExclusion DEF IsReplaced
  <2> QED BY <1>1, <2>2, <2>3, WorkerStepShape
<1>2. ASSUME NEW s \in Submissions, Intake(s) \/ Sweep(s) \/ Review(s)
      PROVE  Exclusive'
  <2>1. CASE RecordReported(s)
    BY <1>k, <2>1, DispatchKeepsExclusion DEF RecordReported
  <2>2. CASE Sweep(s)
    BY <1>k, <2>2, DispatchKeepsExclusion DEF Sweep, SweepUnresolved, SweepUnscored
  <2>3. CASE RecordSilently(s) \/ Review(s)
    BY <1>u, <2>3 DEF RecordSilently, Review, Show, Approve, Reject, queueVars
  <2> QED BY <1>2, <2>1, <2>2, <2>3 DEF Intake
<1>3. ASSUME NEW k \in Kinds, NEW s \in Submissions, LockLapses(k, s)
      PROVE  Exclusive'
  <2>1. (k = "score" \/ ~HasMessage(k, s)) /\ lock' = lock \ {<<k, s>>} /\ job' = job
    <3>1. EarlyLapse => faults' = 0
      BY DEF LocksHold, LocksOutliveMessages
    <3>2. faults' # faults + 1 \/ faults' # 0
      BY FaultsAreCounted
    <3> QED BY <1>3, <3>1, <3>2 DEF LockLapses, Kinds
  <2> QED BY <2>1 DEF Exclusive, LockIsHeld, OneMessagePerRow, HasMessage, Live
<1>4. CASE UNCHANGED vars
  BY <1>4, <1>u DEF vars
<1> QED BY <1>1, <1>2, <1>3, <1>4 DEF Next

-----------------------------------------------------------------------------
(* Workers and rows *)

\* Not between reading and writing the row.
Idle(i) == \A g \in Writing : ~At(i, "resolve", g)

\* A place the step does not touch, whose row it does not touch either or whose
\* worker is not relying on the row.
LEMMA Bystander ==
  ASSUME NEW i \in Jobs, WorkerSees(i), job'[i] = job[i],
         Idle(i) \/ UNCHANGED status[job[i].sub]
  PROVE  WorkerSees(i)'
BY DEF WorkerSees, Idle, At, Live

\* No worker relies on a row that is not pending.
LEMMA DecidedRowIsIdle ==
  ASSUME IInv, NEW i \in Jobs, status[job[i].sub] # "pending"
  PROVE  Idle(i)
BY DEF IInv, WorkerSees, Idle

\* While one worker writes a row, no other worker relies on it: another resolver
\* has no message, and a row with a price to screen is not pending.
LEMMA RivalIsIdle ==
  ASSUME IInv, NEW i \in Jobs, NEW j \in Jobs, i # j, job[i].sub = job[j].sub,
         (Live(j) /\ job[j].kind = "resolve") \/ At(j, "score", "screening")
  PROVE  Idle(i)
<1>1. CASE Live(j) /\ job[j].kind = "resolve"
  BY <1>1 DEF Idle, At, IInv, Exclusive, OneMessagePerRow
<1>2. CASE At(j, "score", "screening")
  <2>1. job[j].sub \in Submissions /\ observation[job[j].sub] # Null
    BY <1>2, LiveIsMessage DEF IInv, TypeInv, Carries, At
  <2>2. status[job[j].sub] # "pending"
    BY <2>1 DEF IInv, RowInv
  <2> QED BY <2>2, DecidedRowIsIdle
<1> QED BY <1>1, <1>2

\* A step that leaves the rows alone, or good, and moves one message.
LEMMA RowsAlone ==
  ASSUME IInv, UNCHANGED <<status, observation, scores>>,
         UNCHANGED resolution \/ \A s \in Submissions : RowInv(s)',
         NEW j \in Jobs, NEW m, job' = [job EXCEPT ![j] = m],
         m.stage \notin Writing \/ (m.sub = job[j].sub /\ status[m.sub] = "pending")
  PROVE  /\ \A i \in Jobs : WorkerSees(i)'
         /\ \A s \in Submissions : RowInv(s)'
<1>1. \A s \in Submissions : RowInv(s)'
  BY DEF IInv, RowInv
<1>2. ASSUME NEW i \in Jobs PROVE WorkerSees(i)'
  <2>1. CASE i = j
    <3>1. job'[i] = m
      BY <2>1 DEF IInv, TypeInv, TypeOK
    <3> QED BY <3>1 DEF WorkerSees, At
  <2>2. CASE i # j
    <3>1. job'[i] = job[i] /\ WorkerSees(i)
      BY <2>2 DEF IInv, TypeInv, TypeOK
    <3> QED BY <3>1, Bystander
  <2> QED BY <2>1, <2>2
<1> QED BY <1>1, <1>2

\* A step of one worker that ends in a stage at rest and writes its row.
LEMMA OwnRowWritten ==
  ASSUME IInv, NEW j \in Jobs, NEW m, job' = [job EXCEPT ![j] = m],
         m.stage \notin Writing,
         (Live(j) /\ job[j].kind = "resolve") \/ At(j, "score", "screening"),
         \A r \in Submissions \ {job[j].sub} :
           UNCHANGED <<status[r], resolution[r], observation[r], scores[r]>>,
         \A s \in Submissions : s = job[j].sub => RowInv(s)'
  PROVE  /\ \A i \in Jobs : WorkerSees(i)'
         /\ \A s \in Submissions : RowInv(s)'
<1>1. ASSUME NEW s \in Submissions PROVE RowInv(s)'
  <2>1. CASE s = job[j].sub
    BY <2>1
  <2>2. CASE s # job[j].sub
    <3>1. RowInv(s) /\ UNCHANGED <<status[s], resolution[s], observation[s], scores[s]>>
      BY <2>2 DEF IInv
    <3> QED BY <3>1 DEF RowInv
  <2> QED BY <2>1, <2>2
<1>2. ASSUME NEW i \in Jobs PROVE WorkerSees(i)'
  <2>1. CASE i = j
    <3>1. job'[i] = m
      BY <2>1 DEF IInv, TypeInv, TypeOK
    <3> QED BY <3>1 DEF WorkerSees, At
  <2>2. CASE i # j
    <3>1. job'[i] = job[i] /\ WorkerSees(i)
      BY <2>2 DEF IInv, TypeInv, TypeOK
    <3>2. CASE job[i].sub = job[j].sub
      BY <2>2, <3>1, <3>2, RivalIsIdle, Bystander
    <3>3. CASE job[i].sub # job[j].sub /\ Live(i)
      <4>1. job[i].sub \in Submissions
        BY <3>3, LiveIsMessage DEF IInv, TypeInv
      <4> QED BY <3>1, <3>3, <4>1, Bystander
    <3>4. CASE ~Live(i)
      BY <3>1, <3>4 DEF WorkerSees, At, Live
    <3> QED BY <3>2, <3>3, <3>4
  <2> QED BY <2>1, <2>2
<1> QED BY <1>1, <1>2

\* The note handToReview() leaves on a pending row is the only thing attached.
LEMMA NotedRow ==
  ASSUME TypeOK, NEW s \in Submissions, \A r \in Submissions : RowInv(r),
         status[s] = "pending", NoteFailure(s), UNCHANGED <<status, observation, scores>>
  PROVE  /\ \A r \in Submissions : RowInv(r)'
         /\ \A r \in Submissions \ {s} : UNCHANGED resolution[r]
<1>1. \A r \in Submissions \ {s} : UNCHANGED resolution[r]
  BY DEF NoteFailure, TypeOK
<1>2. resolution'[s].method = "rule"
  BY DEF NoteFailure, TypeOK
<1>3. ASSUME NEW r \in Submissions PROVE RowInv(r)'
  <2>1. RowInv(r)
    OBVIOUS
  <2>2. CASE r = s
    BY <1>2, <2>1, <2>2 DEF RowInv
  <2>3. CASE r # s
    BY <1>1, <2>1, <2>3 DEF RowInv
  <2> QED BY <2>2, <2>3
<1> QED BY <1>1, <1>3

\* The row a worker gives up joins the review queue with nothing published.
LEMMA SurrenderRow ==
  ASSUME IInv, NEW j \in Jobs, Surrender(j), NEW s \in Submissions, s = job[j].sub
  PROVE  /\ status[s] = "pending" /\ status'[s] = "needs_review"
         /\ UNCHANGED <<observation, scores>>
         /\ RowInv(s)'
         /\ \A r \in Submissions \ {s} :
              UNCHANGED <<status[r], resolution[r], observation[r], scores[r]>>
<1>1. status[s] = "pending"
  BY DEF Surrender, IInv, WorkerSees, Writing
<1>2. /\ status'[s] = "needs_review" /\ UNCHANGED <<resolution, observation, scores>>
      /\ \A r \in Submissions \ {s} : UNCHANGED status[r]
  BY DEF Surrender, IInv, TypeInv, TypeOK
<1>3. RowInv(s)'
  BY <1>1, <1>2 DEF IInv, RowInv
<1> QED BY <1>1, <1>2, <1>3

LEMMA CommitRow ==
  ASSUME IInv, NEW j \in Jobs, Commit(j), NEW s \in Submissions, s = job[j].sub
  PROVE  /\ status[s] = "pending"
         /\ RowInv(s)'
         /\ \A r \in Submissions \ {s} :
              UNCHANGED <<status[r], resolution[r], observation[r], scores[r]>>
<1> DEFINE a == job[j].answer
<1>1. a \in GoodAnswers
  BY DEF Commit, IInv, TypeInv, Carries, At
<1>2. status[s] = "pending"
  BY DEF Commit, IInv, WorkerSees, Writing
<1>3. observation[s] = Null /\ scores[s] = 0
  BY <1>2 DEF IInv, RowInv
<1>4. /\ status' = [status EXCEPT ![s] = a.to]
      /\ resolution' = [resolution EXCEPT ![s] = [item |-> a.item, method |-> a.method]]
      /\ observation' = IF a.to = "resolved"
                        THEN [observation EXCEPT ![s] = [item |-> a.item, valid |-> TRUE]]
                        ELSE observation
      /\ scores' = scores
  BY DEF Commit
<1>5. \A r \in Submissions \ {s} :
        UNCHANGED <<status[r], resolution[r], observation[r], scores[r]>>
  BY <1>4 DEF IInv, TypeInv, TypeOK
<1>6. CASE a.to = "resolved"
  <2>1. a.item \in Items
    BY <1>1, <1>6 DEF GoodAnswers
  <2>2. /\ [item |-> a.item, method |-> a.method] # Null
        /\ [item |-> a.item, valid |-> TRUE] # Null
    <3>1. [item |-> a.item, method |-> a.method] \in Resolutions
      BY <1>1, <2>1 DEF GoodAnswers, Resolutions
    <3>2. [item |-> a.item, valid |-> TRUE] \in Observations
      BY <2>1 DEF Observations
    <3> QED BY <3>1, <3>2, NullAssumption DEF NullAssumption
  <2>3. /\ status'[s] = "resolved"
        /\ resolution'[s] = [item |-> a.item, method |-> a.method]
        /\ observation'[s] = [item |-> a.item, valid |-> TRUE]
        /\ scores'[s] = 0
    BY <1>3, <1>4, <1>6 DEF IInv, TypeInv, TypeOK
  <2> QED BY <1>2, <1>5, <2>2, <2>3 DEF RowInv
<1>7. CASE a.to # "resolved"
  <2>1. status'[s] \in {"needs_review", "rejected"} /\ observation'[s] = Null /\ scores'[s] = 0
    BY <1>1, <1>3, <1>4, <1>7 DEF GoodAnswers, IInv, TypeInv, TypeOK
  <2>2. resolution'[s].method = a.method /\ a.method # "human"
    BY <1>1, <1>4 DEF GoodAnswers, IInv, TypeInv, TypeOK
  <2> QED BY <1>2, <1>5, <2>1, <2>2 DEF RowInv
<1> QED BY <1>6, <1>7

\* A verdict may come to any row that has a price, decided by whomever: it leaves the
\* row as it is, or sends it to the review queue.
LEMMA VerdictRow ==
  ASSUME IInv, NEW j \in Jobs, RecordVerdict(j), NEW s \in Submissions, s = job[j].sub
  PROVE  /\ status[s] \notin {"none", "pending"} /\ observation[s] \in Observations
         /\ \/ status'[s] = status[s] /\ observation'[s] = observation[s]
            \/ /\ status'[s] = "needs_review"
               /\ observation'[s] \in {observation[s], [observation[s] EXCEPT !.valid = FALSE]}
         /\ scores'[s] = scores[s] + 1 /\ scores[s] \in Nat
         /\ RowInv(s)'
         /\ \A r \in Submissions \ {s} :
              UNCHANGED <<status[r], resolution[r], observation[r], scores[r]>>
<1>1. At(j, "score", "screening")
  BY DEF RecordVerdict
<1>2. observation[s] # Null
  BY <1>1 DEF IInv, TypeInv, Carries, At
<1>3. status[s] \notin {"none", "pending"} /\ observation[s] \in Observations
  BY <1>2 DEF IInv, RowInv, TypeInv, TypeOK
<1>4. scores'[s] = scores[s] + 1 /\ scores[s] \in Nat /\ resolution' = resolution
  BY DEF RecordVerdict, IInv, TypeInv, TypeOK
<1>5. \/ status'[s] = status[s] /\ observation'[s] = observation[s]
      \/ /\ status'[s] = "needs_review"
         /\ observation'[s] \in {observation[s], [observation[s] EXCEPT !.valid = FALSE]}
  BY <1>3 DEF RecordVerdict, IInv, TypeInv, TypeOK
<1>6. \A r \in Submissions \ {s} :
        UNCHANGED <<status[r], resolution[r], observation[r], scores[r]>>
  BY DEF RecordVerdict, IInv, TypeInv, TypeOK
<1>7. scores'[s] > 0
  BY <1>4
<1>8. RowInv(s)'
  <2>1. RowInv(s)
    BY DEF IInv
  <2> QED BY <1>3, <1>4, <1>5, <1>7, <2>1 DEF RowInv
<1> QED BY <1>3, <1>4, <1>5, <1>6, <1>8

\* A reviewer decides what one was shown, whatever became of it since.
LEMMA ReviewRow ==
  ASSUME IInv, NEW s \in Submissions, Review(s)
  PROVE  /\ status[s] \notin {"none", "pending"}
         /\ RowInv(s)'
         /\ \A r \in Submissions \ {s} :
              UNCHANGED <<status[r], resolution[r], observation[r], scores[r]>>
<1>1. status[s] \notin {"none", "pending"}
  BY DEF Review, Show, Approve, Reject, IInv, ShownWaited
<1>2. \A r \in Submissions \ {s} :
        UNCHANGED <<status[r], resolution[r], observation[r], scores[r]>>
  BY DEF Review, Show, Approve, Reject, IInv, TypeInv, TypeOK
<1>3. ASSUME Reject(s) PROVE RowInv(s)'
  <2>1. status'[s] = "rejected" /\ scores' = scores
    BY <1>3 DEF Reject, IInv, TypeInv, TypeOK
  <2>2. CASE observation[s] = Null
    BY <1>3, <2>1, <2>2 DEF Reject, RowInv, IInv
  <2>3. CASE observation[s] # Null
    <3>1. observation[s] \in Observations
      BY <2>3 DEF IInv, TypeInv, TypeOK
    <3>2. ~observation'[s].valid
      BY <1>3, <2>3, <3>1 DEF Reject, IInv, TypeInv, TypeOK, Observations
    <3> QED BY <2>1, <3>1, <3>2 DEF RowInv
  <2> QED BY <2>2, <2>3
<1>4. ASSUME NEW i \in Items, Approve(s, i) PROVE RowInv(s)'
  <2>1. /\ status'[s] = "resolved" /\ scores' = scores
        /\ resolution'[s] = [item |-> i, method |-> "human"]
    BY <1>4 DEF Approve, IInv, TypeInv, TypeOK
  <2>2. resolution'[s] # Null /\ resolution'[s].method = "human"
    <3>1. [item |-> i, method |-> "human"] \in Resolutions
      BY DEF Resolutions
    <3> QED BY <2>1, <3>1, NullAssumption DEF NullAssumption
  <2>3. observation'[s] # Null
    <3>1. [item |-> i, valid |-> TRUE] \in Observations
      BY DEF Observations
    <3> QED BY <1>4, <3>1, NullAssumption DEF NullAssumption, Approve, IInv, TypeInv, TypeOK
  <2> QED BY <2>1, <2>2, <2>3 DEF RowInv, IInv
<1>5. ASSUME Show(s) PROVE RowInv(s)'
  BY <1>5 DEF Show, RowInv, IInv
<1> QED BY <1>1, <1>2, <1>3, <1>4, <1>5 DEF Review

LEMMA WorkerStepRows ==
  ASSUME IInv, WritesHold, NEW j \in Jobs, WorkerStep(j) \/ JobFault(j)
  PROVE  /\ \A i \in Jobs : WorkerSees(i)'
         /\ \A s \in Submissions : RowInv(s)'
<1> DEFINE Goal == /\ \A i \in Jobs : WorkerSees(i)'
                   /\ \A s \in Submissions : RowInv(s)'
           s == job[j].sub
<1>1. Live(j)
  BY WorkerStepShape DEF IInv, TypeInv
<1>2. job[j] \in Messages /\ s \in Submissions
  BY <1>1, LiveIsMessage DEF IInv, TypeInv
<1> HIDE DEF Goal
<1>3. ASSUME UNCHANGED <<status, resolution, observation, scores>>, NEW m,
             job' = [job EXCEPT ![j] = m],
             m.stage \notin Writing \/ (m.sub = s /\ status[s] = "pending")
      PROVE  Goal
  BY <1>3, RowsAlone DEF Goal
<1>4. ASSUME Settle(j) PROVE job' = [job EXCEPT ![j] = NoMessage]
                             /\ NoMessage.stage \notin Writing
  BY <1>4, FreePlace DEF Settle, Writing
<1>5. Requeue(job[j]).stage = "queued" /\ "queued" \notin Writing
  BY <1>2 DEF Requeue, Messages, Writing
<1>6. CASE \/ ResolveSkip(j) \/ CommitCollides(j) \/ ScoreSkip(j) \/ NoVerdict(j)
           \/ FailedSkip(j) \/ Acknowledge(j)
           \/ (ScoreThrows(j) /\ Settle(j)) \/ (WorkerKilled(j) /\ Settle(j))
           \/ (Finish(j) /\ Settle(j))
  <2>1. Settle(j) /\ UNCHANGED <<status, resolution, observation, scores>>
    BY <1>6 DEF ResolveSkip, CommitCollides, ScoreSkip, NoVerdict, FailedSkip, Acknowledge,
                ScoreThrows, WorkerKilled, Finish, rowVars
  <2> QED BY <1>3, <1>4, <2>1 DEF Goal
<1>7. CASE (ScoreThrows(j) \/ WorkerKilled(j)) /\ job' = [job EXCEPT ![j] = Requeue(job[j])]
  BY <1>3, <1>5, <1>7 DEF ScoreThrows, WorkerKilled, rowVars, Goal
<1>8. CASE MessageLost(j)
  BY <1>3, <1>8, FreePlace DEF MessageLost, rowVars, Writing, Goal
<1>9. CASE Finish(j) /\ job' = [job EXCEPT ![j] = Message("score", s)]
  <2>1. Message("score", s).stage = "queued"
    BY DEF Message
  <2> QED BY <1>3, <1>5, <1>9, <2>1 DEF Finish, rowVars, Goal
<1>10. CASE ResolveLoad(j)
  <2> DEFINE m == [job[j] EXCEPT !.stage = "loaded", !.tries = @ + 1, !.seen = attempts[s]]
  <2>1. m.stage = "loaded" /\ m.sub = s
    BY <1>2 DEF Messages
  <2>2. job' = [job EXCEPT ![j] = m] /\ status[s] = "pending"
        /\ UNCHANGED <<status, resolution, observation, scores>>
    BY <1>10 DEF ResolveLoad, rowVars
  <2> HIDE DEF m
  <2> QED BY <1>3, <2>1, <2>2 DEF Goal
<1>11. CASE ResolveGiveUp(j) \/ MatcherUp(j)
  <2>1. PICK g : Advance(j, g) /\ (g = "failing" \/ (g = "asking" /\ At(j, "resolve", "loaded")))
    BY <1>11 DEF ResolveGiveUp, MatcherUp
  <2> DEFINE m == [job[j] EXCEPT !.stage = g]
  <2>2. m.stage = g /\ m.sub = s
    BY <1>2 DEF Messages
  <2>3. job' = [job EXCEPT ![j] = m] /\ UNCHANGED <<status, resolution, observation, scores>>
    BY <1>11, <2>1 DEF ResolveGiveUp, MatcherUp, Advance, rowVars
  <2>4. At(j, "resolve", "loaded") => status[s] = "pending"
    BY DEF IInv, WorkerSees, Writing
  <2> HIDE DEF m
  <2> QED BY <1>3, <2>1, <2>2, <2>3, <2>4 DEF Goal, Writing
<1>12. CASE MatcherDown(j)
  <2> DEFINE m == IF job[j].seen + 1 >= MaxAttempts
                  THEN [job[j] EXCEPT !.stage = "asking", !.seen = job[j].seen + 1]
                  ELSE Requeue(job[j])
  <2>1. m.stage \in {"asking", "queued"} /\ m.sub = s
    BY <1>2 DEF Requeue, Messages
  <2>2. job' = [job EXCEPT ![j] = m] /\ UNCHANGED <<status, resolution, observation, scores>>
    BY <1>12 DEF MatcherDown
  <2>3. status[s] = "pending"
    BY <1>12 DEF MatcherDown, IInv, WorkerSees, Writing
  <2> HIDE DEF m
  <2> QED BY <1>3, <2>1, <2>2, <2>3 DEF Goal
<1>13. CASE Consult(j)
  <2>1. PICK a \in AnswersFor(s) : job' = [job EXCEPT ![j].stage = "answered", ![j].answer = a]
    BY <1>13 DEF Consult
  <2> DEFINE m == [job[j] EXCEPT !.stage = "answered", !.answer = a]
  <2>2. m.stage = "answered" /\ m.sub = s
    BY <1>2 DEF Messages
  <2>3. job' = [job EXCEPT ![j] = m] /\ UNCHANGED <<status, resolution, observation, scores>>
    BY <1>13, <2>1 DEF Consult, rowVars
  <2>4. status[s] = "pending"
    BY <1>13 DEF Consult, IInv, WorkerSees, Writing
  <2> HIDE DEF m
  <2> QED BY <1>3, <2>2, <2>3, <2>4 DEF Goal
<1>14. CASE ScoreLoad(j)
  <2> DEFINE m == [job[j] EXCEPT !.stage = "screening", !.tries = @ + 1]
  <2>1. m.stage = "screening"
    BY <1>2 DEF Messages
  <2>2. job' = [job EXCEPT ![j] = m]
        /\ UNCHANGED <<status, resolution, observation, scores>>
    BY <1>14 DEF ScoreLoad, rowVars
  <2> HIDE DEF m
  <2> QED BY <1>3, <2>1, <2>2 DEF Goal, Writing
<1>15. CASE ResolveThrows(j)
  <2> DEFINE m == IF job[j].seen + 1 >= MaxAttempts
                  THEN [job[j] EXCEPT !.stage = "handover", !.answer = Null]
                  ELSE AfterException(job[j])
  <2>1. m.stage \in {"handover", "queued", "failing"} /\ m.sub = s
    BY <1>2 DEF AfterException, Requeue, Messages
  <2>2. job' = [job EXCEPT ![j] = m] /\ UNCHANGED <<status, resolution, observation, scores>>
    <3>1. TornWrites => faults' = 0
      BY DEF WritesHold, WritesAreWhole
    <3>2. faults' # faults + 1 \/ faults' # 0
      BY FaultsAreCounted DEF Next, IInv, TypeInv
    <3> QED BY <1>15, <3>1, <3>2 DEF ResolveThrows
  <2>3. status[s] = "pending"
    BY <1>15 DEF ResolveThrows, IInv, WorkerSees, Writing
  <2> HIDE DEF m
  <2> QED BY <1>3, <2>1, <2>2, <2>3 DEF Goal
<1>16. CASE Commit(j)
  <2> DEFINE m == [job[j] EXCEPT !.stage = "committed"]
  <2>1. m.stage \notin Writing
    BY <1>2 DEF Messages, Writing
  <2>2. job' = [job EXCEPT ![j] = m] /\ job[j].kind = "resolve"
    BY <1>16 DEF Commit, Advance, At
  <2> HIDE DEF m
  <2> QED BY <1>1, <1>2, <1>16, <2>1, <2>2, CommitRow, OwnRowWritten DEF Goal
<1>17. CASE HandOver(j) \/ FailedHook(j)
  <2>1. PICK g \in {"handing", "burying"} : Advance(j, g)
    BY <1>17 DEF HandOver, FailedHook
  <2> DEFINE m == [job[j] EXCEPT !.stage = g]
  <2>2. m.stage = g /\ m.sub = s /\ job' = [job EXCEPT ![j] = m]
    BY <1>2, <2>1 DEF Messages, Advance
  <2>3. status[s] = "pending"
    BY <1>17 DEF HandOver, FailedHook, IInv, WorkerSees, Writing
  <2>4. NoteFailure(s) /\ UNCHANGED <<status, observation, scores>>
    BY <1>17 DEF HandOver, FailedHook
  <2>5. \A r \in Submissions : RowInv(r)'
    BY <1>2, <2>3, <2>4, NotedRow DEF IInv, TypeInv
  <2> HIDE DEF m
  <2> QED BY <2>2, <2>3, <2>4, <2>5, RowsAlone DEF Goal
<1>18. CASE Surrender(j)
  <2>1. PICK m : job' = [job EXCEPT ![j] = m] /\ m.stage \notin Writing
    <3>1. CASE Settle(j)
      BY <1>4, <3>1
    <3>2. CASE Advance(j, "done")
      <4> DEFINE n == [job[j] EXCEPT !.stage = "done"]
      <4>1. job' = [job EXCEPT ![j] = n] /\ n.stage = "done" /\ "done" \notin Writing
        BY <1>2, <3>2 DEF Advance, Messages, Writing
      <4> HIDE DEF n
      <4> QED BY <4>1
    <3> QED BY <1>18, <3>1, <3>2 DEF Surrender
  <2>2. job[j].kind = "resolve"
    BY <1>18 DEF Surrender, At
  <2>3. /\ status[s] = "pending"
        /\ \A t \in Submissions : t = s => RowInv(t)'
        /\ \A r \in Submissions \ {s} :
             UNCHANGED <<status[r], resolution[r], observation[r], scores[r]>>
    BY <1>2, <1>18, SurrenderRow
  <2> QED BY <1>1, <2>1, <2>2, <2>3, OwnRowWritten DEF Goal
<1>19. CASE RecordVerdict(j)
  <2> DEFINE m == [job[j] EXCEPT !.stage = "done"]
  <2>1. m.stage \notin Writing
    BY <1>2 DEF Messages, Writing
  <2>2. job' = [job EXCEPT ![j] = m] /\ At(j, "score", "screening")
    BY <1>19 DEF RecordVerdict, Advance
  <2>3. /\ \A t \in Submissions : t = s => RowInv(t)'
        /\ \A r \in Submissions \ {s} :
             UNCHANGED <<status[r], resolution[r], observation[r], scores[r]>>
    BY <1>2, <1>19, VerdictRow
  <2> HIDE DEF m
  <2> QED BY <2>1, <2>2, <2>3, OwnRowWritten DEF Goal
<1>20. Goal
  <2>1. CASE ResolveStep(j)
    <3>1. Finish(j) => Settle(j) \/ job' = [job EXCEPT ![j] = Message("score", s)]
      BY DEF Finish
    <3> QED BY <2>1, <3>1, <1>6, <1>9, <1>10, <1>11, <1>12, <1>13, <1>16, <1>17, <1>18
            DEF ResolveStep, Goal
  <2>2. CASE ScoreStep(j)
    BY <2>2, <1>6, <1>14, <1>19 DEF ScoreStep, Goal
  <2>3. CASE Acknowledge(j)
    BY <2>3, <1>6 DEF Goal
  <2>4. CASE JobFault(j)
    <3>1. ScoreThrows(j) => Settle(j) \/ job' = [job EXCEPT ![j] = Requeue(job[j])]
      BY DEF ScoreThrows
    <3>2. WorkerKilled(j) => Settle(j) \/ job' = [job EXCEPT ![j] = Requeue(job[j])]
      BY DEF WorkerKilled
    <3> QED BY <2>4, <3>1, <3>2, <1>6, <1>7, <1>8, <1>15 DEF JobFault, Goal
  <2> QED BY <2>1, <2>2, <2>3, <2>4 DEF WorkerStep
<1> QED BY <1>20 DEF Goal

\* Dispatching changes no row and starts no work.
LEMMA DispatchRows ==
  ASSUME IInv, NEW k \in Kinds, NEW s \in Submissions, Dispatch(k, s),
         UNCHANGED <<status, resolution, observation, scores>>
  PROVE  /\ \A i \in Jobs : WorkerSees(i)'
         /\ \A r \in Submissions : RowInv(r)'
<1>1. PICK j \in Jobs : job' = [job EXCEPT ![j] = Message(k, s)]
  BY DEF Dispatch
<1>2. Message(k, s).stage \notin Writing
  BY DEF Message, Writing
<1> QED BY <1>1, <1>2, RowsAlone

\* A new row: no message can be about it that relies on its status.
LEMMA IntakeRows ==
  ASSUME IInv, NEW s \in Submissions, Intake(s)
  PROVE  /\ \A i \in Jobs : WorkerSees(i)'
         /\ \A r \in Submissions : RowInv(r)'
<1>1. /\ status[s] = "none" /\ status' = [status EXCEPT ![s] = "pending"]
      /\ UNCHANGED <<resolution, observation, scores>>
  BY DEF Intake, RecordReported, RecordSilently
<1>2. ASSUME NEW r \in Submissions PROVE RowInv(r)'
  <2>1. RowInv(r) /\ status'[s] = "pending" /\ (r # s => status'[r] = status[r])
    BY <1>1 DEF IInv, TypeInv, TypeOK
  <2> QED BY <1>1, <2>1 DEF RowInv
<1>3. ASSUME NEW i \in Jobs PROVE WorkerSees(i)'
  <2>1. job'[i] = job[i] \/ job'[i].stage = "queued"
    BY DEF Intake, RecordReported, RecordSilently, Dispatch, queueVars, Message,
           IInv, TypeInv, TypeOK
  <2>2. CASE job'[i].stage = "queued"
    BY <2>2 DEF WorkerSees, At, Writing
  <2>3. CASE job'[i] = job[i] /\ ~Live(i)
    BY <2>3 DEF WorkerSees, At, Live
  <2>4. CASE job'[i] = job[i] /\ Live(i)
    <3>1. WorkerSees(i) /\ job[i].sub \in Submissions
      BY <2>4, LiveIsMessage DEF IInv, TypeInv
    <3>2. status[job[i].sub] = "pending" => status'[job[i].sub] = "pending"
      BY <1>1, <3>1 DEF IInv, TypeInv, TypeOK
    <3> QED BY <1>1, <2>4, <3>1, <3>2 DEF WorkerSees, At, Live
  <2> QED BY <2>1, <2>2, <2>3, <2>4
<1> QED BY <1>2, <1>3

LEMMA ReviewRows ==
  ASSUME IInv, NEW s \in Submissions, Review(s)
  PROVE  /\ \A i \in Jobs : WorkerSees(i)'
         /\ \A r \in Submissions : RowInv(r)'
<1>1. ASSUME NEW r \in Submissions PROVE RowInv(r)'
  <2>1. CASE r = s
    BY <2>1, ReviewRow
  <2>2. CASE r # s
    <3>1. RowInv(r) /\ UNCHANGED <<status[r], resolution[r], observation[r], scores[r]>>
      BY <2>2, ReviewRow DEF IInv
    <3> QED BY <3>1 DEF RowInv
  <2> QED BY <2>1, <2>2
<1>2. ASSUME NEW i \in Jobs PROVE WorkerSees(i)'
  <2>1. job' = job /\ WorkerSees(i)
    BY DEF Review, Show, Approve, Reject, queueVars, IInv
  <2>2. CASE job[i].sub = s
    <3>1. Idle(i)
      BY <2>2, ReviewRow, DecidedRowIsIdle
    <3> QED BY <2>1, <3>1, Bystander
  <2>3. CASE job[i].sub # s /\ Live(i)
    <3>1. job[i].sub \in Submissions
      BY <2>3, LiveIsMessage DEF IInv, TypeInv
    <3> QED BY <2>1, <2>3, <3>1, ReviewRow, Bystander
  <2>4. CASE ~Live(i)
    BY <2>1, <2>4 DEF WorkerSees, At, Live
  <2> QED BY <2>2, <2>3, <2>4
<1> QED BY <1>1, <1>2

-----------------------------------------------------------------------------
(* A status only moves onward: no step, whatever lapses, is torn, killed or lost,
   makes a decided row pending again. *)

Undecided == {"none", "pending"}

Onward(s) ==
  /\ status[s] # "none" => status'[s] # "none"
  /\ status[s] \notin Undecided => status'[s] \notin Undecided

LEMMA StatusMovesOnward ==
  ASSUME TypeInv, [Next]_vars, NEW r \in Submissions
  PROVE  Onward(r)
<1>s. ASSUME UNCHANGED status PROVE Onward(r)
  BY <1>s DEF Onward
<1>w. ASSUME NEW s \in Submissions, NEW v, v \notin Undecided, status' = [status EXCEPT ![s] = v]
      PROVE  Onward(r)
  BY <1>w DEF Onward, Undecided, TypeInv, TypeOK
<1>1. ASSUME NEW j \in Jobs, WorkerStep(j) \/ JobFault(j) PROVE Onward(r)
  <2>1. job[j].sub \in Submissions
    BY <1>1, WorkerStepShape, LiveIsMessage DEF TypeInv
  <2>2. At(j, "resolve", "answered") => job[j].answer.to \notin Undecided
    BY DEF TypeInv, Carries, At, GoodAnswers, Undecided
  <2>3. CASE Commit(j) \/ ResolveThrows(j)
    <3>1. \/ UNCHANGED status
          \/ /\ At(j, "resolve", "answered")
             /\ status' = [status EXCEPT ![job[j].sub] = job[j].answer.to]
      BY <2>3 DEF Commit, ResolveThrows
    <3> QED BY <1>s, <1>w, <2>1, <2>2, <3>1
  <2>4. CASE Surrender(j) \/ RecordVerdict(j)
    <3>1. \/ UNCHANGED status
          \/ status' = [status EXCEPT ![job[j].sub] = "needs_review"]
      BY <2>4 DEF Surrender, RecordVerdict
    <3> QED BY <1>s, <1>w, <2>1, <3>1 DEF Undecided
  <2>5. CASE ~(Commit(j) \/ ResolveThrows(j) \/ Surrender(j) \/ RecordVerdict(j))
    <3>1. UNCHANGED status
      BY <1>1, <2>5 DEF WorkerStep, ResolveStep, ScoreStep, Acknowledge, JobFault, rowVars,
         ResolveLoad, ResolveSkip, ResolveGiveUp, MatcherUp, MatcherDown, Consult,
         CommitCollides, Finish, HandOver, FailedHook, FailedSkip,
         ScoreLoad, ScoreSkip, NoVerdict, ScoreThrows, WorkerKilled, MessageLost
    <3> QED BY <1>s, <3>1
  <2> QED BY <2>3, <2>4, <2>5
<1>2. ASSUME NEW s \in Submissions, Intake(s) \/ Sweep(s) \/ Review(s) PROVE Onward(r)
  <2>1. CASE Intake(s)
    <3>1. status[s] = "none" /\ status' = [status EXCEPT ![s] = "pending"]
      BY <2>1 DEF Intake, RecordReported, RecordSilently
    <3> QED BY <3>1 DEF Onward, Undecided, TypeInv, TypeOK
  <2>2. CASE Sweep(s)
    BY <1>s, <2>2 DEF Sweep, SweepUnresolved, SweepUnscored, rowVars
  <2>3. CASE Review(s)
    <3>1. \/ UNCHANGED status
          \/ status' = [status EXCEPT ![s] = "resolved"]
          \/ status' = [status EXCEPT ![s] = "rejected"]
      BY <2>3 DEF Review, Show, Approve, Reject
    <3> QED BY <1>s, <1>w, <3>1 DEF Undecided
  <2> QED BY <1>2, <2>1, <2>2, <2>3
<1>3. CASE (\E k \in Kinds, s \in Submissions : LockLapses(k, s)) \/ UNCHANGED vars
  BY <1>s, <1>3 DEF LockLapses, rowVars, vars
<1> QED BY <1>1, <1>2, <1>3 DEF Next

-----------------------------------------------------------------------------
(* The inductive invariant *)

LEMMA InvInit == Init => IInv
<1> SUFFICES ASSUME Init PROVE IInv
  OBVIOUS
<1>1. \A j \in Jobs : ~Live(j)
  BY FreePlace DEF Init, Live
<1>2. \A j \in Jobs : WorkerSees(j)
  BY <1>1 DEF WorkerSees, At
<1>3. Exclusive
  BY <1>1 DEF Exclusive, LockIsHeld, OneMessagePerRow
<1>4. \A s \in Submissions : RowInv(s)
  <2> SUFFICES ASSUME NEW s \in Submissions PROVE RowInv(s)
    OBVIOUS
  <2>1. status[s] = "none" /\ resolution[s] = Null /\ observation[s] = Null /\ scores[s] = 0
    BY DEF Init
  <2> QED BY <2>1 DEF RowInv
<1>5. ShownWaited
  BY DEF Init, ShownWaited
<1> QED BY <1>2, <1>3, <1>4, <1>5, TypeInit DEF IInv

\* A reviewer is shown what waits, and no step puts a row back in the machine's hands.
LEMMA ShownStep ==
  ASSUME TypeInv, ShownWaited, [Next]_vars
  PROVE  ShownWaited'
<1>1. \A r \in Submissions : Onward(r)
  BY StatusMovesOnward
<1>2. \/ shown' = shown
      \/ \E s \in Submissions : Show(s)
  <2>1. ASSUME NEW j \in Jobs, WorkerStep(j) \/ JobFault(j) PROVE shown' = shown
    <3>1. CASE ResolveStep(j)
      BY <3>1 DEF ResolveStep, ResolveLoad, ResolveSkip, ResolveGiveUp, MatcherUp, MatcherDown,
         Consult, Commit, CommitCollides, Finish, HandOver, FailedHook, FailedSkip, Surrender,
         rowVars
    <3>2. CASE ScoreStep(j) \/ Acknowledge(j)
      BY <3>2 DEF ScoreStep, ScoreLoad, ScoreSkip, RecordVerdict, NoVerdict, Acknowledge, rowVars
    <3>3. CASE JobFault(j)
      BY <3>3 DEF JobFault, ResolveThrows, ScoreThrows, WorkerKilled, MessageLost, rowVars
    <3> QED BY <2>1, <3>1, <3>2, <3>3 DEF WorkerStep
  <2>2. ASSUME NEW s \in Submissions, Intake(s) \/ Sweep(s) \/ Review(s)
        PROVE  shown' = shown \/ Show(s)
    BY <2>2 DEF Intake, Sweep, Review, RecordReported, RecordSilently, SweepUnresolved,
                SweepUnscored, Approve, Reject, rowVars
  <2>3. ASSUME (\E k \in Kinds, s \in Submissions : LockLapses(k, s)) \/ UNCHANGED vars
        PROVE  shown' = shown
    BY <2>3 DEF LockLapses, rowVars, vars
  <2> QED BY <2>1, <2>2, <2>3 DEF Next
<1>3. \A s \in shown' : status[s] \notin Undecided
  BY <1>2 DEF Show, ShownWaited, Undecided
<1>4. shown' \subseteq Submissions
  BY TypeStep DEF TypeInv, TypeOK
<1> QED BY <1>1, <1>3, <1>4 DEF ShownWaited, Onward, Undecided

LEMMA InvStep ==
  ASSUME LocksHold, WritesHold, IInv, [Next]_vars
  PROVE  IInv'
<1>1. TypeInv' /\ Exclusive' /\ ShownWaited'
  BY TypeStep, ExclusiveStep, ShownStep DEF IInv, TypeInv
<1> DEFINE Rows == /\ \A i \in Jobs : WorkerSees(i)'
                   /\ \A s \in Submissions : RowInv(s)'
<1>2. ASSUME NEW j \in Jobs, WorkerStep(j) \/ JobFault(j) PROVE Rows
  BY <1>2, WorkerStepRows
<1>3. ASSUME NEW s \in Submissions, Intake(s) \/ Sweep(s) \/ Review(s) PROVE Rows
  <2>1. CASE Sweep(s)
    <3>1. "resolve" \in Kinds /\ "score" \in Kinds
      BY DEF Kinds
    <3> QED BY <2>1, <3>1, DispatchRows DEF Sweep, SweepUnresolved, SweepUnscored, rowVars
  <2> QED BY <1>3, <2>1, IntakeRows, ReviewRows
<1>4. ASSUME (\E k \in Kinds, s \in Submissions : LockLapses(k, s)) \/ UNCHANGED vars
      PROVE  Rows
  <2>1. UNCHANGED <<job, status, resolution, observation, scores>>
    BY <1>4 DEF LockLapses, rowVars, vars
  <2>2. ASSUME NEW i \in Jobs PROVE WorkerSees(i)'
    BY <2>1 DEF IInv, WorkerSees, At, Live
  <2>3. ASSUME NEW s \in Submissions PROVE RowInv(s)'
    <3>1. RowInv(s)
      BY DEF IInv
    <3> QED BY <2>1, <3>1 DEF RowInv
  <2> QED BY <2>2, <2>3
<1> HIDE DEF Rows
<1>5. Rows
  BY <1>2, <1>3, <1>4 DEF Next
<1> QED BY <1>1, <1>5 DEF IInv, Rows

\* Under the two assumptions every reachable state satisfies the invariant.
THEOREM Invariance ==
  ASSUME LocksOutliveMessages, WritesAreWhole
  PROVE  Spec => []IInv
<1>1. IInv /\ [Next]_vars => IInv'
  BY InvStep DEF LocksHold, WritesHold
<1> QED BY <1>1, InvInit, PTL DEF Spec

-----------------------------------------------------------------------------
(* What the invariant gives *)

\* ShouldBeUnique works for resolving: at most one such message exists for a row.
\* This much needs no assumption about the database.
THEOREM OneMessage ==
  ASSUME LocksOutliveMessages
  PROVE  Spec => []OneMessagePerRow
<1>1. Init => TypeInv /\ Exclusive
  BY TypeInit, InvInit DEF IInv
<1>2. TypeInv /\ Exclusive /\ [Next]_vars => (TypeInv /\ Exclusive)'
  BY TypeStep, ExclusiveStep DEF TypeInv, LocksHold
<1>3. Exclusive => OneMessagePerRow
  BY DEF Exclusive
<1> QED BY <1>1, <1>2, <1>3, PTL DEF Spec

\* What a worker read before the ML call is still true when it writes.
THEOREM StaleReadsAreHarmless ==
  ASSUME LocksOutliveMessages, WritesAreWhole
  PROVE  Spec => []WorkerWritesPendingRow
<1>1. IInv => WorkerWritesPendingRow
  BY DEF IInv, WorkerSees, WorkerWritesPendingRow
<1> QED BY <1>1, Invariance, PTL

\* A resolved row has a price observation.
THEOREM ResolvedRowsAreBacked ==
  ASSUME LocksOutliveMessages, WritesAreWhole
  PROVE  Spec => []ResolvedIsBacked
<1>1. IInv => ResolvedIsBacked
  BY DEF IInv, RowInv, ResolvedIsBacked
<1> QED BY <1>1, Invariance, PTL

\* A rejected row's price does not count.
THEOREM RejectionsCount ==
  ASSUME LocksOutliveMessages, WritesAreWhole
  PROVE  Spec => []RejectedStaysOut
<1>1. IInv => RejectedStaysOut
  BY DEF IInv, RowInv, RejectedStaysOut
<1> QED BY <1>1, Invariance, PTL

\* What the machine publishes is what it matched, and screening has not condemned it.
THEOREM MachineIsConsistent ==
  ASSUME LocksOutliveMessages, WritesAreWhole
  PROVE  Spec => []MachinePublishesItsMatch
<1>1. IInv => MachinePublishesItsMatch
  BY DEF IInv, RowInv, MachinePublishesItsMatch
<1> QED BY <1>1, Invariance, PTL

\* Only a verdict brings a row a person decided back before a person.
THEOREM ReopenedRowsAreScreened ==
  ASSUME LocksOutliveMessages, WritesAreWhole
  PROVE  Spec => []ReopenedIsScreened
<1>1. IInv => ReopenedIsScreened
  BY DEF IInv, RowInv, ReopenedIsScreened
<1> QED BY <1>1, Invariance, PTL

-----------------------------------------------------------------------------
(* Steps *)

\* What a step does to the rows: nothing, or one row is noted as failed, or one
\* row moves along its life.
NoRowMoves == UNCHANGED <<status, resolution, observation, scores, shown>>

OthersKeep(s) ==
  \A r \in Submissions \ {s} :
    UNCHANGED <<status[r], resolution[r], observation[r], scores[r]>>

RowNoted(s) ==
  /\ status[s] = "pending"
  /\ UNCHANGED <<status, observation, scores, shown>>
  /\ \A r \in Submissions \ {s} : UNCHANGED resolution[r]

RowMoves(s) ==
  /\ OthersKeep(s)
  /\ RowInv(s) /\ RowInv(s)'
  /\ shown' = shown \/ Show(s)
  /\ \/ Intake(s)
     \/ /\ status[s] = "pending"
        /\ UNCHANGED scores[s]
        /\ \/ status'[s] = "resolved" /\ \E i \in Items : observation'[s] = [item |-> i, valid |-> TRUE]
           \/ status'[s] \in {"needs_review", "rejected"} /\ UNCHANGED observation[s]
     \/ \E j \in Jobs : RecordVerdict(j) /\ s = job[j].sub
     \/ Review(s)

\* An attempt counted is invisible to the rows' life.
LEMMA StepMovesOneRow ==
  ASSUME LocksOutliveMessages, WritesAreWhole, IInv, [Next]_vars
  PROVE  NoRowMoves \/ \E s \in Submissions : RowNoted(s) \/ RowMoves(s)
<1>i. \A s \in Submissions : RowInv(s) /\ RowInv(s)'
  BY InvStep DEF IInv, LocksHold, WritesHold
<1>1. ASSUME NEW j \in Jobs, WorkerStep(j) \/ JobFault(j)
      PROVE  NoRowMoves \/ \E s \in Submissions : RowNoted(s) \/ RowMoves(s)
  <2> DEFINE s == job[j].sub
  <2>1. s \in Submissions
    BY <1>1, WorkerStepShape, LiveIsMessage DEF IInv, TypeInv
  <2>2. CASE Commit(j)
    <3>1. status[s] = "pending" /\ OthersKeep(s)
      BY <2>1, <2>2, CommitRow DEF OthersKeep
    <3>2. job[j].answer \in GoodAnswers /\ scores' = scores /\ shown' = shown
      BY <2>2 DEF Commit, IInv, TypeInv, Carries, At
    <3>3. CASE job[j].answer.to = "resolved"
      <4>1. /\ job[j].answer.item \in Items
            /\ status'[s] = "resolved"
            /\ observation'[s] = [item |-> job[j].answer.item, valid |-> TRUE]
        BY <2>1, <2>2, <3>2, <3>3 DEF GoodAnswers, Commit, IInv, TypeInv, TypeOK
      <4> QED BY <1>i, <2>1, <3>1, <3>2, <4>1 DEF RowMoves
    <3>4. CASE job[j].answer.to # "resolved"
      <4>1. status'[s] \in {"needs_review", "rejected"} /\ observation' = observation
        BY <2>1, <2>2, <3>2, <3>4 DEF GoodAnswers, Commit, IInv, TypeInv, TypeOK
      <4> QED BY <1>i, <2>1, <3>1, <3>2, <4>1 DEF RowMoves
    <3> QED BY <3>3, <3>4
  <2>3. CASE HandOver(j) \/ FailedHook(j)
    <3>1. /\ status[s] = "pending" /\ NoteFailure(s)
          /\ UNCHANGED <<status, observation, scores, shown>>
      BY <2>3 DEF HandOver, FailedHook, IInv, WorkerSees, Writing
    <3>2. \A r \in Submissions \ {s} : UNCHANGED resolution[r]
      BY <2>1, <3>1, NotedRow DEF IInv, TypeInv
    <3> QED BY <2>1, <3>1, <3>2 DEF RowNoted
  <2>s. CASE Surrender(j)
    <3>1. /\ status[s] = "pending" /\ status'[s] = "needs_review"
          /\ UNCHANGED <<observation, scores>> /\ OthersKeep(s)
      BY <2>1, <2>s, SurrenderRow DEF OthersKeep
    <3>2. shown' = shown
      BY <2>s DEF Surrender
    <3> QED BY <1>i, <2>1, <3>1, <3>2 DEF RowMoves
  <2>4. CASE RecordVerdict(j)
    <3>1. OthersKeep(s) /\ shown' = shown
      BY <2>1, <2>4, VerdictRow DEF OthersKeep, RecordVerdict
    <3> QED BY <1>i, <2>1, <2>4, <3>1 DEF RowMoves
  <2>5. CASE FailedSkip(j) \/ Acknowledge(j)
    BY <2>5 DEF FailedSkip, Acknowledge, rowVars, NoRowMoves
  <2>6. CASE JobFault(j)
    BY <2>6 DEF JobFault, ResolveThrows, ScoreThrows, WorkerKilled, MessageLost, WritesAreWhole,
                rowVars, NoRowMoves
  <2>7. CASE \/ ResolveLoad(j) \/ ResolveSkip(j) \/ ResolveGiveUp(j) \/ MatcherUp(j)
             \/ MatcherDown(j) \/ Consult(j) \/ CommitCollides(j) \/ Finish(j)
             \/ ScoreLoad(j) \/ ScoreSkip(j) \/ NoVerdict(j)
    BY <2>7 DEF ResolveLoad, ResolveSkip, ResolveGiveUp, MatcherUp, MatcherDown, Consult,
                CommitCollides, Finish, ScoreLoad, ScoreSkip, NoVerdict, rowVars, NoRowMoves
  <2> QED BY <1>1, <2>2, <2>3, <2>s, <2>4, <2>5, <2>6, <2>7
          DEF WorkerStep, ResolveStep, ScoreStep
<1>2. ASSUME NEW s \in Submissions, Intake(s) \/ Sweep(s) \/ Review(s)
      PROVE  NoRowMoves \/ \E r \in Submissions : RowNoted(r) \/ RowMoves(r)
  <2>1. CASE Sweep(s)
    BY <2>1 DEF Sweep, SweepUnresolved, SweepUnscored, rowVars, NoRowMoves
  <2>2. CASE Intake(s)
    <3>1. OthersKeep(s) /\ shown' = shown
      BY <2>2 DEF Intake, RecordReported, RecordSilently, OthersKeep, IInv, TypeInv, TypeOK
    <3> QED BY <1>i, <2>2, <3>1 DEF RowMoves
  <2>3. CASE Review(s)
    <3>1. OthersKeep(s) /\ (shown' = shown \/ Show(s))
      BY <2>3, ReviewRow DEF OthersKeep, Review, Approve, Reject
    <3> QED BY <1>i, <2>3, <3>1 DEF RowMoves
  <2> QED BY <1>2, <2>1, <2>2, <2>3
<1>3. CASE (\E k \in Kinds, s \in Submissions : LockLapses(k, s)) \/ UNCHANGED vars
  BY <1>3 DEF LockLapses, rowVars, vars, NoRowMoves
<1> QED BY <1>1, <1>2, <1>3 DEF Next

\* No machine step replaces a resolution a person recorded.
THEOREM HumanVerdictIsFinal ==
  ASSUME LocksOutliveMessages, WritesAreWhole
  PROVE  Spec => HumanVerdictStands
<1> DEFINE Stands == \A s \in Submissions :
             resolution[s] # Null /\ resolution[s].method = "human"
               => resolution'[s].method = "human"
<1>1. ASSUME IInv, [Next]_vars PROVE Stands
  <2> SUFFICES ASSUME NEW r \in Submissions, resolution[r] # Null, resolution[r].method = "human"
               PROVE  resolution'[r].method = "human"
    OBVIOUS
  <2>1. CASE NoRowMoves
    BY <2>1 DEF NoRowMoves
  <2>2. ASSUME NEW s \in Submissions, RowMoves(s) PROVE resolution'[r].method = "human"
    <3>1. CASE r # s
      BY <2>2, <3>1 DEF RowMoves, OthersKeep
    <3>2. CASE r = s /\ status[s] \in {"none", "pending"}
      BY <2>2, <3>2 DEF RowMoves, RowInv
    <3>3. CASE r = s /\ Review(s)
      <4>1. CASE Reject(r)
        BY <4>1 DEF Reject, IInv, TypeInv, TypeOK
      <4>2. ASSUME NEW i \in Items, Approve(r, i) PROVE resolution'[r].method = "human"
        BY <4>2 DEF Approve, IInv, TypeInv, TypeOK
      <4>3. CASE Show(r)
        BY <4>3 DEF Show
      <4> QED BY <3>3, <4>1, <4>2, <4>3 DEF Review
    <3>4. CASE r = s /\ \E j \in Jobs : RecordVerdict(j) /\ s = job[j].sub
      BY <3>4 DEF RecordVerdict
    <3>5. Intake(s) => status[s] = "none"
      BY DEF Intake, RecordReported, RecordSilently
    <3> QED BY <2>2, <3>1, <3>2, <3>3, <3>4, <3>5 DEF RowMoves
  <2>3. ASSUME NEW s \in Submissions, RowNoted(s) PROVE resolution'[r].method = "human"
    <3>1. r # s
      BY <1>1, <2>3 DEF IInv, RowInv, RowNoted
    <3> QED BY <2>3, <3>1 DEF RowNoted
  <2> QED BY <1>1, <2>1, <2>2, <2>3, StepMovesOneRow
<1>2. IInv /\ [Next]_vars => [Stands]_vars
  BY <1>1
<1> QED BY <1>2, Invariance, PTL DEF Spec, HumanVerdictStands

-----------------------------------------------------------------------------
(* Refinement *)

LEMMA RefinementInit == Init => Lifecycle!LifecycleInit
<1> SUFFICES ASSUME Init PROVE Lifecycle!LifecycleInit
  OBVIOUS
<1>1. \A s \in Submissions : Price(s) = "none" /\ (scores[s] > 0) = FALSE
  BY DEF Init, Price
<1>2. [s \in Submissions |-> Price(s)] = [s \in Submissions |-> "none"]
  BY <1>1
<1>3. [s \in Submissions |-> scores[s] > 0] = [s \in Submissions |-> FALSE]
  BY <1>1
<1> QED BY <1>2, <1>3 DEF Init, Lifecycle!LifecycleInit

\* The abstract state of the rows a step leaves alone.
LEMMA OthersLookTheSame ==
  ASSUME NEW s \in Submissions, OthersKeep(s)
  PROVE  \A r \in Submissions \ {s} :
           /\ status'[r] = status[r]
           /\ Price(r)' = Price(r)
           /\ (scores'[r] > 0) = (scores[r] > 0)
BY DEF OthersKeep, Price

\* The abstract variables after a step that moves s, as EXCEPTs.
LEMMA AbstractRow ==
  ASSUME NEW s \in Submissions, OthersKeep(s),
         status \in [Submissions -> Statuses], status' \in [Submissions -> Statuses]
  PROVE  /\ status' = [status EXCEPT ![s] = status'[s]]
         /\ [r \in Submissions |-> Price(r)]'
              = [[r \in Submissions |-> Price(r)] EXCEPT ![s] = Price(s)']
         /\ [r \in Submissions |-> scores[r] > 0]'
              = [[r \in Submissions |-> scores[r] > 0] EXCEPT ![s] = scores'[s] > 0]
<1>1. \A r \in Submissions \ {s} :
           /\ status'[r] = status[r]
           /\ Price(r)' = Price(r)
           /\ (scores'[r] > 0) = (scores[r] > 0)
  BY OthersLookTheSame
<1>2. status' = [status EXCEPT ![s] = status'[s]]
  BY <1>1
<1>3. [r \in Submissions |-> Price(r)]'
              = [[r \in Submissions |-> Price(r)] EXCEPT ![s] = Price(s)']
  BY <1>1
<1>4. [r \in Submissions |-> scores[r] > 0]'
              = [[r \in Submissions |-> scores[r] > 0] EXCEPT ![s] = scores'[s] > 0]
  BY <1>1
<1> QED BY <1>2, <1>3, <1>4

\* A row that moves takes one step of its life.
LEMMA RowTakesAStep ==
  ASSUME IInv, TypeOK', NEW s \in Submissions, RowMoves(s)
  PROVE  Lifecycle!LifecycleNext
<1> DEFINE price == [r \in Submissions |-> Price(r)]
           screened == [r \in Submissions |-> scores[r] > 0]
<1>1. /\ status' = [status EXCEPT ![s] = status'[s]]
      /\ price' = [price EXCEPT ![s] = Price(s)']
      /\ screened' = [screened EXCEPT ![s] = scores'[s] > 0]
  BY AbstractRow DEF RowMoves, IInv, TypeInv, TypeOK
<1>2. price[s] = Price(s) /\ screened[s] = (scores[s] > 0)
  OBVIOUS
<1>3. ASSUME Price(s)' = Price(s) PROVE price' = price
  BY <1>1, <1>2, <1>3
<1>4. ASSUME scores'[s] = scores[s] PROVE screened' = screened
  BY <1>1, <1>2, <1>4
<1> HIDE DEF price, screened
<1>u. CASE Show(s)
  <2>1. /\ status[s] = "needs_review" /\ shown' = shown \union {s}
        /\ UNCHANGED <<status, observation, scores>>
    BY <1>u DEF Show
  <2>2. Lifecycle!Show(s)
    BY <1>3, <1>4, <2>1 DEF Lifecycle!Show, Price, price, screened
  <2> QED BY <2>2 DEF Lifecycle!LifecycleNext
<1>v. shown' = shown \/ Show(s)
  BY DEF RowMoves
<1>5. CASE Intake(s)
  <2>1. /\ status[s] = "none" /\ status'[s] = "pending"
        /\ UNCHANGED <<observation, scores, shown>>
    BY <1>5 DEF Intake, RecordReported, RecordSilently, IInv, TypeInv, TypeOK
  <2>2. Lifecycle!Receive(s)
    BY <1>1, <1>3, <1>4, <2>1 DEF Lifecycle!Receive, Price, price, screened
  <2> QED BY <2>2 DEF Lifecycle!LifecycleNext
<1>6. CASE status[s] = "pending" /\ UNCHANGED scores[s] /\ status'[s] = "resolved"
           /\ \E i \in Items : observation'[s] = [item |-> i, valid |-> TRUE]
  <2>1. PICK i \in Items : observation'[s] = [item |-> i, valid |-> TRUE]
    BY <1>6
  <2>2. observation'[s] # Null
    <3>1. [item |-> i, valid |-> TRUE] \in Observations
      BY DEF Observations
    <3> QED BY <2>1, <3>1, NullAssumption DEF NullAssumption
  <2>3. Price(s)' = "valid"
    BY <2>1, <2>2 DEF Price
  <2>4. CASE shown' = shown
    <3>1. Lifecycle!Publish(s)
      BY <1>1, <1>4, <1>6, <2>3, <2>4 DEF Lifecycle!Publish, price, screened
    <3> QED BY <3>1 DEF Lifecycle!LifecycleNext
  <2> QED BY <1>u, <1>v, <2>4
<1>7. CASE status[s] = "pending" /\ UNCHANGED scores[s]
           /\ status'[s] \in {"needs_review", "rejected"} /\ UNCHANGED observation[s]
  <2>1. Price(s)' = Price(s)
    BY <1>7 DEF Price
  <2>2. CASE shown' = shown
    <3>1. Lifecycle!Decline(s)
      BY <1>1, <1>3, <1>4, <1>7, <2>1, <2>2 DEF Lifecycle!Decline, price, screened
    <3> QED BY <3>1 DEF Lifecycle!LifecycleNext
  <2> QED BY <1>u, <1>v, <2>2
<1>8. ASSUME NEW j \in Jobs, RecordVerdict(j), s = job[j].sub
      PROVE  Lifecycle!LifecycleNext
  <2>1. /\ observation[s] \in Observations
        /\ \/ status'[s] = status[s] /\ observation'[s] = observation[s]
           \/ /\ status'[s] = "needs_review"
              /\ observation'[s] \in {observation[s], [observation[s] EXCEPT !.valid = FALSE]}
        /\ scores'[s] = scores[s] + 1 /\ scores[s] \in Nat
        /\ shown' = shown
    BY <1>8, VerdictRow DEF RecordVerdict
  <2>2. screened' = [screened EXCEPT ![s] = TRUE]
    <3>1. (scores'[s] > 0) = TRUE
      BY <2>1
    <3> QED BY <1>1, <3>1
  <2>3. price[s] # "none"
    BY <1>2, <2>1, NullAssumption DEF NullAssumption, Price
  <2>4. CASE status'[s] = status[s] /\ observation'[s] = observation[s]
    <3>1. status' = status
      BY <1>1, <2>4 DEF IInv, TypeInv, TypeOK
    <3>2. price' = price
      BY <1>3, <2>4 DEF Price
    <3>3. Lifecycle!Screen(s)
      BY <2>1, <2>2, <2>3, <3>1, <3>2 DEF Lifecycle!Screen, price, screened
    <3> QED BY <3>3 DEF Lifecycle!LifecycleNext
  <2>5. CASE /\ status'[s] = "needs_review"
             /\ observation'[s] \in {observation[s], [observation[s] EXCEPT !.valid = FALSE]}
    <3>1. Price(s)' = Price(s) \/ Price(s)' = "invalid"
      <4>1. [observation[s] EXCEPT !.valid = FALSE] \in Observations
            /\ ~[observation[s] EXCEPT !.valid = FALSE].valid
        BY <2>1 DEF Observations
      <4> QED BY <2>1, <2>5, <4>1, NullAssumption DEF NullAssumption, Price
    <3>2. price' = price \/ price' = [price EXCEPT ![s] = "invalid"]
      BY <1>1, <1>3, <3>1
    <3>3. status' = [status EXCEPT ![s] = "needs_review"]
      BY <1>1, <2>5
    <3>4. Lifecycle!Screen(s)
      BY <2>1, <2>2, <2>3, <3>2, <3>3 DEF Lifecycle!Screen, price, screened
    <3> QED BY <3>4 DEF Lifecycle!LifecycleNext
  <2> QED BY <2>1, <2>4, <2>5
<1>9. ASSUME NEW i \in Items, Approve(s, i) PROVE Lifecycle!LifecycleNext
  <2>1. s \in shown /\ shown' = shown /\ status'[s] = "resolved" /\ scores' = scores
    BY <1>9 DEF Approve, IInv, TypeInv, TypeOK
  <2>2. CASE observation[s] = Null
    <3>1. [item |-> i, valid |-> TRUE] \in Observations
      BY DEF Observations
    <3>2. observation'[s] = [item |-> i, valid |-> TRUE]
      BY <1>9, <2>2 DEF Approve, IInv, TypeInv, TypeOK
    <3>3. Price(s) = "none" /\ Price(s)' = "valid"
      <4>1. observation'[s] # Null
        BY <3>1, <3>2, NullAssumption DEF NullAssumption
      <4> QED BY <2>2, <3>2, <4>1 DEF Price
    <3>4. Lifecycle!Confirm(s)
      BY <1>1, <1>2, <1>4, <2>1, <3>3 DEF Lifecycle!Confirm, price, screened
    <3> QED BY <3>4 DEF Lifecycle!LifecycleNext
  <2>3. CASE observation[s] # Null
    <3>1. observation' = observation
      BY <1>9, <2>3 DEF Approve
    <3>2. Price(s)' = Price(s)
      BY <3>1 DEF Price
    <3>3. Price(s) # "none"
      BY <2>3 DEF Price
    <3>4. Lifecycle!Confirm(s)
      BY <1>1, <1>2, <1>4, <2>1, <3>2, <3>3 DEF Lifecycle!Confirm, price, screened
    <3> QED BY <3>4 DEF Lifecycle!LifecycleNext
  <2> QED BY <2>2, <2>3
<1>10. ASSUME Reject(s) PROVE Lifecycle!LifecycleNext
  <2>1. s \in shown /\ shown' = shown /\ status'[s] = "rejected" /\ scores' = scores
    BY <1>10 DEF Reject, IInv, TypeInv, TypeOK
  <2>2. Price(s)' = IF Price(s) = "none" THEN "none" ELSE "invalid"
    <3>1. CASE observation[s] = Null
      BY <1>10, <3>1 DEF Reject, Price
    <3>2. CASE observation[s] # Null
      <4>1. observation[s] \in Observations
        BY <3>2 DEF IInv, TypeInv, TypeOK
      <4>2. [observation[s] EXCEPT !.valid = FALSE] \in Observations
            /\ ~[observation[s] EXCEPT !.valid = FALSE].valid
        BY <4>1 DEF Observations
      <4>3. observation'[s] = [observation[s] EXCEPT !.valid = FALSE]
        BY <1>10, <3>2 DEF Reject, IInv, TypeInv, TypeOK
      <4> QED BY <3>2, <4>2, <4>3, NullAssumption DEF NullAssumption, Price
    <3> QED BY <3>1, <3>2
  <2>3. Lifecycle!Refuse(s)
    BY <1>1, <1>2, <1>4, <2>1, <2>2 DEF Lifecycle!Refuse, price, screened
  <2> QED BY <2>3 DEF Lifecycle!LifecycleNext
<1> QED BY <1>5, <1>6, <1>7, <1>8, <1>9, <1>10, <1>u DEF RowMoves, Review

\* The pipeline, with its workers, locks and faults, implements the life of a
\* submission.
THEOREM PipelineImplementsLifecycle ==
  ASSUME LocksOutliveMessages, WritesAreWhole
  PROVE  Spec => ImplementsLifecycle
<1>1. ASSUME IInv, IInv', [Next]_vars
      PROVE  [Lifecycle!LifecycleNext]_(Lifecycle!lifecycleVars)
  <2>1. CASE NoRowMoves
    BY <2>1 DEF NoRowMoves, Lifecycle!lifecycleVars, Price
  <2>2. ASSUME NEW s \in Submissions, RowMoves(s) PROVE Lifecycle!LifecycleNext
    BY <1>1, <2>2, RowTakesAStep DEF IInv, TypeInv
  <2>3. ASSUME NEW s \in Submissions, RowNoted(s) PROVE UNCHANGED Lifecycle!lifecycleVars
    BY <2>3 DEF RowNoted, Lifecycle!lifecycleVars, Price
  <2> QED BY <1>1, <2>1, <2>2, <2>3, StepMovesOneRow
<1>2. IInv /\ IInv' /\ [Next]_vars => [Lifecycle!LifecycleNext]_(Lifecycle!lifecycleVars)
  BY <1>1
<1> QED BY <1>2, RefinementInit, Invariance, PTL
        DEF Spec, ImplementsLifecycle, Lifecycle!LifecycleSpec
-----------------------------------------------------------------------------
(***************************************************************************)
(* What needs no lock.  Because a status only moves onward, a message is   *)
(* always about a recorded row, and a resolve message whose last write is  *)
(* behind it is about a decided one.                                       *)
(***************************************************************************)
Known(j) ==
  /\ Live(j) => status[job[j].sub] # "none"
  /\ \A g \in {"committed", "done"} :
       At(j, "resolve", g) => status[job[j].sub] \notin Undecided

Untouched(s) == status[s] = "none" => attempts[s] = 0 /\ observation[s] = Null

KnownInv ==
  /\ TypeInv
  /\ ShownWaited
  /\ \A j \in Jobs : Known(j)
  /\ \A s \in Submissions : Untouched(s)

\* What a worker writes, it writes in the row of its message.
LEMMA WorkerWritesItsRow ==
  ASSUME TypeInv, NEW j \in Jobs, WorkerStep(j) \/ JobFault(j),
         NEW r \in Submissions, r # job[j].sub
  PROVE  UNCHANGED <<status[r], attempts[r], observation[r]>>
<1>1. CASE ResolveStep(j)
  BY <1>1 DEF ResolveStep, ResolveLoad, ResolveSkip, ResolveGiveUp, MatcherUp, MatcherDown,
     Consult, Commit, CommitCollides, Finish, HandOver, FailedHook, FailedSkip, Surrender,
     rowVars, TypeInv, TypeOK
<1>2. CASE ScoreStep(j) \/ Acknowledge(j)
  BY <1>2 DEF ScoreStep, ScoreLoad, ScoreSkip, RecordVerdict, NoVerdict, Acknowledge,
     rowVars, TypeInv, TypeOK
<1>3. CASE JobFault(j)
  BY <1>3 DEF JobFault, ResolveThrows, ScoreThrows, WorkerKilled, MessageLost,
     rowVars, TypeInv, TypeOK
<1> QED BY <1>1, <1>2, <1>3 DEF WorkerStep

\* A message a step does not touch stays known.
LEMMA KnownStaysKnown ==
  ASSUME TypeInv, [Next]_vars, NEW i \in Jobs, Known(i), job'[i] = job[i]
  PROVE  Known(i)'
<1>1. CASE Live(i)
  <2>1. Onward(job[i].sub)
    BY <1>1, LiveIsMessage, StatusMovesOnward DEF TypeInv
  <2> QED BY <2>1 DEF Known, Onward, At, Live
<1>2. CASE ~Live(i)
  BY <1>2 DEF Known, At, Live
<1> QED BY <1>1, <1>2

\* Only the write of an answer and the handover to review end a resolve message's
\* work on its row.
LEMMA WorkEndsWithAWrite ==
  ASSUME TypeInv, NEW j \in Jobs, WorkerStep(j) \/ JobFault(j),
         At(j, "resolve", "committed")' \/ At(j, "resolve", "done")'
  PROVE  status'[job[j].sub] \notin Undecided
<1> DEFINE s == job[j].sub
<1>1. Live(j) /\ job[j] \in Messages /\ s \in Submissions
  BY WorkerStepShape, LiveIsMessage DEF TypeInv
<1>s. ASSUME NEW m, job' = [job EXCEPT ![j] = m]
      PROVE  m.kind = "resolve" /\ m.stage \in {"committed", "done"}
  BY <1>s DEF At, Live, TypeInv, TypeOK
<1>2. ~Settle(j)
  BY <1>s, FreePlace DEF Settle
<1>3. ASSUME NEW g, Advance(j, g) PROVE g \in {"committed", "done"} /\ job[j].kind = "resolve"
  <2>1. [job[j] EXCEPT !.stage = g].stage = g /\ [job[j] EXCEPT !.stage = g].kind = job[j].kind
    BY <1>1 DEF Messages
  <2> QED BY <1>3, <1>s, <2>1 DEF Advance
<1>4. job' # [job EXCEPT ![j] = Requeue(job[j])]
  <2>1. Requeue(job[j]).stage = "queued"
    BY <1>1 DEF Requeue, Messages
  <2> QED BY <1>s, <2>1
<1>5. CASE Commit(j)
  <2>1. job[j].answer \in GoodAnswers /\ status' = [status EXCEPT ![s] = job[j].answer.to]
    BY <1>5 DEF Commit, TypeInv, Carries, At
  <2> QED BY <1>1, <2>1 DEF GoodAnswers, Undecided, TypeInv, TypeOK
<1>6. CASE Surrender(j)
  BY <1>1, <1>6 DEF Surrender, Undecided, TypeInv, TypeOK
<1>7. ~RecordVerdict(j)
  BY <1>3 DEF RecordVerdict, At
<1>8. ~(ResolveGiveUp(j) \/ MatcherUp(j) \/ HandOver(j) \/ FailedHook(j))
  BY <1>3 DEF ResolveGiveUp, MatcherUp, HandOver, FailedHook
<1>9. ~(ResolveSkip(j) \/ CommitCollides(j) \/ FailedSkip(j) \/ Acknowledge(j)
        \/ ScoreSkip(j) \/ NoVerdict(j))
  BY <1>2 DEF ResolveSkip, CommitCollides, FailedSkip, Acknowledge, ScoreSkip, NoVerdict
<1>10. ~(ScoreThrows(j) \/ WorkerKilled(j))
  BY <1>2, <1>4 DEF ScoreThrows, WorkerKilled
<1>11. ~MessageLost(j)
  BY <1>s, FreePlace DEF MessageLost
<1>12. ~Finish(j)
  <2>1. Message("score", s).stage = "queued"
    BY DEF Message
  <2>2. job' # [job EXCEPT ![j] = Message("score", s)]
    BY <1>s, <2>1
  <2> QED BY <1>2, <2>2 DEF Finish
<1>13. ~ResolveLoad(j)
  <2> DEFINE m == [job[j] EXCEPT !.stage = "loaded", !.tries = @ + 1, !.seen = attempts[s]]
  <2>1. m.stage = "loaded"
    BY <1>1 DEF Messages
  <2>2. ResolveLoad(j) => job' = [job EXCEPT ![j] = m]
    BY DEF ResolveLoad
  <2> HIDE DEF m
  <2> QED BY <1>s, <2>1, <2>2
<1>14. ~MatcherDown(j)
  <2> DEFINE m == IF job[j].seen + 1 >= MaxAttempts
                  THEN [job[j] EXCEPT !.stage = "asking", !.seen = job[j].seen + 1]
                  ELSE Requeue(job[j])
  <2>1. m.stage \in {"asking", "queued"}
    BY <1>1 DEF Requeue, Messages
  <2>2. MatcherDown(j) => job' = [job EXCEPT ![j] = m]
    BY DEF MatcherDown
  <2> HIDE DEF m
  <2> QED BY <1>s, <2>1, <2>2
<1>15. ~Consult(j)
  <2> SUFFICES ASSUME Consult(j) PROVE FALSE
    OBVIOUS
  <2>1. PICK a \in AnswersFor(s) : job' = [job EXCEPT ![j].stage = "answered", ![j].answer = a]
    BY DEF Consult
  <2> DEFINE m == [job[j] EXCEPT !.stage = "answered", !.answer = a]
  <2>2. m.stage = "answered" /\ job' = [job EXCEPT ![j] = m]
    BY <1>1, <2>1 DEF Messages
  <2> HIDE DEF m
  <2> QED BY <1>s, <2>2
<1>16. ~ScoreLoad(j)
  <2> DEFINE m == [job[j] EXCEPT !.stage = "screening", !.tries = @ + 1]
  <2>1. m.stage = "screening"
    BY <1>1 DEF Messages
  <2>2. ScoreLoad(j) => job' = [job EXCEPT ![j] = m]
    BY DEF ScoreLoad
  <2> HIDE DEF m
  <2> QED BY <1>s, <2>1, <2>2
<1>17. ~ResolveThrows(j)
  <2> DEFINE m == IF job[j].seen + 1 >= MaxAttempts
                  THEN [job[j] EXCEPT !.stage = "handover", !.answer = Null]
                  ELSE AfterException(job[j])
  <2>1. m.stage \in {"handover", "queued", "failing"}
    BY <1>1 DEF AfterException, Requeue, Messages
  <2>2. ResolveThrows(j) => job' = [job EXCEPT ![j] = m]
    BY DEF ResolveThrows
  <2> HIDE DEF m
  <2> QED BY <1>s, <2>1, <2>2
<1> QED BY <1>5, <1>6, <1>7, <1>8, <1>9, <1>10, <1>11, <1>12, <1>13, <1>14, <1>15, <1>16, <1>17
        DEF WorkerStep, ResolveStep, ScoreStep, JobFault

\* A dispatched message is known when its row is.
LEMMA DispatchIsKnown ==
  ASSUME KnownInv, [Next]_vars, NEW k \in Kinds, NEW s \in Submissions, Dispatch(k, s),
         status'[s] # "none", NEW i \in Jobs
  PROVE  Known(i)'
<1>1. PICK j \in Jobs : job' = [job EXCEPT ![j] = Message(k, s)]
  BY DEF Dispatch
<1>2. CASE i = j
  <2>1. job'[i].stage = "queued" /\ job'[i].sub = s
    BY <1>1, <1>2 DEF Message, KnownInv, TypeInv, TypeOK
  <2> QED BY <2>1 DEF Known, At
<1>3. CASE i # j
  <2>1. job'[i] = job[i]
    BY <1>1, <1>3 DEF KnownInv, TypeInv, TypeOK
  <2> QED BY <2>1, KnownStaysKnown DEF KnownInv
<1> QED BY <1>2, <1>3

LEMMA KnownStep == KnownInv /\ [Next]_vars => KnownInv'
<1> SUFFICES ASSUME KnownInv, [Next]_vars PROVE KnownInv'
  OBVIOUS
<1>t. TypeInv /\ TypeInv' /\ ShownWaited'
  BY TypeStep, ShownStep DEF KnownInv
<1>k. "resolve" \in Kinds /\ "score" \in Kinds
  BY DEF Kinds
<1>o. \A r \in Submissions : Onward(r)
  BY <1>t, StatusMovesOnward
<1> DEFINE Goal == /\ \A i \in Jobs : Known(i)'
                   /\ \A r \in Submissions : Untouched(r)'
<1>n. ASSUME NEW r \in Submissions, UNCHANGED <<attempts[r], observation[r]>>
      PROVE  Untouched(r)'
  BY <1>n, <1>o DEF KnownInv, Untouched, Onward
<1>1. ASSUME NEW j \in Jobs, WorkerStep(j) \/ JobFault(j) PROVE Goal
  <2>1. Live(j) /\ job[j] \in Messages /\ job[j].sub \in Submissions
    BY <1>t, <1>1, WorkerStepShape, LiveIsMessage DEF TypeInv
  <2>2. status[job[j].sub] # "none" /\ status'[job[j].sub] # "none"
    BY <1>o, <2>1 DEF KnownInv, Known, Onward
  <2>3. ASSUME NEW r \in Submissions PROVE Untouched(r)'
    BY <1>t, <1>n, <1>1, <2>2, WorkerWritesItsRow DEF Untouched
  <2>4. ASSUME NEW i \in Jobs PROVE Known(i)'
    <3>1. PICK m : /\ job' = [job EXCEPT ![j] = m]
                   /\ m.stage = "none" \/ m.sub = job[j].sub
      <4>1. Message("score", job[j].sub).sub = job[j].sub
        BY DEF Message
      <4>2. MovesOrSettles(j) \/ IsReplaced(j)
        BY <1>t, <1>1, WorkerStepShape DEF TypeInv
      <4>3. ASSUME IsReplaced(j) PROVE job' = [job EXCEPT ![j] = Message("score", job[j].sub)]
        BY <4>3 DEF IsReplaced
      <4> QED BY <4>1, <4>2, <4>3 DEF MovesOrSettles
    <3>2. CASE i # j
      <4>1. job'[i] = job[i]
        BY <1>t, <3>1, <3>2 DEF TypeInv, TypeOK
      <4> QED BY <1>t, <4>1, KnownStaysKnown DEF KnownInv
    <3>3. CASE i = j
      <4>1. job'[i] = m
        BY <1>t, <3>1, <3>3 DEF TypeInv, TypeOK
      <4>2. Live(i)' => job'[i].sub = job[j].sub
        BY <3>1, <4>1 DEF Live
      <4>3. At(i, "resolve", "committed")' \/ At(i, "resolve", "done")'
              => status'[job[j].sub] \notin Undecided
        BY <1>t, <1>1, <3>3, WorkEndsWithAWrite
      <4> QED BY <2>2, <4>2, <4>3 DEF Known, At
    <3> QED BY <3>2, <3>3
  <2> QED BY <2>3, <2>4
<1>2. ASSUME NEW s \in Submissions, Intake(s) \/ Sweep(s) \/ Review(s) PROVE Goal
  <2>1. CASE RecordReported(s)
    <3>1. status'[s] = "pending" /\ UNCHANGED <<attempts, observation>> /\ Dispatch("resolve", s)
      BY <1>t, <2>1 DEF RecordReported, TypeInv, TypeOK
    <3> QED BY <1>k, <1>n, <3>1, DispatchIsKnown
  <2>2. CASE Sweep(s)
    <3>1. UNCHANGED <<status, attempts, observation>> /\ status[s] # "none"
      BY <2>2 DEF Sweep, SweepUnresolved, SweepUnscored, rowVars, KnownInv, Untouched
    <3>2. Dispatch("resolve", s) \/ Dispatch("score", s)
      BY <2>2 DEF Sweep, SweepUnresolved, SweepUnscored
    <3> QED BY <1>k, <1>n, <3>1, <3>2, DispatchIsKnown
  <2>3. CASE RecordSilently(s) \/ Review(s)
    <3>1. UNCHANGED job
      BY <2>3 DEF RecordSilently, Review, Show, Approve, Reject, queueVars
    <3>2. ASSUME NEW r \in Submissions PROVE Untouched(r)'
      <4>1. CASE RecordSilently(s)
        BY <1>n, <4>1 DEF RecordSilently
      <4>2. CASE Review(s) /\ r = s
        <5>1. status[s] # "none"
          BY <4>2 DEF Review, Show, Approve, Reject, KnownInv, ShownWaited
        <5> QED BY <1>o, <4>2, <5>1 DEF Onward, Untouched
      <4>3. CASE Review(s) /\ r # s
        <5>1. UNCHANGED attempts /\ \E o : observation' = [observation EXCEPT ![s] = o]
          <6>1. observation = [observation EXCEPT ![s] = observation[s]]
            BY <1>t DEF TypeInv, TypeOK
          <6> QED BY <4>3, <6>1 DEF Review, Show, Approve, Reject
        <5>2. UNCHANGED observation[r]
          BY <1>t, <4>3, <5>1 DEF TypeInv, TypeOK
        <5> QED BY <1>n, <5>1, <5>2
      <4> QED BY <2>3, <4>1, <4>2, <4>3
    <3> QED BY <1>t, <3>1, <3>2, KnownStaysKnown DEF KnownInv
  <2> QED BY <1>2, <2>1, <2>2, <2>3 DEF Intake
<1>3. ASSUME (\E k \in Kinds, s \in Submissions : LockLapses(k, s)) \/ UNCHANGED vars
      PROVE  Goal
  <2>1. UNCHANGED <<job, attempts, observation>>
    BY <1>3 DEF LockLapses, rowVars, vars
  <2> QED BY <1>t, <1>n, <2>1, KnownStaysKnown DEF KnownInv
<1> HIDE DEF Goal
<1>4. Goal
  BY <1>1, <1>2, <1>3 DEF Next
<1> QED BY <1>t, <1>4 DEF KnownInv, Goal

LEMMA KnownHolds == Spec => []KnownInv
<1>1. Init => KnownInv
  <2> SUFFICES ASSUME Init PROVE KnownInv
    OBVIOUS
  <2>1. \A j \in Jobs : ~Live(j)
    BY FreePlace DEF Init, Live
  <2>2. \A j \in Jobs : Known(j)
    BY <2>1 DEF Known, At
  <2>3. \A s \in Submissions : Untouched(s)
    BY DEF Init, Untouched
  <2>4. ShownWaited
    BY DEF Init, ShownWaited
  <2> QED BY <2>2, <2>3, <2>4, TypeInit DEF KnownInv
<1> QED BY <1>1, KnownStep, PTL DEF Spec

\* A row that was decided is never pending again, so that nothing the sweeper or
\* a redelivered message does can put it back in the machine's hands.
DecidedStaysDecided ==
  [][\A s \in Submissions : Onward(s)]_vars

\* This needs neither the uniqueness locks nor whole writes.
THEOREM DecisionsAreNeverUndone == Spec => DecidedStaysDecided
<1>1. TypeInv /\ [Next]_vars => [\A s \in Submissions : Onward(s)]_vars
  BY StatusMovesOnward
<1>2. Spec => []TypeInv
  BY TypeInit, TypeStep, PTL DEF Spec
<1> QED BY <1>1, <1>2, PTL DEF Spec, DecidedStaysDecided

\* Every message is about a recorded row, and one that has only to be deleted is
\* about a decided row: deleting it loses nothing.
DeletionLosesNothing == \A j \in Jobs : Known(j)

THEOREM NothingIsLostByDeletion == Spec => []DeletionLosesNothing
<1>1. KnownInv => DeletionLosesNothing
  BY DEF KnownInv, DeletionLosesNothing
<1> QED BY <1>1, KnownHolds, PTL
-----------------------------------------------------------------------------
(***************************************************************************)
(* The attempt budget.  A worker reads the count when it loads the row and *)
(* writes count + 1 much later, so counting is right only because no other *)
(* worker counts for that row in between (Exclusive).  Without faults a    *)
(* row whose budget is spent stays in the hands of the one worker that     *)
(* spent it, and so no second message is loaded for it.                    *)
(***************************************************************************)
Reading == {"loaded", "asking", "answered"}

\* The count the worker carries is the row's.
SeesAttempts(j) ==
  \A g \in Reading : At(j, "resolve", g) => job[j].seen = attempts[job[j].sub]

\* A step of j's worker that counts nothing, and the message it leaves.
CountsNothing(j, m) ==
  /\ UNCHANGED attempts
  /\ m.kind = "resolve" /\ m.stage \in Reading
       => /\ m.sub = job[j].sub
          /\ m.seen = attempts[job[j].sub]
          /\ \/ /\ m.stage = "loaded" /\ At(j, "resolve", "queued")
                /\ status[job[j].sub] = "pending"
             \/ m.stage = "asking" /\ At(j, "resolve", "loaded")
             \/ m.stage = "answered" /\ At(j, "resolve", "asking")

\* A step of j's worker that counts an attempt, and the message it leaves.
CountsOne(j, m) ==
  /\ \E g \in Reading : At(j, "resolve", g)
  /\ attempts' = [attempts EXCEPT ![job[j].sub] = attempts[job[j].sub] + 1]
  /\ m.kind = "resolve" /\ m.sub = job[j].sub
  /\ \/ m.stage = "asking" /\ At(j, "resolve", "loaded") /\ m.seen = attempts[job[j].sub] + 1
     \/ m.stage = "handover"
     \/ m.stage \in {"queued", "failing"} /\ attempts[job[j].sub] + 1 < MaxAttempts

LEMMA WorkerCounts ==
  ASSUME TypeInv, NEW j \in Jobs, SeesAttempts(j), WorkerStep(j) \/ JobFault(j)
  PROVE  \E m : job' = [job EXCEPT ![j] = m] /\ (CountsNothing(j, m) \/ CountsOne(j, m))
<1> DEFINE s == job[j].sub
           Goal == \E m : /\ job' = [job EXCEPT ![j] = m]
                          /\ CountsNothing(j, m) \/ CountsOne(j, m)
<1>1. Live(j) /\ job[j] \in Messages /\ s \in Submissions
  BY WorkerStepShape, LiveIsMessage DEF TypeInv
<1>n. attempts[s] \in Nat /\ MaxAttempts \in Nat
  BY <1>1, PipelineAssumption DEF PipelineAssumption, TypeInv, TypeOK
<1>r. ASSUME NEW m, job' = [job EXCEPT ![j] = m], UNCHANGED attempts,
             m.stage \notin Reading \/ m.kind # "resolve"
      PROVE  Goal
  BY <1>r DEF CountsNothing
<1>m. ASSUME NEW m, job' = [job EXCEPT ![j] = m], CountsNothing(j, m) \/ CountsOne(j, m)
      PROVE  Goal
  BY <1>m
<1> HIDE DEF Goal
<1>2. ASSUME Settle(j), UNCHANGED attempts PROVE Goal
  BY <1>2, <1>r, FreePlace DEF Settle, Reading
<1>3. ASSUME NEW g, Advance(j, g), g \notin Reading, UNCHANGED attempts PROVE Goal
  <2> DEFINE m == [job[j] EXCEPT !.stage = g]
  <2>1. m.stage = g /\ job' = [job EXCEPT ![j] = m]
    BY <1>1, <1>3 DEF Messages, Advance
  <2> HIDE DEF m
  <2> QED BY <1>3, <1>r, <2>1
<1>4. ASSUME job' = [job EXCEPT ![j] = Requeue(job[j])], UNCHANGED attempts PROVE Goal
  <2>1. Requeue(job[j]).stage = "queued"
    BY <1>1 DEF Requeue, Messages
  <2> QED BY <1>4, <1>r, <2>1 DEF Reading
<1>5. CASE ResolveLoad(j)
  <2> DEFINE m == [job[j] EXCEPT !.stage = "loaded", !.tries = @ + 1, !.seen = attempts[s]]
  <2>1. m.stage = "loaded" /\ m.sub = s /\ m.seen = attempts[s]
    BY <1>1 DEF Messages
  <2>2. job' = [job EXCEPT ![j] = m] /\ UNCHANGED attempts
        /\ At(j, "resolve", "queued") /\ status[s] = "pending"
    BY <1>5 DEF ResolveLoad, rowVars
  <2> HIDE DEF m
  <2>3. CountsNothing(j, m)
    BY <2>1, <2>2 DEF CountsNothing
  <2> QED BY <1>m, <2>2, <2>3
<1>6. CASE MatcherUp(j)
  <2> DEFINE m == [job[j] EXCEPT !.stage = "asking"]
  <2>1. m.stage = "asking" /\ m.sub = s /\ m.seen = job[j].seen
    BY <1>1 DEF Messages
  <2>2. job' = [job EXCEPT ![j] = m] /\ UNCHANGED attempts /\ At(j, "resolve", "loaded")
    BY <1>6 DEF MatcherUp, Advance, rowVars
  <2> HIDE DEF m
  <2>3. CountsNothing(j, m)
    BY <2>1, <2>2 DEF CountsNothing, SeesAttempts, Reading
  <2> QED BY <1>m, <2>2, <2>3
<1>7. CASE Consult(j)
  <2>1. PICK a \in AnswersFor(s) : job' = [job EXCEPT ![j].stage = "answered", ![j].answer = a]
    BY <1>7 DEF Consult
  <2> DEFINE m == [job[j] EXCEPT !.stage = "answered", !.answer = a]
  <2>2. m.stage = "answered" /\ m.sub = s /\ m.seen = job[j].seen
    BY <1>1 DEF Messages
  <2>3. job' = [job EXCEPT ![j] = m] /\ UNCHANGED attempts /\ At(j, "resolve", "asking")
    BY <1>7, <2>1 DEF Consult, rowVars
  <2> HIDE DEF m
  <2>4. CountsNothing(j, m)
    BY <2>2, <2>3 DEF CountsNothing, SeesAttempts, Reading
  <2> QED BY <1>m, <2>3, <2>4
<1>8. CASE MatcherDown(j)
  <2> DEFINE n == job[j].seen + 1
             m == IF n >= MaxAttempts
                  THEN [job[j] EXCEPT !.stage = "asking", !.seen = n]
                  ELSE Requeue(job[j])
  <2>1. At(j, "resolve", "loaded") /\ n = attempts[s] + 1
    BY <1>8 DEF MatcherDown, SeesAttempts, Reading
  <2>2. m.sub = s /\ m.kind = job[j].kind
    BY <1>1 DEF Requeue, Messages
  <2>3. \/ m.stage = "asking" /\ m.seen = n
        \/ m.stage = "queued" /\ n < MaxAttempts
    BY <1>1, <1>n, <2>1 DEF Requeue, Messages
  <2>4. job' = [job EXCEPT ![j] = m] /\ attempts' = [attempts EXCEPT ![s] = n]
    BY <1>8 DEF MatcherDown
  <2> HIDE DEF m, n
  <2>5. CountsOne(j, m)
    BY <2>1, <2>2, <2>3, <2>4 DEF CountsOne, Reading, At
  <2> QED BY <1>m, <2>4, <2>5
<1>9. CASE ResolveThrows(j)
  <2> DEFINE n == job[j].seen + 1
             m == IF n >= MaxAttempts
                  THEN [job[j] EXCEPT !.stage = "handover", !.answer = Null]
                  ELSE AfterException(job[j])
  <2>1. (\E g \in Reading : At(j, "resolve", g)) /\ n = attempts[s] + 1
    BY <1>9 DEF ResolveThrows, SeesAttempts, Reading
  <2>2. m.sub = s /\ m.kind = job[j].kind
    BY <1>1 DEF AfterException, Requeue, Messages
  <2>3. \/ m.stage = "handover"
        \/ m.stage \in {"queued", "failing"} /\ n < MaxAttempts
    BY <1>1, <1>n, <2>1 DEF AfterException, Requeue, Messages
  <2>4. job' = [job EXCEPT ![j] = m] /\ attempts' = [attempts EXCEPT ![s] = n]
    BY <1>9 DEF ResolveThrows
  <2> HIDE DEF m, n
  <2>5. CountsOne(j, m)
    BY <2>1, <2>2, <2>3, <2>4 DEF CountsOne, At
  <2> QED BY <1>m, <2>4, <2>5
<1>10. CASE ScoreLoad(j)
  <2> DEFINE m == [job[j] EXCEPT !.stage = "screening", !.tries = @ + 1]
  <2>1. m.stage = "screening"
    BY <1>1 DEF Messages
  <2>2. job' = [job EXCEPT ![j] = m] /\ UNCHANGED attempts
    BY <1>10 DEF ScoreLoad, rowVars
  <2> HIDE DEF m
  <2> QED BY <1>r, <2>1, <2>2 DEF Reading, Goal
<1>11. CASE Finish(j)
  <2>1. Message("score", s).stage = "queued"
    BY DEF Message
  <2>2. Settle(j) \/ job' = [job EXCEPT ![j] = Message("score", s)]
    BY <1>11 DEF Finish
  <2> QED BY <1>2, <1>r, <1>11, <2>1, <2>2 DEF Finish, rowVars, Reading, Goal
<1>12. CASE \/ ResolveGiveUp(j) \/ Commit(j) \/ HandOver(j) \/ FailedHook(j) \/ RecordVerdict(j)
            \/ Surrender(j)
  <2>1. UNCHANGED attempts
    BY <1>12 DEF ResolveGiveUp, Commit, HandOver, FailedHook, RecordVerdict, Surrender, rowVars
  <2>2. Settle(j) \/ \E g : g \notin Reading /\ Advance(j, g)
    BY <1>12 DEF ResolveGiveUp, Commit, HandOver, FailedHook, RecordVerdict, Surrender, Reading
  <2> QED BY <1>2, <1>3, <2>1, <2>2 DEF Goal
<1>13. CASE \/ ResolveSkip(j) \/ CommitCollides(j) \/ FailedSkip(j) \/ Acknowledge(j)
            \/ ScoreSkip(j) \/ NoVerdict(j)
  BY <1>2, <1>13
  DEF ResolveSkip, CommitCollides, FailedSkip, Acknowledge, ScoreSkip, NoVerdict, rowVars, Goal
<1>14. CASE ScoreThrows(j) \/ WorkerKilled(j)
  <2>1. Settle(j) \/ job' = [job EXCEPT ![j] = Requeue(job[j])]
    BY <1>14 DEF ScoreThrows, WorkerKilled
  <2> QED BY <1>2, <1>4, <1>14, <2>1 DEF ScoreThrows, WorkerKilled, rowVars, Goal
<1>15. CASE MessageLost(j)
  BY <1>r, <1>15, FreePlace DEF MessageLost, rowVars, Reading, Goal
<1> QED
  BY <1>5, <1>6, <1>7, <1>8, <1>9, <1>10, <1>11, <1>12, <1>13, <1>14, <1>15
  DEF WorkerStep, ResolveStep, ScoreStep, JobFault, Goal

\* What everyone else does to a count and to a message that is being worked on.
LEMMA OthersCountNothing ==
  ASSUME TypeInv, Next, ~\E j \in Jobs : WorkerStep(j) \/ JobFault(j)
  PROVE  /\ UNCHANGED attempts
         /\ \A i \in Jobs : job'[i] = job[i] \/ (~Live(i) /\ job'[i].stage = "queued")
<1>d. ASSUME NEW k, NEW s, Dispatch(k, s)
      PROVE  \A i \in Jobs : job'[i] = job[i] \/ (~Live(i) /\ job'[i].stage = "queued")
  BY <1>d DEF Dispatch, Message, TypeInv, TypeOK
<1>1. ASSUME NEW s \in Submissions, Intake(s) \/ Sweep(s) \/ Review(s)
      PROVE  /\ UNCHANGED attempts
             /\ \A i \in Jobs : job'[i] = job[i] \/ (~Live(i) /\ job'[i].stage = "queued")
  <2>1. UNCHANGED attempts
    BY <1>1 DEF Intake, Sweep, Review, RecordReported, RecordSilently, SweepUnresolved,
                SweepUnscored, Show, Approve, Reject, rowVars
  <2>2. UNCHANGED job \/ \E k : Dispatch(k, s)
    BY <1>1 DEF Intake, Sweep, Review, RecordReported, RecordSilently, SweepUnresolved,
                SweepUnscored, Show, Approve, Reject, queueVars
  <2> QED BY <1>d, <2>1, <2>2
<1>2. CASE \E k \in Kinds, s \in Submissions : LockLapses(k, s)
  BY <1>2 DEF LockLapses, rowVars
<1> QED BY <1>1, <1>2 DEF Next

CountInv == Exclusive /\ \A j \in Jobs : SeesAttempts(j)

\* With one message of a kind per row, what a worker read when it loaded the row
\* is still the count when it adds to it.
LEMMA CountStep ==
  ASSUME LocksHold, TypeInv, CountInv, [Next]_vars
  PROVE  /\ CountInv'
         /\ \A s \in Submissions : attempts'[s] \in {attempts[s], attempts[s] + 1}
<1>x. Exclusive'
  BY ExclusiveStep DEF CountInv, TypeInv
<1> DEFINE Goal == /\ \A i \in Jobs : SeesAttempts(i)'
                   /\ \A s \in Submissions : attempts'[s] \in {attempts[s], attempts[s] + 1}
<1>1. ASSUME NEW j \in Jobs, WorkerStep(j) \/ JobFault(j) PROVE Goal
  <2>1. PICK m : job' = [job EXCEPT ![j] = m] /\ (CountsNothing(j, m) \/ CountsOne(j, m))
    BY <1>1, WorkerCounts DEF CountInv
  <2>2. Live(j) /\ job[j].sub \in Submissions
    BY <1>1, WorkerStepShape, LiveIsMessage DEF TypeInv
  <2>3. job'[j] = m /\ \A i \in Jobs \ {j} : job'[i] = job[i]
    BY <2>1 DEF TypeInv, TypeOK
  <2>4. CASE CountsNothing(j, m)
    <3>1. SeesAttempts(j)'
      BY <2>3, <2>4 DEF CountsNothing, SeesAttempts, At
    <3>2. ASSUME NEW i \in Jobs \ {j} PROVE SeesAttempts(i)'
      BY <2>3, <2>4 DEF CountsNothing, CountInv, SeesAttempts, At, Live
    <3> QED BY <2>4, <3>1, <3>2 DEF CountsNothing
  <2>5. CASE CountsOne(j, m)
    <3>1. SeesAttempts(j)'
      BY <2>2, <2>3, <2>5 DEF CountsOne, SeesAttempts, Reading, At, TypeInv, TypeOK
    <3>2. ASSUME NEW i \in Jobs \ {j}, NEW g \in Reading, At(i, "resolve", g)'
          PROVE  job'[i].seen = attempts'[job'[i].sub]
      <4>1. At(i, "resolve", g) /\ job'[i] = job[i]
        BY <2>3, <3>2 DEF At, Live
      <4>2. job[i].sub # job[j].sub /\ job[i].sub \in Submissions
        BY <2>2, <2>5, <4>1, LiveIsMessage
        DEF CountsOne, CountInv, Exclusive, OneMessagePerRow, At, TypeInv
      <4>3. attempts'[job[i].sub] = attempts[job[i].sub]
        BY <2>5, <4>2 DEF CountsOne, TypeInv, TypeOK
      <4> QED BY <4>1, <4>3 DEF CountInv, SeesAttempts
    <3>3. ASSUME NEW s \in Submissions PROVE attempts'[s] \in {attempts[s], attempts[s] + 1}
      BY <2>5 DEF CountsOne, TypeInv, TypeOK
    <3> QED BY <3>1, <3>2, <3>3 DEF SeesAttempts
  <2> QED BY <2>1, <2>4, <2>5
<1>2. ASSUME ~\E j \in Jobs : WorkerStep(j) \/ JobFault(j) PROVE Goal
  <2>1. UNCHANGED attempts
        /\ \A i \in Jobs : job'[i] = job[i] \/ (~Live(i) /\ job'[i].stage = "queued")
    BY <1>2, OthersCountNothing DEF vars
  <2>2. ASSUME NEW i \in Jobs PROVE SeesAttempts(i)'
    <3>1. CASE job'[i] = job[i]
      BY <2>1, <3>1 DEF CountInv, SeesAttempts, At, Live
    <3>2. CASE job'[i].stage = "queued"
      BY <3>2 DEF SeesAttempts, Reading, At
    <3> QED BY <2>1, <3>1, <3>2
  <2> QED BY <2>1, <2>2
<1> HIDE DEF Goal
<1> QED BY <1>x, <1>1, <1>2 DEF CountInv, Goal
\* A resolve message of s that a worker holds.
InHand(s) ==
  \E j \in Jobs : /\ Live(j) /\ job[j].kind = "resolve" /\ job[j].sub = s
                  /\ job[j].stage \in Held

WithinBudget(j) ==
  /\ At(j, "resolve", "loaded") => attempts[job[j].sub] < MaxAttempts
  /\ \A g \in {"asking", "answered"} :
       At(j, "resolve", g) => attempts[job[j].sub] <= MaxAttempts

BudgetOf(s) ==
  /\ status[s] = "pending" /\ attempts[s] >= MaxAttempts => InHand(s)
  /\ attempts[s] <= MaxAttempts + 1

BudgetInv ==
  /\ IInv
  /\ KnownInv
  /\ CountInv
  /\ \A j \in Jobs : WithinBudget(j)
  /\ \A s \in Submissions : BudgetOf(s)

\* A worker that is not killed lets go of a row it holds only when the row is
\* decided or has attempts left.
LEMMA HeldUntilDecided ==
  ASSUME IInv, KnownInv, faults = 0, faults' = 0,
         NEW j \in Jobs, WorkerStep(j) \/ JobFault(j), SeesAttempts(j),
         job[j].kind = "resolve", job[j].stage \in Held
  PROVE  \/ status'[job[j].sub] # "pending"
         \/ attempts'[job[j].sub] < MaxAttempts
         \/ /\ job'[j].kind = "resolve" /\ job'[j].sub = job[j].sub
            /\ job'[j].stage \in Held
<1> DEFINE s == job[j].sub
<1>1. Live(j) /\ job[j] \in Messages /\ s \in Submissions
  BY WorkerStepShape, LiveIsMessage DEF IInv, TypeInv
<1>q. job[j].stage \notin {"queued", "failing", "burying"}
  BY DEF Held
<1>2. CASE \E m : job' = [job EXCEPT ![j] = m] /\ CountsOne(j, m)
  <2>1. PICK m : job' = [job EXCEPT ![j] = m] /\ CountsOne(j, m)
    BY <1>2
  <2>2. job'[j] = m /\ attempts'[s] = attempts[s] + 1
    BY <1>1, <2>1 DEF CountsOne, IInv, TypeInv, TypeOK
  <2> QED BY <2>1, <2>2 DEF CountsOne, Held
<1>3. ASSUME NEW g \in Held, Advance(j, g)
      PROVE  job'[j].kind = "resolve" /\ job'[j].sub = s /\ job'[j].stage \in Held
  BY <1>1, <1>3 DEF Advance, Messages, IInv, TypeInv, TypeOK
<1>4. CASE MatcherUp(j) \/ Commit(j) \/ HandOver(j)
  BY <1>3, <1>4 DEF MatcherUp, Commit, HandOver, Held
<1>5. CASE Consult(j)
  <2>1. PICK a \in AnswersFor(s) : job' = [job EXCEPT ![j].stage = "answered", ![j].answer = a]
    BY <1>5 DEF Consult
  <2> DEFINE m == [job[j] EXCEPT !.stage = "answered", !.answer = a]
  <2>2. m.stage = "answered" /\ m.sub = s /\ m.kind = "resolve"
    BY <1>1 DEF Messages
  <2>3. job'[j] = m
    BY <2>1 DEF IInv, TypeInv, TypeOK
  <2> HIDE DEF m
  <2> QED BY <2>2, <2>3 DEF Held
<1>6. CASE Surrender(j)
  BY <1>1, <1>6 DEF Surrender, IInv, TypeInv, TypeOK
<1>7. CASE CommitCollides(j)
  <2>1. status[s] = "pending" /\ observation[s] # Null
    BY <1>7 DEF CommitCollides, IInv, WorkerSees, Writing
  <2> QED BY <1>1, <2>1 DEF IInv, RowInv
<1>8. CASE Finish(j) \/ Acknowledge(j)
  <2>1. UNCHANGED status /\ \E g \in {"committed", "done"} : At(j, "resolve", g)
    BY <1>8 DEF Finish, Acknowledge, rowVars, At
  <2>2. status[s] \notin Undecided
    BY <2>1 DEF KnownInv, Known
  <2> QED BY <2>1, <2>2 DEF Undecided
<1>9. ~WorkerKilled(j) /\ ~MessageLost(j)
  BY DEF WorkerKilled, MessageLost
<1>10. ~(ResolveLoad(j) \/ ResolveSkip(j) \/ ResolveGiveUp(j) \/ FailedHook(j) \/ FailedSkip(j))
  BY <1>q DEF ResolveLoad, ResolveSkip, ResolveGiveUp, FailedHook, FailedSkip, At
<1>11. ~ScoreStep(j) /\ ~ScoreThrows(j)
  BY DEF ScoreStep, ScoreLoad, ScoreSkip, RecordVerdict, NoVerdict, ScoreThrows, At
<1>12. ASSUME MatcherDown(j) \/ ResolveThrows(j)
       PROVE  \E m : job' = [job EXCEPT ![j] = m] /\ CountsOne(j, m)
  <2>1. PICK m : job' = [job EXCEPT ![j] = m] /\ (CountsNothing(j, m) \/ CountsOne(j, m))
    BY WorkerCounts DEF IInv
  <2>2. attempts'[s] = attempts[s] + 1 /\ attempts[s] \in Nat
    BY <1>1, <1>12 DEF MatcherDown, ResolveThrows, SeesAttempts, Reading, IInv, TypeInv, TypeOK
  <2>3. attempts'[s] # attempts[s]
    BY <2>2
  <2> QED BY <2>1, <2>3 DEF CountsNothing
<1> QED BY <1>2, <1>4, <1>5, <1>6, <1>7, <1>8, <1>9, <1>10, <1>11, <1>12
        DEF WorkerStep, ResolveStep, JobFault

\* Nothing is loaded for a row that a worker has in hand.
LEMMA OneHand ==
  ASSUME TypeInv, Exclusive, NEW j \in Jobs, At(j, "resolve", "queued")
  PROVE  ~InHand(job[j].sub)
BY DEF InHand, Exclusive, OneMessagePerRow, At, Held

\* A step of a worker, in a run without faults, keeps the budgets.
LEMMA WorkerKeepsBudget ==
  ASSUME BudgetInv, faults = 0, faults' = 0, [Next]_vars,
         NEW j \in Jobs, WorkerStep(j) \/ JobFault(j)
  PROVE  /\ \A i \in Jobs : WithinBudget(i)'
         /\ \A s \in Submissions : BudgetOf(s)'
<1> DEFINE s == job[j].sub
<1>t. /\ TypeInv /\ IInv /\ KnownInv /\ Exclusive /\ SeesAttempts(j)
      /\ attempts \in [Submissions -> Nat]
  BY DEF BudgetInv, IInv, CountInv, TypeInv, TypeOK
<1>n. MaxAttempts \in Nat \ {0}
  BY PipelineAssumption DEF PipelineAssumption
<1>1. PICK m : job' = [job EXCEPT ![j] = m] /\ (CountsNothing(j, m) \/ CountsOne(j, m))
  BY <1>t, WorkerCounts
<1>2. Live(j) /\ s \in Submissions
  BY <1>t, WorkerStepShape, LiveIsMessage DEF TypeInv
<1>3. job'[j] = m /\ \A i \in Jobs \ {j} : job'[i] = job[i]
  BY <1>1, <1>t DEF TypeInv, TypeOK
<1>4. \A r \in Submissions \ {s} : attempts'[r] = attempts[r]
  BY <1>1, <1>t DEF CountsNothing, CountsOne
<1>5. \/ attempts' = attempts
      \/ CountsOne(j, m) /\ attempts'[s] = attempts[s] + 1
  BY <1>1, <1>2, <1>t DEF CountsNothing, CountsOne
<1>6. WithinBudget(j)'
  <2>1. CASE CountsNothing(j, m)
    <3>1. At(j, "resolve", "queued") /\ status[s] = "pending" => attempts[s] < MaxAttempts
      BY <1>2, <1>t, <1>n, OneHand DEF BudgetInv, BudgetOf
    <3>2. At(j, "resolve", "loaded") => attempts[s] < MaxAttempts
      BY DEF BudgetInv, WithinBudget
    <3>3. At(j, "resolve", "asking") => attempts[s] <= MaxAttempts
      BY DEF BudgetInv, WithinBudget
    <3>4. attempts[s] < MaxAttempts => attempts[s] <= MaxAttempts
      BY <1>2, <1>t, <1>n
    <3> QED BY <1>3, <2>1, <3>1, <3>2, <3>3, <3>4 DEF CountsNothing, WithinBudget, At, Reading
  <2>2. CASE CountsOne(j, m)
    <3>1. m.stage \in {"asking", "handover", "queued", "failing"} /\ m.sub = s
      BY <2>2 DEF CountsOne
    <3>2. m.stage = "asking" => attempts[s] < MaxAttempts
      BY <2>2 DEF CountsOne, BudgetInv, WithinBudget
    <3>3. attempts'[s] = attempts[s] + 1
      BY <1>2, <1>t, <2>2 DEF CountsOne
    <3>4. m.stage = "asking" => attempts'[s] <= MaxAttempts
      BY <1>2, <1>t, <1>n, <3>2, <3>3
    <3> QED BY <1>3, <3>1, <3>4 DEF WithinBudget, At
  <2> QED BY <1>1, <2>1, <2>2
<1>7. ASSUME NEW i \in Jobs \ {j} PROVE WithinBudget(i)'
  <2>1. job'[i] = job[i] /\ WithinBudget(i)
    BY <1>3 DEF BudgetInv
  <2>2. CASE attempts' = attempts
    BY <2>1, <2>2 DEF WithinBudget, At, Live
  <2>3. CASE CountsOne(j, m) /\ \E g : At(i, "resolve", g)
    <3>1. job[i].sub # s /\ job[i].sub \in Submissions
      BY <1>2, <1>t, <2>3, LiveIsMessage DEF CountsOne, Exclusive, OneMessagePerRow, At, TypeInv
    <3>2. attempts'[job[i].sub] = attempts[job[i].sub]
      BY <1>4, <3>1
    <3> QED BY <2>1, <3>2 DEF WithinBudget, At, Live
  <2>4. CASE ~\E g : At(i, "resolve", g)
    BY <2>1, <2>4 DEF WithinBudget, At, Live
  <2> QED BY <1>5, <2>2, <2>3, <2>4
<1>8. ASSUME NEW r \in Submissions PROVE attempts'[r] <= MaxAttempts + 1
  <2>1. attempts[r] <= MaxAttempts + 1
    BY DEF BudgetInv, BudgetOf
  <2>2. CASE r = s /\ CountsOne(j, m)
    <3>1. attempts[s] <= MaxAttempts
      <4>1. \/ At(j, "resolve", "loaded") \/ At(j, "resolve", "asking") \/ At(j, "resolve", "answered")
        BY <2>2 DEF CountsOne, Reading
      <4>2. attempts[s] < MaxAttempts \/ attempts[s] <= MaxAttempts
        BY <4>1 DEF BudgetInv, WithinBudget
      <4> QED BY <1>2, <1>t, <1>n, <4>2
    <3>2. attempts'[s] = attempts[s] + 1
      BY <1>2, <1>t, <2>2 DEF CountsOne
    <3> QED BY <1>2, <1>t, <1>n, <2>2, <3>1, <3>2
  <2> QED BY <1>4, <1>5, <2>1, <2>2
<1>9. ASSUME NEW r \in Submissions, status'[r] = "pending", attempts'[r] >= MaxAttempts
      PROVE  InHand(r)'
  <2>1. CASE r # s
    <3>1. status[r] = "pending" /\ attempts[r] >= MaxAttempts
      BY <1>4, <1>9, <1>t, <2>1, WorkerWritesItsRow
    <3>2. PICK i \in Jobs : /\ Live(i) /\ job[i].kind = "resolve" /\ job[i].sub = r
                            /\ job[i].stage \in Held
      BY <3>1 DEF BudgetInv, BudgetOf, InHand
    <3>3. job'[i] = job[i]
      BY <1>3, <2>1, <3>2
    <3> QED BY <3>2, <3>3 DEF InHand, Live
  <2>2. CASE r = s
    <3>1. status[s] = "pending"
      <4>1. Onward(s) /\ Known(j)
        BY <1>2, <1>t, StatusMovesOnward DEF KnownInv
      <4>2. status[s] \in Statuses
        BY <1>2, <1>t DEF TypeInv, TypeOK
      <4> QED BY <1>2, <1>9, <2>2, <4>1, <4>2 DEF Onward, Known, Undecided, Statuses
    <3>2. CASE CountsOne(j, m)
      <4>1. m.stage \in {"asking", "handover"}
        BY <1>5, <1>9, <1>2, <1>t, <1>n, <2>2, <3>2 DEF CountsOne
      <4>2. m.kind = "resolve" /\ m.sub = s
        BY <3>2 DEF CountsOne
      <4> QED BY <1>3, <2>2, <4>1, <4>2 DEF InHand, Live, Held
    <3>3. CASE attempts' = attempts
      <4>1. PICK i \in Jobs : /\ Live(i) /\ job[i].kind = "resolve" /\ job[i].sub = s
                              /\ job[i].stage \in Held
        BY <1>2, <1>9, <2>2, <3>1, <3>3 DEF BudgetInv, BudgetOf, InHand
      <4>2. CASE i # j
        <5>1. job'[i] = job[i]
          BY <1>3, <4>2
        <5> QED BY <2>2, <4>1, <5>1 DEF InHand, Live
      <4>3. CASE i = j
        <5>0. ~(attempts'[s] < MaxAttempts)
          BY <1>9, <1>2, <1>t, <1>n, <2>2, <3>3
        <5>1. job'[j].kind = "resolve" /\ job'[j].sub = s /\ job'[j].stage \in Held
          BY <1>9, <1>t, <2>2, <4>1, <4>3, <5>0, HeldUntilDecided
        <5>2. job'[j].stage # "none"
          BY <5>1 DEF Held
        <5> QED BY <2>2, <5>1, <5>2 DEF InHand, Live
      <4> QED BY <4>2, <4>3
    <3> QED BY <1>5, <3>2, <3>3
  <2> QED BY <2>1, <2>2
<1> QED BY <1>6, <1>7, <1>8, <1>9 DEF BudgetOf

\* So does everything else that happens in such a run.
LEMMA OthersKeepBudget ==
  ASSUME BudgetInv, [Next]_vars, ~\E j \in Jobs : WorkerStep(j) \/ JobFault(j)
  PROVE  /\ \A i \in Jobs : WithinBudget(i)'
         /\ \A s \in Submissions : BudgetOf(s)'
<1>t. TypeInv /\ KnownInv /\ attempts \in [Submissions -> Nat] /\ status \in [Submissions -> Statuses]
  BY DEF BudgetInv, IInv, TypeInv, TypeOK
<1>1. UNCHANGED attempts
      /\ \A i \in Jobs : job'[i] = job[i] \/ (~Live(i) /\ job'[i].stage = "queued")
  BY <1>t, OthersCountNothing DEF vars
<1>2. ASSUME NEW i \in Jobs PROVE WithinBudget(i)'
  <2>1. CASE job'[i] = job[i]
    BY <1>1, <2>1 DEF BudgetInv, WithinBudget, At, Live
  <2>2. CASE job'[i].stage = "queued"
    BY <2>2 DEF WithinBudget, At
  <2> QED BY <1>1, <2>1, <2>2
<1>3. ASSUME NEW r \in Submissions PROVE BudgetOf(r)'
  <2>1. BudgetOf(r) /\ Onward(r)
    BY <1>t, StatusMovesOnward DEF BudgetInv
  <2>2. InHand(r) => InHand(r)'
    BY <1>1 DEF InHand, Live
  <2>3. CASE status[r] = "none"
    <3>1. attempts[r] = 0 /\ ~(0 >= MaxAttempts)
      BY <1>t, <2>3, PipelineAssumption DEF PipelineAssumption, KnownInv, Untouched
    <3> QED BY <1>1, <2>1, <3>1 DEF BudgetOf
  <2>4. CASE status[r] # "none"
    <3>1. status'[r] = "pending" => status[r] = "pending"
      BY <1>t, <2>1, <2>4 DEF Onward, Undecided, Statuses
    <3> QED BY <1>1, <2>1, <2>2, <3>1 DEF BudgetOf
  <2> QED BY <2>3, <2>4
<1> QED BY <1>2, <1>3

LEMMA BudgetStep ==
  ASSUME BudgetInv, faults = 0, faults' = 0, [Next]_vars
  PROVE  BudgetInv'
<1>1. LocksHold /\ WritesHold
  BY DEF LocksHold, WritesHold
<1>2. IInv' /\ KnownInv' /\ CountInv'
  BY <1>1, InvStep, KnownStep, CountStep DEF BudgetInv, KnownInv
<1>3. (\A i \in Jobs : WithinBudget(i)') /\ (\A s \in Submissions : BudgetOf(s)')
  BY WorkerKeepsBudget, OthersKeepBudget
<1> QED BY <1>2, <1>3 DEF BudgetInv

\* In every run, until the first fault.
FaultlessInv == faults = 0 => BudgetInv

LEMMA FaultlessHolds == Spec => []FaultlessInv
<1>1. Init => FaultlessInv
  <2> SUFFICES ASSUME Init PROVE BudgetInv
    BY DEF FaultlessInv
  <2>1. \A j \in Jobs : ~Live(j)
    BY FreePlace DEF Init, Live
  <2>2. \A s \in Submissions : Untouched(s) /\ BudgetOf(s)
    BY PipelineAssumption DEF PipelineAssumption, Init, Untouched, BudgetOf
  <2>3. \A j \in Jobs : Known(j) /\ SeesAttempts(j) /\ WithinBudget(j)
    BY <2>1 DEF Known, SeesAttempts, WithinBudget, At
  <2>4. IInv
    BY InvInit
  <2> QED BY <2>2, <2>3, <2>4 DEF BudgetInv, IInv, KnownInv, CountInv
<1>2. TypeInv /\ FaultlessInv /\ [Next]_vars => FaultlessInv'
  <2> SUFFICES ASSUME TypeInv, FaultlessInv, [Next]_vars, faults' = 0 PROVE BudgetInv'
    BY DEF FaultlessInv
  <2>1. faults = 0
    BY FaultsAreCounted DEF TypeInv
  <2> QED BY <2>1, BudgetStep DEF FaultlessInv
<1>3. Spec => []TypeInv
  BY TypeInit, TypeStep, PTL DEF Spec
<1> QED BY <1>1, <1>2, <1>3, PTL DEF Spec

\* A row whose budget is spent is in a worker's hands until a reviewer has it.
\* Nothing is assumed of the constants: a lapse, a torn write or a kill is a fault.
THEOREM SpentBudgetsAreActedOn == Spec => []SpentBudgetIsActedOn
<1>1. FaultlessInv => SpentBudgetIsActedOn
  BY DEF FaultlessInv, BudgetInv, BudgetOf, InHand, SpentBudgetIsActedOn
<1> QED BY <1>1, FaultlessHolds, PTL

\* pipeline_attempts passes its limit by at most one: the open breaker spends the
\* last attempt and falls through to a resolver that may throw as well.
BudgetIsNotOverrun ==
  faults = 0 => \A s \in Submissions : attempts[s] <= MaxAttempts + 1

THEOREM BudgetsAreNotOverrun == Spec => []BudgetIsNotOverrun
<1>1. FaultlessInv => BudgetIsNotOverrun
  BY DEF FaultlessInv, BudgetInv, BudgetOf, BudgetIsNotOverrun
<1> QED BY <1>1, FaultlessHolds, PTL

\* Even where locks may lapse and writes may tear, all of it is safe until the
\* first time one does.
SafeUntilFirstFault ==
  faults = 0 =>
    /\ OneMessagePerRow /\ WorkerWritesPendingRow /\ ResolvedIsBacked /\ RejectedStaysOut
    /\ MachinePublishesItsMatch /\ ReopenedIsScreened

THEOREM FaultsAreTheOnlyHazard == Spec => []SafeUntilFirstFault
<1>1. IInv => /\ OneMessagePerRow /\ WorkerWritesPendingRow /\ ResolvedIsBacked
              /\ RejectedStaysOut /\ MachinePublishesItsMatch /\ ReopenedIsScreened
  BY DEF IInv, Exclusive, WorkerSees, WorkerWritesPendingRow, RowInv, ResolvedIsBacked,
         RejectedStaysOut, MachinePublishesItsMatch, ReopenedIsScreened
<1>2. FaultlessInv => SafeUntilFirstFault
  BY <1>1 DEF FaultlessInv, BudgetInv, SafeUntilFirstFault
<1> QED BY <1>2, FaultlessHolds, PTL

\* recordPipelineAttempt() adds one to what the worker read at the start, and is
\* never set back by a second worker with an older count: the budget runs out.
AttemptsAreCounted ==
  [][\A s \in Submissions : attempts'[s] \in {attempts[s], attempts[s] + 1}]_vars

\* For a lock that outlives its message, through kills, losses and torn writes.
THEOREM AttemptsAreNeverLost ==
  ASSUME LocksOutliveMessages
  PROVE  Spec => AttemptsAreCounted
<1> DEFINE Counted == \A s \in Submissions : attempts'[s] \in {attempts[s], attempts[s] + 1}
<1>1. Init => TypeInv /\ CountInv
  <2> SUFFICES ASSUME Init PROVE TypeInv /\ CountInv
    OBVIOUS
  <2>1. \A j \in Jobs : ~Live(j)
    BY FreePlace DEF Init, Live
  <2>2. \A j \in Jobs : SeesAttempts(j)
    BY <2>1 DEF SeesAttempts, At
  <2> QED BY <2>2, InvInit DEF IInv, CountInv
<1>2. TypeInv /\ CountInv /\ [Next]_vars => (TypeInv /\ CountInv)' /\ Counted
  BY TypeStep, CountStep DEF LocksHold
<1>3. TypeInv /\ CountInv /\ [Next]_vars => [Counted]_vars
  BY <1>2
<1>4. TypeInv /\ CountInv /\ [Next]_vars => (TypeInv /\ CountInv)'
  BY <1>2
<1> HIDE DEF Counted
<1>5. [Counted]_vars
        => [\A s \in Submissions : attempts'[s] \in {attempts[s], attempts[s] + 1}]_vars
  BY DEF Counted
<1> QED BY <1>1, <1>3, <1>4, <1>5, PTL DEF Spec, AttemptsAreCounted

-----------------------------------------------------------------------------
(* Who may take a decision back *)

\* A row that was rejected leaves that status in two ways only: a reviewer who was
\* shown it before decides it again, or a verdict comes late and sends it to review.
\* No redelivery, sweep or failed() hook does it, whatever is killed or lost.
RejectionIsKept ==
  [][\A s \in Submissions :
       status[s] = "rejected" /\ status'[s] # "rejected"
         => s \in shown \/ (status'[s] = "needs_review" /\ scores'[s] > scores[s])]_vars

THEOREM MachinesKeepRejections ==
  ASSUME LocksOutliveMessages, WritesAreWhole
  PROVE  Spec => RejectionIsKept
<1> DEFINE Kept == \A s \in Submissions :
             status[s] = "rejected" /\ status'[s] # "rejected"
               => s \in shown \/ (status'[s] = "needs_review" /\ scores'[s] > scores[s])
<1>1. ASSUME IInv, [Next]_vars PROVE Kept
  <2> SUFFICES ASSUME NEW r \in Submissions, status[r] = "rejected", status'[r] # "rejected"
               PROVE  r \in shown \/ (status'[r] = "needs_review" /\ scores'[r] > scores[r])
    OBVIOUS
  <2>1. PICK s \in Submissions : RowMoves(s)
    BY <1>1, StepMovesOneRow DEF NoRowMoves, RowNoted
  <2>2. s = r
    BY <2>1 DEF RowMoves, OthersKeep
  <2>3. ~Intake(s)
    BY <2>2 DEF Intake, RecordReported, RecordSilently
  <2>4. CASE \E j \in Jobs : RecordVerdict(j) /\ s = job[j].sub
    <3>1. /\ status'[s] = status[s] \/ status'[s] = "needs_review"
          /\ scores'[s] = scores[s] + 1 /\ scores[s] \in Nat
      BY <1>1, <2>4, VerdictRow
    <3> QED BY <2>2, <3>1
  <2>5. CASE Review(s)
    BY <2>2, <2>5 DEF Review, Show, Approve, Reject
  <2> QED BY <2>1, <2>2, <2>3, <2>4, <2>5 DEF RowMoves
<1>2. IInv /\ [Next]_vars => [Kept]_vars
  BY <1>1
<1> QED BY <1>2, Invariance, PTL DEF Spec, RejectionIsKept
=============================================================================
