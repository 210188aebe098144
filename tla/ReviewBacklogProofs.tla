------------------------- MODULE ReviewBacklogProofs -------------------------
(***************************************************************************)
(* What holds of ReviewBacklog for every number of rows, items, reviewers  *)
(* and dying jobs.                                                         *)
(***************************************************************************)
EXTENDS ReviewBacklog, TLAPS

(***************************************************************************)
(* A job that is about to write a row has it in hand, knows its item, and  *)
(* has seen to its price; so has a reviewer who saw a price.  A row in one *)
(* actor's hands only is still what it was when it was loaded.             *)
(***************************************************************************)
JobInv(t) ==
  /\ work[t].stage \in {"pricing", "priced", "named", "voided"}
       => work[t].row \in work[t].todo
  /\ t \in Publishers /\ work[t].stage # "idle" => work[t].item \in Items
  /\ t \in Publishers /\ work[t].stage \in {"priced", "named"}
       => price[work[t].row] # "none"

DeskInv(r) ==
  desk[r].priced => desk[r].row \in Submissions /\ price[desk[r].row] # "none"

RowInv(s) ==
  /\ status[s] = "resolved" => price[s] # "none"
  /\ status[s] = "none" => resolution[s].method # "human"
  /\ status[s] = "needs_review" /\ s \notin reopened => resolution[s].method # "human"

HandInv(t, s) ==
  s \in work[t].todo /\ s \notin raced
    => /\ status[s] = "needs_review"
       /\ ~Locked(s)
       /\ \A u \in Tasks : s \in work[u].todo => u = t

BInv ==
  /\ TypeOK
  /\ \A t \in Tasks : JobInv(t)
  /\ \A r \in Reviewers : DeskInv(r)
  /\ \A s \in Submissions : RowInv(s)
  /\ \A t \in Tasks, s \in Submissions : HandInv(t, s)

-----------------------------------------------------------------------------
(* Jobs *)

LEMMA TaskFacts ==
  /\ Publishers \subseteq Tasks /\ RejectTask \in Tasks /\ RematchTask \in Publishers
  /\ RejectTask \notin Publishers
  /\ \A i \in Items : ClearTask(i) \in Publishers
  /\ \A t \in Tasks : t.item \in Items \union {Null}
<1>1. Publishers \subseteq Tasks /\ RejectTask \in Tasks /\ RematchTask \in Publishers
      /\ \A i \in Items : ClearTask(i) \in Publishers
  BY DEF Publishers, Tasks
<1>2. RejectTask \notin Publishers
  <2>1. \A i \in Items : ClearTask(i).kind = "clear"
    BY DEF ClearTask
  <2>2. RejectTask.kind = "reject" /\ RematchTask.kind = "rematch"
    BY DEF RejectTask, RematchTask
  <2> QED BY <2>1, <2>2 DEF Publishers
<1>3. \A t \in Tasks : t.item \in Items \union {Null}
  <2>1. \A i \in Items : ClearTask(i).item = i
    BY DEF ClearTask
  <2>2. RejectTask.item = Null /\ RematchTask.item = Null
    BY DEF RejectTask, RematchTask
  <2> QED BY <2>1, <2>2 DEF Publishers, Tasks
<1> QED BY <1>1, <1>2, <1>3

LEMMA NoWorkType == NoWork \in Works /\ NoWork.stage = "idle" /\ NoWork.todo = {}
BY DEF NoWork, Works, Stages

\* What the end of a row leaves of a job.
LEMMA NextRowEffect ==
  ASSUME TypeOK, NEW t \in Tasks, NEW s \in Submissions, NextRow(t, s)
  PROVE  /\ work' \in [Tasks -> Works]
         /\ \A u \in Tasks \ {t} : work'[u] = work[u]
         /\ work'[t].stage \in {"idle", "loaded"}
         /\ work'[t].todo = work[t].todo \ {s}
         /\ work'[t].stage = "loaded" => work'[t].item = work[t].item
<1>1. work[t] \in Works
  BY DEF TypeOK
<1>2. /\ Rest(t, s) \in Works /\ Rest(t, s).stage \in {"idle", "loaded"}
      /\ Rest(t, s).todo = work[t].todo \ {s}
      /\ Rest(t, s).stage = "loaded" => Rest(t, s).item = work[t].item
  BY <1>1, NoWorkType DEF Rest, Works, Stages
<1> QED BY <1>2 DEF TypeOK, NextRow

\* A job that has just been queued holds nothing.
LEMMA QueuedEffect ==
  ASSUME TypeOK, NEW t \in Tasks, NEW s \in Submissions \union {Null},
         NEW i \in Items \union {Null}, work' = [work EXCEPT ![t] = Queued(s, i)]
  PROVE  /\ work' \in [Tasks -> Works]
         /\ \A u \in Tasks \ {t} : work'[u] = work[u]
         /\ work'[t].stage = "queued" /\ work'[t].todo = {} /\ work'[t].item = i
<1>1. /\ Queued(s, i) \in Works /\ Queued(s, i).stage = "queued"
      /\ Queued(s, i).todo = {} /\ Queued(s, i).item = i
  BY DEF Queued, NoWork, Works, Stages
<1> QED BY <1>1 DEF TypeOK

\* What the death of a job leaves.
LEMMA NoWorkEffect ==
  ASSUME TypeOK, NEW t \in Tasks, work' = [work EXCEPT ![t] = NoWork]
  PROVE  /\ work' \in [Tasks -> Works]
         /\ \A u \in Tasks \ {t} : work'[u] = work[u]
         /\ work'[t].stage = "idle" /\ work'[t].todo = {}
BY NoWorkType DEF TypeOK

\* A job that moves on within a row.
LEMMA TakeUpEffect ==
  ASSUME TypeOK, NEW t \in Tasks, NEW s \in Submissions, NEW g \in Stages, TakeUp(t, s, g)
  PROVE  /\ work' \in [Tasks -> Works]
         /\ \A u \in Tasks \ {t} : work'[u] = work[u]
         /\ work'[t].stage = g /\ work'[t].row = s
         /\ work'[t].todo = work[t].todo /\ work'[t].item = work[t].item
<1>1. work[t] \in Works
  BY DEF TypeOK
<1>2. [work[t] EXCEPT !.row = s, !.stage = g] \in Works
  BY <1>1 DEF Works
<1> QED BY <1>1, <1>2 DEF TypeOK, Works, TakeUp

LEMMA AdvanceEffect ==
  ASSUME TypeOK, NEW t \in Tasks, NEW g \in Stages, work' = [work EXCEPT ![t].stage = g]
  PROVE  /\ work' \in [Tasks -> Works]
         /\ \A u \in Tasks \ {t} : work'[u] = work[u]
         /\ work'[t].stage = g /\ work'[t].row = work[t].row
         /\ work'[t].todo = work[t].todo /\ work'[t].item = work[t].item
<1>1. work[t] \in Works
  BY DEF TypeOK
<1>2. [work[t] EXCEPT !.stage = g] \in Works
  BY <1>1 DEF Works
<1> QED BY <1>1, <1>2 DEF TypeOK, Works

-----------------------------------------------------------------------------
(* What the actors who do not move keep *)

PriceKept == \A s \in Submissions : price[s] # "none" => price'[s] # "none"

LEMMA JobKept ==
  ASSUME BInv, PriceKept, NEW t \in Tasks, work'[t] = work[t]
  PROVE  JobInv(t)'
<1>1. JobInv(t) /\ work[t].todo \subseteq Submissions
  BY DEF BInv, TypeOK, Works
<1> QED BY <1>1 DEF JobInv, PriceKept

LEMMA DeskKept ==
  ASSUME BInv, PriceKept, NEW r \in Reviewers, desk'[r] = desk[r]
  PROVE  DeskInv(r)'
BY DEF BInv, DeskInv, PriceKept

LEMMA RowKept ==
  ASSUME BInv, PriceKept, NEW s \in Submissions, status'[s] = status[s],
         resolution'[s].method # "human" \/ resolution'[s] = resolution[s],
         reopened' = reopened
  PROVE  RowInv(s)'
BY DEF BInv, RowInv, PriceKept

\* No job loads rows, and no decision begins on a row a job has in hand.
LEMMA HandKept ==
  ASSUME BInv, \A u \in Tasks : work'[u].todo \subseteq work[u].todo, raced \subseteq raced',
         \A s \in Submissions : \A u \in Tasks :
           s \in work'[u].todo /\ s \notin raced'
             => status'[s] = status[s] /\ (Locked(s)' => Locked(s))
  PROVE  \A t \in Tasks, s \in Submissions : HandInv(t, s)'
BY DEF BInv, HandInv

\* A row a decision or a finished job is about is in no other job's hands.
LEMMA LockedIsFree ==
  ASSUME BInv, NEW s \in Submissions \ raced, Locked(s), NEW t \in Tasks
  PROVE  s \notin work[t].todo
BY DEF BInv, HandInv

-----------------------------------------------------------------------------
(* Initially *)

LEMMA BInit == Init => BInv
<1> SUFFICES ASSUME Init PROVE BInv
  OBVIOUS
<1>1. TypeOK
  <2>1. EmptyDesk \in Desks
    BY DEF EmptyDesk, Desks
  <2>2. Unmatched \in Resolutions
    BY DEF Unmatched, Resolutions
  <2> QED BY <2>1, <2>2, NoWorkType DEF Init, TypeOK, Statuses, Prices
<1>2. \A t \in Tasks : JobInv(t)
  BY NoWorkType DEF Init, JobInv
<1>3. \A r \in Reviewers : DeskInv(r)
  BY DEF Init, DeskInv, EmptyDesk
<1>4. \A s \in Submissions : RowInv(s)
  BY DEF Init, RowInv, Unmatched
<1>5. \A t \in Tasks, s \in Submissions : HandInv(t, s)
  BY NoWorkType DEF Init, HandInv
<1> QED BY <1>1, <1>2, <1>3, <1>4, <1>5 DEF BInv

-----------------------------------------------------------------------------
(* The queue fills *)

LEMMA ArriveStep ==
  ASSUME BInv, NEW s \in Submissions, Arrive(s)
  PROVE  BInv'
<1>1. PriceKept
  BY DEF Arrive, PriceKept, BInv, TypeOK
<1>2. TypeOK'
  BY DEF Arrive, phraseVars, BInv, TypeOK, Statuses, Prices, Resolutions
<1>3. \A t \in Tasks : JobInv(t)'
  BY <1>1, JobKept DEF Arrive
<1>4. \A r \in Reviewers : DeskInv(r)'
  BY <1>1, DeskKept DEF Arrive
<1>5. ASSUME NEW x \in Submissions PROVE RowInv(x)'
  <2>1. CASE x = s
    BY <2>1 DEF Arrive, RowInv, BInv, TypeOK
  <2>2. CASE x # s
    BY <1>1, <2>2, RowKept DEF Arrive, BInv, TypeOK
  <2> QED BY <2>1, <2>2
<1>6. \A t \in Tasks, x \in Submissions : HandInv(t, x)'
  <2>1. \A t \in Tasks : s \in work[t].todo => s \in raced
    BY DEF Arrive, BInv, HandInv
  <2>2. \A x \in Submissions : Locked(x)' = Locked(x)
    BY DEF Arrive, Locked
  <2>3. \A x \in Submissions \ {s} : status'[x] = status[x]
    BY DEF Arrive, BInv, TypeOK
  <2> QED BY <2>1, <2>2, <2>3, HandKept DEF Arrive
<1> QED BY <1>2, <1>3, <1>4, <1>5, <1>6 DEF BInv

\* A verdict moves its row only: a row in a job's hands waits already, unless it is
\* marked, and no price goes.
LEMMA VerdictStep ==
  ASSUME BInv, NEW s \in Submissions, LateVerdict(s)
  PROVE  BInv'
<1>1. PICK p \in {price[s], "invalid"} : price' = [price EXCEPT ![s] = p]
  BY DEF LateVerdict
<1>2. /\ status' = [status EXCEPT ![s] = "needs_review"] /\ price[s] # "none"
      /\ reopened' = IF status[s] = "needs_review" THEN reopened ELSE reopened \union {s}
      /\ UNCHANGED <<resolution, desk, work, faults, raced>> /\ UNCHANGED phraseVars
  BY DEF LateVerdict
<1>3. PriceKept /\ price' \in [Submissions -> Prices]
  BY <1>1, <1>2 DEF PriceKept, BInv, TypeOK, Prices
<1>4. reopened' \subseteq Submissions
  BY <1>2 DEF BInv, TypeOK
<1>5. TypeOK'
  BY <1>2, <1>3, <1>4 DEF phraseVars, BInv, TypeOK, Statuses
<1>6. \A t \in Tasks : JobInv(t)'
  BY <1>2, <1>3, JobKept
<1>7. \A r \in Reviewers : DeskInv(r)'
  BY <1>2, <1>3, DeskKept
<1>8. \A x \in Submissions : RowInv(x)'
  BY <1>2, <1>3 DEF RowInv, BInv, TypeOK, PriceKept
<1>9. \A t \in Tasks, x \in Submissions : HandInv(t, x)'
  BY <1>2 DEF HandInv, BInv, TypeOK, Locked
<1> QED BY <1>5, <1>6, <1>7, <1>8, <1>9 DEF BInv

-----------------------------------------------------------------------------
(* Reviewers *)

\* A request that has let go of its row.
LEMMA LetGo ==
  ASSUME TypeOK, NEW r \in Reviewers, NEW d \in Desks, d.row = Null, ~d.priced,
         desk' = [desk EXCEPT ![r] = d]
  PROVE  /\ desk' \in [Reviewers -> Desks]
         /\ DeskInv(r)'
         /\ \A q \in Reviewers \ {r} : desk'[q] = desk[q]
         /\ \A s \in Submissions : Locked(s)' => Locked(s)
<1>3. desk'[r] = d /\ \A q \in Reviewers \ {r} : desk'[q] = desk[q]
  BY DEF TypeOK
<1>4. DeskInv(r)'
  BY <1>3 DEF DeskInv
<1>5. ASSUME NEW s \in Submissions, Locked(s)' PROVE Locked(s)
  <2>1. PICK q \in Reviewers : desk'[q].row = s
    BY <1>5 DEF Locked
  <2>2. q # r
    BY <1>3, <2>1, BacklogAssumption DEF BacklogAssumption
  <2> QED BY <1>3, <2>1, <2>2 DEF Locked
<1> QED BY <1>3, <1>4, <1>5 DEF TypeOK

LEMMA LoadedDesk ==
  ASSUME NEW rows \in SUBSET Submissions
  PROVE  LET d == [EmptyDesk EXCEPT !.rows = rows]
         IN d \in Desks /\ d.row = Null /\ ~d.priced
BY DEF EmptyDesk, Desks

LEMMA PutLetsGo ==
  ASSUME TypeOK, NEW r \in Reviewers, NEW s \in Submissions, Put(r, s)
  PROVE  /\ desk' \in [Reviewers -> Desks]
         /\ DeskInv(r)'
         /\ \A q \in Reviewers \ {r} : desk'[q] = desk[q]
         /\ \A x \in Submissions : Locked(x)' => Locked(x)
<1>1. desk[r].rows \ {s} \in SUBSET Submissions
  BY DEF TypeOK, Desks
<1> DEFINE d == [EmptyDesk EXCEPT !.rows = desk[r].rows \ {s}]
<1>2. desk' = [desk EXCEPT ![r] = d]
  BY DEF Put
<1>3. d \in Desks /\ d.row = Null /\ ~d.priced
  BY <1>1, LoadedDesk
<1> HIDE DEF d
<1> QED BY <1>2, <1>3, LetGo

\* Steps that move one request only.
LEMMA RequestStep ==
  ASSUME BInv, NEW r \in Reviewers, UNCHANGED rowVars, UNCHANGED phraseVars,
         UNCHANGED <<work, faults, raced, reopened>>,
         desk' \in [Reviewers -> Desks], DeskInv(r)',
         \A q \in Reviewers \ {r} : desk'[q] = desk[q],
         \A s \in Submissions : Locked(s)' => Locked(s)
  PROVE  BInv'
<1>1. PriceKept
  BY DEF PriceKept, rowVars
<1>2. TypeOK'
  BY DEF rowVars, phraseVars, BInv, TypeOK
<1>3. \A t \in Tasks : JobInv(t)'
  BY <1>1, JobKept
<1>4. \A q \in Reviewers : DeskInv(q)'
  BY <1>1, DeskKept
<1>5. \A x \in Submissions : RowInv(x)'
  BY <1>1, RowKept DEF rowVars
<1>6. \A t \in Tasks, x \in Submissions : HandInv(t, x)'
  BY HandKept DEF rowVars
<1> QED BY <1>2, <1>3, <1>4, <1>5, <1>6 DEF BInv

LEMMA OpenStep ==
  ASSUME BInv, NEW r \in Reviewers, Open(r)
  PROVE  BInv'
<1>1. PICK rows \in SUBSET Waiting \ {{}} : desk' = [desk EXCEPT ![r].rows = rows]
  BY DEF Open
<1>2. rows \in SUBSET Submissions
  BY <1>1 DEF Waiting
<1>3. desk[r] = EmptyDesk
  BY DEF Open
<1> DEFINE d == [EmptyDesk EXCEPT !.rows = rows]
<1>4. desk' = [desk EXCEPT ![r] = d]
  BY <1>1, <1>3
<1>5. d \in Desks /\ d.row = Null /\ ~d.priced
  BY <1>2, LoadedDesk
<1> HIDE DEF d
<1> QED BY <1>4, <1>5, LetGo, RequestStep DEF Open, BInv

LEMMA LeaveStep ==
  ASSUME BInv, NEW r \in Reviewers, Leave(r)
  PROVE  BInv'
<1>1. EmptyDesk \in Desks /\ EmptyDesk.row = Null /\ ~EmptyDesk.priced
  BY DEF EmptyDesk, Desks
<1>2. desk' = [desk EXCEPT ![r] = EmptyDesk]
  BY DEF Leave
<1> QED BY <1>1, <1>2, LetGo, RequestStep DEF Leave, BInv

LEMMA RollBackStep ==
  ASSUME BInv, NEW r \in Reviewers, NEW s \in Submissions, RollBack(r, s)
  PROVE  BInv'
BY PutLetsGo, RequestStep DEF RollBack, BInv

\* A decision begins: if a job has the row in hand, the row is marked.
LEMMA LookStep ==
  ASSUME BInv, NEW r \in Reviewers, NEW s \in Submissions, Look(r, s)
  PROVE  BInv'
<1> DEFINE d == [desk[r] EXCEPT !.row = s, !.known = (variants # {}),
                                !.priced = (price[s] # "none")]
<1>1. desk[r] \in Desks
  BY DEF BInv, TypeOK
<1>2. d \in Desks /\ d.row = s /\ (d.priced <=> price[s] # "none")
  BY <1>1 DEF Desks
<1>3. desk' = [desk EXCEPT ![r] = d]
  BY DEF Look
<1> HIDE DEF d
<1>4. desk' \in [Reviewers -> Desks] /\ desk'[r] = d
      /\ \A q \in Reviewers \ {r} : desk'[q] = desk[q]
  BY <1>2, <1>3 DEF BInv, TypeOK
<1>5. PriceKept
  BY DEF PriceKept, rowVars, Look
<1>6. TypeOK'
  BY <1>4 DEF Look, rowVars, phraseVars, BInv, TypeOK
<1>7. \A t \in Tasks : JobInv(t)'
  BY <1>5, JobKept DEF Look
<1>8. \A q \in Reviewers : DeskInv(q)'
  <2>1. DeskInv(r)'
    BY <1>2, <1>4 DEF DeskInv, Look, rowVars
  <2> QED BY <1>4, <1>5, <2>1, DeskKept
<1>9. \A x \in Submissions : RowInv(x)'
  BY <1>5, RowKept DEF Look, rowVars
<1>10. \A t \in Tasks, x \in Submissions : HandInv(t, x)'
  <2>1. \A x \in Submissions : Locked(x)' => Locked(x) \/ x = s
    BY <1>2, <1>4 DEF Locked
  <2>2. \A t \in Tasks : s \in work'[t].todo => s \in raced'
    BY DEF Look, InAJob
  <2>3. raced \subseteq raced' /\ work' = work /\ status' = status
    BY DEF Look, rowVars
  <2> QED BY <2>1, <2>2, <2>3, HandKept
<1> QED BY <1>6, <1>7, <1>8, <1>9, <1>10 DEF BInv

\* What a decision teaches leaves every other job as it was.
LEMMA EnqueueKeeps ==
  ASSUME BInv, PriceKept, NEW t \in Tasks, NEW s \in Submissions \union {Null},
         NEW i \in Items \union {Null}, t \in Publishers => i \in Items,
         work' = [work EXCEPT ![t] = Queued(s, i)]
  PROVE  /\ work' \in [Tasks -> Works]
         /\ \A u \in Tasks : JobInv(u)' /\ work'[u].todo \subseteq work[u].todo
<1>1. /\ work' \in [Tasks -> Works]
      /\ \A u \in Tasks \ {t} : work'[u] = work[u]
      /\ work'[t].stage = "queued" /\ work'[t].todo = {} /\ work'[t].item = i
  BY QueuedEffect DEF BInv
<1>2. JobInv(t)'
  BY <1>1 DEF JobInv
<1>3. \A u \in Tasks : JobInv(u)'
  BY <1>1, <1>2, JobKept
<1> QED BY <1>1, <1>3

LEMMA LearnVariantKeeps ==
  ASSUME BInv, PriceKept, NEW s \in Submissions, NEW i \in Items, NEW known,
         LearnVariant(s, i, known)
  PROVE  /\ variants' \subseteq Items
         /\ work' \in [Tasks -> Works]
         /\ \A u \in Tasks : JobInv(u)' /\ work'[u].todo \subseteq work[u].todo
<1>1. CASE UNCHANGED <<variants, work>>
  BY <1>1, JobKept DEF BInv, TypeOK
<1>2. CASE variants' = variants \union {i} /\ Enqueue(ClearTask(i), s)
  <2>1. ClearTask(i) \in Tasks /\ ClearTask(i).item = i
    BY TaskFacts DEF ClearTask
  <2>2. work' = [work EXCEPT ![ClearTask(i)] = Queued(s, i)]
    BY <1>2, <2>1 DEF Enqueue
  <2>3. variants' \subseteq Items
    BY <1>2 DEF BInv, TypeOK
  <2> QED BY <2>1, <2>2, <2>3, EnqueueKeeps
<1> QED BY <1>1, <1>2 DEF LearnVariant

LEMMA LearnRejectionKeeps ==
  ASSUME BInv, PriceKept, NEW s \in Submissions, NEW known,
         LearnRejection(s, known) \/ UNCHANGED <<ruled, work>>
  PROVE  /\ ruled' \in BOOLEAN
         /\ work' \in [Tasks -> Works]
         /\ \A u \in Tasks : JobInv(u)' /\ work'[u].todo \subseteq work[u].todo
<1>1. CASE UNCHANGED <<ruled, work>>
  BY <1>1, JobKept DEF BInv, TypeOK
<1>2. CASE ruled' = TRUE /\ Enqueue(RejectTask, s)
  <2>1. RejectTask \in Tasks /\ RejectTask \notin Publishers /\ RejectTask.item = Null
    BY TaskFacts DEF RejectTask
  <2>2. work' = [work EXCEPT ![RejectTask] = Queued(s, Null)]
    BY <1>2, <2>1 DEF Enqueue
  <2> QED BY <1>2, <2>1, <2>2, EnqueueKeeps
<1> QED BY <1>1, <1>2 DEF LearnRejection

\* A decision commits: it moves its own row only, which no job has in hand
\* unless the row is marked.
LEMMA DecisionStep ==
  ASSUME BInv, PriceKept, NEW r \in Reviewers, NEW s \in Submissions,
         desk[r].row = s, Put(r, s),
         NEW to \in Statuses, status' = [status EXCEPT ![s] = to],
         NEW m \in Resolutions, resolution' = [resolution EXCEPT ![s] = m],
         to = "resolved" => price'[s] # "none", to \notin {"none", "needs_review"},
         price' \in [Submissions -> Prices], variants' \subseteq Items, ruled' \in BOOLEAN,
         work' \in [Tasks -> Works],
         \A u \in Tasks : JobInv(u)' /\ work'[u].todo \subseteq work[u].todo,
         UNCHANGED <<faults, raced, reopened>>
  PROVE  BInv'
<1>1. TypeOK'
  BY PutLetsGo DEF BInv, TypeOK
<1>2. \A q \in Reviewers : DeskInv(q)'
  BY PutLetsGo, DeskKept DEF BInv
<1>3. \A x \in Submissions : RowInv(x)'
  <2>1. RowInv(s)'
    BY DEF RowInv, BInv, TypeOK
  <2>2. \A x \in Submissions \ {s} : status'[x] = status[x] /\ resolution'[x] = resolution[x]
    BY DEF BInv, TypeOK
  <2> QED BY <2>1, <2>2, RowKept
<1>4. \A t \in Tasks, x \in Submissions : HandInv(t, x)'
  <2>1. \A t \in Tasks : s \in work[t].todo => s \in raced
    BY LockedIsFree DEF Locked
  <2>2. \A x \in Submissions : Locked(x)' => Locked(x)
    BY PutLetsGo DEF BInv
  <2>3. \A x \in Submissions \ {s} : status'[x] = status[x]
    BY DEF BInv, TypeOK
  <2> QED BY <2>1, <2>2, <2>3, HandKept
<1> QED BY <1>1, <1>2, <1>3, <1>4 DEF BInv

LEMMA ApproveStep ==
  ASSUME BInv, NEW r \in Reviewers, NEW s \in Submissions, NEW i \in Items, Approve(r, s, i)
  PROVE  BInv'
<1>1. /\ price' \in [Submissions -> Prices] /\ PriceKept
      /\ price'[s] # "none"
  <2>1. CASE desk[r].priced
    BY <2>1 DEF Approve, BInv, DeskInv, TypeOK, PriceKept
  <2>2. CASE ~desk[r].priced
    BY <2>2 DEF Approve, BInv, TypeOK, PriceKept, Prices
  <2> QED BY <2>1, <2>2
<1>2. /\ variants' \subseteq Items /\ work' \in [Tasks -> Works]
      /\ \A u \in Tasks : JobInv(u)' /\ work'[u].todo \subseteq work[u].todo
  <2>1. LearnVariant(s, i, desk[r].known)
    BY DEF Approve
  <2> QED BY <1>1, <2>1, LearnVariantKeeps
<1>3. [item |-> i, method |-> "human"] \in Resolutions /\ "resolved" \in Statuses
  BY DEF Resolutions, Statuses
<1>4. /\ desk[r].row = s /\ Put(r, s) /\ ruled' \in BOOLEAN
      /\ status' = [status EXCEPT ![s] = "resolved"]
      /\ resolution' = [resolution EXCEPT ![s] = [item |-> i, method |-> "human"]]
      /\ UNCHANGED <<faults, raced, reopened>>
  BY DEF Approve, BInv, TypeOK
<1> QED BY <1>1, <1>2, <1>3, <1>4, DecisionStep

LEMMA RejectStep ==
  ASSUME BInv, NEW r \in Reviewers, NEW s \in Submissions, Reject(r, s)
  PROVE  BInv'
<1>1. price' \in [Submissions -> Prices] /\ PriceKept
  BY DEF Reject, Void, BInv, TypeOK, PriceKept, Prices
<1>2. /\ ruled' \in BOOLEAN /\ work' \in [Tasks -> Works]
      /\ \A u \in Tasks : JobInv(u)' /\ work'[u].todo \subseteq work[u].todo
  <2>1. LearnRejection(s, desk[r].known) \/ UNCHANGED <<ruled, work>>
    BY DEF Reject
  <2> QED BY <1>1, <2>1, LearnRejectionKeeps
<1>3. [item |-> Null, method |-> "human"] \in Resolutions /\ "rejected" \in Statuses
  BY DEF Resolutions, Statuses
<1>4. /\ desk[r].row = s /\ Put(r, s) /\ variants' \subseteq Items
      /\ status' = [status EXCEPT ![s] = "rejected"]
      /\ resolution' = [resolution EXCEPT ![s] = [item |-> Null, method |-> "human"]]
      /\ UNCHANGED <<faults, raced, reopened>>
  BY DEF Reject, BInv, TypeOK
<1> QED BY <1>1, <1>2, <1>3, <1>4, DecisionStep

-----------------------------------------------------------------------------
(* The backlog jobs *)

\* A job moves, and nothing about the rows' standing does.
LEMMA JobStep ==
  ASSUME BInv, PriceKept, NEW t \in Tasks,
         work' \in [Tasks -> Works], \A u \in Tasks \ {t} : work'[u] = work[u],
         JobInv(t)', work'[t].todo \subseteq work[t].todo,
         price' \in [Submissions -> Prices], resolution' \in [Submissions -> Resolutions],
         status' \in [Submissions -> Statuses], faults' \in Nat,
         UNCHANGED <<desk, raced, reopened>>, UNCHANGED phraseVars,
         \A x \in Submissions : RowInv(x)',
         \A x \in Submissions, u \in Tasks :
           x \in work'[u].todo /\ x \notin raced => status'[x] = status[x]
  PROVE  BInv'
<1>1. TypeOK'
  BY DEF BInv, TypeOK, phraseVars
<1>2. \A u \in Tasks : JobInv(u)'
  BY JobKept
<1>3. \A r \in Reviewers : DeskInv(r)'
  BY DeskKept
<1>4. \A u \in Tasks, x \in Submissions : HandInv(u, x)'
  <2>1. \A x \in Submissions : Locked(x)' = Locked(x)
    BY DEF Locked
  <2>2. \A u \in Tasks : work'[u].todo \subseteq work[u].todo
    OBVIOUS
  <2> QED BY <2>1, <2>2, HandKept
<1> QED BY <1>1, <1>2, <1>3, <1>4 DEF BInv

\* A job moves and the rows do not.
LEMMA QuietStep ==
  ASSUME BInv, NEW t \in Tasks,
         work' \in [Tasks -> Works], \A u \in Tasks \ {t} : work'[u] = work[u],
         JobInv(t)', work'[t].todo \subseteq work[t].todo, faults' \in Nat,
         UNCHANGED rowVars, UNCHANGED phraseVars, UNCHANGED <<desk, raced, reopened>>
  PROVE  BInv'
<1>1. PriceKept /\ price' \in [Submissions -> Prices]
  BY DEF PriceKept, rowVars, BInv, TypeOK
<1>2. /\ resolution' \in [Submissions -> Resolutions] /\ status' \in [Submissions -> Statuses]
      /\ UNCHANGED <<desk, raced, reopened>> /\ status' = status
  BY DEF rowVars, BInv, TypeOK
<1>3. \A x \in Submissions : RowInv(x)'
  BY <1>1, RowKept DEF rowVars
<1> QED BY <1>1, <1>2, <1>3, JobStep

LEMMA StartRematchStep ==
  ASSUME BInv, NEW i \in Items, StartRematch(i)
  PROVE  BInv'
<1>1. RematchTask \in Tasks /\ Null \in Submissions \union {Null}
  BY TaskFacts
<1>2. work' = [work EXCEPT ![RematchTask] = Queued(Null, i)]
  BY DEF StartRematch
<1>3. /\ work' \in [Tasks -> Works]
      /\ \A u \in Tasks \ {RematchTask} : work'[u] = work[u]
      /\ work'[RematchTask].stage = "queued" /\ work'[RematchTask].todo = {}
      /\ work'[RematchTask].item = i
  BY <1>1, <1>2, QueuedEffect DEF BInv
<1>4. JobInv(RematchTask)'
  BY <1>3 DEF JobInv
<1>5. faults' \in Nat
  BY DEF StartRematch, BInv, TypeOK
<1> QED BY <1>1, <1>3, <1>4, <1>5, QuietStep DEF StartRematch

\* A job loads rows: those in anybody else's hands are marked.
LEMMA LoadStep ==
  ASSUME BInv, NEW t \in Tasks, Load(t)
  PROVE  BInv'
<1>1. PICK rows \in SUBSET Waiting : TakeRows(t, rows)
  <2>1. Waiting \in SUBSET Waiting /\ Waiting \intersect Spelt(t) \in SUBSET Waiting
    OBVIOUS
  <2> QED BY <2>1 DEF Load
<1>2. rows \subseteq Submissions /\ \A x \in rows : status[x] = "needs_review"
  BY <1>1 DEF Waiting
<1>3. work[t] \in Works /\ work[t].stage = "queued"
  BY DEF BInv, TypeOK, Load
<1>4. /\ work' \in [Tasks -> Works]
      /\ \A u \in Tasks \ {t} : work'[u] = work[u]
      /\ work'[t].todo = rows
      /\ work'[t].stage \in {"idle", "loaded"}
      /\ work'[t].stage = "loaded" => work'[t].item = work[t].item
  <2>1. CASE rows = {}
    <3>1. work' = [work EXCEPT ![t] = NoWork]
      BY <1>1, <2>1 DEF TakeRows
    <3> QED BY <2>1, <3>1, NoWorkEffect DEF BInv
  <2>2. CASE rows # {}
    <3> DEFINE m == [work[t] EXCEPT !.stage = "loaded", !.todo = rows]
    <3>1. m \in Works /\ m.todo = rows /\ m.stage = "loaded" /\ m.item = work[t].item
      BY <1>2, <1>3 DEF Works, Stages
    <3>2. work' = [work EXCEPT ![t] = m]
      BY <1>1, <2>2 DEF TakeRows
    <3> HIDE DEF m
    <3> QED BY <3>1, <3>2 DEF BInv, TypeOK
  <2> QED BY <2>1, <2>2
<1>5. /\ UNCHANGED rowVars /\ UNCHANGED phraseVars /\ UNCHANGED <<desk, faults, reopened>>
      /\ raced' = raced \union {x \in rows : InAJob(x) \/ Locked(x)}
  BY <1>1 DEF TakeRows
<1>6. PriceKept
  BY <1>5 DEF PriceKept, rowVars
<1>7. TypeOK'
  BY <1>2, <1>4, <1>5 DEF BInv, TypeOK, rowVars, phraseVars
<1>8. \A u \in Tasks : JobInv(u)'
  <2>1. JobInv(t)'
    BY <1>3, <1>4 DEF BInv, JobInv
  <2> QED BY <1>4, <1>6, <2>1, JobKept
<1>9. \A r \in Reviewers : DeskInv(r)'
  BY <1>5, <1>6, DeskKept
<1>10. \A x \in Submissions : RowInv(x)'
  BY <1>5, <1>6, RowKept DEF rowVars
<1>11. ASSUME NEW u \in Tasks, NEW x \in Submissions PROVE HandInv(u, x)'
  <2> SUFFICES ASSUME x \in work'[u].todo, x \notin raced'
               PROVE  /\ status'[x] = "needs_review" /\ ~Locked(x)'
                      /\ \A v \in Tasks : x \in work'[v].todo => v = u
    BY DEF HandInv
  <2>1. x \notin raced /\ Locked(x)' = Locked(x) /\ status' = status
    BY <1>5 DEF Locked, rowVars
  <2>2. CASE x \in rows
    <3>1. ~InAJob(x) /\ ~Locked(x)
      BY <1>5, <2>2
    <3>2. \A v \in Tasks : x \notin work[v].todo
      BY <3>1 DEF InAJob
    <3>3. \A v \in Tasks : x \in work'[v].todo => v = t
      BY <1>4, <3>2
    <3> QED BY <1>2, <2>1, <2>2, <3>1, <3>3
  <2>3. CASE x \notin rows
    <3>1. \A v \in Tasks : x \in work'[v].todo => v # t /\ x \in work[v].todo
      BY <1>4, <2>3
    <3>2. HandInv(u, x)
      BY DEF BInv
    <3> QED BY <2>1, <3>1, <3>2 DEF HandInv
  <2> QED BY <2>2, <2>3
<1> QED BY <1>7, <1>8, <1>9, <1>10, <1>11 DEF BInv

LEMMA SeekPriceStep ==
  ASSUME BInv, NEW t \in Publishers, NEW s \in Submissions, SeekPrice(t, s)
  PROVE  BInv'
<1> DEFINE g == IF price[s] = "none" THEN "pricing" ELSE "priced"
<1>1. t \in Tasks /\ g \in Stages
  BY TaskFacts DEF Stages
<1>2. TakeUp(t, s, g)
  BY DEF SeekPrice
<1>3. g = "priced" => price[s] # "none"
  OBVIOUS
<1>4. g \in {"pricing", "priced"}
  OBVIOUS
<1> HIDE DEF g
<1>5. /\ work' \in [Tasks -> Works]
      /\ \A u \in Tasks \ {t} : work'[u] = work[u]
      /\ work'[t].stage = g /\ work'[t].row = s
      /\ work'[t].todo = work[t].todo /\ work'[t].item = work[t].item
  BY <1>1, <1>2, TakeUpEffect DEF BInv
<1>6. JobInv(t)'
  BY <1>1, <1>3, <1>4, <1>5 DEF SeekPrice, JobInv, BInv, rowVars
<1>7. faults' \in Nat
  BY DEF SeekPrice, BInv, TypeOK
<1> QED BY <1>1, <1>5, <1>6, <1>7, QuietStep DEF SeekPrice

\* The job is done with its row; the row may have moved, no other may.
LEMMA RowDone ==
  ASSUME BInv, NEW t \in Tasks, NEW s \in Submissions, work[t].stage # "idle", NextRow(t, s)
  PROVE  /\ work' \in [Tasks -> Works]
         /\ \A u \in Tasks \ {t} : work'[u] = work[u]
         /\ JobInv(t)'
         /\ work'[t].todo \subseteq work[t].todo /\ s \notin work'[t].todo
<1>1. /\ work' \in [Tasks -> Works]
      /\ \A u \in Tasks \ {t} : work'[u] = work[u]
      /\ work'[t].stage \in {"idle", "loaded"}
      /\ work'[t].todo = work[t].todo \ {s}
      /\ work'[t].stage = "loaded" => work'[t].item = work[t].item
  BY NextRowEffect DEF BInv
<1>2. t \in Publishers /\ work'[t].stage # "idle" => work'[t].item \in Items
  BY <1>1 DEF BInv, JobInv
<1>3. JobInv(t)'
  BY <1>1, <1>2 DEF JobInv
<1> QED BY <1>1, <1>3

LEMMA NoPriceStep ==
  ASSUME BInv, NEW t \in Publishers, NEW s \in Submissions, NoPrice(t, s)
  PROVE  BInv'
<1>1. t \in Tasks
  BY TaskFacts
<1>2. faults' \in Nat
  BY DEF NoPrice, BInv, TypeOK
<1> QED BY <1>1, <1>2, RowDone, QuietStep DEF NoPrice

LEMMA InsertPriceStep ==
  ASSUME BInv, NEW t \in Publishers, NEW s \in Submissions, InsertPrice(t, s)
  PROVE  BInv'
<1>1. t \in Tasks /\ "priced" \in Stages
  BY TaskFacts DEF Stages
<1>2. /\ work' \in [Tasks -> Works]
      /\ \A u \in Tasks \ {t} : work'[u] = work[u]
      /\ work'[t].stage = "priced" /\ work'[t].row = s
      /\ work'[t].todo = work[t].todo /\ work'[t].item = work[t].item
  BY <1>1, AdvanceEffect DEF BInv, InsertPrice
<1>3. /\ price' \in [Submissions -> Prices] /\ PriceKept /\ price'[s] # "none"
  BY DEF InsertPrice, BInv, TypeOK, PriceKept, Prices
<1>4. JobInv(t)'
  BY <1>1, <1>2, <1>3 DEF InsertPrice, JobInv, BInv
<1>5. \A x \in Submissions : RowInv(x)'
  BY <1>3, RowKept DEF InsertPrice
<1>6. /\ resolution' \in [Submissions -> Resolutions] /\ status' \in [Submissions -> Statuses]
      /\ UNCHANGED <<desk, raced, reopened>> /\ status' = status /\ faults' \in Nat
      /\ UNCHANGED phraseVars
  BY DEF InsertPrice, BInv, TypeOK
<1> QED BY <1>1, <1>2, <1>3, <1>4, <1>5, <1>6, JobStep

LEMMA DeathStep ==
  ASSUME BInv, NEW t \in Tasks, Dies(t), UNCHANGED rowVars, UNCHANGED phraseVars,
         UNCHANGED <<desk, raced, reopened>>
  PROVE  BInv'
<1>1. /\ work' \in [Tasks -> Works]
      /\ \A u \in Tasks \ {t} : work'[u] = work[u]
      /\ work'[t].stage = "idle" /\ work'[t].todo = {}
  BY NoWorkEffect DEF Dies, BInv
<1>2. JobInv(t)'
  BY <1>1 DEF JobInv
<1>3. faults' \in Nat
  BY DEF Dies, BInv, TypeOK
<1> QED BY <1>1, <1>2, <1>3, QuietStep

\* A job writes a row's resolution: if a person had decided the row, it is marked.
LEMMA NameStep ==
  ASSUME BInv, NEW t \in Tasks, NEW s \in Submissions, NEW m \in Resolutions,
         m.method # "human", resolution' = [resolution EXCEPT ![s] = m],
         work' \in [Tasks -> Works], \A u \in Tasks \ {t} : work'[u] = work[u],
         JobInv(t)', work'[t].todo = work[t].todo,
         UNCHANGED <<status, price, desk, faults, raced, reopened>>, UNCHANGED phraseVars
  PROVE  BInv'
<1>1. PriceKept /\ price' \in [Submissions -> Prices] /\ faults' \in Nat
      /\ status' \in [Submissions -> Statuses] /\ resolution' \in [Submissions -> Resolutions]
  BY DEF PriceKept, BInv, TypeOK
<1>2. \A x \in Submissions : resolution'[x].method # "human" \/ resolution'[x] = resolution[x]
  BY DEF BInv, TypeOK
<1>3. \A x \in Submissions : RowInv(x)'
  BY <1>1, <1>2, RowKept
<1> QED BY <1>1, <1>3, JobStep

LEMMA NameItemStep ==
  ASSUME BInv, NEW t \in Publishers, NEW s \in Submissions, NameItem(t, s)
  PROVE  BInv'
<1>1. t \in Tasks /\ "named" \in Stages
  BY TaskFacts DEF Stages
<1>2. /\ work' \in [Tasks -> Works]
      /\ \A u \in Tasks \ {t} : work'[u] = work[u]
      /\ work'[t].stage = "named" /\ work'[t].row = work[t].row
      /\ work'[t].todo = work[t].todo /\ work'[t].item = work[t].item
  BY <1>1, AdvanceEffect DEF BInv, NameItem
<1>3. JobInv(t) /\ price' = price
  BY <1>1 DEF BInv, NameItem
<1>4. JobInv(t)'
  BY <1>1, <1>2, <1>3 DEF NameItem, JobInv
<1> DEFINE m == [item |-> work[t].item, method |-> "exact"]
<1>5. m \in Resolutions /\ m.method # "human"
  BY <1>3 DEF NameItem, JobInv, Resolutions
<1>6. resolution' = [resolution EXCEPT ![s] = m]
  BY DEF NameItem
<1>7. UNCHANGED <<status, price, desk, faults, raced, reopened>> /\ UNCHANGED phraseVars
  BY DEF NameItem
<1> HIDE DEF m
<1> QED BY <1>1, <1>2, <1>4, <1>5, <1>6, <1>7, NameStep

LEMMA NameRulingStep ==
  ASSUME BInv, NEW s \in Submissions, NameRuling(s)
  PROVE  BInv'
<1>1. RejectTask \in Tasks /\ RejectTask \notin Publishers /\ "named" \in Stages
  BY TaskFacts DEF Stages
<1>2. TakeUp(RejectTask, s, "named")
  BY DEF NameRuling
<1>3. /\ work' \in [Tasks -> Works]
      /\ \A u \in Tasks \ {RejectTask} : work'[u] = work[u]
      /\ work'[RejectTask].stage = "named" /\ work'[RejectTask].row = s
      /\ work'[RejectTask].todo = work[RejectTask].todo
  BY <1>1, <1>2, TakeUpEffect DEF BInv
<1>4. JobInv(RejectTask)'
  BY <1>1, <1>3 DEF NameRuling, JobInv
<1> DEFINE m == [item |-> Null, method |-> "rule"]
<1>5. m \in Resolutions /\ m.method # "human"
  BY DEF Resolutions
<1>6. resolution' = [resolution EXCEPT ![s] = m]
  BY DEF NameRuling
<1>7. UNCHANGED <<status, price, desk, faults, raced, reopened>> /\ UNCHANGED phraseVars
  BY DEF NameRuling
<1> HIDE DEF m
<1> QED BY <1>1, <1>3, <1>4, <1>5, <1>6, <1>7, NameStep

LEMMA VoidPriceStep ==
  ASSUME BInv, NEW s \in Submissions, VoidPrice(s)
  PROVE  BInv'
<1>1. RejectTask \in Tasks /\ RejectTask \notin Publishers /\ "voided" \in Stages
  BY TaskFacts DEF Stages
<1>2. /\ work' \in [Tasks -> Works]
      /\ \A u \in Tasks \ {RejectTask} : work'[u] = work[u]
      /\ work'[RejectTask].stage = "voided"
      /\ work'[RejectTask].row = work[RejectTask].row
      /\ work'[RejectTask].todo = work[RejectTask].todo
  BY <1>1, AdvanceEffect DEF BInv, VoidPrice
<1>3. JobInv(RejectTask)'
  BY <1>1, <1>2 DEF BInv, VoidPrice, JobInv
<1>4. price' \in [Submissions -> Prices] /\ PriceKept
  BY DEF VoidPrice, Void, BInv, TypeOK, PriceKept, Prices
<1>5. \A x \in Submissions : RowInv(x)'
  BY <1>4, RowKept DEF VoidPrice
<1>6. /\ resolution' \in [Submissions -> Resolutions] /\ status' \in [Submissions -> Statuses]
      /\ UNCHANGED <<desk, raced, reopened>> /\ status' = status /\ faults' \in Nat
      /\ UNCHANGED phraseVars
  BY DEF VoidPrice, BInv, TypeOK
<1> QED BY <1>1, <1>2, <1>3, <1>4, <1>5, <1>6, JobStep

\* A job finishes a row: no other job has the row in hand unless it is marked.
LEMMA FinishStep ==
  ASSUME BInv, NEW t \in Tasks, NEW s \in Submissions, s \in work[t].todo,
         work[t].stage # "idle", NextRow(t, s),
         NEW to \in {"resolved", "rejected"}, status' = [status EXCEPT ![s] = to],
         to = "resolved" => price[s] # "none",
         UNCHANGED <<resolution, price, desk, faults, raced, reopened>>, UNCHANGED phraseVars
  PROVE  BInv'
<1>1. /\ work' \in [Tasks -> Works]
      /\ \A u \in Tasks \ {t} : work'[u] = work[u]
      /\ JobInv(t)'
      /\ work'[t].todo \subseteq work[t].todo /\ s \notin work'[t].todo
  BY RowDone
<1>2. PriceKept /\ price' \in [Submissions -> Prices] /\ faults' \in Nat
      /\ resolution' \in [Submissions -> Resolutions] /\ status' \in [Submissions -> Statuses]
  BY DEF PriceKept, BInv, TypeOK, Statuses
<1>3. \A x \in Submissions \ {s} : status'[x] = status[x]
  BY DEF BInv, TypeOK
<1>4. \A x \in Submissions : RowInv(x)'
  <2>1. RowInv(s)'
    BY DEF RowInv, BInv, TypeOK
  <2> QED BY <1>2, <1>3, <2>1, RowKept
<1>5. \A x \in Submissions, u \in Tasks :
        x \in work'[u].todo /\ x \notin raced => status'[x] = status[x]
  <2>1. \A u \in Tasks : s \in work[u].todo /\ s \notin raced => u = t
    BY DEF BInv, HandInv
  <2> QED BY <1>1, <1>3, <2>1
<1> QED BY <1>1, <1>2, <1>4, <1>5, JobStep

LEMMA ConcludeStep ==
  ASSUME BInv, NEW t \in Publishers, NEW s \in Submissions, Conclude(t, s)
  PROVE  BInv'
<1>1. t \in Tasks
  BY TaskFacts
<1>2. s \in work[t].todo /\ work[t].stage # "idle" /\ price[s] # "none"
  BY <1>1 DEF Conclude, BInv, JobInv
<1> QED BY <1>1, <1>2, FinishStep DEF Conclude

LEMMA ExpelStep ==
  ASSUME BInv, NEW s \in Submissions, Expel(s)
  PROVE  BInv'
<1>1. RejectTask \in Tasks
  BY TaskFacts
<1>2. s \in work[RejectTask].todo /\ work[RejectTask].stage # "idle"
  BY <1>1 DEF Expel, BInv, JobInv
<1> QED BY <1>1, <1>2, FinishStep DEF Expel

-----------------------------------------------------------------------------
(* The theorems *)

LEMMA BNext == BInv /\ [Next]_vars => BInv'
<1> SUFFICES ASSUME BInv, [Next]_vars PROVE BInv'
  OBVIOUS
<1>1. ASSUME NEW s \in Submissions, Arrive(s) \/ LateVerdict(s) PROVE BInv'
  BY <1>1, ArriveStep, VerdictStep
<1>2. ASSUME NEW r \in Reviewers, Open(r) \/ Leave(r) PROVE BInv'
  BY <1>2, OpenStep, LeaveStep
<1>3. ASSUME NEW r \in Reviewers, NEW s \in Submissions, Look(r, s) \/ Decide(r, s)
      PROVE  BInv'
  BY <1>3, LookStep, ApproveStep, RejectStep, RollBackStep DEF Decide
<1>4. ASSUME NEW i \in Items, StartRematch(i) PROVE BInv'
  BY <1>4, StartRematchStep
<1>5. ASSUME NEW t \in Publishers, NEW s \in Submissions, Publish(t, s) PROVE BInv'
  <2>1. CASE SeekPrice(t, s) \/ NoPrice(t, s) \/ InsertPrice(t, s)
    BY <2>1, SeekPriceStep, NoPriceStep, InsertPriceStep
  <2>2. CASE InsertCollides(t, s)
    BY <2>2, TaskFacts, DeathStep DEF InsertCollides
  <2>3. CASE NameItem(t, s) \/ Conclude(t, s)
    BY <2>3, NameItemStep, ConcludeStep
  <2> QED BY <1>5, <2>1, <2>2, <2>3 DEF Publish
<1>6. ASSUME NEW s \in Submissions, Expunge(s) PROVE BInv'
  BY <1>6, NameRulingStep, VoidPriceStep, ExpelStep DEF Expunge
<1>7. ASSUME NEW t \in Tasks, WorkStep(t) \/ WorkKilled(t) PROVE BInv'
  <2>1. CASE Load(t)
    BY <2>1, LoadStep
  <2>2. CASE WorkKilled(t)
    BY <2>2, DeathStep DEF WorkKilled
  <2> QED BY <1>5, <1>6, <1>7, <2>1, <2>2 DEF WorkStep
<1>8. CASE UNCHANGED vars
  <2>1. PriceKept
    BY <1>8 DEF vars, PriceKept
  <2>2. TypeOK'
    BY <1>8 DEF vars, BInv, TypeOK
  <2>3. \A t \in Tasks, s \in Submissions : HandInv(t, s)'
    BY <1>8, HandKept DEF vars, Locked
  <2>4. /\ \A t \in Tasks : JobInv(t)'
        /\ \A r \in Reviewers : DeskInv(r)'
        /\ \A s \in Submissions : RowInv(s)'
    BY <1>8, <2>1, JobKept, DeskKept, RowKept DEF vars
  <2> QED BY <2>2, <2>3, <2>4 DEF BInv
<1> QED BY <1>1, <1>2, <1>3, <1>4, <1>7, <1>8 DEF Next

\* The inductive invariant the theorems below rest on.
THEOREM BacklogInvariance == Spec => []BInv
BY BInit, BNext, PTL DEF Spec

\* Every variable keeps its type: an exact match names an item, a ruling none.
THEOREM BacklogTypeCorrect == Spec => []TypeOK
<1>1. BInv => TypeOK
  BY DEF BInv
<1> QED BY <1>1, BacklogInvariance, PTL

\* A resolved row has a price, in whatever order jobs, commands and reviewers
\* got at it and wherever a job was killed.
THEOREM BacklogRowsAreBacked == Spec => []ResolvedIsBacked
<1>1. BInv => ResolvedIsBacked
  BY DEF BInv, RowInv, ResolvedIsBacked
<1> QED BY <1>1, BacklogInvariance, PTL

\* A backlog job replaces a reviewer's decision only on a row that was in both
\* their hands, or that a verdict of the detector has put back in the queue since
\* (ClearReviewBacklogJob.php:72-120, ScoreSubmissionAnomaly.php:98-117).
THEOREM BacklogVerdictStands == Spec => HumanVerdictStands
<1> DEFINE Stands ==
      \A s \in Submissions \ raced' :
        resolution[s].method = "human" /\ ~(s \in reopened /\ status[s] = "needs_review")
          => resolution'[s].method = "human"
<1>1. ASSUME BInv, [Next]_vars PROVE [Stands]_vars
  <2>1. ASSUME NEW s \in Submissions, Arrive(s) PROVE Stands
    <3>1. \A x \in Submissions \ {s} : resolution'[x] = resolution[x]
      BY <1>1, <2>1 DEF Arrive, BInv, TypeOK
    <3>2. resolution[s].method # "human"
      BY <1>1, <2>1 DEF Arrive, BInv, RowInv
    <3> QED BY <3>1, <3>2
  <2>2. CASE resolution' = resolution
    BY <2>2
  <2>3. ASSUME NEW s \in Submissions,
               \E i : resolution' = [resolution EXCEPT ![s] = [item |-> i, method |-> "human"]]
        PROVE  Stands
    BY <1>1, <2>3 DEF BInv, TypeOK
  <2>4. ASSUME NEW t \in Tasks, NEW s \in Submissions, s \in work[t].todo, raced' = raced,
               NEW m, resolution' = [resolution EXCEPT ![s] = m]
        PROVE  Stands
    <3>1. s \notin raced
            => resolution[s].method # "human" \/ (s \in reopened /\ status[s] = "needs_review")
      BY <1>1, <2>4 DEF BInv, HandInv, RowInv
    <3>2. \A x \in Submissions \ {s} : resolution'[x] = resolution[x]
      BY <1>1, <2>4 DEF BInv, TypeOK
    <3> QED BY <2>4, <3>1, <3>2
  <2>5. ASSUME NEW r \in Reviewers, NEW s \in Submissions, Decide(r, s) PROVE Stands
    BY <2>2, <2>3, <2>5 DEF Decide, Approve, Reject, RollBack, rowVars
  <2>6. ASSUME NEW t \in Publishers, NEW s \in Submissions, NameItem(t, s) PROVE Stands
    <3>1. t \in Tasks /\ s \in work[t].todo
      BY <1>1, <2>6, TaskFacts DEF NameItem, BInv, JobInv
    <3> QED BY <2>4, <2>6, <3>1 DEF NameItem
  <2>7. ASSUME NEW s \in Submissions, NameRuling(s) PROVE Stands
    BY <2>4, <2>7, TaskFacts DEF NameRuling
  <2>8. ASSUME NEW t \in Tasks, WorkStep(t) \/ WorkKilled(t) PROVE Stands
    <3>1. CASE Load(t) \/ WorkKilled(t)
      BY <2>2, <3>1 DEF Load, TakeRows, WorkKilled, rowVars
    <3>2. ASSUME NEW s \in Submissions, Publish(t, s), t \in Publishers PROVE Stands
      BY <2>2, <2>6, <3>2
         DEF Publish, SeekPrice, NoPrice, InsertPrice, InsertCollides, Conclude, rowVars
    <3>3. ASSUME NEW s \in Submissions, Expunge(s) PROVE Stands
      BY <2>2, <2>7, <3>3 DEF Expunge, VoidPrice, Expel
    <3> QED BY <2>8, <3>1, <3>2, <3>3 DEF WorkStep
  <2>9. CASE Next
    <3>1. ASSUME NEW r \in Reviewers, NEW s \in Submissions, Look(r, s) PROVE Stands
      BY <2>2, <3>1 DEF Look, rowVars
    <3>2. ASSUME NEW i \in Items, StartRematch(i) PROVE Stands
      BY <2>2, <3>2 DEF StartRematch, rowVars
    <3>3. ASSUME NEW r \in Reviewers, Open(r) \/ Leave(r) PROVE Stands
      BY <2>2, <3>3 DEF Open, Leave, rowVars
    <3>4. ASSUME NEW s \in Submissions, LateVerdict(s) PROVE Stands
      BY <2>2, <3>4 DEF LateVerdict
    <3> QED BY <2>1, <2>5, <2>8, <2>9, <3>1, <3>2, <3>3, <3>4 DEF Next
  <2> QED BY <1>1, <2>9
<1> QED BY <1>1, BacklogInvariance, PTL DEF Spec, HumanVerdictStands
-----------------------------------------------------------------------------
(***************************************************************************)
(* What keeps a rejected price out.  A reviewer who holds an unmarked row   *)
(* is the only one who does and knows of its price, so rejecting it voids   *)
(* it; a job that has voided the price of an unmarked row finds it void     *)
(* when it rejects the row; and nobody publishes a price for an unmarked    *)
(* row that has left the queue.                                             *)
(***************************************************************************)
OutInv(s) ==
  s \notin raced /\ status[s] = "rejected" => price[s] # "valid"

VoidInv ==
  work[RejectTask].stage = "voided" /\ work[RejectTask].row \notin raced
    => price[work[RejectTask].row] # "valid"

SeenInv(r) ==
  /\ \A s \in desk[r].rows : status[s] # "none"
  /\ \A s \in Submissions :
       desk[r].row = s
         => /\ s \in desk[r].rows
            /\ s \notin raced /\ price[s] # "none" => desk[r].priced
            /\ \A q \in Reviewers : desk[q].row = s => q = r

RInv ==
  /\ \A s \in Submissions : OutInv(s)
  /\ VoidInv
  /\ \A r \in Reviewers : SeenInv(r)

LEMMA RInit == Init => RInv
<1> SUFFICES ASSUME Init PROVE RInv
  OBVIOUS
<1>1. \A s \in Submissions : OutInv(s)
  BY DEF Init, OutInv
<1>2. VoidInv
  BY NoWorkType, TaskFacts DEF Init, VoidInv
<1>3. \A r \in Reviewers : desk[r].rows = {} /\ desk[r].row = Null
  BY DEF Init, EmptyDesk
<1>4. \A r \in Reviewers : SeenInv(r)
  BY <1>3, BacklogAssumption DEF SeenInv, BacklogAssumption
<1> QED BY <1>1, <1>2, <1>4 DEF RInv

\* The rejecting job is not at an unmarked row that another actor may move.
LEMMA VoidedIsHeld ==
  ASSUME BInv, NEW s \in Submissions \ raced, work[RejectTask].stage = "voided",
         work[RejectTask].row = s
  PROVE  status[s] = "needs_review" /\ ~Locked(s) /\ s \in work[RejectTask].todo
<1>1. RejectTask \in Tasks
  BY TaskFacts
<1>2. s \in work[RejectTask].todo
  BY <1>1 DEF BInv, JobInv
<1> QED BY <1>1, <1>2 DEF BInv, HandInv

\* No row moves, no desk does, and the rejecting job does not reach "voided".
LEMMA StillStep ==
  ASSUME RInv, status' = status, price' = price, desk' = desk, raced \subseteq raced',
         work'[RejectTask].stage = "voided" => work'[RejectTask] = work[RejectTask]
  PROVE  RInv'
<1>1. \A s \in Submissions : OutInv(s)'
  BY DEF RInv, OutInv
<1>2. VoidInv'
  BY DEF RInv, VoidInv
<1>3. \A r \in Reviewers : SeenInv(r)'
  BY DEF RInv, SeenInv
<1> QED BY <1>1, <1>2, <1>3 DEF RInv

\* One row moves; if it is unmarked, nobody has it on the desk.
LEMMA RowStep ==
  ASSUME BInv, RInv, NEW s \in Submissions, desk' = desk, raced' = raced,
         \A x \in Submissions \ {s} : status'[x] = status[x] /\ price'[x] = price[x],
         s \notin raced => ~Locked(s) \/ price[s] # "none" \/ price'[s] = price[s],
         s \notin raced => (status'[s] = "rejected" => price'[s] # "valid"),
         status'[s] = "none" => status[s] = "none", VoidInv'
  PROVE  RInv'
<1>1. \A x \in Submissions : OutInv(x)'
  BY DEF RInv, OutInv
<1>2. ASSUME NEW r \in Reviewers PROVE SeenInv(r)'
  <2>1. SeenInv(r) /\ desk[r].rows \subseteq Submissions
    BY DEF RInv, BInv, TypeOK, Desks
  <2>2. \A x \in desk'[r].rows : status'[x] # "none"
    BY <2>1 DEF SeenInv
  <2>3. ASSUME NEW x \in Submissions, desk'[r].row = x, x \notin raced', price'[x] # "none"
        PROVE  desk'[r].priced
    <3>1. price[x] # "none"
      BY <2>3 DEF Locked
    <3> QED BY <2>1, <2>3, <3>1 DEF SeenInv
  <2>4. ASSUME NEW x \in Submissions, desk'[r].row = x
        PROVE  x \in desk'[r].rows /\ \A q \in Reviewers : desk'[q].row = x => q = r
    BY <2>1, <2>4 DEF SeenInv
  <2> QED BY <2>2, <2>3, <2>4 DEF SeenInv
<1> QED BY <1>1, <1>2 DEF RInv

\* The rejecting job stays where it is, and so does the row it is at.
LEMMA VoidKept ==
  ASSUME BInv, RInv,
         work'[RejectTask].stage = "voided" => work'[RejectTask] = work[RejectTask],
         raced' = raced, NEW s,
         \A x \in Submissions \ {s} : price'[x] = price[x],
         work[RejectTask].stage = "voided" /\ work[RejectTask].row = s
           => s \in raced \/ price'[s] = price[s]
  PROVE  VoidInv'
<1>1. work[RejectTask].stage = "voided" => work[RejectTask].row \in Submissions
  BY TaskFacts DEF BInv, JobInv, TypeOK, Works
<1> QED BY <1>1 DEF RInv, VoidInv

LEMMA ArriveKeepsOut ==
  ASSUME BInv, RInv, NEW s \in Submissions, Arrive(s)
  PROVE  RInv'
<1>1. \A x \in Submissions \ {s} : status'[x] = status[x] /\ price'[x] = price[x]
  BY DEF Arrive, BInv, TypeOK
<1>2. status'[s] = "needs_review" /\ status[s] = "none"
  BY DEF Arrive, BInv, TypeOK
<1>3. ~Locked(s)
  BY <1>2 DEF RInv, SeenInv, Locked
<1>4. VoidInv'
  BY <1>1, <1>2, VoidedIsHeld, VoidKept DEF Arrive
<1> QED BY <1>1, <1>2, <1>3, <1>4, RowStep DEF Arrive

\* A verdict never makes a price count.
LEMMA VerdictKeepsOut ==
  ASSUME BInv, RInv, NEW s \in Submissions, LateVerdict(s)
  PROVE  RInv'
<1>1. \A x \in Submissions \ {s} : status'[x] = status[x] /\ price'[x] = price[x]
  BY DEF LateVerdict, BInv, TypeOK
<1>2. /\ status'[s] = "needs_review" /\ price[s] # "none" /\ work' = work
      /\ price'[s] = price[s] \/ price'[s] = "invalid"
      /\ desk' = desk /\ raced' = raced
  BY DEF LateVerdict, BInv, TypeOK
<1>3. VoidInv'
  <2>1. work[RejectTask].stage = "voided" => work[RejectTask].row \in Submissions
    BY TaskFacts DEF BInv, JobInv, TypeOK, Works
  <2> QED BY <1>1, <1>2, <2>1 DEF RInv, VoidInv
<1> QED BY <1>1, <1>2, <1>3, RowStep

-----------------------------------------------------------------------------
(* Requests *)

\* A request that holds no row: the others hold theirs as before.
LEMMA FreeDesk ==
  ASSUME BInv, RInv, NEW r \in Reviewers, NEW d \in Desks, d.row = Null,
         desk' = [desk EXCEPT ![r] = d],
         \A x \in d.rows : status'[x] # "none",
         \A x \in Submissions : status'[x] = "none" => status[x] = "none",
         raced' = raced,
         \A q \in Reviewers \ {r}, x \in Submissions :
           desk[q].row = x => price'[x] = price[x]
  PROVE  \A q \in Reviewers : SeenInv(q)'
<1>1. desk'[r] = d /\ \A q \in Reviewers \ {r} : desk'[q] = desk[q]
  BY DEF BInv, TypeOK
<1>2. Null \notin Submissions
  BY BacklogAssumption DEF BacklogAssumption
<1>3. SeenInv(r)'
  BY <1>1, <1>2 DEF SeenInv
<1>4. ASSUME NEW q \in Reviewers \ {r} PROVE SeenInv(q)'
  <2>1. SeenInv(q) /\ desk'[q] = desk[q] /\ desk[q].rows \subseteq Submissions
    BY <1>1, <1>4 DEF RInv, BInv, TypeOK, Desks
  <2>2. \A x \in desk'[q].rows : status'[x] # "none"
    BY <2>1 DEF SeenInv
  <2>3. ASSUME NEW x \in Submissions, desk'[q].row = x
        PROVE  /\ x \in desk'[q].rows
               /\ x \notin raced' /\ price'[x] # "none" => desk'[q].priced
               /\ \A p \in Reviewers : desk'[p].row = x => p = q
    <3>1. price'[x] = price[x]
      BY <2>1, <2>3
    <3>2. \A p \in Reviewers : desk'[p].row = x => p # r /\ desk[p].row = x
      BY <1>1, <1>2
    <3> QED BY <2>1, <2>3, <3>1, <3>2 DEF SeenInv
  <2> QED BY <2>2, <2>3 DEF SeenInv
<1> QED BY <1>3, <1>4

LEMMA OpenKeepsOut ==
  ASSUME BInv, RInv, NEW r \in Reviewers, Open(r) \/ Leave(r)
  PROVE  RInv'
<1>1. status' = status /\ price' = price /\ work' = work /\ raced' = raced
  BY DEF Open, Leave, rowVars
<1>2. ASSUME Open(r) PROVE \A q \in Reviewers : SeenInv(q)'
  <2>1. PICK rows \in SUBSET Waiting : desk' = [desk EXCEPT ![r].rows = rows]
    BY <1>2 DEF Open
  <2>2. desk[r] = EmptyDesk
    BY <1>2 DEF Open
  <2>3. rows \in SUBSET Submissions /\ \A x \in rows : status'[x] # "none"
    BY <1>1 DEF Waiting
  <2> DEFINE d == [EmptyDesk EXCEPT !.rows = rows]
  <2>4. desk' = [desk EXCEPT ![r] = d]
    BY <2>1, <2>2
  <2>5. d \in Desks /\ d.row = Null /\ d.rows = rows
    BY <2>3 DEF EmptyDesk, Desks
  <2> HIDE DEF d
  <2> QED BY <1>1, <2>3, <2>4, <2>5, FreeDesk
<1>3. ASSUME Leave(r) PROVE \A q \in Reviewers : SeenInv(q)'
  <2>1. EmptyDesk \in Desks /\ EmptyDesk.row = Null /\ EmptyDesk.rows = {}
    BY DEF EmptyDesk, Desks
  <2>2. desk' = [desk EXCEPT ![r] = EmptyDesk]
    BY <1>3 DEF Leave
  <2> QED BY <1>1, <2>1, <2>2, FreeDesk
<1>4. \A q \in Reviewers : SeenInv(q)'
  BY <1>2, <1>3
<1>5. VoidInv' /\ \A x \in Submissions : OutInv(x)'
  BY <1>1 DEF RInv, VoidInv, OutInv
<1> QED BY <1>4, <1>5 DEF RInv

LEMMA LookKeepsOut ==
  ASSUME BInv, RInv, NEW r \in Reviewers, NEW s \in Submissions, Look(r, s)
  PROVE  RInv'
<1> DEFINE d == [desk[r] EXCEPT !.row = s, !.known = (variants # {}),
                                !.priced = (price[s] # "none")]
<1>1. desk[r] \in Desks
  BY DEF BInv, TypeOK
<1>2. d.row = s /\ d.rows = desk[r].rows /\ (d.priced <=> price[s] # "none")
  BY <1>1 DEF Desks
<1>3. desk' = [desk EXCEPT ![r] = d]
  BY DEF Look
<1> HIDE DEF d
<1>4. desk'[r] = d /\ \A q \in Reviewers \ {r} : desk'[q] = desk[q]
  BY <1>3 DEF BInv, TypeOK
<1>5. status' = status /\ price' = price /\ work' = work /\ raced \subseteq raced'
  BY DEF Look, rowVars
<1>6. s \in desk[r].rows /\ \A q \in Reviewers : desk[q].row # s
  BY DEF Look, Locked
<1>7. SeenInv(r)'
  <2>1. \A x \in desk'[r].rows : status'[x] # "none"
    BY <1>2, <1>4, <1>5 DEF RInv, SeenInv
  <2>2. \A q \in Reviewers : desk'[q].row = s => q = r
    BY <1>4, <1>6
  <2> QED BY <1>2, <1>4, <1>5, <1>6, <2>1, <2>2 DEF SeenInv
<1>8. ASSUME NEW q \in Reviewers \ {r} PROVE SeenInv(q)'
  <2>1. SeenInv(q) /\ desk'[q] = desk[q] /\ desk[q].row # s
    BY <1>4, <1>6 DEF RInv
  <2>2. \A x \in Submissions, p \in Reviewers :
          desk'[q].row = x /\ desk'[p].row = x => desk[p].row = x
    BY <1>2, <1>4, <2>1
  <2> QED BY <1>5, <2>1, <2>2 DEF SeenInv
<1>9. VoidInv' /\ \A x \in Submissions : OutInv(x)'
  BY <1>5 DEF RInv, VoidInv, OutInv
<1> QED BY <1>7, <1>8, <1>9 DEF RInv

\* A decision ends: it moves its own row only, which nobody else holds.
LEMMA DecisionKeepsOut ==
  ASSUME BInv, RInv, NEW r \in Reviewers, NEW s \in Submissions, desk[r].row = s, Put(r, s),
         \A x \in Submissions \ {s} : status'[x] = status[x] /\ price'[x] = price[x],
         status'[s] # "none",
         s \notin raced => (status'[s] = "rejected" => price'[s] # "valid"),
         raced' = raced,
         work'[RejectTask].stage = "voided" => work'[RejectTask] = work[RejectTask]
  PROVE  RInv'
<1>1. Locked(s)
  BY DEF Locked
<1>2. VoidInv'
  BY <1>1, VoidedIsHeld, VoidKept
<1>3. \A x \in Submissions : OutInv(x)'
  BY DEF RInv, OutInv
<1>4. desk[r].rows \in SUBSET Submissions /\ SeenInv(r)
  BY DEF RInv, BInv, TypeOK, Desks
<1>5. desk[r].rows \ {s} \in SUBSET Submissions
      /\ \A x \in desk[r].rows \ {s} : status'[x] # "none"
  BY <1>4 DEF SeenInv
<1>6. \A q \in Reviewers \ {r}, x \in Submissions : desk[q].row = x => price'[x] = price[x]
  BY <1>4 DEF SeenInv
<1>7. \A q \in Reviewers : SeenInv(q)'
  <2> DEFINE d == [EmptyDesk EXCEPT !.rows = desk[r].rows \ {s}]
  <2>1. desk' = [desk EXCEPT ![r] = d]
    BY DEF Put
  <2>2. d \in Desks /\ d.row = Null /\ d.rows = desk[r].rows \ {s}
    BY <1>5 DEF EmptyDesk, Desks
  <2>3. \A x \in Submissions : status'[x] = "none" => status[x] = "none"
    OBVIOUS
  <2> HIDE DEF d
  <2> QED BY <1>5, <1>6, <2>1, <2>2, <2>3, FreeDesk
<1> QED BY <1>2, <1>3, <1>7 DEF RInv

\* What a decision teaches does not move the rejecting job to "voided".
LEMMA TaughtIsQueued ==
  ASSUME BInv, NEW t \in Tasks, NEW s \in Submissions, Enqueue(t, s)
  PROVE  work'[RejectTask].stage = "voided" => work'[RejectTask] = work[RejectTask]
<1>1. t.item \in Items \union {Null} /\ RejectTask \in Tasks
  BY TaskFacts
<1>2. work'[t].stage = "queued" /\ \A u \in Tasks \ {t} : work'[u] = work[u]
  BY <1>1, QueuedEffect DEF Enqueue, BInv
<1> QED BY <1>1, <1>2

LEMMA ApproveKeepsOut ==
  ASSUME BInv, RInv, NEW r \in Reviewers, NEW s \in Submissions, NEW i \in Items,
         Approve(r, s, i)
  PROVE  RInv'
<1>1. \A x \in Submissions \ {s} : status'[x] = status[x] /\ price'[x] = price[x]
  BY DEF Approve, BInv, TypeOK
<1>2. status'[s] = "resolved" /\ raced' = raced /\ desk[r].row = s /\ Put(r, s)
  BY DEF Approve, BInv, TypeOK
<1>3. work'[RejectTask].stage = "voided" => work'[RejectTask] = work[RejectTask]
  <2>1. work' = work \/ Enqueue(ClearTask(i), s)
    BY DEF Approve, LearnVariant
  <2> QED BY <2>1, TaughtIsQueued, TaskFacts
<1> QED BY <1>1, <1>2, <1>3, DecisionKeepsOut

LEMMA RejectKeepsOut ==
  ASSUME BInv, RInv, NEW r \in Reviewers, NEW s \in Submissions, Reject(r, s)
  PROVE  RInv'
<1>1. \A x \in Submissions \ {s} : status'[x] = status[x] /\ price'[x] = price[x]
  BY DEF Reject, Void, BInv, TypeOK
<1>2. status'[s] = "rejected" /\ raced' = raced /\ desk[r].row = s /\ Put(r, s)
  BY DEF Reject, BInv, TypeOK
<1>3. s \notin raced => price'[s] # "valid"
  <2>1. CASE desk[r].priced
    BY <2>1 DEF Reject, Void, BInv, TypeOK
  <2>2. CASE ~desk[r].priced
    BY <1>2, <2>2 DEF Reject, Void, RInv, SeenInv
  <2> QED BY <2>1, <2>2
<1>4. work'[RejectTask].stage = "voided" => work'[RejectTask] = work[RejectTask]
  <2>1. work' = work \/ Enqueue(RejectTask, s)
    BY DEF Reject, LearnRejection
  <2> QED BY <2>1, TaughtIsQueued, TaskFacts
<1> QED BY <1>1, <1>2, <1>3, <1>4, DecisionKeepsOut

LEMMA RollBackKeepsOut ==
  ASSUME BInv, RInv, NEW r \in Reviewers, NEW s \in Submissions, RollBack(r, s)
  PROVE  RInv'
<1>1. /\ status' = status /\ price' = price /\ raced' = raced /\ work' = work
      /\ desk[r].row = s /\ Put(r, s)
  BY DEF RollBack, rowVars
<1>2. status[s] # "none"
  BY <1>1 DEF RInv, SeenInv
<1>3. s \notin raced => (status[s] = "rejected" => price[s] # "valid")
  BY DEF RInv, OutInv
<1> QED BY <1>1, <1>2, <1>3, DecisionKeepsOut

-----------------------------------------------------------------------------
(* Jobs *)

\* The publishing jobs.
LEMMA PublishKeepsOut ==
  ASSUME BInv, RInv, NEW t \in Publishers, NEW s \in Submissions, Publish(t, s)
  PROVE  RInv'
<1>1. t \in Tasks /\ RejectTask \in Tasks /\ t # RejectTask
  BY TaskFacts
<1>2. work'[RejectTask] = work[RejectTask] /\ desk' = desk /\ raced' = raced
  <2>1. SeekPrice(t, s) \/ InsertPrice(t, s) \/ NameItem(t, s) => work'[RejectTask] = work[RejectTask]
    BY <1>1 DEF SeekPrice, InsertPrice, NameItem, TakeUp, BInv, TypeOK
  <2>2. NoPrice(t, s) \/ InsertCollides(t, s) \/ Conclude(t, s)
          => work'[RejectTask] = work[RejectTask]
    BY <1>1 DEF NoPrice, InsertCollides, Conclude, NextRow, Dies, BInv, TypeOK
  <2>3. desk' = desk /\ raced' = raced
    BY DEF Publish, SeekPrice, NoPrice, InsertPrice, InsertCollides, NameItem, Conclude
  <2> QED BY <2>1, <2>2, <2>3 DEF Publish
<1>3. CASE status' = status /\ price' = price
  BY <1>2, <1>3, StillStep
<1>4. CASE InsertPrice(t, s)
  <2>1. /\ \A x \in Submissions \ {s} : status'[x] = status[x] /\ price'[x] = price[x]
        /\ status' = status
    BY <1>4 DEF InsertPrice, BInv, TypeOK
  <2>2. s \in work[t].todo
    BY <1>1, <1>4 DEF InsertPrice, BInv, JobInv
  <2>3. s \notin raced
          => status[s] = "needs_review" /\ ~Locked(s) /\ s \notin work[RejectTask].todo
    BY <1>1, <2>2 DEF BInv, HandInv
  <2>4. VoidInv'
    BY <1>2, <2>1, <2>3, VoidedIsHeld, VoidKept
  <2> QED BY <1>2, <2>1, <2>3, <2>4, RowStep
<1>5. CASE Conclude(t, s)
  <2>1. /\ \A x \in Submissions \ {s} : status'[x] = status[x] /\ price'[x] = price[x]
        /\ price' = price /\ status'[s] = "resolved"
    BY <1>5 DEF Conclude, BInv, TypeOK
  <2>2. VoidInv'
    BY <1>2, <2>1 DEF RInv, VoidInv
  <2> QED BY <1>2, <2>1, <2>2, RowStep
<1> QED BY <1>3, <1>4, <1>5
        DEF Publish, SeekPrice, NoPrice, InsertCollides, NameItem, rowVars

\* The rejecting job: it voids, and then rejects what it has voided.
LEMMA ExpungeKeepsOut ==
  ASSUME BInv, RInv, NEW s \in Submissions, Expunge(s)
  PROVE  RInv'
<1>1. RejectTask \in Tasks
  BY TaskFacts
<1>2. CASE NameRuling(s)
  <2>1. work'[RejectTask].stage = "named"
    BY <1>1, <1>2 DEF NameRuling, TakeUp, BInv, TypeOK, Works
  <2> QED BY <1>2, <2>1, StillStep DEF NameRuling
<1>3. CASE VoidPrice(s)
  <2>1. /\ \A x \in Submissions \ {s} : status'[x] = status[x] /\ price'[x] = price[x]
        /\ status' = status /\ price'[s] # "valid" /\ desk' = desk /\ raced' = raced
        /\ price'[s] = "none" <=> price[s] = "none"
    BY <1>3 DEF VoidPrice, Void, BInv, TypeOK, Prices
  <2>2. work'[RejectTask].row = s /\ s \in work[RejectTask].todo
    BY <1>1, <1>3 DEF VoidPrice, BInv, JobInv, TypeOK, Works
  <2>3. VoidInv'
    BY <2>1, <2>2 DEF VoidInv
  <2>4. s \notin raced => status[s] = "needs_review" /\ ~Locked(s)
    BY <1>1, <2>2 DEF BInv, HandInv
  <2> QED BY <2>1, <2>3, <2>4, RowStep
<1>4. CASE Expel(s)
  <2>1. /\ \A x \in Submissions \ {s} : status'[x] = status[x] /\ price'[x] = price[x]
        /\ price' = price /\ status'[s] = "rejected" /\ desk' = desk /\ raced' = raced
    BY <1>4 DEF Expel, BInv, TypeOK
  <2>2. s \notin raced => price[s] # "valid"
    BY <1>4 DEF Expel, RInv, VoidInv
  <2>3. work'[RejectTask].stage # "voided"
    BY <1>1, <1>4, NextRowEffect DEF Expel, BInv
  <2> QED BY <2>1, <2>2, <2>3, RowStep DEF VoidInv
<1> QED BY <1>2, <1>3, <1>4 DEF Expunge

LEMMA RNext == BInv /\ RInv /\ [Next]_vars => RInv'
<1> SUFFICES ASSUME BInv, RInv, [Next]_vars PROVE RInv'
  OBVIOUS
<1>1. ASSUME NEW s \in Submissions, Arrive(s) \/ LateVerdict(s) PROVE RInv'
  BY <1>1, ArriveKeepsOut, VerdictKeepsOut
<1>2. ASSUME NEW r \in Reviewers, Open(r) \/ Leave(r) PROVE RInv'
  BY <1>2, OpenKeepsOut
<1>3. ASSUME NEW r \in Reviewers, NEW s \in Submissions, Look(r, s) \/ Decide(r, s)
      PROVE  RInv'
  BY <1>3, LookKeepsOut, ApproveKeepsOut, RejectKeepsOut, RollBackKeepsOut DEF Decide
<1>4. ASSUME NEW i \in Items, StartRematch(i) PROVE RInv'
  <2>1. work'[RejectTask] = work[RejectTask]
    BY <1>4, TaskFacts DEF StartRematch, BInv, TypeOK
  <2> QED BY <1>4, <2>1, StillStep DEF StartRematch, rowVars
<1>5. ASSUME NEW t \in Tasks, Load(t) PROVE RInv'
  <2>1. PICK rows : TakeRows(t, rows)
    BY <1>5 DEF Load
  <2>2. work[t] \in Works /\ work[t].stage = "queued"
    BY <1>5 DEF BInv, TypeOK, Load
  <2>3. work'[RejectTask].stage = "voided" => work'[RejectTask] = work[RejectTask]
    BY <2>1, <2>2, TaskFacts, NoWorkType DEF TakeRows, BInv, TypeOK, Works
  <2> QED BY <2>1, <2>3, StillStep DEF TakeRows, rowVars
<1>6. ASSUME NEW t \in Tasks, WorkKilled(t) PROVE RInv'
  <2>1. work'[RejectTask].stage = "voided" => work'[RejectTask] = work[RejectTask]
    BY <1>6, TaskFacts, NoWorkType DEF WorkKilled, Dies, BInv, TypeOK
  <2> QED BY <1>6, <2>1, StillStep DEF WorkKilled, rowVars
<1>7. ASSUME NEW t \in Tasks, WorkStep(t) PROVE RInv'
  BY <1>5, <1>7, PublishKeepsOut, ExpungeKeepsOut DEF WorkStep
<1>8. CASE UNCHANGED vars
  BY <1>8, StillStep DEF vars
<1> QED BY <1>1, <1>2, <1>3, <1>4, <1>6, <1>7, <1>8 DEF Next

\* A rejected price does not count, for any number of reviewers, jobs and
\* commands, on every row that was never in two actors' hands at once.
THEOREM RejectionsStayOut == Spec => []RejectedStaysOut
<1>1. RInv => RejectedStaysOut
  BY DEF RInv, OutInv, RejectedStaysOut
<1> QED BY <1>1, RInit, RNext, BacklogInvariance, PTL DEF Spec

-----------------------------------------------------------------------------
(***************************************************************************)
(* What a row's resolution rests on.  A publishing job works for an item   *)
(* the phrase has been learnt for and the rejecting job for a ruling, so   *)
(* no job is queued in the place of one that runs; and a row named by a    *)
(* job stays in that job's hands until its status follows.                 *)
(***************************************************************************)
Writing(t) == work[t].stage \in {"named", "voided"}

\* An exact match is an item the phrase is a variant of, and a row is ruled out only
\* by a ruling (ResolutionEngine, LearnedVariants, UnmatchablePhrases).
VerdictsHaveGrounds ==
  \A s \in Submissions :
    /\ resolution[s].method = "exact" => resolution[s].item \in variants
    /\ resolution[s].method = "rule" => ruled

\* A row a job has named, and which still waits, is in that job's hands, unless a
\* job has died or a verdict has put the row back since it was done with.
NothingHalfDone ==
  \A s \in Submissions \ reopened :
    status[s] = "needs_review" /\ resolution[s].method \in {"exact", "rule"}
      => faults > 0 \/ \E t \in Tasks : Writing(t) /\ work[t].row = s

\* What left the queue as resolved has an item, what left it rejected has none,
\* unless two actors had the row in hand at the same time.
StatusAgrees ==
  \A s \in Submissions \ raced :
    /\ status[s] = "resolved" => resolution[s].item # Null
    /\ status[s] = "rejected" => resolution[s].item = Null

\* A job enters the queue only where none is queued or running.
NoJobDisplaced ==
  \A t \in Tasks : work'[t] # work[t] /\ work'[t].stage = "queued" => work[t].stage = "idle"

AimInv(t) ==
  work[t].stage # "idle" =>
    /\ t \in Publishers => work[t].item \in variants
    /\ t.item # Null => t.item \in variants
    /\ t = RejectTask => ruled

NamedInv(t) ==
  Writing(t) /\ work[t].row \notin raced =>
    /\ t \in Publishers => resolution[work[t].row].item # Null
    /\ t = RejectTask => resolution[work[t].row].item = Null

GInv ==
  /\ VerdictsHaveGrounds
  /\ NothingHalfDone
  /\ StatusAgrees
  /\ \A t \in Tasks : AimInv(t)
  /\ \A t \in Tasks : NamedInv(t)

LEMMA GInit == Init => GInv
<1> SUFFICES ASSUME Init PROVE GInv
  OBVIOUS
<1>1. \A t \in Tasks : work[t].stage = "idle"
  BY NoWorkType DEF Init
<1>2. \A s \in Submissions : resolution[s].method = "machine" /\ status[s] = "none"
  BY DEF Init, Unmatched
<1> QED BY <1>1, <1>2
        DEF GInv, VerdictsHaveGrounds, NothingHalfDone, StatusAgrees, AimInv, NamedInv, Writing

\* The row a job is writing is one it has loaded.
LEMMA WritingIsInHand ==
  ASSUME BInv, NEW t \in Tasks, Writing(t)
  PROVE  work[t].row \in work[t].todo /\ work[t].row \in Submissions
<1>1. JobInv(t) /\ work[t].todo \subseteq Submissions
  BY DEF BInv, TypeOK, Works
<1> QED BY <1>1 DEF JobInv, Writing

\* A job moves on without naming a row or finishing one.
LEMMA JobMoves ==
  ASSUME BInv, GInv, NEW t \in Tasks, UNCHANGED <<status, resolution>>,
         UNCHANGED phraseVars, raced \subseteq raced', reopened' = reopened,
         faults' \in Nat, faults <= faults',
         \A u \in Tasks \ {t} : work'[u] = work[u], AimInv(t)',
         Writing(t)' => Writing(t) /\ work'[t].row = work[t].row,
         Writing(t) => faults' > 0 \/ Writing(t)'
  PROVE  GInv'
<1>1. VerdictsHaveGrounds'
  BY DEF GInv, VerdictsHaveGrounds, phraseVars
<1>2. NothingHalfDone'
  <2> SUFFICES ASSUME NEW s \in Submissions \ reopened, status[s] = "needs_review",
                      resolution[s].method \in {"exact", "rule"}, ~(faults' > 0)
               PROVE  \E u \in Tasks : Writing(u)' /\ work'[u].row = s
    BY DEF NothingHalfDone
  <2>1. ~(faults > 0)
    BY DEF BInv, TypeOK
  <2>2. PICK u \in Tasks : Writing(u) /\ work[u].row = s
    BY <2>1 DEF GInv, NothingHalfDone
  <2> QED BY <2>2 DEF Writing
<1>3. StatusAgrees'
  BY DEF GInv, StatusAgrees
<1>4. \A u \in Tasks : AimInv(u)'
  BY DEF GInv, AimInv, phraseVars
<1>5. \A u \in Tasks : NamedInv(u)'
  BY DEF GInv, NamedInv, Writing
<1> QED BY <1>1, <1>2, <1>3, <1>4, <1>5 DEF GInv

\* Nothing of this moves.
LEMMA GroundsKept ==
  ASSUME BInv, GInv, UNCHANGED <<status, resolution, work, faults, reopened>>,
         UNCHANGED phraseVars, raced \subseteq raced'
  PROVE  GInv'
<1>1. RejectTask \in Tasks /\ faults \in Nat
  BY TaskFacts DEF BInv, TypeOK
<1>2. AimInv(RejectTask)'
  BY <1>1 DEF GInv, AimInv, phraseVars
<1> QED BY <1>1, <1>2, JobMoves DEF Writing

LEMMA ArriveGrounds ==
  ASSUME BInv, GInv, NEW s \in Submissions, Arrive(s)
  PROVE  GInv'
<1>1. /\ UNCHANGED phraseVars /\ UNCHANGED <<desk, work, faults, raced, reopened>>
      /\ status[s] = "none" /\ status'[s] = "needs_review"
      /\ resolution'[s].method = "machine"
      /\ \A x \in Submissions \ {s} : status'[x] = status[x] /\ resolution'[x] = resolution[x]
  BY DEF Arrive, BInv, TypeOK
<1>2. VerdictsHaveGrounds'
  BY <1>1 DEF GInv, VerdictsHaveGrounds, phraseVars
<1>3. NothingHalfDone'
  BY <1>1 DEF GInv, NothingHalfDone, Writing
<1>4. StatusAgrees'
  BY <1>1 DEF GInv, StatusAgrees
<1>5. \A t \in Tasks : AimInv(t)'
  BY <1>1 DEF GInv, AimInv, phraseVars
<1>6. ASSUME NEW t \in Tasks PROVE NamedInv(t)'
  <2>1. Writing(t) /\ work[t].row \notin raced => work[t].row # s /\ work[t].row \in Submissions
    BY <1>1, WritingIsInHand DEF BInv, HandInv
  <2> QED BY <1>1, <2>1 DEF GInv, NamedInv, Writing
<1> QED BY <1>2, <1>3, <1>4, <1>5, <1>6 DEF GInv

\* A verdict: a row that had left the queue is marked as put back.
LEMMA VerdictGrounds ==
  ASSUME BInv, GInv, NEW s \in Submissions, LateVerdict(s)
  PROVE  GInv'
<1>1. /\ UNCHANGED phraseVars /\ UNCHANGED <<resolution, desk, work, faults, raced>>
      /\ status'[s] = "needs_review"
      /\ reopened' = IF status[s] = "needs_review" THEN reopened ELSE reopened \union {s}
      /\ \A x \in Submissions \ {s} : status'[x] = status[x]
  BY DEF LateVerdict, BInv, TypeOK
<1>2. VerdictsHaveGrounds'
  BY <1>1 DEF GInv, VerdictsHaveGrounds, phraseVars
<1>3. NothingHalfDone'
  BY <1>1 DEF GInv, NothingHalfDone, Writing
<1>4. StatusAgrees'
  BY <1>1 DEF GInv, StatusAgrees
<1>5. \A t \in Tasks : AimInv(t)' /\ NamedInv(t)'
  BY <1>1 DEF GInv, AimInv, NamedInv, Writing, phraseVars
<1> QED BY <1>2, <1>3, <1>4, <1>5 DEF GInv

\* A decision commits: what it teaches queues a job where there was none.
LEMMA DecisionGrounds ==
  ASSUME BInv, GInv, NEW r \in Reviewers, NEW s \in Submissions, desk[r].row = s,
         NEW i \in Items \union {Null}, NEW to \in {"resolved", "rejected"},
         to = "resolved" <=> i # Null,
         resolution' = [resolution EXCEPT ![s] = [item |-> i, method |-> "human"]],
         status' = [status EXCEPT ![s] = to], UNCHANGED <<faults, raced, reopened>>,
         variants \subseteq variants', ruled => ruled',
         \A t \in Tasks :
           work'[t] = work[t] \/ (work[t].stage = "idle" /\ ~Writing(t)' /\ AimInv(t)')
  PROVE  GInv'
<1>1. /\ resolution'[s] = [item |-> i, method |-> "human"] /\ status'[s] = to
      /\ \A x \in Submissions \ {s} : status'[x] = status[x] /\ resolution'[x] = resolution[x]
  BY DEF BInv, TypeOK
<1>2. VerdictsHaveGrounds'
  BY <1>1 DEF GInv, VerdictsHaveGrounds
<1>3. \A t \in Tasks : Writing(t) => work'[t] = work[t]
  BY DEF Writing
<1>4. NothingHalfDone'
  <2> SUFFICES ASSUME NEW x \in Submissions \ reopened, status'[x] = "needs_review",
                      resolution'[x].method \in {"exact", "rule"}, ~(faults > 0)
               PROVE  \E u \in Tasks : Writing(u)' /\ work'[u].row = x
    BY DEF NothingHalfDone
  <2>1. x # s
    BY <1>1
  <2>2. PICK u \in Tasks : Writing(u) /\ work[u].row = x
    BY <1>1, <2>1 DEF GInv, NothingHalfDone
  <2> QED BY <1>3, <2>2 DEF Writing
<1>5. StatusAgrees'
  BY <1>1 DEF GInv, StatusAgrees
<1>6. \A t \in Tasks : AimInv(t)'
  BY DEF GInv, AimInv
<1>7. ASSUME NEW t \in Tasks PROVE NamedInv(t)'
  <2>1. Locked(s)
    BY DEF Locked
  <2>2. Writing(t) /\ work[t].row \notin raced => work[t].row # s /\ work[t].row \in Submissions
    BY <2>1, LockedIsFree, WritingIsInHand
  <2> QED BY <1>1, <2>2 DEF GInv, NamedInv, Writing
<1> QED BY <1>2, <1>4, <1>5, <1>6, <1>7 DEF GInv

\* What is taught is new, and so is the job that goes with it.
LEMMA TaughtGrounds ==
  ASSUME BInv, GInv, NEW t \in Tasks, NEW s \in Submissions, Enqueue(t, s),
         work[t].stage = "idle", t.item # Null => t.item \in variants',
         t = RejectTask => ruled', t \in Publishers => t.item # Null
  PROVE  \A u \in Tasks :
           work'[u] = work[u] \/ (work[u].stage = "idle" /\ ~Writing(u)' /\ AimInv(u)')
<1>1. t.item \in Items \union {Null}
  BY TaskFacts
<1>2. /\ \A u \in Tasks \ {t} : work'[u] = work[u]
      /\ work'[t].stage = "queued" /\ work'[t].item = t.item
  BY <1>1, QueuedEffect DEF Enqueue, BInv
<1>3. ~Writing(t)' /\ AimInv(t)'
  BY <1>2 DEF Writing, AimInv
<1> QED BY <1>2, <1>3

LEMMA ApproveGrounds ==
  ASSUME BInv, GInv, NEW r \in Reviewers, NEW s \in Submissions, NEW i \in Items,
         Approve(r, s, i)
  PROVE  /\ GInv'
         /\ \A t \in Tasks : work'[t] = work[t] \/ work[t].stage = "idle"
<1>1. /\ desk[r].row = s /\ LearnVariant(s, i, desk[r].known)
      /\ resolution' = [resolution EXCEPT ![s] = [item |-> i, method |-> "human"]]
      /\ status' = [status EXCEPT ![s] = "resolved"] /\ UNCHANGED <<ruled, faults, raced, reopened>>
  BY DEF Approve
<1>2. /\ variants \subseteq variants'
      /\ \A t \in Tasks :
           work'[t] = work[t] \/ (work[t].stage = "idle" /\ ~Writing(t)' /\ AimInv(t)')
  <2>1. CASE UNCHANGED <<variants, work>>
    <3>1. work' = work /\ variants' = variants
      BY <2>1
    <3>2. \A t \in Tasks : work'[t] = work[t]
      BY <3>1
    <3> QED BY <3>1, <3>2
  <2>2. CASE i \notin variants /\ variants' = variants \union {i} /\ Enqueue(ClearTask(i), s)
    <3> DEFINE t == ClearTask(i)
    <3>1. t \in Tasks /\ t.item = i /\ t \in Publishers /\ t # RejectTask
      BY TaskFacts DEF ClearTask, RejectTask
    <3>2. i # Null /\ i \in variants'
      BY <2>2, BacklogAssumption DEF BacklogAssumption
    <3>3. Enqueue(t, s)
      BY <2>2
    <3> HIDE DEF t
    <3>4. work[t].stage = "idle"
      BY <2>2, <3>1, <3>2 DEF GInv, AimInv
    <3> QED BY <2>2, <3>1, <3>2, <3>3, <3>4, TaughtGrounds
  <2> QED BY <1>1, <2>1, <2>2 DEF LearnVariant
<1>3. i # Null
  BY BacklogAssumption DEF BacklogAssumption
<1> DEFINE to == "resolved"
<1>4. to \in {"resolved", "rejected"} /\ to = "resolved" /\ status' = [status EXCEPT ![s] = to]
  BY <1>1
<1> HIDE DEF to
<1>5. GInv'
  BY <1>1, <1>2, <1>3, <1>4, DecisionGrounds
<1> QED BY <1>2, <1>5

LEMMA RejectGrounds ==
  ASSUME BInv, GInv, NEW r \in Reviewers, NEW s \in Submissions, Reject(r, s)
  PROVE  /\ GInv'
         /\ \A t \in Tasks : work'[t] = work[t] \/ work[t].stage = "idle"
<1>1. /\ desk[r].row = s /\ UNCHANGED <<variants, faults, raced, reopened>>
      /\ LearnRejection(s, desk[r].known) \/ UNCHANGED <<ruled, work>>
      /\ resolution' = [resolution EXCEPT ![s] = [item |-> Null, method |-> "human"]]
      /\ status' = [status EXCEPT ![s] = "rejected"]
  BY DEF Reject
<1>2. /\ ruled => ruled'
      /\ \A t \in Tasks :
           work'[t] = work[t] \/ (work[t].stage = "idle" /\ ~Writing(t)' /\ AimInv(t)')
  <2>1. CASE UNCHANGED <<ruled, work>>
    <3>1. work' = work /\ ruled' = ruled
      BY <2>1
    <3>2. \A t \in Tasks : work'[t] = work[t]
      BY <3>1
    <3> QED BY <3>1, <3>2
  <2>2. CASE ~ruled /\ ruled' = TRUE /\ Enqueue(RejectTask, s)
    <3>1. RejectTask \in Tasks /\ RejectTask.item = Null /\ RejectTask \notin Publishers
      BY TaskFacts DEF RejectTask
    <3>2. work[RejectTask].stage = "idle"
      BY <2>2, <3>1 DEF GInv, AimInv
    <3> QED BY <2>2, <3>1, <3>2, TaughtGrounds
  <2> QED BY <1>1, <2>1, <2>2 DEF LearnRejection
<1> DEFINE to == "rejected"
           i == Null
<1>3. /\ to \in {"resolved", "rejected"} /\ to # "resolved" /\ i = Null
      /\ i \in Items \union {Null} /\ status' = [status EXCEPT ![s] = to]
      /\ resolution' = [resolution EXCEPT ![s] = [item |-> i, method |-> "human"]]
  BY <1>1
<1> HIDE DEF to, i
<1>4. GInv'
  BY <1>1, <1>2, <1>3, DecisionGrounds
<1> QED BY <1>2, <1>4

\* A job names a row it has in hand.
LEMMA NameGrounds ==
  ASSUME BInv, GInv, NEW t \in Tasks, NEW s \in Submissions, s \in work[t].todo,
         ~Writing(t), work[t].stage # "idle", NEW m,
         m.method = "exact" => m.item \in variants, m.method = "rule" => ruled,
         t \in Publishers => m.item # Null, t = RejectTask => m.item = Null,
         resolution' = [resolution EXCEPT ![s] = m],
         UNCHANGED <<status, faults, raced, reopened>>, UNCHANGED phraseVars,
         \A u \in Tasks \ {t} : work'[u] = work[u],
         work'[t].stage = "named", work'[t].row = s, work'[t].item = work[t].item
  PROVE  GInv'
<1>1. resolution'[s] = m /\ \A x \in Submissions \ {s} : resolution'[x] = resolution[x]
  BY DEF BInv, TypeOK
<1>2. VerdictsHaveGrounds'
  BY <1>1 DEF GInv, VerdictsHaveGrounds, phraseVars
<1>3. NothingHalfDone'
  <2> SUFFICES ASSUME NEW x \in Submissions \ reopened, status[x] = "needs_review",
                      resolution'[x].method \in {"exact", "rule"}, ~(faults > 0)
               PROVE  \E u \in Tasks : Writing(u)' /\ work'[u].row = x
    BY DEF NothingHalfDone
  <2>1. CASE x = s
    BY <2>1 DEF Writing
  <2>2. CASE x # s
    <3>1. PICK u \in Tasks : Writing(u) /\ work[u].row = x
      BY <1>1, <2>2 DEF GInv, NothingHalfDone
    <3>2. u # t
      BY <3>1
    <3> QED BY <3>1, <3>2 DEF Writing
  <2> QED BY <2>1, <2>2
<1>4. s \notin raced => /\ status[s] = "needs_review"
                        /\ \A u \in Tasks : s \in work[u].todo => u = t
  BY DEF BInv, HandInv
<1>5. StatusAgrees'
  BY <1>1, <1>4 DEF GInv, StatusAgrees
<1>6. \A u \in Tasks : AimInv(u)'
  BY DEF GInv, AimInv, phraseVars
<1>7. ASSUME NEW u \in Tasks PROVE NamedInv(u)'
  <2>1. CASE u = t
    BY <1>1, <2>1 DEF NamedInv
  <2>2. CASE u # t
    <3>1. Writing(u) /\ work[u].row \notin raced => work[u].row # s /\ work[u].row \in Submissions
      BY <1>4, <2>2, WritingIsInHand
    <3> QED BY <1>1, <2>2, <3>1 DEF GInv, NamedInv, Writing
  <2> QED BY <2>1, <2>2
<1> QED BY <1>2, <1>3, <1>5, <1>6, <1>7 DEF GInv

\* A job finishes the row it has named.
LEMMA FinishGrounds ==
  ASSUME BInv, GInv, NEW t \in Tasks, NEW s \in Submissions, Writing(t), work[t].row = s,
         NEW to \in {"resolved", "rejected"}, status' = [status EXCEPT ![s] = to],
         to = "resolved" => t \in Publishers, to = "rejected" => t = RejectTask,
         NextRow(t, s), UNCHANGED <<resolution, faults, raced, reopened>>, UNCHANGED phraseVars
  PROVE  GInv'
<1>1. /\ \A u \in Tasks \ {t} : work'[u] = work[u]
      /\ work'[t].stage \in {"idle", "loaded"}
      /\ work'[t].stage = "loaded" => work'[t].item = work[t].item
  BY NextRowEffect DEF BInv
<1>2. status'[s] = to /\ \A x \in Submissions \ {s} : status'[x] = status[x]
  BY DEF BInv, TypeOK
<1>3. VerdictsHaveGrounds'
  BY DEF GInv, VerdictsHaveGrounds, phraseVars
<1>4. NothingHalfDone'
  <2> SUFFICES ASSUME NEW x \in Submissions \ reopened, status'[x] = "needs_review",
                      resolution[x].method \in {"exact", "rule"}, ~(faults > 0)
               PROVE  \E u \in Tasks : Writing(u)' /\ work'[u].row = x
    BY DEF NothingHalfDone
  <2>1. x # s
    BY <1>2
  <2>2. PICK u \in Tasks : Writing(u) /\ work[u].row = x
    BY <1>2, <2>1 DEF GInv, NothingHalfDone
  <2>3. u # t
    BY <2>1, <2>2
  <2> QED BY <1>1, <2>2, <2>3 DEF Writing
<1>5. StatusAgrees'
  BY <1>2 DEF GInv, StatusAgrees, NamedInv
<1>6. \A u \in Tasks : AimInv(u)'
  <2>1. AimInv(t)'
    BY <1>1 DEF GInv, AimInv, Writing, phraseVars
  <2> QED BY <1>1, <2>1 DEF GInv, AimInv, phraseVars
<1>7. \A u \in Tasks : NamedInv(u)'
  BY <1>1 DEF GInv, NamedInv, Writing
<1> QED BY <1>3, <1>4, <1>5, <1>6, <1>7 DEF GInv

\* A job dies: what it was writing stays as it is.
LEMMA DeathGrounds ==
  ASSUME BInv, GInv, NEW t \in Tasks, Dies(t), UNCHANGED rowVars, UNCHANGED phraseVars,
         UNCHANGED <<desk, raced, reopened>>
  PROVE  GInv'
<1>1. /\ \A u \in Tasks \ {t} : work'[u] = work[u]
      /\ work'[t].stage = "idle"
  BY NoWorkEffect DEF Dies, BInv
<1>2. faults \in Nat /\ faults' = faults + 1
  BY DEF Dies, BInv, TypeOK
<1>3. UNCHANGED <<status, resolution>> /\ AimInv(t)' /\ ~Writing(t)'
  BY <1>1 DEF rowVars, AimInv, Writing
<1> QED BY <1>1, <1>2, <1>3, JobMoves

LEMMA PublishGrounds ==
  ASSUME BInv, GInv, NEW t \in Publishers, NEW s \in Submissions, Publish(t, s)
  PROVE  GInv'
<1>1. t \in Tasks /\ t # RejectTask /\ faults \in Nat /\ {"pricing", "priced", "named"} \subseteq Stages
  BY TaskFacts DEF BInv, TypeOK, Stages
<1>2. CASE SeekPrice(t, s)
  <2> DEFINE g == IF price[s] = "none" THEN "pricing" ELSE "priced"
  <2>1. g \in Stages /\ g \in {"pricing", "priced"}
    BY <1>1
  <2>2. TakeUp(t, s, g)
    BY <1>2 DEF SeekPrice
  <2> HIDE DEF g
  <2>3. /\ \A u \in Tasks \ {t} : work'[u] = work[u]
        /\ work'[t].stage = g /\ work'[t].item = work[t].item
    BY <1>1, <2>1, <2>2, TakeUpEffect DEF BInv
  <2>4. /\ UNCHANGED <<status, resolution>> /\ UNCHANGED phraseVars /\ raced' = raced
        /\ reopened' = reopened
        /\ faults' = faults /\ work[t].stage = "loaded"
    BY <1>2 DEF SeekPrice, rowVars
  <2>5. AimInv(t)'
    BY <1>1, <2>3, <2>4 DEF GInv, AimInv, phraseVars
  <2> QED BY <1>1, <2>1, <2>3, <2>4, <2>5, JobMoves DEF Writing
<1>3. CASE NoPrice(t, s)
  <2>1. /\ \A u \in Tasks \ {t} : work'[u] = work[u]
        /\ work'[t].stage \in {"idle", "loaded"}
        /\ work'[t].stage = "loaded" => work'[t].item = work[t].item
    BY <1>1, <1>3, NextRowEffect DEF BInv, NoPrice
  <2>2. /\ UNCHANGED <<status, resolution>> /\ UNCHANGED phraseVars /\ raced' = raced
        /\ reopened' = reopened
        /\ faults' = faults /\ work[t].stage = "pricing"
    BY <1>3 DEF NoPrice, rowVars
  <2>3. AimInv(t)'
    BY <1>1, <2>1, <2>2 DEF GInv, AimInv, phraseVars
  <2> QED BY <1>1, <2>1, <2>2, <2>3, JobMoves DEF Writing
<1>4. CASE InsertPrice(t, s)
  <2>1. /\ \A u \in Tasks \ {t} : work'[u] = work[u]
        /\ work'[t].stage = "priced" /\ work'[t].item = work[t].item
    BY <1>1, <1>4, AdvanceEffect DEF BInv, InsertPrice
  <2>2. /\ UNCHANGED <<status, resolution>> /\ UNCHANGED phraseVars /\ raced' = raced
        /\ reopened' = reopened
        /\ faults' = faults /\ work[t].stage = "pricing"
    BY <1>4 DEF InsertPrice
  <2>3. AimInv(t)'
    BY <1>1, <2>1, <2>2 DEF GInv, AimInv, phraseVars
  <2> QED BY <1>1, <2>1, <2>2, <2>3, JobMoves DEF Writing
<1>5. CASE InsertCollides(t, s)
  <2>1. Dies(t) /\ UNCHANGED rowVars /\ UNCHANGED phraseVars /\ UNCHANGED <<desk, raced, reopened>>
    BY <1>5 DEF InsertCollides
  <2> QED BY <1>1, <2>1, DeathGrounds
<1>6. CASE NameItem(t, s)
  <2>1. /\ \A u \in Tasks \ {t} : work'[u] = work[u]
        /\ work'[t].stage = "named" /\ work'[t].row = work[t].row
        /\ work'[t].item = work[t].item
    BY <1>1, <1>6, AdvanceEffect DEF BInv, NameItem
  <2>2. /\ work[t].stage = "priced" /\ work[t].row = s /\ s \in work[t].todo
        /\ work[t].item \in variants /\ work[t].item # Null
    BY <1>1, <1>6, BacklogAssumption
       DEF NameItem, BInv, JobInv, GInv, AimInv, BacklogAssumption
  <2> DEFINE m == [item |-> work[t].item, method |-> "exact"]
  <2>3. m.method = "exact" /\ m.item = work[t].item /\ resolution' = [resolution EXCEPT ![s] = m]
    BY <1>6 DEF NameItem
  <2>4. UNCHANGED <<status, faults, raced, reopened>> /\ UNCHANGED phraseVars
    BY <1>6 DEF NameItem
  <2> HIDE DEF m
  <2> QED BY <1>1, <2>1, <2>2, <2>3, <2>4, NameGrounds DEF Writing
<1>7. CASE Conclude(t, s)
  <2> DEFINE to == "resolved"
  <2>1. /\ Writing(t) /\ work[t].row = s /\ NextRow(t, s)
        /\ to \in {"resolved", "rejected"} /\ to # "rejected"
        /\ status' = [status EXCEPT ![s] = to]
        /\ UNCHANGED <<resolution, faults, raced, reopened>> /\ UNCHANGED phraseVars
    BY <1>7 DEF Conclude, Writing
  <2> HIDE DEF to
  <2> QED BY <1>1, <2>1, FinishGrounds
<1> QED BY <1>2, <1>3, <1>4, <1>5, <1>6, <1>7 DEF Publish

LEMMA ExpungeGrounds ==
  ASSUME BInv, GInv, NEW s \in Submissions, Expunge(s)
  PROVE  GInv'
<1> DEFINE t == RejectTask
<1>1. t \in Tasks /\ t \notin Publishers /\ faults \in Nat /\ {"named", "voided"} \subseteq Stages
  BY TaskFacts DEF BInv, TypeOK, Stages
<1>2. CASE NameRuling(s)
  <2>1. /\ TakeUp(t, s, "named") /\ work[t].stage = "loaded" /\ s \in work[t].todo
        /\ UNCHANGED <<status, faults, raced, reopened>> /\ UNCHANGED phraseVars
    BY <1>2 DEF NameRuling
  <2> DEFINE m == [item |-> Null, method |-> "rule"]
  <2>2. m.method = "rule" /\ m.item = Null /\ resolution' = [resolution EXCEPT ![s] = m]
    BY <1>2 DEF NameRuling
  <2>3. ruled
    BY <1>1, <2>1 DEF GInv, AimInv
  <2> HIDE DEF m, t
  <2>4. /\ \A u \in Tasks \ {t} : work'[u] = work[u]
        /\ work'[t].stage = "named" /\ work'[t].row = s /\ work'[t].item = work[t].item
    BY <1>1, <2>1, TakeUpEffect DEF BInv
  <2> QED BY <1>1, <2>1, <2>2, <2>3, <2>4, NameGrounds DEF Writing
<1>3. CASE VoidPrice(s)
  <2>1. /\ work[t].stage = "named" /\ UNCHANGED <<status, resolution, faults, raced, reopened>>
        /\ UNCHANGED phraseVars /\ work' = [work EXCEPT ![t].stage = "voided"]
    BY <1>3 DEF VoidPrice
  <2>2. /\ \A u \in Tasks \ {t} : work'[u] = work[u]
        /\ work'[t].stage = "voided" /\ work'[t].row = work[t].row
        /\ work'[t].item = work[t].item
    BY <1>1, <2>1, AdvanceEffect DEF BInv
  <2> HIDE DEF t
  <2>3. AimInv(t)'
    BY <1>1, <2>1, <2>2 DEF GInv, AimInv, phraseVars
  <2> QED BY <1>1, <2>1, <2>2, <2>3, JobMoves DEF Writing
<1>4. CASE Expel(s)
  <2> DEFINE to == "rejected"
  <2>1. /\ Writing(t) /\ work[t].row = s /\ NextRow(t, s)
        /\ to \in {"resolved", "rejected"} /\ to # "resolved"
        /\ status' = [status EXCEPT ![s] = to]
        /\ UNCHANGED <<resolution, faults, raced, reopened>> /\ UNCHANGED phraseVars
    BY <1>4 DEF Expel, Writing
  <2> HIDE DEF to
  <2> QED BY <1>1, <2>1, FinishGrounds
<1> QED BY <1>2, <1>3, <1>4 DEF Expunge

\* Every step keeps the grounds, and queues a job only where there is none.
LEMMA GNext ==
  ASSUME BInv, GInv, [Next]_vars
  PROVE  GInv' /\ NoJobDisplaced
<1>w. ASSUME work' = work PROVE NoJobDisplaced
  BY <1>w DEF NoJobDisplaced
<1>1. ASSUME NEW s \in Submissions, Arrive(s) \/ LateVerdict(s)
      PROVE  GInv' /\ NoJobDisplaced
  BY <1>1, <1>w, ArriveGrounds, VerdictGrounds DEF Arrive, LateVerdict
<1>2. ASSUME NEW r \in Reviewers, Open(r) \/ Leave(r) PROVE GInv' /\ NoJobDisplaced
  BY <1>2, <1>w, GroundsKept DEF Open, Leave, rowVars
<1>3. ASSUME NEW r \in Reviewers, NEW s \in Submissions, Look(r, s) \/ RollBack(r, s)
      PROVE  GInv' /\ NoJobDisplaced
  <2>1. raced \subseteq raced'
    BY <1>3 DEF Look, RollBack
  <2> QED BY <1>3, <1>w, <2>1, GroundsKept DEF Look, RollBack, rowVars
<1>4. ASSUME NEW r \in Reviewers, NEW s \in Submissions, Decide(r, s)
      PROVE  GInv' /\ NoJobDisplaced
  BY <1>3, <1>4, ApproveGrounds, RejectGrounds DEF Decide, NoJobDisplaced
<1>5. ASSUME NEW i \in Items, StartRematch(i) PROVE GInv' /\ NoJobDisplaced
  <2> DEFINE t == RematchTask
  <2>1. /\ t \in Publishers /\ t \in Tasks /\ t # RejectTask /\ t.item = Null
        /\ Null \in Submissions \union {Null} /\ faults \in Nat
    BY TaskFacts DEF RematchTask, BInv, TypeOK
  <2>2. /\ work[t].stage = "idle" /\ i \in variants
        /\ work' = [work EXCEPT ![t] = Queued(Null, i)]
        /\ UNCHANGED <<status, resolution, faults, raced, reopened>> /\ UNCHANGED phraseVars
    BY <1>5 DEF StartRematch, rowVars
  <2>3. /\ \A u \in Tasks \ {t} : work'[u] = work[u]
        /\ work'[t].stage = "queued" /\ work'[t].item = i
    BY <2>1, <2>2, QueuedEffect DEF BInv
  <2> HIDE DEF t
  <2>4. AimInv(t)'
    BY <2>1, <2>2, <2>3 DEF AimInv, phraseVars
  <2>5. GInv'
    BY <2>1, <2>2, <2>3, <2>4, JobMoves DEF Writing
  <2> QED BY <2>2, <2>3, <2>5 DEF NoJobDisplaced
<1>6. ASSUME NEW t \in Tasks, Load(t) PROVE GInv' /\ NoJobDisplaced
  <2>1. PICK rows : TakeRows(t, rows)
    BY <1>6 DEF Load
  <2>2. work[t] \in Works /\ work[t].stage = "queued" /\ faults \in Nat
    BY <1>6 DEF BInv, TypeOK, Load
  <2>3. /\ UNCHANGED <<status, resolution, faults>> /\ UNCHANGED phraseVars
        /\ raced \subseteq raced' /\ reopened' = reopened
    BY <2>1 DEF TakeRows, rowVars
  <2>4. /\ \A u \in Tasks \ {t} : work'[u] = work[u]
        /\ work'[t].stage \in {"idle", "loaded"}
        /\ work'[t].stage = "loaded" => work'[t].item = work[t].item
    <3>1. CASE rows = {}
      <4>1. work' = [work EXCEPT ![t] = NoWork]
        BY <2>1, <3>1 DEF TakeRows
      <4> QED BY <4>1, NoWorkEffect DEF BInv
    <3>2. CASE rows # {}
      <4> DEFINE m == [work[t] EXCEPT !.stage = "loaded", !.todo = rows]
      <4>1. m.stage = "loaded" /\ m.item = work[t].item
        BY <2>2 DEF Works
      <4>2. work' = [work EXCEPT ![t] = m]
        BY <2>1, <3>2 DEF TakeRows
      <4> HIDE DEF m
      <4> QED BY <4>1, <4>2 DEF BInv, TypeOK
    <3> QED BY <3>1, <3>2
  <2>5. AimInv(t)'
    BY <2>2, <2>3, <2>4 DEF GInv, AimInv, phraseVars
  <2>6. GInv'
    BY <2>2, <2>3, <2>4, <2>5, JobMoves DEF Writing
  <2> QED BY <2>4, <2>6 DEF NoJobDisplaced
<1>7. ASSUME NEW t \in Tasks, WorkKilled(t) PROVE GInv' /\ NoJobDisplaced
  <2>1. GInv'
    BY <1>7, DeathGrounds DEF WorkKilled
  <2>2. NoJobDisplaced
    BY <1>7, NoWorkEffect DEF WorkKilled, Dies, BInv, NoJobDisplaced
  <2> QED BY <2>1, <2>2
<1>8. ASSUME NEW t \in Publishers, NEW s \in Submissions, Publish(t, s)
      PROVE  GInv' /\ NoJobDisplaced
  <2>1. t \in Tasks /\ {"pricing", "priced", "named"} \subseteq Stages
    BY TaskFacts DEF Stages
  <2>2. work'[t].stage # "queued" /\ \A u \in Tasks \ {t} : work'[u] = work[u]
    <3>1. CASE SeekPrice(t, s)
      BY <2>1, <3>1, TakeUpEffect DEF SeekPrice, BInv
    <3>2. CASE NoPrice(t, s) \/ Conclude(t, s)
      BY <2>1, <3>2, NextRowEffect DEF NoPrice, Conclude, BInv
    <3>3. CASE InsertPrice(t, s) \/ NameItem(t, s)
      BY <2>1, <3>3, AdvanceEffect DEF InsertPrice, NameItem, BInv
    <3>4. CASE InsertCollides(t, s)
      BY <2>1, <3>4, NoWorkEffect DEF InsertCollides, Dies, BInv
    <3> QED BY <1>8, <3>1, <3>2, <3>3, <3>4 DEF Publish
  <2> QED BY <1>8, <2>2, PublishGrounds DEF NoJobDisplaced
<1>9. ASSUME NEW s \in Submissions, Expunge(s) PROVE GInv' /\ NoJobDisplaced
  <2>1. RejectTask \in Tasks /\ {"named", "voided"} \subseteq Stages
    BY TaskFacts DEF Stages
  <2>2. /\ work'[RejectTask].stage # "queued"
        /\ \A u \in Tasks \ {RejectTask} : work'[u] = work[u]
    <3>1. CASE NameRuling(s)
      BY <2>1, <3>1, TakeUpEffect DEF NameRuling, BInv
    <3>2. CASE VoidPrice(s)
      BY <2>1, <3>2, AdvanceEffect DEF VoidPrice, BInv
    <3>3. CASE Expel(s)
      BY <2>1, <3>3, NextRowEffect DEF Expel, BInv
    <3> QED BY <1>9, <3>1, <3>2, <3>3 DEF Expunge
  <2> QED BY <1>9, <2>2, ExpungeGrounds DEF NoJobDisplaced
<1>10. CASE UNCHANGED vars
  BY <1>10, <1>w, GroundsKept DEF vars, phraseVars
<1> QED BY <1>1, <1>2, <1>3, <1>4, <1>5, <1>6, <1>7, <1>8, <1>9, <1>10 DEF Next, WorkStep

LEMMA GroundsInvariance == Spec => []GInv
<1> QED BY GInit, GNext, BacklogInvariance, PTL DEF Spec

\* Every exact match is in the catalogue and every ruled-out row has its ruling, for
\* any number of jobs, commands and reviewers (ClearReviewBacklogJob.php:72-120,
\* RejectReviewBacklogJob.php).
THEOREM BacklogVerdictsHaveGrounds == Spec => []VerdictsHaveGrounds
<1>1. GInv => VerdictsHaveGrounds
  BY DEF GInv
<1> QED BY <1>1, GroundsInvariance, PTL

\* A row named by a job and found in the queue in nobody's hands is one a job died
\* over, or one that had left it and was put back by a verdict: the three statements
\* per row come together unless the worker is killed between them.
THEOREM BacklogLeavesNothingHalfDone == Spec => []NothingHalfDone
<1>1. GInv => NothingHalfDone
  BY DEF GInv
<1> QED BY <1>1, GroundsInvariance, PTL

\* Status and resolution of a row agree, unless it was in two actors' hands at once.
THEOREM BacklogStatusAgrees == Spec => []StatusAgrees
<1>1. GInv => StatusAgrees
  BY DEF GInv
<1> QED BY <1>1, GroundsInvariance, PTL

\* No backlog job is ever queued in the place of another: a phrase is learnt for an
\* item once and ruled out once, so one place per job is enough.
THEOREM BacklogJobsAreNotDisplaced == Spec => [][NoJobDisplaced]_vars
<1>1. ASSUME BInv, GInv, [Next]_vars
      PROVE  [NoJobDisplaced]_vars
  BY <1>1, GNext
<1> QED
  BY <1>1, GroundsInvariance, BacklogInvariance, PTL DEF Spec
=============================================================================
