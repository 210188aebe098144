------------------------ MODULE ReporterOutboxProofs ------------------------
(***************************************************************************)
(* What holds of ReporterOutbox for every number of reports, tabs,         *)
(* requests, attempts, closed tabs and erasures.                           *)
(*                                                                         *)
(* The argument.  A row is never deleted, so "the server has it" is a fact *)
(* that lasts: every "stored" answer, every synced record and every record *)
(* a prune is about to delete stands on it.  A waiting request belongs to  *)
(* the one record its tab is sending, so an answer is never credited to    *)
(* another report.                                                         *)
(***************************************************************************)
EXTENDS ReporterOutbox, TLAPS

PostOk(m) ==
  m.stage # "none" =>
    /\ m.report \in saved
    /\ m.tab # Null => flush[m.tab].pc = "sending" /\ flush[m.tab].current = m.report
    /\ m.stage \in {"inserted", "stored"} => rows[m.report] > 0

FlushOk(f) ==
  /\ f.pc \in {"looping", "sending"} =>
       f.todo \subseteq saved /\ \A r \in f.todo : f.attempts[r] < MaxAttempts
  /\ f.pc = "sending" => f.current \in f.todo
  /\ f.pc = "pruning" => \A r \in f.todo : rows[r] > 0

RecordOk(r) ==
  /\ item[r].status # "none" => r \in saved
  /\ item[r].status \in Waiting => item[r].attempts < MaxAttempts
  /\ item[r].status = "synced" => rows[r] > 0
  /\ r \in saved /\ item[r].status = "none" => rows[r] > 0
  /\ r \in keyed => rows[r] > 0
  /\ rows[r] <= forgets + (IF r \in keyed THEN 1 ELSE 0)

\* At most one request has the tab waiting for it.
OneAnswer ==
  \A p, q \in Requests :
    Live(p) /\ Live(q) /\ request[p].tab # Null /\ request[p].tab = request[q].tab
      => p = q

IInv ==
  /\ TypeOK
  /\ OneAnswer
  /\ \A q \in Requests : PostOk(request[q])
  /\ \A t \in Tabs : FlushOk(flush[t])
  /\ \A r \in Reports : RecordOk(r)

-----------------------------------------------------------------------------
LEMMA InvInit == Init => IInv
<1> SUFFICES ASSUME Init PROVE IInv
  OBVIOUS
<1>1. 0 \in 0..MaxAttempts /\ 0 \in 0..MaxForgets /\ 0 \in 0..MaxCloses
  BY OutboxAssumption DEF OutboxAssumption
<1>2. NoRecord \in Records /\ Idle \in Flushes
  BY <1>1 DEF NoRecord, Records, Idle, Flushes
<1>3. TypeOK
  BY <1>1, <1>2 DEF Init, TypeOK
<1>4. \A q \in Requests : PostOk(request[q])
  BY DEF Init, PostOk, NoPost
<1>5. \A t \in Tabs : FlushOk(flush[t])
  BY DEF Init, FlushOk, Idle
<1>6. \A r \in Reports : RecordOk(r)
  BY DEF Init, RecordOk, NoRecord, Waiting
<1>7. OneAnswer
  BY DEF Init, OneAnswer, Live, NoPost
<1> QED BY <1>3, <1>4, <1>5, <1>6, <1>7 DEF IInv

-----------------------------------------------------------------------------
(* The server: the phone is left alone, and rows only grow. *)

\* A request moves on while nothing else changes.
LEMMA RequestMoves ==
  ASSUME IInv, NEW q \in Requests, NEW m \in Posts \union {NoPost}, PostOk(m),
         m.stage # "none" => Live(q) /\ m.tab = request[q].tab,
         request' = [request EXCEPT ![q] = m], reporter' \in Nat \union {Null},
         UNCHANGED <<saved, item, flush, rows, keyed, forgets, closes>>
  PROVE  IInv'
<1>1. TypeOK'
  BY DEF IInv, TypeOK
<1>2. \A p \in Requests : PostOk(request[p])'
  BY DEF IInv, TypeOK, PostOk
<1>3. /\ \A t \in Tabs : FlushOk(flush[t])'
      /\ \A r \in Reports : RecordOk(r)'
  BY DEF IInv, FlushOk, RecordOk
<1>4. OneAnswer'
  BY DEF IInv, TypeOK, OneAnswer, Live
<1> QED BY <1>1, <1>2, <1>3, <1>4 DEF IInv

\* A response is a good message, if it tells the truth.
LEMMA ReplyIsOk ==
  ASSUME IInv, NEW q \in Requests, Live(q), NEW x \in Replies,
         x = "stored" => rows[request[q].report] > 0
  PROVE  LET m == IF request[q].tab = Null THEN NoPost ELSE [request[q] EXCEPT !.stage = x]
         IN /\ m \in Posts \union {NoPost} /\ PostOk(m)
            /\ m.stage # "none" => m.tab = request[q].tab
<1>1. request[q] \in Posts /\ PostOk(request[q])
  BY DEF IInv, TypeOK, Live, NoPost
<1> QED BY <1>1 DEF PostOk, Posts, NoPost, Live, Replies, Handling

LEMMA ReplyStep ==
  ASSUME IInv, NEW q \in Requests, Live(q), NEW x \in Replies, Reply(q, x),
         x = "stored" => rows[request[q].report] > 0,
         UNCHANGED closes, UNCHANGED phoneVars, UNCHANGED serverVars
  PROVE  IInv'
<1> DEFINE m == IF request[q].tab = Null THEN NoPost ELSE [request[q] EXCEPT !.stage = x]
<1>1. m \in Posts \union {NoPost} /\ PostOk(m) /\ (m.stage # "none" => m.tab = request[q].tab)
  BY ReplyIsOk
<1>2. request' = [request EXCEPT ![q] = m]
  BY DEF Reply
<1>3. reporter' \in Nat \union {Null}
  BY DEF IInv, TypeOK, serverVars
<1> HIDE DEF m
<1> QED BY <1>1, <1>2, <1>3, RequestMoves DEF phoneVars, serverVars

\* The request takes another of its stages that promise nothing.
LEMMA StageIsOk ==
  ASSUME IInv, NEW q \in Requests, Live(q), NEW g \in Handling \ {"inserted"},
         NEW i \in Nat \union {Null}
  PROVE  \A m \in {[request[q] EXCEPT !.stage = g, !.id = i], [request[q] EXCEPT !.stage = g]} :
           m \in Posts /\ PostOk(m) /\ m.tab = request[q].tab
<1>1. request[q] \in Posts /\ PostOk(request[q])
  BY DEF IInv, TypeOK, Live, NoPost
<1> QED BY <1>1 DEF PostOk, Posts, Live, Handling

LEMMA InsertKeepsInv ==
  ASSUME IInv, NEW q \in Requests, Insert(q)
  PROVE  IInv'
<1> DEFINE r == request[q].report
<1>1. Live(q) /\ request[q] \in Posts /\ r \in Reports /\ r \in saved
  BY DEF Insert, IInv, TypeOK, Live, NoPost, Posts, PostOk
<1>2. CASE r \in keyed
  <2>1. "collided" \in Handling \ {"inserted"} /\ reporter' \in Nat \union {Null}
    BY DEF Handling, Insert, IInv, TypeOK
  <2>2. request' = [request EXCEPT ![q] = [request[q] EXCEPT !.stage = "collided"]]
        /\ UNCHANGED <<saved, item, flush, rows, keyed, forgets, closes>>
    BY <1>2 DEF Insert, phoneVars
  <2> DEFINE m == [request[q] EXCEPT !.stage = "collided"]
  <2>3. m \in Posts \union {NoPost} /\ PostOk(m) /\ m.tab = request[q].tab
    BY <1>1, <2>1, StageIsOk
  <2>4. request' = [request EXCEPT ![q] = m]
    BY <2>2
  <2> HIDE DEF m, r
  <2> QED BY <1>1, <2>1, <2>2, <2>3, <2>4, RequestMoves
<1>3. CASE r \notin keyed
  <2>1. /\ request' = [request EXCEPT ![q] = [request[q] EXCEPT !.stage = "inserted"]]
        /\ rows' = [rows EXCEPT ![r] = rows[r] + 1]
        /\ keyed' = keyed \union {r}
        /\ UNCHANGED <<reporter, forgets, closes, saved, item, flush>>
    BY <1>3 DEF Insert, phoneVars
  <2>2. \A s \in Reports : rows[s] \in Nat /\ rows'[s] \in Nat /\ rows'[s] >= rows[s]
    BY <1>1, <2>1 DEF IInv, TypeOK
  <2>3. rows'[r] = rows[r] + 1 /\ rows[r] <= forgets /\ forgets \in Nat
    BY <1>1, <1>3, <2>1 DEF IInv, TypeOK, RecordOk
  <2>4. request[q].stage = "unknown" /\ PostOk(request[q])
    BY DEF Insert, IInv
  <2>5. /\ [request[q] EXCEPT !.stage = "inserted"] \in Posts
        /\ request'[q].report = r /\ request'[q].tab = request[q].tab
    BY <1>1, <2>1 DEF Posts, Handling, IInv, TypeOK
  <2>6. TypeOK'
    BY <1>1, <2>1, <2>5 DEF IInv, TypeOK
  <2>7. ASSUME NEW p \in Requests PROVE PostOk(request[p])'
    <3>1. CASE p = q
      <4>1. rows'[r] > 0
        BY <1>1, <2>2, <2>3 DEF IInv, TypeOK
      <4> QED BY <1>1, <2>1, <2>4, <2>5, <3>1, <4>1 DEF PostOk
    <3>2. CASE p # q
      <4>1. request'[p] = request[p] /\ PostOk(request[p])
        BY <2>1, <3>2 DEF IInv, TypeOK
      <4>2. request[p].stage # "none" => request[p].report \in Reports
        BY DEF IInv, TypeOK, Posts, NoPost
      <4>3. \A s \in Reports : rows[s] > 0 => rows'[s] > 0
        BY <2>2
      <4>4. saved' = saved /\ flush' = flush
        BY <2>1
      <4> HIDE DEF r
      <4> QED BY <4>1, <4>2, <4>3, <4>4 DEF PostOk
    <3> QED BY <3>1, <3>2
  <2>8. ASSUME NEW t \in Tabs PROVE FlushOk(flush[t])'
    <3>1. flush[t].todo \subseteq Reports /\ FlushOk(flush[t])
      BY DEF IInv, TypeOK, Flushes
    <3> QED BY <2>1, <2>2, <3>1 DEF FlushOk
  <2>9. ASSUME NEW s \in Reports PROVE RecordOk(s)'
    <3>1. CASE s = r
      BY <1>1, <2>1, <2>2, <2>3, <3>1 DEF IInv, RecordOk
    <3>2. CASE s # r
      <4>1. rows'[s] = rows[s] /\ (s \in keyed' <=> s \in keyed) /\ RecordOk(s)
        BY <1>1, <2>1, <3>2 DEF IInv, TypeOK
      <4> QED BY <2>1, <4>1 DEF RecordOk
    <3> QED BY <3>1, <3>2
  <2>10. OneAnswer'
    BY <1>1, <2>1, <2>5 DEF IInv, TypeOK, OneAnswer, Live
  <2> QED BY <2>6, <2>7, <2>8, <2>9, <2>10 DEF IInv
<1> QED BY <1>2, <1>3

LEMMA ServerKeepsInv ==
  ASSUME IInv, NEW q \in Requests, ServerStep(q)
  PROVE  IInv'
<1>1. CASE Identify(q)
  <2> DEFINE i == IF reporter = Null THEN forgets ELSE reporter
             m == [request[q] EXCEPT !.stage = "identified", !.id = i]
  <2>1. i \in Nat \union {Null} /\ "identified" \in Handling \ {"inserted"} /\ Live(q)
    BY <1>1 DEF Identify, IInv, TypeOK, Handling, Live
  <2> HIDE DEF i
  <2>2. m \in Posts \union {NoPost} /\ PostOk(m) /\ m.tab = request[q].tab
    BY <2>1, StageIsOk
  <2>3. /\ request' = [request EXCEPT ![q] = m]
        /\ reporter' \in Nat \union {Null}
        /\ UNCHANGED <<saved, item, flush, rows, keyed, forgets, closes>>
    BY <1>1, <2>1 DEF Identify, phoneVars, i
  <2> HIDE DEF m
  <2> QED BY <2>1, <2>2, <2>3, RequestMoves
<1>2. CASE Refuse(q) \/ Fail(q) \/ InsertOrphan(q)
  <2>1. Live(q) /\ "refused" \in Replies /\ "failed" \in Replies
    BY <1>2 DEF Refuse, Fail, InsertOrphan, Live, Replies, Handling
  <2>2. Reply(q, "refused") \/ Reply(q, "failed")
    BY <1>2 DEF Refuse, Fail, InsertOrphan
  <2>3. UNCHANGED closes /\ UNCHANGED phoneVars /\ UNCHANGED serverVars
    BY <1>2 DEF Refuse, Fail, InsertOrphan
  <2> QED BY <2>1, <2>2, <2>3, ReplyStep
<1>3. CASE LookUp(q)
  <2>1. Live(q) /\ "stored" \in Replies /\ "unknown" \in Handling \ {"inserted"}
    BY <1>3 DEF LookUp, Live, Replies, Handling
  <2>2. UNCHANGED closes /\ UNCHANGED phoneVars /\ UNCHANGED serverVars
    BY <1>3 DEF LookUp
  <2>3. CASE Found(q)
    <3>1. rows[request[q].report] > 0 /\ Reply(q, "stored")
      BY <1>3, <2>3 DEF LookUp, Found, IInv, TypeOK, RecordOk
    <3> QED BY <2>1, <2>2, <3>1, ReplyStep
  <2>4. CASE ~Found(q)
    <3> DEFINE m == [request[q] EXCEPT !.stage = "unknown"]
    <3>1. m \in Posts \union {NoPost} /\ PostOk(m) /\ m.tab = request[q].tab
      BY <2>1, StageIsOk
    <3>2. request' = [request EXCEPT ![q] = m] /\ reporter' \in Nat \union {Null}
      BY <1>3, <2>2, <2>4 DEF LookUp, IInv, TypeOK, serverVars
    <3> HIDE DEF m
    <3> QED BY <2>1, <2>2, <3>1, <3>2, RequestMoves DEF phoneVars, serverVars
  <2> QED BY <2>3, <2>4
<1>4. CASE Insert(q)
  BY <1>4, InsertKeepsInv
<1>5. CASE ReadAgain(q)
  <2>1. Live(q) /\ "stored" \in Replies /\ "refused" \in Replies
    BY <1>5 DEF ReadAgain, Live, Replies
  <2>2. UNCHANGED closes /\ UNCHANGED phoneVars /\ UNCHANGED serverVars
    BY <1>5 DEF ReadAgain
  <2>3. Found(q) => rows[request[q].report] > 0
    BY DEF Found, IInv, TypeOK, RecordOk
  <2>4. \/ Found(q) /\ Reply(q, "stored")
        \/ Reply(q, "refused")
    BY <1>5 DEF ReadAgain
  <2> QED BY <2>1, <2>2, <2>3, <2>4, ReplyStep
<1>6. CASE Answer(q)
  <2>1. Live(q) /\ "stored" \in Replies /\ "failed" \in Replies
    BY <1>6 DEF Answer, Live, Replies
  <2>2. UNCHANGED closes /\ UNCHANGED phoneVars /\ UNCHANGED serverVars
    BY <1>6 DEF Answer
  <2>3. rows[request[q].report] > 0
    BY <1>6 DEF Answer, IInv, PostOk
  <2>4. Reply(q, "stored") \/ Reply(q, "failed")
    BY <1>6 DEF Answer
  <2> QED BY <2>1, <2>2, <2>3, <2>4, ReplyStep
<1> QED BY <1>1, <1>2, <1>3, <1>4, <1>5, <1>6 DEF ServerStep

LEMMA ForgetKeepsInv == IInv /\ Forget => IInv'
<1> SUFFICES ASSUME IInv, Forget PROVE IInv'
  OBVIOUS
<1>1. /\ forgets' = forgets + 1 /\ forgets' \in 0..MaxForgets /\ keyed' = {}
      /\ reporter' = Null
      /\ UNCHANGED <<saved, item, flush, request, rows, closes>>
  BY OutboxAssumption DEF OutboxAssumption, Forget, IInv, TypeOK, phoneVars
<1>2. TypeOK'
  BY <1>1 DEF IInv, TypeOK
<1>3. /\ \A q \in Requests : PostOk(request[q])'
      /\ \A t \in Tabs : FlushOk(flush[t])'
  BY <1>1 DEF IInv, PostOk, FlushOk
<1>4. ASSUME NEW r \in Reports PROVE RecordOk(r)'
  <2>1. RecordOk(r) /\ rows[r] \in Nat /\ forgets \in Nat
    BY DEF IInv, TypeOK
  <2> QED BY <1>1, <2>1 DEF RecordOk
<1>5. OneAnswer'
  BY <1>1 DEF IInv, OneAnswer, Live
<1> QED BY <1>2, <1>3, <1>4, <1>5 DEF IInv

-----------------------------------------------------------------------------
(* The phone: the server is left alone. *)

\* A tab moves on, with its records, requests and deletions in order.
LEMMA TabMoves ==
  ASSUME IInv, NEW t \in Tabs, NEW f \in Flushes, FlushOk(f), flush' = [flush EXCEPT ![t] = f],
         item' \in [Reports -> Records], \A r \in Reports : RecordOk(r)',
         request' \in [Requests -> Posts \union {NoPost}],
         \A q \in Requests : PostOk(request[q])', OneAnswer',
         closes' \in 0..MaxCloses, UNCHANGED saved, UNCHANGED serverVars
  PROVE  IInv'
<1>1. TypeOK'
  BY DEF IInv, TypeOK, serverVars
<1>2. ASSUME NEW u \in Tabs PROVE FlushOk(flush[u])'
  <2>1. CASE u = t
    <3>1. flush'[u] = f
      BY <2>1 DEF IInv, TypeOK
    <3> QED BY <3>1 DEF FlushOk, serverVars
  <2>2. CASE u # t
    <3>1. flush'[u] = flush[u] /\ FlushOk(flush[u])
      BY <2>2 DEF IInv, TypeOK
    <3> QED BY <3>1 DEF FlushOk, serverVars
  <2> QED BY <2>1, <2>2
<1> QED BY <1>1, <1>2 DEF IInv

\* A tab that stops waiting lets go of its request: it is dropped, or goes on
\* with nobody waiting.
LetGo(t) ==
  \A q \in Requests :
    \/ request'[q] = NoPost
    \/ request'[q] = request[q] /\ (Live(q) => request[q].tab # t)
    \/ Live(q) /\ request'[q] = [request[q] EXCEPT !.tab = Null]

LEMMA LetGoKeepsPosts ==
  ASSUME IInv, NEW t \in Tabs, LetGo(t), request' = [q \in Requests |-> request'[q]],
         \A u \in Tabs \ {t} : flush'[u] = flush[u], UNCHANGED saved, UNCHANGED serverVars
  PROVE  /\ request' \in [Requests -> Posts \union {NoPost}]
         /\ \A q \in Requests : PostOk(request[q])'
         /\ OneAnswer'
<1>1. ASSUME NEW q \in Requests
      PROVE  request'[q] \in Posts \union {NoPost} /\ PostOk(request[q])'
  <2>1. PostOk(request[q]) /\ request[q] \in Posts \union {NoPost}
    BY DEF IInv, TypeOK
  <2>2. CASE request'[q] = NoPost
    BY <2>2 DEF PostOk, NoPost
  <2>3. CASE request'[q] = request[q] /\ (Live(q) => request[q].tab # t)
    <3>1. Live(q) /\ request[q].tab # Null => request[q].tab \in Tabs \ {t}
      BY <2>1, <2>3 DEF Posts, NoPost, Live
    <3> QED BY <2>1, <2>3, <3>1 DEF PostOk, serverVars, Live
  <2>4. CASE Live(q) /\ request'[q] = [request[q] EXCEPT !.tab = Null]
    <3>1. request[q] \in Posts
      BY <2>1, <2>4 DEF Live, NoPost
    <3>2. /\ request'[q] \in Posts /\ request'[q].tab = Null
          /\ request'[q].report = request[q].report /\ request'[q].stage = request[q].stage
      BY <2>4, <3>1 DEF Posts
    <3> QED BY <2>1, <2>4, <3>2 DEF PostOk, serverVars, Live
  <2> QED BY <2>2, <2>3, <2>4 DEF LetGo
<1>2. OneAnswer'
  <2> SUFFICES ASSUME NEW p \in Requests, NEW q \in Requests, Live(p)', Live(q)',
                      request'[p].tab # Null, request'[p].tab = request'[q].tab
               PROVE  p = q
    BY DEF OneAnswer
  <2>1. ASSUME NEW z \in Requests, Live(z)', request'[z].tab # Null
        PROVE  request'[z] = request[z] /\ Live(z)
    <3>1. request'[z] # NoPost
      BY <2>1 DEF Live, NoPost
    <3>2. Live(z) => request[z] \in Posts
      BY DEF IInv, TypeOK, Live, NoPost
    <3>3. Live(z) => [request[z] EXCEPT !.tab = Null].tab = Null
      BY <3>2 DEF Posts
    <3> QED BY <2>1, <3>1, <3>3 DEF LetGo, Live
  <2> QED BY <2>1 DEF IInv, OneAnswer
<1> QED BY <1>1, <1>2

\* A record put back by a tab that has it in memory.
LEMMA PutKeepsRecords ==
  ASSUME IInv, NEW r \in Reports, r \in saved, NEW s \in {"synced", "failed"} \union Waiting,
         NEW n \in 0..MaxAttempts, Put(r, s, n),
         s \in Waiting => n < MaxAttempts, s = "synced" => rows[r] > 0,
         UNCHANGED saved, UNCHANGED serverVars
  PROVE  item' \in [Reports -> Records] /\ \A x \in Reports : RecordOk(x)'
<1>1. [status |-> s, attempts |-> n] \in Records
  BY DEF Records
<1>2. item' \in [Reports -> Records]
  BY <1>1 DEF Put, IInv, TypeOK
<1>3. ASSUME NEW x \in Reports PROVE RecordOk(x)'
  <2>1. CASE x = r
    <3>1. item'[x] = [status |-> s, attempts |-> n] /\ s # "none"
      BY <2>1 DEF Put, IInv, TypeOK, Waiting
    <3> QED BY <2>1, <3>1 DEF RecordOk, IInv, serverVars
  <2>2. CASE x # r
    <3>1. item'[x] = item[x]
      BY <2>2 DEF Put, IInv, TypeOK
    <3> QED BY <3>1 DEF RecordOk, IInv, serverVars
  <2> QED BY <2>1, <2>2
<1> QED BY <1>2, <1>3

\* The loop goes on with a part of what was left.
LEMMA ContinueIsOk ==
  ASSUME IInv, NEW t \in Tabs, flush[t].pc = "sending", NEW R \in SUBSET flush[t].todo,
         Continue(t, R)
  PROVE  \E f \in Flushes : FlushOk(f) /\ flush' = [flush EXCEPT ![t] = f]
<1> DEFINE a == [r \in Reports |-> IF r \in R THEN flush[t].attempts[r] ELSE 0]
           f == [flush[t] EXCEPT !.pc = "looping", !.todo = R, !.current = Null, !.attempts = a]
<1>1. flush[t] \in Flushes /\ FlushOk(flush[t])
  BY DEF IInv, TypeOK
<1>2. a \in [Reports -> 0..MaxAttempts] /\ \A r \in R : a[r] = flush[t].attempts[r]
  BY <1>1, OutboxAssumption DEF OutboxAssumption, Flushes
<1>3. flush' = [flush EXCEPT ![t] = f]
  BY DEF Continue
<1> HIDE DEF a
<1>4. f \in Flushes /\ FlushOk(f)
  BY <1>1, <1>2 DEF Flushes, FlushOk
<1> HIDE DEF f
<1> QED BY <1>3, <1>4

\* What a tab that waits for an answer knows.
LEMMA WaitingTab ==
  ASSUME IInv, NEW t \in Tabs, NEW q \in Requests, Awaits(t, q)
  PROVE  /\ flush[t].pc = "sending" /\ flush[t].current \in flush[t].todo
         /\ flush[t].todo \subseteq saved /\ saved \subseteq Reports
         /\ flush[t].attempts \in [Reports -> 0..MaxAttempts]
         /\ flush[t].attempts[flush[t].current] < MaxAttempts
         /\ request[q].report = flush[t].current
         /\ request[q] \in Posts
         /\ \A p \in Requests : Live(p) /\ request[p].tab = t => p = q
<1>1. flush[t] \in Flushes /\ FlushOk(flush[t]) /\ PostOk(request[q])
  BY DEF IInv, TypeOK
<1>2. request[q] \in Posts /\ t # Null /\ request[q].tab = t
  BY OutboxAssumption DEF OutboxAssumption, Awaits, Live, IInv, TypeOK, NoPost
<1>3. \A p \in Requests : Live(p) /\ request[p].tab = t => p = q
  BY <1>2 DEF IInv, OneAnswer, Awaits
<1> QED BY <1>1, <1>2, <1>3 DEF Awaits, Sending, FlushOk, PostOk, Flushes, Live, IInv, TypeOK

\* Putting a record back and letting go of its request, as Settle and Retry do.
LEMMA AnswerTaken ==
  ASSUME IInv, NEW t \in Tabs, NEW q \in Requests, Awaits(t, q),
         NEW s \in {"synced", "failed", "pending"}, NEW n \in 0..MaxAttempts,
         Put(flush[t].current, s, n), s = "pending" => n < MaxAttempts,
         s = "synced" => rows[flush[t].current] > 0,
         NEW R \in SUBSET flush[t].todo, Continue(t, R),
         \/ request' = [request EXCEPT ![q] = NoPost]
         \/ request' = [request EXCEPT ![q].tab = Null],
         UNCHANGED <<saved, closes>>, UNCHANGED serverVars
  PROVE  IInv'
<1>1. /\ flush[t].pc = "sending" /\ flush[t].current \in Reports /\ flush[t].current \in saved
      /\ request[q] \in Posts
      /\ \A p \in Requests : Live(p) /\ request[p].tab = t => p = q
  BY WaitingTab
<1>2. item' \in [Reports -> Records] /\ \A x \in Reports : RecordOk(x)'
  <2>1. s \in {"synced", "failed"} \union Waiting /\ (s \in Waiting => s = "pending")
    BY DEF Waiting
  <2> QED BY <1>1, <2>1, PutKeepsRecords
<1>3. PICK f \in Flushes : FlushOk(f) /\ flush' = [flush EXCEPT ![t] = f]
  BY <1>1, ContinueIsOk
<1>4. LetGo(t) /\ request' = [p \in Requests |-> request'[p]]
  BY <1>1 DEF LetGo, IInv, TypeOK, Awaits
<1>5. \A u \in Tabs \ {t} : flush'[u] = flush[u]
  BY <1>3 DEF IInv, TypeOK
<1>6. /\ request' \in [Requests -> Posts \union {NoPost}]
      /\ \A p \in Requests : PostOk(request[p])'
      /\ OneAnswer'
  BY <1>4, <1>5, LetGoKeepsPosts
<1>7. closes' \in 0..MaxCloses
  BY DEF IInv, TypeOK
<1> QED BY <1>2, <1>3, <1>6, <1>7, TabMoves

LEMMA EnqueueKeepsInv ==
  ASSUME IInv, NEW r \in Reports, Enqueue(r)
  PROVE  IInv'
<1>1. /\ r \notin saved /\ saved' = saved \union {r}
      /\ item' = [item EXCEPT ![r] = [status |-> "pending", attempts |-> 0]]
      /\ UNCHANGED <<flush, request, closes, reporter, rows, keyed, forgets>>
  BY DEF Enqueue, serverVars
<1>2. [status |-> "pending", attempts |-> 0] \in Records /\ 0 < MaxAttempts
  BY OutboxAssumption DEF OutboxAssumption, Records, Waiting
<1>3. TypeOK'
  BY <1>1, <1>2 DEF IInv, TypeOK
<1>4. /\ \A q \in Requests : PostOk(request[q])'
      /\ \A t \in Tabs : FlushOk(flush[t])'
      /\ OneAnswer'
  BY <1>1 DEF IInv, PostOk, FlushOk, OneAnswer, Live
<1>5. ASSUME NEW x \in Reports PROVE RecordOk(x)'
  <2>1. CASE x = r
    BY <1>1, <1>2, <2>1 DEF RecordOk, IInv, TypeOK
  <2>2. CASE x # r
    <3>1. item'[x] = item[x] /\ (x \in saved' <=> x \in saved)
      BY <1>1, <2>2 DEF IInv, TypeOK
    <3> QED BY <1>1, <3>1 DEF RecordOk, IInv
  <2> QED BY <2>1, <2>2
<1> QED BY <1>3, <1>4, <1>5 DEF IInv

\* A tab that was not waiting moves on and touches no record and no request.
LEMMA QuietTabMoves ==
  ASSUME IInv, NEW t \in Tabs, flush[t].pc # "sending",
         NEW f \in Flushes, FlushOk(f), flush' = [flush EXCEPT ![t] = f],
         UNCHANGED <<saved, item, request, closes>>, UNCHANGED serverVars
  PROVE  IInv'
<1>1. LetGo(t) /\ request' = [p \in Requests |-> request'[p]]
  <2>1. ASSUME NEW q \in Requests, Live(q) PROVE request[q].tab # t
    <3>1. t # Null
      BY OutboxAssumption DEF OutboxAssumption
    <3> QED BY <2>1, <3>1 DEF IInv, PostOk, Live
  <2> QED BY <2>1 DEF LetGo, IInv, TypeOK
<1>2. \A u \in Tabs \ {t} : flush'[u] = flush[u]
  BY DEF IInv, TypeOK
<1>3. /\ request' \in [Requests -> Posts \union {NoPost}]
      /\ \A p \in Requests : PostOk(request[p])'
      /\ OneAnswer'
  BY <1>1, <1>2, LetGoKeepsPosts
<1>4. item' \in [Reports -> Records] /\ \A r \in Reports : RecordOk(r)'
  BY DEF IInv, TypeOK, RecordOk, serverVars
<1>5. closes' \in 0..MaxCloses
  BY DEF IInv, TypeOK
<1> QED BY <1>3, <1>4, <1>5, TabMoves

LEMMA StartFlushKeepsInv ==
  ASSUME IInv, NEW t \in Tabs, StartFlush(t)
  PROVE  IInv'
<1> DEFINE waiting == {r \in Reports : item[r].status \in Waiting}
           a == [r \in Reports |-> IF r \in waiting THEN item[r].attempts ELSE 0]
           f == [pc |-> "looping", todo |-> waiting, current |-> Null, attempts |-> a]
<1>1. a \in [Reports -> 0..MaxAttempts]
  <2>1. \A r \in Reports : item[r].attempts \in 0..MaxAttempts
    BY DEF IInv, TypeOK, Records
  <2> QED BY <2>1, OutboxAssumption DEF OutboxAssumption
<1>2. \A r \in waiting : r \in saved /\ a[r] < MaxAttempts
  BY DEF IInv, RecordOk, Waiting
<1>3. flush' = [flush EXCEPT ![t] = f] /\ flush[t].pc # "sending"
  BY DEF StartFlush
<1>4. waiting \subseteq Reports
  OBVIOUS
<1> HIDE DEF a, waiting
<1>5. f \in Flushes /\ FlushOk(f)
  BY <1>1, <1>2, <1>4 DEF Flushes, FlushOk
<1> HIDE DEF f
<1> QED BY <1>3, <1>5, QuietTabMoves DEF StartFlush

LEMMA FindSyncedKeepsInv ==
  ASSUME IInv, NEW t \in Tabs, FindSynced(t)
  PROVE  IInv'
<1>1. PICK old \in SUBSET {r \in Reports : item[r].status = "synced"} :
        flush' = [flush EXCEPT ![t].pc = "pruning", ![t].todo = old]
  BY DEF FindSynced
<1> DEFINE f == [flush[t] EXCEPT !.pc = "pruning", !.todo = old]
<1>2. flush' = [flush EXCEPT ![t] = f] /\ flush[t].pc # "sending"
  BY <1>1 DEF FindSynced
<1>3. f \in Flushes /\ FlushOk(f)
  <2>1. flush[t] \in Flushes /\ \A r \in old : r \in Reports /\ rows[r] > 0
    BY <1>1 DEF IInv, TypeOK, RecordOk
  <2> QED BY <2>1 DEF Flushes, FlushOk
<1> HIDE DEF f
<1> QED BY <1>2, <1>3, QuietTabMoves DEF FindSynced

LEMMA IdleIsOk == Idle \in Flushes /\ FlushOk(Idle)
<1>1. 0 \in 0..MaxAttempts
  BY OutboxAssumption DEF OutboxAssumption
<1> QED BY <1>1 DEF Idle, Flushes, FlushOk

LEMMA PruneKeepsInv ==
  ASSUME IInv, NEW t \in Tabs, Prune(t)
  PROVE  IInv'
<1> DEFINE gone == flush[t].todo
<1>1. /\ item' = [r \in Reports |-> IF r \in gone THEN NoRecord ELSE item[r]]
      /\ flush' = [flush EXCEPT ![t] = Idle] /\ flush[t].pc = "pruning"
      /\ UNCHANGED <<saved, request, closes>> /\ UNCHANGED serverVars
  BY DEF Prune
<1>2. \A r \in gone : rows[r] > 0
  BY <1>1 DEF IInv, FlushOk
<1> HIDE DEF gone
<1>3. NoRecord \in Records
  BY OutboxAssumption DEF OutboxAssumption, NoRecord, Records
<1>4. item' \in [Reports -> Records]
  BY <1>1, <1>3 DEF IInv, TypeOK
<1>5. ASSUME NEW r \in Reports PROVE RecordOk(r)'
  <2>1. CASE r \in gone
    <3>1. item'[r].status = "none"
      BY <1>1, <2>1 DEF NoRecord
    <3> QED BY <1>1, <1>2, <2>1, <3>1 DEF IInv, RecordOk, Waiting, serverVars
  <2>2. CASE r \notin gone
    <3>1. item'[r] = item[r]
      BY <1>1, <2>2
    <3> QED BY <1>1, <3>1 DEF IInv, RecordOk, serverVars
  <2> QED BY <2>1, <2>2
<1>6. LetGo(t) /\ request' = [p \in Requests |-> request'[p]]
  <2>1. ASSUME NEW q \in Requests, Live(q) PROVE request[q].tab # t
    <3>1. t # Null
      BY OutboxAssumption DEF OutboxAssumption
    <3> QED BY <1>1, <2>1, <3>1 DEF IInv, PostOk, Live
  <2> QED BY <1>1, <2>1 DEF LetGo, IInv, TypeOK
<1>7. \A u \in Tabs \ {t} : flush'[u] = flush[u]
  BY <1>1 DEF IInv, TypeOK
<1>8. /\ request' \in [Requests -> Posts \union {NoPost}]
      /\ \A p \in Requests : PostOk(request[p])'
      /\ OneAnswer'
  BY <1>1, <1>6, <1>7, LetGoKeepsPosts
<1>9. closes' \in 0..MaxCloses
  BY <1>1 DEF IInv, TypeOK
<1> QED BY <1>1, <1>4, <1>5, <1>8, <1>9, IdleIsOk, TabMoves

LEMMA CloseTabKeepsInv ==
  ASSUME IInv, NEW t \in Tabs, CloseTab(t)
  PROVE  IInv'
<1>1. LetGo(t) /\ request' = [p \in Requests |-> request'[p]]
  <2>1. ASSUME NEW q \in Requests, Live(q), request[q].tab = t PROVE Awaits(t, q)
    <3>1. t # Null
      BY OutboxAssumption DEF OutboxAssumption
    <3> QED BY <2>1, <3>1 DEF IInv, PostOk, Live, Awaits, Sending
  <2> QED BY <2>1 DEF CloseTab, LetGo, Awaits
<1>2. flush' = [flush EXCEPT ![t] = Idle] /\ UNCHANGED saved /\ UNCHANGED serverVars
      /\ UNCHANGED item
  BY DEF CloseTab
<1>3. \A u \in Tabs \ {t} : flush'[u] = flush[u]
  BY <1>2 DEF IInv, TypeOK
<1>4. /\ request' \in [Requests -> Posts \union {NoPost}]
      /\ \A p \in Requests : PostOk(request[p])'
      /\ OneAnswer'
  BY <1>1, <1>2, <1>3, LetGoKeepsPosts
<1>5. item' \in [Reports -> Records] /\ \A r \in Reports : RecordOk(r)'
  BY <1>2 DEF IInv, TypeOK, RecordOk, serverVars
<1>6. closes' \in 0..MaxCloses
  BY OutboxAssumption DEF OutboxAssumption, CloseTab, IInv, TypeOK
<1> QED BY <1>2, <1>4, <1>5, <1>6, IdleIsOk, TabMoves

LEMMA SettleKeepsInv ==
  ASSUME IInv, NEW t \in Tabs, NEW q \in Requests, Settle(t, q)
  PROVE  IInv'
<1> DEFINE r == flush[t].current
           s == [stored |-> "synced", refused |-> "failed"][request[q].stage]
           n == flush[t].attempts[r]
           R == flush[t].todo \ {r}
<1>1. Awaits(t, q) /\ request[q].stage \in {"stored", "refused"}
  BY DEF Settle
<1>2. n \in 0..MaxAttempts /\ r \in Reports /\ request[q].report = r
  BY <1>1, WaitingTab
<1>3. s \in {"synced", "failed"} /\ (s = "synced" => request[q].stage = "stored")
  BY <1>1
<1>4. s = "synced" => rows[r] > 0
  BY <1>2, <1>3 DEF IInv, PostOk
<1>5. /\ Put(r, s, n) /\ Continue(t, R) /\ R \in SUBSET flush[t].todo
      /\ request' = [request EXCEPT ![q] = NoPost]
      /\ UNCHANGED <<saved, closes>> /\ UNCHANGED serverVars
  BY DEF Settle
<1>6. s \in {"synced", "failed", "pending"} /\ s # "pending"
  BY <1>3
<1> HIDE DEF s, n, R
<1> QED BY <1>1, <1>2, <1>4, <1>5, <1>6, AnswerTaken

LEMMA RetryKeepsInv ==
  ASSUME IInv, NEW t \in Tabs, NEW q \in Requests, Retry(t, q)
  PROVE  IInv'
<1> DEFINE r == flush[t].current
           n == flush[t].attempts[r] + 1
           s == IF n >= MaxAttempts THEN "failed" ELSE "pending"
<1>1. Awaits(t, q)
  BY DEF Retry
<1>2. n \in 0..MaxAttempts /\ (s = "pending" => n < MaxAttempts)
  BY <1>1, WaitingTab, OutboxAssumption DEF OutboxAssumption
<1>3. /\ Put(r, s, n)
      /\ \/ request' = [request EXCEPT ![q] = NoPost]
         \/ request' = [request EXCEPT ![q].tab = Null]
      /\ UNCHANGED <<saved, closes>> /\ UNCHANGED serverVars
  BY DEF Retry
<1>4. PICK R \in SUBSET flush[t].todo : Continue(t, R)
  BY DEF Retry
<1>5. s \in {"synced", "failed", "pending"} /\ s # "synced"
  OBVIOUS
<1> HIDE DEF s, n
<1> QED BY <1>1, <1>2, <1>3, <1>4, <1>5, AnswerTaken

LEMMA SendKeepsInv ==
  ASSUME IInv, NEW t \in Tabs, NEW r \in Reports, Send(t, r)
  PROVE  IInv'
<1> DEFINE f == [flush[t] EXCEPT !.pc = "sending", !.current = r]
<1>1. /\ flush[t].pc = "looping" /\ r \in flush[t].todo
      /\ flush[t] \in Flushes /\ FlushOk(flush[t])
      /\ UNCHANGED <<saved, closes>> /\ UNCHANGED serverVars
  BY DEF Send, IInv, TypeOK
<1>2. r \in saved /\ flush[t].attempts[r] < MaxAttempts
      /\ flush[t].attempts[r] \in 0..MaxAttempts
  BY <1>1 DEF FlushOk, Flushes
<1>3. item' \in [Reports -> Records] /\ \A x \in Reports : RecordOk(x)'
  <2>1. Put(r, "syncing", flush[t].attempts[r]) /\ "syncing" \in Waiting
    BY DEF Send, Waiting
  <2> QED BY <1>1, <1>2, <2>1, PutKeepsRecords
<1>4. f \in Flushes /\ FlushOk(f) /\ f.pc = "sending" /\ f.current = r
  BY <1>1 DEF Flushes, FlushOk
<1>5. flush' = [flush EXCEPT ![t] = f]
  BY DEF Send
<1> HIDE DEF f
<1>6. flush'[t] = f /\ \A u \in Tabs \ {t} : flush'[u] = flush[u]
  BY <1>5 DEF IInv, TypeOK
<1> DEFINE m == [stage |-> "sent", report |-> r, tab |-> t, id |-> Null]
<1>7. PICK q \in Requests : ~Live(q) /\ request' = [request EXCEPT ![q] = m]
  BY DEF Send
<1>8. m \in Posts /\ m.stage = "sent" /\ m.tab = t /\ m.report = r
  BY DEF Posts, Handling
<1> HIDE DEF m
<1>9. t # Null
  BY OutboxAssumption DEF OutboxAssumption
<1>10. ASSUME NEW p \in Requests, Live(p) PROVE request[p].tab # t
  BY <1>1, <1>9, <1>10 DEF IInv, PostOk, Live
<1>11. /\ request'[q] = m /\ \A p \in Requests \ {q} : request'[p] = request[p]
       /\ request' \in [Requests -> Posts \union {NoPost}]
  BY <1>7, <1>8 DEF IInv, TypeOK
<1>12. ASSUME NEW p \in Requests PROVE PostOk(request[p])'
  <2>1. CASE p = q
    BY <1>1, <1>2, <1>4, <1>6, <1>8, <1>11, <2>1 DEF PostOk
  <2>2. CASE p # q
    <3>1. request'[p] = request[p] /\ PostOk(request[p])
      BY <1>11, <2>2 DEF IInv
    <3>2. Live(p) /\ request[p].tab # Null => request[p].tab \in Tabs \ {t}
      BY <1>10 DEF IInv, TypeOK, Posts, NoPost, Live
    <3> QED BY <1>1, <1>6, <3>1, <3>2 DEF PostOk, serverVars, Live
  <2> QED BY <2>1, <2>2
<1>13. OneAnswer'
  <2> SUFFICES ASSUME NEW x \in Requests, NEW y \in Requests, Live(x)', Live(y)',
                      request'[x].tab # Null, request'[x].tab = request'[y].tab
               PROVE  x = y
    BY DEF OneAnswer
  <2>1. ASSUME NEW p \in Requests \ {q}, Live(p)' PROVE Live(p) /\ request'[p].tab # t
    BY <1>10, <1>11, <2>1 DEF Live
  <2>2. CASE x = q \/ y = q
    BY <1>8, <1>11, <2>1, <2>2
  <2>3. CASE x # q /\ y # q
    BY <1>11, <2>1, <2>3 DEF IInv, OneAnswer
  <2> QED BY <2>2, <2>3
<1>14. closes' \in 0..MaxCloses
  BY <1>1 DEF IInv, TypeOK
<1> QED BY <1>1, <1>3, <1>4, <1>5, <1>11, <1>12, <1>13, <1>14, TabMoves

LEMMA InvStep == IInv /\ [Next]_vars => IInv'
<1> SUFFICES ASSUME IInv, [Next]_vars PROVE IInv'
  OBVIOUS
<1>1. ASSUME NEW r \in Reports, Enqueue(r) PROVE IInv'
  BY <1>1, EnqueueKeepsInv
<1>2. ASSUME NEW t \in Tabs, StartFlush(t) \/ FlushStep(t) \/ CloseTab(t) PROVE IInv'
  BY <1>2, StartFlushKeepsInv, SendKeepsInv, SettleKeepsInv, RetryKeepsInv,
     FindSyncedKeepsInv, PruneKeepsInv, CloseTabKeepsInv DEF FlushStep
<1>3. ASSUME NEW q \in Requests, ServerStep(q) PROVE IInv'
  BY <1>3, ServerKeepsInv
<1>4. CASE UNCHANGED vars
  BY <1>4 DEF vars, IInv, TypeOK, OneAnswer, PostOk, FlushOk, RecordOk, Live
<1> QED BY <1>1, <1>2, <1>3, <1>4, ForgetKeepsInv DEF Next

-----------------------------------------------------------------------------
(* Theorems *)

\* The inductive invariant, for every value of the constants.
THEOREM OutboxInvariance == Spec => []IInv
BY InvInit, InvStep, PTL DEF Spec

\* Types are kept and no record is tried more than MaxAttempts times.
THEOREM OutboxTypeCorrect == Spec => []TypeOK
<1>1. IInv => TypeOK
  BY DEF IInv
<1> QED BY <1>1, OutboxInvariance, PTL

\* A saved report is on the phone or on the server.
THEOREM SavedReportsSurvive == Spec => []NothingIsLost
<1>1. IInv => NothingIsLost
  BY DEF IInv, TypeOK, RecordOk, NothingIsLost
<1> QED BY <1>1, OutboxInvariance, PTL

\* What the phone shows as sent is on the server.
THEOREM SentReportsAreStored == Spec => []SentIsStored
<1>1. IInv => SentIsStored
  BY DEF IInv, RecordOk, SentIsStored
<1> QED BY <1>1, OutboxInvariance, PTL

\* Replays add no row while the reporter is remembered.
THEOREM ReplaysDoNotCount == Spec => []CountedOncePerReporter
<1>1. IInv => CountedOncePerReporter
  BY DEF IInv, RecordOk, CountedOncePerReporter
<1> QED BY <1>1, OutboxInvariance, PTL

\* Nobody is ever erased: then every report is counted at most once.
THEOREM WithoutErasureCountedOnce ==
  ASSUME MaxForgets = 0
  PROVE  Spec => []CountedOnce
<1>1. IInv => CountedOnce
  BY DEF IInv, TypeOK, RecordOk, CountedOnce
<1> QED BY <1>1, OutboxInvariance, PTL

-----------------------------------------------------------------------------
(* Refinement: the phone and the server together are a PriceInbox *)

Gone == {r \in saved : item[r].status = "none"}

\* A record that is put back is on the phone, wherever it was before.
LEMMA PutReappears ==
  ASSUME IInv, NEW r \in Reports, NEW s, s # "none", NEW n, Put(r, s, n),
         UNCHANGED saved, UNCHANGED serverVars
  PROVE  Inbox!Reappear(r)
<1>1. Gone' = Gone \ {r}
  <2>1. \A x \in Reports : item'[x] = IF x = r THEN [status |-> s, attempts |-> n] ELSE item[x]
    BY DEF Put, IInv, TypeOK
  <2>2. saved \subseteq Reports
    BY DEF IInv, TypeOK
  <2> QED BY <2>1, <2>2 DEF Gone
<1> QED BY <1>1 DEF Inbox!Reappear, Gone, serverVars

LEMMA FlushImplements ==
  ASSUME IInv, NEW t \in Tabs, FlushStep(t)
  PROVE  Inbox!InboxNext \/ UNCHANGED Inbox!inboxVars
<1>1. ASSUME NEW r \in Reports, Send(t, r) PROVE Inbox!Reappear(r)
  BY <1>1, PutReappears DEF Send
<1>2. ASSUME NEW q \in Requests, Settle(t, q) PROVE \E r \in Reports : Inbox!Reappear(r)
  <2> DEFINE s == [stored |-> "synced", refused |-> "failed"][request[q].stage]
  <2>1. flush[t].current \in Reports /\ s # "none"
    BY <1>2, WaitingTab DEF Settle
  <2>2. Put(flush[t].current, s, flush[t].attempts[flush[t].current])
        /\ UNCHANGED saved /\ UNCHANGED serverVars
    BY <1>2 DEF Settle
  <2> HIDE DEF s
  <2> QED BY <2>1, <2>2, PutReappears
<1>3. ASSUME NEW q \in Requests, Retry(t, q) PROVE \E r \in Reports : Inbox!Reappear(r)
  <2> DEFINE n == flush[t].attempts[flush[t].current] + 1
             s == IF n >= MaxAttempts THEN "failed" ELSE "pending"
  <2>1. flush[t].current \in Reports /\ s # "none"
    BY <1>3, WaitingTab DEF Retry
  <2>2. Put(flush[t].current, s, n) /\ UNCHANGED saved /\ UNCHANGED serverVars
    BY <1>3 DEF Retry
  <2> HIDE DEF s, n
  <2> QED BY <2>1, <2>2, PutReappears
<1>4. CASE FindSynced(t)
  BY <1>4 DEF FindSynced, serverVars, Inbox!inboxVars
<1>5. CASE Prune(t)
  <2>1. saved \subseteq Reports
    BY DEF IInv, TypeOK
  <2>2. PICK R \in SUBSET Reports : R = flush[t].todo \intersect saved
    BY <2>1
  <2>3. \A r \in R : r \in saved /\ rows[r] > 0
    BY <1>5, <2>2 DEF Prune, IInv, FlushOk
  <2>4. Gone' = Gone \union R
    BY <1>5, <2>1, <2>2 DEF Prune, Gone, NoRecord
  <2>5. Inbox!Clear(R)
    BY <1>5, <2>3, <2>4 DEF Prune, Inbox!Clear, Gone, serverVars
  <2> QED BY <2>5 DEF Inbox!InboxNext
<1> QED BY <1>1, <1>2, <1>3, <1>4, <1>5 DEF FlushStep, Inbox!InboxNext

LEMMA ServerImplements ==
  ASSUME IInv, NEW q \in Requests, ServerStep(q)
  PROVE  Inbox!InboxNext \/ UNCHANGED Inbox!inboxVars
<1>1. CASE Insert(q) /\ request[q].report \notin keyed
  <2>1. request[q].report \in Reports /\ request[q].report \in saved
    BY <1>1 DEF Insert, IInv, TypeOK, PostOk
  <2>2. Inbox!Count(request[q].report)
    BY <1>1, <2>1 DEF Insert, Inbox!Count, phoneVars
  <2> QED BY <2>1, <2>2 DEF Inbox!InboxNext
<1>2. CASE Insert(q) /\ request[q].report \in keyed
  BY <1>2 DEF Insert, Inbox!inboxVars, phoneVars
<1>3. CASE ~Insert(q)
  BY <1>3 DEF ServerStep, Identify, Refuse, Fail, LookUp, InsertOrphan, ReadAgain, Answer,
     Inbox!inboxVars, phoneVars, serverVars
<1> QED BY <1>1, <1>2, <1>3

\* The phone, the lossy network and the server implement the inbox they promise.
THEOREM OutboxImplementsInbox == Spec => ImplementsInbox
<1>1. Init => Inbox!InboxInit
  BY DEF Init, Inbox!InboxInit
<1>2. IInv /\ [Next]_vars => [Inbox!InboxNext]_(Inbox!inboxVars)
  <2> SUFFICES ASSUME IInv, [Next]_vars
               PROVE  Inbox!InboxNext \/ UNCHANGED Inbox!inboxVars
    OBVIOUS
  <2>1. ASSUME NEW r \in Reports, Enqueue(r) PROVE Inbox!InboxNext
    <3>1. Gone' = Gone
      BY <2>1 DEF Enqueue, Gone, IInv, TypeOK, RecordOk
    <3>2. Inbox!Save(r)
      BY <2>1, <3>1 DEF Enqueue, Gone, Inbox!Save, serverVars
    <3> QED BY <3>2 DEF Inbox!InboxNext
  <2>2. ASSUME NEW t \in Tabs, StartFlush(t) \/ CloseTab(t)
        PROVE  UNCHANGED Inbox!inboxVars
    BY <2>2 DEF StartFlush, CloseTab, serverVars, Inbox!inboxVars
  <2>3. CASE Forget
    BY <2>3 DEF Forget, phoneVars, Inbox!Erase, Inbox!InboxNext
  <2>4. CASE UNCHANGED vars
    BY <2>4 DEF vars, Inbox!inboxVars
  <2> QED BY <2>1, <2>2, <2>3, <2>4, FlushImplements, ServerImplements DEF Next
<1> QED BY <1>1, <1>2, OutboxInvariance, PTL DEF Spec, ImplementsInbox, Inbox!InboxSpec

-----------------------------------------------------------------------------
(***************************************************************************)
(* One tab.  Two flushes of two tabs write each other's records back from  *)
(* copies that have gone stale, so attempt counts are set back and what    *)
(* was settled waits again.  A single flush at a time cannot: its copy of  *)
(* a record it has still to send is the record.                            *)
(***************************************************************************)
OneTab == \A t, u \in Tabs : t = u

CopyOk(f) ==
  /\ f.pc \in {"looping", "sending"} =>
       \A r \in f.todo : item[r].status \in Waiting /\ f.attempts[r] = item[r].attempts
  /\ f.pc = "pruning" => \A r \in f.todo : item[r].status = "synced"

CopyInv == \A t \in Tabs : CopyOk(flush[t])

\* A record that is settled or gone stays so, and its attempts only grow.
Forward(r) ==
  /\ item[r].status = "synced" => item'[r].status \in {"synced", "none"}
  /\ item[r].status = "failed" => item'[r].status = "failed"
  /\ r \in saved /\ item[r].status = "none" => item'[r].status = "none"
  /\ item[r].status # "none" /\ item'[r].status # "none"
       => item'[r].attempts >= item[r].attempts

LEMMA SameRecords ==
  ASSUME IInv, UNCHANGED item, NEW r \in Reports
  PROVE  Forward(r)
BY DEF IInv, TypeOK, Records, Forward

\* A waiting record is put back with no fewer attempts.
LEMMA PutMovesForward ==
  ASSUME IInv, NEW r \in Reports, item[r].status \in Waiting,
         NEW s, s # "none", NEW n \in Nat, n >= item[r].attempts, Put(r, s, n),
         NEW x \in Reports
  PROVE  Forward(x)
<1>1. CASE x = r
  <2>1. item'[x].status = s /\ item'[x].attempts = n
    BY <1>1 DEF Put, IInv, TypeOK
  <2> QED BY <1>1, <2>1 DEF Forward, Waiting
<1>2. CASE x # r
  <2>1. item'[x] = item[x] /\ item[x].attempts \in Nat
    BY <1>2 DEF Put, IInv, TypeOK, Records
  <2> QED BY <2>1 DEF Forward
<1> QED BY <1>1, <1>2

\* What the one tab does next depends on the other records alone.
LEMMA OthersStayCopied ==
  ASSUME IInv, NEW t \in Tabs, CopyOk(flush[t]), flush[t].pc = "sending",
         NEW r \in Reports, NEW s, NEW n, Put(r, s, n),
         NEW R \in SUBSET (flush[t].todo \ {r}), Continue(t, R)
  PROVE  CopyOk(flush[t])'
<1>1. flush[t] \in Flushes /\ item \in [Reports -> Records]
  BY DEF IInv, TypeOK
<1>2. /\ flush'[t].pc = "looping" /\ flush'[t].todo = R
      /\ \A x \in R : flush'[t].attempts[x] = flush[t].attempts[x]
  BY <1>1 DEF Continue, IInv, TypeOK, Flushes
<1>3. \A x \in R : item'[x] = item[x]
  BY <1>1 DEF Put, Flushes
<1> QED BY <1>2, <1>3 DEF CopyOk

LEMMA TabMovesForward ==
  ASSUME IInv, NEW t \in Tabs, CopyOk(flush[t]), FlushStep(t)
  PROVE  CopyOk(flush[t])' /\ \A r \in Reports : Forward(r)
<1>t. /\ item \in [Reports -> Records] /\ flush \in [Tabs -> Flushes] /\ flush[t] \in Flushes
      /\ MaxAttempts \in Nat
  BY OutboxAssumption DEF OutboxAssumption, IInv, TypeOK
<1>1. ASSUME NEW r \in Reports, Send(t, r)
      PROVE  CopyOk(flush[t])' /\ \A x \in Reports : Forward(x)
  <2> DEFINE n == flush[t].attempts[r]
  <2>1. /\ flush[t].pc = "looping" /\ r \in flush[t].todo
        /\ item[r].status \in Waiting /\ n = item[r].attempts
    BY <1>1 DEF Send, CopyOk
  <2>2. n \in Nat /\ n >= item[r].attempts
    BY <1>t, <2>1 DEF Records
  <2>3. Put(r, "syncing", n)
    BY <1>1 DEF Send
  <2> HIDE DEF n
  <2>4. \A x \in Reports : Forward(x)
    BY <2>1, <2>2, <2>3, PutMovesForward
  <2>5. /\ flush'[t].pc = "sending" /\ flush'[t].todo = flush[t].todo
        /\ flush'[t].attempts = flush[t].attempts
    BY <1>t, <1>1 DEF Send, Flushes
  <2>6. item'[r].status = "syncing" /\ item'[r].attempts = n
        /\ \A x \in Reports \ {r} : item'[x] = item[x]
    BY <1>t, <2>3 DEF Put
  <2>7. \A x \in flush[t].todo : item'[x].status \in Waiting
                                 /\ flush[t].attempts[x] = item'[x].attempts
    <3>1. flush[t].todo \subseteq Reports
      BY <1>t DEF Flushes
    <3>2. flush[t].attempts[r] = item'[r].attempts
      BY <2>6 DEF n
    <3> QED BY <2>1, <2>6, <3>1, <3>2 DEF CopyOk, Waiting
  <2> QED BY <2>4, <2>5, <2>7 DEF CopyOk
<1>2. ASSUME NEW q \in Requests, Settle(t, q)
      PROVE  CopyOk(flush[t])' /\ \A x \in Reports : Forward(x)
  <2> DEFINE s == [stored |-> "synced", refused |-> "failed"][request[q].stage]
             r == flush[t].current
             n == flush[t].attempts[r]
             R == flush[t].todo \ {r}
  <2>1. /\ flush[t].pc = "sending" /\ r \in flush[t].todo /\ r \in Reports
        /\ n \in 0..MaxAttempts
    BY <1>2, WaitingTab DEF Settle
  <2>2. item[r].status \in Waiting /\ n = item[r].attempts
    BY <2>1 DEF CopyOk
  <2>3. n \in Nat /\ n >= item[r].attempts
    BY <1>t, <2>1, <2>2
  <2>4. s # "none" /\ Put(r, s, n) /\ Continue(t, R) /\ R \in SUBSET (flush[t].todo \ {r})
    BY <1>2 DEF Settle
  <2> HIDE DEF s, r, n, R
  <2>5. \A x \in Reports : Forward(x)
    BY <2>1, <2>2, <2>3, <2>4, PutMovesForward
  <2> QED BY <2>1, <2>4, <2>5, OthersStayCopied
<1>3. ASSUME NEW q \in Requests, Retry(t, q)
      PROVE  CopyOk(flush[t])' /\ \A x \in Reports : Forward(x)
  <2> DEFINE r == flush[t].current
             n == flush[t].attempts[r] + 1
             s == IF n >= MaxAttempts THEN "failed" ELSE "pending"
  <2>1. /\ flush[t].pc = "sending" /\ r \in flush[t].todo /\ r \in Reports
        /\ flush[t].attempts[r] \in 0..MaxAttempts
    BY <1>3, WaitingTab DEF Retry
  <2>2. item[r].status \in Waiting /\ flush[t].attempts[r] = item[r].attempts
    BY <2>1 DEF CopyOk
  <2>3. n \in Nat /\ n >= item[r].attempts
    BY <1>t, <2>1, <2>2
  <2>4. s # "none" /\ Put(r, s, n)
    BY <1>3 DEF Retry
  <2>5. PICK R \in SUBSET (flush[t].todo \ {r}) : Continue(t, R)
    BY <1>3 DEF Retry
  <2> HIDE DEF s, r, n
  <2>6. \A x \in Reports : Forward(x)
    BY <2>1, <2>2, <2>3, <2>4, PutMovesForward
  <2> QED BY <2>1, <2>4, <2>5, <2>6, OthersStayCopied
<1>4. CASE FindSynced(t)
  <2>1. PICK old \in SUBSET {r \in Reports : item[r].status = "synced"} :
          flush' = [flush EXCEPT ![t].pc = "pruning", ![t].todo = old]
    BY <1>4 DEF FindSynced
  <2>2. flush'[t].pc = "pruning" /\ flush'[t].todo = old
    BY <1>t, <2>1 DEF Flushes
  <2>3. UNCHANGED item
    BY <1>4 DEF FindSynced
  <2> QED BY <2>1, <2>2, <2>3, SameRecords DEF CopyOk
<1>5. CASE Prune(t)
  <2>1. /\ item' = [r \in Reports |-> IF r \in flush[t].todo THEN NoRecord ELSE item[r]]
        /\ flush'[t].pc = "idle" /\ flush[t].pc = "pruning"
    BY <1>t, <1>5 DEF Prune, Idle
  <2>2. ASSUME NEW r \in Reports PROVE Forward(r)
    <3>1. CASE r \in flush[t].todo
      <4>1. item[r].status = "synced" /\ item'[r].status = "none"
        BY <2>1, <3>1 DEF CopyOk, NoRecord
      <4> QED BY <4>1 DEF Forward
    <3>2. CASE r \notin flush[t].todo
      <4>1. item'[r] = item[r] /\ item[r].attempts \in Nat
        BY <1>t, <2>1, <3>2 DEF Records
      <4> QED BY <4>1 DEF Forward
    <3> QED BY <3>1, <3>2
  <2> QED BY <2>1, <2>2 DEF CopyOk
<1> QED BY <1>1, <1>2, <1>3, <1>4, <1>5 DEF FlushStep

LEMMA OneTabStep ==
  ASSUME OneTab, IInv, CopyInv, [Next]_vars
  PROVE  CopyInv' /\ \A r \in Reports : Forward(r)
<1>t. /\ item \in [Reports -> Records] /\ flush \in [Tabs -> Flushes]
      /\ MaxAttempts \in Nat
  BY OutboxAssumption DEF OutboxAssumption, IInv, TypeOK
<1>s. ASSUME UNCHANGED <<item, flush>> PROVE CopyInv' /\ \A x \in Reports : Forward(x)
  BY <1>s, SameRecords DEF CopyInv, CopyOk
<1>1. ASSUME NEW r \in Reports, Enqueue(r) PROVE CopyInv' /\ \A x \in Reports : Forward(x)
  <2>1. item[r].status = "none" /\ r \notin saved /\ UNCHANGED flush
    BY <1>1 DEF Enqueue, IInv, RecordOk
  <2>2. \A x \in Reports \ {r} : item'[x] = item[x]
    BY <1>t, <1>1 DEF Enqueue
  <2>3. ASSUME NEW x \in Reports PROVE Forward(x)
    <3>1. CASE x = r
      BY <2>1, <3>1 DEF Forward
    <3>2. CASE x # r
      <4>1. item'[x] = item[x] /\ item[x].attempts \in Nat
        BY <1>t, <2>2, <3>2 DEF Records
      <4> QED BY <4>1 DEF Forward
    <3> QED BY <3>1, <3>2
  <2>4. ASSUME NEW t \in Tabs PROVE CopyOk(flush[t])'
    <3>1. CopyOk(flush[t]) /\ flush[t].todo \subseteq Reports
      BY <1>t DEF CopyInv, Flushes
    <3>2. flush[t].pc \in {"looping", "sending", "pruning"} => r \notin flush[t].todo
      BY <2>1, <3>1 DEF CopyOk, Waiting
    <3> QED BY <2>1, <2>2, <3>1, <3>2 DEF CopyOk
  <2> QED BY <2>3, <2>4 DEF CopyInv
<1>2. ASSUME NEW t \in Tabs, FlushStep(t) PROVE CopyInv' /\ \A x \in Reports : Forward(x)
  <2>1. CopyOk(flush[t])' /\ \A x \in Reports : Forward(x)
    BY <1>2, TabMovesForward DEF CopyInv
  <2>2. \A u \in Tabs : u = t
    BY DEF OneTab
  <2> QED BY <2>1, <2>2 DEF CopyInv
<1>3. ASSUME NEW t \in Tabs, StartFlush(t) \/ CloseTab(t)
      PROVE  CopyInv' /\ \A x \in Reports : Forward(x)
  <2>1. UNCHANGED item
    BY <1>3 DEF StartFlush, CloseTab
  <2>2. CopyOk(flush[t])'
    <3>1. CASE CloseTab(t)
      <4>1. flush'[t].pc = "idle"
        BY <1>t, <3>1 DEF CloseTab, Idle
      <4> QED BY <4>1 DEF CopyOk
    <3>2. CASE StartFlush(t)
      <4> DEFINE waiting == {r \in Reports : item[r].status \in Waiting}
                 a == [r \in Reports |-> IF r \in waiting THEN item[r].attempts ELSE 0]
      <4>1. flush'[t] = [pc |-> "looping", todo |-> waiting, current |-> Null, attempts |-> a]
        BY <1>t, <3>2 DEF StartFlush
      <4>2. \A r \in waiting : item[r].status \in Waiting /\ a[r] = item[r].attempts
        OBVIOUS
      <4> HIDE DEF waiting, a
      <4> QED BY <2>1, <4>1, <4>2 DEF CopyOk
    <3> QED BY <1>3, <3>1, <3>2
  <2>3. \A u \in Tabs : u = t
    BY DEF OneTab
  <2> QED BY <2>1, <2>2, <2>3, SameRecords DEF CopyInv
<1>4. ASSUME (\E q \in Requests : ServerStep(q)) \/ Forget \/ UNCHANGED vars
      PROVE  CopyInv' /\ \A x \in Reports : Forward(x)
  <2>1. UNCHANGED <<item, flush>>
    BY <1>4 DEF ServerStep, Identify, Refuse, Fail, LookUp, Insert, InsertOrphan, ReadAgain,
       Answer, Forget, phoneVars, vars
  <2> QED BY <1>s, <2>1
<1> QED BY <1>1, <1>2, <1>3, <1>4 DEF Next

\* In one tab a report is settled once and for all, and every retry brings it
\* nearer to MAX_ATTEMPTS: the outbox cannot try for ever.
RecordsMoveForward == [][\A r \in Reports : Forward(r)]_vars

\* Closed tabs, lost answers and erased reporters change nothing about it.
THEOREM OneTabMovesForward ==
  ASSUME OneTab
  PROVE  Spec => RecordsMoveForward
<1>1. Init => CopyInv
  BY DEF Init, CopyInv, CopyOk, Idle
<1>2. IInv /\ CopyInv /\ [Next]_vars => CopyInv'
  BY OneTabStep
<1>3. IInv /\ CopyInv /\ [Next]_vars => [\A r \in Reports : Forward(r)]_vars
  BY OneTabStep
<1> QED BY <1>1, <1>2, <1>3, OutboxInvariance, PTL DEF Spec, RecordsMoveForward
=============================================================================
