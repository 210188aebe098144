------------------------- MODULE ReporterSyncProofs -------------------------
(***************************************************************************)
(* What holds of ReporterSync for any number of reports, of calls under    *)
(* way and of attempts.                                                    *)
(***************************************************************************)
EXTENDS ReporterSync, FiniteSetTheorems, TLAPS

(***************************************************************************)
(* A report that waits untried is on its way: some flush still has it      *)
(* before it, or the save that stored it will flush when it has shown the  *)
(* counts.                                                                 *)
(***************************************************************************)
Carries(m, r) ==
  \/ m.pc = "flushing" /\ r \in m.todo
  \/ m.pc \in {"reading", "read"} /\ m.then = "sync" /\ m.report = r

OnItsWay(r) == \E c \in Calls : Carries(call[c], r)

CarriedInv ==
  page = "listening" /\ nav /\ online /\ faults = 0 => \A r \in Untried : OnItsWay(r)

\* A report that waits has attempts left: it is tried again by the next flush, or
\* was given up and is shown as failed; so has every copy a flush holds, whatever
\* became of the record since.
WaitsWithBudget == \A r \in Reports : status[r] = "pending" => attempts[r] < MaxAttempts

HoldsBudget(m) ==
  /\ \A r \in m.todo : m.copy[r] < MaxAttempts
  /\ m.pc = "flushing" => m.report = Null \/ m.report \in m.todo
CopiesHaveBudget == \A c \in Calls : HoldsBudget(call[c])

TakenWasSaved == \A c \in Calls : \A r \in call[c].todo : status[r] # "none"
NewIsUntried == \A r \in Reports : status[r] = "none" => attempts[r] = 0

BInv == WaitsWithBudget /\ CopiesHaveBudget /\ TakenWasSaved /\ NewIsUntried

YInv == TypeOK /\ CarriedInv

-----------------------------------------------------------------------------
(* Calls *)

LEMMA WaitingReports == Waiting \subseteq Reports /\ Failed \subseteq Reports
BY DEF Waiting, Failed

LEMMA CountsType == Counts \in [pending: Nat, failed: Nat]
<1>1. Cardinality(Waiting) \in Nat
  <2>1. IsFiniteSet(Waiting)
    BY WaitingReports, SyncAssumption, FS_Subset DEF SyncAssumption
  <2> QED BY <2>1, FS_CardinalityType
<1>2. Cardinality(Failed) \in Nat
  <2>1. IsFiniteSet(Failed)
    BY WaitingReports, SyncAssumption, FS_Subset DEF SyncAssumption
  <2> QED BY <2>1, FS_CardinalityType
<1> QED BY <1>1, <1>2 DEF Counts

LEMMA NoCountsType == NoCounts \in [pending: Nat, failed: Nat]
BY DEF NoCounts

LEMMA IdleType == Idle \in Chains /\ Idle.pc = "idle"
BY NoCountsType DEF Idle, Untaken, Chains

LEMMA RefreshingType ==
  ASSUME NEW then \in {"listen", "sync", "end"}, NEW r \in Reports \union {Null}
  PROVE  /\ Refreshing(then, r) \in Chains
         /\ Refreshing(then, r).pc = "reading"
         /\ Refreshing(then, r).then = then /\ Refreshing(then, r).report = r
BY NoCountsType DEF Refreshing, Idle, Untaken, Chains

LEMMA FlushingType ==
  ASSUME TypeOK, NEW connected \in BOOLEAN
  PROVE  /\ Flushing(connected) \in Chains
         /\ Flushing(connected).pc = "flushing"
         /\ Flushing(connected).report = Null
         /\ Flushing(connected).todo \subseteq Waiting
         /\ connected => Flushing(connected).todo = Waiting
         /\ \A r \in Flushing(connected).todo : Flushing(connected).copy[r] = attempts[r]
<1>1. CASE ~connected
  <2>1. Flushing(connected) = [Idle EXCEPT !.pc = "flushing"]
    BY <1>1 DEF Flushing
  <2> QED BY <1>1, <2>1, NoCountsType DEF Idle, Untaken, Chains
<1>2. CASE connected
  <2> DEFINE copy == [r \in Reports |-> IF r \in Waiting THEN attempts[r] ELSE 0]
  <2>1. copy \in [Reports -> Nat] /\ \A r \in Waiting : copy[r] = attempts[r]
    BY SyncAssumption, WaitingReports DEF SyncAssumption, TypeOK
  <2>2. Flushing(connected) = [Idle EXCEPT !.pc = "flushing", !.todo = Waiting, !.copy = copy]
    BY <1>2 DEF Flushing
  <2> HIDE DEF copy
  <2>3. Waiting \in SUBSET Reports
    BY WaitingReports
  <2> QED BY <2>1, <2>2, <2>3, NoCountsType DEF Idle, Chains
<1> QED BY <1>1, <1>2

\* One call moves: whoever carried a report still does, unless it was this one.
LEMMA OneCall ==
  ASSUME TypeOK, NEW c \in Calls, NEW m \in Chains, call' = [call EXCEPT ![c] = m]
  PROVE  /\ call' \in [Calls -> Chains]
         /\ \A r : Carries(m, r) => OnItsWay(r)'
         /\ \A r : OnItsWay(r) /\ ~Carries(call[c], r) => OnItsWay(r)'
<1>1. call'[c] = m /\ \A d \in Calls \ {c} : call'[d] = call[d]
  BY DEF TypeOK
<1>2. \A r : Carries(m, r) => OnItsWay(r)'
  BY <1>1 DEF OnItsWay, Carries
<1>3. ASSUME NEW r, OnItsWay(r), ~Carries(call[c], r) PROVE OnItsWay(r)'
  <2>1. PICK d \in Calls : Carries(call[d], r)
    BY <1>3 DEF OnItsWay
  <2>2. d # c /\ call'[d] = call[d]
    BY <1>1, <1>3, <2>1
  <2> QED BY <2>1, <2>2 DEF OnItsWay, Carries
<1> QED BY <1>2, <1>3 DEF TypeOK

\* A flush that begins while connected has every report that waits before it.
LEMMA FlushCarries ==
  ASSUME TypeOK, NEW c \in Calls, nav' \in BOOLEAN, status' = status,
         attempts' = attempts, call' = [call EXCEPT ![c] = Flushing(nav')]
  PROVE  /\ call' \in [Calls -> Chains]
         /\ nav' => \A r \in Untried' : OnItsWay(r)'
<1> DEFINE m == Flushing(nav')
<1>1. m \in Chains /\ m.pc = "flushing" /\ (nav' => m.todo = Waiting)
  BY FlushingType
<1>2. call' = [call EXCEPT ![c] = m]
  OBVIOUS
<1>3. Untried' \subseteq Waiting
  BY DEF Untried, Waiting
<1>4. nav' => \A r \in Untried' : Carries(m, r)
  BY <1>1, <1>3 DEF Carries
<1> HIDE DEF m
<1> QED BY <1>1, <1>2, <1>4, OneCall

-----------------------------------------------------------------------------
(* Steps *)

LEMMA YInit == Init => YInv
<1> SUFFICES ASSUME Init PROVE YInv
  OBVIOUS
<1>1. 0 \in 0..MaxAttempts /\ 0 \in 0..MaxFaults
  BY SyncAssumption DEF SyncAssumption
<1>2. call \in [Calls -> Chains] /\ NoCounts \in [pending: Nat, failed: Nat]
  BY IdleType DEF Init, NoCounts
<1>3. TypeOK
  BY <1>1, <1>2 DEF Init, TypeOK
<1> QED BY <1>3 DEF Init, YInv, CarriedInv

LEMMA OpenStep == YInv /\ Open => YInv'
<1> SUFFICES ASSUME YInv, Open PROVE YInv'
  OBVIOUS
<1>1. NoCounts \in [pending: Nat, failed: Nat]
  BY DEF NoCounts
<1>2. TypeOK'
  BY <1>1 DEF Open, YInv, TypeOK, outboxVars
<1> QED BY <1>2 DEF Open, YInv, CarriedInv

LEMMA LoadedStep == ASSUME YInv, NEW c \in Calls, Loaded(c) PROVE YInv'
<1>1. Refreshing("listen", Null) \in Chains
  BY RefreshingType
<1>2. TypeOK'
  BY <1>1 DEF Loaded, YInv, TypeOK, outboxVars
<1> QED BY <1>2 DEF Loaded, YInv, CarriedInv

LEMMA CloseStep == YInv /\ Close => YInv'
<1> SUFFICES ASSUME YInv, Close PROVE YInv'
  OBVIOUS
<1>1. TypeOK'
  BY IdleType DEF Close, YInv, TypeOK, outboxVars
<1> QED BY <1>1 DEF Close, YInv, CarriedInv

LEMMA GoOfflineStep == YInv /\ GoOffline => YInv'
<1> SUFFICES ASSUME YInv, GoOffline PROVE YInv'
  OBVIOUS
<1>1. online' \in BOOLEAN
  BY DEF GoOffline, YInv, TypeOK
<1>2. TypeOK'
  BY <1>1 DEF GoOffline, YInv, TypeOK, outboxVars
<1> QED BY <1>2 DEF GoOffline, YInv, CarriedInv

LEMMA GoOnlineStep == ASSUME YInv, NEW c \in Calls, GoOnline(c) PROVE YInv'
<1>1. /\ nav' = TRUE /\ status' = status /\ attempts' = attempts
      /\ page' = page /\ queue' = queue /\ tagged' = tagged /\ faults' = faults
  BY DEF GoOnline, outboxVars
<1>2. CASE page = "listening"
  <2>1. online' = TRUE /\ call' = [call EXCEPT ![c] = Flushing(nav')]
    BY <1>2 DEF GoOnline, Sync
  <2>2. call' \in [Calls -> Chains] /\ \A r \in Untried' : OnItsWay(r)'
    BY <1>1, <2>1, FlushCarries DEF YInv
  <2>3. TypeOK'
    BY <1>1, <2>1, <2>2 DEF YInv, TypeOK
  <2> QED BY <2>2, <2>3 DEF YInv, CarriedInv
<1>3. CASE page # "listening"
  <2>1. TypeOK'
    BY <1>1, <1>3 DEF GoOnline, YInv, TypeOK
  <2> QED BY <1>1, <1>3, <2>1 DEF YInv, CarriedInv
<1> QED BY <1>2, <1>3

LEMMA WakeStep == ASSUME YInv, NEW c \in Calls, Return(c) \/ Wake(c) PROVE YInv'
<1>1. /\ nav /\ nav' = nav /\ status' = status /\ attempts' = attempts /\ online' = online
      /\ page' = page /\ queue' = queue /\ tagged' \in BOOLEAN /\ faults' = faults
  BY DEF Return, Wake, outboxVars, pageVars, YInv, TypeOK
<1>2. CASE page = "listening"
  <2>1. call' = [call EXCEPT ![c] = Flushing(nav')]
    BY <1>2 DEF Return, Wake, Sync
  <2>2. nav' \in BOOLEAN
    BY <1>1 DEF YInv, TypeOK
  <2>3. call' \in [Calls -> Chains] /\ \A r \in Untried' : OnItsWay(r)'
    BY <1>1, <2>1, <2>2, FlushCarries DEF YInv
  <2>4. TypeOK'
    BY <1>1, <2>3 DEF YInv, TypeOK
  <2> QED BY <2>3, <2>4 DEF YInv, CarriedInv
<1>3. CASE page # "listening"
  <2>1. call' = call
    BY <1>3 DEF Return, Wake
  <2>2. TypeOK'
    BY <1>1, <2>1 DEF YInv, TypeOK
  <2> QED BY <1>1, <1>3, <2>2 DEF YInv, CarriedInv
<1> QED BY <1>2, <1>3

LEMMA SaveStep == ASSUME YInv, NEW c \in Calls, NEW r \in Reports, Save(c, r) PROVE YInv'
<1> DEFINE m == Refreshing("sync", r)
<1>1. m \in Chains /\ m.pc = "reading" /\ m.then = "sync" /\ m.report = r
  BY RefreshingType
<1>2. call' = [call EXCEPT ![c] = m]
  BY DEF Save
<1> HIDE DEF m
<1>3. /\ page' = page /\ nav' = nav /\ online' = online /\ faults' = faults
      /\ attempts' = attempts /\ queue' = queue /\ tagged' = tagged
      /\ status' = [status EXCEPT ![r] = "pending"]
  BY DEF Save, pageVars
<1>4. TypeOK'
  BY <1>1, <1>2, <1>3, OneCall DEF YInv, TypeOK
<1>5. Untried' \subseteq Untried \union {r}
  BY <1>3 DEF Untried, Waiting, YInv, TypeOK
<1>6. OnItsWay(r)'
  BY <1>1, <1>2, OneCall DEF YInv, Carries
<1>7. \A x : ~Carries(call[c], x)
  BY DEF Save, Free, Carries
<1>8. CarriedInv'
  BY <1>1, <1>2, <1>3, <1>5, <1>6, <1>7, OneCall DEF YInv, CarriedInv
<1> QED BY <1>4, <1>8 DEF YInv

\* A flush puts the copy of a record back before it sends it.
LEMMA TakeStep ==
  ASSUME YInv, BInv, NEW c \in Calls, NEW r \in Reports, Take(c, r) PROVE YInv'
<1>1. /\ page' = page /\ nav' = nav /\ online' = online /\ faults' = faults
      /\ queue' = queue /\ tagged' = tagged /\ call[c].pc = "flushing"
      /\ call[c] \in Chains /\ r \in call[c].todo
  BY DEF Take, pageVars, YInv, TypeOK
<1> DEFINE m == [call[c] EXCEPT !.report = r]
<1>2. m \in Chains /\ m.pc = "flushing" /\ m.todo = call[c].todo
  BY <1>1 DEF Chains
<1>3. call' = [call EXCEPT ![c] = m]
  BY DEF Take
<1> HIDE DEF m
<1>4. PICK n \in 0..MaxAttempts : n = call[c].copy[r]
  <2>1. call[c].copy[r] \in Nat /\ call[c].copy[r] < MaxAttempts
    BY <1>1 DEF Chains, BInv, CopiesHaveBudget, HoldsBudget
  <2> QED BY <2>1, SyncAssumption DEF SyncAssumption
<1>5. /\ status' = [status EXCEPT ![r] = "pending"]
      /\ attempts' = [attempts EXCEPT ![r] = n]
  BY <1>4 DEF Take
<1>6. TypeOK'
  BY <1>1, <1>2, <1>3, <1>5, OneCall DEF YInv, TypeOK
<1>7. Untried' \subseteq Untried \union {r}
  BY <1>5 DEF Untried, Waiting, YInv, TypeOK
<1>8. OnItsWay(r)'
  BY <1>1, <1>2, <1>3, OneCall DEF YInv, Carries
<1>9. ASSUME NEW x, OnItsWay(x) PROVE OnItsWay(x)'
  <2>1. Carries(call[c], x) => Carries(m, x)
    BY <1>1, <1>2 DEF Carries
  <2> QED BY <1>2, <1>3, <1>9, <2>1, OneCall DEF YInv
<1>10. CarriedInv'
  BY <1>1, <1>7, <1>8, <1>9 DEF YInv, CarriedInv
<1> QED BY <1>6, <1>10 DEF YInv

\* What a flush puts back when it is done with a report: the attempts it read, or one
\* more, and nothing that waits without attempts left.
LEMMA PuttingBack ==
  ASSUME TypeOK, BInv, NEW c \in Calls, NEW r \in Reports, Answered(c, r) \/ Unanswered(c, r)
  PROVE  \E s \in {"pending", "synced", "failed"}, n \in 0..MaxAttempts,
            D \in SUBSET (call[c].todo \ {r}) :
           /\ PutBack(c, r, s, n, D)
           /\ s = "pending" => n # 0 /\ n < MaxAttempts
           /\ nav => D = call[c].todo \ {r}
<1>1. call[c] \in Chains /\ call[c].pc = "flushing" /\ r = call[c].report
  BY DEF Answered, Unanswered, Sending, TypeOK
<1>2. r # Null /\ MaxAttempts \in Nat \ {0}
  BY SyncAssumption DEF SyncAssumption
<1>3. call[c].copy[r] \in Nat /\ call[c].copy[r] < MaxAttempts
  BY <1>1, <1>2 DEF Chains, BInv, CopiesHaveBudget, HoldsBudget
<1>4. CASE Answered(c, r)
  <2>1. PICK s \in {"synced", "failed"} :
          PutBack(c, r, s, call[c].copy[r], call[c].todo \ {r})
    BY <1>4 DEF Answered
  <2>2. call[c].copy[r] \in 0..MaxAttempts
    BY <1>2, <1>3
  <2> QED BY <2>1, <2>2
<1>5. CASE Unanswered(c, r)
  <2> DEFINE n == call[c].copy[r] + 1
             s == IF n >= MaxAttempts THEN "failed" ELSE "pending"
             D == IF nav THEN call[c].todo \ {r} ELSE {}
  <2>1. PutBack(c, r, s, n, D)
    BY <1>5 DEF Unanswered
  <2>2. n \in 0..MaxAttempts /\ n # 0
    BY <1>2, <1>3
  <2>3. s \in {"pending", "synced", "failed"} /\ (s = "pending" => n < MaxAttempts)
    BY <1>2, <1>3
  <2>4. D \in SUBSET (call[c].todo \ {r}) /\ (nav => D = call[c].todo \ {r})
    OBVIOUS
  <2> HIDE DEF n, s, D
  <2> QED BY <2>1, <2>2, <2>3, <2>4
<1> QED BY <1>4, <1>5

\* What the call that put a report back holds then.
LEMMA PutBackHolds ==
  ASSUME TypeOK, NEW c \in Calls, NEW r, NEW s, NEW n, NEW D \in SUBSET call[c].todo,
         PutBack(c, r, s, n, D)
  PROVE  \E m \in Chains :
           /\ call' = [call EXCEPT ![c] = m]
           /\ m.pc = call[c].pc /\ m.todo = D /\ m.report = Null
           /\ \A x \in D : m.copy[x] = call[c].copy[x]
<1> DEFINE copy == [x \in Reports |-> IF x \in D THEN call[c].copy[x] ELSE 0]
           m == [call[c] EXCEPT !.todo = D, !.report = Null, !.copy = copy]
<1>1. call[c] \in Chains /\ D \in SUBSET Reports
  BY DEF TypeOK, Chains
<1>2. copy \in [Reports -> Nat] /\ \A x \in D : copy[x] = call[c].copy[x]
  BY <1>1 DEF Chains
<1>3. call' = [call EXCEPT ![c] = m]
  BY DEF PutBack, TypeOK
<1> HIDE DEF copy
<1>4. /\ m \in Chains /\ m.pc = call[c].pc /\ m.todo = D /\ m.report = Null
      /\ m.copy = copy
  BY <1>1, <1>2 DEF Chains
<1> HIDE DEF m
<1> QED BY <1>2, <1>3, <1>4

\* A report of a flush has been sent, or not.
LEMMA SentStep ==
  ASSUME YInv, BInv, NEW c \in Calls, NEW r \in Reports, Answered(c, r) \/ Unanswered(c, r)
  PROVE  YInv'
<1>0. TypeOK /\ call[c] \in Chains /\ call[c].pc = "flushing"
  BY DEF Answered, Unanswered, Sending, YInv, TypeOK
<1>1. PICK s \in {"pending", "synced", "failed"}, n \in 0..MaxAttempts,
           D \in SUBSET (call[c].todo \ {r}) :
        /\ PutBack(c, r, s, n, D)
        /\ s = "pending" => n # 0 /\ n < MaxAttempts
        /\ nav => D = call[c].todo \ {r}
  BY <1>0, PuttingBack
<1>2. /\ page' = page /\ nav' = nav /\ online' = online /\ faults' = faults
      /\ queue' = queue /\ tagged' = tagged
      /\ status' = [status EXCEPT ![r] = s] /\ attempts' = [attempts EXCEPT ![r] = n]
  BY <1>1 DEF PutBack, pageVars
<1>3. PICK m \in Chains : /\ call' = [call EXCEPT ![c] = m]
                          /\ m.pc = "flushing" /\ m.todo = D
  <2>1. D \in SUBSET call[c].todo
    BY <1>1
  <2> QED BY <1>0, <1>1, <2>1, PutBackHolds
<1>6. TypeOK'
  BY <1>2, <1>3, OneCall DEF YInv, TypeOK
<1>7. Untried' \subseteq Untried \ {r}
  BY <1>1, <1>2 DEF Untried, Waiting, YInv, TypeOK
<1>8. ASSUME nav, NEW x \in Untried', OnItsWay(x) PROVE OnItsWay(x)'
  <2>1. x # r
    BY <1>7
  <2>2. Carries(call[c], x) => Carries(m, x)
    BY <1>0, <1>1, <1>3, <1>8, <2>1 DEF Carries
  <2> QED BY <1>3, <1>8, <2>2, OneCall DEF YInv
<1>9. CarriedInv'
  BY <1>2, <1>7, <1>8 DEF YInv, CarriedInv
<1> QED BY <1>6, <1>9 DEF YInv

\* The loop is over, or the counts are read.
LEMMA ReadStep == ASSUME YInv, NEW c \in Calls, Flushed(c) \/ Read(c) PROVE YInv'
<1>1. /\ page' = page /\ nav' = nav /\ online' = online /\ faults' = faults
      /\ queue' = queue /\ tagged' = tagged /\ status' = status /\ attempts' = attempts
      /\ call[c] \in Chains
  BY DEF Flushed, Read, pageVars, outboxVars, YInv, TypeOK
<1>2. PICK m \in Chains : /\ call' = [call EXCEPT ![c] = m]
                          /\ \A x : Carries(call[c], x) => Carries(m, x)
  <2>1. CASE Flushed(c)
    <3>1. Refreshing("end", Null) \in Chains
      BY RefreshingType
    <3>2. \A x : ~Carries(call[c], x)
      BY <2>1 DEF Flushed, Carries
    <3> QED BY <2>1, <3>1, <3>2 DEF Flushed
  <2>2. CASE Read(c)
    <3> DEFINE m == [call[c] EXCEPT !.pc = "read", !.seen = Counts]
    <3>1. m \in Chains /\ m.pc = "read" /\ m.then = call[c].then /\ m.report = call[c].report
      BY <1>1, CountsType DEF Chains
    <3>2. call' = [call EXCEPT ![c] = m]
      BY <2>2 DEF Read
    <3>3. call[c].pc = "reading"
      BY <2>2 DEF Read
    <3> HIDE DEF m
    <3> QED BY <3>1, <3>2, <3>3 DEF Carries
  <2> QED BY <2>1, <2>2
<1>3. TypeOK'
  BY <1>1, <1>2, OneCall DEF YInv, TypeOK
<1>4. Untried' = Untried
  BY <1>1 DEF Untried, Waiting
<1>5. \A x : OnItsWay(x) => OnItsWay(x)'
  BY <1>2, OneCall DEF YInv
<1> QED BY <1>1, <1>3, <1>4, <1>5 DEF YInv, CarriedInv

LEMMA ShowStep == ASSUME YInv, NEW c \in Calls, Show(c) PROVE YInv'
<1>1. /\ nav' = nav /\ online' = online /\ faults' = faults
      /\ status' = status /\ attempts' = attempts /\ nav \in BOOLEAN
      /\ call[c] \in Chains /\ call[c].pc = "read" /\ queue' = call[c].seen
  BY DEF Show, outboxVars, YInv, TypeOK
<1> DEFINE sends == \/ call[c].then = "listen" /\ online
                    \/ call[c].then = "sync" /\ nav
<1>2. call' = [call EXCEPT ![c] = IF sends THEN Flushing(nav) ELSE Idle]
      /\ page' = (IF call[c].then = "listen" THEN "listening" ELSE page)
      /\ tagged' \in BOOLEAN
  BY DEF Show, YInv, TypeOK
<1>3. page' \in {"closed", "loading", "counting", "listening", "deaf"}
  BY <1>2 DEF YInv, TypeOK
<1>4. call' \in [Calls -> Chains]
  BY <1>1, <1>2, FlushingType, IdleType DEF YInv, TypeOK
<1>5. queue' \in [pending: Nat, failed: Nat]
  BY <1>1 DEF Chains
<1>6. CASE sends
  <2>1. nav => \A r \in Untried' : OnItsWay(r)'
    BY <1>1, <1>2, <1>6, FlushCarries DEF YInv
  <2>2. TypeOK'
    BY <1>1, <1>2, <1>3, <1>4, <1>5 DEF YInv, TypeOK
  <2> QED BY <1>1, <2>1, <2>2 DEF YInv, CarriedInv
<1>7. CASE ~sends
  <2>1. call' = [call EXCEPT ![c] = Idle]
    BY <1>2, <1>7
  <2>2. page' = "listening" /\ nav /\ online => page = "listening" /\ call[c].then # "sync"
    BY <1>2, <1>7
  <2>3. Untried' = Untried
    BY <1>1 DEF Untried, Waiting
  <2>4. call[c].then # "sync" => \A x : ~Carries(call[c], x)
    BY <1>1 DEF Carries
  <2>5. call[c].then # "sync" => \A x : OnItsWay(x) => OnItsWay(x)'
    BY <2>1, <2>4, IdleType, OneCall DEF YInv
  <2>6. CarriedInv'
    BY <1>1, <2>2, <2>3, <2>5 DEF YInv, CarriedInv
  <2>7. TypeOK'
    BY <1>1, <1>2, <1>3, <1>4, <1>5 DEF YInv, TypeOK
  <2> QED BY <2>6, <2>7 DEF YInv
<1> QED BY <1>6, <1>7

LEMMA BreakStep == ASSUME YInv, NEW c \in Calls, Break(c) PROVE YInv'
<1>1. faults' \in 0..MaxFaults /\ faults' # 0
  BY SyncAssumption DEF SyncAssumption, Break, YInv, TypeOK
<1>2. page' \in {"closed", "loading", "counting", "listening", "deaf"}
  BY DEF Break, YInv, TypeOK
<1>3. TypeOK'
  BY <1>1, <1>2, IdleType DEF Break, YInv, TypeOK, outboxVars
<1> QED BY <1>1, <1>3 DEF YInv, CarriedInv

LEMMA ElsewhereStep == ASSUME YInv, NEW r \in Reports, SentElsewhere(r) PROVE YInv'
<1>1. TypeOK'
  BY DEF SentElsewhere, YInv, TypeOK, pageVars
<1>2. Untried' \subseteq Untried
  BY DEF SentElsewhere, Untried, Waiting, YInv, TypeOK
<1>3. \A x : OnItsWay(x) => OnItsWay(x)'
  BY DEF SentElsewhere, OnItsWay, Carries
<1> QED BY <1>1, <1>2, <1>3 DEF SentElsewhere, YInv, CarriedInv, pageVars

LEMMA YNext == YInv /\ BInv /\ [Next]_vars => YInv'
<1> SUFFICES ASSUME YInv, BInv, [Next]_vars PROVE YInv'
  OBVIOUS
<1>1. CASE Open \/ Close \/ GoOffline
  BY <1>1, OpenStep, CloseStep, GoOfflineStep
<1>2. ASSUME NEW c \in Calls, Loaded(c) \/ GoOnline(c) \/ Return(c) \/ Wake(c) PROVE YInv'
  BY <1>2, LoadedStep, GoOnlineStep, WakeStep
<1>3. ASSUME NEW c \in Calls, Steps(c) PROVE YInv'
  BY <1>3, TakeStep, SentStep, ReadStep, ShowStep DEF Steps
<1>4. ASSUME NEW c \in Calls, NEW r \in Reports, Save(c, r) PROVE YInv'
  BY <1>4, SaveStep
<1>5. ASSUME NEW c \in Calls, Break(c) PROVE YInv'
  BY <1>5, BreakStep
<1>6. ASSUME NEW r \in Reports, SentElsewhere(r) PROVE YInv'
  BY <1>6, ElsewhereStep
<1>7. CASE UNCHANGED vars
  BY <1>7 DEF vars, YInv, TypeOK, CarriedInv, Untried, Waiting, OnItsWay, Carries
<1> QED BY <1>1, <1>2, <1>3, <1>4, <1>5, <1>6, <1>7 DEF Next

-----------------------------------------------------------------------------
(* What is left to try *)

LEMMA BInit == Init => BInv
<1> SUFFICES ASSUME Init PROVE BInv
  OBVIOUS
<1>1. \A c \in Calls : call[c].todo = {} /\ call[c].pc = "idle"
  BY DEF Init, Idle
<1> QED BY <1>1 DEF Init, BInv, WaitsWithBudget, CopiesHaveBudget, HoldsBudget, TakenWasSaved,
                    NewIsUntried

\* The records stay as they are; a call takes up what waits, or puts reports down.
LEMMA TakingStep ==
  ASSUME TypeOK, BInv, UNCHANGED outboxVars,
         \A c \in Calls : /\ call'[c].todo \subseteq call[c].todo \union Waiting
                          /\ HoldsBudget(call'[c])
  PROVE  BInv'
<1>1. \A r \in Waiting : status[r] # "none"
  BY DEF Waiting
<1>2. CopiesHaveBudget'
  BY DEF CopiesHaveBudget, HoldsBudget
<1> QED BY <1>1, <1>2 DEF BInv, WaitsWithBudget, TakenWasSaved, NewIsUntried, outboxVars

\* What a call holds when it begins to refresh, to flush, or ends.
LEMMA NewTodo ==
  ASSUME TypeOK, WaitsWithBudget
  PROVE  /\ Idle.todo = {} /\ HoldsBudget(Idle)
         /\ \A then, r : Refreshing(then, r).todo = {} /\ HoldsBudget(Refreshing(then, r))
         /\ \A connected \in BOOLEAN : /\ Flushing(connected).todo \subseteq Waiting
                                       /\ HoldsBudget(Flushing(connected))
<1>1. Idle.todo = {} /\ HoldsBudget(Idle)
  BY DEF Idle, HoldsBudget
<1>2. \A then, r : Refreshing(then, r).todo = {} /\ HoldsBudget(Refreshing(then, r))
  BY DEF Refreshing, Idle, HoldsBudget
<1>3. ASSUME NEW connected \in BOOLEAN
      PROVE  /\ Flushing(connected).todo \subseteq Waiting
             /\ HoldsBudget(Flushing(connected))
  <2>1. /\ Flushing(connected).todo \subseteq Waiting
        /\ Flushing(connected).report = Null
        /\ \A r \in Flushing(connected).todo : Flushing(connected).copy[r] = attempts[r]
    BY FlushingType
  <2>2. \A r \in Waiting : attempts[r] < MaxAttempts
    BY DEF Waiting, WaitsWithBudget
  <2> QED BY <2>1, <2>2 DEF HoldsBudget
<1> QED BY <1>1, <1>2, <1>3

LEMMA OneCallTakes ==
  ASSUME TypeOK, BInv, NEW c \in Calls, NEW m, m.todo \subseteq call[c].todo \union Waiting,
         HoldsBudget(m), call' = [call EXCEPT ![c] = m], UNCHANGED outboxVars
  PROVE  BInv'
<1>1. \A d \in Calls : call'[d].todo \subseteq call[d].todo \union Waiting
  BY DEF TypeOK
<1>2. \A d \in Calls : HoldsBudget(call'[d])
  BY DEF TypeOK, BInv, CopiesHaveBudget
<1> QED BY <1>1, <1>2, TakingStep

LEMMA SameCalls ==
  ASSUME TypeOK, BInv, UNCHANGED outboxVars, call' = call PROVE BInv'
BY TakingStep DEF BInv, CopiesHaveBudget

LEMMA TriggerStep ==
  ASSUME TypeOK, BInv, NEW c \in Calls,
         Loaded(c) \/ GoOnline(c) \/ Return(c) \/ Wake(c) \/ Flushed(c) \/ Show(c) \/ Break(c)
  PROVE  BInv'
<1>1. UNCHANGED outboxVars
  BY DEF Loaded, GoOnline, Return, Wake, Flushed, Show, Break
<1>2. CASE call' = call
  BY <1>1, <1>2, SameCalls
<1>3. CASE call' # call
  <2>1. nav \in BOOLEAN /\ WaitsWithBudget
    BY DEF TypeOK, BInv
  <2>2. \/ call' = [call EXCEPT ![c] = Idle]
        \/ \E then, r : call' = [call EXCEPT ![c] = Refreshing(then, r)]
        \/ \E connected \in BOOLEAN : call' = [call EXCEPT ![c] = Flushing(connected)]
    BY <1>3, <2>1 DEF Loaded, GoOnline, Return, Wake, Flushed, Show, Break, Sync
  <2>3. PICK m : /\ m.todo \subseteq Waiting /\ HoldsBudget(m)
                 /\ call' = [call EXCEPT ![c] = m]
    BY <2>1, <2>2, NewTodo
  <2> QED BY <1>1, <2>3, OneCallTakes
<1> QED BY <1>2, <1>3

LEMMA SaveBudget ==
  ASSUME TypeOK, BInv, NEW c \in Calls, NEW r \in Reports, Save(c, r) PROVE BInv'
<1>1. status' = [status EXCEPT ![r] = "pending"] /\ attempts' = attempts /\ attempts[r] = 0
  BY DEF Save, BInv, NewIsUntried
<1>2. call' = [call EXCEPT ![c] = Refreshing("sync", r)]
  BY DEF Save
<1>3. 0 < MaxAttempts
  BY SyncAssumption DEF SyncAssumption
<1>4. WaitsWithBudget' /\ NewIsUntried'
  BY <1>1, <1>3 DEF BInv, WaitsWithBudget, NewIsUntried, TypeOK
<1>5. /\ \A d \in Calls : call'[d].todo \subseteq call[d].todo
      /\ \A d \in Calls : HoldsBudget(call'[d])
  BY <1>2, NewTodo DEF TypeOK, BInv, CopiesHaveBudget
<1>6. TakenWasSaved'
  BY <1>1, <1>5 DEF BInv, TakenWasSaved, TypeOK
<1>7. CopiesHaveBudget'
  BY <1>5 DEF CopiesHaveBudget, HoldsBudget
<1> QED BY <1>4, <1>6, <1>7 DEF BInv

\* One record is put back by the call that holds it; another call may hold it too, and
\* put its own copy back later.
LEMMA RecordPut ==
  ASSUME TypeOK, BInv, NEW c \in Calls, NEW r \in Reports,
         NEW s \in {"pending", "synced", "failed"}, NEW n \in 0..MaxAttempts,
         s = "pending" => n < MaxAttempts,
         status' = [status EXCEPT ![r] = s], attempts' = [attempts EXCEPT ![r] = n],
         NEW m, m.todo \subseteq call[c].todo, HoldsBudget(m), call' = [call EXCEPT ![c] = m]
  PROVE  BInv'
<1>1. /\ status'[r] = s /\ attempts'[r] = n
      /\ \A x \in Reports \ {r} : status'[x] = status[x] /\ attempts'[x] = attempts[x]
  BY DEF TypeOK
<1>2. WaitsWithBudget' /\ NewIsUntried'
  BY <1>1 DEF BInv, WaitsWithBudget, NewIsUntried
<1>3. /\ \A d \in Calls : call'[d].todo \subseteq call[d].todo
      /\ \A d \in Calls : HoldsBudget(call'[d])
  BY DEF TypeOK, BInv, CopiesHaveBudget
<1>4. CopiesHaveBudget'
  BY <1>3 DEF CopiesHaveBudget, HoldsBudget
<1>5. TakenWasSaved'
  <2> SUFFICES ASSUME NEW d \in Calls, NEW x \in call'[d].todo PROVE status'[x] # "none"
    BY DEF TakenWasSaved
  <2>1. x \in call[d].todo /\ x \in Reports
    BY <1>3 DEF TypeOK, Chains
  <2> QED BY <1>1, <2>1 DEF BInv, TakenWasSaved
<1> QED BY <1>2, <1>4, <1>5 DEF BInv

LEMMA TakeBudget ==
  ASSUME TypeOK, BInv, NEW c \in Calls, NEW r \in Reports, Take(c, r) PROVE BInv'
<1>1. call[c] \in Chains /\ r \in call[c].todo /\ HoldsBudget(call[c])
  BY DEF Take, TypeOK, BInv, CopiesHaveBudget
<1>2. PICK n \in 0..MaxAttempts : n = call[c].copy[r] /\ n < MaxAttempts
  <2>1. call[c].copy[r] \in Nat /\ call[c].copy[r] < MaxAttempts
    BY <1>1 DEF Chains, HoldsBudget
  <2> QED BY <2>1, SyncAssumption DEF SyncAssumption
<1> DEFINE m == [call[c] EXCEPT !.report = r]
<1>3. m.todo = call[c].todo /\ m.copy = call[c].copy /\ m.report = r
  BY <1>1 DEF Chains
<1>4. /\ call' = [call EXCEPT ![c] = m]
      /\ status' = [status EXCEPT ![r] = "pending"]
      /\ attempts' = [attempts EXCEPT ![r] = n]
  BY <1>2 DEF Take
<1> HIDE DEF m
<1>5. HoldsBudget(m)
  BY <1>1, <1>3 DEF HoldsBudget
<1> QED BY <1>2, <1>3, <1>4, <1>5, RecordPut

LEMMA SentBudget ==
  ASSUME TypeOK, BInv, NEW c \in Calls, NEW r \in Reports, Answered(c, r) \/ Unanswered(c, r)
  PROVE  BInv'
<1>1. PICK s \in {"pending", "synced", "failed"}, n \in 0..MaxAttempts,
           D \in SUBSET (call[c].todo \ {r}) :
        /\ PutBack(c, r, s, n, D)
        /\ s = "pending" => n # 0 /\ n < MaxAttempts
  BY PuttingBack
<1>2. D \in SUBSET call[c].todo
  BY <1>1
<1>3. PICK m \in Chains :
        /\ call' = [call EXCEPT ![c] = m]
        /\ m.todo = D /\ m.report = Null
        /\ \A x \in D : m.copy[x] = call[c].copy[x]
  BY <1>1, <1>2, PutBackHolds
<1>4. HoldsBudget(m)
  BY <1>2, <1>3 DEF BInv, CopiesHaveBudget, HoldsBudget
<1>5. status' = [status EXCEPT ![r] = s] /\ attempts' = [attempts EXCEPT ![r] = n]
  BY <1>1 DEF PutBack
<1> QED BY <1>1, <1>2, <1>3, <1>4, <1>5, RecordPut

LEMMA BNext == TypeOK /\ BInv /\ [Next]_vars => BInv'
<1> SUFFICES ASSUME TypeOK, BInv, [Next]_vars PROVE BInv'
  OBVIOUS
<1>1. CASE Open \/ GoOffline \/ UNCHANGED vars
  <2>1. UNCHANGED outboxVars /\ call' = call
    BY <1>1 DEF Open, GoOffline, vars, outboxVars
  <2> QED BY <2>1, SameCalls
<1>2. CASE Close
  <2>1. UNCHANGED outboxVars /\ \A c \in Calls : call'[c] = Idle
    BY <1>2 DEF Close
  <2>2. WaitsWithBudget
    BY DEF BInv
  <2> QED BY <2>1, <2>2, NewTodo, TakingStep
<1>3. ASSUME NEW c \in Calls, \/ Loaded(c) \/ GoOnline(c) \/ Return(c) \/ Wake(c)
                              \/ Flushed(c) \/ Show(c) \/ Break(c)
      PROVE  BInv'
  BY <1>3, TriggerStep
<1>4. ASSUME NEW c \in Calls, NEW r \in Reports,
             Take(c, r) \/ Answered(c, r) \/ Unanswered(c, r)
      PROVE  BInv'
  BY <1>4, TakeBudget, SentBudget
<1>5. ASSUME NEW c \in Calls, Read(c) PROVE BInv'
  <2> DEFINE m == [call[c] EXCEPT !.pc = "read", !.seen = Counts]
  <2>1. call' = [call EXCEPT ![c] = m] /\ UNCHANGED outboxVars
    BY <1>5 DEF Read, TypeOK
  <2>2. m.todo = call[c].todo /\ m.copy = call[c].copy /\ m.pc = "read"
    BY DEF TypeOK, Chains
  <2> HIDE DEF m
  <2>3. HoldsBudget(m)
    BY <2>2 DEF BInv, CopiesHaveBudget, HoldsBudget
  <2> QED BY <2>1, <2>2, <2>3, OneCallTakes
<1>6. ASSUME NEW c \in Calls, NEW r \in Reports, Save(c, r) PROVE BInv'
  BY <1>6, SaveBudget
<1>7. ASSUME NEW r \in Reports, SentElsewhere(r) PROVE BInv'
  BY <1>7 DEF SentElsewhere, TypeOK, BInv, WaitsWithBudget, CopiesHaveBudget, HoldsBudget,
              TakenWasSaved, NewIsUntried
<1> QED BY <1>1, <1>2, <1>3, <1>4, <1>5, <1>6, <1>7 DEF Next, Steps

-----------------------------------------------------------------------------
(* The theorems *)

SInv == YInv /\ BInv

\* The inductive invariant: the types, an untried report is on its way, and neither a
\* record that waits nor a copy of one has its attempts spent.
THEOREM SyncInvariance == Spec => []SInv
<1>1. Init => SInv
  BY YInit, BInit DEF SInv
<1>2. SInv /\ [Next]_vars => SInv'
  BY YNext, BNext DEF SInv, YInv
<1> QED BY <1>1, <1>2, PTL DEF Spec

\* Every variable keeps its type: no attempt is counted beyond MAX_ATTEMPTS, although
\* a flush counts on from what it once read (queue.js:235-237).
THEOREM SyncTypeCorrect == Spec => []TypeOK
<1>1. SInv => TypeOK
  BY DEF SInv, YInv
<1> QED BY <1>1, SyncInvariance, PTL

\* No report falls between the triggers, for any number of reports and of calls
\* that overlap.
THEOREM EveryReportIsTried == Spec => []NothingWaitsUntried
<1>1. SInv => NothingWaitsUntried
  <2> SUFFICES ASSUME SInv, Quiet, nav, online, faults = 0 PROVE Untried = {}
    BY DEF NothingWaitsUntried
  <2>1. \A r : ~OnItsWay(r)
    BY DEF Quiet, Free, OnItsWay, Carries
  <2> QED BY <2>1 DEF SInv, YInv, CarriedInv, Quiet
<1> QED BY <1>1, SyncInvariance, PTL

\* No report waits that will not be tried: one whose recorded attempts are spent is
\* failed, for the reporter to see.  Overlapping flushes take each other's attempts
\* back (queue.js:185-186, 234-238), so the record may have been sent more often than
\* it says; but no copy put back makes a record wait whose attempts are spent.
THEOREM NoReportWaitsInVain == Spec => []WaitsWithBudget
<1>1. SInv => WaitsWithBudget
  BY DEF SInv, BInv
<1> QED BY <1>1, SyncInvariance, PTL
=============================================================================
