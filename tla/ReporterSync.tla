---------------------------- MODULE ReporterSync ----------------------------
(***************************************************************************)
(* When the reporter app sends what it has stored, and the queue it shows. *)
(* One tab: it loads, listens, and calls sync() when the connection comes  *)
(* back, when the reporter comes back, when the service worker wakes it    *)
(* and after each save.  sync() is flush() followed by refreshCounts();    *)
(* several calls may be under way, each resuming at its own awaits.        *)
(*                                                                         *)
(* A flush works on its own copies of the records and puts them back whole *)
(* (queue.js:123-127, 185-186, 234-238): another flush of the same records *)
(* is undone by it, status and attempts.  The server's side is the subject *)
(* of ReporterOutbox.                                                      *)
(***************************************************************************)
EXTENDS Naturals, FiniteSets

CONSTANTS
  Reports,      \* what the reporter saves, one record each
  Calls,        \* chains of awaits that may be under way at the same time
  MaxAttempts,  \* MAX_ATTEMPTS of queue.js
  MaxFaults,    \* bound on IndexedDB operations that fail
  Null          \* no report

ASSUME SyncAssumption ==
  /\ IsFiniteSet(Reports)
  /\ MaxAttempts \in Nat \ {0}
  /\ MaxFaults \in Nat
  /\ Null \notin Reports

VARIABLES
  page,      \* the app: not open, or how far init() has come
  nav,       \* navigator.onLine
  online,    \* this.online
  status,    \* the status of each record
  attempts,  \* the attempts of each record
  call,      \* what is under way in the tab
  queue,     \* this.queue, as the status line shows it
  tagged,    \* a background sync is registered
  faults     \* IndexedDB operations failed so far

outboxVars == <<status, attempts>>
pageVars == <<page, online, queue>>
vars == <<page, nav, online, status, attempts, call, queue, tagged, faults>>

-----------------------------------------------------------------------------
Waiting == {r \in Reports : status[r] = "pending"}
Failed == {r \in Reports : status[r] = "failed"}

\* counts(): "syncing" is shown as pending, so it is pending here too.
Counts == [pending |-> Cardinality(Waiting), failed |-> Cardinality(Failed)]
NoCounts == [pending |-> 0, failed |-> 0]

\* todo, copy: what a flush still has to send, and the attempts as it read them;
\* report: the record it is sending, or the one this save stored;
\* then: what follows the refreshCounts() of this call.
Chains == [pc: {"idle", "flushing", "reading", "read"}, todo: SUBSET Reports,
           copy: [Reports -> Nat], then: {"listen", "sync", "end"},
           report: Reports \union {Null}, seen: [pending: Nat, failed: Nat]]
Untaken == [r \in Reports |-> 0]
Idle == [pc |-> "idle", todo |-> {}, copy |-> Untaken, then |-> "end", report |-> Null,
         seen |-> NoCounts]
Free(c) == call[c].pc = "idle"

Refreshing(then, r) == [Idle EXCEPT !.pc = "reading", !.then = then, !.report = r]

\* flush() begins with what waits now, or returns at once when offline; either
\* way refreshCounts() follows.
Flushing(connected) ==
  IF connected
  THEN [Idle EXCEPT !.pc = "flushing", !.todo = Waiting,
                    !.copy = [r \in Reports |-> IF r \in Waiting THEN attempts[r] ELSE 0]]
  ELSE [Idle EXCEPT !.pc = "flushing"]

\* sync() called by a listener.
Sync(c) == Free(c) /\ call' = [call EXCEPT ![c] = Flushing(nav')]

-----------------------------------------------------------------------------
(* The app opens and closes *)

\* The component is created: this.online is read here and not again.
Open ==
  /\ page = "closed"
  /\ page' = "loading" /\ online' = nav /\ queue' = NoCounts
  /\ UNCHANGED <<nav, call, tagged, faults>> /\ UNCHANGED outboxVars

\* loadCatalogue() is over, one way or the other; init() refreshes the counts.
Loaded(c) ==
  /\ page = "loading" /\ Free(c)
  /\ page' = "counting"
  /\ call' = [call EXCEPT ![c] = Refreshing("listen", Null)]
  /\ UNCHANGED <<nav, online, queue, tagged, faults>> /\ UNCHANGED outboxVars

Close ==
  /\ page # "closed"
  /\ page' = "closed"
  /\ call' = [c \in Calls |-> Idle]
  /\ UNCHANGED <<nav, online, queue, tagged, faults>> /\ UNCHANGED outboxVars

-----------------------------------------------------------------------------
(* What makes it send *)

GoOffline ==
  /\ nav /\ nav' = FALSE
  /\ online' = IF page = "listening" THEN FALSE ELSE online
  /\ UNCHANGED <<page, call, queue, tagged, faults>> /\ UNCHANGED outboxVars

\* The 'online' event; nobody listens for it before init() is through.
GoOnline(c) ==
  /\ ~nav /\ nav' = TRUE
  /\ IF page = "listening" THEN online' = TRUE /\ Sync(c)
                           ELSE UNCHANGED <<online, call>>
  /\ UNCHANGED <<page, queue, tagged, faults>> /\ UNCHANGED outboxVars

\* Mutant of Return: the app goes by what it remembers of the connection.
ReturnIfOnline(c) ==
  /\ page = "listening" /\ nav /\ online
  /\ UNCHANGED nav /\ Sync(c)
  /\ UNCHANGED <<tagged, faults>> /\ UNCHANGED outboxVars /\ UNCHANGED pageVars

\* visibilitychange: the reporter is back and the browser is connected.
Return(c) ==
  /\ page = "listening" /\ nav
  /\ UNCHANGED nav /\ Sync(c)
  /\ UNCHANGED <<tagged, faults>> /\ UNCHANGED outboxVars /\ UNCHANGED pageVars

\* The service worker's 'sync' event: it wakes the clients there are.
Wake(c) ==
  /\ tagged /\ nav /\ tagged' = FALSE
  /\ UNCHANGED nav
  /\ IF page = "listening" THEN Sync(c) ELSE UNCHANGED call
  /\ UNCHANGED faults /\ UNCHANGED outboxVars /\ UNCHANGED pageVars

\* submit(): the record is stored and the counts are refreshed.
Save(c, r) ==
  /\ page \in {"counting", "listening", "deaf"} /\ Free(c)
  /\ status[r] = "none"
  /\ status' = [status EXCEPT ![r] = "pending"]
  /\ call' = [call EXCEPT ![c] = Refreshing("sync", r)]
  /\ UNCHANGED <<nav, attempts, tagged, faults>> /\ UNCHANGED pageVars

-----------------------------------------------------------------------------
(* flush() *)

\* The next record: its copy is put back as "syncing", whatever became of it since.
Take(c, r) ==
  /\ call[c].pc = "flushing" /\ call[c].report = Null /\ r \in call[c].todo
  /\ status' = [status EXCEPT ![r] = "pending"]
  /\ attempts' = [attempts EXCEPT ![r] = call[c].copy[r]]
  /\ call' = [call EXCEPT ![c].report = r]
  /\ UNCHANGED <<nav, tagged, faults>> /\ UNCHANGED pageVars

\* The flush is done with r: the copy is put back with its outcome, and it goes on
\* with the records of D.
PutBack(c, r, s, n, D) ==
  /\ status' = [status EXCEPT ![r] = s]
  /\ attempts' = [attempts EXCEPT ![r] = n]
  /\ call' = [call EXCEPT ![c] =
                [@ EXCEPT !.todo = D, !.report = Null,
                          !.copy = [x \in Reports |-> IF x \in D THEN call[c].copy[x] ELSE 0]]]
  /\ UNCHANGED <<nav, tagged, faults>> /\ UNCHANGED pageVars

Sending(c, r) == call[c].pc = "flushing" /\ call[c].report = r

\* The server has it, or refuses it for good.
Answered(c, r) ==
  /\ Sending(c, r) /\ nav
  /\ \E s \in {"synced", "failed"} :
       PutBack(c, r, s, call[c].copy[r], call[c].todo \ {r})

\* Mutant of Unanswered: given up one attempt too late.
UnansweredOnceMore(c, r) ==
  LET n == call[c].copy[r] + 1
  IN /\ Sending(c, r)
     /\ PutBack(c, r, IF n > MaxAttempts THEN "failed" ELSE "pending", n,
                IF nav THEN call[c].todo \ {r} ELSE {})

\* No answer, or a server in trouble: given up after MAX_ATTEMPTS; offline, the
\* rest is left for later.
Unanswered(c, r) ==
  LET n == call[c].copy[r] + 1
  IN /\ Sending(c, r)
     /\ PutBack(c, r, IF n >= MaxAttempts THEN "failed" ELSE "pending", n,
                IF nav THEN call[c].todo \ {r} ELSE {})

\* Mutant of Flushed: the counts are refreshed only if something was stored meanwhile.
FlushedQuietly(c) ==
  /\ call[c].pc = "flushing" /\ call[c].todo = {}
  /\ call' = [call EXCEPT ![c] = IF Waiting = {} THEN Idle ELSE Refreshing("end", Null)]
  /\ UNCHANGED <<nav, tagged, faults>> /\ UNCHANGED outboxVars /\ UNCHANGED pageVars

\* The loop is over.  What pruneSynced() deletes is shown nowhere: a record
\* that is "synced" here may be gone.
Flushed(c) ==
  /\ call[c].pc = "flushing" /\ call[c].todo = {}
  /\ call' = [call EXCEPT ![c] = Refreshing("end", Null)]
  /\ UNCHANGED <<nav, tagged, faults>> /\ UNCHANGED outboxVars /\ UNCHANGED pageVars

-----------------------------------------------------------------------------
(* refreshCounts() *)

Read(c) ==
  /\ call[c].pc = "reading"
  /\ call' = [call EXCEPT ![c].pc = "read", ![c].seen = Counts]
  /\ UNCHANGED <<nav, tagged, faults>> /\ UNCHANGED outboxVars /\ UNCHANGED pageVars

\* Mutant of Show: after a save nothing is sent while another call is at work.
ShowUnlessBusy(c) ==
  LET chain == call[c]
      quiet == \A d \in Calls \ {c} : Free(d)
  IN /\ chain.pc = "read"
     /\ queue' = chain.seen
     /\ page' = IF chain.then = "listen" THEN "listening" ELSE page
     /\ call' = [call EXCEPT ![c] =
          IF chain.then = "listen" /\ online THEN Flushing(nav)
          ELSE IF chain.then = "sync" /\ nav /\ quiet THEN Flushing(nav) ELSE Idle]
     /\ tagged' = (tagged \/ (chain.then = "sync" /\ ~nav))
     /\ UNCHANGED <<nav, online, faults>> /\ UNCHANGED outboxVars

\* The counts are shown; init() then attaches the listeners and sends if the app
\* believes to be online, submit() sends or asks for a background sync.
Show(c) ==
  LET chain == call[c]
  IN /\ chain.pc = "read"
     /\ queue' = chain.seen
     /\ page' = IF chain.then = "listen" THEN "listening" ELSE page
     /\ call' = [call EXCEPT ![c] =
          IF \/ chain.then = "listen" /\ online
             \/ chain.then = "sync" /\ nav THEN Flushing(nav) ELSE Idle]
     /\ tagged' = (tagged \/ (chain.then = "sync" /\ ~nav))
     /\ UNCHANGED <<nav, online, faults>> /\ UNCHANGED outboxVars

\* IndexedDB fails: sync() rejects, submit() shows the error, and init() ends
\* before it listens for anything.
Break(c) ==
  /\ ~Free(c) /\ faults < MaxFaults
  /\ faults' = faults + 1
  /\ page' = IF call[c].then = "listen" THEN "deaf" ELSE page
  /\ call' = [call EXCEPT ![c] = Idle]
  /\ UNCHANGED <<nav, online, queue, tagged>> /\ UNCHANGED outboxVars

\* Another tab sends a record of the same outbox.
SentElsewhere(r) ==
  /\ nav /\ status[r] = "pending"
  /\ status' = [status EXCEPT ![r] = "synced"]
  /\ UNCHANGED <<nav, attempts, call, tagged, faults>> /\ UNCHANGED pageVars

-----------------------------------------------------------------------------
Init ==
  /\ page = "closed" /\ nav \in BOOLEAN /\ online = nav
  /\ status = [r \in Reports |-> "none"]
  /\ attempts = [r \in Reports |-> 0]
  /\ call = [c \in Calls |-> Idle]
  /\ queue = NoCounts /\ tagged = FALSE /\ faults = 0

Steps(c) ==
  \/ \E r \in Reports : Take(c, r) \/ Answered(c, r) \/ Unanswered(c, r)
  \/ Flushed(c) \/ Read(c) \/ Show(c)

Next ==
  \/ Open \/ Close \/ GoOffline
  \/ \E c \in Calls : \/ Loaded(c) \/ GoOnline(c) \/ Return(c) \/ Wake(c)
                      \/ Steps(c) \/ Break(c)
  \/ \E c \in Calls, r \in Reports : Save(c, r)
  \/ \E r \in Reports : SentElsewhere(r)

Spec == Init /\ [][Next]_vars

\* What is under way goes on, and the reporter keeps coming back to the app.
FairSpec ==
  /\ Spec
  /\ \A c \in Calls : WF_vars(Steps(c))
  /\ WF_vars(\E c \in Calls : Return(c))

-----------------------------------------------------------------------------
TypeOK ==
  /\ page \in {"closed", "loading", "counting", "listening", "deaf"}
  /\ nav \in BOOLEAN /\ online \in BOOLEAN /\ tagged \in BOOLEAN
  /\ status \in [Reports -> {"none", "pending", "synced", "failed"}]
  /\ attempts \in [Reports -> 0..MaxAttempts]
  /\ call \in [Calls -> Chains]
  /\ queue \in [pending: Nat, failed: Nat]
  /\ faults \in 0..MaxFaults

Untried == {r \in Waiting : attempts[r] = 0}
Quiet == page = "listening" /\ \A c \in Calls : Free(c)

\* An app that is open, knows that it is online and has nothing under way has
\* tried every report that waits: no report falls between the triggers
\* (app.js:101-130, 634-638), whenever it was saved and however the connection
\* came and went.  A failed read after a save is the exception.
NothingWaitsUntried == Quiet /\ nav /\ online /\ faults = 0 => Untried = {}

\* No two flushes hold a copy of the same record.
Apart == \A c, d \in Calls : c # d => call[c].todo \intersect call[d].todo = {}

\* If the app stays open and connected, and flushes of the same records no longer
\* overlap, everything is settled in the end and the status line says so
\* (app.js:199-213): whatever overlapping flushes set back before, whatever order the
\* counts arrived in, and even if the app missed that the connection is back
\* (app.js:91, 115).  Flushes that overlap for ever may take each other's attempts
\* back for ever.
QueueDrains ==
  <>[](page = "listening" /\ nav /\ Apart) => <>[](Waiting = {} /\ queue = Counts)
=============================================================================
