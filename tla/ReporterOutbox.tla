--------------------------- MODULE ReporterOutbox ---------------------------
(***************************************************************************)
(* A reporter's phone and the endpoint it posts to.  Reports are saved in  *)
(* an IndexedDB outbox first; every open tab flushes it, each from its own *)
(* copy of the records; requests and answers get lost, a tab may close     *)
(* halfway, a request outlives the tab that sent it.  The server records a *)
(* submission under UNIQUE(reporter_id, client_idempotency_key).           *)
(*                                                                         *)
(* One step is one IndexedDB transaction or one SQL statement; an await    *)
(* separates two steps.                                                    *)
(***************************************************************************)
EXTENDS Naturals, FiniteSets

CONSTANTS
  Reports,      \* what the reporter may save, one idempotency key each
  Tabs,         \* flush() calls that may run at the same time
  Requests,     \* POSTs that may be under way at the same time
  MaxAttempts,  \* MAX_ATTEMPTS of queue.js
  MaxCloses,    \* bound on tabs closed halfway through a flush
  MaxForgets,   \* bound on how often the reporter is erased
  Null          \* no row, no tab, no report

ASSUME OutboxAssumption ==
  /\ MaxAttempts \in Nat \ {0}
  /\ MaxCloses \in Nat
  /\ MaxForgets \in Nat
  /\ Null \notin Tabs
  /\ Null \notin Reports
  /\ Null \notin Nat

VARIABLES
  saved,        \* reports for which enqueue() has returned
  item,         \* the outbox record of a report; status "none": no record
  flush,        \* what each flush() holds in memory
  request,      \* the POSTs under way, on the wire or at the server
  reporter,     \* id of the reporters row of this device
  rows,         \* how many submissions rows a report has
  keyed,        \* reports with a row under the reporters row of now
  forgets,      \* reporters rows erased so far
  closes        \* tabs closed so far

phoneVars == <<saved, item, flush>>
serverVars == <<reporter, rows, keyed, forgets>>
vars == <<saved, item, flush, request, reporter, rows, keyed, forgets, closes>>

-----------------------------------------------------------------------------
Waiting == {"pending", "syncing"}
Records == [status: {"none", "synced", "failed"} \union Waiting, attempts: 0..MaxAttempts]
NoRecord == [status |-> "none", attempts |-> 0]

\* todo: records still to be sent, or to be deleted by pruneSynced();
\* attempts: the in-memory copies of that column.
Flushes == [pc: {"idle", "looping", "sending", "pruning"},
            todo: SUBSET Reports, attempts: [Reports -> 0..MaxAttempts],
            current: Reports \union {Null}]
Idle == [pc |-> "idle", todo |-> {}, attempts |-> [r \in Reports |-> 0], current |-> Null]

Replies == {"stored", "refused", "failed"}
Handling == {"sent", "identified", "unknown", "collided", "inserted"}

\* tab: who waits for the answer; id: the reporters row the request found.
Posts == [stage: Handling \union Replies, report: Reports, tab: Tabs \union {Null},
          id: Nat \union {Null}]
NoPost == [stage |-> "none", report |-> Null, tab |-> Null, id |-> Null]

Live(q) == request[q].stage # "none"
Sending(t) == flush[t].pc = "sending"
Awaits(t, q) == Sending(t) /\ Live(q) /\ request[q].tab = t

-----------------------------------------------------------------------------
(* The phone *)

\* enqueue(): stored locally before the reporter is told that it is saved.
Enqueue(r) ==
  /\ r \notin saved
  /\ saved' = saved \union {r}
  /\ item' = [item EXCEPT ![r] = [status |-> "pending", attempts |-> 0]]
  /\ UNCHANGED <<flush, request, closes>> /\ UNCHANGED serverVars

\* flush() while online: one snapshot of everything that waits.
StartFlush(t) ==
  LET waiting == {r \in Reports : item[r].status \in Waiting}
  IN /\ flush[t].pc = "idle"
     /\ flush' = [flush EXCEPT ![t] =
          [pc |-> "looping", todo |-> waiting, current |-> Null,
           attempts |-> [r \in Reports |-> IF r \in waiting THEN item[r].attempts ELSE 0]]]
     /\ UNCHANGED <<saved, item, request, closes>> /\ UNCHANGED serverVars

\* update(): the whole record is put back as this flush remembers it, also over
\* what another tab has written since, also if the record is gone.
Put(r, s, n) == item' = [item EXCEPT ![r] = [status |-> s, attempts |-> n]]

\* The next record is marked "syncing" and posted.
Send(t, r) ==
  /\ flush[t].pc = "looping"
  /\ r \in flush[t].todo
  /\ Put(r, "syncing", flush[t].attempts[r])
  /\ flush' = [flush EXCEPT ![t].pc = "sending", ![t].current = r]
  /\ \E q \in Requests :
       /\ ~Live(q)
       /\ request' = [request EXCEPT ![q] =
                        [stage |-> "sent", report |-> r, tab |-> t, id |-> Null]]
  /\ UNCHANGED <<saved, closes>> /\ UNCHANGED serverVars

\* The loop goes on with the records of R.
Continue(t, R) ==
  flush' = [flush EXCEPT ![t].pc = "looping", ![t].todo = R, ![t].current = Null,
                         ![t].attempts = [r \in Reports |-> IF r \in R THEN @[r] ELSE 0]]

\* Mutant of Settle: every answer that is not retried counts as sent.
SettleAsSent(t, q) ==
  /\ Awaits(t, q)
  /\ request[q].stage \in {"stored", "refused"}
  /\ Put(flush[t].current, "synced", flush[t].attempts[flush[t].current])
  /\ Continue(t, flush[t].todo \ {flush[t].current})
  /\ request' = [request EXCEPT ![q] = NoPost]
  /\ UNCHANGED <<saved, closes>> /\ UNCHANGED serverVars

\* An answer that settles the record: 201 or 200, or a 4xx other than 429.
Settle(t, q) ==
  LET r == flush[t].current
      shown == [stored |-> "synced", refused |-> "failed"]
  IN /\ Awaits(t, q)
     /\ request[q].stage \in {"stored", "refused"}
     /\ Put(r, shown[request[q].stage], flush[t].attempts[r])
     /\ Continue(t, flush[t].todo \ {r})
     /\ request' = [request EXCEPT ![q] = NoPost]
     /\ UNCHANGED <<saved, closes>> /\ UNCHANGED serverVars

\* Mutant of Retry: the attempts are compared with > instead of >=.
RetryOffByOne(t, q) ==
  LET r == flush[t].current
      n == flush[t].attempts[r] + 1
  IN /\ Awaits(t, q)
     /\ Put(r, IF n > MaxAttempts THEN "failed" ELSE "pending", n)
     /\ Continue(t, flush[t].todo \ {r})
     /\ request' = [request EXCEPT ![q] = NoPost]
     /\ UNCHANGED <<saved, closes>> /\ UNCHANGED serverVars

\* 429, 5xx, or no answer at all.  A request that got through goes on without
\* anybody waiting; one that did not, or whose web worker died, is gone.  The flush stops when the browser
\* says it is offline.
Retry(t, q) ==
  LET r == flush[t].current
      n == flush[t].attempts[r] + 1
  IN /\ Awaits(t, q)
     /\ Put(r, IF n >= MaxAttempts THEN "failed" ELSE "pending", n)
     /\ Continue(t, flush[t].todo \ {r}) \/ Continue(t, {})
     /\ \/ request' = [request EXCEPT ![q] = NoPost]
        \/ request[q].stage \in Handling /\ request' = [request EXCEPT ![q].tab = Null]
     /\ UNCHANGED <<saved, closes>> /\ UNCHANGED serverVars

\* Mutant of FindSynced: failed records are cleared away as well.
FindSettled(t) ==
  /\ flush[t].pc = "looping"
  /\ flush[t].todo = {}
  /\ \E old \in SUBSET {r \in Reports : item[r].status \in {"synced", "failed"}} :
       flush' = [flush EXCEPT ![t].pc = "pruning", ![t].todo = old]
  /\ UNCHANGED <<saved, item, request, closes>> /\ UNCHANGED serverVars

\* pruneSynced() reads which records have been "synced" for a minute.
FindSynced(t) ==
  /\ flush[t].pc = "looping"
  /\ flush[t].todo = {}
  /\ \E old \in SUBSET {r \in Reports : item[r].status = "synced"} :
       flush' = [flush EXCEPT ![t].pc = "pruning", ![t].todo = old]
  /\ UNCHANGED <<saved, item, request, closes>> /\ UNCHANGED serverVars

\* ... and deletes them, whatever they are by now.
Prune(t) ==
  /\ flush[t].pc = "pruning"
  /\ item' = [r \in Reports |-> IF r \in flush[t].todo THEN NoRecord ELSE item[r]]
  /\ flush' = [flush EXCEPT ![t] = Idle]
  /\ UNCHANGED <<saved, request, closes>> /\ UNCHANGED serverVars

\* The tab is closed, or the phone kills it.
CloseTab(t) ==
  /\ flush[t].pc # "idle"
  /\ closes < MaxCloses
  /\ closes' = closes + 1
  /\ flush' = [flush EXCEPT ![t] = Idle]
  /\ request' = [q \in Requests |->
                   IF ~Awaits(t, q) THEN request[q]
                   ELSE IF request[q].stage \in Replies THEN NoPost
                   ELSE [request[q] EXCEPT !.tab = Null]]
  /\ UNCHANGED <<saved, item>> /\ UNCHANGED serverVars

-----------------------------------------------------------------------------
(* The server: StoreSubmissionRequest and RecordSubmission::handle() *)

\* The response, if somebody still waits for it.
Reply(q, x) ==
  request' = [request EXCEPT ![q] = IF @.tab = Null THEN NoPost ELSE [@ EXCEPT !.stage = x]]

\* Find the reporter of this device, or create one; reporters.external_ref is
\* UNIQUE, so two first requests end up with the same row.
Identify(q) ==
  LET id == IF reporter = Null THEN forgets ELSE reporter
  IN /\ request[q].stage = "sent"
     /\ reporter' = id
     /\ request' = [request EXCEPT ![q].stage = "identified", ![q].id = id]
     /\ UNCHANGED <<rows, keyed, forgets, closes>> /\ UNCHANGED phoneVars

\* 422, an unknown country or location, or a blocked reporter.
Refuse(q) ==
  /\ request[q].stage \in {"sent", "identified"}
  /\ Reply(q, "refused")
  /\ UNCHANGED closes /\ UNCHANGED phoneVars /\ UNCHANGED serverVars

\* 429, or the server fails before it has stored anything.
Fail(q) ==
  /\ request[q].stage \in Handling \ {"inserted"}
  /\ Reply(q, "failed")
  /\ UNCHANGED closes /\ UNCHANGED phoneVars /\ UNCHANGED serverVars

\* A row found under the id this request holds.
Found(q) == request[q].id = reporter /\ request[q].report \in keyed

\* The read before the write: the fast path for a replay.
LookUp(q) ==
  /\ request[q].stage = "identified"
  /\ IF Found(q)
     THEN Reply(q, "stored")
     ELSE request' = [request EXCEPT ![q].stage = "unknown"]
  /\ UNCHANGED closes /\ UNCHANGED phoneVars /\ UNCHANGED serverVars

\* Mutant of Insert: no unique index, the read before the write is trusted.
InsertTrustingTheRead(q) ==
  LET r == request[q].report
  IN /\ request[q].stage = "unknown"
     /\ request[q].id = reporter
     /\ request' = [request EXCEPT ![q].stage = "inserted"]
     /\ rows' = [rows EXCEPT ![r] = @ + 1]
     /\ keyed' = keyed \union {r}
     /\ UNCHANGED <<reporter, forgets, closes>> /\ UNCHANGED phoneVars

\* The INSERT: the row, unless the unique index has one.
Insert(q) ==
  LET r == request[q].report
  IN /\ request[q].stage = "unknown"
     /\ request[q].id = reporter
     /\ IF r \in keyed
        THEN /\ request' = [request EXCEPT ![q].stage = "collided"]
             /\ UNCHANGED <<rows, keyed>>
        ELSE /\ request' = [request EXCEPT ![q].stage = "inserted"]
             /\ rows' = [rows EXCEPT ![r] = @ + 1]
             /\ keyed' = keyed \union {r}
     /\ UNCHANGED <<reporter, forgets, closes>> /\ UNCHANGED phoneVars

\* The reporters row is gone: the foreign key refuses the INSERT.
InsertOrphan(q) ==
  /\ request[q].stage = "unknown"
  /\ request[q].id # reporter
  /\ Reply(q, "failed")
  /\ UNCHANGED closes /\ UNCHANGED phoneVars /\ UNCHANGED serverVars

\* After a collision the row is read again; a reporter erased meanwhile is a 404.
ReadAgain(q) ==
  /\ request[q].stage = "collided"
  /\ Reply(q, IF Found(q) THEN "stored" ELSE "refused")
  /\ UNCHANGED closes /\ UNCHANGED phoneVars /\ UNCHANGED serverVars

\* The row is committed and its job dispatched, unless the queue is out of reach.
Answer(q) ==
  /\ request[q].stage = "inserted"
  /\ \E x \in {"stored", "failed"} : Reply(q, x)
  /\ UNCHANGED closes /\ UNCHANGED phoneVars /\ UNCHANGED serverVars

\* Mutant of Forget: the foreign key cascades instead of nulling.
ForgetCascades ==
  /\ reporter # Null
  /\ forgets < MaxForgets
  /\ forgets' = forgets + 1
  /\ reporter' = Null
  /\ keyed' = {}
  /\ rows' = [r \in Reports |-> IF r \in keyed THEN 0 ELSE rows[r]]
  /\ UNCHANGED <<request, closes>> /\ UNCHANGED phoneVars

\* ForgetReporterCommand, or the expiry of a dormant reporter: the reporters row
\* is deleted and submissions.reporter_id is set to NULL, which no key matches.
Forget ==
  /\ reporter # Null
  /\ forgets < MaxForgets
  /\ forgets' = forgets + 1
  /\ reporter' = Null
  /\ keyed' = {}
  /\ UNCHANGED <<rows, request, closes>> /\ UNCHANGED phoneVars

-----------------------------------------------------------------------------
Init ==
  /\ saved = {}
  /\ item = [r \in Reports |-> NoRecord]
  /\ flush = [t \in Tabs |-> Idle]
  /\ request = [q \in Requests |-> NoPost]
  /\ reporter = Null
  /\ rows = [r \in Reports |-> 0]
  /\ keyed = {}
  /\ forgets = 0
  /\ closes = 0

FlushStep(t) ==
  \/ \E r \in Reports : Send(t, r)
  \/ \E q \in Requests : Settle(t, q) \/ Retry(t, q)
  \/ FindSynced(t) \/ Prune(t)

ServerStep(q) ==
  \/ Identify(q) \/ Refuse(q) \/ Fail(q) \/ LookUp(q)
  \/ Insert(q) \/ InsertOrphan(q) \/ ReadAgain(q) \/ Answer(q)

Next ==
  \/ \E r \in Reports : Enqueue(r)
  \/ \E t \in Tabs : StartFlush(t) \/ FlushStep(t) \/ CloseTab(t)
  \/ \E q \in Requests : ServerStep(q)
  \/ Forget

Spec == Init /\ [][Next]_vars

-----------------------------------------------------------------------------
(* Properties *)

\* Every variable stays in its type; no record is tried more than MaxAttempts
\* times, whichever copies of the count are written back.
TypeOK ==
  /\ saved \subseteq Reports
  /\ item \in [Reports -> Records]
  /\ flush \in [Tabs -> Flushes]
  /\ request \in [Requests -> Posts \union {NoPost}]
  /\ reporter \in Nat \union {Null}
  /\ rows \in [Reports -> Nat]
  /\ keyed \subseteq saved
  /\ forgets \in 0..MaxForgets
  /\ closes \in 0..MaxCloses

\* "a phone that loses signal mid-submission must lose nothing": a saved report
\* is on the phone or on the server, whatever tabs overwrite, prune or abandon.
NothingIsLost ==
  \A r \in saved : item[r].status = "none" => rows[r] > 0

\* What the phone shows as sent is on the server.
SentIsStored ==
  \A r \in Reports : item[r].status = "synced" => rows[r] > 0

\* The key is unique per reporter: replays, double flushes and requests that
\* outlive their tab add no row, as long as the reporter is not erased.
CountedOncePerReporter ==
  \A r \in Reports : rows[r] <= forgets + (IF r \in keyed THEN 1 ELSE 0)

\* "replaying a queue after a dropped connection cannot double-count a price".
CountedOnce == \A r \in Reports : rows[r] <= 1

Inbox == INSTANCE PriceInbox
  WITH cleared <- {r \in saved : item[r].status = "none"},
       counted <- rows,
       remembered <- keyed

\* The phone and the server together keep the promise of PriceInbox.
ImplementsInbox == Inbox!InboxSpec
=============================================================================
