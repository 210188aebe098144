---------------------------- MODULE OfflineShell ----------------------------
(***************************************************************************)
(* The service worker of the reporter app, and what a tab gets to see.     *)
(*                                                                         *)
(* A page names the hashed script of its own build; nginx serves scripts   *)
(* as immutable, so the browser's HTTP cache may keep them, and a          *)
(* deployment removes those of the build before.  The worker keeps pages,  *)
(* scripts and the bootstrap snapshot in caches named after its VERSION.   *)
(* cache.put() is not awaited: a write lands later, in any order, or never *)
(* if the browser stops the worker first.                                  *)
(***************************************************************************)
EXTENDS Naturals, FiniteSets

CONSTANTS
  Urls,       \* addresses of the app: with and without a query
  Report,     \* '/report' among them
  MaxChanges, \* bound on what is deployed: builds, versions of sw.js, catalogues
  MaxWrites   \* bound on the writes under way at the same time

ASSUME ShellAssumption ==
  /\ Report \in Urls
  /\ MaxChanges \in Nat
  /\ MaxWrites \in Nat \ {0}

VARIABLES
  line,     \* the connection: "ok", "error" (the server answers 5xx) or "off"
  live,     \* the build deployed
  script,   \* the VERSION of the sw.js deployed
  data,     \* the catalogue at the server
  worker,   \* the worker in charge, and the one being installed
  cache,    \* per VERSION: the caches that carry it
  writes,   \* cache.put() calls that have not landed
  tab       \* what the tab shows

serverVars == <<live, script, data>>
vars == <<line, live, script, data, worker, cache, writes, tab>>

-----------------------------------------------------------------------------
\* What has been at the server: builds, versions of sw.js, catalogues.
Editions == 1..(MaxChanges + 1)

\* 0: not cached.  offline: the '/offline' page, which needs no script.
Caches == [pages: [Urls -> {0} \union Editions], offline: BOOLEAN,
           scripts: SUBSET Editions, data: {0} \union Editions]
Empty == [pages |-> [u \in Urls |-> 0], offline |-> FALSE, scripts |-> {}, data |-> 0]

\* A 0 in active or installing: no worker.  todo: SHELL_ASSETS still to be added.
Shell == {"report", "offline"}
Workers == [active: {0} \union Editions, installing: {0} \union Editions, todo: SUBSET Shell]

Writes == [kind: {"page"}, version: Editions, url: Urls, value: Editions]
     \union [kind: {"script", "data"}, version: Editions, value: Editions]

Settled == {"blank", "running", "broken", "offline"}
Tabs == [pc: {"navigating", "loading", "starting"} \union Settled,
         url: Urls, build: {0} \union Editions]

Controlled == worker.active # 0

\* cache.put(), by the worker in charge if there is one.
Put(w) ==
  /\ writes' = writes \union (IF Controlled THEN {w} ELSE {})
  /\ Cardinality(writes') <= MaxWrites

\* caches.match() looks into every cache there is, the older one first; 0: nowhere.
KeptPage(u) ==
  LET vs == {v \in Editions : cache[v].pages[u] # 0}
      first == CHOOSE v \in vs : \A x \in vs : v <= x
  IN IF vs = {} THEN 0 ELSE cache[first].pages[u]
KeptNotice == \E v \in Editions : cache[v].offline
KeptScript(b) == \E v \in Editions : b \in cache[v].scripts

-----------------------------------------------------------------------------
(* Install and activate *)

\* reporter.js registers the worker once the app runs; a new VERSION installs.
Register ==
  /\ tab.pc = "running" /\ line = "ok"
  /\ worker.active # script /\ worker.installing = 0
  /\ worker' = [worker EXCEPT !.installing = script, !.todo = Shell]
  /\ UNCHANGED <<line, cache, writes, tab>> /\ UNCHANGED serverVars

\* Promise.allSettled: an asset that cannot be had now is left out.
AddShell(a) ==
  LET v == worker.installing
  IN /\ v # 0 /\ a \in worker.todo
     /\ worker' = [worker EXCEPT !.todo = @ \ {a}]
     /\ cache' = [cache EXCEPT ![v] = IF line # "ok" THEN @
                                      ELSE IF a = "offline" THEN [@ EXCEPT !.offline = TRUE]
                                      ELSE [@ EXCEPT !.pages[Report] = live]]
     /\ UNCHANGED <<line, writes, tab>> /\ UNCHANGED serverVars

\* skipWaiting, then activate: the caches of other versions go, and the tabs
\* that are open are claimed.
Activate ==
  LET v == worker.installing
  IN /\ v # 0 /\ worker.todo = {}
     /\ worker' = [active |-> v, installing |-> 0, todo |-> {}]
     /\ cache' = [x \in Editions |-> IF x = v THEN cache[x] ELSE Empty]
     /\ UNCHANGED <<line, writes, tab>> /\ UNCHANGED serverVars

-----------------------------------------------------------------------------
(* A navigation *)

Visit(u) ==
  /\ tab.pc \in Settled
  /\ tab' = [pc |-> "navigating", url |-> u, build |-> 0]
  /\ UNCHANGED <<line, worker, cache, writes>> /\ UNCHANGED serverVars

\* url matters while navigating only, build until the app runs.
Shows(pc, b) == tab' = [pc |-> pc, url |-> Report, build |-> b]

\* Mutant of Navigated: what the server answers is kept, whatever it is.
NavigatedAnyhow ==
  /\ tab.pc = "navigating" /\ line # "off"
  /\ IF line = "ok" THEN Shows("loading", live) ELSE Shows("broken", 0)
  /\ Put([kind |-> "page", version |-> worker.active, url |-> tab.url,
          value |-> IF line = "ok" THEN live ELSE 0])
  /\ UNCHANGED <<line, worker, cache>> /\ UNCHANGED serverVars

\* fetch() answers: the page of the build deployed, and a write of it.
Navigated ==
  /\ tab.pc = "navigating" /\ line # "off"
  /\ IF line = "ok"
       THEN /\ Shows("loading", live)
            /\ Put([kind |-> "page", version |-> worker.active, url |-> tab.url, value |-> live])
       ELSE Shows("broken", 0) /\ UNCHANGED writes
  /\ UNCHANGED <<line, worker, cache>> /\ UNCHANGED serverVars

\* fetch() fails: this page from the cache, or '/report', or '/offline'.
FallenBack ==
  /\ tab.pc = "navigating" /\ line = "off"
  /\ \/ Controlled /\ KeptPage(tab.url) # 0 /\ Shows("loading", KeptPage(tab.url))
     \/ /\ Controlled /\ KeptPage(tab.url) = 0 /\ KeptPage(Report) # 0
        /\ Shows("loading", KeptPage(Report))
     \/ /\ Controlled /\ KeptPage(tab.url) = 0 /\ KeptPage(Report) = 0 /\ KeptNotice
        /\ Shows("offline", 0)
     \/ /\ ~Controlled \/ (KeptPage(tab.url) = 0 /\ KeptPage(Report) = 0 /\ ~KeptNotice)
        /\ Shows("broken", 0)
  /\ UNCHANGED <<line, worker, cache, writes>> /\ UNCHANGED serverVars

-----------------------------------------------------------------------------
(* The script of the page *)

\* cacheFirst() finds it, in whichever of the caches.
ScriptCached ==
  /\ tab.pc = "loading" /\ Controlled /\ KeptScript(tab.build)
  /\ Shows("starting", tab.build)
  /\ UNCHANGED <<line, worker, cache, writes>> /\ UNCHANGED serverVars

\* Mutant of ScriptFetched: nothing is kept.
ScriptFetchedOnly ==
  LET b == tab.build
  IN /\ tab.pc = "loading"
     /\ Shows("starting", b)
     /\ UNCHANGED <<line, worker, cache, writes>> /\ UNCHANGED serverVars

\* It comes from the HTTP cache, where it may still be, or from the server, if
\* it is of the build deployed; a worker in charge keeps it.
ScriptFetched ==
  LET b == tab.build
  IN /\ tab.pc = "loading"
     /\ ~(Controlled /\ KeptScript(b))
     /\ Put([kind |-> "script", version |-> worker.active, value |-> b])
     /\ Shows("starting", b)
     /\ UNCHANGED <<line, worker, cache>> /\ UNCHANGED serverVars

ScriptMissing ==
  /\ tab.pc = "loading"
  /\ ~(Controlled /\ KeptScript(tab.build))
  /\ ~(line = "ok" /\ tab.build = live)
  /\ Shows("broken", 0)
  /\ UNCHANGED <<line, worker, cache, writes>> /\ UNCHANGED serverVars

-----------------------------------------------------------------------------
(* The bootstrap snapshot *)

\* Mutant of Bootstrap: what is cached is never asked for again.
BootstrapCacheFirst ==
  /\ tab.pc = "starting" /\ Shows("running", 0)
  /\ IF Controlled /\ line = "ok" /\ cache[worker.active].data = 0
       THEN Put([kind |-> "data", version |-> worker.active, value |-> data])
       ELSE UNCHANGED writes
  /\ UNCHANGED <<line, worker, cache>> /\ UNCHANGED serverVars

\* staleWhileRevalidate(): whatever is cached is served, and what the server
\* says now is written behind it.
Bootstrap ==
  /\ tab.pc = "starting" /\ Shows("running", 0)
  /\ IF line = "ok"
       THEN Put([kind |-> "data", version |-> worker.active, value |-> data])
       ELSE UNCHANGED writes
  /\ UNCHANGED <<line, worker, cache>> /\ UNCHANGED serverVars

\* A write lands; one into a cache deleted meanwhile is lost with it.
Land(w) ==
  /\ w \in writes
  /\ writes' = writes \ {w}
  /\ cache' = IF w.version # worker.active THEN cache ELSE [cache EXCEPT ![w.version] =
       CASE w.kind = "page" -> [@ EXCEPT !.pages[w.url] = w.value]
         [] w.kind = "script" -> [@ EXCEPT !.scripts = cache[w.version].scripts \union {w.value}]
         [] w.kind = "data" -> [@ EXCEPT !.data = w.value]]
  /\ UNCHANGED <<line, worker, tab>> /\ UNCHANGED serverVars

\* The browser stops the worker: writes under way are lost.
Stop ==
  /\ writes # {} /\ writes' = {}
  /\ UNCHANGED <<line, worker, cache, tab>> /\ UNCHANGED serverVars

-----------------------------------------------------------------------------
(* The world *)

Connection(x) ==
  /\ line # x /\ line' = x
  /\ UNCHANGED <<worker, cache, writes, tab>> /\ UNCHANGED serverVars

Deploy ==
  /\ live + script + data < 3 + MaxChanges
  /\ \/ live' = live + 1 /\ UNCHANGED <<script, data>>
     \/ script' = script + 1 /\ UNCHANGED <<live, data>>
     \/ data' = data + 1 /\ UNCHANGED <<live, script>>
  /\ UNCHANGED <<line, worker, cache, writes, tab>>

Init ==
  /\ line = "ok" /\ live = 1 /\ script = 1 /\ data = 1
  /\ worker = [active |-> 0, installing |-> 0, todo |-> {}]
  /\ cache = [v \in Editions |-> Empty]
  /\ writes = {}
  /\ tab = [pc |-> "blank", url |-> Report, build |-> 0]

Loads == Navigated \/ FallenBack \/ ScriptCached \/ ScriptFetched \/ ScriptMissing \/ Bootstrap
Installs == Register \/ (\E a \in Shell : AddShell(a)) \/ Activate

Next ==
  \/ Installs \/ Loads
  \/ \E u \in Urls : Visit(u)
  \/ \E w \in writes : Land(w)
  \/ Stop \/ Deploy
  \/ \E x \in {"ok", "error", "off"} : Connection(x)

Spec == Init /\ [][Next]_vars

LandKind(k) == \E w \in writes : w.kind = k /\ (k = "page" => w.url = Report) /\ Land(w)

\* The reporter keeps opening the app; the browser lets the worker finish some of
\* its writes of each kind.
FairSpec ==
  /\ Spec
  /\ SF_vars(Installs) /\ WF_vars(Loads) /\ SF_vars(Visit(Report))
  /\ WF_vars(\E w \in writes : Land(w))
  /\ SF_vars(LandKind("page")) /\ SF_vars(LandKind("script")) /\ SF_vars(LandKind("data"))

-----------------------------------------------------------------------------
TypeOK ==
  /\ line \in {"ok", "error", "off"}
  /\ {live, script, data} \subseteq Editions
  /\ worker \in Workers
  /\ cache \in [Editions -> Caches]
  /\ writes \subseteq Writes /\ Cardinality(writes) <= MaxWrites
  /\ tab \in Tabs

\* Opened with no connection, the app comes up.
OpensOffline == Controlled /\ KeptPage(Report) # 0 /\ KeptScript(KeptPage(Report))

\* The app and the worker are those of the first deployment.
NothingDeployed == live = 1 /\ script = 1

\* As long as nothing is deployed, an app that opens with no connection keeps
\* doing so (sw.js:10-12), through failing requests, server errors, writes lost
\* and the worker stopped: an error page never takes the place of the app.
KeptWithoutDeployment ==
  [][NothingDeployed' /\ OpensOffline => OpensOffline']_vars

\* Whatever was deployed or lost before, a reporter who keeps opening the app on a
\* working connection ends up with the current app on the device (sw.js:86-101, 122-139).
ShellCatchesUp ==
  <>[](line = "ok") => <>[](OpensOffline /\ KeptPage(Report) = live)

\* And with the current catalogue: what is served is stale once, not for ever
\* (sw.js:67-70, 103-120).
CatalogueCatchesUp ==
  <>[](line = "ok") => <>[](Controlled /\ cache[worker.active].data = data)
=============================================================================
