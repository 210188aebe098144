------------------------- MODULE OfflineShellProofs -------------------------
(***************************************************************************)
(* What holds of OfflineShell for any number of addresses, deployments and *)
(* writes under way.                                                       *)
(***************************************************************************)
EXTENDS OfflineShell, FiniteSetTheorems, WellFoundedInduction, TLAPS

(***************************************************************************)
(* Nothing is cached that has not been deployed: no page of a later build, *)
(* nothing under a later VERSION, and every page under way is a page.      *)
(***************************************************************************)
Past ==
  /\ worker.active <= script /\ worker.installing <= script
  /\ \A v \in Editions : script < v => cache[v] = Empty
  /\ \A v \in Editions, u \in Urls : cache[v].pages[u] <= live
  /\ \A w \in writes : w.kind = "page" => w.value <= live

SInv ==
  /\ TypeOK
  /\ IsFiniteSet(writes)
  /\ tab.pc = "loading" => tab.build # 0
  /\ Past

LEMMA EditionFacts ==
  /\ Editions \subseteq Nat \ {0} /\ 1 \in Editions
  /\ \A k \in Nat : k \in Editions <=> 1 <= k /\ k <= MaxChanges + 1
BY ShellAssumption DEF ShellAssumption, Editions

LEMMA EmptyType ==
  Empty \in Caches /\ Empty.scripts = {} /\ \A u \in Urls : Empty.pages[u] = 0
BY DEF Empty, Caches

\* The older of the caches that hold a page is one of them.
LEMMA KeptPageIsCached ==
  ASSUME TypeOK, NEW u \in Urls, KeptPage(u) # 0
  PROVE  \E v \in Editions : cache[v].pages[u] = KeptPage(u)
<1> DEFINE vs == {v \in Editions : cache[v].pages[u] # 0}
<1>1. vs # {}
  BY DEF KeptPage
<1>2. vs \subseteq Nat
  BY EditionFacts
<1>3. PICK m \in vs : \A k \in vs : ~(<<k, m>> \in OpToRel(<, Nat))
  <2> HIDE DEF vs
  <2> QED BY <1>1, <1>2, NatLessThanWellFounded, WFMin, Zenon
<1>4. \A k \in vs : m <= k
  <2> SUFFICES ASSUME NEW k \in vs PROVE m <= k
    OBVIOUS
  <2>1. ~(k < m)
    BY <1>2, <1>3 DEF OpToRel
  <2> QED BY <1>2, <2>1
<1> DEFINE first == CHOOSE v \in vs : \A x \in vs : v <= x
<1>5. first \in vs
  BY <1>4
<1>6. KeptPage(u) = cache[first].pages[u]
  BY <1>1 DEF KeptPage
<1> QED BY <1>5, <1>6

LEMMA CacheFields ==
  ASSUME TypeOK, NEW v \in Editions
  PROVE  /\ cache[v] \in Caches
         /\ cache[v].pages \in [Urls -> {0} \union Editions]
         /\ cache[v].scripts \subseteq Editions
BY DEF TypeOK, Caches

LEMMA WorkerFields ==
  ASSUME TypeOK
  PROVE  /\ worker.active \in {0} \union Editions
         /\ worker.installing \in {0} \union Editions
         /\ worker.todo \subseteq Shell
         /\ live \in Editions /\ script \in Editions /\ data \in Editions
BY DEF TypeOK, Workers

LEMMA Numbers ==
  ASSUME TypeOK
  PROVE  /\ worker.active \in Nat /\ worker.installing \in Nat
         /\ live \in Nat /\ script \in Nat
         /\ \A v \in Editions, u \in Urls : cache[v].pages[u] \in Nat
         /\ \A w \in writes : w.value \in Nat
<1>1. {0} \union Editions \subseteq Nat /\ Editions \subseteq Nat
  BY EditionFacts
<1>2. \A w \in writes : w.value \in Editions
  BY DEF TypeOK, Writes
<1>3. \A v \in Editions, u \in Urls : cache[v].pages[u] \in {0} \union Editions
  BY CacheFields
<1> QED BY <1>1, <1>2, <1>3, WorkerFields

-----------------------------------------------------------------------------
(* Initially *)

LEMMA SInit == Init => SInv
<1> SUFFICES ASSUME Init PROVE SInv
  OBVIOUS
<1>1. worker \in Workers /\ worker.active = 0 /\ worker.installing = 0
  BY DEF Init, Workers
<1>2. cache \in [Editions -> Caches] /\ \A v \in Editions : cache[v] = Empty
  BY EmptyType DEF Init
<1>3. writes = {} /\ IsFiniteSet(writes) /\ Cardinality(writes) = 0
  BY FS_EmptySet DEF Init
<1>4. tab \in Tabs /\ tab.pc = "blank"
  BY ShellAssumption DEF Init, Tabs, Settled, ShellAssumption
<1>5. {live, script, data} \subseteq Editions /\ live = 1 /\ script = 1 /\ line = "ok"
  BY EditionFacts DEF Init
<1>6. TypeOK
  BY <1>1, <1>2, <1>3, <1>4, <1>5, ShellAssumption DEF TypeOK, ShellAssumption
<1>7. Past
  BY <1>1, <1>2, <1>3, <1>5, EmptyType DEF Past
<1> QED BY <1>3, <1>4, <1>6, <1>7 DEF SInv

-----------------------------------------------------------------------------
(* Steps that leave the caches and the worker alone *)

\* What the tab may show.
TabOK == tab \in Tabs /\ (tab.pc = "loading" => tab.build # 0)

LEMMA ShowsType ==
  ASSUME NEW pc \in {"loading", "starting"} \union Settled, NEW b \in {0} \union Editions,
         Shows(pc, b), pc = "loading" => b # 0
  PROVE  TabOK'
<1>1. pc \in {"navigating", "loading", "starting"} \union Settled
  OBVIOUS
<1> HIDE DEF Settled
<1> QED BY <1>1, ShellAssumption DEF Shows, Tabs, TabOK, ShellAssumption

\* Only the tab moves, and some writes may begin or be lost.
LEMMA TabStep ==
  ASSUME SInv, TabOK', UNCHANGED serverVars, UNCHANGED <<line, worker, cache>>,
         writes' \subseteq Writes, IsFiniteSet(writes'), Cardinality(writes') <= MaxWrites,
         \A w \in writes' : w \in writes \/ (w.kind = "page" => w.value <= live)
  PROVE  SInv'
<1>1. TypeOK'
  BY DEF SInv, TypeOK, TabOK, serverVars
<1>2. Past'
  BY DEF SInv, Past, serverVars
<1> QED BY <1>1, <1>2 DEF SInv, TabOK

LEMMA TabOnlyStep ==
  ASSUME SInv, TabOK', UNCHANGED serverVars, UNCHANGED <<line, worker, cache, writes>>
  PROVE  SInv'
BY TabStep DEF SInv, TypeOK

\* A write begins.
LEMMA PutEffect ==
  ASSUME SInv, NEW w, Controlled => w \in Writes, Put(w)
  PROVE  /\ writes' \subseteq Writes /\ IsFiniteSet(writes')
         /\ Cardinality(writes') <= MaxWrites
         /\ \A x \in writes' : x \in writes \/ x = w
<1>1. writes' = writes \/ (Controlled /\ writes' = writes \union {w})
  BY DEF Put
<1>2. IsFiniteSet(writes \union {w})
  BY FS_AddElement DEF SInv
<1> QED BY <1>1, <1>2 DEF Put, SInv, TypeOK

LEMMA WriteTypes ==
  ASSUME NEW v \in Editions, NEW x \in Editions, NEW u \in Urls
  PROVE  /\ [kind |-> "page", version |-> v, url |-> u, value |-> x] \in Writes
         /\ [kind |-> "script", version |-> v, value |-> x] \in Writes
         /\ [kind |-> "data", version |-> v, value |-> x] \in Writes
BY DEF Writes

LEMMA InCharge == ASSUME TypeOK, Controlled PROVE worker.active \in Editions
BY WorkerFields DEF Controlled

LEMMA NavigatedStep == SInv /\ Navigated => SInv'
<1> SUFFICES ASSUME SInv, Navigated PROVE SInv'
  OBVIOUS
<1>1. tab.url \in Urls /\ live \in Editions /\ live # 0 /\ TypeOK
  BY EditionFacts, WorkerFields DEF SInv, TypeOK, Tabs
<1>2. UNCHANGED serverVars /\ UNCHANGED <<line, worker, cache>>
  BY DEF Navigated
<1> DEFINE w == [kind |-> "page", version |-> worker.active, url |-> tab.url, value |-> live]
<1>3. w.value = live /\ (Controlled => w \in Writes)
  BY <1>1, InCharge, WriteTypes
<1>4. CASE line = "ok"
  <2>1. Shows("loading", live) /\ Put(w)
    BY <1>4 DEF Navigated
  <2>2. TabOK'
    BY <1>1, <2>1, ShowsType
  <2>3. live <= live
    BY <1>1, EditionFacts
  <2> HIDE DEF w
  <2> QED BY <1>2, <1>3, <2>1, <2>2, <2>3, PutEffect, TabStep
<1>5. CASE line # "ok"
  <2>1. Shows("broken", 0) /\ UNCHANGED writes
    BY <1>5 DEF Navigated
  <2>2. TabOK'
    BY <2>1, ShowsType DEF Settled
  <2> QED BY <1>2, <2>1, <2>2, TabOnlyStep
<1> QED BY <1>4, <1>5

LEMMA FallenBackStep == SInv /\ FallenBack => SInv'
<1> SUFFICES ASSUME SInv, FallenBack PROVE SInv'
  OBVIOUS
<1>1. tab.url \in Urls /\ Report \in Urls /\ TypeOK
  BY ShellAssumption DEF SInv, TypeOK, Tabs, ShellAssumption
<1>2. \A u \in Urls : KeptPage(u) # 0 => KeptPage(u) \in {0} \union Editions
  BY <1>1, KeptPageIsCached, CacheFields
<1>3. TabOK'
  <2>1. CASE \E u \in Urls : KeptPage(u) # 0 /\ Shows("loading", KeptPage(u))
    BY <1>2, <2>1, ShowsType
  <2>2. CASE Shows("offline", 0) \/ Shows("broken", 0)
    BY <2>2, ShowsType DEF Settled
  <2> QED BY <1>1, <2>1, <2>2 DEF FallenBack
<1> QED BY <1>3, TabOnlyStep DEF FallenBack

LEMMA ScriptStep == SInv /\ (ScriptCached \/ ScriptFetched \/ ScriptMissing) => SInv'
<1> SUFFICES ASSUME SInv, ScriptCached \/ ScriptFetched \/ ScriptMissing PROVE SInv'
  OBVIOUS
<1>1. tab.build \in Editions /\ TypeOK
  BY DEF SInv, TypeOK, Tabs, ScriptCached, ScriptFetched, ScriptMissing
<1>2. CASE ScriptCached
  BY <1>1, <1>2, ShowsType, TabOnlyStep DEF ScriptCached
<1>3. CASE ScriptFetched
  <2> DEFINE w == [kind |-> "script", version |-> worker.active, value |-> tab.build]
  <2>1. w.kind # "page" /\ (Controlled => w \in Writes)
    BY <1>1, InCharge, WriteTypes, ShellAssumption DEF ShellAssumption
  <2>2. Shows("starting", tab.build) /\ Put(w)
        /\ UNCHANGED serverVars /\ UNCHANGED <<line, worker, cache>>
    BY <1>3 DEF ScriptFetched
  <2>3. TabOK'
    BY <1>1, <2>2, ShowsType
  <2> HIDE DEF w
  <2> QED BY <2>1, <2>2, <2>3, PutEffect, TabStep
<1>4. CASE ScriptMissing
  <2>1. TabOK'
    BY <1>4, ShowsType DEF ScriptMissing, Settled
  <2> QED BY <1>4, <2>1, TabOnlyStep DEF ScriptMissing
<1> QED BY <1>2, <1>3, <1>4

LEMMA BootstrapStep == SInv /\ Bootstrap => SInv'
<1> SUFFICES ASSUME SInv, Bootstrap PROVE SInv'
  OBVIOUS
<1>1. TypeOK /\ data \in Editions
  BY WorkerFields DEF SInv
<1>2. TabOK' /\ UNCHANGED serverVars /\ UNCHANGED <<line, worker, cache>>
  BY ShowsType DEF Bootstrap, Settled
<1> DEFINE w == [kind |-> "data", version |-> worker.active, value |-> data]
<1>3. w.kind # "page" /\ (Controlled => w \in Writes)
  BY <1>1, InCharge, WriteTypes, ShellAssumption DEF ShellAssumption
<1>4. CASE line = "ok"
  <2>1. Put(w)
    BY <1>4 DEF Bootstrap
  <2> HIDE DEF w
  <2> QED BY <1>2, <1>3, <2>1, PutEffect, TabStep
<1>5. CASE line # "ok"
  BY <1>2, <1>5, TabOnlyStep DEF Bootstrap
<1> QED BY <1>4, <1>5

LEMMA VisitStep == ASSUME SInv, NEW u \in Urls, Visit(u) PROVE SInv'
<1>1. TabOK'
  BY DEF Visit, Tabs, TabOK
<1> QED BY <1>1, TabOnlyStep DEF Visit

LEMMA StopStep == SInv /\ Stop => SInv'
<1> SUFFICES ASSUME SInv, Stop PROVE SInv'
  OBVIOUS
<1>1. writes' = {} /\ IsFiniteSet(writes') /\ Cardinality(writes') <= MaxWrites
  BY FS_EmptySet, ShellAssumption DEF Stop, ShellAssumption
<1>2. TabOK'
  BY DEF Stop, SInv, TypeOK, TabOK
<1> QED BY <1>1, <1>2, TabStep DEF Stop

-----------------------------------------------------------------------------
(* The worker, its caches and the world *)

\* A cache of the present VERSION takes up a page of a build that has been, or
\* something that is no page.
LEMMA CacheStep ==
  ASSUME SInv, NEW v \in Editions, NEW c \in Caches, v <= script,
         cache' = [cache EXCEPT ![v] = c],
         \A u \in Urls : c.pages[u] <= live,
         UNCHANGED serverVars, UNCHANGED <<line, tab>>,
         worker' \in Workers, worker'.active = worker.active,
         worker'.installing = worker.installing,
         writes' \subseteq writes
  PROVE  SInv'
<1>1. IsFiniteSet(writes') /\ Cardinality(writes') <= MaxWrites
  <2>1. IsFiniteSet(writes') /\ Cardinality(writes') <= Cardinality(writes)
    BY FS_Subset DEF SInv
  <2>2. Cardinality(writes') \in Nat /\ Cardinality(writes) \in Nat
    BY <2>1, FS_CardinalityType DEF SInv
  <2> QED BY <2>1, <2>2, ShellAssumption DEF SInv, TypeOK, ShellAssumption
<1>2. cache' \in [Editions -> Caches] /\ cache'[v] = c
      /\ \A x \in Editions \ {v} : cache'[x] = cache[x]
  BY DEF SInv, TypeOK
<1>3. TypeOK'
  BY <1>1, <1>2 DEF SInv, TypeOK, serverVars
<1>4. Past'
  <2>1. v \in Nat /\ script \in Nat
    BY EditionFacts, WorkerFields DEF SInv
  <2>2. ~(script < v)
    BY <2>1
  <2> QED BY <1>2, <2>2 DEF SInv, Past, serverVars
<1> QED BY <1>1, <1>3, <1>4 DEF SInv

LEMMA AddShellStep == ASSUME SInv, NEW a \in Shell, AddShell(a) PROVE SInv'
<1> DEFINE v == worker.installing
<1>1. v \in Editions /\ v <= script /\ TypeOK /\ live \in Editions /\ Report \in Urls
  BY WorkerFields, ShellAssumption DEF AddShell, SInv, Past, ShellAssumption
<1>2. cache[v] \in Caches /\ \A u \in Urls : cache[v].pages[u] <= live
  BY <1>1, CacheFields DEF SInv, Past
<1>3. worker' = [worker EXCEPT !.todo = @ \ {a}]
  BY DEF AddShell
<1>4. worker' \in Workers /\ worker'.active = worker.active
      /\ worker'.installing = worker.installing
  BY <1>1, <1>3 DEF TypeOK, Workers
<1>5. PICK c \in Caches : /\ cache' = [cache EXCEPT ![v] = c]
                          /\ \A u \in Urls : c.pages[u] <= live
  <2> DEFINE noticed == [cache[v] EXCEPT !.offline = TRUE]
             paged == [cache[v] EXCEPT !.pages[Report] = live]
  <2>1. noticed \in Caches /\ noticed.pages = cache[v].pages
    BY <1>2 DEF Caches
  <2>2. paged \in Caches /\ paged.pages = [cache[v].pages EXCEPT ![Report] = live]
    BY <1>1, <1>2 DEF Caches
  <2>3. \A u \in Urls : paged.pages[u] <= live
    BY <1>1, <1>2, <2>2, CacheFields, EditionFacts
  <2>4. \/ cache' = [cache EXCEPT ![v] = cache[v]]
        \/ cache' = [cache EXCEPT ![v] = noticed]
        \/ cache' = [cache EXCEPT ![v] = paged]
    BY DEF AddShell
  <2> HIDE DEF noticed, paged, v
  <2> QED BY <1>2, <2>1, <2>2, <2>3, <2>4
<1>6. UNCHANGED serverVars /\ UNCHANGED <<line, tab>> /\ writes' \subseteq writes
  BY DEF AddShell
<1> QED BY <1>1, <1>4, <1>5, <1>6, CacheStep

LEMMA LandStep == ASSUME SInv, NEW w \in writes, Land(w) PROVE SInv'
<1> DEFINE v == worker.active
<1>1. w \in Writes /\ w.version \in Editions /\ w.value \in Editions /\ TypeOK
      /\ (w.kind = "page" => w.url \in Urls /\ w.value <= live)
  BY DEF SInv, TypeOK, Writes, Past
<1>2. UNCHANGED serverVars /\ UNCHANGED <<line, tab, worker>> /\ writes' \subseteq writes
  BY DEF Land
<1>3. CASE w.version # v
  <2>1. cache' = cache /\ TabOK'
    BY <1>2, <1>3 DEF Land, SInv, TypeOK, TabOK
  <2>2. IsFiniteSet(writes') /\ Cardinality(writes') <= MaxWrites
    <3>1. IsFiniteSet(writes') /\ Cardinality(writes') <= Cardinality(writes)
      BY <1>2, FS_Subset DEF SInv
    <3>2. Cardinality(writes') \in Nat /\ Cardinality(writes) \in Nat
      BY <3>1, FS_CardinalityType DEF SInv
    <3> QED BY <3>1, <3>2, ShellAssumption DEF SInv, TypeOK, ShellAssumption
  <2> QED BY <1>1, <1>2, <2>1, <2>2, TabStep DEF TypeOK
<1>4. CASE w.version = v
  <2>1. v \in Editions /\ v <= script
    BY <1>1, <1>4 DEF SInv, Past
  <2>2. cache[v] \in Caches /\ \A u \in Urls : cache[v].pages[u] <= live
    BY <1>1, <2>1, CacheFields DEF SInv, Past
  <2> DEFINE paged == [cache[v] EXCEPT !.pages[w.url] = w.value]
             scripted == [cache[v] EXCEPT !.scripts = cache[v].scripts \union {w.value}]
             dated == [cache[v] EXCEPT !.data = w.value]
  <2>3. scripted \in Caches /\ scripted.pages = cache[v].pages
    BY <1>1, <2>2 DEF Caches
  <2>4. dated \in Caches /\ dated.pages = cache[v].pages
    BY <1>1, <2>2 DEF Caches
  <2>5. CASE w.kind = "page"
    <3>1. paged \in Caches /\ paged.pages = [cache[v].pages EXCEPT ![w.url] = w.value]
      BY <1>1, <2>2, <2>5 DEF Caches
    <3>2. \A u \in Urls : paged.pages[u] <= live
      BY <1>1, <2>2, <2>5, <3>1, <2>1, CacheFields
    <3>3. cache' = [cache EXCEPT ![v] = paged]
      BY <1>4, <2>5 DEF Land
    <3> HIDE DEF paged
    <3> QED BY <1>1, <1>2, <2>1, <3>1, <3>2, <3>3, CacheStep DEF TypeOK
  <2>6. CASE w.kind = "script"
    <3>1. cache' = [cache EXCEPT ![v] = scripted]
      BY <1>4, <2>6 DEF Land
    <3> HIDE DEF scripted
    <3> QED BY <1>1, <1>2, <2>1, <2>2, <2>3, <3>1, CacheStep DEF TypeOK
  <2>7. CASE w.kind = "data"
    <3>1. cache' = [cache EXCEPT ![v] = dated]
      BY <1>4, <2>7 DEF Land
    <3> HIDE DEF dated
    <3> QED BY <1>1, <1>2, <2>1, <2>2, <2>4, <3>1, CacheStep DEF TypeOK
  <2> QED BY <1>1, <2>5, <2>6, <2>7 DEF Writes
<1> QED BY <1>3, <1>4

LEMMA RegisterStep == SInv /\ Register => SInv'
<1> SUFFICES ASSUME SInv, Register PROVE SInv'
  OBVIOUS
<1>1. worker' \in Workers /\ worker'.active = worker.active /\ worker'.installing = script
  BY DEF Register, SInv, TypeOK, Workers
<1>2. script <= script
  BY Numbers DEF SInv
<1>3. TypeOK'
  BY <1>1 DEF Register, SInv, TypeOK, serverVars
<1>4. Past'
  BY <1>1, <1>2 DEF Register, SInv, Past, serverVars
<1> QED BY <1>3, <1>4 DEF Register, SInv

LEMMA ActivateStep == SInv /\ Activate => SInv'
<1> SUFFICES ASSUME SInv, Activate PROVE SInv'
  OBVIOUS
<1> DEFINE v == worker.installing
<1>1. v \in Editions /\ v <= script
  BY WorkerFields DEF Activate, SInv, Past
<1>2. worker' \in Workers /\ worker'.active = v /\ worker'.installing = 0
  BY <1>1 DEF Activate, Workers
<1>3. cache' = [x \in Editions |-> IF x = v THEN cache[x] ELSE Empty]
  BY DEF Activate
<1>4. cache' \in [Editions -> Caches]
  BY <1>3, EmptyType DEF SInv, TypeOK
<1>5. TypeOK'
  BY <1>2, <1>4 DEF Activate, SInv, TypeOK, serverVars
<1>6. 0 <= script /\ 0 <= live
  BY Numbers DEF SInv
<1>7. Past'
  BY <1>1, <1>2, <1>3, <1>6, EmptyType DEF Activate, SInv, Past, serverVars
<1> QED BY <1>5, <1>7 DEF Activate, SInv

LEMMA DeployStep == SInv /\ Deploy => SInv'
<1> SUFFICES ASSUME SInv, Deploy PROVE SInv'
  OBVIOUS
<1>1. live \in Nat \ {0} /\ script \in Nat \ {0} /\ data \in Nat \ {0}
  BY EditionFacts, WorkerFields DEF SInv
<1>2. /\ live' \in Nat /\ script' \in Nat /\ data' \in Nat
      /\ live <= live' /\ script <= script' /\ data <= data'
      /\ live' <= MaxChanges + 1 /\ script' <= MaxChanges + 1 /\ data' <= MaxChanges + 1
  <2>1. live <= MaxChanges + 1 /\ script <= MaxChanges + 1 /\ data <= MaxChanges + 1
    BY <1>1, EditionFacts, WorkerFields DEF SInv
  <2> QED BY <1>1, <2>1, ShellAssumption DEF Deploy, ShellAssumption
<1>3. live' \in Editions /\ script' \in Editions /\ data' \in Editions
  BY <1>1, <1>2, EditionFacts
<1>4. UNCHANGED <<line, worker, cache, writes, tab>>
  BY DEF Deploy
<1>5. TypeOK'
  BY <1>3, <1>4 DEF SInv, TypeOK
<1>6. Past'
  <2>1. /\ worker.active \in Nat /\ worker.installing \in Nat
        /\ \A v \in Editions, u \in Urls : cache[v].pages[u] \in Nat
        /\ \A w \in writes : w.value \in Nat
        /\ \A v \in Editions : v \in Nat
    BY Numbers, EditionFacts DEF SInv
  <2>2. worker'.active <= script' /\ worker'.installing <= script'
    BY <1>1, <1>2, <1>4, <2>1 DEF SInv, Past
  <2>3. \A v \in Editions : script' < v => cache'[v] = Empty
    BY <1>1, <1>2, <1>4, <2>1 DEF SInv, Past
  <2>4. \A v \in Editions, u \in Urls : cache'[v].pages[u] <= live'
    BY <1>1, <1>2, <1>4, <2>1 DEF SInv, Past
  <2>5. \A w \in writes' : w.kind = "page" => w.value <= live'
    BY <1>1, <1>2, <1>4, <2>1 DEF SInv, Past
  <2> QED BY <2>2, <2>3, <2>4, <2>5 DEF Past
<1> QED BY <1>4, <1>5, <1>6 DEF SInv

LEMMA SNext == SInv /\ [Next]_vars => SInv'
<1> SUFFICES ASSUME SInv, [Next]_vars PROVE SInv'
  OBVIOUS
<1>1. CASE Installs
  BY <1>1, RegisterStep, AddShellStep, ActivateStep DEF Installs
<1>2. CASE Loads
  BY <1>2, NavigatedStep, FallenBackStep, ScriptStep, BootstrapStep DEF Loads
<1>3. ASSUME NEW u \in Urls, Visit(u) PROVE SInv'
  BY <1>3, VisitStep
<1>4. ASSUME NEW w \in writes, Land(w) PROVE SInv'
  BY <1>4, LandStep
<1>5. CASE Stop \/ Deploy
  BY <1>5, StopStep, DeployStep
<1>6. ASSUME NEW x \in {"ok", "error", "off"}, Connection(x) PROVE SInv'
  BY <1>6 DEF Connection, SInv, TypeOK, Past, serverVars
<1>7. CASE UNCHANGED vars
  BY <1>7 DEF vars, serverVars, SInv, TypeOK, Past
<1> QED BY <1>1, <1>2, <1>3, <1>4, <1>5, <1>6, <1>7 DEF Next

-----------------------------------------------------------------------------
(* The theorems *)

\* The inductive invariant: the types, and nothing is cached before it is deployed.
THEOREM ShellInvariance == Spec => []SInv
BY SInit, SNext, PTL DEF Spec

\* Every variable keeps its type, and no more writes are under way than allowed.
THEOREM ShellTypeCorrect == Spec => []TypeOK
<1>1. SInv => TypeOK
  BY DEF SInv
<1> QED BY <1>1, ShellInvariance, PTL

\* With one build and one VERSION deployed there is one cache, and what it keeps
\* of the app is the app.
LEMMA OneCache ==
  ASSUME SInv, live = 1, script = 1
  PROVE  /\ \A v \in Editions \ {1} : cache[v] = Empty
         /\ \A u \in Urls : cache[1].pages[u] \in {0, 1}
         /\ worker.active \in {0, 1} /\ worker.installing \in {0, 1}
<1>1. \A v \in Editions \ {1} : cache[v] = Empty
  <2>1. \A v \in Editions \ {1} : 1 < v
    BY EditionFacts
  <2> QED BY <2>1 DEF SInv, Past
<1>2. \A u \in Urls : cache[1].pages[u] \in Nat /\ cache[1].pages[u] <= 1
  BY EditionFacts, Numbers DEF SInv, Past
<1>3. worker.active \in Nat /\ worker.installing \in Nat
      /\ worker.active <= 1 /\ worker.installing <= 1
  BY Numbers DEF SInv, Past
<1> QED BY <1>1, <1>2, <1>3

\* The app, complete, in the cache of the first VERSION.
Whole == worker.active = 1 /\ cache[1].pages[Report] = 1 /\ 1 \in cache[1].scripts

LEMMA OpeningNeedsTheApp ==
  ASSUME SInv, live = 1, script = 1, OpensOffline
  PROVE  Whole
<1>1. Report \in Urls /\ 1 \in Editions /\ TypeOK
  BY ShellAssumption, EditionFacts DEF ShellAssumption, SInv
<1>2. PICK v \in Editions : cache[v].pages[Report] = KeptPage(Report)
  BY <1>1, KeptPageIsCached DEF OpensOffline
<1>3. v = 1 /\ KeptPage(Report) = 1 /\ cache[1].pages[Report] = 1
  BY <1>1, <1>2, OneCache, EmptyType DEF OpensOffline
<1>4. 1 \in cache[1].scripts
  BY <1>1, <1>3, OneCache, EmptyType DEF OpensOffline, KeptScript
<1>5. worker.active = 1
  BY OneCache DEF OpensOffline, Controlled
<1> QED BY <1>3, <1>4, <1>5 DEF Whole

LEMMA TheAppOpens ==
  ASSUME SInv, live = 1, script = 1, Whole
  PROVE  OpensOffline
<1>1. Report \in Urls /\ 1 \in Editions
  BY ShellAssumption, EditionFacts DEF ShellAssumption
<1>2. {v \in Editions : cache[v].pages[Report] # 0} = {1}
  BY <1>1, OneCache, EmptyType DEF Whole
<1>3. (CHOOSE v \in {1} : \A x \in {1} : v <= x) = 1
  OBVIOUS
<1>4. KeptPage(Report) = 1
  BY <1>2, <1>3 DEF KeptPage, Whole
<1>5. KeptScript(1)
  BY <1>1 DEF KeptScript, Whole
<1> QED BY <1>4, <1>5 DEF OpensOffline, Controlled, Whole

\* The step: nobody but a deployment takes the app from the cache.
LEMMA WholeStaysWhole ==
  ASSUME SInv, [Next]_vars, live = 1, script = 1, Whole, live' = 1, script' = 1
  PROVE  Whole'
<1>1. Report \in Urls /\ 1 \in Editions /\ cache[1] \in Caches
      /\ cache \in [Editions -> Caches]
  BY ShellAssumption, EditionFacts, CacheFields DEF ShellAssumption, SInv, TypeOK
<1>2. CASE UNCHANGED <<worker, cache>>
  BY <1>2 DEF Whole
<1>3. CASE Register
  BY <1>3 DEF Register, Whole, SInv, TypeOK, Workers
<1>4. ASSUME NEW a \in Shell, AddShell(a) PROVE Whole'
  <2>1. worker.installing = 1
    BY <1>4, OneCache DEF AddShell
  <2>2. worker'.active = 1
    BY <1>4 DEF AddShell, Whole, SInv, TypeOK, Workers
  <2>3. cache'[1] = cache[1] \/ cache'[1] = [cache[1] EXCEPT !.offline = TRUE]
        \/ cache'[1] = [cache[1] EXCEPT !.pages[Report] = 1]
    BY <1>1, <1>4, <2>1 DEF AddShell
  <2>4. cache'[1].scripts = cache[1].scripts /\ cache'[1].pages[Report] = 1
    BY <1>1, <2>3 DEF Caches, Whole
  <2> QED BY <2>2, <2>4 DEF Whole
<1>5. CASE Activate
  <2>1. worker.installing = 1
    BY <1>5, OneCache DEF Activate
  <2>2. worker'.active = 1 /\ cache'[1] = cache[1]
    BY <1>1, <1>5, <2>1 DEF Activate
  <2> QED BY <2>2 DEF Whole
<1>6. ASSUME NEW w \in writes, Land(w) PROVE Whole'
  <2>1. w \in Writes /\ w.value \in Editions /\ (w.kind = "page" => w.value = 1)
    <3>1. w \in Writes /\ w.value \in Editions
      BY DEF SInv, TypeOK, Writes
    <3>2. w.value \in Nat \ {0}
      BY <3>1, EditionFacts
    <3> QED BY <3>1, <3>2 DEF SInv, Past
  <2>2. worker' = worker
    BY <1>6 DEF Land
  <2>3. CASE w.version # 1
    BY <1>6, <2>2, <2>3 DEF Land, Whole
  <2>4. CASE w.version = 1
    <3>1. \/ w.kind = "page" /\ cache'[1] = [cache[1] EXCEPT !.pages[w.url] = 1]
          \/ cache'[1] = [cache[1] EXCEPT !.scripts = cache[1].scripts \union {w.value}]
          \/ cache'[1] = [cache[1] EXCEPT !.data = w.value]
      <4>1. w.kind \in {"page", "script", "data"}
        BY <2>1 DEF Writes
      <4> QED BY <1>1, <1>6, <2>1, <2>4, <4>1 DEF Land, Whole
    <3>2. cache[1].scripts \subseteq cache'[1].scripts /\ cache'[1].pages[Report] = 1
      BY <1>1, <3>1 DEF Caches, Whole
    <3> QED BY <2>2, <3>2 DEF Whole
  <2> QED BY <2>3, <2>4
<1>7. CASE Loads
  BY <1>2, <1>7 DEF Loads, Navigated, FallenBack, ScriptCached, ScriptFetched, ScriptMissing,
     Bootstrap
<1>8. CASE Stop \/ Deploy \/ (\E u \in Urls : Visit(u))
           \/ (\E x \in {"ok", "error", "off"} : Connection(x)) \/ UNCHANGED vars
  BY <1>2, <1>8 DEF Stop, Deploy, Visit, Connection, vars
<1> QED BY <1>3, <1>4, <1>5, <1>6, <1>7, <1>8 DEF Next, Installs

\* Until something is deployed, an app that opens with no connection keeps doing
\* so: no error page, lost write, stopped worker or renewed install takes it away.
THEOREM AppIsKept == Spec => KeptWithoutDeployment
<1>1. SInv /\ NothingDeployed /\ OpensOffline => Whole
  BY OpeningNeedsTheApp DEF NothingDeployed
<1>2. SInv /\ NothingDeployed /\ Whole => OpensOffline
  BY TheAppOpens DEF NothingDeployed
<1>3. SInv /\ [Next]_vars /\ NothingDeployed' => NothingDeployed
  <2> SUFFICES ASSUME SInv, [Next]_vars, NothingDeployed' PROVE NothingDeployed
    OBVIOUS
  <2>1. live \in Nat \ {0} /\ script \in Nat \ {0}
    BY EditionFacts, WorkerFields DEF SInv
  <2>2. CASE UNCHANGED <<live, script>>
    BY <2>2 DEF NothingDeployed
  <2>3. CASE Deploy
    BY <2>1, <2>3 DEF Deploy, NothingDeployed
  <2> QED BY <2>2, <2>3
          DEF Next, Installs, Loads, Register, AddShell, Activate, Navigated, FallenBack,
              ScriptCached, ScriptFetched, ScriptMissing, Bootstrap, Visit, Land, Stop,
              Connection, serverVars, vars
<1>4. SInv /\ [Next]_vars /\ NothingDeployed /\ NothingDeployed' /\ Whole => Whole'
  BY WholeStaysWhole DEF NothingDeployed
<1> QED BY <1>1, <1>2, <1>3, <1>4, ShellInvariance, PTL DEF Spec, KeptWithoutDeployment

-----------------------------------------------------------------------------
(* After a deployment *)

\* The worker of the VERSION deployed is in charge and no other is on its way.
InStep == worker.active = script /\ worker.installing = 0

\* The app of the build deployed is on the device, and no write that is still to
\* land can put an earlier page in its place.
AppIsCurrent ==
  /\ InStep
  /\ cache[script].pages[Report] = live /\ live \in cache[script].scripts
  /\ \A w \in writes : w.kind = "page" /\ w.version = script /\ w.url = Report => w.value = live

CatalogueIsCurrent ==
  /\ InStep
  /\ cache[script].data = data
  /\ \A w \in writes : w.kind = "data" /\ w.version = script => w.value = data

\* Once the device has caught up with a deployment it opens the current app with no
\* connection, and only the next deployment changes that; the same for the catalogue.
\* The writes under way are part of it: cache.put() is not awaited, and one that is
\* late brings an older page back (sw.js:67-70, 86-101).
CaughtUpStays ==
  /\ [](AppIsCurrent => OpensOffline /\ KeptPage(Report) = live)
  /\ [][/\ AppIsCurrent /\ UNCHANGED <<live, script>> => AppIsCurrent'
        /\ CatalogueIsCurrent /\ UNCHANGED <<data, script>> => CatalogueIsCurrent']_vars

\* What is cached belongs to the worker in charge or to the one being installed.
CachesOwned ==
  \A v \in Editions : v # worker.active /\ v # worker.installing => cache[v] = Empty

LEMMA OwnedInit == Init => CachesOwned
BY DEF Init, CachesOwned

LEMMA OwnedNext == SInv /\ CachesOwned /\ [Next]_vars => CachesOwned'
<1> SUFFICES ASSUME SInv, CachesOwned, [Next]_vars PROVE CachesOwned'
  OBVIOUS
<1>1. cache \in [Editions -> Caches] /\ worker \in Workers
  BY DEF SInv, TypeOK
<1>2. CASE UNCHANGED <<worker, cache>>
  BY <1>2 DEF CachesOwned
<1>3. CASE Register
  <2>1. /\ worker.installing = 0 /\ cache' = cache
        /\ worker'.active = worker.active
    BY <1>1, <1>3 DEF Register, Workers
  <2>2. \A v \in Editions : v # 0
    BY EditionFacts
  <2> QED BY <2>1, <2>2 DEF CachesOwned
<1>4. ASSUME NEW a \in Shell, AddShell(a) PROVE CachesOwned'
  <2>1. worker'.active = worker.active /\ worker'.installing = worker.installing
    BY <1>1, <1>4 DEF AddShell, Workers
  <2>2. \A v \in Editions : v # worker.installing => cache'[v] = cache[v]
    BY <1>1, <1>4 DEF AddShell
  <2> QED BY <2>1, <2>2 DEF CachesOwned
<1>5. CASE Activate
  BY <1>1, <1>5 DEF Activate, CachesOwned
<1>6. ASSUME NEW w \in writes, Land(w) PROVE CachesOwned'
  <2>1. worker' = worker /\ \A v \in Editions : v # worker.active => cache'[v] = cache[v]
    BY <1>1, <1>6 DEF Land
  <2> QED BY <2>1 DEF CachesOwned
<1>7. CASE Loads
  BY <1>2, <1>7 DEF Loads, Navigated, FallenBack, ScriptCached, ScriptFetched, ScriptMissing,
     Bootstrap
<1>8. CASE Stop \/ Deploy \/ (\E u \in Urls : Visit(u))
           \/ (\E x \in {"ok", "error", "off"} : Connection(x)) \/ UNCHANGED vars
  BY <1>2, <1>8 DEF Stop, Deploy, Visit, Connection, vars
<1> QED BY <1>3, <1>4, <1>5, <1>6, <1>7, <1>8 DEF Next, Installs

\* One cache, with the current page and its script: the app opens.
LEMMA CurrentAppOpens ==
  ASSUME SInv, CachesOwned, AppIsCurrent
  PROVE  OpensOffline /\ KeptPage(Report) = live
<1>1. Report \in Urls /\ script \in Editions /\ live \in Editions /\ script # 0 /\ live # 0
  BY ShellAssumption, EditionFacts, WorkerFields DEF ShellAssumption, SInv
<1>2. \A v \in Editions \ {script} : cache[v].pages[Report] = 0
  <2>1. \A v \in Editions : v # 0
    BY EditionFacts
  <2> QED BY <1>1, <2>1, EmptyType DEF CachesOwned, AppIsCurrent, InStep
<1>3. {v \in Editions : cache[v].pages[Report] # 0} = {script}
  BY <1>1, <1>2 DEF AppIsCurrent
<1>4. (CHOOSE v \in {script} : \A x \in {script} : v <= x) = script
  <2>1. script <= script
    BY Numbers DEF SInv
  <2> QED BY <2>1
<1>5. KeptPage(Report) = live
  BY <1>3, <1>4 DEF KeptPage, AppIsCurrent
<1>6. KeptScript(live)
  BY <1>1 DEF KeptScript, AppIsCurrent
<1>7. Controlled
  BY <1>1 DEF Controlled, AppIsCurrent, InStep
<1> QED BY <1>1, <1>5, <1>6, <1>7 DEF OpensOffline

\* What a worker in step writes is what is deployed.
LEMMA WritesAreCurrent ==
  ASSUME SInv, [Next]_vars, InStep
  PROVE  \A w \in writes' : \/ w \in writes
                            \/ w.kind = "page" /\ w.value = live
                            \/ w.kind = "data" /\ w.value = data
                            \/ w.kind = "script"
<1>1. CASE writes' \subseteq writes
  BY <1>1
<1>2. ASSUME NEW x, Put(x) PROVE \A w \in writes' : w \in writes \/ w = x
  BY <1>2 DEF Put
<1>3. CASE Loads
  <2>1. CASE Navigated
    BY <1>1, <1>2, <2>1 DEF Navigated
  <2>2. CASE ScriptFetched
    BY <1>2, <2>2 DEF ScriptFetched
  <2>3. CASE Bootstrap
    BY <1>1, <1>2, <2>3 DEF Bootstrap
  <2> QED BY <1>1, <1>3, <2>1, <2>2, <2>3 DEF Loads, FallenBack, ScriptCached, ScriptMissing
<1>4. CASE ~Loads
  BY <1>1, <1>4 DEF Next, Installs, Register, AddShell, Activate, Visit, Land, Stop, Deploy,
     Connection, vars
<1> QED BY <1>3, <1>4

\* A worker in step stays so, and only a write that lands touches its cache.
LEMMA InStepStays ==
  ASSUME SInv, [Next]_vars, InStep, UNCHANGED script
  PROVE  /\ InStep'
         /\ \/ cache' = cache
            \/ \E w \in writes : Land(w)
<1>1. script \in Nat \ {0}
  BY EditionFacts, WorkerFields DEF SInv
<1>2. ~Register /\ ~Activate /\ \A a \in Shell : ~AddShell(a)
  BY DEF InStep, Register, Activate, AddShell
<1>3. worker' = worker
  BY <1>2 DEF Next, Installs, Loads, Navigated, FallenBack, ScriptCached, ScriptFetched,
     ScriptMissing, Bootstrap, Visit, Land, Stop, Deploy, Connection, vars
<1>4. cache' = cache \/ \E w \in writes : Land(w)
  BY <1>2 DEF Next, Installs, Loads, Navigated, FallenBack, ScriptCached, ScriptFetched,
     ScriptMissing, Bootstrap, Visit, Stop, Deploy, Connection, vars
<1> QED BY <1>3, <1>4 DEF InStep

\* What a write changes in the cache of a worker in step.
LEMMA LandInStep ==
  ASSUME SInv, InStep, NEW w \in writes, Land(w)
  PROVE  \/ cache'[script] = cache[script]
         \/ /\ w.version = script /\ w.kind = "page"
            /\ cache'[script] = [cache[script] EXCEPT !.pages[w.url] = w.value]
         \/ /\ w.version = script /\ w.kind = "script"
            /\ cache'[script] = [cache[script] EXCEPT !.scripts = cache[script].scripts \union {w.value}]
         \/ /\ w.version = script /\ w.kind = "data"
            /\ cache'[script] = [cache[script] EXCEPT !.data = w.value]
<1>1. w.kind \in {"page", "script", "data"}
  BY DEF SInv, TypeOK, Writes
<1>2. cache \in [Editions -> Caches] /\ script \in Editions /\ worker.active = script
  BY WorkerFields DEF SInv, TypeOK, InStep
<1>3. CASE w.version # script
  BY <1>2, <1>3 DEF Land
<1>4. CASE w.version = script
  <2>1. CASE w.kind = "page"
    BY <1>2, <1>4, <2>1 DEF Land
  <2>2. CASE w.kind = "script"
    BY <1>2, <1>4, <2>2 DEF Land
  <2>3. CASE w.kind = "data"
    BY <1>2, <1>4, <2>3 DEF Land
  <2> QED BY <1>1, <2>1, <2>2, <2>3
<1> QED BY <1>3, <1>4

LEMMA AppStaysCurrent ==
  ASSUME SInv, [Next]_vars, AppIsCurrent, UNCHANGED <<live, script>>
  PROVE  AppIsCurrent'
<1>1. InStep' /\ (cache' = cache \/ \E w \in writes : Land(w))
  BY InStepStays DEF AppIsCurrent
<1>2. \A w \in writes' : w.kind = "page" /\ w.version = script /\ w.url = Report => w.value = live
  BY WritesAreCurrent DEF AppIsCurrent
<1>3. cache'[script].pages[Report] = live /\ live \in cache'[script].scripts
  <2>1. CASE cache' = cache
    BY <2>1 DEF AppIsCurrent
  <2>2. ASSUME NEW w \in writes, Land(w)
        PROVE  cache'[script].pages[Report] = live /\ live \in cache'[script].scripts
    <3>1. /\ cache[script] \in Caches /\ cache[script].pages[Report] = live
          /\ live \in cache[script].scripts /\ Report \in Urls
      BY WorkerFields, CacheFields, ShellAssumption DEF SInv, AppIsCurrent, ShellAssumption
    <3>2. w.kind = "page" /\ w.version = script /\ w.url = Report => w.value = live
      BY DEF AppIsCurrent
    <3> QED BY <2>2, <3>1, <3>2, LandInStep DEF AppIsCurrent, Caches
  <2> QED BY <1>1, <2>1, <2>2
<1> QED BY <1>1, <1>2, <1>3 DEF AppIsCurrent

LEMMA CatalogueStaysCurrent ==
  ASSUME SInv, [Next]_vars, CatalogueIsCurrent, UNCHANGED <<data, script>>
  PROVE  CatalogueIsCurrent'
<1>1. InStep' /\ (cache' = cache \/ \E w \in writes : Land(w))
  BY InStepStays DEF CatalogueIsCurrent
<1>2. \A w \in writes' : w.kind = "data" /\ w.version = script => w.value = data
  BY WritesAreCurrent DEF CatalogueIsCurrent
<1>3. cache'[script].data = data
  <2>1. CASE cache' = cache
    BY <2>1 DEF CatalogueIsCurrent
  <2>2. ASSUME NEW w \in writes, Land(w) PROVE cache'[script].data = data
    <3>1. cache[script] \in Caches /\ cache[script].data = data
      BY WorkerFields, CacheFields DEF SInv, CatalogueIsCurrent
    <3>2. w.kind = "data" /\ w.version = script => w.value = data
      BY DEF CatalogueIsCurrent
    <3> QED BY <2>2, <3>1, <3>2, LandInStep DEF CatalogueIsCurrent, Caches
  <2> QED BY <1>1, <2>1, <2>2
<1> QED BY <1>1, <1>2, <1>3 DEF CatalogueIsCurrent

\* A device that has caught up with the last deployment opens the current app with
\* no connection and keeps it, and the catalogue, until the next one: however many
\* deployments came before, and whatever fails, is lost or is stopped in between.
THEOREM CaughtUpDevicesStaySo == Spec => CaughtUpStays
<1>1. Init => CachesOwned
  BY OwnedInit
<1>2. SInv /\ CachesOwned /\ [Next]_vars => CachesOwned'
  BY OwnedNext
<1>3. SInv /\ CachesOwned => (AppIsCurrent => OpensOffline /\ KeptPage(Report) = live)
  BY CurrentAppOpens
<1>4. SInv /\ [Next]_vars =>
        [/\ AppIsCurrent /\ UNCHANGED <<live, script>> => AppIsCurrent'
         /\ CatalogueIsCurrent /\ UNCHANGED <<data, script>> => CatalogueIsCurrent']_vars
  BY AppStaysCurrent, CatalogueStaysCurrent
<1> QED BY <1>1, <1>2, <1>3, <1>4, ShellInvariance, PTL DEF Spec, CaughtUpStays
=============================================================================
