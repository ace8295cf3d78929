---------------------- MODULE AnalysisSessionCache_proofs ----------------------
(***************************************************************************)
(* Theorems about AnalysisSessionCache for all uris, texts, import keys    *)
(* and bounds.  One inductive invariant carries them: besides the types it *)
(* says what a task in flight refers to (an existing document object and   *)
(* an existing resolver call for its own import text), that every resolver *)
(* call has a task that awaits it, and how old what it read may be.        *)
(***************************************************************************)
EXTENDS AnalysisSessionCache, TLAPS

\* Every object up to the newest exists, and an open document has one.
DocsExist ==
  \A u \in Uris : /\ opened[u] => current[u] # 0
                  /\ \A h \in 1..current[u] : doc[u][h] \in Document

\* A task awaits an existing resolver call of its own uri and import text.
TasksAwait ==
  \A t \in TaskIds : tasks[t] # NoEntry =>
    /\ tasks[t].handle \in 1..current[tasks[t].uri]
    /\ runs[tasks[t].run] # NoEntry
    /\ runs[tasks[t].run].uri = tasks[t].uri
    /\ runs[tasks[t].run].key = ImportKey[tasks[t].text]
    /\ HasResolver

\* A resolver call exists only as long as a task awaits it.
RunsAwaited ==
  \A r \in TaskIds : runs[r] # NoEntry =>
    \E t \in TaskIds : tasks[t] # NoEntry /\ tasks[t].run = r

\* A call that is still joinable has not settled and is of the key it is
\* filed under.
JoinableRuns ==
  \A u \in Uris : pendingExternals[u] # NoEntry =>
    LET r == pendingExternals[u].run
    IN  /\ runs[r] # NoEntry
        /\ runs[r].phase \in {"running", "stored"}
        /\ runs[r].uri = u
        /\ runs[r].key = pendingExternals[u].key

\* Without a task in flight at the last drop of a uri, all its calls read the
\* files as the index had been told of then, or later.
RunsFresh ==
  \A r \in TaskIds : runs[r] # NoEntry =>
    /\ runs[r].since <= world
    /\ ~straddled[runs[r].uri] => /\ runs[r].since >= freshFrom[runs[r].uri]
                                  /\ runs[r].epoch >= freshFrom[runs[r].uri]

\* What the index was told of has happened, and so have the drops.
DropsArePast == told <= world /\ \A u \in Uris : freshFrom[u] <= told

IInv ==
  /\ TypeOK
  /\ DocsExist
  /\ TasksAwait
  /\ RunsAwaited
  /\ JoinableRuns
  /\ RunsFresh
  /\ DropsArePast
  /\ CoherentSessions
  /\ FreshUnlessStraddled

-----------------------------------------------------------------------------
(* What the initial states and each action do to the invariant.            *)

\* No document, no task and no entry: every part holds of the initial state.
LEMMA InitIInv == Init => IInv
  BY BoundsAssumption, DataAssumption
  DEF Init, IInv, TypeOK, DocsExist, TasksAwait, RunsAwaited, JoinableRuns, RunsFresh,
      DropsArePast, CoherentSessions, FreshUnlessStraddled, Handles, Epochs

\* The document object a request is about exists.
LEMMA ObjectExists ==
  ASSUME IInv, NEW u \in Uris, NEW h \in 1..current[u]
  PROVE  h \in Handles /\ doc[u][h] \in Document
  BY BoundsAssumption DEF IInv, TypeOK, DocsExist, Handles

\* An open document has an object, its newest.
LEMMA CurrentDocExists ==
  ASSUME IInv, NEW u \in Uris, opened[u]
  PROVE  /\ current[u] \in 1..current[u]
         /\ current[u] \in Handles
         /\ CurrentDoc(u) \in Document
<1>1. current[u] \in 1..current[u]
  BY DEF IInv, TypeOK, DocsExist
<1> QED
  BY <1>1, ObjectExists DEF CurrentDoc

\* Opening a document adds an object and touches nothing else.
LEMMA OpenStep ==
  ASSUME IInv, NEW u \in Uris, NEW text \in Texts, Open(u, text)
  PROVE  IInv'
<1> USE BoundsAssumption, DataAssumption DEF docVars, fileVars, cacheVars, taskVars, historyVars
<1>1. TypeOK'
  <2>1. doc' \in [Uris -> [Handles -> Document \cup {NoEntry}]]
    BY DEF IInv, TypeOK, Open, CurrentDoc, Document, Versions, Handles,
        DocsExist
  <2>2. current' \in [Uris -> 0..MaxHandles]
    BY DEF IInv, TypeOK, Open, CurrentDoc, Handles
  <2>3. opened' \in [Uris -> BOOLEAN]
    BY DEF IInv, TypeOK, Open, CurrentDoc
  <2> QED
    BY <2>1, <2>2, <2>3 DEF IInv, TypeOK, Open, CurrentDoc
<1>2. DocsExist'
  BY DEF IInv, Open, CurrentDoc, DocsExist, TypeOK, Document, Versions,
      Handles
<1>3. TasksAwait'
  BY DEF IInv, Open, CurrentDoc, TasksAwait, RunsAwaited, JoinableRuns,
      TypeOK, Task, Run, Handles, ExternalsEntry
<1>4. RunsAwaited'
  BY DEF IInv, Open, RunsAwaited
<1>5. JoinableRuns'
  BY DEF IInv, Open, JoinableRuns
<1>6. RunsFresh'
  BY DEF IInv, Open, RunsFresh
<1>7. DropsArePast'
  BY DEF IInv, Open, DropsArePast
<1>8. CoherentSessions'
  BY DEF IInv, Open, CoherentSessions
<1>9. FreshUnlessStraddled'
  BY DEF IInv, Open, FreshUnlessStraddled
<1> QED
  BY <1>1, <1>2, <1>3, <1>4, <1>5, <1>6, <1>7, <1>8, <1>9 DEF IInv

\* An edit changes the newest object in place.
LEMMA EditStep ==
  ASSUME IInv, NEW u \in Uris, NEW text \in Texts, Edit(u, text)
  PROVE  IInv'
<1> USE BoundsAssumption, DataAssumption DEF docVars, fileVars, cacheVars, taskVars, historyVars
<1>1. TypeOK'
  <2>1. doc' \in [Uris -> [Handles -> Document \cup {NoEntry}]]
    BY DEF IInv, TypeOK, Edit, CurrentDoc, Document, Versions, Handles,
        DocsExist
  <2> QED
    BY <2>1 DEF IInv, TypeOK, Edit, CurrentDoc
<1>2. DocsExist'
  BY DEF IInv, Edit, CurrentDoc, DocsExist, TypeOK, Document, Versions,
      Handles
<1>3. TasksAwait'
  BY DEF IInv, Edit, CurrentDoc, TasksAwait, RunsAwaited, JoinableRuns,
      TypeOK, Task, Run, Handles, ExternalsEntry
<1>4. RunsAwaited'
  BY DEF IInv, Edit, RunsAwaited
<1>5. JoinableRuns'
  BY DEF IInv, Edit, JoinableRuns
<1>6. RunsFresh'
  BY DEF IInv, Edit, RunsFresh
<1>7. DropsArePast'
  BY DEF IInv, Edit, DropsArePast
<1>8. CoherentSessions'
  BY DEF IInv, Edit, CoherentSessions
<1>9. FreshUnlessStraddled'
  BY DEF IInv, Edit, FreshUnlessStraddled
<1> QED
  BY <1>1, <1>2, <1>3, <1>4, <1>5, <1>6, <1>7, <1>8, <1>9 DEF IInv

\* Nothing that was read gets older than it was.
LEMMA WorldChangesStep ==
  ASSUME IInv, WorldChanges
  PROVE  IInv'
<1> USE BoundsAssumption, DataAssumption DEF docVars, fileVars, cacheVars, taskVars, historyVars
<1>1. TypeOK'
  <2>1. world' \in Epochs
    BY DEF IInv, TypeOK, WorldChanges, Epochs
  <2> QED
    BY <2>1 DEF IInv, TypeOK, WorldChanges
<1>2. DocsExist'
  BY DEF IInv, WorldChanges, DocsExist
<1>3. TasksAwait'
  BY DEF IInv, WorldChanges, TasksAwait
<1>4. RunsAwaited'
  BY DEF IInv, WorldChanges, RunsAwaited
<1>5. JoinableRuns'
  BY DEF IInv, WorldChanges, JoinableRuns
<1>6. RunsFresh'
  BY DEF IInv, WorldChanges, RunsFresh, TypeOK, Run, DropsArePast, Epochs,
      RunsAwaited, TasksAwait
<1>7. DropsArePast'
  BY DEF IInv, WorldChanges, DropsArePast, TypeOK, Epochs
<1>8. CoherentSessions'
  BY DEF IInv, WorldChanges, CoherentSessions
<1>9. FreshUnlessStraddled'
  BY DEF IInv, WorldChanges, FreshUnlessStraddled
<1> QED
  BY <1>1, <1>2, <1>3, <1>4, <1>5, <1>6, <1>7, <1>8, <1>9 DEF IInv

\* A hit only moves its entry to the version asked for.
LEMMA ServeCachedStep ==
  ASSUME IInv, NEW u \in Uris, NEW h \in 1..current[u], ServeCached(u, h)
  PROVE  IInv'
<1> USE BoundsAssumption, DataAssumption DEF docVars, fileVars, cacheVars, taskVars, historyVars
<1>0. h \in Handles /\ doc[u][h] \in Document
  BY ObjectExists
<1>1. TypeOK'
  <2>1. cache' \in [Uris -> CacheEntry \cup {NoEntry}]
    <3>1. cache[u] \in CacheEntry
      BY DEF IInv, TypeOK, ServeCached, Hits
    <3>2. [cache[u] EXCEPT !.version = doc[u][h].version] \in CacheEntry
      BY <1>0, <3>1 DEF CacheEntry, Document
    <3>3. cache' = [cache EXCEPT ![u] = [cache[u] EXCEPT !.version = doc[u][h].version]]
      BY DEF ServeCached
    <3> QED
      BY <3>2, <3>3 DEF IInv, TypeOK
  <2> QED
    BY <2>1 DEF IInv, TypeOK, ServeCached, Hits
<1>2. DocsExist'
  BY DEF IInv, ServeCached, DocsExist
<1>3. TasksAwait'
  BY DEF IInv, ServeCached, TasksAwait
<1>4. RunsAwaited'
  BY DEF IInv, ServeCached, RunsAwaited
<1>5. JoinableRuns'
  BY DEF IInv, ServeCached, JoinableRuns
<1>6. RunsFresh'
  BY DEF IInv, ServeCached, RunsFresh
<1>7. DropsArePast'
  BY DEF IInv, ServeCached, DropsArePast
<1>8. CoherentSessions'
  BY <1>0 DEF IInv, ServeCached, Hits, CoherentSessions, TypeOK, TasksAwait,
      CacheEntry, Session, Document, Run, Task, Externals, Unresolved, Epochs
<1>9. FreshUnlessStraddled'
  BY <1>0 DEF IInv, ServeCached, Hits, FreshUnlessStraddled, RunsFresh, TasksAwait,
      TypeOK, CacheEntry, Session, Externals, Run, Task, Epochs, Unresolved
<1> QED
  BY <1>1, <1>2, <1>3, <1>4, <1>5, <1>6, <1>7, <1>8, <1>9 DEF IInv

\* A session built at once uses externals of its own key, as fresh as the map.
LEMMA BuildNowStep ==
  ASSUME IInv, NEW u \in Uris, NEW h \in 1..current[u], BuildNow(u, h)
  PROVE  IInv'
<1> USE BoundsAssumption, DataAssumption DEF docVars, fileVars, cacheVars, taskVars, historyVars
<1>0. h \in Handles /\ doc[u][h] \in Document
  BY ObjectExists
<1>1. TypeOK'
  <2>1. cache' \in [Uris -> CacheEntry \cup {NoEntry}]
    BY <1>0 DEF IInv, TypeOK, BuildNow, CacheResolvedSession, ExternalsKnown,
        ResolvedSession, BaseSession, CacheEntry, Document, Session, Externals
  <2> QED
    BY <2>1 DEF IInv, TypeOK, BuildNow, CacheResolvedSession, ExternalsKnown,
        ResolvedSession, BaseSession
<1>2. DocsExist'
  BY DEF IInv, BuildNow, DocsExist
<1>3. TasksAwait'
  BY DEF IInv, BuildNow, TasksAwait
<1>4. RunsAwaited'
  BY DEF IInv, BuildNow, RunsAwaited
<1>5. JoinableRuns'
  BY DEF IInv, BuildNow, JoinableRuns
<1>6. RunsFresh'
  BY DEF IInv, BuildNow, RunsFresh
<1>7. DropsArePast'
  BY DEF IInv, BuildNow, DropsArePast
<1>8. CoherentSessions'
  BY <1>0 DEF IInv, BuildNow, CacheResolvedSession, ExternalsKnown, ResolvedSession,
      BaseSession, CoherentSessions, TypeOK, TasksAwait, CacheEntry, Session,
      Document, Run, Task, Externals, Unresolved, Epochs
<1>9. FreshUnlessStraddled'
  BY <1>0 DEF IInv, BuildNow, CacheResolvedSession, ExternalsKnown, ResolvedSession,
      BaseSession, FreshUnlessStraddled, RunsFresh, TasksAwait, TypeOK, CacheEntry,
      Session, Externals, Run, Task, Epochs, Unresolved
<1> QED
  BY <1>1, <1>2, <1>3, <1>4, <1>5, <1>6, <1>7, <1>8, <1>9 DEF IInv

\* A new task joins a call of its key, or makes one that reads from now on.
LEMMA StartStep ==
  ASSUME IInv, NEW u \in Uris, NEW h \in 1..current[u], NEW t \in TaskIds,
         StartAsyncResolution(u, h, t)
  PROVE  IInv'
<1> USE BoundsAssumption, DataAssumption DEF docVars, fileVars, cacheVars, taskVars, historyVars
<1>0. h \in Handles /\ doc[u][h] \in Document
  BY ObjectExists
<1>1. TypeOK'
  <2>1. tasks' \in [TaskIds -> Task \cup {NoEntry}]
    BY <1>0 DEF IInv, TypeOK, StartAsyncResolution, SharedRun, Task, Document,
        ExternalsEntry
  <2>2. runs' \in [TaskIds -> Run \cup {NoEntry}]
    BY <1>0 DEF IInv, TypeOK, StartAsyncResolution, SharedRun, Run, Document
  <2>3. pendingExternals' \in [Uris -> ExternalsEntry \cup {NoEntry}]
    BY <1>0 DEF IInv, TypeOK, StartAsyncResolution, SharedRun, ExternalsEntry,
        Document
  <2>4. pending' \in [Uris -> PendingEntry \cup {NoEntry}]
    BY <1>0 DEF IInv, TypeOK, StartAsyncResolution, SharedRun, PendingEntry, Document
  <2>5. latest' \in [Uris -> TaskIds \cup {NoEntry}]
    BY <1>0 DEF IInv, TypeOK, StartAsyncResolution, SharedRun
  <2> QED
    BY <2>1, <2>2, <2>3, <2>4, <2>5 DEF IInv, TypeOK, StartAsyncResolution, SharedRun
<1>2. DocsExist'
  BY DEF IInv, StartAsyncResolution, DocsExist
<1>3. TasksAwait'
  <2>1. tasks[t] = NoEntry /\ runs[t] = NoEntry /\ HasResolver
    BY DEF StartAsyncResolution
  <2>2. /\ tasks'[t].uri = u
        /\ tasks'[t].handle = h
        /\ tasks'[t].text = doc[u][h].text
        /\ \A o \in TaskIds \ {t} : tasks'[o] = tasks[o]
        /\ current' = current
    BY DEF IInv, TypeOK, StartAsyncResolution
  <2>3. /\ runs'[tasks'[t].run] # NoEntry
        /\ runs'[tasks'[t].run].uri = u
        /\ runs'[tasks'[t].run].key = ImportKey[doc[u][h].text]
    <3>1. CASE SharedRun(u, ImportKey[doc[u][h].text])
      <4>1. runs' = runs /\ tasks'[t].run = pendingExternals[u].run
        BY <3>1 DEF IInv, TypeOK, StartAsyncResolution
      <4> QED
        BY <3>1, <4>1 DEF IInv, JoinableRuns, SharedRun
    <3>2. CASE ~SharedRun(u, ImportKey[doc[u][h].text])
      <4>1. tasks'[t].run = t
        BY <3>2 DEF IInv, TypeOK, StartAsyncResolution
      <4>2. /\ runs'[t].uri = u
            /\ runs'[t].key = ImportKey[doc[u][h].text]
            /\ runs'[t] = [phase |-> "running", uri |-> u,
                           key |-> ImportKey[doc[u][h].text],
                           since |-> told, epoch |-> told]
        BY <3>2 DEF IInv, TypeOK, StartAsyncResolution
      <4>3. runs'[t] \in Run
        BY <1>0, <4>2 DEF IInv, TypeOK, Run, Document
      <4> QED
        BY <4>1, <4>2, <4>3, EntryAssumption
    <3> QED
      BY <3>1, <3>2
  <2>4. \A q \in TaskIds : runs[q] # NoEntry => runs'[q] = runs[q]
    BY <2>1 DEF IInv, TypeOK, StartAsyncResolution
  <2>5. \A o \in TaskIds : tasks[o] # NoEntry => tasks[o].run \in TaskIds
    BY DEF IInv, TypeOK, Task
  <2> QED
    BY <1>0, <2>1, <2>2, <2>3, <2>4, <2>5 DEF IInv, TasksAwait
<1>4. RunsAwaited'
  <2>1. tasks[t] = NoEntry /\ runs[t] = NoEntry
    BY DEF StartAsyncResolution
  <2>2. \A o \in TaskIds : tasks[o] # NoEntry => tasks'[o] = tasks[o]
    BY <2>1 DEF IInv, TypeOK, StartAsyncResolution
  <2>3. \A q \in TaskIds \ {t} : runs'[q] = runs[q]
    BY DEF IInv, TypeOK, StartAsyncResolution
  <2>4. runs'[t] # NoEntry => tasks'[t] # NoEntry /\ tasks'[t].run = t
    <3>1. CASE SharedRun(u, ImportKey[doc[u][h].text])
      BY <2>1, <3>1 DEF StartAsyncResolution
    <3>2. CASE ~SharedRun(u, ImportKey[doc[u][h].text])
      <4>1. tasks'[t] = [uri |-> u, handle |-> h, version |-> doc[u][h].version,
                         text |-> doc[u][h].text, run |-> t]
        BY <3>2 DEF IInv, TypeOK, StartAsyncResolution
      <4>2. tasks'[t] \in Task
        BY <1>0, <4>1 DEF Task, Document
      <4> QED
        BY <4>1, <4>2, EntryAssumption
    <3> QED
      BY <3>1, <3>2
  <2> QED
    BY <2>2, <2>3, <2>4 DEF IInv, RunsAwaited
<1>5. JoinableRuns'
  <2>1. runs[t] = NoEntry
    BY DEF StartAsyncResolution
  <2>2. \A q \in TaskIds : runs[q] # NoEntry => runs'[q] = runs[q]
    BY <2>1 DEF IInv, TypeOK, StartAsyncResolution
  <2>3. \A v \in Uris : pendingExternals'[v] = pendingExternals[v] \/
          /\ v = u
          /\ pendingExternals'[v] = [key |-> ImportKey[doc[u][h].text], run |-> t]
          /\ runs'[t] = [phase |-> "running", uri |-> u,
                         key |-> ImportKey[doc[u][h].text],
                         since |-> told, epoch |-> told]
    BY DEF IInv, TypeOK, StartAsyncResolution
  <2>4. [phase |-> "running", uri |-> u, key |-> ImportKey[doc[u][h].text],
         since |-> told, epoch |-> told] \in Run
    BY <1>0 DEF IInv, TypeOK, Run, Document
  <2>5. \A v \in Uris : pendingExternals[v] # NoEntry => pendingExternals[v].run \in TaskIds
    BY DEF IInv, TypeOK, ExternalsEntry
  <2> QED
    BY <2>2, <2>3, <2>4, <2>5, EntryAssumption DEF IInv, JoinableRuns
<1>6. RunsFresh'
  BY <1>0 DEF IInv, StartAsyncResolution, SharedRun, RunsFresh, TypeOK, Run,
      DropsArePast, Epochs, RunsAwaited, TasksAwait
<1>7. DropsArePast'
  BY DEF IInv, StartAsyncResolution, DropsArePast
<1>8. CoherentSessions'
  BY DEF IInv, StartAsyncResolution, CoherentSessions
<1>9. FreshUnlessStraddled'
  BY DEF IInv, StartAsyncResolution, FreshUnlessStraddled
<1> QED
  BY <1>1, <1>2, <1>3, <1>4, <1>5, <1>6, <1>7, <1>8, <1>9 DEF IInv

\* What a call stores was read while it ran.
LEMMA ResolverReturnsStep ==
  ASSUME IInv, NEW r \in TaskIds, ResolverReturns(r)
  PROVE  IInv'
<1> USE BoundsAssumption, DataAssumption DEF docVars, fileVars, cacheVars, taskVars, historyVars
<1>1. TypeOK'
  <2>1. runs' \in [TaskIds -> Run \cup {NoEntry}]
    <3>1. PICK e \in runs[r].since..world :
            runs' = [runs EXCEPT ![r].phase = IF IsKeyed(runs[r].key) THEN "stored" ELSE "resolved",
                                 ![r].epoch = e]
      BY DEF ResolverReturns
    <3>2. runs[r] \in Run
      BY DEF IInv, TypeOK, ResolverReturns
    <3>3. e \in Epochs
      BY <3>2 DEF IInv, TypeOK, Run, Epochs
    <3>4. \A ph \in {"stored", "resolved"} :
            [runs[r] EXCEPT !.phase = ph, !.epoch = e] \in Run
      BY <3>2, <3>3 DEF Run
    <3> QED
      BY <3>1, <3>4 DEF IInv, TypeOK
  <2>2. resolvedExternals' \in [Uris -> Externals \cup {NoEntry}]
    BY DEF IInv, TypeOK, ResolverReturns, IsKeyed, Externals, Run, Epochs
  <2> QED
    BY <2>1, <2>2 DEF IInv, TypeOK, ResolverReturns, IsKeyed
<1>2. DocsExist'
  BY DEF IInv, ResolverReturns, DocsExist
<1>3. TasksAwait'
  <2>1. PICK e \in runs[r].since..world :
          runs' = [runs EXCEPT ![r].phase = IF IsKeyed(runs[r].key) THEN "stored" ELSE "resolved",
                               ![r].epoch = e]
    BY DEF ResolverReturns
  <2>2. runs[r] \in Run /\ runs[r].phase = "running"
    BY DEF IInv, TypeOK, ResolverReturns
  <2>3. e \in Epochs
    BY <2>2 DEF IInv, TypeOK, Run, Epochs
  <2>4. /\ runs'[r].uri = runs[r].uri
        /\ runs'[r].key = runs[r].key
        /\ runs'[r].phase = IF IsKeyed(runs[r].key) THEN "stored" ELSE "resolved"
        /\ runs'[r] \in Run
    BY <2>1, <2>2, <2>3 DEF IInv, TypeOK, Run
  <2>5. \A q \in TaskIds \ {r} : runs'[q] = runs[q]
    BY <2>1 DEF IInv, TypeOK
  <2>6. \A q \in TaskIds : runs[q] # NoEntry =>
          /\ runs'[q] # NoEntry
          /\ runs'[q].uri = runs[q].uri
          /\ runs'[q].key = runs[q].key
    BY <2>4, <2>5, EntryAssumption
  <2> QED
    BY <2>6, ZenonT(30) DEF IInv, TasksAwait, TypeOK, Task, ResolverReturns
<1>4. RunsAwaited'
  BY DEF IInv, ResolverReturns, IsKeyed, RunsAwaited, TasksAwait, TypeOK, Task
<1>5. JoinableRuns'
  <2>1. PICK e \in runs[r].since..world :
          runs' = [runs EXCEPT ![r].phase = IF IsKeyed(runs[r].key) THEN "stored" ELSE "resolved",
                               ![r].epoch = e]
    BY DEF ResolverReturns
  <2>2. runs[r] \in Run /\ runs[r].phase = "running"
    BY DEF IInv, TypeOK, ResolverReturns
  <2>3. e \in Epochs
    BY <2>2 DEF IInv, TypeOK, Run, Epochs
  <2>4. /\ runs'[r].uri = runs[r].uri
        /\ runs'[r].key = runs[r].key
        /\ runs'[r].phase = IF IsKeyed(runs[r].key) THEN "stored" ELSE "resolved"
        /\ runs'[r] \in Run
    BY <2>1, <2>2, <2>3 DEF IInv, TypeOK, Run
  <2>5. \A q \in TaskIds \ {r} : runs'[q] = runs[q]
    BY <2>1 DEF IInv, TypeOK
  <2>6. \A q \in TaskIds : runs[q] # NoEntry =>
          /\ runs'[q] # NoEntry
          /\ runs'[q].uri = runs[q].uri
          /\ runs'[q].key = runs[q].key
    BY <2>4, <2>5, EntryAssumption
  <2>7. /\ pendingExternals' = pendingExternals
        /\ \A v \in Uris : pendingExternals[v] # NoEntry =>
             pendingExternals[v].run \in TaskIds /\ pendingExternals[v].key # NoKey
    BY DEF IInv, TypeOK, ExternalsEntry, ResolverReturns
  <2>8. runs[r].key # NoKey => runs'[r].phase = "stored"
    BY <2>4 DEF IsKeyed
  <2> QED
    BY <2>5, <2>6, <2>7, <2>8 DEF IInv, JoinableRuns
<1>6. RunsFresh'
  BY DEF IInv, ResolverReturns, IsKeyed, RunsFresh, TypeOK, Run, DropsArePast,
      Epochs, RunsAwaited, TasksAwait
<1>7. DropsArePast'
  BY DEF IInv, ResolverReturns, DropsArePast
<1>8. CoherentSessions'
  BY DEF IInv, ResolverReturns, CoherentSessions
<1>9. FreshUnlessStraddled'
  BY DEF IInv, ResolverReturns, IsKeyed, FreshUnlessStraddled, RunsFresh, TasksAwait,
      TypeOK, CacheEntry, Session, Externals, Run, Task, Epochs, Unresolved
<1> QED
  BY <1>1, <1>2, <1>3, <1>4, <1>5, <1>6, <1>7, <1>8, <1>9 DEF IInv

\* A settled call is no longer joinable.
LEMMA ResolutionSettlesStep ==
  ASSUME IInv, NEW r \in TaskIds, ResolutionSettles(r)
  PROVE  IInv'
<1> USE BoundsAssumption, DataAssumption DEF docVars, fileVars, cacheVars, taskVars, historyVars
<1>1. TypeOK'
  <2>1. runs' \in [TaskIds -> Run \cup {NoEntry}]
    <3>1. runs[r] \in Run
      BY DEF IInv, TypeOK, ResolutionSettles
    <3>2. [runs[r] EXCEPT !.phase = "resolved"] \in Run
      BY <3>1 DEF Run
    <3> QED
      BY <3>2 DEF IInv, TypeOK, ResolutionSettles
  <2>2. pendingExternals' \in [Uris -> ExternalsEntry \cup {NoEntry}]
    BY DEF IInv, TypeOK, ResolutionSettles, ForgetRun
  <2> QED
    BY <2>1, <2>2 DEF IInv, TypeOK, ResolutionSettles, ForgetRun
<1>2. DocsExist'
  BY DEF IInv, ResolutionSettles, DocsExist
<1>3. TasksAwait'
  <2>1. \A q \in TaskIds : runs[q] # NoEntry =>
          /\ runs'[q] # NoEntry
          /\ runs'[q].uri = runs[q].uri
          /\ runs'[q].key = runs[q].key
    <3>1. runs[r] \in Run /\ runs' = [runs EXCEPT ![r].phase = "resolved"]
      BY DEF IInv, TypeOK, ResolutionSettles
    <3>2. runs'[r] \in Run /\ runs'[r].uri = runs[r].uri /\ runs'[r].key = runs[r].key
      BY <3>1 DEF IInv, TypeOK, Run
    <3> QED
      BY <3>1, <3>2, EntryAssumption DEF IInv, TypeOK
  <2> QED
    BY <2>1 DEF IInv, TasksAwait, TypeOK, Task, ResolutionSettles
<1>4. RunsAwaited'
  BY DEF IInv, ResolutionSettles, ForgetRun, RunsAwaited, TasksAwait, TypeOK, Task
<1>5. JoinableRuns'
  BY DEF IInv, ResolutionSettles, ForgetRun, JoinableRuns, TypeOK, Run,
      ExternalsEntry, RunsAwaited
<1>6. RunsFresh'
  BY DEF IInv, ResolutionSettles, ForgetRun, RunsFresh, TypeOK, Run, DropsArePast,
      Epochs, RunsAwaited, TasksAwait
<1>7. DropsArePast'
  BY DEF IInv, ResolutionSettles, DropsArePast
<1>8. CoherentSessions'
  BY DEF IInv, ResolutionSettles, CoherentSessions
<1>9. FreshUnlessStraddled'
  BY DEF IInv, ResolutionSettles, FreshUnlessStraddled
<1> QED
  BY <1>1, <1>2, <1>3, <1>4, <1>5, <1>6, <1>7, <1>8, <1>9 DEF IInv

\* A rejected call is no longer joinable, and stores nothing.
LEMMA ResolverFailsStep ==
  ASSUME IInv, NEW r \in TaskIds, ResolverFails(r)
  PROVE  IInv'
<1> USE BoundsAssumption, DataAssumption DEF docVars, fileVars, cacheVars, taskVars, historyVars
<1>1. TypeOK'
  <2>1. runs' \in [TaskIds -> Run \cup {NoEntry}]
    <3>1. runs[r] \in Run
      BY DEF IInv, TypeOK, ResolverFails
    <3>2. [runs[r] EXCEPT !.phase = "rejected"] \in Run
      BY <3>1 DEF Run
    <3> QED
      BY <3>2 DEF IInv, TypeOK, ResolverFails
  <2>2. pendingExternals' \in [Uris -> ExternalsEntry \cup {NoEntry}]
    BY DEF IInv, TypeOK, ResolverFails, ForgetRun
  <2> QED
    BY <2>1, <2>2 DEF IInv, TypeOK, ResolverFails, ForgetRun
<1>2. DocsExist'
  BY DEF IInv, ResolverFails, DocsExist
<1>3. TasksAwait'
  <2>1. \A q \in TaskIds : runs[q] # NoEntry =>
          /\ runs'[q] # NoEntry
          /\ runs'[q].uri = runs[q].uri
          /\ runs'[q].key = runs[q].key
    <3>1. runs[r] \in Run /\ runs' = [runs EXCEPT ![r].phase = "rejected"]
      BY DEF IInv, TypeOK, ResolverFails
    <3>2. runs'[r] \in Run /\ runs'[r].uri = runs[r].uri /\ runs'[r].key = runs[r].key
      BY <3>1 DEF IInv, TypeOK, Run
    <3> QED
      BY <3>1, <3>2, EntryAssumption DEF IInv, TypeOK
  <2> QED
    BY <2>1 DEF IInv, TasksAwait, TypeOK, Task, ResolverFails
<1>4. RunsAwaited'
  BY DEF IInv, ResolverFails, ForgetRun, RunsAwaited, TasksAwait, TypeOK, Task
<1>5. JoinableRuns'
  BY DEF IInv, ResolverFails, ForgetRun, JoinableRuns, TypeOK, Run, ExternalsEntry,
      RunsAwaited
<1>6. RunsFresh'
  BY DEF IInv, ResolverFails, ForgetRun, RunsFresh, TypeOK, Run, DropsArePast,
      Epochs, RunsAwaited, TasksAwait
<1>7. DropsArePast'
  BY DEF IInv, ResolverFails, DropsArePast
<1>8. CoherentSessions'
  BY DEF IInv, ResolverFails, CoherentSessions
<1>9. FreshUnlessStraddled'
  BY DEF IInv, ResolverFails, FreshUnlessStraddled
<1> QED
  BY <1>1, <1>2, <1>3, <1>4, <1>5, <1>6, <1>7, <1>8, <1>9 DEF IInv

\* A task caches a session of its own text and call; the call goes with its last task.
LEMMA ResumeStep ==
  ASSUME IInv, NEW t \in TaskIds, Resume(t)
  PROVE  IInv'
<1> USE BoundsAssumption, DataAssumption DEF docVars, fileVars, cacheVars, taskVars, historyVars
<1>1. TypeOK'
  <2>1. cache' \in [Uris -> CacheEntry \cup {NoEntry}]
    <3> DEFINE task == tasks[t]
               run == runs[task.run]
    <3>1. task \in Task /\ run \in Run
      BY DEF IInv, TypeOK, Task, TasksAwait, Resume, InFlight
    <3>2. doc[task.uri][task.handle] \in Document
      BY <3>1 DEF IInv, TasksAwait, DocsExist, Resume, InFlight, Task
    <3>3. [version |-> CachedVersion(task), source |-> task.text,
           session |-> ResolvedSession(task.text, run)] \in CacheEntry
      BY <3>1, <3>2 DEF CacheEntry, Session, ResolvedSession, CachedVersion, Task, Run, Document
    <3>4. cache' = cache \/ cache' = [cache EXCEPT ![task.uri] =
            [version |-> CachedVersion(task), source |-> task.text,
             session |-> ResolvedSession(task.text, run)]]
      BY DEF Resume, CacheResolvedSession
    <3> QED
      BY <3>3, <3>4 DEF IInv, TypeOK
  <2>2. pending' \in [Uris -> PendingEntry \cup {NoEntry}]
    BY DEF IInv, TypeOK, Resume, HasSettled, CachedVersion, ForgetTask,
        CacheResolvedSession, ResolvedSession, InFlight
  <2>3. tasks' \in [TaskIds -> Task \cup {NoEntry}]
    BY DEF IInv, TypeOK, Resume, HasSettled, CachedVersion, ForgetTask,
        CacheResolvedSession, ResolvedSession, InFlight
  <2>4. runs' \in [TaskIds -> Run \cup {NoEntry}]
    BY DEF IInv, TypeOK, Resume, HasSettled, CachedVersion, ForgetTask,
        CacheResolvedSession, ResolvedSession, InFlight
  <2>5. latest' \in [Uris -> TaskIds \cup {NoEntry}]
    BY DEF IInv, TypeOK, Resume, HasSettled, CachedVersion, ForgetTask,
        CacheResolvedSession, ResolvedSession, InFlight
  <2> QED
    BY <2>1, <2>2, <2>3, <2>4, <2>5 DEF IInv, TypeOK, Resume, HasSettled,
        CachedVersion, ForgetTask, CacheResolvedSession, ResolvedSession, InFlight
<1>2. DocsExist'
  BY DEF IInv, Resume, DocsExist
<1>3. TasksAwait'
  BY DEF IInv, Resume, HasSettled, CachedVersion, ForgetTask, CacheResolvedSession,
      ResolvedSession, InFlight, TasksAwait, RunsAwaited, JoinableRuns, TypeOK, Task,
      Run, Handles, ExternalsEntry
<1>4. RunsAwaited'
  BY DEF IInv, Resume, HasSettled, CachedVersion, ForgetTask, CacheResolvedSession,
      ResolvedSession, InFlight, RunsAwaited, TasksAwait, TypeOK, Task
<1>5. JoinableRuns'
  BY DEF IInv, Resume, HasSettled, CachedVersion, ForgetTask, CacheResolvedSession,
      ResolvedSession, InFlight, JoinableRuns, TypeOK, Run, ExternalsEntry,
      RunsAwaited
<1>6. RunsFresh'
  BY DEF IInv, Resume, HasSettled, CachedVersion, ForgetTask, CacheResolvedSession,
      ResolvedSession, InFlight, RunsFresh, TypeOK, Run, DropsArePast, Epochs,
      RunsAwaited, TasksAwait
<1>7. DropsArePast'
  BY DEF IInv, Resume, DropsArePast
<1>8. CoherentSessions'
  BY SMTT(40) DEF IInv, Resume, HasSettled, CachedVersion, ForgetTask,
      CacheResolvedSession, ResolvedSession, InFlight, CoherentSessions, TypeOK,
      TasksAwait, CacheEntry, Session, Document, Run, Task, Externals, Unresolved, Epochs
<1>9. FreshUnlessStraddled'
  BY DEF IInv, Resume, HasSettled, CachedVersion, ForgetTask, CacheResolvedSession,
      ResolvedSession, InFlight, FreshUnlessStraddled, RunsFresh, TasksAwait, TypeOK,
      CacheEntry, Session, Externals, Run, Task, Epochs, Unresolved
<1> QED
  BY <1>1, <1>2, <1>3, <1>4, <1>5, <1>6, <1>7, <1>8, <1>9 DEF IInv

\* A drop empties the maps of its uris; calls survive it only if tasks do.  What the
\* index is told of on the way has happened.
LEMMA DropStep ==
  ASSUME IInv, NEW S \in SUBSET Uris, NEW k \in told..world, Drop(S, k), told' = k,
         opened' \in [Uris -> BOOLEAN], \A u \in Uris : opened'[u] => opened[u],
         UNCHANGED <<doc, current, world, taskVars>>
  PROVE  IInv'
<1> USE BoundsAssumption, DataAssumption DEF docVars, fileVars, cacheVars, taskVars, historyVars
<1>0. /\ k \in Epochs
      /\ told \in Int /\ world \in Int /\ k \in Int
      /\ told <= k /\ k <= world
  BY DEF IInv, TypeOK, Epochs
<1>1. TypeOK'
  <2>1. opened' \in [Uris -> BOOLEAN]
    BY DEF IInv, TypeOK, Drop, TasksOf, InFlight
  <2>2. cache' \in [Uris -> CacheEntry \cup {NoEntry}]
    BY DEF IInv, TypeOK, Drop, TasksOf, InFlight
  <2>3. pending' \in [Uris -> PendingEntry \cup {NoEntry}]
    BY DEF IInv, TypeOK, Drop, TasksOf, InFlight
  <2>4. resolvedExternals' \in [Uris -> Externals \cup {NoEntry}]
    BY DEF IInv, TypeOK, Drop, TasksOf, InFlight
  <2>5. pendingExternals' \in [Uris -> ExternalsEntry \cup {NoEntry}]
    BY DEF IInv, TypeOK, Drop, TasksOf, InFlight
  <2>6. freshFrom' \in [Uris -> Epochs] /\ told' \in Epochs
    BY <1>0 DEF IInv, TypeOK, Drop, TasksOf, InFlight
  <2>7. straddled' \in [Uris -> BOOLEAN]
    BY DEF IInv, TypeOK, Drop, TasksOf, InFlight
  <2>8. latest' \in [Uris -> TaskIds \cup {NoEntry}]
    BY DEF IInv, TypeOK, Drop, TasksOf, InFlight
  <2> QED
    BY <2>1, <2>2, <2>3, <2>4, <2>5, <2>6, <2>7, <2>8 DEF IInv, TypeOK, Drop,
        TasksOf, InFlight
<1>2. DocsExist'
  BY DEF IInv, Drop, TasksOf, InFlight, DocsExist, TypeOK, Document, Versions,
      Handles
<1>3. TasksAwait'
  BY DEF IInv, Drop, TasksAwait
<1>4. RunsAwaited'
  BY DEF IInv, Drop, RunsAwaited
<1>5. JoinableRuns'
  BY DEF IInv, Drop, TasksOf, InFlight, JoinableRuns, TypeOK, Run, ExternalsEntry,
      RunsAwaited
<1>6. RunsFresh'
  <2>1. \A r \in TaskIds : runs[r] # NoEntry => TasksOf(runs[r].uri) # {}
    BY DEF IInv, RunsAwaited, TasksAwait, TasksOf, InFlight
  <2>2. \A r \in TaskIds : runs[r] # NoEntry => runs[r].uri \in Uris
    BY DEF IInv, TypeOK, Run
  <2>3. \A u \in Uris : u \in S => straddled'[u] = (TasksOf(u) # {})
    BY DEF Drop
  <2>4. \A u \in Uris : u \notin S =>
          straddled'[u] = straddled[u] /\ freshFrom'[u] = freshFrom[u]
    BY DEF Drop
  <2> QED
    BY <2>1, <2>2, <2>3, <2>4 DEF IInv, RunsFresh
<1>7. DropsArePast'
  BY <1>0 DEF IInv, Drop, TasksOf, InFlight, DropsArePast, TypeOK, Epochs
<1>8. CoherentSessions'
  BY DEF IInv, Drop, TasksOf, InFlight, CoherentSessions, TypeOK, TasksAwait,
      CacheEntry, Session, Document, Run, Task, Externals, Unresolved, Epochs
<1>9. FreshUnlessStraddled'
  BY DEF IInv, Drop, TasksOf, InFlight, FreshUnlessStraddled, RunsFresh, TasksAwait,
      TypeOK, CacheEntry, Session, Externals, Run, Task, Epochs, Unresolved
<1> QED
  BY <1>1, <1>2, <1>3, <1>4, <1>5, <1>6, <1>7, <1>8, <1>9 DEF IInv

-----------------------------------------------------------------------------
(* The theorems.                                                           *)

\* Every step of the cache or of its environment keeps the invariant.
LEMMA NextIInv == IInv /\ [Next]_vars => IInv'
<1> SUFFICES ASSUME IInv, [Next]_vars PROVE IInv'
  OBVIOUS
<1>1. ASSUME NEW u \in Uris, NEW text \in Texts, Open(u, text) \/ Edit(u, text) PROVE IInv'
  BY <1>1, OpenStep, EditStep
<1>2. CASE WorldChanges
  BY <1>2, WorldChangesStep
<1>3. ASSUME NEW u \in Uris, PeekForDocument(u) \/ GetForDocument(u) PROVE IInv'
  <2>1. current[u] \in 1..current[u]
    BY <1>3, CurrentDocExists DEF PeekForDocument, GetForDocument
  <2> QED
    BY <1>3, <2>1, ServeCachedStep, BuildNowStep, StartStep
       DEF PeekForDocument, GetForDocument
<1>3a. ASSUME NEW u \in Uris, NEW h \in Handles, GetForDocumentAsync(u, h) PROVE IInv'
  <2>1. h \in 1..current[u]
    BY <1>3a, BoundsAssumption DEF GetForDocumentAsync, Handles, IInv, TypeOK
  <2> QED
    BY <1>3a, <2>1, ServeCachedStep, BuildNowStep, StartStep DEF GetForDocumentAsync
<1>4. ASSUME NEW u \in Uris, Close(u) PROVE IInv'
  <2>1. /\ Drop({u}, told) /\ told' = told
        /\ UNCHANGED <<doc, current, world, taskVars>>
        /\ told \in told..world
    BY <1>4 DEF Close, fileVars, IInv, DropsArePast, TypeOK, Epochs
  <2>2. opened' \in [Uris -> BOOLEAN] /\ \A v \in Uris : opened'[v] => opened[v]
    BY <1>4 DEF Close, IInv, TypeOK
  <2> QED
    BY <2>1, <2>2, DropStep
<1>5. CASE Clear
  <2>1. /\ UNCHANGED <<doc, current, world, taskVars>> /\ opened' = opened
        /\ \E k \in told..world : told' = k /\ Drop(Uris, k)
    BY <1>5 DEF Clear, docVars
  <2> QED
    BY <2>1, DropStep DEF IInv, TypeOK
<1>6. ASSUME NEW t \in TaskIds,
             ResolverReturns(t) \/ ResolverFails(t) \/ ResolutionSettles(t) \/ Resume(t)
      PROVE IInv'
  BY <1>6, ResolverReturnsStep, ResolverFailsStep, ResolutionSettlesStep, ResumeStep
<1>7. CASE UNCHANGED vars
  BY <1>7 DEF vars, docVars, fileVars, cacheVars, taskVars, historyVars, IInv, TypeOK, DocsExist,
     TasksAwait, RunsAwaited, JoinableRuns, RunsFresh, DropsArePast, CoherentSessions,
     FreshUnlessStraddled
<1> QED
  BY <1>1, <1>2, <1>3, <1>3a, <1>4, <1>5, <1>6, <1>7 DEF Next

\* The invariant holds throughout every behaviour.
THEOREM Invariance == Spec => []IInv
<1> QED
  BY InitIInv, NextIInv, PTL DEF Spec

\* Type correctness, for every value of the constants.
THEOREM TypeCorrect == Spec => []TypeOK
<1>1. IInv => TypeOK
  BY DEF IInv
<1> QED
  BY <1>1, Invariance, PTL

\* No interleaving of requests, edits, closes, clears and failing resolvers
\* files a session under another text or with another import text's externals.
THEOREM SessionsAreCoherent == Spec => []CoherentSessions
<1>1. IInv => CoherentSessions
  BY DEF IInv
<1> QED
  BY <1>1, Invariance, PTL

\* A delete or clear with no task of the document in flight is final: nothing
\* read before it is ever in the maps again.
THEOREM DropsAreFinalUnlessStraddled == Spec => []FreshUnlessStraddled
<1>1. IInv => FreshUnlessStraddled
  BY DEF IInv
<1> QED
  BY <1>1, Invariance, PTL

-----------------------------------------------------------------------------
(* The cache implements SessionService.                                    *)

\* Nothing was read in the future.
ReadsArePast ==
  /\ \A r \in TaskIds : runs[r] # NoEntry => runs[r].epoch <= world
  /\ \A u \in Uris : resolvedExternals[u] # NoEntry => resolvedExternals[u].epoch <= world

\* Only a resolver that returns reads anything, and it reads the files as they
\* are or were.
LEMMA ReadsStep == IInv /\ ReadsArePast /\ [Next]_vars => ReadsArePast'
<1> SUFFICES ASSUME IInv, ReadsArePast, [Next]_vars PROVE ReadsArePast'
  OBVIOUS
<1> USE DEF ReadsArePast
<1>1. CASE UNCHANGED <<runs, resolvedExternals, world>>
  BY <1>1
<1>2. CASE WorldChanges
  BY <1>2 DEF WorldChanges, IInv, TypeOK, Epochs, Run, Externals, cacheVars, taskVars,
     docVars, fileVars, historyVars
<1>3. ASSUME NEW u \in Uris, NEW h \in Handles, NEW t \in TaskIds, StartAsyncResolution(u, h, t)
      PROVE  ReadsArePast'
  BY <1>3 DEF StartAsyncResolution, IInv, TypeOK, DropsArePast, Epochs, docVars, fileVars
<1>4. ASSUME NEW r \in TaskIds, ResolverReturns(r) PROVE ReadsArePast'
  <2>1. PICK e \in runs[r].since..world :
          /\ runs' = [runs EXCEPT ![r].phase = IF IsKeyed(runs[r].key) THEN "stored" ELSE "resolved",
                                  ![r].epoch = e]
          /\ resolvedExternals' =
               IF IsKeyed(runs[r].key)
               THEN [resolvedExternals EXCEPT ![runs[r].uri] = [key |-> runs[r].key, epoch |-> e]]
               ELSE resolvedExternals
    BY <1>4 DEF ResolverReturns
  <2>2. world' = world /\ runs[r] \in Run
    BY <1>4 DEF ResolverReturns, IInv, TypeOK, fileVars
  <2>3. e <= world
    BY <2>1, <2>2 DEF IInv, TypeOK, Epochs, Run
  <2>4. \A q \in TaskIds : runs'[q] # NoEntry => runs'[q].epoch <= world
    BY <2>1, <2>2, <2>3 DEF IInv, TypeOK, Run
  <2>5. \A u \in Uris : resolvedExternals'[u] # NoEntry => resolvedExternals'[u].epoch <= world
    BY <2>1, <2>2, <2>3 DEF IInv, TypeOK, Run
  <2> QED
    BY <2>2, <2>4, <2>5
<1>5. ASSUME NEW r \in TaskIds, ResolverFails(r) \/ ResolutionSettles(r) PROVE ReadsArePast'
  <2>1. /\ \E ph \in {"rejected", "resolved"} : runs' = [runs EXCEPT ![r].phase = ph]
        /\ UNCHANGED <<world, resolvedExternals>>
    BY <1>5 DEF ResolverFails, ResolutionSettles, fileVars
  <2>2. \A q \in TaskIds : runs'[q] # NoEntry => runs[q] # NoEntry
                                                /\ runs'[q].epoch = runs[q].epoch
    BY <1>5, <2>1 DEF IInv, TypeOK, Run, ResolverFails, ResolutionSettles
  <2> QED
    BY <2>1, <2>2
<1>6. ASSUME NEW t \in TaskIds, Resume(t) PROVE ReadsArePast'
  BY <1>6 DEF Resume, IInv, TypeOK, fileVars
<1>7. ASSUME NEW S \in SUBSET Uris, NEW k, Drop(S, k), UNCHANGED <<world, taskVars>> PROVE ReadsArePast'
  BY <1>7 DEF Drop, taskVars
<1>8. ASSUME NEW u \in Uris, Close(u) PROVE ReadsArePast'
  BY <1>7, <1>8 DEF Close, fileVars
<1>9. CASE Clear
  BY <1>7, <1>9 DEF Clear
<1>10. ASSUME NEW u \in Uris, NEW h \in Handles, ServeCached(u, h) \/ BuildNow(u, h)
       PROVE  ReadsArePast'
  BY <1>1, <1>10 DEF ServeCached, BuildNow, taskVars, fileVars
<1>11. ASSUME NEW u \in Uris, NEW text \in Texts, Open(u, text) \/ Edit(u, text)
       PROVE  ReadsArePast'
  BY <1>1, <1>11 DEF Open, Edit, taskVars, fileVars, cacheVars
<1>12. CASE UNCHANGED vars
  BY <1>1, <1>12 DEF vars, fileVars, taskVars, cacheVars
<1>13. ASSUME NEW u \in Uris, PeekForDocument(u) \/ GetForDocument(u) PROVE ReadsArePast'
  <2>1. current[u] \in Handles
    BY <1>13, CurrentDocExists DEF PeekForDocument, GetForDocument
  <2> QED
    BY <1>3, <1>10, <1>13, <2>1 DEF PeekForDocument, GetForDocument
<1> QED
  BY <1>2, <1>3, <1>4, <1>5, <1>6, <1>8, <1>9, <1>10, <1>11, <1>12, <1>13
     DEF Next, GetForDocumentAsync

\* The state of the service that a state of the cache stands for.
ServiceTexts == [u \in Uris |-> {doc[u][h].text : h \in 1..current[u]}]
ServiceWork ==
  [t \in TaskIds |-> IF InFlight(t) THEN [uri |-> tasks[t].uri, text |-> tasks[t].text]
                     ELSE NoEntry]
ServiceServed ==
  [u \in Uris |-> IF cache[u] = NoEntry THEN NoEntry ELSE cache[u].session]
ServiceFloor == [u \in Uris |-> IF straddled[u] THEN 0 ELSE freshFrom[u]]

\* Caching a session is serving it, if its text and key belong together and its
\* externals were read since the last quiet drop; otherwise nothing changes.
LEMMA CachingServes ==
  ASSUME IInv, NEW u \in Uris, NEW version \in Versions, NEW text \in Texts, NEW session \in Session,
         session.text = text, session.key = ImportKey[text],
         session.epoch \in Service!Readable(u),
         CacheResolvedSession(u, version, text, session)
  PROVE  \/ \E e \in Service!Readable(u) :
                  ServiceServed' = [ServiceServed EXCEPT ![u] =
                    [text |-> text, key |-> ImportKey[text], epoch |-> e]]
         \/ ServiceServed' = ServiceServed
<1> DEFINE entry == [version |-> version, source |-> text, session |-> session]
<1>1. CASE cache' = cache
  BY <1>1 DEF ServiceServed
<1>2. CASE cache' = [cache EXCEPT ![u] = entry]
  <2>1. entry # NoEntry
    BY EntryAssumption DEF CacheEntry
  <2>2. session = [text |-> text, key |-> ImportKey[text], epoch |-> session.epoch]
    BY DEF Session
  <2>3. ServiceServed' = [ServiceServed EXCEPT ![u] = session]
    BY <1>2, <2>1 DEF ServiceServed, IInv, TypeOK
  <2> QED
    BY <2>2, <2>3
<1> QED
  BY <1>1, <1>2 DEF CacheResolvedSession

\* The initial state of the cache is one of the service.
LEMMA ServiceInit == Init => Service!Init
  BY DEF Init, Service!Init, InFlight

\* A request that needs no resolution: a hit serves what is served already.
LEMMA HitStutters ==
  ASSUME IInv, NEW u \in Uris, NEW h \in 1..current[u], ServeCached(u, h)
  PROVE  UNCHANGED Service!vars
<1>1. ServiceServed' = ServiceServed
  <2>1. doc[u][h].version \in Versions
    BY ObjectExists DEF Document
  <2>2. cache[u] \in CacheEntry
    BY DEF ServeCached, Hits, IInv, TypeOK
  <2>3. /\ cache'[u] \in CacheEntry
        /\ cache'[u].session = cache[u].session
        /\ \A w \in Uris : w # u => cache'[w] = cache[w]
    BY <2>1, <2>2 DEF ServeCached, IInv, TypeOK, CacheEntry
  <2>4. cache'[u] # NoEntry /\ cache[u] # NoEntry
    BY <2>2, <2>3, EntryAssumption
  <2> QED
    BY <2>3, <2>4 DEF ServiceServed
<1> QED
  BY <1>1 DEF ServeCached, Service!vars, ServiceServed, docVars, fileVars, taskVars,
     historyVars, InFlight

\* The resolver and the entries of pending work are no part of the service.
LEMMA ResolverStutters ==
  ASSUME NEW r \in TaskIds, ResolverReturns(r) \/ ResolverFails(r) \/ ResolutionSettles(r)
  PROVE  UNCHANGED Service!vars
  BY DEF ResolverReturns, ResolverFails, ResolutionSettles, Service!vars, docVars,
     fileVars, historyVars, InFlight

\* Opening and editing write a text; an edit takes away the one its object had, unless
\* another object has it too.
LEMMA WritingWrites ==
  ASSUME IInv, NEW u \in Uris, NEW text \in Texts, Open(u, text) \/ Edit(u, text)
  PROVE  Service!Write(u, text)
<1>1. PICK h \in Handles, v \in Versions :
        /\ doc' = [doc EXCEPT ![u][h] = [version |-> v, text |-> text]]
        /\ current' = [current EXCEPT ![u] = h]
        /\ \/ h = current[u] + 1
           \/ h = current[u]
  <2>1. CASE Open(u, text)
    <3>1. current[u] + 1 \in Handles /\ 1 \in Versions
      BY <2>1, BoundsAssumption DEF Open, IInv, TypeOK, Handles, Versions
    <3> QED
      BY <2>1, <3>1 DEF Open
  <2>2. CASE Edit(u, text)
    <3>1. CurrentDoc(u) \in Document /\ current[u] \in Handles
      BY <2>2, CurrentDocExists DEF Edit
    <3>2. CurrentDoc(u).version + 1 \in Versions
      BY <2>2, <3>1, BoundsAssumption DEF Edit, Versions, Document
    <3>3. current' = [current EXCEPT ![u] = current[u]]
      BY <2>2 DEF Edit, IInv, TypeOK
    <3> QED
      BY <2>2, <3>1, <3>2, <3>3 DEF Edit
  <2> QED
    BY <2>1, <2>2
<1> DEFINE gone == ServiceTexts[u] \ (ServiceTexts')[u]
<1>2. /\ current'[u] = h /\ h \in Nat \ {0} /\ current[u] \in Nat
      /\ doc'[u][h].text = text
      /\ \A g \in 1..current[u] : g # h => g \in Handles /\ doc'[u][g] = doc[u][g]
      /\ \A w \in Uris : w # u => current'[w] = current[w] /\ doc'[w] = doc[w]
  BY <1>1, ObjectExists, BoundsAssumption DEF IInv, TypeOK, Handles
<1>3. (ServiceTexts')[u] = (ServiceTexts[u] \ gone) \cup {text}
  <2>1. \A x \in (ServiceTexts')[u] : x = text \/ x \in ServiceTexts[u]
    BY <1>1, <1>2 DEF ServiceTexts
  <2>2. text \in (ServiceTexts')[u]
    BY <1>2 DEF ServiceTexts
  <2> QED
    BY <2>1, <2>2
<1>4. \A w \in Uris : w # u => (ServiceTexts')[w] = ServiceTexts[w]
  BY <1>2 DEF ServiceTexts
<1>5. ServiceTexts' = [ServiceTexts EXCEPT ![u] = (@ \ gone) \cup {text}]
  <2> HIDE DEF gone
  <2>1. ServiceTexts' = [w \in Uris |-> (ServiceTexts')[w]]
    BY DEF ServiceTexts
  <2>2. ServiceTexts = [w \in Uris |-> ServiceTexts[w]]
    BY DEF ServiceTexts
  <2> QED
    BY <1>3, <1>4, <2>1, <2>2
<1>6. gone \in SUBSET ServiceTexts[u]
  OBVIOUS
<1>7. UNCHANGED <<world, told, ServiceWork, ServiceServed, ServiceFloor>>
  BY DEF Open, Edit, fileVars, cacheVars, taskVars, historyVars, ServiceWork,
     ServiceServed, ServiceFloor, InFlight
<1> HIDE DEF gone
<1> QED
  BY <1>5, <1>6, <1>7
     DEF Service!Write, ServiceTexts, ServiceWork, ServiceServed, ServiceFloor

\* With the externals at hand the text of the object is served at once, unless a
\* newer version is served already.
LEMMA BuildingServes ==
  ASSUME IInv, ReadsArePast, NEW u \in Uris, NEW h \in 1..current[u], BuildNow(u, h)
  PROVE  Service!ServeNow(u) \/ UNCHANGED Service!vars
<1> DEFINE d == doc[u][h]
<1>1. /\ d \in Document
      /\ d.text \in ServiceTexts[u]
      /\ d.text \in Texts
  BY ObjectExists DEF ServiceTexts, Document
<1>3. PICK session \in Session :
        /\ session.text = d.text
        /\ session.key = ImportKey[d.text]
        /\ session.epoch \in Service!Readable(u)
        /\ CacheResolvedSession(u, d.version, d.text, session)
  <2>1. CASE /\ ExternalsKnown(u, h)
             /\ CacheResolvedSession(u, d.version, d.text,
                                     ResolvedSession(d.text, resolvedExternals[u]))
    <3>1. resolvedExternals[u] \in Externals /\ resolvedExternals[u].key = ImportKey[d.text]
      BY <2>1 DEF ExternalsKnown, IInv, TypeOK
    <3>2. ResolvedSession(d.text, resolvedExternals[u]) \in Session
      BY <1>1, <3>1 DEF ResolvedSession, Session, Externals, Document
    <3>3. resolvedExternals[u].epoch \in (IF straddled[u] THEN 0 ELSE freshFrom[u])..world
      BY <2>1, <3>1 DEF IInv, FreshUnlessStraddled, ReadsArePast, TypeOK, Externals,
         Epochs, ExternalsKnown
    <3> QED
      BY <2>1, <3>1, <3>2, <3>3 DEF ResolvedSession, Service!Readable, ExternalsKnown
  <2>2. CASE /\ ~HasResolver
             /\ CacheResolvedSession(u, d.version, d.text, BaseSession(d.text))
    BY <1>1, <2>2, DataAssumption
       DEF BaseSession, Session, Document, Service!Readable, Unresolved, Service!Unresolved
  <2> QED
    BY <2>1, <2>2 DEF BuildNow
<1>4. \/ \E e \in Service!Readable(u) :
         ServiceServed' = [ServiceServed EXCEPT ![u] =
           [text |-> d.text, key |-> ImportKey[d.text], epoch |-> e]]
      \/ ServiceServed' = ServiceServed
  <2>1. d.version \in Versions
    BY <1>1 DEF Document
  <2> HIDE DEF d
  <2> QED
    BY <1>1, <1>3, <2>1, CachingServes
<1>5. UNCHANGED <<ServiceTexts, world, told, ServiceWork, ServiceFloor>>
  BY DEF BuildNow, ServiceTexts, ServiceWork, ServiceFloor, docVars, fileVars, taskVars,
     historyVars, InFlight
<1> HIDE DEF d
<1> QED
  BY <1>1, <1>4, <1>5
     DEF Service!ServeNow, Service!Serves, Service!vars, ServiceTexts, ServiceWork,
         ServiceServed, ServiceFloor

\* Starting a resolution begins work on the text of the object.
LEMMA StartingBegins ==
  ASSUME IInv, NEW u \in Uris, NEW h \in 1..current[u], NEW t \in TaskIds,
         StartAsyncResolution(u, h, t)
  PROVE  Service!Begin(u, t)
<1>1. doc[u][h].text \in ServiceTexts[u]
  BY DEF ServiceTexts
<1>2. tasks' = [tasks EXCEPT ![t] =
         [uri |-> u, handle |-> h, version |-> doc[u][h].version,
          text |-> doc[u][h].text,
          run |-> IF ~SharedRun(u, ImportKey[doc[u][h].text]) THEN t
                  ELSE pendingExternals[u].run]]
      /\ tasks[t] = NoEntry
  BY DEF StartAsyncResolution
<1>3. tasks'[t] # NoEntry
  <2>1. doc[u][h] \in Document /\ h \in Handles
    BY ObjectExists
  <2>2. SharedRun(u, ImportKey[doc[u][h].text]) => pendingExternals[u].run \in TaskIds
    BY DEF SharedRun, IInv, TypeOK, ExternalsEntry
  <2>3. tasks'[t] \in Task
    BY <1>2, <2>1, <2>2 DEF IInv, TypeOK, Task, Document
  <2> QED
    BY <2>3, EntryAssumption
<1>4. ServiceWork' = [ServiceWork EXCEPT ![t] = [uri |-> u, text |-> doc[u][h].text]]
  BY <1>2, <1>3 DEF ServiceWork, InFlight, IInv, TypeOK
<1>5. UNCHANGED <<ServiceTexts, world, told, ServiceServed, ServiceFloor>>
  BY DEF StartAsyncResolution, ServiceTexts, ServiceServed, ServiceFloor, docVars,
     fileVars
<1> QED
  BY <1>1, <1>2, <1>4, <1>5
     DEF Service!Begin, ServiceTexts, ServiceWork, ServiceServed, ServiceFloor, InFlight

\* A resolution that returns ends its work; its session is served unless the
\* resolver threw or a newer version is served already.
LEMMA ResumingEnds ==
  ASSUME IInv, IInv', ReadsArePast, NEW t \in TaskIds, Resume(t)
  PROVE  Service!End(t)
<1> DEFINE task == tasks[t]
           run  == runs[task.run]
<1>1. /\ task \in Task
      /\ task.uri \in Uris /\ task.text \in Texts /\ task.run \in TaskIds
      /\ ServiceWork[t] = [uri |-> task.uri, text |-> task.text]
      /\ ServiceWork[t] # NoEntry
  BY EntryAssumption DEF Resume, InFlight, IInv, TypeOK, Task, ServiceWork
<1>2. /\ run \in Run
      /\ run.uri = task.uri
      /\ run.key = ImportKey[task.text]
      /\ HasResolver
  BY <1>1 DEF IInv, TypeOK, TasksAwait, Resume, InFlight
<1>3. ServiceWork' = [ServiceWork EXCEPT ![t] = NoEntry]
  BY DEF Resume, ServiceWork, InFlight, IInv, TypeOK
<1>4. UNCHANGED <<ServiceTexts, world, told, ServiceFloor>>
  BY DEF Resume, ServiceTexts, ServiceFloor, docVars, fileVars
<1>5. \/ \E e \in Service!Readable(task.uri) :
           ServiceServed' = [ServiceServed EXCEPT ![task.uri] =
             [text |-> task.text, key |-> ImportKey[task.text], epoch |-> e]]
      \/ ServiceServed' = ServiceServed
  <2>1. CASE UNCHANGED cache
    BY <2>1 DEF ServiceServed
  <2>2. CASE CacheResolvedSession(task.uri, CachedVersion(task), task.text,
                                  ResolvedSession(task.text, run))
    <3>1. ResolvedSession(task.text, run) \in Session
      BY <1>1, <1>2 DEF ResolvedSession, Session, Run
    <3>2. CachedVersion(task) \in Versions
      BY <1>1 DEF CachedVersion, IInv, TasksAwait, DocsExist, Document, Resume, InFlight
    <3>3. ResolvedSession(task.text, run).epoch \in Service!Readable(task.uri)
      <4>1. run # NoEntry
        BY <1>2, EntryAssumption
      <4>2. run.epoch \in (IF straddled[task.uri] THEN 0 ELSE freshFrom[task.uri])..world
        BY <1>1, <1>2, <4>1 DEF IInv, RunsFresh, ReadsArePast, TypeOK, Run, Epochs
      <4> QED
        BY <1>1, <1>2, <4>2 DEF ResolvedSession, Service!Readable
    <3>4. /\ ResolvedSession(task.text, run).text = task.text
          /\ ResolvedSession(task.text, run).key = ImportKey[task.text]
      BY <1>2 DEF ResolvedSession
    <3> HIDE DEF task, run
    <3> QED
      BY <1>1, <2>2, <3>1, <3>2, <3>3, <3>4, CachingServes
  <2> QED
    BY <2>1, <2>2 DEF Resume
<1>6. ServiceWork[t].uri = task.uri /\ ServiceWork[t].text = task.text
  BY <1>1
<1>7. \/ \E e \in Service!Readable(ServiceWork[t].uri) :
           ServiceServed' = [ServiceServed EXCEPT ![ServiceWork[t].uri] =
             [text |-> ServiceWork[t].text, key |-> ImportKey[ServiceWork[t].text],
              epoch |-> e]]
      \/ ServiceServed' = ServiceServed
  BY <1>5, <1>6 DEF Service!Readable
<1> QED
  BY <1>1, <1>3, <1>4, <1>7
     DEF Service!End, Service!Serves, ServiceWork, ServiceTexts, ServiceServed,
         ServiceFloor

\* Closing and clearing invalidate.
LEMMA DroppingDrops ==
  ASSUME IInv, NEW S \in SUBSET Uris, NEW k, Drop(S, k), told' = k,
         UNCHANGED <<doc, current, world, tasks>>
  PROVE  Service!Drop(S, k)
<1>1. ServiceServed' = [u \in Uris |-> IF u \in S THEN NoEntry ELSE ServiceServed[u]]
  BY DEF Drop, ServiceServed
<1>2. \A u \in Uris : (Service!WorkOn(u) = {}) <=> (TasksOf(u) = {})
  <2>1. \A t \in TaskIds : tasks[t] # NoEntry =>
          [uri |-> tasks[t].uri, text |-> tasks[t].text] # NoEntry
    BY EntryAssumption DEF IInv, TypeOK, Task
  <2>2. \A u \in Uris : Service!WorkOn(u) = TasksOf(u)
    BY <2>1 DEF Service!WorkOn, TasksOf, InFlight
  <2> QED
    BY <2>2
<1>3. ServiceFloor' = [u \in Uris |-> IF u \notin S THEN ServiceFloor[u]
                                      ELSE IF Service!WorkOn(u) = {} THEN k ELSE 0]
  BY <1>2 DEF Drop, ServiceFloor
<1>4. UNCHANGED <<ServiceTexts, world, ServiceWork>>
  BY DEF ServiceTexts, ServiceWork, InFlight
<1> QED
  BY <1>1, <1>3, <1>4
     DEF Service!Drop, ServiceServed, ServiceFloor, ServiceTexts, ServiceWork

\* Every step of the cache is a step of the service or leaves it as it is.
LEMMA ServiceStep ==
  IInv /\ IInv' /\ ReadsArePast /\ [Next]_vars => [Service!Next]_(Service!vars)
<1> SUFFICES ASSUME IInv, IInv', ReadsArePast, [Next]_vars
             PROVE  Service!Next \/ UNCHANGED Service!vars
  OBVIOUS
<1>1. ASSUME NEW u \in Uris, NEW text \in Texts, Open(u, text) \/ Edit(u, text)
      PROVE  Service!Next
  BY <1>1, WritingWrites DEF Service!Next
<1>2. CASE WorldChanges
  BY <1>2 DEF WorldChanges, Service!WorldChanges, Service!Next, docVars, cacheVars,
     taskVars, historyVars, InFlight
<1>3. ASSUME NEW u \in Uris, NEW h \in 1..current[u], ServeCached(u, h)
      PROVE  UNCHANGED Service!vars
  BY <1>3, HitStutters
<1>4. ASSUME NEW u \in Uris, NEW h \in 1..current[u], BuildNow(u, h)
      PROVE  Service!Next \/ UNCHANGED Service!vars
  BY <1>4, BuildingServes DEF Service!Next
<1>5. ASSUME NEW u \in Uris, NEW h \in 1..current[u], NEW t \in TaskIds,
             StartAsyncResolution(u, h, t)
      PROVE  Service!Next
  BY <1>5, StartingBegins DEF Service!Next
<1>6. ASSUME NEW u \in Uris, Close(u) PROVE Service!Next
  <2>1. PICK S \in SUBSET Uris : S = {u}
    OBVIOUS
  <2>2. PICK k \in told..world : k = told
    BY DEF IInv, DropsArePast, TypeOK, Epochs
  <2>3. /\ Drop(S, k) /\ told' = k
        /\ UNCHANGED <<doc, current, world, tasks>>
    BY <1>6, <2>1, <2>2 DEF Close, fileVars, taskVars
  <2>4. Service!Drop(S, k)
    BY <2>3, DroppingDrops
  <2> QED
    BY <2>4 DEF Service!Next
<1>7. CASE Clear
  <2>1. \E k \in told..world : Service!Drop(Uris, k)
    BY <1>7, DroppingDrops DEF Clear, docVars, taskVars
  <2> QED
    BY <2>1 DEF Service!Next
<1>8. ASSUME NEW r \in TaskIds, ResolverReturns(r) \/ ResolverFails(r) \/ ResolutionSettles(r)
      PROVE  UNCHANGED Service!vars
  BY <1>8, ResolverStutters
<1>9. ASSUME NEW t \in TaskIds, Resume(t) PROVE Service!Next
  BY <1>9, ResumingEnds DEF Service!Next
<1>10. CASE UNCHANGED vars
  BY <1>10 DEF vars, docVars, fileVars, cacheVars, taskVars, historyVars, Service!vars,
     InFlight
<1>11. ASSUME NEW u \in Uris, PeekForDocument(u) \/ GetForDocument(u)
       PROVE  Service!Next \/ UNCHANGED Service!vars
  <2>1. current[u] \in 1..current[u]
    BY <1>11, CurrentDocExists DEF PeekForDocument, GetForDocument
  <2> QED
    BY <1>3, <1>4, <1>5, <1>11, <2>1 DEF PeekForDocument, GetForDocument
<1>12. ASSUME NEW u \in Uris, NEW h \in Handles, GetForDocumentAsync(u, h)
       PROVE  Service!Next \/ UNCHANGED Service!vars
  <2>1. h \in 1..current[u]
    BY <1>12, BoundsAssumption DEF GetForDocumentAsync, Handles, IInv, TypeOK
  <2> QED
    BY <1>3, <1>4, <1>5, <1>12, <2>1 DEF GetForDocumentAsync
<1> QED
  BY <1>1, <1>2, <1>3, <1>4, <1>5, <1>6, <1>7, <1>8, <1>9, <1>10, <1>11, <1>12
     DEF Next

\* The session cache implements the session service, for every value of the
\* constants: no interleaving of shared resolver calls, failures, edits, closes
\* and clears serves a text no object of the document had when the work began, or
\* declarations of other imports, or from before what had been told of at the last
\* quiet invalidation.
THEOREM CacheImplementsService == Spec => ImplementsService
<1>1. Init => ReadsArePast
  BY DEF Init, ReadsArePast
<1> QED
  BY <1>1, Invariance, ReadsStep, ServiceInit, ServiceStep, PTL
     DEF Spec, ImplementsService, Service!Spec

=============================================================================
