--------------------------- MODULE LspServer_proofs ----------------------------
(***************************************************************************)
(* Theorems about LspServer for all documents, texts, jobs and bounds: the *)
(* server uses the session cache by the cache's operations only, and so    *)
(* the invariants of the cache hold of it in the server; nothing of the    *)
(* server waits for work that is gone; and the answers it caches show no   *)
(* file from before what the last invalidation had told the project index  *)
(* of, unless that came during work, as the history raced records.         *)
(*                                                                         *)
(* The argument follows the sessions.  Work(u) is all that is under way or *)
(* cached for u, Supply(u) what the session cache may hand out; every step *)
(* files work only from the two (Flows), so a property of sessions that    *)
(* the supply has and no edit or drop spoils is one of every answer.       *)
(***************************************************************************)
EXTENDS LspServer, TLAPS

\* An open document has an object.
OpenExists ==
  /\ current \in [Uris -> 0..MaxHandles]
  /\ opened \in [Uris -> BOOLEAN]
  /\ \A u \in Uris : opened[u] => current[u] # 0

\* A pull is about an object that has been opened.
PullsExist ==
  /\ DOMAIN pulls = Pulls
  /\ \A q \in Pulls : pulls[q] # NoEntry =>
       /\ DOMAIN pulls[q] = {"kind", "uri", "handle", "job", "last"}
       /\ pulls[q].uri \in Uris
       /\ pulls[q].handle \in 1..current[pulls[q].uri]

UInv == OpenExists /\ PullsExist

\* The object an open document has now is one of its objects.
LEMMA OpenObject ==
  ASSUME OpenExists, NEW u \in Uris, opened[u]
  PROVE  current[u] \in 1..current[u] /\ current[u] \in 1..MaxHandles
  BY SessionsAssumption DEF OpenExists, Sessions!BoundsAssumption

\* A request for the session of an object of a document is one of the cache's
\* lookups, or joins what is pending.
LEMMA RequestIsLookup ==
  ASSUME OpenExists, NEW u \in Uris, NEW h \in 1..current[u],
         NEW t \in TaskIds \cup {NoEntry}, Request(u, h, t)
  PROVE  Sessions!Next \/ UNCHANGED sessionVars
<1>0. h \in Sessions!Handles /\ h <= current[u]
  BY SessionsAssumption DEF OpenExists, Sessions!BoundsAssumption, Sessions!Handles
<1>a. ASSUME Sessions!GetForDocumentAsync(u, h) PROVE Sessions!Next
  BY <1>0, <1>a DEF Sessions!Next
<1>1. CASE t = NoEntry /\ Sessions!ServeCached(u, h)
  BY <1>0, <1>1, <1>a DEF Sessions!GetForDocumentAsync
<1>2. CASE UNCHANGED sessionVars
  BY <1>2
<1>3. ASSUME ~Sessions!Hits(cache[u], doc[u][h]),
             ~Sessions!Hits(pending[u], doc[u][h]),
             \/ Sessions!BuildNow(u, h)
             \/ t \in TaskIds /\ Sessions!StartAsyncResolution(u, h, t)
      PROVE  Sessions!Next
  BY <1>0, <1>3, <1>a DEF Sessions!GetForDocumentAsync
<1> QED
  BY <1>1, <1>2, <1>3 DEF Request

LEMMA AskIsLookup ==
  ASSUME OpenExists, NEW q \in Pulls, NEW k, NEW u \in Uris, NEW h \in 1..current[u],
         NEW last, Ask(q, k, u, h, last)
  PROVE  Sessions!Next \/ UNCHANGED sessionVars
<1>1. CASE UNCHANGED sessionVars
  BY <1>1
<1>2. CASE AskAnew(q, k, u, h, last)
  <2>1. PICK t \in TaskIds \cup {NoEntry} : Request(u, h, t)
    BY <1>2 DEF AskAnew
  <2> QED
    BY <2>1, RequestIsLookup
<1> QED
  BY <1>1, <1>2 DEF Ask

\* Every step of the server is one of the cache, or leaves it alone.
LEMMA StepIsSessionStep ==
  ASSUME UInv, [Next]_vars
  PROVE  Sessions!Next \/ UNCHANGED sessionVars
<1>0. OpenExists
  BY DEF UInv
<1>1. ASSUME NEW u \in Uris, NEW text \in Texts,
             DidOpen(u, text) \/ DidChangeContent(u, text)
      PROVE  Sessions!Next
  BY <1>1 DEF DidOpen, DidChangeContent, Sessions!Next
<1>2. ASSUME NEW u \in Uris, DidClose(u)
      PROVE  Sessions!Next
  BY <1>2 DEF DidClose, CloseSession, Sessions!Next
<1>9. ASSUME NEW u \in Uris, FeatureRequest(u)
      PROVE  Sessions!Next
  <2>1. opened[u] /\ Sessions!GetForDocumentAsync(u, current[u])
    BY <1>9 DEF FeatureRequest
  <2>2. current[u] \in Sessions!Handles
    BY <1>0, <2>1, OpenObject DEF Sessions!Handles
  <2>. QED BY <2>1, <2>2 DEF Sessions!Next
<1>3. CASE Invalidate \/ WorldChanges
  BY <1>3 DEF Invalidate, WorldChanges, Sessions!Next
<1>4. ASSUME NEW q \in Pulls, NEW k \in Pulled, NEW u \in Uris, Pull(q, k, u)
      PROVE  Sessions!Next \/ UNCHANGED sessionVars
  <2>1. current[u] \in 1..current[u]
    BY <1>0, <1>4, OpenObject DEF Pull
  <2>2. ASSUME \E last : Ask(q, k, u, current[u], last)
        PROVE  Sessions!Next \/ UNCHANGED sessionVars
    BY <1>0, <2>1, <2>2, AskIsLookup
  <2> QED
    BY <1>4, <2>2 DEF Pull
<1>5. ASSUME NEW q \in Pulls, SecondLook(q) \/ DiagnosticIdle(q) \/ PendingChangesSeen(q)
      PROVE  Sessions!Next \/ UNCHANGED sessionVars
  <2> DEFINE u == pulls[q].uri
             h == pulls[q].handle
  <2>1. u \in Uris /\ h \in 1..current[u]
    BY <1>5 DEF SecondLook, DiagnosticIdle, PendingChangesSeen, Waits, UInv, PullsExist
  <2>2. CASE Answered(q) \/ UNCHANGED sessionVars
    BY <2>2 DEF Answered
  <2>3. CASE SecondLook(q)
    BY <1>0, <2>1, <2>3, AskIsLookup DEF SecondLook
  <2>4. ASSUME opened[u], \E k : Ask(q, k, u, current[u], TRUE)
        PROVE  Sessions!Next \/ UNCHANGED sessionVars
    BY <1>0, <2>1, <2>4, OpenObject, AskIsLookup
  <2>5. CASE DiagnosticIdle(q)
    BY <2>2, <2>4, <2>5 DEF DiagnosticIdle
  <2>6. CASE PendingChangesSeen(q)
    <3>1. CASE opened[u] /\ Sessions!ServeCached(u, current[u])
      BY <2>1, <3>1 DEF Sessions!PeekForDocument, Sessions!Next
    <3> QED
      BY <2>2, <2>4, <2>6, <3>1 DEF PendingChangesSeen, Ask
  <2> QED
    BY <1>5, <2>2, <2>3, <2>5, <2>6
<1>6. ASSUME NEW t \in TaskIds, ResolverEnds(t) \/ ExternalsSettle(t) \/ SessionResolves(t)
      PROVE  Sessions!Next
  BY <1>6 DEF ResolverEnds, ExternalsSettle, SessionResolves, Sessions!Next
<1>7. ASSUME NEW j \in Jobs, Collect(j) \/ Finish(j) \/ Fail(j)
      PROVE  UNCHANGED sessionVars
  BY <1>7 DEF Collect, Finish, Fail, Settle
<1>8. CASE UNCHANGED vars
  BY <1>8 DEF vars
<1> QED
  BY <1>1, <1>2, <1>3, <1>4, <1>5, <1>6, <1>7, <1>8, <1>9 DEF Next

\* An open document keeps an object, whatever the session cache does, and no
\* object goes.
LEMMA OpenExistsStep ==
  ASSUME OpenExists, Sessions!Next \/ UNCHANGED sessionVars
  PROVE  OpenExists' /\ \A u \in Uris : current'[u] >= current[u]
<1> DEFINE Goal == OpenExists' /\ \A u \in Uris : current'[u] >= current[u]
<1>0. MaxHandles \in Nat
  BY SessionsAssumption DEF Sessions!BoundsAssumption
<1>1. ASSUME NEW u \in Uris, NEW text \in Texts, Sessions!Open(u, text) PROVE Goal
  BY <1>0, <1>1 DEF Sessions!Open, OpenExists
<1>3. ASSUME NEW u \in Uris, Sessions!Close(u) PROVE Goal
  <2>1. current' = current /\ opened' = [opened EXCEPT ![u] = FALSE]
    BY <1>3 DEF Sessions!Close
  <2>2. opened' \in [Uris -> BOOLEAN]
    BY <2>1 DEF OpenExists
  <2>3. ASSUME NEW v \in Uris, opened'[v] PROVE opened[v]
    BY <2>1, <2>3 DEF OpenExists
  <2>4. OpenExists'
    BY <2>1, <2>2, <2>3 DEF OpenExists
  <2> QED
    BY <1>0, <2>1, <2>4 DEF OpenExists
<1>4. ASSUME current' = current, opened' = opened PROVE Goal
  BY <1>0, <1>4 DEF OpenExists
<1>5. ASSUME NEW u \in Uris,
             \/ Sessions!PeekForDocument(u)
             \/ Sessions!GetForDocument(u)
             \/ \E h \in Sessions!Handles : Sessions!GetForDocumentAsync(u, h)
      PROVE  current' = current /\ opened' = opened
  BY <1>5
  DEF Sessions!PeekForDocument, Sessions!GetForDocument, Sessions!GetForDocumentAsync,
      Sessions!ServeCached, Sessions!BuildNow, Sessions!StartAsyncResolution, Sessions!docVars
<1>6. ASSUME NEW t \in TaskIds,
             \/ Sessions!ResolverReturns(t) \/ Sessions!ResolverFails(t)
             \/ Sessions!ResolutionSettles(t) \/ Sessions!Resume(t)
      PROVE  current' = current /\ opened' = opened
  BY <1>6
  DEF Sessions!ResolverReturns, Sessions!ResolverFails, Sessions!ResolutionSettles,
      Sessions!Resume, Sessions!docVars
<1>7. ASSUME \/ \E u \in Uris, text \in Texts : Sessions!Edit(u, text)
             \/ Sessions!WorldChanges \/ Sessions!Clear \/ UNCHANGED sessionVars
      PROVE  current' = current /\ opened' = opened
  BY <1>7
  DEF Sessions!Edit, Sessions!WorldChanges, Sessions!Clear, Sessions!docVars, sessionVars
<1> HIDE DEF Goal
<1>8. Goal
  BY <1>1, <1>3, <1>4, <1>5, <1>6, <1>7 DEF Sessions!Next
<1> QED
  BY <1>8 DEF Goal

\* A pull that waits for something is about the document object asked about.
LEMMA AwaitPulls ==
  ASSUME PullsExist, OpenExists, OpenExists', \A v \in Uris : current'[v] >= current[v],
         NEW q \in Pulls, NEW k, NEW u \in Uris, NEW h \in 1..current[u],
         \/ \E j, last : Await(q, k, u, h, j, last)
         \/ pulls' = [pulls EXCEPT ![q] = Waiting(k, u, h)]
         \/ pulls' = [pulls EXCEPT ![q] = NoEntry]
  PROVE  PullsExist'
<1>0. MaxHandles \in Nat
  BY SessionsAssumption DEF Sessions!BoundsAssumption
<1>1. ASSUME NEW p, pulls' = [pulls EXCEPT ![q] = p],
             p # NoEntry => /\ DOMAIN p = {"kind", "uri", "handle", "job", "last"}
                            /\ p.uri = u
                            /\ p.handle = h
      PROVE  PullsExist'
  <2>. SUFFICES ASSUME NEW o \in Pulls, pulls'[o] # NoEntry
                PROVE  /\ DOMAIN pulls'[o] = {"kind", "uri", "handle", "job", "last"}
                       /\ pulls'[o].uri \in Uris
                       /\ pulls'[o].handle \in 1..current'[pulls'[o].uri]
    BY <1>1 DEF PullsExist
  <2>1. CASE o = q
    BY <1>0, <1>1, <2>1 DEF PullsExist, OpenExists
  <2>2. CASE o # q
    BY <1>0, <1>1, <2>2 DEF PullsExist, OpenExists
  <2>. QED BY <2>1, <2>2
<1>2. ASSUME NEW j, NEW last, Await(q, k, u, h, j, last) PROVE PullsExist'
  <2>1. CASE j # NoEntry
    BY <1>1, <1>2, <2>1 DEF Await, Waiting
  <2>2. CASE j = NoEntry
    BY <1>1, <1>2, <2>2 DEF Await, Waiting
  <2> QED
    BY <2>1, <2>2
<1> QED
  BY <1>1, <1>2 DEF Waiting

LEMMA UInvStep == UInv /\ [Next]_vars => UInv'
<1> SUFFICES ASSUME UInv, [Next]_vars PROVE UInv'
  OBVIOUS
<1>0. /\ PullsExist /\ OpenExists /\ OpenExists'
      /\ \A u \in Uris : current'[u] >= current[u]
  BY StepIsSessionStep, OpenExistsStep DEF UInv
<1>a. MaxHandles \in Nat
  BY SessionsAssumption DEF Sessions!BoundsAssumption
<1>1. ASSUME NEW q \in Pulls, NEW k, NEW u \in Uris, NEW h \in 1..current[u], NEW last,
             Ask(q, k, u, h, last)
      PROVE  PullsExist'
  <2>1. \E j : Await(q, k, u, h, j, last)
    BY <1>1 DEF Ask, AskCached, AskAnew
  <2>. QED BY <1>0, <2>1, AwaitPulls
<1>2. ASSUME NEW q \in Pulls, NEW k \in Pulled, NEW u \in Uris, Pull(q, k, u)
      PROVE  PullsExist'
  <2>1. current[u] \in 1..current[u]
    BY <1>0, <1>2, OpenObject DEF Pull
  <2>2. CASE pulls' = [pulls EXCEPT ![q] = Waiting(k, u, current[u])]
    BY <1>0, <2>1, <2>2, AwaitPulls
  <2>3. ASSUME \E last : Ask(q, k, u, current[u], last) PROVE PullsExist'
    BY <1>1, <2>1, <2>3
  <2> QED
    BY <1>2, <2>2, <2>3 DEF Pull, Ask
<1>3. ASSUME NEW q \in Pulls, SecondLook(q) \/ DiagnosticIdle(q) \/ PendingChangesSeen(q)
      PROVE  PullsExist'
  <2> DEFINE u == pulls[q].uri
             h == pulls[q].handle
  <2>1. u \in Uris /\ h \in 1..current[u]
    BY <1>3 DEF SecondLook, DiagnosticIdle, PendingChangesSeen, Waits, UInv, PullsExist
  <2>2. CASE Answered(q)
    BY <1>0, <2>1, <2>2, AwaitPulls DEF Answered
  <2>3. CASE SecondLook(q)
    BY <1>1, <2>1, <2>3 DEF SecondLook
  <2>4. opened[u] => current[u] \in 1..current[u]
    BY <1>0, <2>1, OpenObject
  <2>5. CASE DiagnosticIdle(q)
    <3>1. ASSUME opened[u], Ask(q, "document", u, current[u], TRUE) PROVE PullsExist'
      BY <1>1, <2>1, <2>4, <3>1
    <3>2. ASSUME opened[u], pulls' = [pulls EXCEPT ![q] = Waiting("document", u, current[u])]
          PROVE  PullsExist'
      BY <1>0, <2>1, <2>4, <3>2, AwaitPulls
    <3>. QED BY <2>2, <2>5, <3>1, <3>2 DEF DiagnosticIdle
  <2>6. CASE PendingChangesSeen(q)
    <3>1. ASSUME opened[u], \/ AskCached(q, "tokens", u, current[u], TRUE)
                            \/ AskAnew(q, "tokens", u, current[u], TRUE)
          PROVE  PullsExist'
      <4>1. \E j : Await(q, "tokens", u, current[u], j, TRUE)
        BY <3>1 DEF AskCached, AskAnew
      <4>. QED BY <1>0, <2>1, <2>4, <3>1, <4>1, AwaitPulls
    <3>. QED BY <2>2, <2>6, <3>1 DEF PendingChangesSeen
  <2> QED
    BY <1>3, <2>2, <2>3, <2>5, <2>6
<1>4. ASSUME NEW j \in Jobs, Finish(j) \/ Fail(j) PROVE PullsExist'
  <2>1. PICK shows : Settle(j, shows)
    BY <1>4 DEF Finish, Fail
  <2>2. UNCHANGED current /\ DOMAIN pulls' = Pulls
    BY <2>1 DEF Settle, sessionVars
  <2>3. ASSUME NEW q \in Pulls
        PROVE  \/ pulls'[q] = pulls[q]
               \/ pulls'[q] = NoEntry
               \/ pulls[q] # NoEntry /\ pulls'[q] = [pulls[q] EXCEPT !.job = NoEntry]
    BY <2>1 DEF Settle
  <2> QED
    BY <2>2, <2>3 DEF UInv, PullsExist
<1>5. ASSUME UNCHANGED pulls PROVE PullsExist'
  BY <1>0, <1>a, <1>5 DEF PullsExist, OpenExists
<1>6. PullsExist'
  BY <1>2, <1>3, <1>4, <1>5
  DEF Next, vars, serverVars, DidOpen, DidChangeContent, DidClose, FeatureRequest, Invalidate,
      Forget, WorldChanges, ResolverEnds, ExternalsSettle, SessionResolves, Collect
<1> QED
  BY <1>0, <1>6 DEF UInv

\* The server implements the session cache: no pull, job, edit or invalidation,
\* in whatever order, moves the cache other than by its own operations, on
\* documents that exist.
THEOREM ServerUsesTheCache == Spec => UsesTheSessionCache
<1>1. Init => UInv
  BY SessionsAssumption
  DEF Init, Sessions!Init, UInv, OpenExists, PullsExist, Sessions!BoundsAssumption
<1>2. Init => Sessions!Init
  BY DEF Init
<1>3. UInv /\ [Next]_vars => [Sessions!Next]_(Sessions!vars)
  BY StepIsSessionStep
  DEF sessionVars, Sessions!vars, Sessions!docVars, Sessions!fileVars, Sessions!cacheVars,
      Sessions!taskVars, Sessions!historyVars
<1> QED
  BY <1>1, <1>2, <1>3, UInvStep, PTL DEF Spec, UsesTheSessionCache, Sessions!Spec

Cache == INSTANCE SessionRequests_proofs

\* The cache in its own proofs and the cache in the server are the same.
LEMMA SameAssumptions ==
  /\ Cache!BoundsAssumption
  /\ Cache!DataAssumption
  /\ Cache!EntryAssumption
  BY SessionsAssumption
  DEF Cache!BoundsAssumption, Sessions!BoundsAssumption, Cache!DataAssumption,
      Sessions!DataAssumption, Cache!EntryAssumption, Sessions!EntryAssumption,
      Cache!Handles, Sessions!Handles, Cache!Versions, Sessions!Versions, Cache!Epochs,
      Sessions!Epochs, Cache!Unresolved, Sessions!Unresolved, Cache!Session,
      Sessions!Session, Cache!Document, Sessions!Document, Cache!CacheEntry,
      Sessions!CacheEntry, Cache!PendingEntry, Sessions!PendingEntry, Cache!Externals,
      Sessions!Externals, Cache!ExternalsEntry, Sessions!ExternalsEntry, Cache!Task,
      Sessions!Task, Cache!Run, Sessions!Run

LEMMA SameNext == Cache!Next = Sessions!Next
  BY DEF Cache!Next, Sessions!Next, Cache!Open, Sessions!Open,
      Cache!Edit, Sessions!Edit, Cache!CurrentDoc, Sessions!CurrentDoc, Cache!WorldChanges,
      Sessions!WorldChanges, Cache!PeekForDocument, Sessions!PeekForDocument,
      Cache!ServeCached, Sessions!ServeCached, Cache!Hits, Sessions!Hits,
      Cache!GetForDocument, Sessions!GetForDocument, Cache!BuildNow, Sessions!BuildNow,
      Cache!ExternalsKnown, Sessions!ExternalsKnown, Cache!CacheResolvedSession,
      Sessions!CacheResolvedSession, Cache!ResolvedSession, Sessions!ResolvedSession,
      Cache!BaseSession, Sessions!BaseSession, Cache!Unresolved, Sessions!Unresolved,
      Cache!StartAsyncResolution, Sessions!StartAsyncResolution, Cache!SharedRun,
      Sessions!SharedRun, Cache!GetForDocumentAsync, Sessions!GetForDocumentAsync,
      Cache!Close, Sessions!Close, Cache!Drop, Sessions!Drop, Cache!TasksOf,
      Sessions!TasksOf, Cache!InFlight, Sessions!InFlight, Cache!Clear, Sessions!Clear,
      Cache!ResolverReturns, Sessions!ResolverReturns, Cache!IsKeyed, Sessions!IsKeyed,
      Cache!ResolverFails, Sessions!ResolverFails, Cache!ForgetRun, Sessions!ForgetRun,
      Cache!ResolutionSettles, Sessions!ResolutionSettles, Cache!Resume, Sessions!Resume,
      Cache!HasSettled, Sessions!HasSettled, Cache!CachedVersion, Sessions!CachedVersion,
      Cache!ForgetTask, Sessions!ForgetTask, Cache!docVars, Sessions!docVars,
      Cache!fileVars, Sessions!fileVars, Cache!Handles, Sessions!Handles, Cache!cacheVars, Sessions!cacheVars, Cache!taskVars, Sessions!taskVars,
      Cache!historyVars, Sessions!historyVars

-----------------------------------------------------------------------------
(* What the session cache hands out, in the terms of the server.           *)

\* The parts of the cache's invariant that the answers rest on.
SessionFacts ==
  /\ Sessions!TypeOK
  /\ Sessions!CoherentSessions
  /\ Sessions!FreshUnlessStraddled
  /\ Sessions!PendingIsInFlight
  /\ \A u \in Uris : /\ opened[u] => current[u] # 0
                     /\ \A h \in 1..current[u] : doc[u][h] \in Sessions!Document
  /\ \A t \in TaskIds : tasks[t] # NoEntry =>
       /\ tasks[t].handle \in 1..current[tasks[t].uri]
       /\ runs[tasks[t].run] # NoEntry
       /\ runs[tasks[t].run].uri = tasks[t].uri
  /\ \A r \in TaskIds : runs[r] # NoEntry /\ ~straddled[runs[r].uri] =>
       runs[r].epoch >= freshFrom[runs[r].uri]

LEMMA CacheGivesFacts == Cache!IInv /\ Cache!PendingInv => SessionFacts
<1>. SUFFICES ASSUME Cache!IInv, Cache!PendingInv PROVE SessionFacts
  OBVIOUS
<1>1. Sessions!TypeOK
  BY DEF Cache!IInv, Cache!TypeOK, Sessions!TypeOK, Cache!Handles, Sessions!Handles,
     Cache!Versions, Sessions!Versions, Cache!Epochs, Sessions!Epochs, Cache!Unresolved,
     Sessions!Unresolved, Cache!Session, Sessions!Session, Cache!Document,
     Sessions!Document, Cache!CacheEntry, Sessions!CacheEntry, Cache!PendingEntry,
     Sessions!PendingEntry, Cache!Externals, Sessions!Externals, Cache!ExternalsEntry,
     Sessions!ExternalsEntry, Cache!Task, Sessions!Task, Cache!Run, Sessions!Run
<1>2. Sessions!CoherentSessions /\ Sessions!FreshUnlessStraddled
  BY DEF Cache!IInv, Cache!CoherentSessions, Sessions!CoherentSessions,
     Cache!FreshUnlessStraddled, Sessions!FreshUnlessStraddled, Cache!Unresolved,
     Sessions!Unresolved
<1>3. Sessions!PendingIsInFlight
  BY DEF Cache!IInv, Cache!JoinableRuns, Cache!PendingInv, Cache!PendingPromises,
     Sessions!PendingIsInFlight, Sessions!InFlight
<1>4. \A u \in Uris : /\ opened[u] => current[u] # 0
                      /\ \A h \in 1..current[u] : doc[u][h] \in Sessions!Document
  BY DEF Cache!IInv, Cache!DocsExist, Cache!Document, Sessions!Document, Cache!Versions,
     Sessions!Versions
<1>5. \A t \in TaskIds : tasks[t] # NoEntry =>
        /\ tasks[t].handle \in 1..current[tasks[t].uri]
        /\ runs[tasks[t].run] # NoEntry
        /\ runs[tasks[t].run].uri = tasks[t].uri
  BY DEF Cache!IInv, Cache!TasksAwait
<1>6. \A r \in TaskIds : runs[r] # NoEntry /\ ~straddled[runs[r].uri] =>
        runs[r].epoch >= freshFrom[runs[r].uri]
  BY DEF Cache!IInv, Cache!RunsFresh
<1>. QED
  BY <1>1, <1>2, <1>3, <1>4, <1>5, <1>6 DEF SessionFacts

\* The invariants of the cache hold in every state of the server.
CacheInv == UInv /\ Cache!IInv /\ Cache!PendingInv

LEMMA CacheInvFacts == CacheInv => SessionFacts
  BY CacheGivesFacts DEF CacheInv

LEMMA CacheInvInit == Init => CacheInv
<1>1. Init => UInv
  BY SessionsAssumption
  DEF Init, Sessions!Init, UInv, OpenExists, PullsExist, Sessions!BoundsAssumption
<1>2. Init => Cache!Init
  BY DEF Init, Cache!Init, Sessions!Init, Cache!Handles, Sessions!Handles
<1>3. Cache!Init => Cache!IInv
  BY SameAssumptions, Cache!InitIInv
<1>4. Cache!Init => Cache!PendingInv
  BY DEF Cache!Init, Cache!PendingInv, Cache!PendingPromises, Cache!LatestWorkIsShared
<1>. QED
  BY <1>1, <1>2, <1>3, <1>4 DEF CacheInv

LEMMA CacheInvStep == CacheInv /\ [Next]_vars => CacheInv'
<1>. SUFFICES ASSUME CacheInv, [Next]_vars PROVE CacheInv'
  OBVIOUS
<1>1. Sessions!Next \/ UNCHANGED sessionVars
  BY StepIsSessionStep DEF CacheInv
<1>2. [Cache!Next]_(Cache!vars)
  BY <1>1, SameNext DEF sessionVars, Cache!vars, Cache!docVars, Cache!fileVars,
     Cache!cacheVars, Cache!taskVars, Cache!historyVars
<1>3. Cache!IInv'
  BY <1>2, SameAssumptions, Cache!NextIInv DEF CacheInv
<1>4. Cache!PendingInv'
  BY <1>2, SameAssumptions, Cache!PendingStep DEF CacheInv
<1>. QED
  BY <1>3, <1>4, UInvStep DEF CacheInv

\* Every answer of the server is made from a session of one text and the
\* declarations its imports resolve to, no older than what the last quiet drop
\* had been told of.
THEOREM ServerSessionsAreSound ==
  Spec => [](Sessions!CoherentSessions /\ Sessions!FreshUnlessStraddled)
<1>1. CacheInv => Sessions!CoherentSessions /\ Sessions!FreshUnlessStraddled
  BY CacheInvFacts DEF SessionFacts
<1>. QED
  BY <1>1, CacheInvInit, CacheInvStep, PTL DEF Spec

\* The sessions a request for an object of u may be given now, or a task of u ends
\* with.
Supply(u) ==
  {s \in Sessions!Session :
     \/ cache[u] # NoEntry /\ s = cache[u].session
     \/ /\ resolvedExternals[u] # NoEntry
        /\ \E text \in Texts : s = Sessions!ResolvedSession(text, resolvedExternals[u])
     \/ \E text \in Texts : s = Sessions!BaseSession(text)
     \/ \E t \in TaskIds :
          /\ tasks[t] # NoEntry /\ tasks[t].uri = u
          /\ s = Sessions!ResolvedSession(tasks[t].text, runs[tasks[t].run])}

\* No step but its own end takes a task away.
TasksStay == \A t \in TaskIds : tasks[t] # NoEntry => tasks'[t] = tasks[t]

LEMMA ObjectTyped ==
  ASSUME SessionFacts, NEW u \in Uris, NEW h \in 1..current[u]
  PROVE  h \in 1..MaxHandles /\ doc[u][h] \in Sessions!Document
  BY SessionsAssumption
  DEF SessionFacts, Sessions!TypeOK, Sessions!BoundsAssumption

\* A request for a session gets one from the supply at once, or awaits a task
\* that is in flight for its document.
LEMMA RequestGives ==
  ASSUME SessionFacts, NEW u \in Uris, NEW h \in 1..current[u],
         NEW t \in TaskIds \cup {NoEntry}, Request(u, h, t)
  PROVE  /\ TasksStay
         /\ t # NoEntry => tasks'[t] # NoEntry /\ tasks'[t].uri = u
         /\ t = NoEntry <=> SessionAtHand(u, h) # NoEntry
         /\ SessionAtHand(u, h) \in Supply(u) \cup {NoEntry}
<1> DEFINE d == doc[u][h]
<1>1. /\ d \in Sessions!Document /\ d.text \in Texts
      /\ NoEntry \notin TaskIds /\ NoEntry \notin Sessions!Session
  BY ObjectTyped, SessionsAssumption, AnswersAssumption
  DEF Sessions!EntryAssumption, Sessions!Document
<1>2. CASE Sessions!Hits(cache[u], d)
  <2>1. t = NoEntry /\ UNCHANGED tasks
    BY <1>2 DEF Request, Sessions!ServeCached, Sessions!taskVars
  <2>2. cache[u] # NoEntry /\ cache[u].session \in Sessions!Session
    BY <1>2 DEF Sessions!Hits, SessionFacts, Sessions!TypeOK, Sessions!CacheEntry
  <2>3. SessionAtHand(u, h) = cache[u].session
    BY <1>2 DEF SessionAtHand
  <2>. QED BY <1>1, <1>2, <2>1, <2>2, <2>3 DEF Supply, TasksStay
<1>3. CASE ~Sessions!Hits(cache[u], d) /\ Sessions!Hits(pending[u], d)
  <2>1. t = pending[u].promise /\ UNCHANGED tasks
    BY <1>3 DEF Request, sessionVars
  <2>2. t \in TaskIds /\ tasks[t] # NoEntry /\ tasks[t].uri = u
    BY <1>3, <2>1 DEF Sessions!Hits, SessionFacts, Sessions!TypeOK, Sessions!PendingEntry,
       Sessions!PendingIsInFlight, Sessions!InFlight
  <2>3. SessionAtHand(u, h) = NoEntry
    BY <1>3 DEF SessionAtHand
  <2>. QED BY <1>1, <2>1, <2>2, <2>3 DEF TasksStay
<1>4. CASE /\ ~Sessions!Hits(cache[u], d) /\ ~Sessions!Hits(pending[u], d)
           /\ t = NoEntry /\ Sessions!BuildNow(u, h)
  <2>1. UNCHANGED tasks
    BY <1>4 DEF Sessions!BuildNow, Sessions!taskVars
  <2>2. CASE Sessions!ExternalsKnown(u, h)
    <3>1. SessionAtHand(u, h) = Sessions!ResolvedSession(d.text, resolvedExternals[u])
      BY <1>4, <2>2 DEF SessionAtHand
    <3>2. resolvedExternals[u] # NoEntry
      BY <2>2 DEF Sessions!ExternalsKnown
    <3>3. SessionAtHand(u, h) \in Sessions!Session
      BY <1>1, <3>1, <3>2 DEF Sessions!ResolvedSession, SessionFacts,
         Sessions!TypeOK, Sessions!Externals, Sessions!Session
    <3>. QED BY <1>1, <1>4, <2>1, <3>1, <3>2, <3>3 DEF Supply, TasksStay
  <2>3. CASE ~Sessions!ExternalsKnown(u, h)
    <3>1. ~HasResolver /\ SessionAtHand(u, h) = Sessions!BaseSession(d.text)
      BY <1>4, <2>3 DEF SessionAtHand, Sessions!BuildNow
    <3>2. SessionAtHand(u, h) \in Sessions!Session
      BY <1>1, <3>1, SessionsAssumption
      DEF Sessions!DataAssumption, Sessions!BaseSession, Sessions!Session
    <3>. QED BY <1>1, <1>4, <2>1, <3>1, <3>2 DEF Supply, TasksStay
  <2>. QED BY <2>2, <2>3
<1>5. CASE /\ ~Sessions!Hits(cache[u], d) /\ ~Sessions!Hits(pending[u], d)
           /\ t # NoEntry /\ Sessions!StartAsyncResolution(u, h, t)
  <2>1. SessionAtHand(u, h) = NoEntry
    BY <1>5 DEF SessionAtHand, Sessions!StartAsyncResolution
  <2>2. PICK r \in TaskIds : tasks' = [tasks EXCEPT ![t] =
          [uri |-> u, handle |-> h, version |-> d.version, text |-> d.text, run |-> r]]
    BY <1>5 DEF Sessions!StartAsyncResolution, Sessions!SharedRun, SessionFacts,
       Sessions!TypeOK, Sessions!ExternalsEntry
  <2>3. tasks'[t] \in Sessions!Task /\ tasks'[t].uri = u
    BY <1>1, <1>5, <2>2, ObjectTyped
    DEF SessionFacts, Sessions!TypeOK, Sessions!Task, Sessions!Document, Sessions!Handles
  <2>4. tasks'[t] # NoEntry
    BY <2>3, SessionsAssumption DEF Sessions!EntryAssumption
  <2>5. TasksStay
    BY <1>5, <2>2 DEF Sessions!StartAsyncResolution, SessionFacts, Sessions!TypeOK, TasksStay
  <2>. QED
    BY <1>5, <2>1, <2>3, <2>4, <2>5
<1>. QED
  BY <1>2, <1>3, <1>4, <1>5 DEF Request

-----------------------------------------------------------------------------
(* Jobs, promises and pulls: what is awaited is under way.                 *)

AnswerTypes ==
  /\ jobs \in [Jobs -> Job \cup {NoEntry}]
  /\ results \in [Kinds -> [Uris -> Result \cup {NoEntry}]]

\* A job awaits a session or has one; its parts it awaits with a session.
Stages ==
  \A j \in Jobs : Running(j) =>
    /\ jobs[j].phase = "waiting" =>
         /\ jobs[j].parts = {}
         /\ jobs[j].task = NoEntry <=> jobs[j].session # NoEntry
    /\ jobs[j].phase # "waiting" => jobs[j].task = NoEntry /\ jobs[j].session # NoEntry

TasksAwaited ==
  \A j \in Jobs : Running(j) /\ jobs[j].task # NoEntry =>
    /\ tasks[jobs[j].task] # NoEntry
    /\ tasks[jobs[j].task].uri = jobs[j].uri

PartsAwaited ==
  \A j \in Jobs : Running(j) =>
    \A i \in jobs[j].parts : /\ Running(i)
                             /\ jobs[i].uri = jobs[j].uri
                             /\ jobs[i].kind \in Parts[jobs[j].kind]

PromisesAwaited ==
  \A k \in Kinds, u \in Uris : results[k][u] # NoEntry =>
    LET j == results[k][u].job
    IN  j # NoEntry => Running(j) /\ jobs[j].uri = u /\ jobs[j].kind = k

PullsAwaited ==
  \A q \in Pulls : pulls[q] # NoEntry =>
    LET j == pulls[q].job
    IN  j # NoEntry => /\ j \in Jobs /\ Running(j)
                       /\ jobs[j].uri = pulls[q].uri /\ jobs[j].kind = pulls[q].kind

\* Nothing waits for work that is gone: a job for a task that has ended, a part,
\* a cached promise or a pull for a job that has.
WaitsAreForWork == TasksAwaited /\ PartsAwaited /\ PromisesAwaited /\ PullsAwaited

AnswerInv == AnswerTypes /\ Stages /\ WaitsAreForWork

\* The sessions that work on u, under way or cached, is made from.
Work(u) ==
  {s \in Sessions!Session :
     \/ \E j \in Jobs : /\ Running(j) /\ jobs[j].uri = u
                        /\ s = jobs[j].session \/ s \in jobs[j].shows
     \/ \E k \in Kinds : results[k][u] # NoEntry /\ s \in results[k][u].shows}

\* The step files work on u only from what there was or what the cache supplies.
Flows == \A u \in Uris : Work(u)' \subseteq Work(u) \cup Supply(u)

\* A pull that does not await a job.
PullsWait ==
  \A q \in Pulls : \/ pulls'[q] = pulls[q]
                   \/ pulls'[q] # NoEntry => pulls'[q].job = NoEntry

\* Whatever happens, it happens to the answers in one of these ways.
LEMMA AnswerSteps ==
  ASSUME CacheInv, [Next]_vars
  PROVE  \/ TasksStay /\ \E S \in SUBSET Uris : Forget(S)
         \/ TasksStay /\ UNCHANGED <<jobs, results>> /\ PullsWait
         \/ \E q \in Pulls, k \in Kinds, u \in Uris, last \in BOOLEAN : \E h \in 1..current[u] :
              (TasksStay /\ AskCached(q, k, u, h, last)) \/ AskAnew(q, k, u, h, last)
         \/ \E t \in TaskIds : SessionResolves(t)
         \/ TasksStay /\ \E j \in Jobs : Collect(j)
         \/ TasksStay /\ \E j \in Jobs : Finish(j) \/ Fail(j)
<1> DEFINE Goal ==
      \/ TasksStay /\ \E S \in SUBSET Uris : Forget(S)
      \/ TasksStay /\ UNCHANGED <<jobs, results>> /\ PullsWait
      \/ \E q \in Pulls, k \in Kinds, u \in Uris, last \in BOOLEAN : \E h \in 1..current[u] :
           (TasksStay /\ AskCached(q, k, u, h, last)) \/ AskAnew(q, k, u, h, last)
      \/ \E t \in TaskIds : SessionResolves(t)
      \/ TasksStay /\ \E j \in Jobs : Collect(j)
      \/ TasksStay /\ \E j \in Jobs : Finish(j) \/ Fail(j)
<1>. SUFFICES Goal
  OBVIOUS
<1>0. SessionFacts
  BY CacheGivesFacts DEF CacheInv
<1>1. ASSUME NEW u \in Uris, NEW text \in Texts, DidOpen(u, text) \/ DidChangeContent(u, text)
      PROVE  Goal
  BY <1>1 DEF DidOpen, DidChangeContent, Sessions!Open, Sessions!Edit, Sessions!taskVars,
     TasksStay
<1>2. ASSUME NEW u \in Uris, DidClose(u) PROVE Goal
  BY <1>2 DEF DidClose, CloseSession, Sessions!Close, Sessions!taskVars, TasksStay
<1>3. CASE Invalidate
  BY <1>3 DEF Invalidate, Sessions!Clear, Sessions!taskVars, TasksStay
<1>4. ASSUME TasksStay, UNCHANGED serverVars PROVE Goal
  BY <1>4 DEF serverVars, PullsWait
<1>5. ASSUME NEW u \in Uris, FeatureRequest(u) PROVE Goal
  <2>1. TasksStay
    BY <1>0, <1>5 DEF FeatureRequest, Sessions!GetForDocumentAsync, Sessions!ServeCached,
       Sessions!BuildNow, Sessions!StartAsyncResolution, Sessions!taskVars, TasksStay,
       SessionFacts, Sessions!TypeOK
  <2>. QED BY <1>4, <1>5, <2>1 DEF FeatureRequest
<1>6. ASSUME NEW t \in TaskIds, ResolverEnds(t) \/ ExternalsSettle(t) PROVE Goal
  <2>1. TasksStay
    BY <1>6 DEF ResolverEnds, ExternalsSettle, Sessions!ResolverReturns,
       Sessions!ResolverFails, Sessions!ResolutionSettles, TasksStay
  <2>. QED BY <1>4, <1>6, <2>1 DEF ResolverEnds, ExternalsSettle
<1>7. CASE WorldChanges \/ UNCHANGED vars
  BY <1>4, <1>7 DEF WorldChanges, Sessions!WorldChanges, Sessions!taskVars, vars, sessionVars,
     TasksStay
<1>8. ASSUME NEW q \in Pulls, NEW k \in Kinds, NEW u \in Uris, NEW last \in BOOLEAN,
             NEW h \in 1..current[u], Ask(q, k, u, h, last)
      PROVE  Goal
  BY <1>8 DEF Ask, sessionVars, TasksStay
<1>9. ASSUME NEW q \in Pulls, NEW k, NEW u, NEW h,
             \/ pulls' = [pulls EXCEPT ![q] = Waiting(k, u, h)]
             \/ pulls' = [pulls EXCEPT ![q] = NoEntry],
             UNCHANGED <<sessionVars, jobs, results>>
      PROVE  Goal
  <2>1. PullsWait
    BY <1>9 DEF PullsWait, Waiting, CacheInv, UInv, PullsExist
  <2>2. TasksStay
    BY <1>9 DEF sessionVars, TasksStay
  <2>. QED BY <1>9, <2>1, <2>2
<1>10. "document" \in Kinds /\ "tokens" \in Kinds /\ "workspace" \in Kinds
  BY DEF Kinds, Parts
<1>b. OpenExists
  BY DEF CacheInv, UInv
<1>11. ASSUME NEW q \in Pulls, NEW k \in Pulled, NEW u \in Uris, Pull(q, k, u) PROVE Goal
  <2> DEFINE h == current[u]
  <2>1. h \in 1..current[u]
    BY <1>b, <1>11, OpenObject DEF Pull
  <2>2. CASE pulls' = [pulls EXCEPT ![q] = Waiting(k, u, h)] /\ UNCHANGED <<sessionVars, jobs, results>>
    BY <1>9, <2>2
  <2>3. CASE k = "document" /\ Ask(q, k, u, h, TRUE)
    BY <1>8, <1>10, <2>1, <2>3
  <2>4. CASE k = "workspace" /\ (Ask(q, k, u, h, FALSE) \/ Ask(q, k, u, h, TRUE))
    BY <1>8, <1>10, <2>1, <2>4
  <2>. QED BY <1>11, <2>2, <2>3, <2>4 DEF Pull, Ask
<1>12. ASSUME NEW q \in Pulls, SecondLook(q) \/ DiagnosticIdle(q) \/ PendingChangesSeen(q)
       PROVE  Goal
  <2> DEFINE u == pulls[q].uri
             h == pulls[q].handle
             c == current[u]
  <2>1. u \in Uris /\ h \in 1..current[u]
    BY <1>12 DEF SecondLook, DiagnosticIdle, PendingChangesSeen, Waits, CacheInv, UInv,
       PullsExist
  <2>6. opened[u] => c \in 1..current[u]
    BY <1>b, <2>1, OpenObject
  <2>2. CASE Answered(q)
    BY <1>9, <2>2 DEF Answered
  <2>3. CASE SecondLook(q)
    BY <1>8, <1>10, <2>1, <2>3 DEF SecondLook
  <2>4. CASE DiagnosticIdle(q)
    <3>1. ASSUME opened[u], Ask(q, "document", u, c, TRUE) PROVE Goal
      BY <1>8, <1>10, <2>1, <2>6, <3>1
    <3>2. ASSUME pulls' = [pulls EXCEPT ![q] = Waiting("document", u, c)],
                 UNCHANGED <<sessionVars, jobs, results>>
          PROVE  Goal
      BY <1>9, <3>2
    <3>. QED BY <2>2, <2>4, <3>1, <3>2 DEF DiagnosticIdle
  <2>5. CASE PendingChangesSeen(q) /\ ~Answered(q)
    <3>1. ASSUME Sessions!ServeCached(u, c) PROVE TasksStay
      BY <3>1 DEF Sessions!ServeCached, Sessions!taskVars, TasksStay
    <3>2. opened[u]
      BY <2>5 DEF PendingChangesSeen
    <3>3. c \in 1..current[u]
      BY <2>6, <3>2
    <3>4. (TasksStay /\ AskCached(q, "tokens", u, c, TRUE)) \/ AskAnew(q, "tokens", u, c, TRUE)
      BY <2>5, <3>1 DEF PendingChangesSeen
    <3>. QED BY <1>10, <2>1, <3>3, <3>4
  <2>. QED BY <1>12, <2>2, <2>3, <2>4, <2>5
<1>13. ASSUME NEW j \in Jobs, Collect(j) \/ Finish(j) \/ Fail(j) PROVE Goal
  <2>1. UNCHANGED sessionVars
    BY <1>13 DEF Collect, Finish, Fail, Settle
  <2>2. TasksStay
    BY <2>1 DEF sessionVars, TasksStay
  <2>. QED BY <1>13, <2>2
<1>. QED
  BY <1>1, <1>2, <1>3, <1>5, <1>6, <1>7, <1>11, <1>12, <1>13 DEF Next

\* The jobs go on for the same document and kind of answer.
JobsGoOn ==
  \A i \in Jobs : Running(i) => /\ Running(i)'
                                /\ jobs'[i].uri = jobs[i].uri
                                /\ jobs'[i].kind = jobs[i].kind

AnswersKept == AnswerInv' /\ Flows

\* Cleared results and waiting pulls disturb nothing.
LEMMA ForgetKeeps ==
  ASSUME AnswerInv, TasksStay, NEW S \in SUBSET Uris, Forget(S)
  PROVE  AnswersKept
<1>1. UNCHANGED <<jobs, pulls>> /\ results' = Without(S)
  BY DEF Forget
<1>2. \A k \in Kinds, u \in Uris : results'[k][u] \in {results[k][u], NoEntry}
  BY <1>1 DEF Without
<1>3. AnswerTypes'
  BY <1>1 DEF AnswerInv, AnswerTypes, Without
<1>4. Stages'
  BY <1>1 DEF AnswerInv, Stages, Running
<1>5. TasksAwaited'
  BY <1>1 DEF AnswerInv, AnswerTypes, WaitsAreForWork, TasksAwaited, Running, TasksStay, Job
<1>6. PartsAwaited' /\ PullsAwaited'
  BY <1>1 DEF AnswerInv, WaitsAreForWork, PartsAwaited, PullsAwaited, Running
<1>7. PromisesAwaited'
  BY <1>1, <1>2 DEF AnswerInv, WaitsAreForWork, PromisesAwaited, Running
<1>8. Flows
  BY <1>1, <1>2 DEF Flows, Work, Running
<1>. QED
  BY <1>3, <1>4, <1>5, <1>6, <1>7, <1>8 DEF AnswersKept, AnswerInv, WaitsAreForWork

LEMMA WaitingKeeps ==
  ASSUME AnswerInv, PullsExist, PullsExist', TasksStay, UNCHANGED <<jobs, results>>, PullsAwaited'
  PROVE  AnswersKept
<1>1. AnswerTypes' /\ Stages'
  BY DEF AnswerInv, AnswerTypes, Stages, Running
<1>2. TasksAwaited'
  BY DEF AnswerInv, AnswerTypes, WaitsAreForWork, TasksAwaited, Running, TasksStay, Job
<1>3. PartsAwaited' /\ PromisesAwaited'
  BY DEF AnswerInv, WaitsAreForWork, PartsAwaited, PromisesAwaited, Running
<1>4. Flows
  BY DEF Flows, Work, Running
<1>. QED
  BY <1>1, <1>2, <1>3, <1>4 DEF AnswersKept, AnswerInv, WaitsAreForWork

\* A pull that starts to wait awaits a job that is under way for its document.
LEMMA AwaitJob ==
  ASSUME PullsExist, PullsAwaited, JobsGoOn, NEW q \in Pulls, NEW k, NEW u, NEW h, NEW last,
         NEW j \in Jobs \cup {NoEntry}, Await(q, k, u, h, j, last),
         j # NoEntry => Running(j)' /\ jobs'[j].uri = u /\ jobs'[j].kind = k
  PROVE  PullsAwaited'
<1>1. pulls'[q] # NoEntry =>
        /\ pulls'[q].job = j /\ pulls'[q].uri = u /\ pulls'[q].kind = k
  BY DEF Await, Waiting, PullsExist
<1>2. \A p \in Pulls \ {q} : pulls'[p] = pulls[p]
  BY DEF Await, PullsExist
<1>3. ASSUME NEW p \in Pulls, pulls'[p] # NoEntry, pulls'[p].job # NoEntry
      PROVE  /\ pulls'[p].job \in Jobs /\ jobs'[pulls'[p].job] # NoEntry
             /\ jobs'[pulls'[p].job].uri = pulls'[p].uri
             /\ jobs'[pulls'[p].job].kind = pulls'[p].kind
  <2>1. CASE p = q
    BY <1>1, <1>3, <2>1 DEF Running
  <2>2. CASE p # q
    BY <1>2, <1>3, <2>2 DEF PullsAwaited, JobsGoOn, Running
  <2>. QED BY <2>1, <2>2
<1>. QED
  BY <1>3 DEF PullsAwaited, Running

\* The promise that is found is awaited, or has settled.
LEMMA AskCachedKeeps ==
  ASSUME AnswerInv, PullsExist, PullsExist', TasksStay,
         NEW q \in Pulls, NEW k \in Kinds, NEW u \in Uris, NEW h, NEW last,
         AskCached(q, k, u, h, last)
  PROVE  AnswersKept
<1>1. UNCHANGED <<jobs, results>> /\ Await(q, k, u, h, results[k][u].job, last)
  BY DEF AskCached
<1>2. results[k][u] \in Result /\ results[k][u] # NoEntry
  BY DEF AskCached, Cached, IsCached, AnswerInv, AnswerTypes
<1>3. results[k][u].job \in Jobs \cup {NoEntry}
  BY <1>2 DEF Result
<1>4. results[k][u].job # NoEntry =>
        /\ Running(results[k][u].job)'
        /\ jobs'[results[k][u].job].uri = u /\ jobs'[results[k][u].job].kind = k
  BY <1>1, <1>2 DEF AnswerInv, WaitsAreForWork, PromisesAwaited, Running
<1>5. JobsGoOn
  BY <1>1 DEF JobsGoOn, Running
<1>6. PullsAwaited'
  BY <1>1, <1>3, <1>4, <1>5, AwaitJob DEF AnswerInv, WaitsAreForWork
<1>. QED
  BY <1>1, <1>6, WaitingKeeps

LEMMA NewJobTyped ==
  ASSUME NEW k \in Kinds, NEW u \in Uris, NEW h \in 1..MaxHandles,
         NEW phase \in {"waiting", "collecting", "failing"}, NEW t \in TaskIds \cup {NoEntry},
         NEW s \in Sessions!Session \cup {NoEntry}
  PROVE  /\ NewJob(k, u, h, phase, t, s) \in Job
         /\ NewJob(k, u, h, phase, t, s) # NoEntry
         /\ NewJob(k, u, h, phase, t, s).kind = k /\ NewJob(k, u, h, phase, t, s).uri = u
         /\ NewJob(k, u, h, phase, t, s).phase = phase
         /\ NewJob(k, u, h, phase, t, s).task = t
         /\ NewJob(k, u, h, phase, t, s).session = s
         /\ NewJob(k, u, h, phase, t, s).parts = {}
         /\ NewJob(k, u, h, phase, t, s).shows = {}
<1>1. NewJob(k, u, h, phase, t, s) \in Job
  BY DEF NewJob, Job
<1>2. NewJob(k, u, h, phase, t, s) # NoEntry
  BY <1>1, AnswersAssumption
<1>. QED
  BY <1>1, <1>2 DEF NewJob

LEMMA PromiseTyped ==
  ASSUME NEW v \in 1..MaxVersion, NEW j \in Jobs
  PROVE  Promise(v, j) \in Result /\ Promise(v, j).shows = {} /\ Promise(v, j).job = j
  BY DEF Promise, Result

\* Work flows when each job and each result is from work on its own document.
LEMMA FlowsFrom ==
  ASSUME \A i \in Jobs : Running(i)' =>
           \A s \in Sessions!Session : s = jobs'[i].session \/ s \in jobs'[i].shows =>
             s \in Work(jobs'[i].uri) \cup Supply(jobs'[i].uri),
         \A k \in Kinds, u \in Uris : results'[k][u] # NoEntry =>
           results'[k][u].shows \subseteq Work(u) \cup Supply(u)
  PROVE  Flows
<1>. SUFFICES ASSUME NEW u \in Uris, NEW s \in Work(u)' PROVE s \in Work(u) \cup Supply(u)
  BY DEF Flows
<1>1. CASE \E i \in Jobs : /\ Running(i)' /\ jobs'[i].uri = u
                           /\ s = jobs'[i].session \/ s \in jobs'[i].shows
  BY <1>1 DEF Work
<1>2. CASE \E k \in Kinds : results'[k][u] # NoEntry /\ s \in results'[k][u].shows
  BY <1>2
<1>. QED
  BY <1>1, <1>2 DEF Work, Running

\* What a job has, and what is cached, is work on its document.
LEMMA IsWork ==
  ASSUME AnswerInv
  PROVE  /\ \A i \in Jobs : Running(i) =>
              \A s \in Sessions!Session : s = jobs[i].session \/ s \in jobs[i].shows =>
                s \in Work(jobs[i].uri)
         /\ \A k \in Kinds, u \in Uris : results[k][u] # NoEntry =>
              results[k][u].shows \subseteq Work(u)
<1>1. \A k \in Kinds, u \in Uris : results[k][u] # NoEntry =>
        results[k][u].shows \subseteq Sessions!Session
  BY DEF AnswerInv, AnswerTypes, Result
<1>. QED
  BY <1>1 DEF Work

\* A new job has a session of the supply, or awaits a task in flight.
LEMMA AskAnewKeeps ==
  ASSUME SessionFacts, AnswerInv, PullsExist, NEW q \in Pulls, NEW k \in Kinds,
         NEW u \in Uris, NEW h \in 1..current[u], NEW last, AskAnew(q, k, u, h, last)
  PROVE  AnswersKept
<1> DEFINE d == doc[u][h]
           j == CHOOSE j \in FreeJobs : TRUE
           s == SessionAtHand(u, h)
<1>1. PICK t \in TaskIds \cup {NoEntry} :
        /\ Request(u, h, t)
        /\ jobs' = [jobs EXCEPT ![j] = NewJob(k, u, h, "waiting", t, s)]
  BY DEF AskAnew
<1>2. /\ TasksStay
      /\ t # NoEntry => tasks'[t] # NoEntry /\ tasks'[t].uri = u
      /\ t = NoEntry <=> s # NoEntry
      /\ s \in Supply(u) \cup {NoEntry}
  BY <1>1, RequestGives
<1>3. /\ j \in Jobs /\ ~Running(j) /\ j # NoEntry
      /\ results' = [results EXCEPT ![k][u] = Promise(d.version, j)]
      /\ Await(q, k, u, h, j, last)
  BY AnswersAssumption DEF AskAnew, FreeJobs
<1>. HIDE DEF j, s
<1>4. h \in 1..MaxHandles /\ d.version \in 1..MaxVersion
  BY ObjectTyped DEF Sessions!Document, Sessions!Versions
<1>5. s \in Sessions!Session \cup {NoEntry}
  BY <1>2 DEF Supply
<1> DEFINE new == NewJob(k, u, h, "waiting", t, s)
<1>6. new \in Job /\ new # NoEntry
  BY <1>4, <1>5, NewJobTyped
<1>7. /\ new.kind = k /\ new.uri = u /\ new.phase = "waiting" /\ new.task = t
      /\ new.session = s /\ new.parts = {} /\ new.shows = {}
  BY DEF NewJob
<1>. HIDE DEF new
<1>8. /\ jobs \in [Jobs -> Job \cup {NoEntry}]
      /\ results \in [Kinds -> [Uris -> Result \cup {NoEntry}]]
  BY DEF AnswerInv, AnswerTypes
<1>9. jobs'[j] = new /\ \A i \in Jobs \ {j} : jobs'[i] = jobs[i]
  BY <1>1, <1>3, <1>8 DEF new
<1>10. Promise(d.version, j) \in Result
  BY <1>3, <1>4, PromiseTyped
<1>11. \A l \in Kinds, w \in Uris :
         IF l = k /\ w = u THEN results'[l][w] = Promise(d.version, j)
         ELSE results'[l][w] = results[l][w]
  BY <1>3, <1>8
<1>12. AnswerTypes'
  <2>1. jobs' \in [Jobs -> Job \cup {NoEntry}]
    BY <1>1, <1>6, <1>8 DEF new
  <2>. QED BY <1>3, <1>8, <1>10, <2>1 DEF AnswerTypes
<1>13. Stages'
  BY <1>2, <1>7, <1>9 DEF AnswerInv, Stages, Running
<1>14. TasksAwaited'
  BY <1>2, <1>7, <1>8, <1>9 DEF AnswerInv, WaitsAreForWork, TasksAwaited, Running, TasksStay, Job
<1>15. JobsGoOn
  BY <1>3, <1>9 DEF JobsGoOn, Running
<1>16. PartsAwaited'
  BY <1>3, <1>7, <1>8, <1>9 DEF AnswerInv, WaitsAreForWork, PartsAwaited, Running, Job
<1>17. PromisesAwaited'
  <2>. SUFFICES ASSUME NEW l \in Kinds, NEW w \in Uris, results'[l][w] # NoEntry,
                       NEW i, i = results'[l][w].job, i # NoEntry
                PROVE  jobs'[i] # NoEntry /\ jobs'[i].uri = w /\ jobs'[i].kind = l
    BY DEF PromisesAwaited, Running
  <2>1. CASE l = k /\ w = u
    BY <1>3, <1>4, <1>6, <1>7, <1>9, <1>11, <2>1, PromiseTyped
  <2>2. CASE ~(l = k /\ w = u)
    BY <1>3, <1>8, <1>9, <1>11, <2>2
    DEF AnswerInv, WaitsAreForWork, PromisesAwaited, Running, Result
  <2>. QED BY <2>1, <2>2
<1>18. PullsAwaited'
  BY <1>3, <1>6, <1>7, <1>9, <1>15, AwaitJob DEF AnswerInv, WaitsAreForWork, Running
<1>19. Flows
  <2>1. ASSUME NEW i \in Jobs, Running(i)', NEW r \in Sessions!Session,
               r = jobs'[i].session \/ r \in jobs'[i].shows
        PROVE  r \in Work(jobs'[i].uri) \cup Supply(jobs'[i].uri)
    <3>1. CASE i = j
      BY <1>2, <1>7, <1>9, <2>1, <3>1, AnswersAssumption
    <3>2. CASE i # j
      BY <1>9, <2>1, <3>2, IsWork DEF Running
    <3>. QED BY <3>1, <3>2
  <2>2. \A l \in Kinds, w \in Uris : results'[l][w] # NoEntry =>
          results'[l][w].shows \subseteq Work(w) \cup Supply(w)
    BY <1>3, <1>4, <1>11, IsWork, PromiseTyped
  <2>. QED BY <2>1, <2>2, FlowsFrom
<1>. QED
  BY <1>12, <1>13, <1>14, <1>16, <1>17, <1>18, <1>19 DEF AnswersKept, AnswerInv, WaitsAreForWork

\* The session a task ends with is handed to the jobs that await it, all of the
\* task's document.
LEMMA SessionResolvesKeeps ==
  ASSUME SessionFacts, AnswerInv, NEW t \in TaskIds, SessionResolves(t)
  PROVE  AnswersKept
<1> DEFINE task == tasks[t]
           run == runs[task.run]
           session == IF run.phase = "resolved" THEN Sessions!ResolvedSession(task.text, run)
                      ELSE Sessions!BaseSession(task.text)
           Given(job) == [job EXCEPT !.task = NoEntry, !.session = session]
<1>1. /\ task # NoEntry /\ task \in Sessions!Task
      /\ tasks' = [tasks EXCEPT ![t] = NoEntry]
      /\ UNCHANGED <<results, pulls>>
  <2>1. Sessions!Resume(t) /\ UNCHANGED <<results, pulls>>
    BY Zenon DEF SessionResolves
  <2>. QED
    BY <2>1 DEF Sessions!Resume, Sessions!InFlight, SessionFacts, Sessions!TypeOK
<1>2. jobs' = [j \in Jobs |->
        IF ~Running(j) \/ jobs[j].task # t THEN jobs[j]
        ELSE Given(jobs[j])]
  BY Zenon DEF SessionResolves
<1>3. run \in Sessions!Run
  BY <1>1 DEF SessionFacts, Sessions!TypeOK, Sessions!Task
<1>4. session \in Sessions!Session /\ session # NoEntry
  <2>1. Sessions!ResolvedSession(task.text, run) \in Sessions!Session
    BY <1>1, <1>3 DEF Sessions!ResolvedSession, Sessions!Session, Sessions!Task, Sessions!Run
  <2>2. Sessions!BaseSession(task.text) \in Sessions!Session
    BY <1>1, SessionsAssumption
    DEF Sessions!BaseSession, Sessions!Session, Sessions!Task, Sessions!DataAssumption
  <2>. QED BY <2>1, <2>2, AnswersAssumption
<1>5. session \in Supply(task.uri)
  <2>1. task.text \in Texts
    BY <1>1 DEF Sessions!Task
  <2>. QED BY <1>1, <1>4, <2>1 DEF Supply
<1>0. \A job \in Job :
        /\ Given(job) \in Job
        /\ Given(job).task = NoEntry /\ Given(job).session = session
        /\ Given(job).kind = job.kind /\ Given(job).uri = job.uri
        /\ Given(job).phase = job.phase /\ Given(job).parts = job.parts
        /\ Given(job).shows = job.shows
  <2>. HIDE DEF session
  <2>. QED BY <1>4 DEF Job
<1>. HIDE DEF session, Given
<1>6. /\ jobs \in [Jobs -> Job \cup {NoEntry}]
      /\ NoEntry \notin Job
  BY AnswersAssumption DEF AnswerInv, AnswerTypes
<1>7. \A j \in Jobs :
        \/ ~(Running(j) /\ jobs[j].task = t) /\ jobs'[j] = jobs[j]
        \/ /\ Running(j) /\ jobs[j].task = t
           /\ jobs'[j] \in Job /\ jobs'[j] # NoEntry
           /\ jobs'[j].task = NoEntry /\ jobs'[j].session = session
           /\ jobs'[j].kind = jobs[j].kind /\ jobs'[j].uri = jobs[j].uri
           /\ jobs'[j].phase = jobs[j].phase /\ jobs'[j].parts = jobs[j].parts
           /\ jobs'[j].shows = jobs[j].shows
  <2>. SUFFICES ASSUME NEW j \in Jobs, Running(j), jobs[j].task = t
                PROVE  /\ jobs'[j] \in Job /\ jobs'[j] # NoEntry
                       /\ jobs'[j].task = NoEntry /\ jobs'[j].session = session
                       /\ jobs'[j].kind = jobs[j].kind /\ jobs'[j].uri = jobs[j].uri
                       /\ jobs'[j].phase = jobs[j].phase /\ jobs'[j].parts = jobs[j].parts
                       /\ jobs'[j].shows = jobs[j].shows
    BY <1>2
  <2>1. jobs[j] \in Job
    BY <1>6 DEF Running
  <2>2. jobs'[j] = Given(jobs[j])
    BY <1>2
  <2>. QED BY <1>0, <1>6, <2>1, <2>2
<1>8. DOMAIN jobs' = Jobs
  BY <1>2
<1>9. AnswerTypes'
  BY <1>1, <1>2, <1>6, <1>7 DEF AnswerInv, AnswerTypes
<1>10. Stages'
  BY <1>4, <1>7, SessionsAssumption DEF AnswerInv, Stages, Running, Sessions!EntryAssumption
<1>11. TasksAwaited'
  BY <1>1, <1>6, <1>7
  DEF AnswerInv, WaitsAreForWork, TasksAwaited, Running, SessionFacts, Sessions!TypeOK, Job
<1>12. JobsGoOn /\ \A j \in Jobs : Running(j)' => Running(j)
  BY <1>7 DEF JobsGoOn, Running
<1>13. PartsAwaited'
  <2>. SUFFICES ASSUME NEW j \in Jobs, Running(j)', NEW i \in jobs'[j].parts
                PROVE  /\ jobs'[i] # NoEntry /\ jobs'[i].uri = jobs'[j].uri
                       /\ jobs'[i].kind \in Parts[jobs'[j].kind]
    BY DEF PartsAwaited, Running
  <2>1. Running(j) /\ i \in jobs[j].parts /\ i \in Jobs
    BY <1>6, <1>7, <1>12 DEF Job, Running
  <2>2. Running(i) /\ jobs[i].uri = jobs[j].uri /\ jobs[i].kind \in Parts[jobs[j].kind]
    BY <2>1 DEF AnswerInv, WaitsAreForWork, PartsAwaited
  <2>. QED BY <1>12, <2>1, <2>2 DEF JobsGoOn, Running
<1>14. PromisesAwaited'
  <2>. SUFFICES ASSUME NEW k \in Kinds, NEW u \in Uris, results'[k][u] # NoEntry,
                       NEW i, i = results'[k][u].job, i # NoEntry
                PROVE  jobs'[i] # NoEntry /\ jobs'[i].uri = u /\ jobs'[i].kind = k
    BY DEF PromisesAwaited, Running
  <2>1. results[k][u] \in Result /\ i \in Jobs
    BY <1>1 DEF AnswerInv, AnswerTypes, Result
  <2>. QED
    BY <1>1, <1>12, <2>1 DEF AnswerInv, WaitsAreForWork, PromisesAwaited, JobsGoOn, Running
<1>15. PullsAwaited'
  BY <1>1, <1>12 DEF AnswerInv, WaitsAreForWork, PullsAwaited, JobsGoOn, Running
<1>16. Flows
  <2>1. ASSUME NEW i \in Jobs, Running(i)', NEW r \in Sessions!Session,
               r = jobs'[i].session \/ r \in jobs'[i].shows
        PROVE  r \in Work(jobs'[i].uri) \cup Supply(jobs'[i].uri)
    <3>1. CASE jobs'[i] = jobs[i]
      BY <2>1, <3>1, IsWork DEF Running
    <3>2. CASE Running(i) /\ jobs[i].task = t /\ jobs'[i] # jobs[i]
      <4>1. jobs[i].uri = task.uri
        BY <3>2, SessionsAssumption
        DEF AnswerInv, WaitsAreForWork, TasksAwaited, Sessions!EntryAssumption
      <4>. QED BY <1>5, <1>7, <2>1, <3>2, <4>1, IsWork
    <3>. QED BY <1>7, <3>1, <3>2
  <2>2. \A k \in Kinds, w \in Uris : results'[k][w] # NoEntry =>
          results'[k][w].shows \subseteq Work(w) \cup Supply(w)
    BY <1>1, IsWork
  <2>. QED BY <2>1, <2>2, FlowsFrom
<1>. QED
  BY <1>9, <1>10, <1>11, <1>13, <1>14, <1>15, <1>16 DEF AnswersKept, AnswerInv, WaitsAreForWork

\* A job whose parts have changed is still one, for the same answer.
LEMMA GathersTyped ==
  ASSUME NEW job \in Job, NEW parts \in SUBSET Jobs, NEW shows \in SUBSET Sessions!Session,
         NEW phase \in {"waiting", "collecting", "failing"}
  PROVE  /\ Gathers(job, parts, shows, phase) \in Job
         /\ Gathers(job, parts, shows, phase).parts = parts
         /\ Gathers(job, parts, shows, phase).shows = shows
         /\ Gathers(job, parts, shows, phase).phase = phase
         /\ Gathers(job, parts, shows, phase).kind = job.kind
         /\ Gathers(job, parts, shows, phase).uri = job.uri
         /\ Gathers(job, parts, shows, phase).handle = job.handle
         /\ Gathers(job, parts, shows, phase).task = job.task
         /\ Gathers(job, parts, shows, phase).session = job.session
<1> DEFINE one == [job EXCEPT !.parts = parts]
           two == [one EXCEPT !.shows = shows]
           new == [two EXCEPT !.phase = phase]
<1>1. /\ one \in Job
      /\ one.parts = parts
      /\ one.kind = job.kind /\ one.uri = job.uri /\ one.handle = job.handle
      /\ one.task = job.task /\ one.session = job.session
  BY DEF Job
<1>. HIDE DEF one
<1>2. /\ two \in Job
      /\ two.parts = parts /\ two.shows = shows
      /\ two.kind = job.kind /\ two.uri = job.uri /\ two.handle = job.handle
      /\ two.task = job.task /\ two.session = job.session
  BY <1>1 DEF Job
<1>. HIDE DEF two
<1>3. /\ new \in Job
      /\ new.parts = parts /\ new.shows = shows /\ new.phase = phase
      /\ new.kind = job.kind /\ new.uri = job.uri /\ new.handle = job.handle
      /\ new.task = job.task /\ new.session = job.session
  BY <1>2 DEF Job
<1>. HIDE DEF new
<1>4. Gathers(job, parts, shows, phase) = new
  BY Zenon DEF Gathers, new, two, one
<1>. QED
  BY <1>3, <1>4

\* A settled promise hands on what it shows to those of its own document, and
\* nobody waits for it any more.
LEMMA SettleKeeps ==
  ASSUME AnswerInv, PullsExist, TasksStay, NEW j \in Jobs, Running(j),
         jobs[j].phase # "waiting", NEW shows,
         shows \subseteq {jobs[j].session} \cup jobs[j].shows, Settle(j, shows)
  PROVE  AnswersKept
<1>1. /\ jobs \in [Jobs -> Job \cup {NoEntry}] /\ NoEntry \notin Job
      /\ results \in [Kinds -> [Uris -> Result \cup {NoEntry}]]
      /\ NoEntry \notin Jobs /\ jobs[j] \in Job
  BY AnswersAssumption DEF AnswerInv, AnswerTypes, Running
<1>2. shows \subseteq Sessions!Session /\ shows \subseteq Work(jobs[j].uri)
  <2>1. jobs[j].session \in Sessions!Session
    BY <1>1, AnswersAssumption DEF AnswerInv, Stages, Job
  <2>. QED BY <1>1, <2>1, IsWork DEF Job
<1> DEFINE Rest(job) == Gathers(job, job.parts \ {j}, job.shows \cup shows,
                                IF shows = {} THEN "failing" ELSE job.phase)
           Settled(r) == [r EXCEPT !.job = NoEntry, !.shows = shows]
<1>a. jobs' = [i \in Jobs |->
        IF i = j THEN NoEntry
        ELSE IF ~Running(i) \/ j \notin jobs[i].parts THEN jobs[i]
        ELSE Rest(jobs[i])]
  BY Zenon DEF Settle
<1>b. results' = [k \in Kinds |-> [u \in Uris |->
        IF results[k][u] # NoEntry /\ results[k][u].job = j
        THEN Settled(results[k][u])
        ELSE results[k][u]]]
  BY Zenon DEF Settle
<1>c. pulls' = [q \in Pulls |->
        IF pulls[q] = NoEntry \/ pulls[q].job # j THEN pulls[q]
        ELSE IF pulls[q].last \/ shows = {} THEN NoEntry
        ELSE [pulls[q] EXCEPT !.job = NoEntry]]
  BY Zenon DEF Settle
<1>d. \A job \in Job :
        /\ Rest(job) \in Job
        /\ Rest(job).parts = job.parts \ {j}
        /\ Rest(job).shows = job.shows \cup shows
        /\ Rest(job).phase \in {job.phase, "failing"}
        /\ Rest(job).kind = job.kind /\ Rest(job).uri = job.uri
        /\ Rest(job).task = job.task /\ Rest(job).session = job.session
  <2>. SUFFICES ASSUME NEW job \in Job
                PROVE  /\ Rest(job) \in Job
                       /\ Rest(job).parts = job.parts \ {j}
                       /\ Rest(job).shows = job.shows \cup shows
                       /\ Rest(job).phase \in {job.phase, "failing"}
                       /\ Rest(job).kind = job.kind /\ Rest(job).uri = job.uri
                       /\ Rest(job).task = job.task /\ Rest(job).session = job.session
    OBVIOUS
  <2>1. /\ job.parts \ {j} \in SUBSET Jobs /\ job.shows \cup shows \in SUBSET Sessions!Session
        /\ job.phase \in {"waiting", "collecting", "failing"}
    BY <1>2 DEF Job
  <2>. QED
    BY <2>1, GathersTyped
<1>e. \A r \in Result :
        Settled(r) \in Result /\ Settled(r).job = NoEntry /\ Settled(r).shows = shows
  BY <1>2 DEF Result
<1>. HIDE DEF Rest, Settled
<1>3. jobs'[j] = NoEntry
  BY <1>a
<1>4. \A i \in Jobs \ {j} :
        \/ (~Running(i) \/ j \notin jobs[i].parts) /\ jobs'[i] = jobs[i]
        \/ /\ Running(i) /\ j \in jobs[i].parts
           /\ jobs'[i] \in Job
           /\ jobs'[i].parts = jobs[i].parts \ {j}
           /\ jobs'[i].shows = jobs[i].shows \cup shows
           /\ jobs'[i].phase \in {jobs[i].phase, "failing"}
           /\ jobs'[i].kind = jobs[i].kind /\ jobs'[i].uri = jobs[i].uri
           /\ jobs'[i].task = jobs[i].task /\ jobs'[i].session = jobs[i].session
  <2>. SUFFICES ASSUME NEW i \in Jobs \ {j}, Running(i), j \in jobs[i].parts
                PROVE  /\ jobs'[i] \in Job
                       /\ jobs'[i].parts = jobs[i].parts \ {j}
                       /\ jobs'[i].shows = jobs[i].shows \cup shows
                       /\ jobs'[i].phase \in {jobs[i].phase, "failing"}
                       /\ jobs'[i].kind = jobs[i].kind /\ jobs'[i].uri = jobs[i].uri
                       /\ jobs'[i].task = jobs[i].task /\ jobs'[i].session = jobs[i].session
    BY <1>a
  <2>1. jobs[i] \in Job
    BY <1>1 DEF Running
  <2>2. jobs'[i] = Rest(jobs[i])
    BY <1>a
  <2>. QED BY <1>d, <2>1, <2>2
<1>5. \A i \in Jobs : Running(i)' =>
        /\ i # j /\ Running(i)
        /\ jobs'[i].kind = jobs[i].kind /\ jobs'[i].uri = jobs[i].uri
        /\ jobs'[i].parts = jobs[i].parts \ {j}
        /\ jobs'[i].task = jobs[i].task /\ jobs'[i].session = jobs[i].session
  BY <1>1, <1>3, <1>4 DEF Running, Job
<1>6. \A i \in Jobs \ {j} : Running(i) =>
        Running(i)' /\ jobs'[i].kind = jobs[i].kind /\ jobs'[i].uri = jobs[i].uri
  BY <1>1, <1>4 DEF Running
<1>7. \A k \in Kinds, u \in Uris :
        \/ /\ results[k][u] = NoEntry \/ results[k][u].job # j
           /\ results'[k][u] = results[k][u]
        \/ /\ results[k][u] # NoEntry /\ results[k][u].job = j
           /\ results'[k][u] \in Result
           /\ results'[k][u].job = NoEntry /\ results'[k][u].shows = shows
  <2>. SUFFICES ASSUME NEW k \in Kinds, NEW u \in Uris, results[k][u] # NoEntry,
                       results[k][u].job = j
                PROVE  /\ results'[k][u] \in Result
                       /\ results'[k][u].job = NoEntry /\ results'[k][u].shows = shows
    BY <1>b
  <2>1. results[k][u] \in Result
    BY <1>1
  <2>2. results'[k][u] = Settled(results[k][u])
    BY <1>b
  <2>. QED BY <1>e, <2>1, <2>2
<1>8. AnswerTypes'
  <2>1. jobs' \in [Jobs -> Job \cup {NoEntry}]
    <3>1. \A i \in Jobs : jobs'[i] \in Job \cup {NoEntry}
      BY <1>1, <1>3, <1>4
    <3>. QED BY <1>a, <3>1
  <2>2. results' \in [Kinds -> [Uris -> Result \cup {NoEntry}]]
    <3>1. \A k \in Kinds, u \in Uris : results'[k][u] \in Result \cup {NoEntry}
      BY <1>1, <1>7
    <3>. QED BY <1>b, <3>1
  <2>. QED BY <2>1, <2>2 DEF AnswerTypes
<1>9. Stages'
  <2>. SUFFICES ASSUME NEW i \in Jobs, Running(i)'
                PROVE  /\ jobs'[i].phase = "waiting" =>
                            /\ jobs'[i].parts = {}
                            /\ jobs'[i].task = NoEntry <=> jobs'[i].session # NoEntry
                       /\ jobs'[i].phase # "waiting" =>
                            jobs'[i].task = NoEntry /\ jobs'[i].session # NoEntry
    BY DEF Stages, Running
  <2>1. CASE jobs'[i] = jobs[i]
    BY <1>5, <2>1 DEF AnswerInv, Stages
  <2>2. CASE Running(i) /\ j \in jobs[i].parts
    BY <1>4, <1>5, <2>2 DEF AnswerInv, Stages
  <2>. QED BY <1>4, <1>5, <2>1, <2>2
<1>10. TasksAwaited'
  <2>. SUFFICES ASSUME NEW i \in Jobs, Running(i)', jobs'[i].task # NoEntry
                PROVE  /\ tasks'[jobs'[i].task] # NoEntry
                       /\ tasks'[jobs'[i].task].uri = jobs'[i].uri
    BY DEF TasksAwaited, Running
  <2>1. Running(i) /\ jobs[i].task \in TaskIds
    BY <1>1, <1>5 DEF Running, Job
  <2>. QED BY <1>5, <2>1 DEF AnswerInv, WaitsAreForWork, TasksAwaited, TasksStay
<1>11. PartsAwaited'
  <2>. SUFFICES ASSUME NEW i \in Jobs, Running(i)', NEW p \in jobs'[i].parts
                PROVE  /\ jobs'[p] # NoEntry /\ jobs'[p].uri = jobs'[i].uri
                       /\ jobs'[p].kind \in Parts[jobs'[i].kind]
    BY DEF PartsAwaited, Running
  <2>1. Running(i) /\ p \in jobs[i].parts /\ p \in Jobs \ {j}
    BY <1>1, <1>5 DEF Job, Running
  <2>2. Running(p) /\ jobs[p].uri = jobs[i].uri /\ jobs[p].kind \in Parts[jobs[i].kind]
    BY <2>1 DEF AnswerInv, WaitsAreForWork, PartsAwaited
  <2>. QED BY <1>5, <1>6, <2>1, <2>2 DEF Running
<1>12. PromisesAwaited'
  <2>. SUFFICES ASSUME NEW k \in Kinds, NEW u \in Uris, results'[k][u] # NoEntry,
                       NEW i, i = results'[k][u].job, i # NoEntry
                PROVE  jobs'[i] # NoEntry /\ jobs'[i].uri = u /\ jobs'[i].kind = k
    BY DEF PromisesAwaited, Running
  <2>1. results'[k][u] = results[k][u] /\ i \in Jobs \ {j}
    BY <1>1, <1>7 DEF Result
  <2>. QED BY <1>6, <2>1 DEF AnswerInv, WaitsAreForWork, PromisesAwaited, Running
<1>13. PullsAwaited'
  <2>1. \A q \in Pulls :
          \/ /\ pulls[q] = NoEntry \/ pulls[q].job # j
             /\ pulls'[q] = pulls[q]
          \/ pulls'[q] # NoEntry => pulls'[q].job = NoEntry
    BY <1>c DEF PullsExist
  <2>. SUFFICES ASSUME NEW q \in Pulls, pulls'[q] # NoEntry, NEW i, i = pulls'[q].job,
                       i # NoEntry
                PROVE  /\ i \in Jobs /\ jobs'[i] # NoEntry
                       /\ jobs'[i].uri = pulls'[q].uri /\ jobs'[i].kind = pulls'[q].kind
    BY DEF PullsAwaited, Running
  <2>2. pulls'[q] = pulls[q] /\ i # j
    BY <2>1
  <2>. QED BY <1>6, <2>2 DEF AnswerInv, WaitsAreForWork, PullsAwaited, Running
<1>14. Flows
  <2>1. ASSUME NEW i \in Jobs, Running(i)', NEW r \in Sessions!Session,
               r = jobs'[i].session \/ r \in jobs'[i].shows
        PROVE  r \in Work(jobs'[i].uri) \cup Supply(jobs'[i].uri)
    <3>1. CASE r = jobs[i].session \/ r \in jobs[i].shows
      BY <1>5, <2>1, <3>1, IsWork
    <3>2. CASE j \in jobs[i].parts /\ r \in shows
      <4>1. jobs[j].uri = jobs[i].uri
        BY <1>5, <2>1, <3>2 DEF AnswerInv, WaitsAreForWork, PartsAwaited
      <4>. QED BY <1>2, <1>5, <2>1, <3>2, <4>1
    <3>. QED BY <1>4, <1>5, <2>1, <3>1, <3>2
  <2>2. ASSUME NEW k \in Kinds, NEW w \in Uris, results'[k][w] # NoEntry
        PROVE  results'[k][w].shows \subseteq Work(w) \cup Supply(w)
    <3>1. CASE results'[k][w] = results[k][w]
      BY <2>2, <3>1, IsWork
    <3>2. CASE results[k][w] # NoEntry /\ results[k][w].job = j
      <4>1. jobs[j].uri = w
        BY <1>1, <3>2 DEF AnswerInv, WaitsAreForWork, PromisesAwaited
      <4>. QED BY <1>2, <1>7, <3>2, <4>1
    <3>. QED BY <1>7, <3>1, <3>2
  <2>. QED BY <2>1, <2>2, FlowsFrom
<1>. QED
  BY <1>8, <1>9, <1>10, <1>11, <1>12, <1>13, <1>14 DEF AnswersKept, AnswerInv, WaitsAreForWork

\* A job is about an object of its document.
JobsExist ==
  \A j \in Jobs : Running(j) => jobs[j].handle \in 1..current[jobs[j].uri]

LEMMA PartTyped ==
  ASSUME NEW k \in Kinds, NEW u \in Uris, NEW h \in 1..MaxHandles, NEW s \in Sessions!Session
  PROVE  LET part == NewJob(k, u, h, "collecting", NoEntry, s)
         IN  /\ part \in Job /\ part # NoEntry
             /\ part.parts = {} /\ part.shows = {}
             /\ part.phase = "collecting" /\ part.task = NoEntry /\ part.session = s
             /\ part.kind = k /\ part.uri = u /\ part.handle = h
<1>1. NewJob(k, u, h, "collecting", NoEntry, s).handle = h
  BY DEF NewJob
<1>. QED
  BY <1>1, NewJobTyped

\* Parts found are shared, missing ones started with the session of the job.
LEMMA CollectKeeps ==
  ASSUME SessionFacts, AnswerInv, PullsExist, JobsExist, TasksStay,
         NEW j \in Jobs, Collect(j)
  PROVE  AnswersKept
<1> DEFINE job == jobs[j]
           u == job.uri
           version == PartVersion(job)
           missing == {k \in Parts[job.kind] : ~IsCached(k, u, version)}
           found == {results[k][u] : k \in Parts[job.kind] \ missing}
           new == CHOOSE new \in Injection(missing, FreeJobs) : TRUE
           Awaited == {new[k] : k \in missing} \cup ({r.job : r \in found} \ {NoEntry})
           Rejected == \E r \in found : r.job = NoEntry /\ r.shows = {}
           phase == IF Rejected THEN "failing" ELSE "collecting"
           Shown1 == UNION {r.shows : r \in found}
           Part(i) == NewJob(CHOOSE k \in missing : new[k] = i, u, job.handle, "collecting",
                             NoEntry, job.session)
<1>1. /\ Running(j) /\ job.phase = "waiting" /\ job.session # NoEntry
      /\ Injection(missing, FreeJobs) # {}
      /\ UNCHANGED <<sessionVars, pulls>>
  BY Zenon DEF Collect
<1>2. jobs' = [i \in Jobs |->
        IF i = j THEN Gathers(job, Awaited, Shown1, phase)
        ELSE IF \E k \in missing : new[k] = i THEN Part(i) ELSE jobs[i]]
  BY Zenon DEF Collect
<1>3. results' = [k \in Kinds |->
        IF k \in missing THEN [results[k] EXCEPT ![u] = Promise(version, new[k])]
        ELSE results[k]]
  BY Zenon DEF Collect
<1>4. /\ jobs \in [Jobs -> Job \cup {NoEntry}] /\ NoEntry \notin Job
      /\ results \in [Kinds -> [Uris -> Result \cup {NoEntry}]]
      /\ NoEntry \notin Jobs
  BY AnswersAssumption DEF AnswerInv, AnswerTypes
<1>5. job \in Job /\ u \in Uris /\ job.kind \in Kinds /\ job.session \in Sessions!Session
  BY <1>1, <1>4 DEF Running, Job
<1>6. version \in 1..MaxVersion
  <2>1. doc[u][job.handle] \in Sessions!Document
    BY <1>1, <1>5 DEF SessionFacts, JobsExist
  <2>. QED BY <2>1 DEF PartVersion, Sessions!Document, Sessions!Versions
<1>7. \A k \in Kinds : Parts[k] \subseteq Kinds
  BY DEF Kinds, Parts
<1>8. missing \subseteq Kinds /\ missing \subseteq Parts[job.kind]
  BY <1>5, <1>7
<1>. HIDE DEF version, missing
<1>9. /\ \A k \in missing : new[k] \in Jobs /\ ~Running(new[k]) /\ new[k] # j
      /\ \A k, l \in missing : new[k] = new[l] => k = l
  <2>1. new \in Injection(missing, FreeJobs)
    BY <1>1
  <2>2. new \in [missing -> FreeJobs] /\ IsInjective(new)
    BY <2>1 DEF Injection
  <2>3. \A k \in missing : new[k] \in FreeJobs
    BY <2>2
  <2>4. \A k, l \in missing : new[k] = new[l] => k = l
    BY <2>2 DEF IsInjective
  <2>. QED BY <1>1, <2>3, <2>4 DEF FreeJobs
<1>. HIDE DEF new
<1>10. \A k \in Parts[job.kind] \ missing :
         /\ results[k][u] # NoEntry /\ results[k][u] \in Result
         /\ results[k][u].job # NoEntry =>
              /\ results[k][u].job \in Jobs /\ Running(results[k][u].job)
              /\ jobs[results[k][u].job].uri = u /\ jobs[results[k][u].job].kind = k
         /\ results[k][u].shows \subseteq Sessions!Session
         /\ results[k][u].shows \subseteq Work(u)
  <2>. SUFFICES ASSUME NEW k \in Parts[job.kind] \ missing
                PROVE  /\ results[k][u] # NoEntry /\ results[k][u] \in Result
                       /\ results[k][u].job # NoEntry =>
                            /\ results[k][u].job \in Jobs /\ Running(results[k][u].job)
                            /\ jobs[results[k][u].job].uri = u
                            /\ jobs[results[k][u].job].kind = k
                       /\ results[k][u].shows \subseteq Sessions!Session
                       /\ results[k][u].shows \subseteq Work(u)
    OBVIOUS
  <2>1. k \in Kinds /\ results[k][u] # NoEntry
    BY <1>5, <1>7 DEF missing, IsCached
  <2>2. results[k][u] \in Result
    BY <1>4, <1>5, <2>1
  <2>3. results[k][u].job # NoEntry =>
          /\ Running(results[k][u].job)
          /\ jobs[results[k][u].job].uri = u /\ jobs[results[k][u].job].kind = k
    BY <1>5, <2>1 DEF AnswerInv, WaitsAreForWork, PromisesAwaited
  <2>. QED BY <1>5, <2>1, <2>2, <2>3, IsWork DEF Result
<1>11. /\ Shown1 \subseteq Sessions!Session /\ Shown1 \subseteq Work(u)
       /\ Awaited \subseteq Jobs
  BY <1>9, <1>10
<1>12. \A i \in Awaited :
         \/ \E k \in missing : i = new[k]
         \/ Running(i) /\ jobs[i].uri = u /\ jobs[i].kind \in Parts[job.kind]
  BY <1>10
<1>. HIDE DEF found, Awaited, Rejected, Shown1
<1>13. phase \in {"collecting", "failing"}
  OBVIOUS
<1>. HIDE DEF phase
<1>14. /\ jobs'[j] \in Job /\ jobs'[j] # NoEntry
       /\ jobs'[j].parts = Awaited /\ jobs'[j].shows = Shown1 /\ jobs'[j].phase = phase
       /\ jobs'[j].kind = job.kind /\ jobs'[j].uri = u /\ jobs'[j].handle = job.handle
       /\ jobs'[j].task = job.task /\ jobs'[j].session = job.session
  <2>1. jobs'[j] = Gathers(job, Awaited, Shown1, phase)
    BY <1>2
  <2>. QED BY <1>4, <1>5, <1>11, <1>13, <2>1, GathersTyped
<1>15. \A k \in missing :
         /\ jobs'[new[k]] \in Job /\ jobs'[new[k]] # NoEntry
         /\ jobs'[new[k]].parts = {} /\ jobs'[new[k]].shows = {}
         /\ jobs'[new[k]].phase = "collecting" /\ jobs'[new[k]].task = NoEntry
         /\ jobs'[new[k]].session = job.session
         /\ jobs'[new[k]].kind = k /\ jobs'[new[k]].uri = u
         /\ jobs'[new[k]].handle = job.handle
  <2>. SUFFICES ASSUME NEW k \in missing
                PROVE  /\ jobs'[new[k]] \in Job /\ jobs'[new[k]] # NoEntry
                       /\ jobs'[new[k]].parts = {} /\ jobs'[new[k]].shows = {}
                       /\ jobs'[new[k]].phase = "collecting" /\ jobs'[new[k]].task = NoEntry
                       /\ jobs'[new[k]].session = job.session
                       /\ jobs'[new[k]].kind = k /\ jobs'[new[k]].uri = u
                       /\ jobs'[new[k]].handle = job.handle
    OBVIOUS
  <2>1. (CHOOSE l \in missing : new[l] = new[k]) = k
    BY <1>9
  <2>2. jobs'[new[k]] = NewJob(k, u, job.handle, "collecting", NoEntry, job.session)
    BY <1>2, <1>9, <2>1
  <2>3. k \in Kinds /\ job.handle \in 1..MaxHandles
    BY <1>5, <1>8 DEF Job
  <2>. QED BY <1>5, <2>2, <2>3, PartTyped
<1>16. \A i \in Jobs : i # j /\ (\A k \in missing : i # new[k]) => jobs'[i] = jobs[i]
  BY <1>2
<1>17. \A k \in Kinds, w \in Uris :
         IF k \in missing /\ w = u THEN results'[k][w] = Promise(version, new[k])
         ELSE results'[k][w] = results[k][w]
  BY <1>3, <1>4, <1>5
<1>18. AnswerTypes'
  <2>1. \A i \in Jobs : jobs'[i] \in Job \cup {NoEntry}
    BY <1>4, <1>14, <1>15, <1>16
  <2>2. jobs' \in [Jobs -> Job \cup {NoEntry}]
    BY <1>2, <2>1
  <2>3. \A k \in missing : Promise(version, new[k]) \in Result
    BY <1>6, <1>9, PromiseTyped
  <2>4. \A k \in Kinds : results'[k] \in [Uris -> Result \cup {NoEntry}]
    BY <1>3, <1>4, <2>3
  <2>5. results' \in [Kinds -> [Uris -> Result \cup {NoEntry}]]
    BY <1>3, <2>4
  <2>. QED BY <2>2, <2>5 DEF AnswerTypes
<1>19. JobsGoOn
  <2>. SUFFICES ASSUME NEW i \in Jobs, Running(i)
                PROVE  jobs'[i] # NoEntry /\ jobs'[i].uri = jobs[i].uri /\ jobs'[i].kind = jobs[i].kind
    BY DEF JobsGoOn, Running
  <2>1. \A k \in missing : i # new[k]
    BY <1>9
  <2>. QED BY <1>14, <1>16, <2>1 DEF Running
<1>20. Stages'
  <2>. SUFFICES ASSUME NEW i \in Jobs, jobs'[i] # NoEntry
                PROVE  /\ jobs'[i].phase = "waiting" =>
                            /\ jobs'[i].parts = {}
                            /\ jobs'[i].task = NoEntry <=> jobs'[i].session # NoEntry
                       /\ jobs'[i].phase # "waiting" =>
                            jobs'[i].task = NoEntry /\ jobs'[i].session # NoEntry
    BY DEF Stages, Running
  <2>1. CASE i = j
    BY <1>1, <1>13, <1>14, <2>1 DEF AnswerInv, Stages
  <2>2. CASE \E k \in missing : i = new[k]
    BY <1>1, <1>15, <2>2
  <2>3. CASE jobs'[i] = jobs[i]
    BY <2>3 DEF AnswerInv, Stages, Running
  <2>. QED BY <1>16, <2>1, <2>2, <2>3
<1>21. TasksAwaited'
  <2>. SUFFICES ASSUME NEW i \in Jobs, jobs'[i] # NoEntry, jobs'[i].task # NoEntry
                PROVE  /\ tasks'[jobs'[i].task] # NoEntry
                       /\ tasks'[jobs'[i].task].uri = jobs'[i].uri
    BY DEF TasksAwaited, Running
  <2>1. /\ Running(i) /\ jobs'[i].task = jobs[i].task /\ jobs'[i].uri = jobs[i].uri
    BY <1>1, <1>14, <1>15, <1>16 DEF Running
  <2>2. jobs[i].task \in TaskIds
    BY <1>4, <2>1 DEF Running, Job
  <2>. QED BY <2>1, <2>2 DEF AnswerInv, WaitsAreForWork, TasksAwaited, TasksStay
<1>22. PartsAwaited'
  <2>. SUFFICES ASSUME NEW i \in Jobs, jobs'[i] # NoEntry, NEW p \in jobs'[i].parts
                PROVE  /\ jobs'[p] # NoEntry /\ jobs'[p].uri = jobs'[i].uri
                       /\ jobs'[p].kind \in Parts[jobs'[i].kind]
    BY DEF PartsAwaited, Running
  <2>1. CASE i = j
    <3>1. p \in Awaited
      BY <1>14, <2>1
    <3>2. CASE \E k \in missing : p = new[k]
      BY <1>8, <1>14, <1>15, <2>1, <3>2
    <3>3. CASE Running(p) /\ jobs[p].uri = u /\ jobs[p].kind \in Parts[job.kind]
      BY <1>11, <1>14, <1>19, <2>1, <3>1, <3>3 DEF JobsGoOn, Running
    <3>. QED BY <1>12, <3>1, <3>2, <3>3
  <2>2. CASE \E k \in missing : i = new[k]
    BY <1>15, <2>2
  <2>3. CASE jobs'[i] = jobs[i]
    <3>1. /\ p \in Jobs /\ Running(p) /\ jobs[p].uri = jobs[i].uri
          /\ jobs[p].kind \in Parts[jobs[i].kind]
      BY <1>4, <2>3 DEF AnswerInv, WaitsAreForWork, PartsAwaited, Running, Job
    <3>. QED BY <1>19, <2>3, <3>1 DEF JobsGoOn, Running
  <2>. QED BY <1>16, <2>1, <2>2, <2>3
<1>23. PromisesAwaited'
  <2>. SUFFICES ASSUME NEW k \in Kinds, NEW w \in Uris, results'[k][w] # NoEntry,
                       NEW i, i = results'[k][w].job, i # NoEntry
                PROVE  jobs'[i] # NoEntry /\ jobs'[i].uri = w /\ jobs'[i].kind = k
    BY DEF PromisesAwaited, Running
  <2>1. CASE k \in missing /\ w = u
    BY <1>6, <1>9, <1>15, <1>17, <2>1, PromiseTyped
  <2>2. CASE ~(k \in missing /\ w = u)
    <3>1. results'[k][w] = results[k][w] /\ i \in Jobs
      BY <1>4, <1>17, <2>2 DEF Result
    <3>. QED BY <1>19, <3>1 DEF AnswerInv, WaitsAreForWork, PromisesAwaited, JobsGoOn, Running
  <2>. QED BY <2>1, <2>2
<1>24. PullsAwaited'
  BY <1>1, <1>19 DEF AnswerInv, WaitsAreForWork, PullsAwaited, JobsGoOn, Running
<1>25. Flows
  <2>1. ASSUME NEW i \in Jobs, Running(i)', NEW r \in Sessions!Session,
               r = jobs'[i].session \/ r \in jobs'[i].shows
        PROVE  r \in Work(jobs'[i].uri) \cup Supply(jobs'[i].uri)
    <3>1. CASE i = j
      BY <1>1, <1>11, <1>14, <2>1, <3>1, IsWork
    <3>2. CASE \E k \in missing : i = new[k]
      BY <1>1, <1>15, <2>1, <3>2, IsWork
    <3>3. CASE jobs'[i] = jobs[i]
      BY <2>1, <3>3, IsWork DEF Running
    <3>. QED BY <1>16, <3>1, <3>2, <3>3
  <2>2. \A k \in Kinds, w \in Uris : results'[k][w] # NoEntry =>
          results'[k][w].shows \subseteq Work(w) \cup Supply(w)
    BY <1>6, <1>9, <1>17, IsWork, PromiseTyped
  <2>. QED BY <2>1, <2>2, FlowsFrom
<1>. QED
  BY <1>18, <1>20, <1>21, <1>22, <1>23, <1>24, <1>25 DEF AnswersKept, AnswerInv, WaitsAreForWork

LEMMA GathersObject ==
  ASSUME NEW job \in Job, NEW parts, NEW shows, NEW phase
  PROVE  /\ Gathers(job, parts, shows, phase).uri = job.uri
         /\ Gathers(job, parts, shows, phase).handle = job.handle
  BY DEF Gathers, Job

\* The job is about the object of one there was, or another of its document.
IsAboutObject(job) ==
  \/ \E i \in Jobs : Running(i) /\ job.uri = jobs[i].uri /\ job.handle = jobs[i].handle
  \/ \E u \in Uris : job.uri = u /\ job.handle \in 1..current[u]

LEMMA JobsStayAboutObjects ==
  ASSUME CacheInv, AnswerInv, [Next]_vars
  PROVE  \A i \in Jobs : Running(i)' => IsAboutObject(jobs'[i])
<1>. SUFFICES ASSUME NEW i \in Jobs, jobs'[i] # NoEntry PROVE IsAboutObject(jobs'[i])
  BY DEF Running
<1>1. jobs \in [Jobs -> Job \cup {NoEntry}]
  BY DEF AnswerInv, AnswerTypes
<1>2. CASE jobs'[i] = jobs[i]
  BY <1>2 DEF IsAboutObject, Running
<1>3. ASSUME NEW q \in Pulls, NEW k \in Kinds, NEW u \in Uris, NEW h \in 1..current[u],
             NEW last, AskAnew(q, k, u, h, last)
      PROVE  IsAboutObject(jobs'[i])
  <2>1. PICK t \in TaskIds \cup {NoEntry} : jobs' = [jobs EXCEPT ![CHOOSE j \in FreeJobs : TRUE] =
          NewJob(k, u, h, "waiting", t, SessionAtHand(u, h))]
    BY <1>3 DEF AskAnew
  <2>2. jobs'[i] = jobs[i] \/ jobs'[i] = NewJob(k, u, h, "waiting", t, SessionAtHand(u, h))
    BY <1>1, <2>1
  <2>3. CASE jobs'[i] = NewJob(k, u, h, "waiting", t, SessionAtHand(u, h))
    BY <1>3, <2>3 DEF NewJob, IsAboutObject
  <2>. QED BY <1>2, <2>2, <2>3
<1>4. ASSUME NEW t \in TaskIds, SessionResolves(t) PROVE IsAboutObject(jobs'[i])
  <2>1. PICK s : jobs' = [j \in Jobs |->
                   IF ~Running(j) \/ jobs[j].task # t THEN jobs[j]
                   ELSE [jobs[j] EXCEPT !.task = NoEntry, !.session = s]]
    BY Zenon, <1>4 DEF SessionResolves
  <2>2. CASE Running(i) /\ jobs'[i] = [jobs[i] EXCEPT !.task = NoEntry, !.session = s]
    <3>1. jobs[i] \in Job
      BY <1>1, <2>2 DEF Running
    <3>2. jobs'[i].uri = jobs[i].uri /\ jobs'[i].handle = jobs[i].handle
      BY <2>2, <3>1 DEF Job
    <3>. QED BY <2>2, <3>2 DEF IsAboutObject
  <2>. QED BY <1>2, <2>1, <2>2
<1>5. ASSUME NEW j \in Jobs, Running(j), jobs'[i].uri = jobs[j].uri, jobs'[i].handle = jobs[j].handle
      PROVE  IsAboutObject(jobs'[i])
  BY <1>5 DEF IsAboutObject
<1>6. ASSUME NEW j \in Jobs, Collect(j) PROVE IsAboutObject(jobs'[i])
  <2> DEFINE job == jobs[j]
             u == job.uri
             version == PartVersion(job)
             missing == {k \in Parts[job.kind] : ~IsCached(k, u, version)}
             found == {results[k][u] : k \in Parts[job.kind] \ missing}
             new == CHOOSE new \in Injection(missing, FreeJobs) : TRUE
             Awaited == {new[k] : k \in missing} \cup ({r.job : r \in found} \ {NoEntry})
             Rejected == \E r \in found : r.job = NoEntry /\ r.shows = {}
             phase == IF Rejected THEN "failing" ELSE "collecting"
             whole == Gathers(job, Awaited, UNION {r.shows : r \in found}, phase)
             part == NewJob(CHOOSE k \in missing : new[k] = i, u, job.handle, "collecting",
                            NoEntry, job.session)
  <2>1. /\ Running(j)
        /\ jobs' = [l \in Jobs |->
             IF l = j THEN whole
             ELSE IF \E k \in missing : new[k] = l
             THEN NewJob(CHOOSE k \in missing : new[k] = l, u, job.handle, "collecting",
                         NoEntry, job.session)
             ELSE jobs[l]]
    BY <1>6, Zenon DEF Collect
  <2>2. job \in Job
    BY <1>1, <2>1 DEF Running
  <2>3. whole.uri = u /\ whole.handle = job.handle
    BY <2>2, GathersObject
  <2>4. part.uri = u /\ part.handle = job.handle
    BY DEF NewJob
  <2>. HIDE DEF missing, new, whole
  <2>5. jobs'[i] \in {whole, part, jobs[i]}
    BY <2>1 DEF part
  <2>. QED BY <1>2, <1>5, <2>1, <2>3, <2>4, <2>5
<1>7. ASSUME NEW j \in Jobs, NEW shows, Settle(j, shows) PROVE IsAboutObject(jobs'[i])
  <2> DEFINE Rest(l) == Gathers(jobs[l], jobs[l].parts \ {j}, jobs[l].shows \cup shows,
                                IF shows = {} THEN "failing" ELSE jobs[l].phase)
  <2>1. jobs' = [l \in Jobs |->
          IF l = j THEN NoEntry
          ELSE IF ~Running(l) \/ j \notin jobs[l].parts THEN jobs[l] ELSE Rest(l)]
    BY <1>7, Zenon DEF Settle
  <2>2. Running(i) => Rest(i).uri = jobs[i].uri /\ Rest(i).handle = jobs[i].handle
    BY <1>1, GathersObject DEF Running
  <2>. HIDE DEF Rest
  <2>3. jobs'[i] = jobs[i] \/ (Running(i) /\ jobs'[i] = Rest(i))
    BY <2>1
  <2>4. CASE Running(i) /\ jobs'[i] = Rest(i)
    BY <1>5, <2>2, <2>4
  <2>. QED BY <1>2, <2>3, <2>4
<1>. QED
  BY <1>2, <1>3, <1>4, <1>6, <1>7, AnswerSteps DEF Forget, AskCached, Finish, Fail

\* A job is about an object of its document.
LEMMA JobsExistStep ==
  ASSUME CacheInv, AnswerInv, AnswerInv', JobsExist, [Next]_vars
  PROVE  JobsExist'
<1>. SUFFICES ASSUME NEW i \in Jobs, Running(i)'
              PROVE  jobs'[i].handle \in 1..current'[jobs'[i].uri]
  BY DEF JobsExist
<1>1. SessionFacts /\ \A u \in Uris : current'[u] >= current[u]
  BY CacheGivesFacts, StepIsSessionStep, OpenExistsStep DEF CacheInv, UInv
<1>2. /\ current \in [Uris -> 0..MaxHandles] /\ current' \in [Uris -> 0..MaxHandles]
      /\ MaxHandles \in Nat
  <2>1. CacheInv'
    BY CacheInvStep
  <2>2. SessionFacts'
    BY <2>1, CacheInvFacts, PTL
  <2>. QED
    BY <1>1, <2>2, SessionsAssumption
    DEF SessionFacts, Sessions!TypeOK, Sessions!BoundsAssumption
<1>3. jobs \in [Jobs -> Job \cup {NoEntry}] /\ jobs' \in [Jobs -> Job \cup {NoEntry}]
  BY DEF AnswerInv, AnswerTypes
<1>4. CASE \E l \in Jobs : Running(l) /\ jobs'[i].uri = jobs[l].uri
                           /\ jobs'[i].handle = jobs[l].handle
  <2>1. PICK l \in Jobs : Running(l) /\ jobs'[i].uri = jobs[l].uri
                          /\ jobs'[i].handle = jobs[l].handle
    BY <1>4
  <2>2. jobs[l].uri \in Uris /\ jobs[l].handle \in 1..current[jobs[l].uri]
    BY <1>3, <2>1 DEF JobsExist, Running, Job
  <2>3. current'[jobs[l].uri] >= current[jobs[l].uri]
    BY <1>1, <2>2
  <2>. QED BY <1>2, <2>1, <2>2, <2>3
<1>5. CASE \E u \in Uris : jobs'[i].uri = u /\ jobs'[i].handle \in 1..current[u]
  BY <1>1, <1>2, <1>5
<1>. QED
  BY <1>4, <1>5, JobsStayAboutObjects DEF IsAboutObject

-----------------------------------------------------------------------------
(* The answers in every state.                                             *)

LEMMA AnswerInvInit == Init => AnswerInv /\ JobsExist
<1>. SUFFICES ASSUME Init PROVE AnswerInv /\ JobsExist
  OBVIOUS
<1>1. \A j \in Jobs : ~Running(j)
  BY DEF Init, Running
<1>2. \A k \in Kinds, u \in Uris : results[k][u] = NoEntry
  BY DEF Init
<1>3. AnswerTypes
  BY DEF Init, AnswerTypes
<1>4. \A q \in Pulls : pulls[q] = NoEntry
  BY DEF Init
<1>. QED
  BY <1>1, <1>2, <1>3, <1>4
  DEF AnswerInv, JobsExist, Stages, WaitsAreForWork, TasksAwaited, PartsAwaited,
      PromisesAwaited, PullsAwaited

LEMMA PullsWaitKeeps ==
  ASSUME PullsAwaited, UNCHANGED jobs, PullsWait
  PROVE  PullsAwaited'
<1>. SUFFICES ASSUME NEW q \in Pulls, pulls'[q] # NoEntry, pulls'[q].job # NoEntry
              PROVE  /\ pulls'[q].job \in Jobs /\ jobs'[pulls'[q].job] # NoEntry
                     /\ jobs'[pulls'[q].job].uri = pulls'[q].uri
                     /\ jobs'[pulls'[q].job].kind = pulls'[q].kind
  BY DEF PullsAwaited, Running
<1>1. pulls'[q] = pulls[q]
  BY DEF PullsWait
<1>. QED
  BY <1>1 DEF PullsAwaited, Running

LEMMA AnswersStep ==
  ASSUME CacheInv, AnswerInv, JobsExist, [Next]_vars
  PROVE  AnswersKept
<1>1. SessionFacts /\ PullsExist /\ PullsExist'
  BY CacheInvFacts, UInvStep DEF CacheInv, UInv
<1>2. ASSUME TasksStay, NEW S \in SUBSET Uris, Forget(S) PROVE AnswersKept
  BY <1>2, ForgetKeeps
<1>3. CASE TasksStay /\ UNCHANGED <<jobs, results>> /\ PullsWait
  BY <1>1, <1>3, PullsWaitKeeps, WaitingKeeps DEF AnswerInv, WaitsAreForWork
<1>4. ASSUME NEW q \in Pulls, NEW k \in Kinds, NEW u \in Uris, NEW last \in BOOLEAN,
             NEW h \in 1..current[u],
             (TasksStay /\ AskCached(q, k, u, h, last)) \/ AskAnew(q, k, u, h, last)
      PROVE  AnswersKept
  BY <1>1, <1>4, AskCachedKeeps, AskAnewKeeps
<1>5. ASSUME NEW t \in TaskIds, SessionResolves(t) PROVE AnswersKept
  BY <1>1, <1>5, SessionResolvesKeeps
<1>6. ASSUME TasksStay, NEW j \in Jobs, Collect(j) PROVE AnswersKept
  BY <1>1, <1>6, CollectKeeps
<1>7. ASSUME TasksStay, NEW j \in Jobs, Finish(j) \/ Fail(j) PROVE AnswersKept
  <2>1. Running(j) /\ jobs[j].phase # "waiting"
    BY <1>7 DEF Finish, Fail
  <2>2. CASE Settle(j, {jobs[j].session} \cup jobs[j].shows)
    BY <1>1, <1>7, <2>1, <2>2, SettleKeeps
  <2>3. CASE Settle(j, {})
    BY <1>1, <1>7, <2>1, <2>3, SettleKeeps
  <2>. QED BY <1>7, <2>2, <2>3 DEF Finish, Fail
<1>. QED
  BY <1>2, <1>3, <1>4, <1>5, <1>6, <1>7, AnswerSteps

\* What holds of the answers in every state, and what every step keeps of them.
ServerInv == CacheInv /\ AnswerInv /\ JobsExist

LEMMA ServerInvInit == Init => ServerInv
  BY CacheInvInit, AnswerInvInit DEF ServerInv

LEMMA ServerInvStep == ServerInv /\ [Next]_vars => ServerInv'
<1>. SUFFICES ASSUME ServerInv, [Next]_vars PROVE ServerInv'
  OBVIOUS
<1>1. AnswerInv'
  BY AnswersStep DEF ServerInv, AnswersKept
<1>. QED
  BY <1>1, CacheInvStep, JobsExistStep DEF ServerInv

-----------------------------------------------------------------------------
(* Drops and the history of them.                                          *)

\* A step that drops nothing leaves the histories of drops.
Rests == UNCHANGED <<raced, straddled, freshFrom>>

\* A drop of S, with what it leaves of the history.
Drops(S) == /\ \E k \in Nat : Sessions!Drop(S, k)
            /\ Forget(S) /\ Race(S)

LEMMA LookUpRests ==
  ASSUME NEW u, NEW h,
         \/ Sessions!ServeCached(u, h)
         \/ Sessions!BuildNow(u, h)
         \/ \E t \in TaskIds : Sessions!StartAsyncResolution(u, h, t)
  PROVE  UNCHANGED <<straddled, freshFrom>>
  BY DEF Sessions!ServeCached, Sessions!BuildNow, Sessions!StartAsyncResolution,
     Sessions!historyVars

LEMMA AskRests ==
  ASSUME NEW q, NEW k, NEW u, NEW h, NEW last, Ask(q, k, u, h, last)
  PROVE  UNCHANGED <<straddled, freshFrom>>
<1>1. CASE UNCHANGED sessionVars
  BY <1>1 DEF sessionVars
<1>2. ASSUME NEW t \in TaskIds \cup {NoEntry}, Request(u, h, t)
      PROVE  UNCHANGED <<straddled, freshFrom>>
  BY <1>1, <1>2, LookUpRests DEF Request
<1>. QED BY <1>1, <1>2 DEF Ask, AskAnew

\* Only a close and an invalidation drop anything.
LEMMA ServerSteps ==
  ASSUME CacheInv, [Next]_vars
  PROVE  Rests \/ \E S \in SUBSET Uris : Drops(S)
<1> DEFINE Goal == Rests \/ \E S \in SUBSET Uris : Drops(S)
<1>0. told \in Nat /\ world \in Nat
  BY CacheInvFacts, SessionsAssumption
  DEF SessionFacts, Sessions!TypeOK, Sessions!Epochs, Sessions!BoundsAssumption
<1>1. ASSUME NEW u \in Uris, NEW text \in Texts, DidOpen(u, text) \/ DidChangeContent(u, text)
      PROVE  Goal
  BY <1>1 DEF DidOpen, DidChangeContent, Sessions!Open, Sessions!Edit, Sessions!historyVars,
     Tear, Rests
<1>2. ASSUME NEW u \in Uris, DidClose(u) PROVE Goal
  <2>1. Sessions!Drop({u}, told) /\ Forget({u}) /\ Race({u})
    BY <1>2 DEF DidClose, CloseSession, Sessions!Close
  <2>2. Drops({u})
    BY <1>0, <2>1 DEF Drops
  <2>. QED BY <2>2
<1>3. CASE Invalidate
  <2>1. PICK k \in told..world : Sessions!Drop(Uris, k)
    BY <1>3 DEF Invalidate, Sessions!Clear
  <2>2. k \in Nat
    BY <1>0
  <2>3. Drops(Uris)
    BY <1>3, <2>1, <2>2 DEF Invalidate, Drops
  <2>. QED BY <2>3
<1>4. ASSUME NEW q \in Pulls, NEW k \in Pulled, NEW u \in Uris, Pull(q, k, u) PROVE Goal
  <2>1. CASE UNCHANGED sessionVars
    BY <1>4, <2>1 DEF Pull, sessionVars, Rests
  <2>2. ASSUME NEW last, Ask(q, k, u, current[u], last) PROVE Goal
    BY <1>4, <2>2, AskRests DEF Pull, Rests
  <2>. QED BY <1>4, <2>1, <2>2 DEF Pull
<1>5. ASSUME NEW q \in Pulls, SecondLook(q) \/ DiagnosticIdle(q) \/ PendingChangesSeen(q)
      PROVE  Goal
  <2> DEFINE u == pulls[q].uri
  <2>1. UNCHANGED raced
    BY <1>5 DEF SecondLook, DiagnosticIdle, PendingChangesSeen
  <2>2. CASE UNCHANGED sessionVars \/ Answered(q)
    BY <2>1, <2>2 DEF Answered, sessionVars, Rests
  <2>3. ASSUME NEW k, NEW h, Ask(q, k, u, h, TRUE) PROVE Goal
    BY <2>1, <2>3, AskRests DEF Rests
  <2>4. CASE Sessions!ServeCached(u, current[u])
    BY <2>1, <2>4, LookUpRests DEF Rests
  <2>. QED
    BY <1>5, <2>2, <2>3, <2>4 DEF SecondLook, DiagnosticIdle, PendingChangesSeen, Ask
<1>6. ASSUME NEW u \in Uris, FeatureRequest(u) PROVE Goal
  BY <1>6, LookUpRests
  DEF FeatureRequest, Sessions!GetForDocumentAsync, serverVars, Rests
<1>7. ASSUME NEW t \in TaskIds, ResolverEnds(t) \/ ExternalsSettle(t) PROVE Goal
  BY <1>7 DEF ResolverEnds, ExternalsSettle, Sessions!ResolverReturns, Sessions!ResolverFails,
     Sessions!ResolutionSettles, Sessions!historyVars, serverVars, Rests
<1>8. ASSUME NEW t \in TaskIds, SessionResolves(t) PROVE Goal
  <2>1. Sessions!Resume(t) /\ UNCHANGED raced
    BY <1>8, Zenon DEF SessionResolves
  <2>. QED BY <2>1 DEF Sessions!Resume, Rests
<1>9. ASSUME NEW j \in Jobs, Collect(j) \/ Finish(j) \/ Fail(j) PROVE Goal
  <2>1. UNCHANGED sessionVars /\ UNCHANGED raced
    BY <1>9 DEF Collect, Finish, Fail, Settle
  <2>. QED BY <2>1 DEF sessionVars, Rests
<1>10. CASE WorldChanges \/ UNCHANGED vars
  BY <1>10 DEF WorldChanges, Sessions!WorldChanges, Sessions!historyVars, vars, sessionVars,
     serverVars, Rests
<1>. QED
  BY <1>1, <1>2, <1>3, <1>4, <1>5, <1>6, <1>7, <1>8, <1>9, <1>10 DEF Next

\* A document nothing is under way for has no work left when its answers are
\* forgotten.
LEMMA NothingLeft ==
  ASSUME NEW u \in Uris, ~Busy(u), NEW S \in SUBSET Uris, u \in S, Forget(S)
  PROVE  Work(u)' = {}
<1>1. \A k \in Kinds : results'[k][u] = NoEntry
  BY DEF Forget, Without
<1>2. UNCHANGED jobs /\ \A j \in Jobs : Running(j) => jobs[j].uri # u
  BY DEF Forget, Busy
<1>. QED
  BY <1>1, <1>2 DEF Work, Running

\* The work on a document at whose last drop none was under way sees no file as
\* it was before that drop; none of it will, nor will the cache.
FreshWork ==
  \A u \in Uris : ~raced[u] =>
    /\ ~straddled[u]
    /\ \A s \in Work(u) : s.epoch # Sessions!Unresolved => s.epoch >= freshFrom[u]

\* What the cache supplies is fresh unless the drop was straddled.
LEMMA SupplyIsFresh ==
  ASSUME SessionFacts, NEW u \in Uris, ~straddled[u], NEW s \in Supply(u),
         s.epoch # Sessions!Unresolved
  PROVE  s.epoch >= freshFrom[u]
<1>1. CASE cache[u] # NoEntry /\ s = cache[u].session
  BY <1>1 DEF SessionFacts, Sessions!FreshUnlessStraddled
<1>2. ASSUME resolvedExternals[u] # NoEntry, NEW text,
             s = Sessions!ResolvedSession(text, resolvedExternals[u])
      PROVE  s.epoch >= freshFrom[u]
  <2>1. s.epoch = resolvedExternals[u].epoch
    BY <1>2 DEF Sessions!ResolvedSession
  <2>. QED BY <1>2, <2>1 DEF SessionFacts, Sessions!FreshUnlessStraddled
<1>3. ASSUME NEW text, s = Sessions!BaseSession(text) PROVE FALSE
  BY <1>3 DEF Sessions!BaseSession
<1>4. ASSUME NEW t \in TaskIds, tasks[t] # NoEntry, tasks[t].uri = u,
             s = Sessions!ResolvedSession(tasks[t].text, runs[tasks[t].run])
      PROVE  s.epoch >= freshFrom[u]
  <2>1. s.epoch = runs[tasks[t].run].epoch
    BY <1>4 DEF Sessions!ResolvedSession
  <2>2. tasks[t].run \in TaskIds
    BY <1>4 DEF SessionFacts, Sessions!TypeOK, Sessions!Task
  <2>3. runs[tasks[t].run] # NoEntry /\ runs[tasks[t].run].uri = u
    BY <1>4 DEF SessionFacts
  <2>. QED BY <2>1, <2>2, <2>3 DEF SessionFacts
<1>. QED
  BY <1>1, <1>2, <1>3, <1>4 DEF Supply

LEMMA FreshWorkStep ==
  ASSUME ServerInv, FreshWork, [Next]_vars
  PROVE  FreshWork'
<1>. SUFFICES ASSUME NEW u \in Uris, ~raced'[u]
              PROVE  /\ ~straddled'[u]
                     /\ \A s \in Work(u)' : s.epoch # Sessions!Unresolved => s.epoch >= freshFrom'[u]
  BY DEF FreshWork, Sessions!Unresolved
<1>1. SessionFacts /\ Flows
  BY CacheInvFacts, AnswersStep DEF ServerInv, AnswersKept
<1>2. CASE raced'[u] = raced[u] /\ straddled'[u] = straddled[u] /\ freshFrom'[u] = freshFrom[u]
  <2>1. ~straddled[u] /\ Work(u)' \subseteq Work(u) \cup Supply(u)
    BY <1>1, <1>2 DEF FreshWork, Flows
  <2>. QED BY <1>1, <1>2, <2>1, SupplyIsFresh DEF FreshWork
<1>3. ASSUME NEW S \in SUBSET Uris, Drops(S)
      PROVE  /\ ~straddled'[u]
             /\ \A s \in Work(u)' : s.epoch # Sessions!Unresolved => s.epoch >= freshFrom'[u]
  <2>0. PICK k \in Nat : Sessions!Drop(S, k)
    BY <1>3 DEF Drops
  <2>1. /\ raced' = [v \in Uris |-> IF v \in S THEN Busy(v) ELSE raced[v]]
        /\ straddled' = [v \in Uris |-> IF v \in S THEN Sessions!TasksOf(v) # {} ELSE straddled[v]]
        /\ freshFrom' = [v \in Uris |-> IF v \in S THEN k ELSE freshFrom[v]]
    BY <1>3, <2>0 DEF Drops, Race, Sessions!Drop
  <2>2. CASE u \in S
    <3>1. ~Busy(u)
      BY <2>1, <2>2
    <3>2. ~straddled'[u]
      BY <2>1, <2>2, <3>1 DEF Busy
    <3>3. Work(u)' = {}
      BY <1>3, <2>2, <3>1, NothingLeft DEF Drops
    <3>. QED BY <3>2, <3>3
  <2>3. CASE u \notin S
    BY <1>2, <2>1, <2>3
  <2>. QED BY <2>2, <2>3
<1>4. CASE Rests
  BY <1>2, <1>4 DEF Rests
<1>. QED
  BY <1>3, <1>4, ServerSteps DEF ServerInv

LEMMA WorkInit == Init => \A u \in Uris : Work(u) = {}
<1>. SUFFICES ASSUME Init PROVE \A u \in Uris : Work(u) = {}
  OBVIOUS
<1>1. \A j \in Jobs : ~Running(j)
  BY DEF Init, Running
<1>2. \A k \in Kinds, u \in Uris : results[k][u] = NoEntry
  BY DEF Init
<1>. QED
  BY <1>1, <1>2 DEF Work

\* No shown session is from other than the work.
LEMMA ShownIsWork ==
  ASSUME AnswerInv, NEW u \in Uris
  PROVE  Shown(u) \subseteq Work(u)
  BY IsWork DEF Shown, IsCached

\* Nothing waits for work that is gone: a job for a session whose resolution has
\* ended, a cached promise, a part or a pull for a job that has; and what it
\* waits for is work on the document, and of the kind, that it asked for.  Edits,
\* closes and invalidations, which stop no job, strand none either.
THEOREM NothingIsStranded == Spec => []WaitsAreForWork
<1>1. ServerInv => WaitsAreForWork
  BY DEF ServerInv, AnswerInv
<1>. QED
  BY <1>1, ServerInvInit, ServerInvStep, PTL DEF Spec

\* After an invalidation at which no work on the document was under way, no answer
\* shows a file as it was before the changes the project index had then been told
\* of, whichever parts, promises and resolver calls the jobs have shared since.
THEOREM AnswersAreFresh == Spec => []AnswersSeeInvalidations
<1>1. Init => ServerInv /\ FreshWork
  <2>1. Init => FreshWork
    BY WorkInit DEF FreshWork, Init, Sessions!Init
  <2>. QED BY <2>1, ServerInvInit
<1>2. (ServerInv /\ FreshWork) /\ [Next]_vars => (ServerInv /\ FreshWork)'
  BY ServerInvStep, FreshWorkStep
<1>3. ServerInv /\ FreshWork => AnswersSeeInvalidations
  BY ShownIsWork DEF AnswersSeeInvalidations, FreshWork, ServerInv
<1>. QED
  BY <1>1, <1>2, <1>3, PTL DEF Spec

=============================================================================
