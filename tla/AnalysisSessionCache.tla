------------------------- MODULE AnalysisSessionCache -------------------------
(***************************************************************************)
(* The language server's cache of analysis sessions,                       *)
(* compiler/lsp/analysisSession.ts.  A session is the analysis of one text *)
(* of a document together with the declarations its imports resolve to.    *)
(* Resolving imports is asynchronous, so a session is built in two halves: *)
(* startAsyncResolution captures the document and awaits the externals,    *)
(* and its continuation caches the finished session.  Edits, closes,       *)
(* workspace invalidations and other requests run between the two halves.  *)
(*                                                                         *)
(* The document manager (vscode-languageserver's TextDocuments), which     *)
(* edits a document object in place, and the files the resolver reads are  *)
(* external: Open, Edit, Close and WorldChanges say how they may move.     *)
(* The resolver reads the files through the project index, which may hold  *)
(* any file as it was when a watched-file event last told of a change.     *)
(***************************************************************************)
EXTENDS Integers

CONSTANTS
  Uris,             \* document uris
  Texts,            \* contents a document may have
  Keys, NoKey,      \* import texts; NoKey when a text has no syntax tree
  ImportKey,        \* the import text of each content (externalResolutionKey)
  NoEntry,          \* "the map has no entry"
  HasResolver,      \* server.ts passes a resolver, server-browser.ts does not
  MaxHandles,       \* bound: document objects per uri
  MaxVersion,       \* bound: document versions
  TaskIds,          \* names for resolutions in flight; bounds how many are
  MaxWorld          \* bound: changes of the files the resolver reads

ASSUME BoundsAssumption ==
  /\ MaxHandles \in Nat \ {0}
  /\ MaxVersion \in Nat \ {0}
  /\ MaxWorld \in Nat

ASSUME DataAssumption ==
  /\ NoKey \notin Keys
  /\ ImportKey \in [Texts -> Keys \cup {NoKey}]
  /\ HasResolver \in BOOLEAN

-----------------------------------------------------------------------------
(* The values the state is made of.                                        *)

Handles  == 1..MaxHandles
Versions == 1..MaxVersion
Epochs   == 0..MaxWorld
Unresolved == -1     \* the epoch of a base session: no externals were resolved

\* A session: the text it analyses, the import text its externals were
\* resolved for, and the epoch of the files they were read from.
Session == [text : Texts, key : Keys \cup {NoKey}, epoch : Epochs \cup {Unresolved}]

Document == [version : Versions, text : Texts]
CacheEntry == [version : Versions, source : Texts, session : Session]
PendingEntry == [version : Versions, source : Texts, promise : TaskIds]
Externals == [key : Keys, epoch : Epochs]
ExternalsEntry == [key : Keys, run : TaskIds]
Task == [uri : Uris, handle : Handles, version : Versions, text : Texts, run : TaskIds]
Run  == [phase : {"running", "stored", "resolved", "rejected"}, uri : Uris,
         key : Keys \cup {NoKey}, since : Epochs, epoch : Epochs]

ASSUME EntryAssumption ==
  NoEntry \notin TaskIds \cup Document \cup CacheEntry \cup PendingEntry
                \cup Externals \cup ExternalsEntry \cup Task \cup Run
                \cup Texts \cup [uri : Uris, text : Texts]

VARIABLES
  doc,                \* doc[u][h]: version and text of the h-th object of u
  current,            \* current[u]: the newest object of u, 0 before any open
  opened,             \* opened[u]: the client has u open
  world,              \* how often the files behind the imports have changed
  told,               \* how many of these changes the project index was told of
  cache,              \* the four maps of AnalysisSessionCache, by uri
  pending,
  resolvedExternals,
  pendingExternals,
  tasks,              \* tasks[t]: a started asynchronous resolution
  runs,               \* runs[r]: the resolver call that task r made, if it did
  freshFrom,          \* history: told when u was last deleted or cleared
  straddled,          \* history: u had a task in flight at that moment
  latest              \* history: the last task started for u since then

docVars    == <<doc, current, opened>>
cacheVars  == <<cache, pending, resolvedExternals, pendingExternals>>
taskVars   == <<tasks, runs>>
historyVars == <<freshFrom, straddled, latest>>
fileVars == <<world, told>>
vars == <<docVars, fileVars, cacheVars, taskVars, historyVars>>

BaseSession(text) == [text |-> text, key |-> ImportKey[text], epoch |-> Unresolved]

ResolvedSession(text, externals) ==
  [text |-> text, key |-> externals.key, epoch |-> externals.epoch]

CurrentDoc(u) == doc[u][current[u]]

\* A request for document d finds entry e: same version or same text.
Hits(e, d) == e # NoEntry /\ (e.version = d.version \/ e.source = d.text)

InFlight(t) == tasks[t] # NoEntry

TasksOf(u) == {t \in TaskIds : InFlight(t) /\ tasks[t].uri = u}

Init ==
  /\ doc = [u \in Uris |-> [h \in Handles |-> NoEntry]]
  /\ current = [u \in Uris |-> 0]
  /\ opened = [u \in Uris |-> FALSE]
  /\ world = 0
  /\ told = 0
  /\ cache = [u \in Uris |-> NoEntry]
  /\ pending = [u \in Uris |-> NoEntry]
  /\ resolvedExternals = [u \in Uris |-> NoEntry]
  /\ pendingExternals = [u \in Uris |-> NoEntry]
  /\ tasks = [t \in TaskIds |-> NoEntry]
  /\ runs = [t \in TaskIds |-> NoEntry]
  /\ freshFrom = [u \in Uris |-> 0]
  /\ straddled = [u \in Uris |-> FALSE]
  /\ latest = [u \in Uris |-> NoEntry]

-----------------------------------------------------------------------------
(* The document manager and the file system.                               *)

\* didOpen: the manager creates a document object; the client counts its
\* versions from 1 again.
Open(u, text) ==
  /\ ~opened[u]
  /\ current[u] < MaxHandles
  /\ doc' = [doc EXCEPT ![u][current[u] + 1] = [version |-> 1, text |-> text]]
  /\ current' = [current EXCEPT ![u] = @ + 1]
  /\ opened' = [opened EXCEPT ![u] = TRUE]
  /\ UNCHANGED <<fileVars, cacheVars, taskVars, historyVars>>

\* didChange updates the object itself, which resolutions and requests under way
\* hold too; the text may be the same one (a no-op version).
Edit(u, text) ==
  LET version == CurrentDoc(u).version + 1
  IN  /\ opened[u]
      /\ version <= MaxVersion
      /\ doc' = [doc EXCEPT ![u][current[u]] = [version |-> version, text |-> text]]
      /\ UNCHANGED <<current, opened, fileVars, cacheVars, taskVars, historyVars>>

\* A dependency is edited, installed or removed on disk.
WorldChanges ==
  /\ world < MaxWorld
  /\ world' = world + 1
  /\ UNCHANGED <<docVars, told, cacheVars, taskVars, historyVars>>

-----------------------------------------------------------------------------
(* Looking a session up, for document object h of uri u.                   *)

\* cachedSessionForDocument finds an entry; the entry moves to the version
\* that was asked for.
ServeCached(u, h) ==
  /\ Hits(cache[u], doc[u][h])
  /\ cache' = [cache EXCEPT ![u].version = doc[u][h].version]
  /\ UNCHANGED <<docVars, fileVars, pending, resolvedExternals, pendingExternals,
                 taskVars, historyVars>>

\* cachedExternalsForSource finds externals of the same import text.
ExternalsKnown(u, h) ==
  /\ HasResolver
  /\ ImportKey[doc[u][h].text] # NoKey
  /\ resolvedExternals[u] # NoEntry
  /\ resolvedExternals[u].key = ImportKey[doc[u][h].text]

\* cacheResolvedSession: a newer version already cached is kept.
CacheResolvedSession(u, version, source, session) ==
  cache' = IF cache[u] = NoEntry \/ cache[u].version <= version
           THEN [cache EXCEPT ![u] = [version |-> version, source |-> source,
                                      session |-> session]]
           ELSE cache

\* Both getters build the session at once when the externals are known, and
\* cache the base session when there is no resolver.
BuildNow(u, h) ==
  LET d == doc[u][h]
  IN  /\ \/ /\ ExternalsKnown(u, h)
            /\ CacheResolvedSession(u, d.version, d.text,
                                    ResolvedSession(d.text, resolvedExternals[u]))
         \/ /\ ~HasResolver
            /\ CacheResolvedSession(u, d.version, d.text, BaseSession(d.text))
      /\ UNCHANGED <<docVars, fileVars, pending, resolvedExternals, pendingExternals,
                     taskVars, historyVars>>

-----------------------------------------------------------------------------
(* The two halves of an asynchronous resolution.                           *)

\* Bug: any pending call of the uri is joined.
SharedRunBug(u, key) == key # NoKey /\ pendingExternals[u] # NoEntry

\* The pending resolver call a task with this import text joins.
SharedRun(u, key) ==
  key # NoKey /\ pendingExternals[u] # NoEntry /\ pendingExternals[u].key = key

\* startAsyncResolution up to its await, with resolveExternals: join the
\* pending call or make one.  A text without a key always makes its own and
\* leaves no trace of it in the maps.  What the call reads is no older than what
\* the project index has been told of by now.  The resolver is an async function,
\* as in server.ts: it cannot throw before it returns its promise.
StartAsyncResolution(u, h, t) ==
  LET d   == doc[u][h]
      key == ImportKey[d.text]
      own == ~SharedRun(u, key)
      run == IF own THEN t ELSE pendingExternals[u].run
  IN  /\ HasResolver
      /\ ~ExternalsKnown(u, h)
      /\ tasks[t] = NoEntry /\ runs[t] = NoEntry
      /\ tasks' = [tasks EXCEPT ![t] =
           [uri |-> u, handle |-> h, version |-> d.version, text |-> d.text,
            run |-> run]]
      /\ runs' = IF own
                 THEN [runs EXCEPT ![t] = [phase |-> "running", uri |-> u, key |-> key,
                                           since |-> told, epoch |-> told]]
                 ELSE runs
      /\ pendingExternals' = IF own /\ key # NoKey
                             THEN [pendingExternals EXCEPT ![u] = [key |-> key, run |-> t]]
                             ELSE pendingExternals
      /\ pending' = [pending EXCEPT ![u] =
           [version |-> d.version, source |-> d.text, promise |-> t]]
      /\ latest' = [latest EXCEPT ![u] = t]
      /\ UNCHANGED <<docVars, fileVars, cache, resolvedExternals, freshFrom, straddled>>

\* Bug: externals are stored for texts without a syntax tree too.
IsKeyedBug(key) == TRUE

\* Only externals resolved for a key are kept in the maps.
IsKeyed(key) == key # NoKey

\* The resolver of run r returns what it read, of each file what the index holds
\* or what is on disk; the continuation stores it when the text has a key.
ResolverReturns(r) ==
  /\ runs[r] # NoEntry
  /\ runs[r].phase = "running"
  /\ \E e \in runs[r].since..world :
       LET u == runs[r].uri
           key == runs[r].key
       IN  /\ runs' = [runs EXCEPT ![r].phase = IF IsKeyed(key) THEN "stored" ELSE "resolved",
                                   ![r].epoch = e]
           /\ resolvedExternals' =
                IF IsKeyed(key)
                THEN [resolvedExternals EXCEPT ![u] = [key |-> key, epoch |-> e]]
                ELSE resolvedExternals
  /\ UNCHANGED <<docVars, fileVars, cache, pending, pendingExternals, tasks, historyVars>>

\* The finally of resolveExternals: forget the call if it is still the one.
ForgetRun(r) ==
  LET u == runs[r].uri
  IN  pendingExternals' = IF pendingExternals[u] # NoEntry /\ pendingExternals[u].run = r
                          THEN [pendingExternals EXCEPT ![u] = NoEntry]
                          ELSE pendingExternals

ResolutionSettles(r) ==
  /\ runs[r] # NoEntry
  /\ runs[r].phase = "stored"
  /\ runs' = [runs EXCEPT ![r].phase = "resolved"]
  /\ ForgetRun(r)
  /\ UNCHANGED <<docVars, fileVars, cache, pending, resolvedExternals, tasks, historyVars>>

\* The resolver throws: only the finally runs.
ResolverFails(r) ==
  /\ runs[r] # NoEntry
  /\ runs[r].phase = "running"
  /\ runs' = [runs EXCEPT ![r].phase = "rejected"]
  /\ ForgetRun(r)
  /\ UNCHANGED <<docVars, fileVars, cache, pending, resolvedExternals, tasks, historyVars>>

\* Bug: whatever is pending for the uri is deleted.
ForgetTaskBug(t) == pending' = [pending EXCEPT ![tasks[t].uri] = NoEntry]

\* Bug: the entry is compared with the version the document has by now.
ForgetTaskLateBug(t) ==
  LET u == tasks[t].uri
  IN  pending' = IF /\ pending[u] # NoEntry
                    /\ pending[u].version = doc[u][tasks[t].handle].version
                    /\ pending[u].promise = t
                 THEN [pending EXCEPT ![u] = NoEntry]
                 ELSE pending

\* The finally of startAsyncResolution.
ForgetTask(t) ==
  LET u == tasks[t].uri
  IN  pending' = IF /\ pending[u] # NoEntry
                    /\ pending[u].version = tasks[t].version
                    /\ pending[u].promise = t
                 THEN [pending EXCEPT ![u] = NoEntry]
                 ELSE pending

\* document.version, read when the await returns.
CachedVersion(task) == doc[task.uri][task.handle].version

\* Bug: a rejected resolution is never taken up.
HasSettledBug(run) == run.phase = "resolved"

HasSettled(run) == run.phase \in {"resolved", "rejected"}

\* The await of startAsyncResolution returns.  The session analyses the text
\* captured at the start, and is cached under the version the document object
\* has now; a rejection caches nothing.  The run is forgotten with the last
\* task that awaits it.
Resume(t) ==
  LET task == tasks[t]
      run  == runs[task.run]
  IN  /\ InFlight(t)
      /\ HasSettled(run)
      /\ IF run.phase = "resolved"
         THEN CacheResolvedSession(task.uri, CachedVersion(task), task.text,
                                   ResolvedSession(task.text, run))
         ELSE UNCHANGED cache
      /\ ForgetTask(t)
      /\ tasks' = [tasks EXCEPT ![t] = NoEntry]
      /\ runs' = IF \E o \in TaskIds \ {t} : InFlight(o) /\ tasks[o].run = task.run
                 THEN runs
                 ELSE [runs EXCEPT ![task.run] = NoEntry]
      /\ latest' = IF latest[task.uri] = t THEN [latest EXCEPT ![task.uri] = NoEntry]
                   ELSE latest
      /\ UNCHANGED <<docVars, fileVars, resolvedExternals, pendingExternals, freshFrom,
                     straddled>>

-----------------------------------------------------------------------------
(* The public operations.                                                  *)

PeekForDocument(u) == opened[u] /\ ServeCached(u, current[u])

\* getForDocument: starts a resolution unless one of this version is pending.
GetForDocument(u) ==
  LET h == current[u]
  IN  /\ opened[u]
      /\ \/ ServeCached(u, h)
         \/ ~Hits(cache[u], doc[u][h]) /\ BuildNow(u, h)
         \/ /\ ~Hits(cache[u], doc[u][h])
            /\ ~(pending[u] # NoEntry /\ pending[u].version = doc[u][h].version)
            /\ \E t \in TaskIds : StartAsyncResolution(u, h, t)

\* getForDocumentAsync: shares the pending resolution of the same version or
\* the same text (a step that changes nothing), and only then builds.  A caller
\* that kept the document object may ask after the document has been closed, and
\* after it has been opened again as another object.
GetForDocumentAsync(u, h) ==
  /\ h <= current[u]
  /\ \/ ServeCached(u, h)
     \/ /\ ~Hits(cache[u], doc[u][h])
        /\ ~Hits(pending[u], doc[u][h])
        /\ BuildNow(u, h) \/ \E t \in TaskIds : StartAsyncResolution(u, h, t)

\* Bug: the resolved externals survive.
DropBug(S, k) ==
  LET Without(map) == [u \in Uris |-> IF u \in S THEN NoEntry ELSE map[u]]
  IN  /\ cache' = Without(cache)
      /\ pending' = Without(pending)
      /\ UNCHANGED resolvedExternals
      /\ pendingExternals' = Without(pendingExternals)
      /\ freshFrom' = [u \in Uris |-> IF u \in S THEN k ELSE freshFrom[u]]
      /\ straddled' = [u \in Uris |-> IF u \in S THEN TasksOf(u) # {} ELSE straddled[u]]
      /\ latest' = [u \in Uris |-> IF u \in S THEN NoEntry ELSE latest[u]]

\* Removes the entries of the uris in S, with the project index told of k changes
\* by then; what is in flight goes on.
Drop(S, k) ==
  LET Without(map) == [u \in Uris |-> IF u \in S THEN NoEntry ELSE map[u]]
  IN  /\ cache' = Without(cache)
      /\ pending' = Without(pending)
      /\ resolvedExternals' = Without(resolvedExternals)
      /\ pendingExternals' = Without(pendingExternals)
      /\ freshFrom' = [u \in Uris |-> IF u \in S THEN k ELSE freshFrom[u]]
      /\ straddled' = [u \in Uris |-> IF u \in S THEN TasksOf(u) # {} ELSE straddled[u]]
      /\ latest' = [u \in Uris |-> IF u \in S THEN NoEntry ELSE latest[u]]

\* didClose, which calls delete(uri).
Close(u) ==
  /\ opened[u]
  /\ opened' = [opened EXCEPT ![u] = FALSE]
  /\ Drop({u}, told)
  /\ UNCHANGED <<doc, current, fileVars, taskVars>>

\* clear().  With watched files that changed the project index forgets them in the
\* same step; with the refresh and install commands (k = told) it keeps what it has.
Clear ==
  \E k \in told..world :
    /\ told' = k
    /\ Drop(Uris, k)
    /\ UNCHANGED <<docVars, world, taskVars>>

Next ==
  \/ \E u \in Uris, text \in Texts : Open(u, text) \/ Edit(u, text)
  \/ WorldChanges
  \/ \E u \in Uris : \/ PeekForDocument(u)
                     \/ GetForDocument(u)
                     \/ \E h \in Handles : GetForDocumentAsync(u, h)
                     \/ Close(u)
  \/ Clear
  \/ \E t \in TaskIds : \/ ResolverReturns(t)
                        \/ ResolverFails(t)
                        \/ ResolutionSettles(t)
                        \/ Resume(t)

Spec == Init /\ [][Next]_vars

\* The resolver returns or throws, and the event loop runs every continuation.
Fairness ==
  \A t \in TaskIds : /\ WF_vars(ResolverReturns(t) \/ ResolverFails(t))
                     /\ WF_vars(ResolutionSettles(t))
                     /\ WF_vars(Resume(t))

FairSpec == Spec /\ Fairness

-----------------------------------------------------------------------------
(* Properties.                                                             *)

\* The values of the state variables.
TypeOK ==
  /\ doc \in [Uris -> [Handles -> Document \cup {NoEntry}]]
  /\ current \in [Uris -> 0..MaxHandles]
  /\ opened \in [Uris -> BOOLEAN]
  /\ world \in Epochs
  /\ told \in Epochs
  /\ cache \in [Uris -> CacheEntry \cup {NoEntry}]
  /\ pending \in [Uris -> PendingEntry \cup {NoEntry}]
  /\ resolvedExternals \in [Uris -> Externals \cup {NoEntry}]
  /\ pendingExternals \in [Uris -> ExternalsEntry \cup {NoEntry}]
  /\ tasks \in [TaskIds -> Task \cup {NoEntry}]
  /\ runs \in [TaskIds -> Run \cup {NoEntry}]
  /\ freshFrom \in [Uris -> Epochs]
  /\ straddled \in [Uris -> BOOLEAN]
  /\ latest \in [Uris -> TaskIds \cup {NoEntry}]

\* A cached session analyses the source it is filed under, with externals that
\* were resolved for that source's imports: sharing one resolver call between
\* tasks, and resolved externals between versions, never crosses import texts,
\* and a failed resolution never leaves a base session in the cache.
CoherentSessions ==
  \A u \in Uris : cache[u] # NoEntry =>
    /\ cache[u].session.text = cache[u].source
    /\ cache[u].session.key = ImportKey[cache[u].source]
    /\ HasResolver => cache[u].session.epoch # Unresolved

\* A pending entry is always a promise that is still going to settle, and the
\* caller that joins it joins work on the same uri, version and source: the two
\* finally blocks, which delete only their own entry, never leave one behind.
PendingIsInFlight ==
  \A u \in Uris :
    /\ pending[u] # NoEntry =>
         LET t == pending[u].promise
         IN  /\ InFlight(t)
             /\ tasks[t].uri = u
             /\ tasks[t].version = pending[u].version
             /\ tasks[t].text = pending[u].source
    /\ pendingExternals[u] # NoEntry =>
         LET r == pendingExternals[u].run
         IN  /\ runs[r] # NoEntry
             /\ runs[r].phase \in {"running", "stored"}
             /\ runs[r].uri = u
             /\ runs[r].key = pendingExternals[u].key

\* The resolution last started for a uri can be joined for as long as it is in
\* flight: an older one that finishes, or one from before a delete or a clear,
\* does not remove its entry, so a caller never duplicates it.
LatestWorkIsShared ==
  \A u \in Uris :
    latest[u] # NoEntry =>
      pending[u] # NoEntry /\ pending[u].promise = latest[u]

\* What a request for the open document would find, in the cache or in flight,
\* is the analysis of the document's present text.
RequestsSeeTheirText ==
  \A u \in Uris : opened[u] =>
    /\ Hits(cache[u], CurrentDoc(u)) => cache[u].session.text = CurrentDoc(u).text
    /\ Hits(pending[u], CurrentDoc(u)) =>
         tasks[pending[u].promise].text = CurrentDoc(u).text

\* After a delete or a clear at which no resolution of the document was in
\* flight, the maps hold nothing that was read before the changes the project
\* index had been told of.  (A resolution that was in flight goes on, and stores
\* what it read: the continuations do not look for a clear.  And a clear alone
\* promises nothing of changes no watched-file event has told of.)
FreshUnlessStraddled ==
  \A u \in Uris : ~straddled[u] =>
    /\ resolvedExternals[u] # NoEntry => resolvedExternals[u].epoch >= freshFrom[u]
    /\ cache[u] # NoEntry /\ cache[u].session.epoch # Unresolved =>
         cache[u].session.epoch >= freshFrom[u]

\* Every resolution that is started finishes, the ones that share another's
\* resolver call, fail, or were dropped by a close or a clear included.
ResolutionsSettle ==
  \A t \in TaskIds : InFlight(t) ~> ~InFlight(t)

-----------------------------------------------------------------------------
(* What the cache promises: SessionService, whose work is the tasks and     *)
(* which knows nothing of pending entries and shared resolver calls.        *)

Service == INSTANCE SessionService WITH
  texts   <- [u \in Uris |-> {doc[u][h].text : h \in 1..current[u]}],
  work    <- [t \in TaskIds |->
                IF InFlight(t) THEN [uri |-> tasks[t].uri, text |-> tasks[t].text]
                ELSE NoEntry],
  served  <- [u \in Uris |-> IF cache[u] = NoEntry THEN NoEntry ELSE cache[u].session],
  floor   <- [u \in Uris |-> IF straddled[u] THEN 0 ELSE freshFrom[u]]

\* Every behaviour of the four maps is one of the service: a request is only ever
\* served a text an object of the document had when the work on it began, with
\* declarations no older than what the last quiet invalidation had been told of,
\* whichever calls were shared for it.
ImplementsService == Service!Spec

=============================================================================
