# VexaScript in TLA+

TLA+ models of the parts of VexaScript where the order of events decides what is
correct: the language server and its caches, the playground's worker client, the
development server and the incremental module graph; and of one pure algorithm whose
correctness is about all paths of a program, definite assignment. TLC checks them
on small instances; TLAPS proves the safety properties of all of it for every value of
the constants.

- `tlc -config <cfg> <MC module>` runs one check; the table of runs is below.
- `tlapm <module>` checks the proofs of `AnalysisSessionCache_proofs`, `SessionRequests_proofs`,
  `LspServer_proofs`, `ProjectIndex_proofs`, `LanguageWorker_proofs`, `DevServer_proofs`,
  `ModuleGraph_proofs` and `ControlFlow_proofs`.
- `PROJECT.json` maps every definition to the source lines it models and lists
  the components, runs, hazards, findings and theorems.

## 1. The system

VexaScript is a TypeScript-like language with a compiler, a language server, a
playground, a development server and editor plugins, all in TypeScript. The
compiler proper is sequential; what runs concurrently is around it: everything
is on one event loop, but nearly every operation awaits (a file, a resolver, a
timer), and other handlers run in between. No component uses locks; the maps of
pending promises, version numbers and flags are all that orders them.

| Component (source) | State it keeps | Operations | Hard behaviour |
|---|---|---|---|
| Analysis session cache (`compiler/lsp/analysisSession.ts`) | per uri: session, pending session, externals, pending externals | peek, get, get async, delete, clear | edits, closes and invalidations while a resolution is awaited; shared resolver calls; failing resolvers |
| Project index (`compiler/analysis/projectIndex.ts`, its use in `compiler/lsp/server.ts`) | overrides of open documents, disk sessions, pending work of both | upsert, clear and get a document; invalidate a file; get a session | builds in flight that finish in any order; a file that changes between its stat, its read and its indexing |
| Language server core (`compiler/lsp/serverCore.ts`, `server.ts`, `server-browser.ts`) | result caches by document version, workspace exports, documents that wait for idle | LSP handlers, `invalidate*`, waits for idle | an edit or invalidation during an awaited answer; answers that share parts; a document closed or reopened during a wait |
| Development server (`cli/cliServe.ts`) | watchers, recorded versions, queue, forced queue, timer, rebuild flag, bundle, event streams | watch, poll, drain, rebuild, broadcast, close | files written during a rebuild; lost events; dying watchers; failing builds; close during a rebuild |
| Module graph (`compiler/runtime/moduleGraph.ts`) | contexts and compiled modules kept from build to build | a depth-first build | import cycles; reuse of a context or result collected for other texts; builds with errors |
| Declaration loading (`compiler/lsp/ambientTypesLoader.ts`, `dtsModuleGraph.ts`, `compiler/runtime/declarationProgramCache.ts`, `programCache.ts`) | caches by path, mtime or hash | load once, store program and hash | retry after failure; two writes that are not one; partial keys |
| Playground worker client (`website/src/assets/monaco`, `vexa-embed.ts`) | requests by id, timers, the refresh counter of the glyphs | edit, refresh, request, answer, refuse, disable | answers in any order, a worker that dies, a text that has moved on |
| Control flow and definite assignment (`compiler/analysis/controlFlow.ts`, `DefiniteAssignmentChecker.ts`) | the set of assigned variables, during one traversal | predicates and a visitor over statements | jumps, loops, cases and handlers: what holds on every path |
| Language features, parser, analysis, lowering, emitter, formatter | none between calls | functions of a session or a text | data, not order |
| Node module bundler, command line, MCP server, Vite plugin, project configuration, VS Code extension | artifact cache; document versions in the extension | one-shot commands and adapters | I/O around the compiler |

How they interact. An edit reaches the server core, which hands the document to
the project index (`upsertOpenDocument`), drops its own results and later asks
the session cache. The session cache calls a resolver that reads other files
through the project index and the declaration loaders. The file watcher and the
client's commands call `invalidateFile`, `clear` and `delete`. In `vexa serve`
the development server calls the module graph with the set of changed files and
with the cache of the last build, and watches the files the build reports back.

What makes each of them correct, in a sentence:

- session cache: a request finds an analysis of the text it asks about, made with
  the imports of that text as they were read after the last invalidation;
- project index: an open document is served as it is typed, a closed one as it is
  on disk, and nothing read before an invalidation survives it;
- server core: a cached answer shows the text of its document and no file from before
  what the last invalidation told of, and every pull is answered;
- development server: every change it can see ends in a rebuild, what is written again
  during its own rebuild is rebuilt again, and every page that listens is told;
- module graph: a build with the cache gives what a build without it would give, as far
  as it was told what changed;
- declaration loading: a program is that of the file, the hash and the version it is
  stored under, and a failed load can be tried again;
- worker client: what is displayed never goes back to an earlier text, and comes to be
  that of the last;
- control flow: a statement said to exit does on every path, and a read is reported
  when some path reaches it before an assignment.

Where the code does not keep to one of these, the run that shows it, or the exception in the
property, is in section 5.

## 2. The modules

State variables and actions carry the names of the source's fields and methods;
an await splits a method into two actions, and the code between two awaits is
one action. Where a hazard is stated about the past ("read before the last
invalidation"), a history variable records it; no guard reads a history variable.

### AnalysisSessionCache

`cache`, `pending`, `resolvedExternals` and `pendingExternals` are the four maps.
A session is abstracted to what it was made of: the text, the import text
(`externalResolutionKey`, `NoKey` for a text without a syntax tree) and the
epoch of the files its imports were read at. `tasks` are the calls of
`startAsyncResolution` that are past their start and not yet resumed; `runs` are
the calls of `resolveExternals`, which several tasks may await.

| Action | Code |
|---|---|
| `PeekForDocument`, `GetForDocument`, `GetForDocumentAsync` | the public getters, up to their first await |
| `StartAsyncResolution` | the first half of a resolution: capture the document, join or start a resolver call, register both |
| `ResolverReturns`, `ResolverFails`, `ResolutionSettles` | the resolver's result, and the continuations of `resolveExternals` |
| `Resume` | the continuation of `startAsyncResolution`: cache the session, clear the pending entry |
| `Close`, `Clear` | `delete(uri)` on didClose, `clear()` on invalidation |
| `Open`, `Edit`, `WorldChanges` | external: the document manager and the files |

The document manager of every server in the repository, `TextDocuments`, edits its document objects
in place, and so does `Edit`: a `version` that is read after an await is that of the edited object. Closing
and opening a document makes another object, with versions that count from 1 again (`Open`).
`MaxHandles` bounds the objects. A handler that awaits may go on with an object that is no longer
the open one, so `GetForDocumentAsync` takes any object there is.

`world` counts the changes of the files behind the imports, and `told` how many of them the project
index was told of. The resolver reads through the index, which may hold a file as it was when it was
last told, so `ResolverReturns` gives any state from `told` at the call's start (`since`) up to
`world`. `Clear` is `clear()` with its caller: watched files that changed are reported to the index
in the same step, while the refresh and install commands tell it nothing. Metrics and profiling are
left out, and so is a resolver that throws before it returns its promise: the one of `server.ts` is
an async function.

### SessionService

What the other parts rely on, without the four maps: a document has a content, work on
it begins and ends, and what is served is a content the document had when the work
began, analysed with the declarations of that content's imports, read no earlier
than what the last invalidation had told of, if no work was under way then. `AnalysisSessionCache!Service`
instantiates it: `work` is the tasks, `served` the cached sessions, `floor` the history of
drops. Pending entries and resolver calls, and that a task may share another's, have
no counterpart; `ImplementsService` is checked in `sessions` and proved.

### LspServer

The result caches of `serverCore.ts` on top of AnalysisSessionCache, which it instantiates with
its own variables: every action that needs a session is conjoined with an action of the
cache. A *job* is the work for one answer. It waits for a session (`SessionResolves`),
looks the parts of its answer up in caches of their own and starts those that are
missing (`Collect`), and settles (`Finish`, `Fail`), which answers the pulls and the
jobs that wait for it. `results[kind][uri]` is the entry of a cache: the version it was
filed under and the promise.

| Action | Code |
|---|---|
| `Pull` | `diagnostics.on`, `diagnostics.onWorkspace`, `semanticTokens.on` up to their first wait |
| `DiagnosticIdle` | `currentDocumentAfterDiagnosticIdle`: go on, wait again, or give up a closed document |
| `PendingChangesSeen` | `currentDocumentAfterPendingChanges` and what `semanticTokens.on` does after it |
| `SecondLook` | the second round of `diagnostics.onWorkspace`: the object asked about, as it is by then |
| `FeatureRequest` | completion, hover and the like, as far as the cache sees them |
| `DidOpen`, `DidChangeContent`, `DidClose` | the document events |
| `Invalidate` | `invalidateWorkspaceCaches`, by a command or watched files |

Jobs and pulls hold the document object they were asked about, which may be edited under them or no
longer be the open one; `Collect` looks a part up, and files it, under the version that object has
by then. An answer is abstracted to the sessions it was made from. `torn` and `raced` are history: an
edit came while work on the document was under way, or a question about an object that is not the
open one; a drop came while work was under way. Left out: code actions, ranges of tokens, the
cached symbols of the workspace, and diagnostics that depend on other open documents.

### LanguageWorker

The playground's editor, the client and the worker. `pending` is the client's map of
requests; `timer`, `frames` and `newest` are the 100 ms timer of `wireDiagnostics`, the
scheduled animation frames and `autoAwaitGlyphRefreshVersions`. `TimerFires`, `FrameComes` and
`OpenFile` are the three ways to a refresh; `Answer`, `Refuse` and `Disable` are what may
become of its requests. The worker answers in any order: its `onmessage` is asynchronous and
requests overtake each other. Left out: features asked for at a position (their answer
goes to a caller that the editor has cancelled if the text moved), disposal, and the
worker's own sessions.

### ControlFlow and Programs

`AlwaysExits`, `PreventsFallthrough` and `Visit` are `statementAlwaysExits`,
`statementPreventsSwitchFallthrough` and `DefiniteAssignmentChecker.visitStatement`. Each is a
recursion over the syntax tree, and what it says of a node depends on the kind of the node and on
what it says of the parts. So a part of a node is a record of what the analyses say of that part:
`s.first.exits` is the recursive call of `statementAlwaysExits`, and `s.first.visit[a]` that of
`visitStatement` in the state in which the variables a are assigned. A list is its first statement and the
list of the others, a switch the record of its cases with their tests, a `try` with both clauses a
finally around a try with a catch clause. An expression statement is its expression, but for `(break)`
and the like, which `controlFlow.ts:81` does not take for the break it looks for.

Programs has the reference. `Run` is the set of outcomes of a statement: how it completes, which
variables are assigned then, and which were read before they were. Conditions and discriminants may
turn out either way, and whatever is evaluated may throw: a read is f(x), an assignment x = f(). The tests
of a switch run one after the other up to the one that matches, and the cases from there on. A loop runs
any number of rounds; the states it may start a round in are a least set (`Starts`). The state machine is how
programs are built: `AddLeaf`, `AddStatement` and `AddSwitch` add a statement made of those there
are. Left out: `defer` (the checker visits its expression where it stands, although it runs at the end), `with`,
namespaces, the head of a for loop, jumps inside larger expressions, and statements that no path
tells apart from a block. The labels of a program are one label.

### ProjectIndex

`override`/`pendingOpen`/`upserts` are `openOverrides`, `pendingOpenOverrides` and
the builds in flight; `cached`/`pendingDisk`/`loads` are the same for disk
sessions. A load has three steps, `Stat`, `Read` and `FinishLoad`, and the file may
be written, deleted or reported between any two. `noticed` is the version
at the last invalidation and `since` the same at the last request that joined a
load: both are history. So is `undone`, the documents edited back to
their override while another build is pending (section 5).

An index session is abstracted to the text it was built from. What depends on
several files is thereby out of the model: the bindings of imports (a file
indexed before the file it imports exists keeps the import unresolved), the
scan of the source roots, and the swap of one index for another when
`loadProject` finds a configuration. Setting the override and deleting the pending
entry are two microtasks in the code and one action here. Indexing does not
reject; a missing file is a result (`null`).

### DevServer

`watchers`, `watched`, `pending`, `forced`, `timer` and `rebuilding` are
`watcherAbortControllers`, `watchedFileVersions`, `pendingChangedFiles`,
`forcedChangedFiles`, `pendingRebuildTimer` and `rebuildInProgress`. `job[d]` is a
`drainPendingRebuild` in progress, with one action per awaited file:
`DrainChecks`, `StatBefore`, `BuildReads`, `StatAfter`; `Decide`, `BuildFails`,
`BuildSucceeds` and `BuildEnds` are the code between. `PageLoads` and `PageListens`
are the two endpoints a page calls. A content is the number of writes so far,
and mtime and size change with it. Deleting a file or breaking its syntax is a
write whose result is in `Broken`. Files are written at any time, during builds too. `WatchEvent` is
an event of a live watcher: it may come late, never, or for no change. Each report arms the 20 ms
timer again, and so puts it off; as time is not in the model, that is a timer that is set and stays
set, and nothing says that it ever fires (see Fairness).

Left out: path mapping, static files, the cached bundle of node modules and
asset handling. A build reads the entry and its direct imports; the order of a
deeper graph is in ModuleGraph.

### ModuleGraph

One action per step of `visit`: `ReadModule`, `VisitImport`, `CollectImport` and
`CompileModule`, over an explicit `stack` in place of the recursion; `contexts` and
`compiled` are the two maps of the incremental state, `waiting` is
`pendingTypeContextConsumersByPath`. `BuildStarts` and `BuildEnds` are the caller's
part: the changed files and `incrementalModuleGraphState`. A build is told of *some* of the modules that
were ever part of a good build (`watched`): the development server passes on what was queued and
differs from its recorded version, so a change may be told late or, if a build read it before it was noticed,
not at all, and a file may be told that did not change. Files are written at any time. `seen` is
history: the texts of each module that were read since a build was told of a change outside the
entry, which is when the caller gives up its cache. The declarations of a
module are the pair of its name and its text, so a set of declarations tells which
text of which module each was taken from. `project` is chosen at the start and
never changes: one run checks every import graph of its family.

Left out: assets, global symbol files, typings of node modules, the resolution of
a missing file and the non-incremental `bundleModuleGraph`.

## 3. The runs

A `violation` run shows a disagreement of the code with what its documents or tests
say; section 5 explains it.

| Run | Instance | Shows | Distinct states |
|---|---|---|---|
| `sessions` | 3 texts (two with different imports, one without a tree), 1 object edited in place, 3 versions, 2 tasks, 1 change of the files | types; sessions are coherent; pending entries are in flight; the newest work is shared; drops are final if nothing was in flight; the session service is implemented; every resolution finishes | @sessions |
| `sessions_inplace` | 2 texts with the same imports, 1 object, 2 versions, 2 tasks | violation | |
| `server_answers` | pulls of the workspace's diagnostics and of tokens: 1 pull, 3 jobs (an answer and its two parts), 1 text, 2 objects, 1 change of the files | no cached answer shows files from before what the last quiet invalidation had told of | @server_answers |
| `server_pulls` | pulls of diagnostics: 1 pull, 2 jobs, 2 texts with different imports, 2 versions edited in place, 2 objects | every pull is answered; answers show the text unless it moved during work; the cache is moved by its own operations only | @server_pulls |
| `index_sessions` | 1 file, 2 texts, 3 disk versions with a deletion between, 2 builds and 2 loads in flight | open documents are served; nothing from before an invalidation is kept or given; the cache and the overrides catch up | @index_sessions |
| `index_undo` | 2 texts, 2 builds | violation | |
| `worker_display` | an editable and a read-only file, 3 versions, 3 pending requests, a worker that may refuse or die | the display moves forward and settles | @worker_display |
| `serve` | 2 files, 2 writes each at any moment; the entry gains an import with its first write, a version of that file does not compile; 1 drain, 1 page | the queue is always scheduled; what is written again during its own rebuild is noticed; pages are owed their reload; no timer after close; changes the server can see are rebuilt; rebuilds end | @serve |
| `serve_overlooked` | an entry with an import, 1 write each | violation | |
| `graph_builds` | 3 modules, 1 write each at any moment, 96 projects: imports that change from text to text, cycles of two modules and through the entry, a text with errors | nothing older than the last told change is compiled against; reuse gives what a fresh build gives where no change went untold; every direct import is seen; bundles are complete; builds end | @graph_builds |
| `flow_programs` | one variable; all programs that 4 steps build | what is said to exit does; reported are the reads and fields that a path leaves unassigned | @flow_programs |
| `flow_everypath` | the same programs | violation | |

### Bounds, and why they suffice

- Sessions. Every entry of the maps is per uri and no operation but `clear` touches
  two uris, so one is enough. Two tasks are needed for a join, for an older
  resolution overtaking a newer one and for a finally block meeting another's
  entry; three versions let a late result meet a newer one that is itself not
  the newest. One change of the files gives "before" and "after". A second object would only add the
  reopening, which `server_pulls` has, and which the theorems have without a bound.
- Server. Three jobs are an answer of the workspace and its two parts, and one task is a session
  that all wait for or that is dropped under them. Two objects are a document that was
  closed and opened again while a pull held the first. Two documents share no entry.
  `AnswersSeeInvalidations` is about the files, so one text will do for it, and
  `AnswersShowTheText` about the text, so that `server_pulls` does without a change of the files.
- Worker. Three requests are one refresh with glyphs and one without, or the requests of two
  texts of which the older is answered last. Three versions let an answer be two behind.
- Control flow. Four steps are an assignment, a jump over it or a branch beside it and two statements around
  them, or three leaves in one statement (a read is appended to every program besides). Each
  property but `ExitsAreReal` and `FallthroughIsPrevented` is about one variable at a time, and
  those two about none. What a bound could hide the proofs cover, as they have neither.
- Index. Entries of two files never meet. Two builds in flight are an older and a
  newer; two loads are one from before and one from after an invalidation.
  Version 1 on disk is a missing file.
- Development server. Two files are an entry and something it imports, one changed and
  one not. Two writes are one that starts a rebuild and one during it. The interleavings of two
  drains that overlap are left out of the runs for their number: they are covered by the
  theorems only, which hold for any number of drains.
- Module graph. Three modules give diamonds, and cycles that do and do not contain the
  entry. With one write each, there is a build after a build that reused something, with all,
  some or none of the changes told, a repair after an error, and an import that comes or goes; a module may leave
  the bundle with a write of the entry and come back with one of another module.

No run assumes anything of the environment that the code does not ensure, and what the code does
wrong is said in the properties, as an exception that names it:

- `FreshUnlessStraddled` excepts documents that were dropped while a resolution was under way,
  `AnswersSeeInvalidations` and `AnswersShowTheText` those that were dropped, or edited, during
  work on them, and `ServesTheDocument` those that were edited back during a build.
- `ChangesAreRebuilt` is about the changes the server can see, and about a timer that
  is not put off for ever.
- `NothingIsStale` measures age by the changes a build was told of, `SeesWhatItImports` excepts
  modules that import one that was found changed without having been told, and asks for all that is
  imported only where there is no cycle.
- The properties of ControlFlow name the constructs they hold for.

Deadlock is checked in `worker_display` and the index runs, where somebody can always act. The
other systems may really stop: all counters at their bounds, the session closed, the
first build failed, the program grown.

### Fairness

- Sessions: a resolver that is called returns or throws, and the event loop runs every
  continuation. Clients need not ask, edit or close.
- Server: the same, jobs end by an answer or an error, and the waits for idle, for
  pending changes and for the second look end (timers and promises in the code).
- Index: promises settle (`FinishUpsert`, and the steps of a load), and the watcher
  reports a change it has not reported. The latter is the editor's part of the
  protocol; the index itself has no other way to learn of a change.
- Worker: timers fire, and a worker that lives answers or refuses. It may die, and nothing
  is assumed of animation frames or of the user.
- Development server: the poll (an interval in the code) comes round and file operations return.
  There is no fairness for `DrainStarts`: each report clears the 20 ms timer and arms it again
  (`cliServe.ts:225-228`), and the poll, at the same interval, reports every changed file again, so the
  code does not say that the timer fires. `ChangesAreRebuilt` states what follows if it is not
  put off for ever (`TimerIsNotStarved`). Nor is there fairness for `WatchEvent`, writes, pages or
  closing.
- Module graph: file operations return. Nobody need build again.

Fairness is weak, since such an action, once possible, stays possible until it is taken, by
the program's own single-threaded scheduling; with three exceptions. `DiagnosticIdle` and
`SecondLook` of the server may start a session and `TimerFires` of the playground a
request, and the model has `TaskIds` and `Requests` names for these, of which the program
has no shortage. Others using them all can disable these actions again and
again; strong fairness says what the program does, that a timer that is due
fires.

## 4. The proofs

TLAPS proves, for any values of the constants that satisfy the modules' ASSUMEs and without
further hypotheses:

| Theorem | Statement |
|---|---|
| `AnalysisSessionCache_proofs!TypeCorrect` | `Spec => []TypeOK` |
| `AnalysisSessionCache_proofs!SessionsAreCoherent` | `Spec => []CoherentSessions` |
| `AnalysisSessionCache_proofs!DropsAreFinalUnlessStraddled` | `Spec => []FreshUnlessStraddled` |
| `AnalysisSessionCache_proofs!CacheImplementsService` | `Spec => ImplementsService` |
| `SessionRequests_proofs!PendingWorkIsInFlight` | `Spec => []PendingIsInFlight` |
| `SessionRequests_proofs!NewestWorkIsShared` | `Spec => []LatestWorkIsShared` |
| `LspServer_proofs!ServerUsesTheCache` | `Spec => UsesTheSessionCache` |
| `LspServer_proofs!ServerSessionsAreSound` | the server keeps `CoherentSessions` and `FreshUnlessStraddled` |
| `LspServer_proofs!NothingIsStranded` | `Spec => []WaitsAreForWork` |
| `LspServer_proofs!AnswersAreFresh` | `Spec => []AnswersSeeInvalidations` |
| `ProjectIndex_proofs!TypeCorrect` | `Spec => []TypeOK` |
| `ProjectIndex_proofs!DocumentsAreServed` | `Spec => []ServesTheDocument` |
| `ProjectIndex_proofs!CacheIsFresh` | `Spec => []CachedIsFresh` |
| `ProjectIndex_proofs!AnswersAreRecent` | `Spec => []AnswersAreFresh` |
| `LanguageWorker_proofs!TypeCorrect` | `Spec => []TypeOK` |
| `LanguageWorker_proofs!DisplayNeverGoesBack` | `Spec => DisplayMovesForward` |
| `DevServer_proofs!TypeCorrect` | `Spec => []TypeOK` |
| `DevServer_proofs!QueueIsNeverForgotten` | `Spec => []QueueIsScheduled` |
| `DevServer_proofs!PagesAreReloaded` | `Spec => []ReloadIsOwed` |
| `DevServer_proofs!NoTimerOutlivesTheSession` | `Spec => []NoTimerAfterClose` |
| `DevServer_proofs!RewritesAreRebuilt` | `Spec => RewritesAreNoticed` |
| `ModuleGraph_proofs!TypeCorrect` | `Spec => []TypeOK` |
| `ModuleGraph_proofs!BundlesAreComplete` | `Spec => []BundleIsComplete` |
| `ModuleGraph_proofs!NothingOldIsKept` | `Spec => []NothingIsStale` |
| `ModuleGraph_proofs!ImportsAreSeen` | `Spec => []SeesDirectImports` |
| `ModuleGraph_proofs!AllImportsAreSeen` | `Spec => []SeesWhatItImports` |
| `ControlFlow_proofs!AlwaysGood` | `Spec => []IInv`: the analyses of a statement fit every way it may run |
| `ControlFlow_proofs!ExitsStayReal` | `Spec => []ExitsAreReal` |
| `ControlFlow_proofs!FallthroughStaysPrevented` | `Spec => []FallthroughIsPrevented` |
| `ControlFlow_proofs!MisreadsStayReported` | `Spec => []MisreadsAreReported` |
| `ControlFlow_proofs!ReportsStayMisreads` | `Spec => []ReportsAreMisreads` |
| `ControlFlow_proofs!FieldsStayInitialized` | `Spec => []FieldsAreInitialized` |

The ASSUMEs say that the bounds are natural numbers and that the values standing
for "nothing" differ from all others (`AnswersAssumption` of LspServer: from jobs, their names
and sessions, as `undefined` does from the objects of the code).

*Sessions.* `CoherentSessions` is not inductive: whether `Resume` files a session with the
right externals depends on the call it awaits. `IInv` adds that a task's document
object exists (`DocsExist`), that its call exists and is for its own uri and import
text (`TasksAwait`), that a call lives only as long as somebody awaits it
(`RunsAwaited`: otherwise a name could be reused for another call under an old
task), and that a joinable call has not settled and has the key it is filed
under (`JoinableRuns`). `FreshUnlessStraddled` also needs that a call of a uri without
a straddling task started, and read, after the last drop (`RunsFresh`), which in
turn needs that drops are in the past (`DropsArePast`). There is a lemma per action.

*The session service.* Writing maps to `Write`, a resolution to `Begin` and `End`, a session that
is built at once to `ServeNow`, closing and clearing to `Drop`; hits and the resolver's
steps map to stutters. That `End` serves something the service allows is `IInv` again, with
`ReadsArePast` for the upper end of what may have been read.

*Requests.* A pending entry's promise is a task for the same uri, version and source
(`PendingPromises`). So a task that ends and finds itself in an entry finds it under its own
version and deletes it, and an entry it does not find itself in stays: this is what the two
`finally` blocks rely on, and it does not matter that the document object has another version by
then, since both sides were captured at the start. That the *cached* entry is under the version of its text
is not so: `CachedVersion` is read from the object after the await, which is what
`sessions_inplace` shows.

*Server.* Each action is conjoined with one of the cache's, so what remains is that it is
taken for a document that exists (`UInv`). The theorems about the cache are then
instantiated: `Cache!IInv` is an invariant of the server.

*Its answers.* That nothing waits for work that is gone (`WaitsAreForWork`) is an invariant of
four parts: of jobs that wait for tasks of the session cache, of jobs that wait for their parts,
of the promises in the result caches, and of pulls. None of the four is inductive alone: `Finish`
removes a job and must find all that refer to it, and `SessionResolves` ends a task and hands its
session to every job that waits. The properties of the answers follow the sessions from there.
`Work(u)` is every session that a job or a cached answer of u is made from, `Supply(u)` every
session the cache may hand out for u, and every step files work only from the two (`Flows`); six
ways a step can act on the answers cover all actions (`AnswerSteps`). It remains that the supply
is sound. For `AnswersSeeInvalidations` it is `FreshUnlessStraddled` of the cache, as an
invalidation that finds no work under way leaves none behind (`FreshWork`). An answer may hold a session
of an object that is not the open one, from a second look or a part that was started for it; this is
why the invariants speak of uris and of objects that exist (`JobsExist`), and not of the open ones.

*Index.* `IInv` ties each pending entry to its work: the build in `pendingOpen[f]` is for
`f` (`PendingUpserts`), the load in `pendingDisk[f]` is for `f` and, once it has
read, is no older than the last invalidation (`PendingLoads`: this is what `IsCurrent`
relies on). `AnswersAreFresh` needs that nobody asked in the future
(`AskedInThePast`, `NoticedIsPast`). Open documents and disk sessions share no variable but
in `CloseDocument`, so `IInv` is split into `OpenSide` and `DiskSide` and an action
disturbs one of them.

*Worker.* Diagnostics are compared with the text's version, so for them it is enough that nothing
asked or displayed is ahead of the text (`NothingIsAhead`). Glyphs are not: that they never
go back rests on the last request for glyphs being about the model in the editor and of a
text no earlier than the glyphs it will replace (`GlyphsAwaitNewer`).

*Development server.* The timer is armed only while no rebuild runs, so a queue that is not empty
is looked at again only if the flag is set by a drain that will clear it (`FlagIsHeld`,
`QueueIsKept`), for any number of overlapping drains. The first build is a drain that arms nothing
(`FirstBuild`).

What started a rebuild has a recorded version from before the build read it (`BeforeIsOld`), and what is
read lies between that and the disk (`ReadsAreBetween`), since contents only grow. If the last
write is missing in what was read, the version after the build differs from the one before,
and the file is queued by force; or the write came after that version was taken as well, and the recorded
version differs from the disk, which the poll looks at. Of the other files of the bundle no version from
before is kept, and `serve_overlooked` shows what comes of it.

*Module graph.* What the search has dealt with imports nothing it does not know: the imports before
the position of a visit, and all imports of an emitted module, are emitted or on the stack
(`ImportsAreVisited`); when the stack is empty the emitted modules are closed under imports. Visits
in progress are of different modules, and all but the last were read (`FramesAreOpen`), so
declarations are never taken from a module without a text. Types are not inductive without this.

*Its cache.* `Below(c, v)` is the least set closed under imports that holds those of the text v of c, by
all the texts of each module that were seen since the last told change. The proof has two layers.

- What a module imports itself (`DirectInv`). A context is reused for the same
  imports only. One that waits for another is that of a module whose visit ends first
  (`WaitersEndFirst`), so what is added to a cached context is added to a complete one.
- What it imports indirectly, and how old that is (`SuitInv`). All declarations in contexts, results and visits
  are of texts that were seen, and name modules below theirs; if nothing below was seen with two texts or
  is on a cycle (`IsTree`), those named are closed under imports, and so are all that is below (`Suits`).
  This holds of the cache, of earlier builds and failed ones too (`CacheSuits`), and of visits
  (`VisitsSuit`). Each visit is of a module below those under it on the stack (`VisitsDescend`), so an
  import that is still in progress when it is collected would be a cycle; in a tree, imports are
  emitted by then (`CollectedAreEmitted`) and nothing waits (`WaitersReachCycles`).

A change that was told clears the cache and `seen` together, unless it was of the entry alone; then
and after an untold change, reading another text of a module makes `Below` larger (`BelowGrows`) and
`IsTree` false of everything above it. So the invariant stays true step by step, and no more is said
of the modules that have kept an old context than that its texts were seen.

*Control flow.* A program is built of programs, so the induction over the syntax tree is the
inductive invariant of Programs, and every program there is, of any size and over any variables, is
some steps away. `Good(s)` says of one statement what its surroundings rely on, and that is more than the
properties ask for:

- A statement that is said to exit completes by return, by throw or by a jump, and if by a jump, one that
  is buried in it (`ExitsRight`), but for those that hold such a jump under a loop, switch or label it
  leaves (`"indirect"`). Otherwise a loop around it could be left by it.
- What a visit says holds of every run from a state that has at least the variables the visit started
  with (`Sound`). A handler is visited in the state before the block and entered in a later one;
  the second round of a loop starts with what the first assigned.
- Of a straight statement, what a visit reports, and what it does not count as assigned, shows on some path from every
  state without the variable (`Shown`), and something may fail before a variable is assigned
  (`Fails`). The latter is what brings a handler into play: `try { x } catch { y }` reports y, which only
  a failing read of x can reach.

A composite of good parts is good: one lemma for each part of `Good` and each kind of statement whose
runs it takes apart. Switches are built case by case and have an invariant of their own (`GoodCases`),
which says of the cases entered by a match, of those entered by default and of the tests what `Good`
says of a statement. The rounds of a loop are an induction too, over rounds in place of
parts. `Starts` is the least set that is closed under rounds, so whatever holds of the first
start and is kept by a round holds of all (`RepeatedCases`).

Only model-checked: liveness, as its proof needs ENABLED, which the prover does not handle:
`ResolutionsSettle`, `PullsAreAnswered`, `CacheCatchesUp`, `EditsArrive`, `DisplaySettles`,
`ChangesAreRebuilt`, `RebuildEnds` and `BuildsEnd`; and `AnswersShowTheText`. No module that is proved about reaches a recursive operator: the
depth-first build of ModuleGraph is a stack, `Reachable`, `Below` and `Starts` are least fixed points
over subsets, and the recursion of ControlFlow is in the fields of its nodes.

Proofs corrected the models twice. A job that finds a session at hand takes the first of three
places that has one (`SessionAtHand`), which an earlier form of LspServer left open when two of them
applied. And reads could not fail in an earlier form of Programs: `ReportsAreMisreads` holds then
of one variable, which is what TLC checks, and not of the two in `try { x } catch { y }`.

## 5. Findings

Each is a counterexample TLC finds, with the document or test it disagrees with
quoted in `PROJECT.json`.

- `sessions_inplace` (`RequestsSeeTheirText`). A resolution of version 1 is awaited while the document
  is edited, in place, to version 2. `cacheResolvedSession` then reads the version of the object,
  2, files the session of the old text under it, and a request for version 2 hits it. The comparison
  of versions before that cannot help: it compares the object with itself. The unit tests make
  an object per version, where none of this happens.
- `serve_overlooked` (`StaleIsNoticed`). A rebuild that a.vx started reads b.vx, b.vx is written, and
  `updateWatchedFileVersions` records the new version. The poll finds nothing, and the event of the
  write is dropped since the version is the recorded one: the old bundle is served until the
  next write. Only what started the rebuild is looked at twice (`RewritesAreNoticed`).
- `index_undo` (`SettledOverrideIsTheDocument`). Edit A to B, and back to A while B is
  being built: the second upsert returns early because the override is A, and
  the build then replaces it with B. `ServesTheDocument` holds but for such files.
- `flow_everypath` (`ReadsAreInitialized`). `do { break } while (x = f())` counts as an assignment of x on
  every path, since the condition is visited in the state the body leaves, by a break or not; so
  does `c ? (x = f()) : g()`, as the parts of an expression are visited one after the other in one
  state; `switch (d) { case 1: g(); case (x = f()): use(x) }`, as a case that is run into is visited as if
  its test had been evaluated; and `try { x = f() } finally { use(x) }`, as finally is visited in the
  state after the block. Nothing is missed in programs without jumps, conditional and short-circuit
  expressions, finally clauses and tests that assign (`MisreadsAreReported`, `IsStructured`), as far as the
  model goes: `defer` and `with` are not in it.

Observed while modelling, each reproduced by lifting the exception of a property that is named, or read
in the code where none is:

- Sessions. A resolution in flight when the workspace is invalidated stores what it read
  before, in both maps, and the next request hits it; `FreshUnlessStraddled` says that this is
  the only way. The second look of a workspace pull at a
  document closed meanwhile caches a session that a reopened document of the same version hits.
- Server. A part of an answer is looked up and filed under the version read after the wait for
  the session, and made from the session of before it (`AnswersShowTheText` without `torn`). With
  objects updated in place, `currentDocumentAfterPendingChanges` and the wait for idle compare a
  document with itself, so neither ever sees a change. Editing an open document does
  not clear the answers of the documents that import it. A rejected promise stays in its cache,
  and an answer made of the session of a failed resolution does too, until the next edit. The refresh and
  install commands empty the server's caches and not the disk sessions of the project index, so that
  answers after them may show a changed file as it was (`Clear` with `told` as it is).
- Worker. Glyphs are guarded by a counter of refreshes and the model shown, not by the version of
  the text; diagnostics that are refused leave the old markers. `ensureEmbeddedRuntimeReady` keeps a
  rejected promise for good, and the file system that a request installs for the whole worker can
  be another request's by the time the runtime has loaded.
- Development server. An entry written again during its own rebuild is
  rebuilt by force; if that fails because of a file the new version is the first to import, the
  entry's recorded version is already the new one and the file is not watched, so the repair of
  the file starts no rebuild. A file that started a rebuild and is no longer part of the new bundle has no
  recorded version, which counts as a version that moved: it is queued by force, with the same
  outcome, and rebuilt and reloaded again for ever. Closing during a rebuild leaves the watchers that the
  end of the rebuild creates, and a page that fetched the bundle before a publication and opened its
  stream after it is not told.
- Module graph. A dependency that is written, and read by a build that was told only of the entry, is read
  with its new text while the modules that import it keep contexts with the old one; its new
  version is then recorded as built, so that nobody will tell. That lasts to the next told change
  outside the entry; it is why `NothingIsStale` speaks of texts that were seen and `SeesWhatItImports`
  excepts such modules. The same happens to a dependency that imports the entry, when only the
  entry changes. In a cycle a → b → a with a → c, module b
  is compiled before a has collected c, so c's declarations do not reach b, where
  `docs/file.structure.md:75` says that contexts "propagate transitive project declarations
  across cycles"; the equality in `SeesWhatItImports` is therefore stated for modules that reach no
  cycle, and `SeesDirectImports` for all.
- Control flow. `controlFlow.ts:81` looks for breaks among the statements of a list only, so that
  `do { if (c) { break } return 1 } while (d)`, and with `(break)` too, is said to exit; `ExitsAreReal` excepts
  such jumps (`"indirect"`). A constructor that returns before a field is assigned is not reported, where
  `docs/syntax.differences.md:55-57` asks for an assignment on every path before construction
  completes; `FieldsAreInitialized` excepts constructors that return early.

## 6. Not modelled, and why

Most lines of the implementation are in the first group; the models stand for the small part that
has state from one call to the next, and for the one algorithm that quantifies over paths.

- Tokenizer, parser, semantic analysis, lowering, emitter, formatter and the language
  features: sequential functions from a text or a session to a result. What can be wrong in them is
  a rule about a shape of syntax or of types; a model would repeat the rule, and no small
  set of programs stands for the rest. Control flow and definite assignment are the
  exception, because what they claim is about executions.
- Declaration loading: caches that are only filled. What a load-once cache can get wrong, a late
  `finally` that clears another's promise, cannot happen: all callers of one
  load resume before a retry begins. The persistent program cache writes to a store whose
  failures and order the repository does not describe.
- Command line, MCP server, Vite plugin, configuration lookup and import resolution:
  I/O around the compiler; the models take their results as given.
- Node module bundler: a depth-first bundle like ModuleGraph, with an artifact cache by path and
  modification time and no concurrency.
- VS Code extension: a client that forwards events.

In the modelled parts: several project indexes by configuration (`loadProject` may resolve after
a document was handed to the old index), diagnostics across open documents, and the
bindings of the index, which depend on which files exist.

## 7. Plan

Done: the specifications above with their MC modules, the refinement of `SessionService`, the
composition of LspServer with the session cache, and the proofs of section 4.

Left, in this order:

1. ProjectIndex as an implementation of a service of its own, for files in place of documents.
2. Several indexes by configuration in one module with the document events of the server.
