------------------------------ MODULE LspServer -------------------------------
(***************************************************************************)
(* The result caches of the language server, compiler/lsp/serverCore.ts,   *)
(* on top of the session cache of AnalysisSessionCache.                    *)
(*                                                                         *)
(* A client pulls diagnostics or tokens of a document.  The work for an    *)
(* answer (a job) asks for the document's session, waits for it, then      *)
(* looks its parts up in caches of their own (types across files, members  *)
(* across files, deprecated members) and starts the missing ones with that *)
(* session.  Every cache has one entry per document: the version of the    *)
(* document and the promise of the job.  Edits, closes and invalidations   *)
(* delete entries; they stop no job.                                       *)
(*                                                                         *)
(* Left out: features that answer straight from a session and cache        *)
(* nothing (completion, hover, references...: FeatureRequest is their      *)
(* request for a session), code actions (a job with a session at once and  *)
(* no parts) and ranges of tokens (slices of the whole document's).        *)
(***************************************************************************)
EXTENDS Integers, FiniteSets, Functions

CONSTANTS
  Uris, Texts, Keys, NoKey, ImportKey, NoEntry, HasResolver, MaxHandles,
  MaxVersion, TaskIds, MaxWorld,
  Jobs,             \* names for jobs under way; bounds how many are
  Pulls,            \* names for requests of the client under way
  Pulled            \* the kinds of answers the client asks for

VARIABLES
  doc, current, opened, world, told, cache, pending, resolvedExternals,
  pendingExternals, tasks, runs, freshFrom, straddled, latest

Sessions == INSTANCE AnalysisSessionCache

ASSUME SessionsAssumption ==
  /\ Sessions!BoundsAssumption
  /\ Sessions!DataAssumption
  /\ Sessions!EntryAssumption

sessionVars == <<doc, current, opened, world, told, cache, pending, resolvedExternals,
                 pendingExternals, tasks, runs, freshFrom, straddled, latest>>

VARIABLES
  jobs,         \* jobs[j]: a job under way
  results,      \* results[k][u]: u's answer of kind k, its version, its promise
  idle,         \* documentsNeedingDiagnosticIdle
  pulls,        \* pulls[q]: the document object asked about, the job awaited
  torn,         \* history: u was edited during work on it, or asked about by an
                \* object that is not the open one, since a quiet drop
  raced         \* history: the last drop of u came during work on it

serverVars == <<jobs, results, idle, pulls, torn, raced>>
vars == <<sessionVars, serverVars>>

\* What a job looks up in the other caches once it has its session.
Parts == [document   |-> {"crossFile"},
          workspace  |-> {"member", "crossFile"},
          tokens     |-> {"deprecated"},
          crossFile  |-> {},
          member     |-> {},
          deprecated |-> {}]

Kinds == DOMAIN Parts

Job == [kind : Kinds, uri : Uris, handle : 1..MaxHandles,
        phase : {"waiting", "collecting", "failing"},
        task : TaskIds \cup {NoEntry},                \* the session awaited
        session : Sessions!Session \cup {NoEntry},    \* or at hand
        parts : SUBSET Jobs,                          \* the parts awaited
        shows : SUBSET Sessions!Session]              \* what those there are from

\* A promise in a cache: of a job under way, or (job = NoEntry) settled, with the
\* sessions the answer is from, none if it was rejected.
Result == [version : 1..MaxVersion, job : Jobs \cup {NoEntry},
           shows : SUBSET Sessions!Session]

ASSUME AnswersAssumption == NoEntry \notin Jobs \cup Job \cup Sessions!Session

Running(j) == jobs[j] # NoEntry
FreeJobs   == {j \in Jobs : ~Running(j)}

\* Work on u is under way, here or in the session cache.
Busy(u) == \/ \E j \in Jobs : Running(j) /\ jobs[j].uri = u
           \/ Sessions!TasksOf(u) # {}

Init ==
  /\ Sessions!Init
  /\ jobs = [j \in Jobs |-> NoEntry]
  /\ results = [k \in Kinds |-> [u \in Uris |-> NoEntry]]
  /\ idle = {}
  /\ pulls = [q \in Pulls |-> NoEntry]
  /\ torn = [u \in Uris |-> FALSE]
  /\ raced = [u \in Uris |-> FALSE]

-----------------------------------------------------------------------------
(* Jobs.                                                                   *)

\* The entry of kind k was made for this version.
IsCached(k, u, version) ==
  results[k][u] # NoEntry /\ results[k][u].version = version

NewJob(k, u, h, phase, task, session) ==
  [kind |-> k, uri |-> u, handle |-> h, phase |-> phase, task |-> task,
   session |-> session, parts |-> {}, shows |-> {}]

Promise(version, j) == [version |-> version, job |-> j, shows |-> {}]

\* Bug: the last session is good enough.
SessionAtHandBug(u, h) == IF cache[u] = NoEntry THEN NoEntry ELSE cache[u].session

\* getAnalysisSessionForRequest for document object h of u: the session is at hand,
\* or a task is awaited that is pending or started now.
SessionAtHand(u, h) ==
  LET d == doc[u][h]
  IN  IF Sessions!Hits(cache[u], d) THEN cache[u].session
      ELSE IF Sessions!Hits(pending[u], d) THEN NoEntry
      ELSE IF Sessions!ExternalsKnown(u, h)
      THEN Sessions!ResolvedSession(d.text, resolvedExternals[u])
      ELSE IF HasResolver THEN NoEntry
      ELSE Sessions!BaseSession(d.text)

Request(u, h, task) ==
  LET d == doc[u][h]
  IN  IF Sessions!Hits(cache[u], d) THEN task = NoEntry /\ Sessions!ServeCached(u, h)
      ELSE IF Sessions!Hits(pending[u], d)
      THEN task = pending[u].promise /\ UNCHANGED sessionVars
      ELSE \/ task = NoEntry /\ Sessions!BuildNow(u, h)
           \/ task # NoEntry /\ Sessions!StartAsyncResolution(u, h, task)

\* The pull waits with no job for a timer, or for the other documents.
Waiting(k, u, h) == [kind |-> k, uri |-> u, handle |-> h, job |-> NoEntry, last |-> FALSE]

\* The pull awaits job j, or is answered if that has settled; last says that
\* nothing follows.
Await(q, k, u, h, j, last) ==
  pulls' = [pulls EXCEPT ![q] =
    IF j # NoEntry THEN [Waiting(k, u, h) EXCEPT !.job = j, !.last = last]
    ELSE IF last THEN NoEntry ELSE Waiting(k, u, h)]

Cached(k, u, h) == IsCached(k, u, doc[u][h].version)

\* The promise that is cached is the answer.
AskCached(q, k, u, h, last) ==
  /\ Cached(k, u, h)
  /\ Await(q, k, u, h, results[k][u].job, last)
  /\ UNCHANGED <<jobs, results>>

\* None is: a job is started and its promise filed under the version the
\* document object has now.
AskAnew(q, k, u, h, last) ==
  /\ ~Cached(k, u, h)
  /\ FreeJobs # {}
  /\ LET j == CHOOSE j \in FreeJobs : TRUE
     IN  /\ \E task \in TaskIds \cup {NoEntry} :
              /\ Request(u, h, task)
              /\ jobs' = [jobs EXCEPT ![j] =
                   NewJob(k, u, h, "waiting", task, SessionAtHand(u, h))]
         /\ results' = [results EXCEPT ![k][u] = Promise(doc[u][h].version, j)]
         /\ Await(q, k, u, h, j, last)

Ask(q, k, u, h, last) ==
  \/ AskCached(q, k, u, h, last) /\ UNCHANGED sessionVars
  \/ AskAnew(q, k, u, h, last)

\* The await for a session returns in every job that awaits the task; if the
\* resolver has thrown it is the session without externals.
SessionResolves(t) ==
  /\ Sessions!Resume(t)
  /\ LET task == tasks[t]
         run  == runs[task.run]
         session == IF run.phase = "resolved" THEN Sessions!ResolvedSession(task.text, run)
                    ELSE Sessions!BaseSession(task.text)
     IN  jobs' = [j \in Jobs |->
           IF ~Running(j) \/ jobs[j].task # t THEN jobs[j]
           ELSE [jobs[j] EXCEPT !.task = NoEntry, !.session = session]]
  /\ UNCHANGED <<results, idle, pulls, torn, raced>>

\* The job awaits these parts, and has those that show this.
Gathers(job, parts, shows, phase) ==
  [job EXCEPT !.parts = parts, !.shows = shows, !.phase = phase]

\* doc.version, read when the session has arrived.
PartVersion(job) == doc[job.uri][job.handle].version

\* The job goes on with its session: it shares the parts that are cached for
\* the version the document object has by now, and starts the others.
Collect(j) ==
  LET job == jobs[j]
      u   == job.uri
      version == PartVersion(job)
      missing == {k \in Parts[job.kind] : ~IsCached(k, u, version)}
      found   == {results[k][u] : k \in Parts[job.kind] \ missing}
      Injections == Injection(missing, FreeJobs)
  IN  /\ Running(j) /\ job.phase = "waiting" /\ job.session # NoEntry
      /\ Injections # {}
      /\ LET new == CHOOSE new \in Injections : TRUE
             Awaited == {new[k] : k \in missing} \cup ({r.job : r \in found} \ {NoEntry})
             Rejected == \E r \in found : r.job = NoEntry /\ r.shows = {}
         IN  /\ jobs' = [i \in Jobs |->
                  IF i = j
                  THEN Gathers(job, Awaited, UNION {r.shows : r \in found},
                               IF Rejected THEN "failing" ELSE "collecting")
                  ELSE IF \E k \in missing : new[k] = i
                  THEN NewJob(CHOOSE k \in missing : new[k] = i, u, job.handle,
                              "collecting", NoEntry, job.session)
                  ELSE jobs[i]]
             /\ results' = [k \in Kinds |->
                  IF k \in missing THEN [results[k] EXCEPT ![u] = Promise(version, new[k])]
                  ELSE results[k]]
      /\ UNCHANGED <<sessionVars, idle, pulls, torn, raced>>

\* The promise of j settles: in the cache it may still be in, for the jobs it
\* is a part of, and for the pulls.
Settle(j, shows) ==
  /\ jobs' = [i \in Jobs |->
       IF i = j THEN NoEntry
       ELSE IF ~Running(i) \/ j \notin jobs[i].parts THEN jobs[i]
       ELSE Gathers(jobs[i], jobs[i].parts \ {j}, jobs[i].shows \cup shows,
                    IF shows = {} THEN "failing" ELSE jobs[i].phase)]
  /\ results' = [k \in Kinds |-> [u \in Uris |->
       IF results[k][u] # NoEntry /\ results[k][u].job = j
       THEN [results[k][u] EXCEPT !.job = NoEntry, !.shows = shows]
       ELSE results[k][u]]]
  /\ pulls' = [q \in Pulls |->
       IF pulls[q] = NoEntry \/ pulls[q].job # j THEN pulls[q]
       ELSE IF pulls[q].last \/ shows = {} THEN NoEntry
       ELSE [pulls[q] EXCEPT !.job = NoEntry]]
  /\ UNCHANGED <<sessionVars, idle, torn, raced>>

\* All parts are there: the answer is from the job's session and theirs.
Finish(j) ==
  /\ Running(j) /\ jobs[j].phase = "collecting" /\ jobs[j].parts = {}
  /\ Settle(j, {jobs[j].session} \cup jobs[j].shows)

\* A collector throws, or a part was rejected; the rejected promise stays in
\* the cache.
Fail(j) ==
  /\ Running(j) /\ jobs[j].phase \in {"collecting", "failing"}
  /\ Settle(j, {})

-----------------------------------------------------------------------------
(* Requests of the client.                                                 *)

\* A pull of the document's diagnostics waits for idle after an edit, unless
\* they are cached; one of tokens yields to the event loop; one of the
\* workspace's diagnostics starts the missing ones and, unless all documents
\* have theirs, looks again when those are there.
Pull(q, k, u) ==
  LET h == current[u]
  IN  /\ pulls[q] = NoEntry
      /\ opened[u]
      /\ \/ /\ k = "tokens" \/ (k = "document" /\ u \in idle /\ ~Cached(k, u, h))
            /\ pulls' = [pulls EXCEPT ![q] = Waiting(k, u, h)]
            /\ UNCHANGED <<sessionVars, jobs, results, idle>>
         \/ /\ k = "document" /\ (u \in idle => Cached(k, u, h))
            /\ Ask(q, k, u, h, TRUE)
            /\ idle' = idle \ {u}
         \/ /\ k = "workspace"
            /\ \/ Ask(q, k, u, h, FALSE)
               \/ AskCached(q, k, u, h, TRUE) /\ UNCHANGED sessionVars
            /\ UNCHANGED idle
      /\ UNCHANGED <<torn, raced>>

Waits(q, k) == pulls[q] # NoEntry /\ pulls[q].job = NoEntry /\ pulls[q].kind = k

Answered(q) == /\ pulls' = [pulls EXCEPT ![q] = NoEntry]
               /\ UNCHANGED <<sessionVars, jobs, results>>

IsOpenObject(u, h) == opened[u] /\ h = current[u]

\* The missing diagnostics of the workspace have come, and the object that was asked
\* about is looked up again, as it is now: edited, invalidated, closed, or closed
\* and opened again as another object, it is worked on anew.
SecondLook(q) ==
  LET u == pulls[q].uri
      h == pulls[q].handle
  IN  /\ Waits(q, "workspace")
      /\ Ask(q, "workspace", u, h, TRUE)
      /\ torn' = [torn EXCEPT ![u] = @ \/ ~IsOpenObject(u, h)]
      /\ UNCHANGED <<idle, raced>>

\* Bug: the document that was asked about is waited for, open or not.
IdleEndsBug(q) == FALSE

\* The document of q has been closed during the wait.
IdleEnds(q) == ~opened[pulls[q].uri]

\* currentDocumentAfterDiagnosticIdle: the wait is over when the document has
\* been as it is for its time, or is closed; otherwise it starts again.
DiagnosticIdle(q) ==
  LET u == pulls[q].uri
      h == current[u]
      observed == doc[u][pulls[q].handle]
      IsStill == Sessions!Hits([version |-> observed.version, source |-> observed.text],
                               doc[u][h])
  IN  /\ Waits(q, "document")
      /\ \/ IdleEnds(q) /\ Answered(q) /\ UNCHANGED idle
         \/ opened[u] /\ IsStill /\ Ask(q, "document", u, h, TRUE) /\ idle' = idle \ {u}
         \/ /\ opened[u] /\ ~IsStill
            /\ pulls' = [pulls EXCEPT ![q] = Waiting("document", u, h)]
            /\ UNCHANGED <<sessionVars, jobs, results, idle>>
      /\ UNCHANGED <<torn, raced>>

\* currentDocumentAfterPendingChanges: tokens of a document that has moved on
\* are not computed, and those of one without a session need none.
PendingChangesSeen(q) ==
  LET u == pulls[q].uri
      h == current[u]
      IsCurrent == opened[u] /\ doc[u][h].version = doc[u][pulls[q].handle].version
  IN  /\ Waits(q, "tokens")
      /\ IF IsCurrent /\ Sessions!Hits(cache[u], doc[u][h])
         THEN \/ AskCached(q, "tokens", u, h, TRUE) /\ Sessions!ServeCached(u, h)
              \/ AskAnew(q, "tokens", u, h, TRUE)
         ELSE Answered(q)
      /\ UNCHANGED <<idle, torn, raced>>

\* A feature without a cache of its own asks for a session.
FeatureRequest(u) ==
  /\ opened[u]
  /\ Sessions!GetForDocumentAsync(u, current[u])
  /\ UNCHANGED serverVars

-----------------------------------------------------------------------------
(* Documents and invalidation.                                             *)

\* Bug: the parts that jobs share are forgotten.
WithoutBug(S) ==
  [k \in Kinds |-> [u \in Uris |->
     IF u \in S /\ k \notin {"crossFile", "member"} THEN NoEntry ELSE results[k][u]]]

\* invalidateDocumentCaches, invalidateAllCaches: no entry of S is left.
Without(S) == [k \in Kinds |-> [u \in Uris |-> IF u \in S THEN NoEntry ELSE results[k][u]]]

Forget(S) == results' = Without(S) /\ UNCHANGED <<jobs, pulls>>

\* An edit tears the work that is under way.
Tear(u) == torn' = [torn EXCEPT ![u] = @ \/ Busy(u)] /\ UNCHANGED raced

\* A drop of S with no work under way leaves nothing from before it.
Race(S) == /\ raced' = [u \in Uris |-> IF u \in S THEN Busy(u) ELSE raced[u]]
           /\ torn' = [u \in Uris |-> IF u \in S THEN Busy(u) ELSE torn[u]]

DidOpen(u, text) ==
  /\ Sessions!Open(u, text)
  /\ Forget({u})
  /\ idle' = idle \ {u}
  /\ Tear(u)

\* A version with the text of the one before is not waited for.
DidChangeContent(u, text) ==
  /\ Sessions!Edit(u, text)
  /\ Forget({u})
  /\ idle' = IF text = Sessions!CurrentDoc(u).text THEN idle \ {u} ELSE idle \cup {u}
  /\ Tear(u)

\* Bug: the session of a closed document is kept.
CloseSessionBug(u) ==
  /\ opened[u]
  /\ opened' = [opened EXCEPT ![u] = FALSE]
  /\ UNCHANGED <<doc, current, world, told, cache, pending, resolvedExternals,
                 pendingExternals, tasks, runs, freshFrom, straddled, latest>>

\* analysisSessions.delete
CloseSession(u) == Sessions!Close(u)

DidClose(u) ==
  /\ CloseSession(u)
  /\ Forget({u})
  /\ idle' = idle \ {u}
  /\ Race({u})

\* invalidateWorkspaceCaches: the refresh command, an installation that is done, and
\* watched files, which alone tell the project index of changes (see Clear).
Invalidate ==
  /\ Sessions!Clear
  /\ Forget(Uris)
  /\ Race(Uris)
  /\ UNCHANGED idle

\* Steps of the session cache and its surroundings alone.
ResolverEnds(t) ==
  (Sessions!ResolverReturns(t) \/ Sessions!ResolverFails(t)) /\ UNCHANGED serverVars

ExternalsSettle(t) == Sessions!ResolutionSettles(t) /\ UNCHANGED serverVars

WorldChanges == Sessions!WorldChanges /\ UNCHANGED serverVars

Next ==
  \/ \E u \in Uris, text \in Texts : DidOpen(u, text) \/ DidChangeContent(u, text)
  \/ \E u \in Uris : DidClose(u) \/ FeatureRequest(u)
  \/ Invalidate
  \/ \E q \in Pulls, k \in Pulled, u \in Uris : Pull(q, k, u)
  \/ \E q \in Pulls : SecondLook(q) \/ DiagnosticIdle(q) \/ PendingChangesSeen(q)
  \/ \E t \in TaskIds : ResolverEnds(t) \/ ExternalsSettle(t) \/ SessionResolves(t)
  \/ \E j \in Jobs : Collect(j) \/ Finish(j) \/ Fail(j)
  \/ WorldChanges

Spec == Init /\ [][Next]_vars

\* Timers fire, resolvers and collectors return or throw, and the event loop
\* runs every continuation.  The requests after a wait are fair in the strong sense
\* since TaskIds, which the program has no counterpart of, can hold them up.
Fairness ==
  /\ \A t \in TaskIds : /\ WF_vars(ResolverEnds(t))
                        /\ WF_vars(ExternalsSettle(t))
                        /\ WF_vars(SessionResolves(t))
  /\ \A j \in Jobs : WF_vars(Collect(j)) /\ WF_vars(Finish(j) \/ Fail(j))
  /\ \A q \in Pulls : /\ SF_vars(DiagnosticIdle(q)) /\ SF_vars(SecondLook(q))
                      /\ WF_vars(PendingChangesSeen(q))

FairSpec == Spec /\ Fairness

-----------------------------------------------------------------------------
(* Properties.                                                             *)

\* The sessions that the cached answers of an open document are from.
Shown(u) ==
  UNION {results[k][u].shows : k \in {k \in Kinds :
           opened[u] /\ IsCached(k, u, Sessions!CurrentDoc(u).version)}}

\* A cached answer, its parts from other caches included, is from the present
\* text of the document, as long as every edit since the last quiet close or
\* invalidation came when no work on the document was under way and every question
\* was about the open object.  (Otherwise the code gives no such promise: a part is
\* filed, and a session cached, under the version the object has after the wait.)
AnswersShowTheText ==
  \A u \in Uris : ~torn[u] =>
    \A s \in Shown(u) : s.text = Sessions!CurrentDoc(u).text

\* After an invalidation at which no work on the document was under way, no answer
\* shows files from before the changes that watched-file events had told the
\* project index of.  (The refresh and install commands promise no more than that:
\* they leave the index's disk sessions as they are.)
AnswersSeeInvalidations ==
  \A u \in Uris : ~raced[u] =>
    \A s \in Shown(u) : s.epoch # Sessions!Unresolved => s.epoch >= freshFrom[u]

\* Every pull is answered: jobs that wait for sessions, for parts other jobs
\* have started and for idle all end, whatever is closed or invalidated.
PullsAreAnswered == \A q \in Pulls : pulls[q] # NoEntry ~> pulls[q] = NoEntry

\* The server moves the session cache only by the cache's own operations, so
\* all that holds of the cache by itself holds of it here.
UsesTheSessionCache == Sessions!Spec

=============================================================================
