------------------------------- MODULE DevServer -------------------------------
(***************************************************************************)
(* `vexa serve`, cli/cliServe.ts: a server that bundles an entry file,     *)
(* watches the files that went into the bundle, rebuilds when they change  *)
(* and tells the connected pages to reload.  File events, a 20 ms poll, a  *)
(* debounce timer and the rebuild itself all run on one event loop, but    *)
(* the rebuild awaits a stat or a read at every step, so files change and  *)
(* timers fire in the middle of it.                                        *)
(*                                                                         *)
(* A file's content is the number of times it was written; a deletion or a *)
(* syntax error is a content in Broken.  stat's mtime and size stand for   *)
(* the content they change with.                                           *)
(***************************************************************************)
EXTENDS Integers, FiniteSets

CONSTANTS
  Files, Entry,     \* the files, and the one that is bundled
  ImportsOf,        \* ImportsOf[v]: what content v of the entry imports
  Broken,           \* the <<file, content>> pairs that do not compile
  MaxWrites,        \* bound: writes of each file
  Drains,           \* names of drainPendingRebuild calls; bounds the concurrent ones
  Pages             \* browser pages

ASSUME ServerAssumption ==
  /\ Entry \in Files
  /\ IsFiniteSet(Files)
  /\ MaxWrites \in Nat
  /\ ImportsOf \in [0..MaxWrites -> SUBSET Files]
  /\ Broken \subseteq Files \X (0..MaxWrites)
  /\ Drains # {}

Contents == 0..MaxWrites
Unknown  == -1                       \* not read, or not in the map
MaybeContents == Contents \cup {Unknown}
Nothing == [f \in Files |-> Unknown] \* no file is known

VARIABLES
  disk,       \* the content of each file
  mode,       \* "starting", "serving", "closed" or "failed" (the first build)
  bundle,     \* bundleCode: the contents it was built from
  version,    \* bundleVersion
  watchers,   \* watcherAbortControllers: the files with a live watcher
  watched,    \* watchedFileVersions
  pending,    \* pendingChangedFiles
  forced,     \* forcedChangedFiles
  timer,      \* pendingRebuildTimer is set
  rebuilding, \* rebuildInProgress
  job,        \* job[d]: a drainPendingRebuild (or the first build) in progress
  page        \* page[p]: the bundle a page runs and whether it listens

serverVars == <<watchers, watched, pending, forced, timer, rebuilding>>
vars == <<disk, mode, bundle, version, serverVars, job, page>>

Idle == [phase |-> "idle", first |-> FALSE, todo |-> {}, changed |-> {},
         before |-> Nothing, read |-> Nothing, stats |-> Nothing]

NoPage == [bundle |-> 0, ready |-> 0, listening |-> FALSE]

\* The files a build that read these contents is made of (watchedFiles).
BuiltFrom(read) == {Entry} \cup ImportsOf[read[Entry]]

IsRead(read) == read[Entry] # Unknown /\ \A f \in BuiltFrom(read) : read[f] # Unknown

\* startServeSession begins with a build that nothing has asked for.
Init ==
  /\ disk = [f \in Files |-> 0]
  /\ mode = "starting"
  /\ bundle = Nothing
  /\ version = 0
  /\ watchers = {}
  /\ watched = Nothing
  /\ pending = {}
  /\ forced = {}
  /\ timer = FALSE
  /\ rebuilding = FALSE
  /\ \E d \in Drains :
       job = [e \in Drains |-> IF e = d THEN [Idle EXCEPT !.phase = "reading", !.first = TRUE]
                               ELSE Idle]
  /\ page = [p \in Pages |-> NoPage]

-----------------------------------------------------------------------------
(* The environment: an editor writes files.                                *)

Write(f) ==
  /\ mode # "failed"
  /\ disk[f] < MaxWrites
  /\ disk' = [disk EXCEPT ![f] = @ + 1]
  /\ UNCHANGED <<mode, bundle, version, serverVars, job, page>>

-----------------------------------------------------------------------------
(* Noticing a change.  A timer that is armed again starts its 20 ms anew,  *)
(* and the poll, every 20 ms, arms it again for each file it finds         *)
(* changed.  Time is not modelled, so nothing here says that an armed      *)
(* timer ever fires: it may be put off for ever.                           *)

\* Bug: the finally block reschedules before it clears rebuildInProgress.
ScheduledEarlyBug(changes, busy) ==
  (mode # "closed" /\ ~rebuilding /\ changes # {}) \/ timer

\* Bug: rescheduling does not look at closed.
ScheduledLateBug(changes, busy) == (~busy /\ changes # {}) \/ timer

\* schedulePendingRebuild: the timer is armed, or armed again, or left as it is.
Scheduled(changes, busy) == (mode # "closed" /\ ~busy /\ changes # {}) \/ timer

\* scheduleRebuild
ScheduleRebuild(f) ==
  /\ pending' = IF mode = "closed" THEN pending ELSE pending \cup {f}
  /\ timer' = Scheduled(pending', rebuilding)

\* The watcher of f yields an event: late or never after a write, and for less than
\* a write too.
WatchEvent(f) ==
  /\ f \in watchers
  /\ ScheduleRebuild(f)
  /\ UNCHANGED <<disk, mode, bundle, version, watchers, watched, forced, rebuilding,
                 job, page>>

\* The watcher of f fails: the file is queued and watched no more.
WatcherFails(f) ==
  /\ f \in watchers
  /\ watchers' = watchers \ {f}
  /\ ScheduleRebuild(f)
  /\ UNCHANGED <<disk, mode, bundle, version, watched, forced, rebuilding,
                 job, page>>

\* Bug: only files with a live watcher are polled.
PollNoticesBug(f) ==
  /\ mode = "serving"
  /\ f \in watchers
  /\ watched[f] # Unknown
  /\ disk[f] # watched[f]
  /\ ScheduleRebuild(f)
  /\ UNCHANGED <<disk, mode, bundle, version, watchers, watched, forced,
                 rebuilding, job, page>>

\* pollWatchedFileVersions finds f changed.
PollNotices(f) ==
  /\ mode = "serving"
  /\ watched[f] # Unknown
  /\ disk[f] # watched[f]
  /\ ScheduleRebuild(f)
  /\ UNCHANGED <<disk, mode, bundle, version, watchers, watched, forced,
                 rebuilding, job, page>>

-----------------------------------------------------------------------------
(* drainPendingRebuild.                                                    *)

\* The last candidate was looked at: rebuild, or go back to waiting.
Decide(d, changed) ==
  IF changed = {}
  THEN /\ job' = [job EXCEPT ![d] = Idle]
       /\ timer' = Scheduled(pending', rebuilding)
       /\ UNCHANGED rebuilding
  ELSE /\ job' = [job EXCEPT ![d] = [Idle EXCEPT !.phase = "before", !.todo = changed,
                                                 !.changed = changed]]
       /\ rebuilding' = TRUE
       /\ UNCHANGED timer

\* The timer fires: take over the changes, unless a rebuild runs.
DrainStarts(d) ==
  /\ timer
  /\ job[d].phase = "idle"
  /\ timer' = FALSE
  /\ IF mode = "closed" \/ rebuilding \/ pending = {}
     THEN UNCHANGED <<pending, job>>
     ELSE /\ job' = [job EXCEPT ![d] = [Idle EXCEPT !.phase = "checking", !.todo = pending]]
          /\ pending' = {}
  /\ UNCHANGED <<disk, mode, bundle, version, watchers, watched, forced,
                 rebuilding, page>>

\* Was it forced, or did its version move?
IsChanged(f) == f \in forced \/ disk[f] # watched[f]

\* One candidate is looked at.
DrainChecks(d, f) ==
  LET changed == IF IsChanged(f) THEN job[d].changed \cup {f} ELSE job[d].changed
  IN  /\ job[d].phase = "checking"
      /\ f \in job[d].todo
      /\ forced' = forced \ {f}
      /\ pending' = pending
      /\ IF job[d].todo = {f}
         THEN Decide(d, changed)
         ELSE /\ job' = [job EXCEPT ![d].todo = @ \ {f}, ![d].changed = changed]
              /\ UNCHANGED <<timer, rebuilding>>
      /\ UNCHANGED <<disk, mode, bundle, version, watchers, watched, page>>

-----------------------------------------------------------------------------
(* rebuildBundle.                                                          *)

\* The version of each changed file before the build reads anything.
StatBefore(d, f) ==
  LET rest == job[d].todo \ {f}
  IN  /\ job[d].phase = "before"
      /\ f \in job[d].todo
      /\ job' = [job EXCEPT ![d].before[f] = disk[f], ![d].todo = rest,
                            ![d].phase = IF rest = {} THEN "reading" ELSE "before"]
      /\ UNCHANGED <<disk, mode, bundle, version, serverVars, page>>

\* The build reads the entry and then what it imports, file by file.
BuildReads(d, f) ==
  /\ job[d].phase = "reading"
  /\ job[d].read[f] = Unknown
  /\ IF job[d].read[Entry] = Unknown THEN f = Entry ELSE f \in BuiltFrom(job[d].read)
  /\ job' = [job EXCEPT ![d].read[f] = disk[f]]
  /\ UNCHANGED <<disk, mode, bundle, version, serverVars, page>>

\* Bug: no finally block, so a failed rebuild leaves rebuildInProgress set.
BuildFailsBug(d) ==
  LET read == job[d].read
  IN  /\ job[d].phase = "reading"
      /\ IsRead(read)
      /\ \E f \in BuiltFrom(read) : <<f, read[f]>> \in Broken
      /\ mode' = IF job[d].first THEN "failed" ELSE mode
      /\ job' = [job EXCEPT ![d] = Idle]
      /\ UNCHANGED <<disk, bundle, version, serverVars, page>>

\* Errors: the first build ends the session, a later one only its rebuild.
BuildFails(d) ==
  LET read == job[d].read
  IN  /\ job[d].phase = "reading"
      /\ IsRead(read)
      /\ \E f \in BuiltFrom(read) : <<f, read[f]>> \in Broken
      /\ mode' = IF job[d].first THEN "failed" ELSE mode
      /\ rebuilding' = FALSE
      /\ timer' = Scheduled(pending, FALSE)
      /\ job' = [job EXCEPT ![d] = Idle]
      /\ UNCHANGED <<disk, bundle, version, watchers, watched, pending, forced, page>>

\* No errors: publish the bundle and watch exactly what it was built from.
BuildSucceeds(d) ==
  LET read == job[d].read
  IN  /\ job[d].phase = "reading"
      /\ IsRead(read)
      /\ \A f \in BuiltFrom(read) : <<f, read[f]>> \notin Broken
      /\ bundle' = read
      /\ version' = version + 1
      /\ watchers' = BuiltFrom(read)
      /\ job' = [job EXCEPT ![d].phase = "publishing"]
      /\ UNCHANGED <<disk, mode, watched, pending, forced, timer, rebuilding, page>>

\* updateWatchedFileVersions stats each watched file ...
StatAfter(d, f) ==
  /\ job[d].phase = "publishing"
  /\ f \in BuiltFrom(job[d].read)
  /\ job[d].stats[f] = Unknown
  /\ job' = [job EXCEPT ![d].stats[f] = disk[f]]
  /\ UNCHANGED <<disk, mode, bundle, version, serverVars, page>>

\* Bug: the versions are queued instead of the paths.
ChangedMeanwhileTypeBug(d) ==
  {job[d].before[f] : f \in {c \in job[d].changed : job[d].stats[c] # job[d].before[c]}}

\* Bug: no second look at the changed files.
ChangedMeanwhileBug(d) == {}

\* The changed files whose version is not the one from before the build.
ChangedMeanwhile(d) == {f \in job[d].changed : job[d].stats[f] # job[d].before[f]}

\* Bug: nothing is broadcast.
ReloadedBug == page

\* Pages that listen are told to reload; a reloading page is a new one.
Reloaded == [p \in Pages |-> IF page[p].listening THEN NoPage ELSE page[p]]

\* ... and replaces the recorded versions; files that were written again while
\* they were rebuilt are queued again, and the pages are told to reload.
BuildEnds(d) ==
  /\ job[d].phase = "publishing"
  /\ \A f \in BuiltFrom(job[d].read) : job[d].stats[f] # Unknown
  /\ watched' = job[d].stats
  /\ pending' = pending \cup ChangedMeanwhile(d)
  /\ forced' = forced \cup ChangedMeanwhile(d)
  /\ IF job[d].first
     THEN /\ mode' = IF mode = "starting" THEN "serving" ELSE mode
          /\ UNCHANGED <<timer, rebuilding, page>>
     ELSE /\ page' = Reloaded
          /\ rebuilding' = FALSE
          /\ timer' = Scheduled(pending', FALSE)
          /\ UNCHANGED mode
  /\ job' = [job EXCEPT ![d] = Idle]
  /\ UNCHANGED <<disk, bundle, version, watchers>>

-----------------------------------------------------------------------------
(* Pages and the end of the session.                                       *)

\* A page fetches /__vexa_bundle__.js ...
PageLoads(p) ==
  /\ mode = "serving"
  /\ page[p] = NoPage
  /\ page' = [page EXCEPT ![p].bundle = version]
  /\ UNCHANGED <<disk, mode, bundle, version, serverVars, job>>

\* ... and then opens the event stream; nothing reads its "ready" event.
PageListens(p) ==
  /\ mode = "serving"
  /\ page[p] # NoPage
  /\ ~page[p].listening
  /\ page' = [page EXCEPT ![p].listening = TRUE, ![p].ready = version]
  /\ UNCHANGED <<disk, mode, bundle, version, serverVars, job>>

\* close(): timers and watchers go, a rebuild in progress does not.
CloseSession ==
  /\ mode = "serving"
  /\ mode' = "closed"
  /\ timer' = FALSE
  /\ watchers' = {}
  /\ page' = [p \in Pages |-> NoPage]
  /\ UNCHANGED <<disk, bundle, version, watched, pending, forced, rebuilding, job>>

Next ==
  \/ \E f \in Files : Write(f) \/ WatchEvent(f) \/ WatcherFails(f) \/ PollNotices(f)
  \/ \E d \in Drains :
       \/ DrainStarts(d)
       \/ BuildFails(d)
       \/ BuildSucceeds(d)
       \/ BuildEnds(d)
       \/ \E f \in Files : \/ DrainChecks(d, f)
                           \/ StatBefore(d, f)
                           \/ BuildReads(d, f)
                           \/ StatAfter(d, f)
  \/ \E p \in Pages : PageLoads(p) \/ PageListens(p)
  \/ CloseSession

Spec == Init /\ [][Next]_vars

\* I/O returns and the poll comes round; files need not change, pages need not
\* come, and the timer is put off as often as it is armed again.
Fairness ==
  /\ \A f \in Files : WF_vars(PollNotices(f))
  /\ \A d \in Drains :
       /\ WF_vars(BuildFails(d) \/ BuildSucceeds(d) \/ BuildEnds(d))
       /\ \A f \in Files : WF_vars(\/ DrainChecks(d, f)
                                   \/ StatBefore(d, f)
                                   \/ BuildReads(d, f)
                                   \/ StatAfter(d, f))

FairSpec == Spec /\ Fairness

-----------------------------------------------------------------------------
(* Properties.                                                             *)

MaybeVersions == [Files -> MaybeContents]

\* The values of the state variables.
TypeOK ==
  /\ disk \in [Files -> Contents]
  /\ mode \in {"starting", "serving", "closed", "failed"}
  /\ bundle \in MaybeVersions
  /\ version \in Nat
  /\ watchers \subseteq Files
  /\ watched \in MaybeVersions
  /\ pending \subseteq Files
  /\ forced \subseteq Files
  /\ timer \in BOOLEAN
  /\ rebuilding \in BOOLEAN
  /\ job \in [Drains -> [phase : {"idle", "checking", "before", "reading", "publishing"},
                         first : BOOLEAN, todo : SUBSET Files, changed : SUBSET Files,
                         before : MaybeVersions, read : MaybeVersions,
                         stats : MaybeVersions]]
  /\ page \in [Pages -> [bundle : Nat, ready : Nat, listening : BOOLEAN]]

Fresh(f) == bundle[f] = disk[f]

\* The poll sees that f changed.
Noticeable(f) == watched[f] \notin {Unknown, disk[f]}

\* ... or a drain will rebuild it by force.
WillRebuild(f) == Noticeable(f) \/ f \in pending \cap forced

\* A file of a rebuilt bundle that changed since it was read will be noticed: while no
\* drain is under way, the poll or the queue starts a rebuild for it, or for the entry.
\* Nothing else would, since a drain drops a reported file whose recorded version is
\* the present one.
StaleIsNoticed ==
  mode = "serving" /\ version > 1 /\ (\A d \in Drains : job[d].phase = "idle") =>
    \A f \in BuiltFrom(bundle) : Fresh(f) \/ WillRebuild(f) \/ WillRebuild(Entry)

\* The file queue is not forgotten: whenever no rebuild runs and changes are
\* queued, the debounce timer runs too.
QueueIsScheduled ==
  mode = "serving" /\ pending # {} => timer \/ \E d \in Drains : job[d].phase # "idle"

\* A rebuild may have read a file that started it before the last write of it.  When it
\* ends, such a file is queued by force or differs from what is recorded of it.
RewritesAreNoticed ==
  [][\A d \in Drains : \A f \in job[d].changed :
       job[d].phase = "publishing" /\ job'[d].phase = "idle" =>
         job[d].read[f] \in {Unknown, disk[f]} \/ WillRebuild(f)']_vars

\* A page that listens since before the newest bundle is about to be told.
ReloadIsOwed ==
  \A p \in Pages : page[p].listening /\ page[p].ready < version =>
    \E d \in Drains : job[d].phase = "publishing"

\* After close() no timer is armed again, whatever is still in flight.
NoTimerAfterClose == mode = "closed" => ~timer

DiskCompiles == \A f \in BuiltFrom(disk) : <<f, disk[f]>> \notin Broken

TimerIsNotStarved == []<>~timer

\* A timer that is not put off for ever is all it takes for the queue to be emptied
\* and every change the server can see to be rebuilt, whatever failed before: the
\* recorded versions catch up with the files, unless one does not compile.
ChangesAreRebuilt ==
  TimerIsNotStarved =>
    []<>(mode = "serving" /\ DiskCompiles => pending = {} /\ \A f \in Files : ~Noticeable(f))

\* A rebuild ends, by publishing or by failing, and clears its flag.
RebuildEnds == rebuilding ~> ~rebuilding

=============================================================================
