---------------------------- MODULE DevServer_proofs ----------------------------
(***************************************************************************)
(* Safety of the development server for every set of files, of pages and   *)
(* of concurrent drains: types, the debounce timer, the reloads and what   *)
(* a rebuild makes of files that are written again during it.              *)
(*                                                                         *)
(* The timer is armed only while no rebuild runs, so that a queue which is *)
(* not empty is looked at again rests on rebuildInProgress being set only  *)
(* while some drain is on its way to clear it.  The first build is no such *)
(* drain: it arms nothing and tells no page, which is harmless since it    *)
(* queues nothing and no page is there.                                    *)
(***************************************************************************)
EXTENDS DevServer, TLAPS

Phases == {"idle", "checking", "before", "reading", "publishing"}

Job == [phase : Phases, first : BOOLEAN, todo : SUBSET Files, changed : SUBSET Files,
        before : MaybeVersions, read : MaybeVersions, stats : MaybeVersions]

PageState == [bundle : Nat, ready : Nat, listening : BOOLEAN]

\* d is a drain, not the first build, that has found something to rebuild.
Rebuilds(d) == job[d].phase \in {"before", "reading", "publishing"} /\ ~job[d].first

\* d is a drain that will schedule the next one.
WillSchedule(d) == job[d].phase # "idle" /\ ~job[d].first

\* There is one first build; it ends the start and changes nothing before that.
FirstBuild ==
  /\ \A d \in Drains : job[d].first =>
       /\ job[d].phase \in {"reading", "publishing"}
       /\ job[d].changed = {}
       /\ mode = "starting"
  /\ \A d, e \in Drains : job[d].first /\ job[e].first => d = e

NoPagesYet == mode = "starting" => \A p \in Pages : page[p] = NoPage

FlagIsHeld == rebuilding => \E d \in Drains : Rebuilds(d)

QueueIsKept ==
  mode \in {"starting", "serving"} /\ pending # {} =>
    timer \/ \E d \in Drains : WillSchedule(d)

IInv ==
  /\ TypeOK
  /\ FirstBuild
  /\ NoPagesYet
  /\ FlagIsHeld
  /\ QueueIsKept
  /\ ReloadIsOwed
  /\ NoTimerAfterClose

-----------------------------------------------------------------------------
(* Types.                                                                  *)

LEMMA IdleIsJob == ServerAssumption => Idle \in Job /\ Nothing \in MaybeVersions
BY DEF ServerAssumption, Idle, Job, Phases, Nothing, MaybeVersions, MaybeContents, Unknown

\* A drain that begins or ends is not the first build.
LEMMA IdleFields ==
  /\ Idle.first = FALSE /\ Idle.phase = "idle"
  /\ \A todo : LET checks == [Idle EXCEPT !.phase = "checking", !.todo = todo]
               IN  checks.first = FALSE /\ checks.phase = "checking"
  /\ \A changed : LET stats == [Idle EXCEPT !.phase = "before", !.todo = changed,
                                            !.changed = changed]
                  IN  /\ stats.first = FALSE /\ stats.phase = "before"
                      /\ stats.todo = changed /\ stats.changed = changed
                      /\ stats.read = Nothing /\ stats.stats = Nothing
BY DEF Idle

LEMMA JobIsTyped == ASSUME TypeOK PROVE job \in [Drains -> Job]
BY DEF TypeOK, Job, Phases

\* What a build is made of are files, once it has read the entry.
LEMMA BuiltFromFiles ==
  ASSUME ServerAssumption, NEW read \in MaybeVersions, read[Entry] # Unknown
  PROVE  BuiltFrom(read) \subseteq Files
BY DEF ServerAssumption, BuiltFrom, MaybeVersions, MaybeContents, Contents

LEMMA InitTyped == ServerAssumption /\ Init => TypeOK
<1>. SUFFICES ASSUME ServerAssumption, Init PROVE TypeOK
  OBVIOUS
<1>1. job \in [Drains -> Job]
  <2>1. [Idle EXCEPT !.phase = "reading", !.first = TRUE] \in Job /\ Idle \in Job
    BY IdleIsJob DEF Job, Phases
  <2>. QED BY <2>1 DEF Init
<1>2. bundle \in MaybeVersions /\ watched \in MaybeVersions
  BY IdleIsJob DEF Init
<1>3. disk \in [Files -> Contents]
  BY DEF Init, Contents, ServerAssumption
<1>4. page \in [Pages -> [bundle : Nat, ready : Nat, listening : BOOLEAN]]
  BY DEF Init, NoPage
<1>. QED BY <1>1, <1>2, <1>3, <1>4 DEF Init, TypeOK, Job, Phases

LEMMA NextTyped == ServerAssumption /\ TypeOK /\ [Next]_vars => TypeOK'
<1>. SUFFICES ASSUME ServerAssumption, TypeOK, [Next]_vars PROVE TypeOK'
  OBVIOUS
<1>. USE DEF serverVars
<1>0. job \in [Drains -> Job]
  BY JobIsTyped
<1>a. \A f \in Files : disk[f] \in MaybeContents
  BY DEF TypeOK, MaybeContents
<1>b. ASSUME job' \in [Drains -> Job], disk' \in [Files -> Contents],
             mode' \in {"starting", "serving", "closed", "failed"},
             bundle' \in MaybeVersions, version' \in Nat, watchers' \subseteq Files,
             watched' \in MaybeVersions, pending' \subseteq Files, forced' \subseteq Files,
             timer' \in BOOLEAN, rebuilding' \in BOOLEAN,
             page' \in [Pages -> [bundle : Nat, ready : Nat, listening : BOOLEAN]]
      PROVE  TypeOK'
  BY <1>b DEF TypeOK, Job, Phases
<1>1. ASSUME NEW f \in Files, Write(f) PROVE TypeOK'
  <2>1. disk[f] + 1 \in Contents
    BY <1>1 DEF Write, TypeOK, Contents, ServerAssumption
  <2>. QED BY <1>1, <2>1 DEF Write, TypeOK
<1>2. ASSUME NEW f \in Files, WatchEvent(f) PROVE TypeOK'
  BY <1>2 DEF WatchEvent, ScheduleRebuild, Scheduled, TypeOK
<1>3. ASSUME NEW f \in Files, WatcherFails(f) PROVE TypeOK'
  BY <1>3 DEF WatcherFails, ScheduleRebuild, Scheduled, TypeOK
<1>4. ASSUME NEW f \in Files, PollNotices(f) PROVE TypeOK'
  BY <1>4 DEF PollNotices, ScheduleRebuild, Scheduled, TypeOK
<1>5. ASSUME NEW d \in Drains, DrainStarts(d) PROVE TypeOK'
  <2>1. [Idle EXCEPT !.phase = "checking", !.todo = pending] \in Job
    BY IdleIsJob DEF TypeOK, Job, Phases
  <2>2. job' \in [Drains -> Job]
    BY <1>0, <1>5, <2>1 DEF DrainStarts
  <2>. QED BY <1>b, <1>5, <2>2 DEF DrainStarts, TypeOK
<1>6. ASSUME NEW d \in Drains, NEW f \in Files, DrainChecks(d, f) PROVE TypeOK'
  <2>. DEFINE changed == IF IsChanged(f) THEN job[d].changed \cup {f} ELSE job[d].changed
  <2>1. changed \subseteq Files
    BY <1>0 DEF Job
  <2>. HIDE DEF changed
  <2>2. [Idle EXCEPT !.phase = "before", !.todo = changed, !.changed = changed] \in Job
    BY <2>1, IdleIsJob DEF Job, Phases
  <2>3. CASE job[d].todo = {f}
    <3>1. Decide(d, changed) /\ pending' = pending
      BY <1>6, <2>3 DEF DrainChecks, changed
    <3>2. job' \in [Drains -> Job] /\ timer' \in BOOLEAN /\ rebuilding' \in BOOLEAN
      BY <1>0, <2>2, <3>1, IdleIsJob DEF Decide, Scheduled, TypeOK
    <3>. QED BY <1>b, <1>6, <3>2 DEF DrainChecks, TypeOK
  <2>4. CASE job[d].todo # {f}
    <3>1. /\ job' = [job EXCEPT ![d].todo = @ \ {f}, ![d].changed = changed]
          /\ timer' = timer /\ rebuilding' = rebuilding
      BY <1>6, <2>4 DEF DrainChecks, changed
    <3>2. job' \in [Drains -> Job]
      BY <1>0, <2>1, <3>1 DEF Job
    <3>. QED BY <1>b, <1>6, <3>1, <3>2 DEF DrainChecks, TypeOK
  <2>. QED BY <2>3, <2>4
<1>7. ASSUME NEW d \in Drains, NEW f \in Files, StatBefore(d, f) PROVE TypeOK'
  <2>1. job' \in [Drains -> Job]
    <3>. DEFINE rest == job[d].todo \ {f}
    <3>1. /\ job[d] \in Job /\ rest \subseteq Files
          /\ [job[d].before EXCEPT ![f] = disk[f]] \in MaybeVersions
      BY <1>0, <1>a DEF Job, MaybeVersions
    <3>2. [job[d] EXCEPT !.before = [@ EXCEPT ![f] = disk[f]], !.todo = rest,
                         !.phase = IF rest = {} THEN "reading" ELSE "before"] \in Job
      BY <3>1 DEF Job, Phases
    <3>. HIDE DEF rest
    <3>3. job' = [job EXCEPT ![d] = [job[d] EXCEPT !.before = [@ EXCEPT ![f] = disk[f]],
                         !.todo = rest, !.phase = IF rest = {} THEN "reading" ELSE "before"]]
      BY <1>0, <1>7, <3>1 DEF StatBefore, rest, Job
    <3>. QED BY <1>0, <3>2, <3>3
  <2>. QED BY <1>b, <1>7, <2>1 DEF StatBefore, TypeOK
<1>8. ASSUME NEW d \in Drains, NEW f \in Files, BuildReads(d, f) PROVE TypeOK'
  <2>1. job' \in [Drains -> Job]
    BY <1>0, <1>a, <1>8, ZenonT(30) DEF BuildReads, Job, Phases, MaybeVersions
  <2>. QED BY <1>b, <1>8, <2>1 DEF BuildReads, TypeOK
<1>9. ASSUME NEW d \in Drains, NEW f \in Files, StatAfter(d, f) PROVE TypeOK'
  <2>1. job' \in [Drains -> Job]
    BY <1>0, <1>a, <1>9, ZenonT(30) DEF StatAfter, Job, Phases, MaybeVersions
  <2>. QED BY <1>b, <1>9, <2>1 DEF StatAfter, TypeOK
<1>10. ASSUME NEW d \in Drains, BuildFails(d) PROVE TypeOK'
  <2>1. job' \in [Drains -> Job]
    BY <1>0, <1>10, IdleIsJob DEF BuildFails
  <2>. QED BY <1>b, <1>10, <2>1 DEF BuildFails, Scheduled, TypeOK
<1>11. ASSUME NEW d \in Drains, BuildSucceeds(d) PROVE TypeOK'
  <2>1. job' \in [Drains -> Job] /\ job[d].read \in MaybeVersions
    BY <1>0, <1>11 DEF BuildSucceeds, Job, Phases
  <2>2. BuiltFrom(job[d].read) \subseteq Files
    BY <1>11, <2>1, BuiltFromFiles DEF BuildSucceeds, IsRead
  <2>3. version' \in Nat /\ watchers' \subseteq Files /\ bundle' \in MaybeVersions
    BY <1>11, <2>1, <2>2 DEF BuildSucceeds, TypeOK
  <2>. QED BY <1>b, <1>11, <2>1, <2>3 DEF BuildSucceeds, TypeOK
<1>12. ASSUME NEW d \in Drains, BuildEnds(d) PROVE TypeOK'
  <2>1. job' \in [Drains -> Job] /\ job[d].stats \in MaybeVersions
    BY <1>0, <1>12, IdleIsJob DEF BuildEnds, Job
  <2>2. ChangedMeanwhile(d) \subseteq Files
    BY <1>0 DEF ChangedMeanwhile, Job
  <2>3. page' \in [Pages -> [bundle : Nat, ready : Nat, listening : BOOLEAN]]
    <3>1. page \in [Pages -> PageState] /\ NoPage \in PageState
      BY DEF TypeOK, PageState, NoPage
    <3>2. page' = page \/ page' = Reloaded
      BY <1>12 DEF BuildEnds
    <3>. QED BY <3>1, <3>2 DEF Reloaded, PageState
  <2>. QED BY <1>b, <1>12, <2>1, <2>2, <2>3 DEF BuildEnds, Scheduled, TypeOK
<1>13. ASSUME NEW p \in Pages, PageLoads(p) \/ PageListens(p) PROVE TypeOK'
  <2>1. page' \in [Pages -> [bundle : Nat, ready : Nat, listening : BOOLEAN]]
    <3>1. page \in [Pages -> PageState] /\ version \in Nat
      BY DEF TypeOK, PageState
    <3>2. \/ page' = [page EXCEPT ![p].bundle = version]
          \/ page' = [page EXCEPT ![p].listening = TRUE, ![p].ready = version]
      BY <1>13 DEF PageLoads, PageListens
    <3>3. /\ [page[p] EXCEPT !.bundle = version] \in PageState
          /\ [[page[p] EXCEPT !.listening = TRUE] EXCEPT !.ready = version] \in PageState
      BY <3>1 DEF PageState
    <3>4. \/ page' = [page EXCEPT ![p] = [page[p] EXCEPT !.bundle = version]]
          \/ page' = [page EXCEPT ![p] = [[page[p] EXCEPT !.listening = TRUE] EXCEPT !.ready = version]]
      BY <3>1, <3>2
    <3>5. page' \in [Pages -> PageState]
      BY <3>1, <3>3, <3>4
    <3>. QED BY <3>5 DEF PageState
  <2>. QED BY <1>0, <1>b, <1>13, <2>1 DEF PageLoads, PageListens, TypeOK
<1>14. CASE CloseSession
  BY <1>0, <1>b, <1>14 DEF CloseSession, NoPage, TypeOK
<1>15. CASE UNCHANGED vars
  BY <1>15 DEF vars, TypeOK
<1>. QED BY <1>1, <1>2, <1>3, <1>4, <1>5, <1>6, <1>7, <1>8, <1>9, <1>10, <1>11, <1>12,
            <1>13, <1>14, <1>15 DEF Next

-----------------------------------------------------------------------------
(* The timer, the queue and the pages.                                     *)

\* What a change of one job among others means for the first build: it is as
\* before, or gone.
LEMMA FirstBuildKeeps ==
  ASSUME TypeOK, FirstBuild, mode' = mode,
         \A d \in Drains : \/ job'[d] = job[d]
                           \/ /\ job'[d].first = job[d].first
                              /\ job'[d].changed = job[d].changed
                              /\ job'[d].phase \in {"reading", "publishing"}
                           \/ ~job'[d].first
  PROVE  FirstBuild'
BY DEF FirstBuild

LEMMA InitHolds == ServerAssumption /\ Init => IInv
<1>. SUFFICES ASSUME ServerAssumption, Init PROVE IInv
  OBVIOUS
<1>1. PICK d \in Drains :
        job = [e \in Drains |-> IF e = d THEN [Idle EXCEPT !.phase = "reading", !.first = TRUE]
                                ELSE Idle]
  BY DEF Init
<1>2. FirstBuild
  BY <1>1 DEF Init, FirstBuild, Idle
<1>3. NoPagesYet /\ FlagIsHeld /\ QueueIsKept /\ NoTimerAfterClose
  BY DEF Init, NoPagesYet, FlagIsHeld, QueueIsKept, NoTimerAfterClose
<1>4. ReloadIsOwed
  BY DEF Init, ReloadIsOwed, NoPage
<1>. QED BY <1>2, <1>3, <1>4, InitTyped DEF IInv

\* Queueing a file arms the timer unless a rebuild holds the flag.
LEMMA ScheduleKeeps ==
  ASSUME IInv, NEW f \in Files, ScheduleRebuild(f), UNCHANGED <<mode, job, rebuilding>>
  PROVE  QueueIsKept' /\ NoTimerAfterClose'
<1>1. CASE rebuilding
  <2>1. \E d \in Drains : WillSchedule(d)'
    BY <1>1 DEF IInv, FlagIsHeld, Rebuilds, WillSchedule
  <2>. QED BY <2>1 DEF IInv, QueueIsKept, NoTimerAfterClose, ScheduleRebuild, Scheduled
<1>2. CASE ~rebuilding
  BY <1>2 DEF IInv, QueueIsKept, NoTimerAfterClose, ScheduleRebuild, Scheduled
<1>. QED BY <1>1, <1>2

LEMMA NextKeeps == ServerAssumption /\ IInv /\ [Next]_vars => IInv'
<1>. SUFFICES ASSUME ServerAssumption, IInv, [Next]_vars PROVE IInv'
  OBVIOUS
<1>. USE DEF serverVars
<1>0. TypeOK' /\ TypeOK /\ job \in [Drains -> Job]
  BY NextTyped, JobIsTyped DEF IInv
<1>a. ASSUME job' = job, mode' = mode, rebuilding' = rebuilding
      PROVE  FirstBuild' /\ FlagIsHeld'
  BY <1>a DEF IInv, FirstBuild, FlagIsHeld, Rebuilds
<1>b. ASSUME mode' = mode, page' = page PROVE NoPagesYet'
  BY <1>b DEF IInv, NoPagesYet
<1>c. ASSUME page' = page, version' = version,
             \A d \in Drains : job[d].phase = "publishing" => job'[d].phase = "publishing"
      PROVE  ReloadIsOwed'
  BY <1>c DEF IInv, ReloadIsOwed
<1>d. ASSUME mode' = mode, timer' = timer PROVE NoTimerAfterClose'
  BY <1>d DEF IInv, NoTimerAfterClose
<1>e. ASSUME mode' = mode, timer' = timer, pending' = pending,
             \A d \in Drains : WillSchedule(d) => WillSchedule(d)'
      PROVE  QueueIsKept'
  BY <1>e DEF IInv, QueueIsKept
<1>1. ASSUME NEW f \in Files, Write(f) PROVE IInv'
  <2>1. UNCHANGED <<mode, job, rebuilding, page, version, timer, pending>>
    BY <1>1 DEF Write
  <2>. QED BY <1>0, <1>a, <1>b, <1>c, <1>d, <1>e, <2>1 DEF IInv, WillSchedule
<1>2. ASSUME NEW f \in Files, WatchEvent(f) \/ WatcherFails(f) \/ PollNotices(f) PROVE IInv'
  <2>1. UNCHANGED <<mode, job, rebuilding, page, version>> /\ ScheduleRebuild(f)
    BY <1>2 DEF WatchEvent, WatcherFails, PollNotices
  <2>. QED BY <1>0, <1>a, <1>b, <1>c, <2>1, ScheduleKeeps DEF IInv
<1>4. ASSUME NEW d \in Drains, DrainStarts(d) PROVE IInv'
  <2>1. UNCHANGED <<mode, rebuilding, page, version>> /\ timer' = FALSE /\ job[d].phase = "idle"
    BY <1>4 DEF DrainStarts
  <2>2. \A e \in Drains : \/ job'[e] = job[e]
                          \/ e = d /\ ~job'[e].first /\ pending' = {}
    <3>1. CASE mode = "closed" \/ rebuilding \/ pending = {}
      BY <1>4, <3>1 DEF DrainStarts
    <3>2. CASE ~(mode = "closed" \/ rebuilding \/ pending = {})
      <4>1. /\ job' = [job EXCEPT ![d] = [Idle EXCEPT !.phase = "checking", !.todo = pending]]
            /\ pending' = {}
        BY <1>4, <3>2 DEF DrainStarts
      <4>. QED BY <1>0, <4>1, IdleFields
    <3>. QED BY <3>1, <3>2
  <2>3. FirstBuild'
    BY <1>0, <2>1, <2>2, FirstBuildKeeps DEF IInv
  <2>4. FlagIsHeld'
    BY <2>1, <2>2 DEF IInv, FlagIsHeld, Rebuilds
  <2>5. QueueIsKept'
    <3>1. CASE pending' = {}
      BY <3>1 DEF QueueIsKept
    <3>2. CASE pending' # {}
      <4>1. job' = job /\ (mode = "closed" \/ rebuilding)
        BY <1>4, <3>2 DEF DrainStarts
      <4>. QED BY <2>1, <4>1 DEF IInv, FlagIsHeld, Rebuilds, QueueIsKept, WillSchedule
    <3>. QED BY <3>1, <3>2
  <2>6. NoTimerAfterClose'
    BY <2>1 DEF NoTimerAfterClose
  <2>7. ReloadIsOwed'
    BY <1>c, <2>1, <2>2
  <2>. QED BY <1>0, <1>b, <2>1, <2>3, <2>4, <2>5, <2>6, <2>7 DEF IInv
<1>5. ASSUME NEW d \in Drains, NEW f \in Files, DrainChecks(d, f) PROVE IInv'
  <2>. DEFINE changed == IF IsChanged(f) THEN job[d].changed \cup {f} ELSE job[d].changed
  <2>1. UNCHANGED <<mode, page, version, pending>> /\ job[d].phase = "checking"
    BY <1>5 DEF DrainChecks
  <2>2. ~job[d].first
    BY <2>1 DEF IInv, FirstBuild
  <2>3. \/ /\ job[d].todo = {f} /\ changed = {}
           /\ job' = [job EXCEPT ![d] = Idle]
           /\ timer' = Scheduled(pending, rebuilding) /\ rebuilding' = rebuilding
        \/ /\ job[d].todo = {f} /\ changed # {}
           /\ job' = [job EXCEPT ![d] = [Idle EXCEPT !.phase = "before", !.todo = changed,
                                                     !.changed = changed]]
           /\ timer' = timer /\ rebuilding' = TRUE
        \/ /\ job[d].todo # {f}
           /\ job' = [job EXCEPT ![d].todo = @ \ {f}, ![d].changed = changed]
           /\ timer' = timer /\ rebuilding' = rebuilding
    BY <1>5 DEF DrainChecks, Decide
  <2>. HIDE DEF changed
  <2>4. /\ \A e \in Drains : e # d => job'[e] = job[e]
        /\ ~job'[d].first
        /\ \/ job'[d].phase = "idle" /\ timer' = Scheduled(pending, rebuilding)
              /\ rebuilding' = rebuilding
           \/ job'[d].phase = "before" /\ timer' = timer
           \/ job'[d].phase = "checking" /\ timer' = timer /\ rebuilding' = rebuilding
    <3>. DEFINE next == [job EXCEPT ![d].todo = @ \ {f}, ![d].changed = changed]
               stats == [Idle EXCEPT !.phase = "before", !.todo = changed, !.changed = changed]
    <3>1. /\ \A e \in Drains : e # d => next[e] = job[e]
          /\ next[d].first = job[d].first /\ next[d].phase = job[d].phase
      BY <1>0 DEF Job
    <3>2. stats.first = FALSE /\ stats.phase = "before"
      BY IdleFields
    <3>3. CASE /\ job' = [job EXCEPT ![d] = Idle]
               /\ timer' = Scheduled(pending, rebuilding) /\ rebuilding' = rebuilding
      BY <1>0, <3>3, IdleFields
    <3>4. CASE job' = [job EXCEPT ![d] = stats] /\ timer' = timer
      <4>. HIDE DEF stats
      <4>. QED BY <1>0, <3>2, <3>4
    <3>5. CASE job' = next /\ timer' = timer /\ rebuilding' = rebuilding
      <4>. HIDE DEF next
      <4>. QED BY <2>1, <2>2, <3>1, <3>5
    <3>. QED BY <2>3, <3>3, <3>4, <3>5
  <2>5. FirstBuild'
    BY <1>0, <2>1, <2>4, FirstBuildKeeps DEF IInv
  <2>6. FlagIsHeld'
    <3>1. rebuilding => \E e \in Drains : e # d /\ Rebuilds(e)
      BY <2>1 DEF IInv, FlagIsHeld, Rebuilds
    <3>. QED BY <2>4, <3>1 DEF FlagIsHeld, Rebuilds
  <2>7. QueueIsKept'
    <3>1. CASE job'[d].phase = "idle"
      <4>1. rebuilding => \E e \in Drains : e # d /\ WillSchedule(e)
        BY <2>1 DEF IInv, FlagIsHeld, Rebuilds, WillSchedule
      <4>2. rebuilding => \E e \in Drains : WillSchedule(e)'
        BY <2>4, <4>1 DEF WillSchedule
      <4>. QED BY <2>1, <2>4, <3>1, <4>2 DEF QueueIsKept, Scheduled
    <3>2. CASE job'[d].phase # "idle"
      BY <2>4, <3>2 DEF QueueIsKept, WillSchedule
    <3>. QED BY <3>1, <3>2
  <2>8. NoTimerAfterClose'
    BY <2>1, <2>4 DEF IInv, NoTimerAfterClose, Scheduled
  <2>9. ReloadIsOwed'
    BY <1>c, <2>1, <2>4
  <2>. QED BY <1>0, <1>b, <2>1, <2>5, <2>6, <2>7, <2>8, <2>9 DEF IInv
<1>6. ASSUME NEW d \in Drains, NEW f \in Files,
             StatBefore(d, f) \/ BuildReads(d, f) \/ StatAfter(d, f)
      PROVE  IInv'
  <2>1. UNCHANGED <<mode, page, version, pending, timer, rebuilding>>
    BY <1>6 DEF StatBefore, BuildReads, StatAfter
  <2>2. /\ \A e \in Drains : e # d => job'[e] = job[e]
        /\ job'[d].first = job[d].first /\ job'[d].changed = job[d].changed
        /\ \/ job'[d].phase = job[d].phase
           \/ job[d].phase = "before" /\ job'[d].phase \in {"before", "reading"}
        /\ job'[d].phase \in {"before", "reading", "publishing"}
    <3>1. CASE StatBefore(d, f)
      BY <1>0, <3>1 DEF StatBefore, Job
    <3>2. CASE BuildReads(d, f)
      BY <1>0, <3>2 DEF BuildReads, Job
    <3>3. CASE StatAfter(d, f)
      BY <1>0, <3>3 DEF StatAfter, Job
    <3>. QED BY <1>6, <3>1, <3>2, <3>3
  <2>3. FirstBuild'
    <3>1. job[d].first => job'[d].phase \in {"reading", "publishing"}
      BY <2>2 DEF IInv, FirstBuild
    <3>. QED BY <1>0, <2>1, <2>2, <3>1, FirstBuildKeeps DEF IInv
  <2>4. FlagIsHeld'
    BY <2>1, <2>2 DEF IInv, FlagIsHeld, Rebuilds
  <2>5. QueueIsKept'
    <3>1. \A e \in Drains : WillSchedule(e) => WillSchedule(e)'
      BY <2>2 DEF WillSchedule
    <3>. QED BY <1>e, <2>1, <3>1
  <2>6. ReloadIsOwed'
    BY <1>c, <2>1, <2>2
  <2>. QED BY <1>0, <1>b, <1>d, <2>1, <2>3, <2>4, <2>5, <2>6 DEF IInv
<1>7. ASSUME NEW d \in Drains, BuildFails(d) PROVE IInv'
  <2>1. /\ UNCHANGED <<page, version, pending>>
        /\ job[d].phase = "reading" /\ job' = [job EXCEPT ![d] = Idle]
        /\ rebuilding' = FALSE /\ timer' = Scheduled(pending, FALSE)
        /\ mode' = IF job[d].first THEN "failed" ELSE mode
    BY <1>7 DEF BuildFails
  <2>2. \A e \in Drains : \/ e # d /\ job'[e] = job[e]
                          \/ e = d /\ ~job'[e].first
    BY <1>0, <2>1, IdleFields
  <2>3. FirstBuild'
    BY <2>1, <2>2 DEF IInv, FirstBuild
  <2>4. QueueIsKept'
    BY <2>1 DEF QueueIsKept, Scheduled
  <2>5. NoTimerAfterClose'
    BY <2>1 DEF IInv, NoTimerAfterClose, Scheduled
  <2>6. ReloadIsOwed'
    BY <1>c, <2>1, <2>2
  <2>. QED BY <1>0, <2>1, <2>3, <2>4, <2>5, <2>6 DEF IInv, NoPagesYet, FlagIsHeld
<1>8. ASSUME NEW d \in Drains, BuildSucceeds(d) PROVE IInv'
  <2>1. /\ UNCHANGED <<mode, page, pending, timer, rebuilding>>
        /\ job[d].phase = "reading" /\ job' = [job EXCEPT ![d].phase = "publishing"]
    BY <1>8 DEF BuildSucceeds
  <2>2. /\ \A e \in Drains : e # d => job'[e] = job[e]
        /\ job'[d].first = job[d].first /\ job'[d].changed = job[d].changed
        /\ job'[d].phase = "publishing"
    BY <1>0, <2>1 DEF Job
  <2>3. FirstBuild'
    BY <1>0, <2>1, <2>2, FirstBuildKeeps DEF IInv
  <2>4. FlagIsHeld'
    BY <2>1, <2>2 DEF IInv, FlagIsHeld, Rebuilds
  <2>5. QueueIsKept'
    <3>1. \A e \in Drains : WillSchedule(e) => WillSchedule(e)'
      BY <2>1, <2>2 DEF WillSchedule
    <3>. QED BY <1>e, <2>1, <3>1
  <2>6. ReloadIsOwed'
    BY <2>2 DEF ReloadIsOwed
  <2>. QED BY <1>0, <1>b, <1>d, <2>1, <2>3, <2>4, <2>5, <2>6 DEF IInv
<1>9. ASSUME NEW d \in Drains, BuildEnds(d) PROVE IInv'
  <2>1. /\ job[d].phase = "publishing" /\ job' = [job EXCEPT ![d] = Idle]
        /\ version' = version
        /\ pending' = pending \cup ChangedMeanwhile(d)
    BY <1>9 DEF BuildEnds
  <2>2. \A e \in Drains : \/ e # d /\ job'[e] = job[e]
                          \/ e = d /\ ~job'[e].first
    BY <1>0, <2>1, IdleFields
  <2>3. CASE job[d].first
    <3>1. mode = "starting" /\ pending' = pending
      BY <2>1, <2>3 DEF IInv, FirstBuild, ChangedMeanwhile
    <3>2. mode' = "serving" /\ UNCHANGED <<timer, rebuilding, page>>
      BY <1>9, <2>3, <3>1 DEF BuildEnds
    <3>3. FirstBuild'
      BY <2>2, <2>3 DEF IInv, FirstBuild
    <3>4. FlagIsHeld'
      BY <2>2, <2>3, <3>2 DEF IInv, FlagIsHeld, Rebuilds
    <3>5. QueueIsKept'
      <4>1. \A e \in Drains : WillSchedule(e) => WillSchedule(e)'
        BY <2>2, <2>3 DEF WillSchedule
      <4>. QED BY <3>1, <3>2, <4>1 DEF IInv, QueueIsKept
    <3>6. ReloadIsOwed' /\ NoPagesYet' /\ NoTimerAfterClose'
      BY <3>1, <3>2 DEF IInv, NoPagesYet, NoPage, ReloadIsOwed, NoTimerAfterClose
    <3>. QED BY <1>0, <3>3, <3>4, <3>5, <3>6 DEF IInv
  <2>4. CASE ~job[d].first
    <3>1. /\ page' = Reloaded /\ rebuilding' = FALSE /\ mode' = mode
          /\ timer' = Scheduled(pending', FALSE)
      BY <1>9, <2>4 DEF BuildEnds
    <3>2. FirstBuild'
      BY <1>0, <2>2, <3>1, FirstBuildKeeps DEF IInv
    <3>3. FlagIsHeld' /\ QueueIsKept' /\ NoTimerAfterClose'
      BY <3>1 DEF IInv, FlagIsHeld, QueueIsKept, NoTimerAfterClose, Scheduled
    <3>4. \A p \in Pages : page'[p] = NoPage \/ (page'[p] = page[p] /\ ~page[p].listening)
      <4>2. page \in [Pages -> PageState]
        BY <1>0 DEF TypeOK, PageState
      <4>3. \A p \in Pages : page[p].listening \in BOOLEAN
        BY <4>2 DEF PageState
      <4>4. \A p \in Pages : /\ page[p].listening => page'[p] = NoPage
                             /\ ~page[p].listening => page'[p] = page[p]
        BY <3>1 DEF Reloaded
      <4>. QED BY <4>3, <4>4
    <3>5. ReloadIsOwed' /\ NoPagesYet'
      BY <3>1, <3>4 DEF IInv, ReloadIsOwed, NoPagesYet, NoPage
    <3>. QED BY <1>0, <3>2, <3>3, <3>5 DEF IInv
  <2>. QED BY <2>3, <2>4
<1>10. ASSUME NEW p \in Pages, PageLoads(p) \/ PageListens(p) PROVE IInv'
  <2>1. UNCHANGED <<mode, job, rebuilding, version, timer, pending>> /\ mode = "serving"
    BY <1>10 DEF PageLoads, PageListens
  <2>2. ReloadIsOwed'
    <3>1. page \in [Pages -> PageState] /\ version \in Nat
      BY <1>0 DEF TypeOK, PageState
    <3>2. \A q \in Pages : \/ page'[q].listening = page[q].listening /\ page'[q].ready = page[q].ready
                           \/ page'[q].ready = version
      <4>1. CASE PageLoads(p)
        BY <3>1, <4>1 DEF PageLoads, PageState
      <4>2. CASE PageListens(p)
        BY <3>1, <4>2 DEF PageListens, PageState
      <4>. QED BY <1>10, <4>1, <4>2
    <3>. QED BY <2>1, <3>1, <3>2 DEF IInv, ReloadIsOwed
  <2>. QED BY <1>0, <1>a, <1>d, <1>e, <2>1, <2>2 DEF IInv, WillSchedule, NoPagesYet
<1>11. CASE CloseSession
  <2>1. /\ mode = "serving" /\ mode' = "closed" /\ timer' = FALSE
        /\ page' = [p \in Pages |-> NoPage]
        /\ UNCHANGED <<version, rebuilding, job>>
    BY <1>11 DEF CloseSession
  <2>2. FirstBuild' /\ FlagIsHeld' /\ QueueIsKept' /\ NoTimerAfterClose' /\ NoPagesYet'
    BY <2>1 DEF IInv, FirstBuild, FlagIsHeld, Rebuilds, QueueIsKept, NoTimerAfterClose, NoPagesYet
  <2>3. ReloadIsOwed'
    BY <2>1 DEF ReloadIsOwed, NoPage
  <2>. QED BY <1>0, <2>2, <2>3 DEF IInv
<1>12. CASE UNCHANGED vars
  <2>1. UNCHANGED <<mode, job, rebuilding, page, version, timer, pending>>
    BY <1>12 DEF vars
  <2>. QED BY <1>0, <1>a, <1>b, <1>c, <1>d, <1>e, <2>1 DEF IInv, WillSchedule
<1>. QED BY <1>1, <1>2, <1>4, <1>5, <1>6, <1>7, <1>8, <1>9, <1>10, <1>11, <1>12 DEF Next

LEMMA InvariantHolds == Spec => []IInv
<1>1. ServerAssumption
  BY ServerAssumption
<1>. QED BY <1>1, InitHolds, NextKeeps, PTL DEF Spec

-----------------------------------------------------------------------------

\* Type correctness, for every set of files, pages and concurrent drains.
THEOREM TypeCorrect == Spec => []TypeOK
BY InvariantHolds, PTL DEF IInv

\* However many drains overlap, a queue that is not empty has a timer or a
\* drain that will look at it.
THEOREM QueueIsNeverForgotten == Spec => []QueueIsScheduled
<1>1. IInv => QueueIsScheduled
  BY DEF IInv, QueueIsKept, QueueIsScheduled, WillSchedule
<1>. QED BY <1>1, InvariantHolds, PTL

\* No page that listens misses a bundle: one is owed only while the rebuild
\* that published is on its way to the broadcast.
THEOREM PagesAreReloaded == Spec => []ReloadIsOwed
BY InvariantHolds, PTL DEF IInv

\* Nothing that ends after close() arms the timer.
THEOREM NoTimerOutlivesTheSession == Spec => []NoTimerAfterClose
BY InvariantHolds, PTL DEF IInv

-----------------------------------------------------------------------------
(* Files that are written again while they are rebuilt.  A build reads    *)
(* them after their versions were looked at and before they are looked at  *)
(* again, and contents only grow, so a build that missed the last write    *)
(* finds a version that moved, or records one that is no longer present.   *)

\* Before the build reads, it has the version of each changed file.
BeforeIsOld(d) ==
  job[d].phase = "before" =>
    /\ job[d].read = Nothing
    /\ \A f \in job[d].changed \ job[d].todo :
         job[d].before[f] # Unknown /\ job[d].before[f] <= disk[f]

\* What the build reads is no older than the version before.
ReadsAreBetween(d) ==
  job[d].phase \in {"reading", "publishing"} =>
    \A f \in job[d].changed :
      /\ job[d].before[f] # Unknown /\ job[d].before[f] <= disk[f]
      /\ job[d].read[f] # Unknown =>
           job[d].before[f] <= job[d].read[f] /\ job[d].read[f] <= disk[f]

ReadsAreSound == \A d \in Drains : BeforeIsOld(d) /\ ReadsAreBetween(d)

\* Contents and what is not known are integers.
LEMMA ContentsAreInts ==
  ASSUME ServerAssumption, TypeOK
  PROVE  /\ \A f \in Files : disk[f] \in Nat
         /\ \A d \in Drains : \A f \in Files : job[d].before[f] \in Int /\ job[d].read[f] \in Int
<1>1. \A c \in MaybeContents : c \in Int
  BY DEF MaybeContents, Contents, Unknown, ServerAssumption
<1>2. \A f \in Files : disk[f] \in Nat
  BY DEF TypeOK, Contents, ServerAssumption
<1>3. ASSUME NEW d \in Drains, NEW f \in Files
      PROVE  job[d].before[f] \in Int /\ job[d].read[f] \in Int
  <2>1. job[d] \in Job
    BY JobIsTyped
  <2>. QED BY <1>1, <2>1 DEF Job, MaybeVersions
<1>. QED BY <1>2, <1>3

LEMMA ReadsInit == ServerAssumption /\ Init => ReadsAreSound
<1>. SUFFICES ASSUME ServerAssumption, Init, NEW d \in Drains
              PROVE  BeforeIsOld(d) /\ ReadsAreBetween(d)
  BY DEF ReadsAreSound
<1>1. job[d].phase \in {"idle", "reading"} /\ job[d].changed = {}
  BY DEF Init, Idle
<1>. QED BY <1>1 DEF BeforeIsOld, ReadsAreBetween

LEMMA ReadsNext == ASSUME ServerAssumption, TypeOK, ReadsAreSound, [Next]_vars PROVE ReadsAreSound'
<1>. USE DEF serverVars
<1>0. job \in [Drains -> Job]
  BY JobIsTyped
<1>i. /\ \A f \in Files : disk[f] \in Nat
      /\ \A d \in Drains : \A f \in Files : job[d].before[f] \in Int /\ job[d].read[f] \in Int
  BY ContentsAreInts
<1>j. \A d \in Drains : /\ BeforeIsOld(d) /\ ReadsAreBetween(d) /\ job[d].changed \subseteq Files
  BY <1>0 DEF ReadsAreSound, Job
\* A step of drain d, which leaves the others alone, and of which only d's part is open.
<1>d. ASSUME NEW d \in Drains, disk' = disk, \A c \in Drains \ {d} : job'[c] = job[c],
             BeforeIsOld(d)', ReadsAreBetween(d)'
      PROVE  ReadsAreSound'
  <2>1. ASSUME NEW c \in Drains \ {d} PROVE BeforeIsOld(c)' /\ ReadsAreBetween(c)'
    BY <1>d, <1>j, <2>1 DEF BeforeIsOld, ReadsAreBetween
  <2>. QED BY <1>d, <2>1 DEF ReadsAreSound
<1>e. ASSUME UNCHANGED <<disk, job>> PROVE ReadsAreSound'
  BY <1>e DEF ReadsAreSound, BeforeIsOld, ReadsAreBetween
<1>1. ASSUME NEW f \in Files, Write(f) PROVE ReadsAreSound'
  <2>1. job' = job /\ \A g \in Files : disk[g] <= disk'[g] /\ disk'[g] \in Nat
    BY <1>1, <1>i DEF Write, TypeOK
  <2>2. ASSUME NEW d \in Drains PROVE BeforeIsOld(d)' /\ ReadsAreBetween(d)'
    <3>1. BeforeIsOld(d)'
      BY <1>i, <1>j, <2>1 DEF BeforeIsOld
    <3>2. ReadsAreBetween(d)'
      BY <1>i, <1>j, <2>1 DEF ReadsAreBetween
    <3>. QED BY <3>1, <3>2
  <2>. QED BY <2>2 DEF ReadsAreSound
<1>2. ASSUME NEW f \in Files, WatchEvent(f) \/ WatcherFails(f) \/ PollNotices(f)
      PROVE  ReadsAreSound'
  BY <1>e, <1>2 DEF WatchEvent, WatcherFails, PollNotices
<1>3. ASSUME NEW d \in Drains, DrainStarts(d) PROVE ReadsAreSound'
  <2>1. CASE job' = job
    BY <1>e, <1>3, <2>1 DEF DrainStarts
  <2>2. CASE job' # job
    <3>1. disk' = disk /\ job' = [job EXCEPT ![d] = [Idle EXCEPT !.phase = "checking", !.todo = pending]]
      BY <1>3, <2>2 DEF DrainStarts
    <3>2. job'[d].phase = "checking" /\ \A c \in Drains \ {d} : job'[c] = job[c]
      BY <1>0, <3>1 DEF Idle
    <3>. QED BY <1>d, <3>1, <3>2 DEF BeforeIsOld, ReadsAreBetween
  <2>. QED BY <2>1, <2>2
<1>4. ASSUME NEW d \in Drains, NEW f \in Files, DrainChecks(d, f) PROVE ReadsAreSound'
  <2>. DEFINE changed == IF IsChanged(f) THEN job[d].changed \cup {f} ELSE job[d].changed
  <2>1. disk' = disk /\ job[d].phase = "checking"
    BY <1>4 DEF DrainChecks
  <2>2. \/ job' = [job EXCEPT ![d] = Idle]
        \/ job' = [job EXCEPT ![d] = [Idle EXCEPT !.phase = "before", !.todo = changed,
                                                  !.changed = changed]]
        \/ job' = [job EXCEPT ![d].todo = @ \ {f}, ![d].changed = changed]
    BY <1>4 DEF DrainChecks, Decide
  <2>. HIDE DEF changed
  <2>3. \/ job'[d].phase = "idle"
        \/ /\ job'[d].phase = "before" /\ job'[d].read = Nothing
           /\ job'[d].todo = changed /\ job'[d].changed = changed
        \/ job'[d].phase = "checking"
    <3>1. CASE job' = [job EXCEPT ![d] = Idle]
      BY <1>0, <3>1 DEF Idle
    <3>. DEFINE next == [Idle EXCEPT !.phase = "before", !.todo = changed, !.changed = changed]
    <3>2. CASE job' = [job EXCEPT ![d] = next]
      <4>1. /\ next.phase = "before" /\ next.todo = changed /\ next.changed = changed
            /\ next.read = Nothing
        BY IdleFields
      <4>. HIDE DEF next
      <4>2. job'[d] = next
        BY <1>0, <3>2
      <4>. QED BY <4>1, <4>2
    <3>3. CASE job' = [job EXCEPT ![d].todo = @ \ {f}, ![d].changed = changed]
      BY <1>0, <2>1, <3>3 DEF Job
    <3>. QED BY <2>2, <3>1, <3>2, <3>3
  <2>4. \A c \in Drains \ {d} : job'[c] = job[c]
    BY <1>0, <2>2
  <2>5. BeforeIsOld(d)' /\ ReadsAreBetween(d)'
    BY <2>3 DEF BeforeIsOld, ReadsAreBetween
  <2>. QED BY <1>d, <2>1, <2>4, <2>5
<1>5. ASSUME NEW d \in Drains, NEW f \in Files, StatBefore(d, f) PROVE ReadsAreSound'
  <2>1. disk' = disk /\ job[d].phase = "before"
    BY <1>5 DEF StatBefore
  <2>2. /\ job'[d].read = job[d].read
        /\ job'[d].changed = job[d].changed /\ job'[d].todo = job[d].todo \ {f}
        /\ job'[d].before = [job[d].before EXCEPT ![f] = disk[f]]
        /\ job'[d].phase = IF job[d].todo \ {f} = {} THEN "reading" ELSE "before"
        /\ \A c \in Drains \ {d} : job'[c] = job[c]
    BY <1>0, <1>5 DEF StatBefore, Job
  <2>3. /\ job[d].read = Nothing
        /\ \A g \in job[d].changed \ job[d].todo :
             job[d].before[g] # Unknown /\ job[d].before[g] <= disk[g]
    BY <1>j, <2>1 DEF BeforeIsOld
  <2>4. /\ job[d].before \in [Files -> MaybeContents] /\ job[d].changed \subseteq Files
        /\ disk[f] # Unknown /\ disk[f] <= disk[f]
    BY <1>0, <1>i DEF Job, MaybeVersions, Unknown
  <2>5. \A g \in job'[d].changed \ job'[d].todo :
          job'[d].before[g] # Unknown /\ job'[d].before[g] <= disk'[g]
    BY <2>1, <2>2, <2>3, <2>4
  <2>6. BeforeIsOld(d)'
    BY <2>2, <2>3, <2>5 DEF BeforeIsOld
  <2>7. ReadsAreBetween(d)'
    <3>1. \A g \in job'[d].changed : job'[d].read[g] = Unknown
      BY <2>2, <2>3, <2>4 DEF Nothing
    <3>2. job'[d].phase = "reading" => job'[d].todo = {}
      BY <2>2
    <3>. QED BY <2>2, <2>5, <3>1, <3>2 DEF ReadsAreBetween
  <2>. QED BY <1>d, <2>1, <2>2, <2>6, <2>7
<1>6. ASSUME NEW d \in Drains, NEW f \in Files, BuildReads(d, f) PROVE ReadsAreSound'
  <2>1. disk' = disk /\ job[d].phase = "reading"
    BY <1>6 DEF BuildReads
  <2>2. /\ job'[d].read = [job[d].read EXCEPT ![f] = disk[f]]
        /\ job'[d].changed = job[d].changed /\ job'[d].before = job[d].before
        /\ job'[d].phase = "reading"
        /\ \A c \in Drains \ {d} : job'[c] = job[c]
    BY <1>0, <1>6, <2>1 DEF BuildReads, Job
  <2>3. job[d].read \in [Files -> MaybeContents]
    BY <1>0 DEF Job, MaybeVersions
  <2>4. ReadsAreBetween(d)'
    BY <1>i, <1>j, <2>1, <2>2, <2>3 DEF ReadsAreBetween
  <2>5. BeforeIsOld(d)'
    BY <2>2 DEF BeforeIsOld
  <2>. QED BY <1>d, <2>1, <2>2, <2>4, <2>5
<1>7. ASSUME NEW d \in Drains, BuildSucceeds(d) \/ \E f \in Files : StatAfter(d, f)
      PROVE  ReadsAreSound'
  <2>1. /\ disk' = disk /\ job[d].phase \in {"reading", "publishing"}
        /\ job'[d].read = job[d].read /\ job'[d].before = job[d].before
        /\ job'[d].changed = job[d].changed /\ job'[d].phase = "publishing"
        /\ \A c \in Drains \ {d} : job'[c] = job[c]
    <3>1. CASE BuildSucceeds(d)
      BY <1>0, <3>1 DEF BuildSucceeds, Job
    <3>2. ASSUME NEW f \in Files, StatAfter(d, f)
          PROVE  /\ disk' = disk /\ job[d].phase \in {"reading", "publishing"}
                 /\ job'[d].read = job[d].read /\ job'[d].before = job[d].before
                 /\ job'[d].changed = job[d].changed /\ job'[d].phase = "publishing"
                 /\ \A c \in Drains \ {d} : job'[c] = job[c]
      BY <1>0, <3>2 DEF StatAfter, Job
    <3>. QED BY <1>7, <3>1, <3>2
  <2>2. BeforeIsOld(d)' /\ ReadsAreBetween(d)'
    BY <1>j, <2>1 DEF BeforeIsOld, ReadsAreBetween
  <2>. QED BY <1>d, <2>1, <2>2
<1>8. ASSUME NEW d \in Drains, BuildFails(d) \/ BuildEnds(d) PROVE ReadsAreSound'
  <2>1. disk' = disk /\ job' = [job EXCEPT ![d] = Idle]
    BY <1>8 DEF BuildFails, BuildEnds
  <2>2. job'[d].phase = "idle" /\ \A c \in Drains \ {d} : job'[c] = job[c]
    BY <1>0, <2>1 DEF Idle
  <2>. QED BY <1>d, <2>1, <2>2 DEF BeforeIsOld, ReadsAreBetween
<1>9. ASSUME NEW p \in Pages, PageLoads(p) \/ PageListens(p) PROVE ReadsAreSound'
  BY <1>e, <1>9 DEF PageLoads, PageListens
<1>10. CASE CloseSession
  BY <1>e, <1>10 DEF CloseSession
<1>11. CASE UNCHANGED vars
  BY <1>e, <1>11 DEF vars
<1>. QED BY <1>1, <1>2, <1>3, <1>4, <1>5, <1>6, <1>7, <1>8, <1>9, <1>10, <1>11 DEF Next

\* A published rebuild ends in one step only.
LEMMA EndsByEnding ==
  ASSUME TypeOK, NEW d \in Drains, [Next]_vars,
         job[d].phase = "publishing", job'[d].phase = "idle"
  PROVE  BuildEnds(d)
<1>. USE DEF serverVars
<1>0. job \in [Drains -> Job]
  BY JobIsTyped
<1>1. ASSUME job'[d] = job[d] PROVE FALSE
  BY <1>1
<1>2. ASSUME NEW c \in Drains, DrainStarts(c) PROVE FALSE
  BY <1>0, <1>1, <1>2 DEF DrainStarts
<1>3. ASSUME NEW c \in Drains, NEW f \in Files,
             \/ DrainChecks(c, f) \/ StatBefore(c, f) \/ BuildReads(c, f)
      PROVE  FALSE
  <2>1. job[c].phase # "publishing" /\ \A b \in Drains \ {c} : job'[b] = job[b]
    BY <1>0, <1>3 DEF DrainChecks, Decide, StatBefore, BuildReads
  <2>. QED BY <1>1, <2>1
<1>4. ASSUME NEW c \in Drains, NEW f \in Files, StatAfter(c, f) PROVE FALSE
  <2>1. \A b \in Drains : job'[b].phase = job[b].phase
    BY <1>0, <1>4 DEF StatAfter, Job
  <2>. QED BY <2>1
<1>5. ASSUME NEW c \in Drains, BuildFails(c) \/ BuildSucceeds(c) PROVE FALSE
  <2>1. job[c].phase # "publishing" /\ \A b \in Drains \ {c} : job'[b] = job[b]
    BY <1>0, <1>5 DEF BuildFails, BuildSucceeds
  <2>. QED BY <1>1, <2>1
<1>6. ASSUME NEW c \in Drains, BuildEnds(c) PROVE c = d
  <2>1. \A b \in Drains \ {c} : job'[b] = job[b]
    BY <1>0, <1>6 DEF BuildEnds
  <2>. QED BY <1>1, <2>1
<1>7. ASSUME NEW f \in Files, \/ Write(f) \/ WatchEvent(f) \/ WatcherFails(f) \/ PollNotices(f)
      PROVE  FALSE
  BY <1>1, <1>7 DEF Write, WatchEvent, WatcherFails, PollNotices
<1>8. ASSUME NEW p \in Pages, PageLoads(p) \/ PageListens(p) PROVE FALSE
  BY <1>1, <1>8 DEF PageLoads, PageListens
<1>9. ~CloseSession /\ ~UNCHANGED vars
  BY <1>1 DEF CloseSession, vars
<1>. QED BY <1>2, <1>3, <1>4, <1>5, <1>6, <1>7, <1>8, <1>9 DEF Next

\* What started a rebuild and was written again during it, at whatever moment, is in
\* the bundle as it is or will be rebuilt: for every set of files, number of writes and
\* number of drains that overlap, failures and closes included.
THEOREM RewritesAreRebuilt == Spec => RewritesAreNoticed
<1>1. ServerAssumption
  BY ServerAssumption
<1>2. ASSUME TypeOK, ReadsAreSound, [Next]_vars, NEW d \in Drains, NEW f \in job[d].changed,
             job[d].phase = "publishing", job'[d].phase = "idle",
             job[d].read[f] \notin {Unknown, disk[f]}
      PROVE  WillRebuild(f)'
  <2>1. /\ disk' = disk /\ watched' = job[d].stats
        /\ pending' = pending \cup ChangedMeanwhile(d)
        /\ forced' = forced \cup ChangedMeanwhile(d)
    BY <1>2, EndsByEnding DEF BuildEnds
  <2>2. f \in Files /\ disk[f] \in Nat /\ job[d].before[f] \in Int /\ job[d].read[f] \in Int
    <3>1. f \in Files
      BY <1>2, JobIsTyped DEF Job
    <3>. QED BY <1>1, <1>2, <3>1, ContentsAreInts
  <2>3. /\ job[d].before[f] # Unknown
        /\ job[d].before[f] <= job[d].read[f] /\ job[d].read[f] <= disk[f]
    BY <1>2 DEF ReadsAreSound, ReadsAreBetween
  <2>4. job[d].before[f] # disk[f]
    BY <1>2, <2>2, <2>3
  <2>5. CASE job[d].stats[f] # job[d].before[f]
    BY <1>2, <2>1, <2>5 DEF ChangedMeanwhile, WillRebuild
  <2>6. CASE job[d].stats[f] = job[d].before[f]
    BY <2>1, <2>3, <2>4, <2>6 DEF WillRebuild, Noticeable
  <2>. QED BY <2>5, <2>6
<1>3. TypeOK /\ ReadsAreSound /\ [Next]_vars =>
        [\A d \in Drains : \A f \in job[d].changed :
           job[d].phase = "publishing" /\ job'[d].phase = "idle" =>
             job[d].read[f] \in {Unknown, disk[f]} \/ WillRebuild(f)']_vars
  BY <1>2
<1>4. Init => ReadsAreSound
  BY <1>1, ReadsInit
<1>5. TypeOK /\ ReadsAreSound /\ [Next]_vars => ReadsAreSound'
  BY <1>1, ReadsNext
<1>6. Spec => []TypeOK
  BY TypeCorrect
<1>. QED BY <1>3, <1>4, <1>5, <1>6, PTL DEF Spec, RewritesAreNoticed

=============================================================================
