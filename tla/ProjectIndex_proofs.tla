------------------------- MODULE ProjectIndex_proofs -------------------------
(***************************************************************************)
(* For any number of files, texts, writes and builds in flight, the index  *)
(* serves open documents as they are and keeps, and answers with, nothing  *)
(* read before an invalidation.                                            *)
(*                                                                         *)
(* The inductive invariant adds to the properties what ties a pending      *)
(* entry to the work it stands for: the work is in flight, it is for that  *)
(* file, and what it has read is as recent as the last invalidation.       *)
(***************************************************************************)
EXTENDS ProjectIndex, TLAPS

PendingUpserts ==
  \A f \in Files : pendingOpen[f] # None => upserts[pendingOpen[f]].file = f

PendingLoads ==
  \A f \in Files : pendingDisk[f] # None =>
    /\ loads[pendingDisk[f]].file = f
    /\ loads[pendingDisk[f]].phase = "settle" => noticed[f] <= loads[pendingDisk[f]].version

NoticedIsPast == \A f \in Files : noticed[f] <= disk[f]

AskedInThePast ==
  \A l \in LoadIds : loads[l] # NoLoad => loads[l].since <= noticed[loads[l].file]

IInv ==
  /\ TypeOK
  /\ PendingUpserts
  /\ PendingLoads
  /\ NoticedIsPast
  /\ AskedInThePast
  /\ ServesTheDocument
  /\ CachedIsFresh
  /\ AnswersAreFresh

\* What belongs to a file is not idle.
LEMMA IdleHasNoFile ==
  /\ NoLoad.file \notin Files /\ NoLoad.phase = "none"
  /\ NoUpsert.file \notin Files
  BY IndexAssumption DEF NoLoad, NoUpsert

LEMMA InitIInv == Init => IInv
  BY IndexAssumption
  DEF Init, IInv, TypeOK, PendingUpserts, PendingLoads, NoticedIsPast, AskedInThePast,
      ServesTheDocument, CachedIsFresh, AnswersAreFresh, Versions, Loads, Upserts,
      NoLoad, NoUpsert, Unread

-----------------------------------------------------------------------------
(* Steps of the open documents leave the disk side alone, and the other way  *)
(* round.                                                                    *)

OpenSide ==
  /\ doc \in [Files -> Texts \cup {None}]
  /\ override \in [Files -> Texts \cup {None}]
  /\ pendingOpen \in [Files -> UpsertIds \cup {None}]
  /\ upserts \in [UpsertIds -> Upserts]
  /\ undone \subseteq Files
  /\ PendingUpserts
  /\ ServesTheDocument

DiskSide ==
  /\ disk \in [Files -> Versions]
  /\ noticed \in [Files -> Versions]
  /\ cached \in [Files -> Versions \cup {None}]
  /\ pendingDisk \in [Files -> LoadIds \cup {None}]
  /\ loads \in [LoadIds -> Loads]
  /\ PendingLoads
  /\ NoticedIsPast
  /\ AskedInThePast
  /\ CachedIsFresh
  /\ AnswersAreFresh

LEMMA OpenSideStays ==
  ASSUME OpenSide, UNCHANGED openVars
  PROVE  OpenSide'
  BY DEF OpenSide, openVars, PendingUpserts, ServesTheDocument, IsPending

LEMMA DiskSideStays ==
  ASSUME DiskSide, UNCHANGED <<disk, noticed, diskVars>>
  PROVE  DiskSide'
  BY DEF DiskSide, diskVars, PendingLoads, NoticedIsPast, AskedInThePast, CachedIsFresh,
         AnswersAreFresh

-----------------------------------------------------------------------------
LEMMA UpsertOpenDocumentStep ==
  ASSUME OpenSide, NEW f \in Files, NEW t \in Texts, UpsertOpenDocument(f, t)
  PROVE  OpenSide'
<1>1. CASE KeepOverride(f, t)
  BY <1>1, IndexAssumption
  DEF OpenSide, UpsertOpenDocument, KeepOverride, PendingUpserts, ServesTheDocument, IsPending
<1>2. CASE JoinUpsert(f, t)
  BY <1>2, IndexAssumption
  DEF OpenSide, UpsertOpenDocument, JoinUpsert, PendingUpserts, ServesTheDocument, IsPending
<1>3. CASE StartUpsert(f, t)
  <2>1. PICK u \in UpsertIds :
          /\ upserts[u] = NoUpsert
          /\ upserts' = [upserts EXCEPT ![u] = [file |-> f, text |-> t]]
          /\ pendingOpen' = [pendingOpen EXCEPT ![f] = u]
    BY <1>3 DEF StartUpsert
  <2>2. u # None
    BY IndexAssumption
  <2>3. \A g \in Files : pendingOpen[g] # u
    BY <2>1, <2>2, IdleHasNoFile DEF OpenSide, PendingUpserts
  <2>4. /\ upserts' \in [UpsertIds -> Upserts]
        /\ pendingOpen' \in [Files -> UpsertIds \cup {None}]
    BY <2>1 DEF OpenSide, Upserts
  <2>5. /\ doc' = [doc EXCEPT ![f] = t]
        /\ undone' = undone \ {f}
        /\ override' = override
    BY <1>3 DEF UpsertOpenDocument, StartUpsert
  <2>6. PendingUpserts'
    BY <2>1, <2>3 DEF OpenSide, PendingUpserts
  <2>7. ServesTheDocument'
    <3> SUFFICES ASSUME NEW g \in Files, g \notin undone'
                 PROVE  IF doc'[g] = None THEN override'[g] = None /\ pendingOpen'[g] = None
                        ELSE IF pendingOpen'[g] = None THEN override'[g] = doc'[g]
                        ELSE IsPending(g, doc[g])'
      BY DEF ServesTheDocument
    <3>1. CASE g = f
      BY <3>1, <2>1, <2>2, <2>5, IndexAssumption DEF OpenSide, IsPending
    <3>2. CASE g # f
      BY <3>2, <2>1, <2>3, <2>5 DEF OpenSide, ServesTheDocument, IsPending
    <3> QED BY <3>1, <3>2
  <2> QED BY <2>4, <2>5, <2>6, <2>7 DEF OpenSide
<1> QED BY <1>1, <1>2, <1>3 DEF UpsertOpenDocument

LEMMA FinishUpsertStep ==
  ASSUME OpenSide, NEW u \in UpsertIds, FinishUpsert(u)
  PROVE  OpenSide'
<1> DEFINE f == upserts[u].file
<1>1. upserts[u] \in [file : Files, text : Texts]
  BY DEF OpenSide, FinishUpsert, Upserts
<1>2. upserts' \in [UpsertIds -> Upserts]
  BY DEF OpenSide, FinishUpsert, Upserts
<1>3. /\ upserts' = [upserts EXCEPT ![u] = NoUpsert]
      /\ doc' = doc /\ undone' = undone
  BY DEF FinishUpsert
<1>4. CASE pendingOpen[f] = u
  <2>1. /\ override' = [override EXCEPT ![f] = upserts[u].text]
        /\ pendingOpen' = [pendingOpen EXCEPT ![f] = None]
    BY <1>4 DEF FinishUpsert, Publishes
  <2>2. \A g \in Files : g # f => pendingOpen[g] # u
    BY IndexAssumption DEF OpenSide, PendingUpserts
  <2>3. /\ override' \in [Files -> Texts \cup {None}]
        /\ pendingOpen' \in [Files -> UpsertIds \cup {None}]
    BY <1>1, <2>1 DEF OpenSide
  <2>4. PendingUpserts'
    BY <1>3, <2>1, <2>2 DEF OpenSide, PendingUpserts
  <2>5. ServesTheDocument'
    <3>1. u # None
      BY IndexAssumption
    <3>2. f \notin undone => doc[f] # None /\ upserts[u].text = doc[f]
      BY <1>1, <1>4, <3>1 DEF OpenSide, ServesTheDocument, IsPending
    <3>3. \A g \in Files \ undone : g # f =>
            IF doc[g] = None THEN override'[g] = None /\ pendingOpen'[g] = None
            ELSE IF pendingOpen'[g] = None THEN override'[g] = doc[g]
            ELSE IsPending(g, doc[g])'
      BY <1>3, <2>1, <2>2 DEF OpenSide, ServesTheDocument, IsPending
    <3> QED BY <1>1, <1>3, <2>1, <3>2, <3>3 DEF OpenSide, ServesTheDocument
  <2> QED BY <1>2, <1>3, <2>3, <2>4, <2>5 DEF OpenSide
<1>5. CASE pendingOpen[f] # u
  <2>1. override' = override /\ pendingOpen' = pendingOpen
    BY <1>5 DEF FinishUpsert, Publishes
  <2>2. \A g \in Files : pendingOpen[g] # u
    BY <1>5, IndexAssumption DEF OpenSide, PendingUpserts
  <2>3. PendingUpserts'
    BY <1>3, <2>1, <2>2 DEF OpenSide, PendingUpserts
  <2>4. ServesTheDocument'
    BY <1>3, <2>1, <2>2 DEF OpenSide, ServesTheDocument, IsPending
  <2> QED BY <1>2, <1>3, <2>1, <2>3, <2>4 DEF OpenSide
<1> QED BY <1>4, <1>5

\* An invalidation keeps no session and no load of the file.
LEMMA Invalidated ==
  ASSUME DiskSide, NEW f \in Files, InvalidateFile(f),
         noticed' = [noticed EXCEPT ![f] = disk[f]], UNCHANGED <<disk, loads>>
  PROVE  DiskSide'
<1>1. /\ cached' = [cached EXCEPT ![f] = None]
      /\ pendingDisk' = [pendingDisk EXCEPT ![f] = None]
  BY DEF InvalidateFile
<1>2. PendingLoads'
  BY <1>1 DEF DiskSide, PendingLoads
<1>3. NoticedIsPast' /\ CachedIsFresh' /\ AnswersAreFresh'
  BY <1>1 DEF DiskSide, NoticedIsPast, CachedIsFresh, AnswersAreFresh, Versions
<1>4. AskedInThePast'
  <2> SUFFICES ASSUME NEW l \in LoadIds, loads[l] # NoLoad
               PROVE  loads[l].since <= noticed'[loads[l].file]
    BY DEF AskedInThePast
  <2>1. loads[l].file \in Files /\ loads[l].since \in Versions
    BY DEF DiskSide, Loads
  <2>2. loads[l].since <= noticed[loads[l].file]
    BY DEF DiskSide, AskedInThePast
  <2>3. /\ noticed[loads[l].file] \in Versions /\ noticed'[loads[l].file] \in Versions
        /\ noticed[loads[l].file] <= noticed'[loads[l].file]
    BY <2>1 DEF DiskSide, NoticedIsPast, Versions
  <2> QED BY <2>1, <2>2, <2>3 DEF Versions
<1> QED BY <1>1, <1>2, <1>3, <1>4 DEF DiskSide

LEMMA CloseDocumentStep ==
  ASSUME OpenSide, DiskSide, NEW f \in Files, CloseDocument(f)
  PROVE  OpenSide' /\ DiskSide'
<1>1. OpenSide'
  BY DEF OpenSide, CloseDocument, ClearOpenDocument, PendingUpserts, ServesTheDocument, IsPending
<1> QED BY <1>1, Invalidated DEF CloseDocument

LEMMA WriteFileStep ==
  ASSUME DiskSide, NEW f \in Files, WriteFile(f)
  PROVE  DiskSide'
<1>1. /\ disk' = [disk EXCEPT ![f] = @ + 1]
      /\ disk' \in [Files -> Versions]
  BY IndexAssumption DEF DiskSide, WriteFile, Versions
<1>2. NoticedIsPast'
  BY <1>1 DEF DiskSide, WriteFile, NoticedIsPast, Versions
<1> QED BY <1>1, <1>2
        DEF DiskSide, WriteFile, diskVars, PendingLoads, AskedInThePast, CachedIsFresh,
            AnswersAreFresh

\* A step that only changes one load, of the same file, asked for no later than
\* the last invalidation and read no earlier than it or not at all.
LEMMA LoadProceeds ==
  ASSUME DiskSide, NEW l \in LoadIds, loads[l] # NoLoad, NEW load \in Loads \ {NoLoad},
         loads' = [loads EXCEPT ![l] = load],
         load.file = loads[l].file,
         load.since <= noticed[load.file],
         load.phase = "settle" => load.since <= load.version,
         pendingDisk[load.file] = l /\ load.phase = "settle" => noticed[load.file] <= load.version,
         UNCHANGED <<disk, noticed, cached, pendingDisk>>
  PROVE  DiskSide'
<1>1. loads' \in [LoadIds -> Loads]
  BY DEF DiskSide
<1>2. PendingLoads'
  BY IndexAssumption DEF DiskSide, PendingLoads
<1>3. AskedInThePast' /\ AnswersAreFresh'
  BY DEF DiskSide, AskedInThePast, AnswersAreFresh, Loads, Versions
<1> QED BY <1>1, <1>2, <1>3 DEF DiskSide, NoticedIsPast, CachedIsFresh

LEMMA JoinLoadStep ==
  ASSUME DiskSide, NEW f \in Files, JoinLoad(f)
  PROVE  DiskSide'
<1> DEFINE l == pendingDisk[f]
           load == [loads[l] EXCEPT !.since = noticed[f]]
<1>1. l \in LoadIds /\ loads[l].file = f /\ loads[l] # NoLoad
  BY IdleHasNoFile DEF DiskSide, JoinLoad, PendingLoads
<1>2. load \in Loads \ {NoLoad} /\ load.file = f
  BY <1>1, IdleHasNoFile DEF DiskSide, Loads
<1>3. load.since = noticed[f] /\ load.phase = loads[l].phase /\ load.version = loads[l].version
  BY <1>1, <1>2 DEF DiskSide, Loads
<1>4. load.phase = "settle" => noticed[f] <= load.version
  BY <1>1, <1>3 DEF DiskSide, PendingLoads, JoinLoad
<1>5. loads' = [loads EXCEPT ![l] = load]
  BY <1>1 DEF DiskSide, JoinLoad
<1>6. noticed[f] \in Int
  BY DEF DiskSide, Versions
<1>7. load.since <= noticed[load.file] /\ (load.phase = "settle" => load.since <= load.version)
  BY <1>2, <1>3, <1>4, <1>6
<1>8. UNCHANGED <<disk, noticed, cached, pendingDisk>>
  BY DEF JoinLoad
<1> HIDE DEF l, load
<1> QED BY <1>1, <1>2, <1>4, <1>5, <1>7, <1>8, LoadProceeds

LEMMA StartLoadStep ==
  ASSUME DiskSide, NEW f \in Files, StartLoad(f)
  PROVE  DiskSide'
<1> DEFINE load == [file |-> f, phase |-> "stat", version |-> Unread, since |-> noticed[f]]
<1>1. PICK l \in LoadIds :
        /\ loads[l] = NoLoad
        /\ loads' = [loads EXCEPT ![l] = load]
        /\ pendingDisk' = [pendingDisk EXCEPT ![f] = l]
  BY DEF StartLoad
<1>2. UNCHANGED <<disk, noticed, cached>>
  BY DEF StartLoad
<1>3. load \in Loads /\ load.phase # "settle"
  BY DEF DiskSide, Loads
<1>4. /\ loads' \in [LoadIds -> Loads]
      /\ pendingDisk' \in [Files -> LoadIds \cup {None}]
  BY <1>1, <1>3 DEF DiskSide
<1>5. \A g \in Files : pendingDisk[g] # None => pendingDisk[g] # l
  BY <1>1, IdleHasNoFile DEF DiskSide, PendingLoads
<1>6. PendingLoads'
  BY <1>1, <1>2, <1>3, <1>5 DEF DiskSide, PendingLoads
<1>7. AskedInThePast' /\ AnswersAreFresh'
  BY <1>1, <1>2, <1>3 DEF DiskSide, AskedInThePast, AnswersAreFresh, Versions
<1> QED BY <1>2, <1>4, <1>6, <1>7 DEF DiskSide, NoticedIsPast, CachedIsFresh

\* A load that reads now reads a version no older than any invalidation.
LEMMA StatStep ==
  ASSUME DiskSide, NEW l \in LoadIds, Stat(l)
  PROVE  DiskSide'
<1> DEFINE f == loads[l].file
<1>1. /\ loads[l] # NoLoad /\ f \in Files /\ loads[l].since \in Versions
      /\ loads[l].phase = "stat" /\ loads[l].version = Unread
      /\ loads[l] \in [file : Files, phase : {"stat", "read"}, version : {Unread}, since : Versions]
  BY IdleHasNoFile DEF DiskSide, Stat, Loads
<1>2. /\ loads[l].since <= noticed[f] /\ noticed[f] <= disk[f]
      /\ noticed[f] \in Versions /\ disk[f] \in Versions
  BY <1>1 DEF DiskSide, AskedInThePast, NoticedIsPast
<1>3. CASE disk[f] \in Absent[f]
  <2> DEFINE load == [loads[l] EXCEPT !.phase = "settle", !.version = disk[f]]
  <2>1. loads' = [loads EXCEPT ![l] = load]
    BY <1>3 DEF Stat, DiskSide
  <2>2. /\ load \in Loads \ {NoLoad} /\ load.file = f /\ load.since = loads[l].since
        /\ load.version = disk[f]
    BY <1>1, <1>2, IdleHasNoFile DEF Loads
  <2>3. load.since <= load.version /\ noticed[f] <= load.version
    BY <1>1, <1>2, <2>2 DEF Versions
  <2> QED BY <1>1, <1>2, <2>1, <2>2, <2>3, LoadProceeds DEF Stat
<1>4. CASE disk[f] \notin Absent[f]
  <2> DEFINE load == [loads[l] EXCEPT !.phase = "read"]
  <2>1. loads' = [loads EXCEPT ![l] = load]
    BY <1>4 DEF Stat, DiskSide
  <2>2. /\ load \in Loads \ {NoLoad} /\ load.file = f /\ load.since = loads[l].since
        /\ load.phase # "settle"
    BY <1>1, IdleHasNoFile DEF Loads
  <2> QED BY <1>1, <1>2, <2>1, <2>2, LoadProceeds DEF Stat
<1> QED BY <1>3, <1>4

LEMMA ReadStep ==
  ASSUME DiskSide, NEW l \in LoadIds, Read(l)
  PROVE  DiskSide'
<1> DEFINE f == loads[l].file
           load == [loads[l] EXCEPT !.phase = "settle", !.version = disk[f]]
<1>1. /\ loads[l] # NoLoad /\ f \in Files /\ loads[l].since \in Versions
      /\ loads[l] \in [file : Files, phase : {"stat", "read"}, version : {Unread}, since : Versions]
  BY IdleHasNoFile DEF DiskSide, Read, Loads
<1>2. /\ loads[l].since <= noticed[f] /\ noticed[f] <= disk[f]
      /\ noticed[f] \in Versions /\ disk[f] \in Versions
  BY <1>1 DEF DiskSide, AskedInThePast, NoticedIsPast
<1>3. loads' = [loads EXCEPT ![l] = load]
  BY DEF Read, DiskSide
<1>4. /\ load \in Loads \ {NoLoad} /\ load.file = f /\ load.since = loads[l].since
      /\ load.version = disk[f]
  BY <1>1, <1>2, IdleHasNoFile DEF Loads
<1>5. load.since <= load.version /\ noticed[f] <= load.version
  BY <1>1, <1>2, <1>4 DEF Versions
<1> QED BY <1>1, <1>2, <1>3, <1>4, <1>5, LoadProceeds DEF Read

LEMMA FinishLoadStep ==
  ASSUME DiskSide, NEW l \in LoadIds, FinishLoad(l)
  PROVE  DiskSide'
<1> DEFINE f == loads[l].file
<1>1. /\ loads[l] # NoLoad /\ f \in Files
      /\ loads[l].phase = "settle" /\ loads[l].version \in Versions
  BY IdleHasNoFile DEF DiskSide, FinishLoad, Loads
<1>2. /\ loads' = [loads EXCEPT ![l] = NoLoad]
      /\ UNCHANGED <<disk, noticed>>
  BY DEF FinishLoad
<1>3. loads' \in [LoadIds -> Loads]
  BY <1>2 DEF DiskSide, Loads
<1>4. AskedInThePast' /\ AnswersAreFresh' /\ NoticedIsPast'
  BY <1>2, IdleHasNoFile DEF DiskSide, AskedInThePast, AnswersAreFresh, NoticedIsPast
<1>5. \A g \in Files : g # f => pendingDisk[g] # l
  BY IndexAssumption DEF DiskSide, PendingLoads
<1>6. CASE pendingDisk[f] = l
  <2>1. /\ cached' = [cached EXCEPT ![f] = loads[l].version]
        /\ pendingDisk' = [pendingDisk EXCEPT ![f] = None]
    BY <1>6 DEF FinishLoad, IsCurrent
  <2>2. noticed[f] <= loads[l].version
    BY <1>1, <1>6, IndexAssumption DEF DiskSide, PendingLoads
  <2>3. noticed[f] \in Int /\ loads[l].version \in Int
    BY <1>1 DEF DiskSide, Versions
  <2>4. CachedIsFresh'
    BY <1>1, <1>2, <2>1, <2>2, <2>3 DEF DiskSide, CachedIsFresh
  <2>5. PendingLoads'
    BY <1>2, <1>5, <2>1 DEF DiskSide, PendingLoads
  <2>6. /\ cached' \in [Files -> Versions \cup {None}]
        /\ pendingDisk' \in [Files -> LoadIds \cup {None}]
    BY <1>1, <2>1 DEF DiskSide
  <2> QED BY <1>2, <1>3, <1>4, <2>4, <2>5, <2>6 DEF DiskSide
<1>7. CASE pendingDisk[f] # l
  <2>1. UNCHANGED <<cached, pendingDisk>>
    BY <1>7 DEF FinishLoad, IsCurrent
  <2>2. PendingLoads'
    BY <1>2, <1>5, <1>7, <2>1 DEF DiskSide, PendingLoads
  <2> QED BY <1>2, <1>3, <1>4, <2>1, <2>2 DEF DiskSide, CachedIsFresh
<1> QED BY <1>6, <1>7

-----------------------------------------------------------------------------
LEMMA Step == IInv /\ [Next]_vars => IInv'
<1> SUFFICES ASSUME OpenSide, DiskSide, [Next]_vars
             PROVE  OpenSide' /\ DiskSide'
  BY DEF IInv, TypeOK, OpenSide, DiskSide
<1>1. ASSUME NEW f \in Files, NEW t \in Texts, UpsertOpenDocument(f, t)
      PROVE  OpenSide' /\ DiskSide'
  BY <1>1, UpsertOpenDocumentStep, DiskSideStays DEF UpsertOpenDocument
<1>2. ASSUME NEW f \in Files, CloseDocument(f)
      PROVE  OpenSide' /\ DiskSide'
  BY <1>2, CloseDocumentStep
<1>3. ASSUME NEW f \in Files, WriteFile(f)
      PROVE  OpenSide' /\ DiskSide'
  BY <1>3, WriteFileStep, OpenSideStays DEF WriteFile
<1>4. ASSUME NEW f \in Files, WatchedFileChanged(f)
      PROVE  OpenSide' /\ DiskSide'
  BY <1>4, Invalidated, OpenSideStays DEF WatchedFileChanged
<1>5. ASSUME NEW f \in Files, JoinLoad(f)
      PROVE  OpenSide' /\ DiskSide'
  BY <1>5, JoinLoadStep, OpenSideStays DEF JoinLoad
<1>6. ASSUME NEW f \in Files, StartLoad(f)
      PROVE  OpenSide' /\ DiskSide'
  BY <1>6, StartLoadStep, OpenSideStays DEF StartLoad
<1>7. ASSUME NEW u \in UpsertIds, FinishUpsert(u)
      PROVE  OpenSide' /\ DiskSide'
  BY <1>7, FinishUpsertStep, DiskSideStays DEF FinishUpsert
<1>8. ASSUME NEW l \in LoadIds, Stat(l)
      PROVE  OpenSide' /\ DiskSide'
  BY <1>8, StatStep, OpenSideStays DEF Stat
<1>9. ASSUME NEW l \in LoadIds, Read(l)
      PROVE  OpenSide' /\ DiskSide'
  BY <1>9, ReadStep, OpenSideStays DEF Read
<1>10. ASSUME NEW l \in LoadIds, FinishLoad(l)
       PROVE  OpenSide' /\ DiskSide'
  BY <1>10, FinishLoadStep, OpenSideStays DEF FinishLoad
<1>11. CASE UNCHANGED vars
  BY <1>11, OpenSideStays, DiskSideStays DEF vars
<1> QED
  BY <1>1, <1>2, <1>3, <1>4, <1>5, <1>6, <1>7, <1>8, <1>9, <1>10, <1>11 DEF Next

LEMMA Invariance == Spec => []IInv
  BY InitIInv, Step, PTL DEF Spec

\* Every variable keeps to its set: pending entries name work that exists.
THEOREM TypeCorrect == Spec => []TypeOK
<1>1. IInv => TypeOK
  BY DEF IInv
<1> QED BY <1>1, Invariance, PTL

\* An open document is served as it is, or the build of its text is pending,
\* unless it was edited back to its override during another build; a closed
\* one leaves nothing behind (upsertOpenDocument, clearOpenDocument).
THEOREM DocumentsAreServed == Spec => []ServesTheDocument
<1>1. IInv => ServesTheDocument
  BY DEF IInv
<1> QED BY <1>1, Invariance, PTL

\* No session read before an invalidation is kept after it (getDiskSession,
\* invalidateFile).
THEOREM CacheIsFresh == Spec => []CachedIsFresh
<1>1. IInv => CachedIsFresh
  BY DEF IInv
<1> QED BY <1>1, Invariance, PTL

\* No one who asks after an invalidation is answered from a load that read
\* before it, joined or not.
THEOREM AnswersAreRecent == Spec => []AnswersAreFresh
<1>1. IInv => AnswersAreFresh
  BY DEF IInv
<1> QED BY <1>1, Invariance, PTL
=============================================================================
