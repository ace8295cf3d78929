----------------------------- MODULE ProjectIndex -----------------------------
(***************************************************************************)
(* ProjectIndex, compiler/analysis/projectIndex.ts, as the language server *)
(* uses it (compiler/lsp/server.ts): the parsed and indexed files of the   *)
(* workspace.                                                              *)
(*                                                                         *)
(* A file that is open in the editor is served from an override, built     *)
(* from the document; any other from a disk session, read once and kept    *)
(* until the file watcher says it changed.  Both are built asynchronously: *)
(* a map from file to pending work decides which of several builds in      *)
(* flight may publish its result.                                          *)
(*                                                                         *)
(* What a session says of its file is abstracted to the text it was built  *)
(* from: a member of Texts for a document, the number of writes for the    *)
(* disk.                                                                   *)
(***************************************************************************)
EXTENDS Integers

CONSTANTS
  Files, Texts,
  MaxWrites,    \* bound: writes of each file
  Absent,       \* for each file, the versions that are a missing file
  UpsertIds,    \* bound: builds of overrides in flight
  LoadIds,      \* bound: loads of disk sessions in flight
  None          \* no text, no session or no work

Versions == 0..MaxWrites
Unread == -1

ASSUME IndexAssumption ==
  /\ MaxWrites \in Nat
  /\ Absent \in [Files -> SUBSET Versions]
  /\ UpsertIds \subseteq Nat
  /\ LoadIds \subseteq Nat
  /\ None \notin Files \cup Texts \cup Versions \cup UpsertIds \cup LoadIds

VARIABLES
  doc,          \* the text in the editor, None for a file that is not open
  disk,         \* the version on disk
  noticed,      \* the version on disk when the file was last invalidated
  override,     \* openOverrides: the text each was built from
  pendingOpen,  \* pendingOpenOverrides
  upserts,      \* the builds of overrides in flight
  undone,       \* files edited back to their override while another was pending
  cached,       \* diskSessions: the version each session or null stands for
  pendingDisk,  \* pendingDiskSessions
  loads         \* the loads of disk sessions in flight

openVars == <<doc, override, pendingOpen, upserts, undone>>
diskVars == <<cached, pendingDisk, loads>>
vars == <<openVars, disk, noticed, diskVars>>

NoUpsert == [file |-> None, text |-> None]
NoLoad   == [file |-> None, phase |-> "none", version |-> Unread, since |-> 0]

Init ==
  /\ doc = [f \in Files |-> None]
  /\ disk = [f \in Files |-> 0]
  /\ noticed = [f \in Files |-> 0]
  /\ override = [f \in Files |-> None]
  /\ pendingOpen = [f \in Files |-> None]
  /\ upserts = [u \in UpsertIds |-> NoUpsert]
  /\ undone = {}
  /\ cached = [f \in Files |-> None]
  /\ pendingDisk = [f \in Files |-> None]
  /\ loads = [l \in LoadIds |-> NoLoad]

-----------------------------------------------------------------------------
(* Open documents.                                                           *)

\* Bug: any build in flight is joined, whatever its text.
IsPendingBug(f, t) == pendingOpen[f] # None

IsPending(f, t) == pendingOpen[f] # None /\ upserts[pendingOpen[f]].text = t

\* The override is the document already: what is pending stays so.
KeepOverride(f, t) ==
  /\ override[f] = t
  /\ undone' = IF pendingOpen[f] = None THEN undone \ {f} ELSE undone \cup {f}
  /\ UNCHANGED <<override, pendingOpen, upserts>>

JoinUpsert(f, t) ==
  /\ override[f] # t
  /\ IsPending(f, t)
  /\ undone' = undone \ {f}
  /\ UNCHANGED <<override, pendingOpen, upserts>>

StartUpsert(f, t) ==
  /\ override[f] # t
  /\ ~IsPending(f, t)
  /\ \E u \in UpsertIds :
       /\ upserts[u] = NoUpsert
       /\ \A v \in UpsertIds : upserts[v] = NoUpsert => u <= v
       /\ upserts' = [upserts EXCEPT ![u] = [file |-> f, text |-> t]]
       /\ pendingOpen' = [pendingOpen EXCEPT ![f] = u]
  /\ undone' = undone \ {f}
  /\ UNCHANGED override

\* A document is opened or edited; every other variable of the index stays.
UpsertOpenDocument(f, t) ==
  /\ doc' = [doc EXCEPT ![f] = t]
  /\ KeepOverride(f, t) \/ JoinUpsert(f, t) \/ StartUpsert(f, t)
  /\ UNCHANGED <<disk, noticed, diskVars>>

Publishes(u) == pendingOpen[upserts[u].file] = u

\* The file is indexed: its imports are resolved.
FinishUpsert(u) ==
  /\ upserts[u] # NoUpsert
  /\ upserts' = [upserts EXCEPT ![u] = NoUpsert]
  /\ LET f == upserts[u].file IN
       IF Publishes(u)
       THEN /\ override' = [override EXCEPT ![f] = upserts[u].text]
            /\ pendingOpen' = [pendingOpen EXCEPT ![f] = None]
       ELSE UNCHANGED <<override, pendingOpen>>
  /\ UNCHANGED <<doc, undone, disk, noticed, diskVars>>

-----------------------------------------------------------------------------
(* Files on disk.                                                            *)

\* Bug: the load in flight is kept for later requests.
InvalidateFileBug(f) ==
  /\ cached' = [cached EXCEPT ![f] = None]
  /\ UNCHANGED pendingDisk

\* Bug: only the load in flight is dropped.
InvalidateFileBug2(f) ==
  /\ pendingDisk' = [pendingDisk EXCEPT ![f] = None]
  /\ UNCHANGED cached

InvalidateFile(f) ==
  /\ cached' = [cached EXCEPT ![f] = None]
  /\ pendingDisk' = [pendingDisk EXCEPT ![f] = None]

\* Bug: the build in flight is not forgotten.
ClearOpenDocumentBug(f) ==
  /\ override' = [override EXCEPT ![f] = None]
  /\ UNCHANGED pendingOpen

ClearOpenDocument(f) ==
  /\ override' = [override EXCEPT ![f] = None]
  /\ pendingOpen' = [pendingOpen EXCEPT ![f] = None]

\* The document is closed.
CloseDocument(f) ==
  /\ doc[f] # None
  /\ doc' = [doc EXCEPT ![f] = None]
  /\ ClearOpenDocument(f)
  /\ InvalidateFile(f)
  /\ undone' = undone \ {f}
  /\ noticed' = [noticed EXCEPT ![f] = disk[f]]
  /\ UNCHANGED <<disk, upserts, loads>>

\* The file is written, created or deleted by anyone.
WriteFile(f) ==
  /\ disk[f] < MaxWrites
  /\ disk' = [disk EXCEPT ![f] = @ + 1]
  /\ UNCHANGED <<openVars, noticed, diskVars>>

\* The watcher reports it, possibly several writes at once.
WatchedFileChanged(f) ==
  /\ noticed[f] < disk[f]
  /\ noticed' = [noticed EXCEPT ![f] = disk[f]]
  /\ InvalidateFile(f)
  /\ UNCHANGED <<openVars, disk, loads>>

\* A session is asked for that neither an override nor the cache answers.
IsMissed(f) == override[f] = None /\ cached[f] = None

JoinLoad(f) ==
  /\ IsMissed(f)
  /\ pendingDisk[f] # None
  /\ loads' = [loads EXCEPT ![pendingDisk[f]].since = noticed[f]]
  /\ UNCHANGED <<openVars, disk, noticed, cached, pendingDisk>>

StartLoad(f) ==
  /\ IsMissed(f)
  /\ pendingDisk[f] = None
  /\ \E l \in LoadIds :
       /\ loads[l] = NoLoad
       /\ \A k \in LoadIds : loads[k] = NoLoad => l <= k
       /\ loads' = [loads EXCEPT ![l] = [file |-> f, phase |-> "stat",
                                         version |-> Unread, since |-> noticed[f]]]
       /\ pendingDisk' = [pendingDisk EXCEPT ![f] = l]
  /\ UNCHANGED <<openVars, disk, noticed, cached>>

\* Bug: a file found missing is not told from one not yet read.
StatBug(l) ==
  /\ loads[l].phase = "stat"
  /\ LET f == loads[l].file IN
       loads' = [loads EXCEPT ![l].phase =
         IF disk[f] \in Absent[f] THEN "settle" ELSE "read"]
  /\ UNCHANGED <<openVars, disk, noticed, cached, pendingDisk>>

\* A missing file ends the load, at its stat or at its read, with null.
Stat(l) ==
  /\ loads[l].phase = "stat"
  /\ LET f == loads[l].file IN
       loads' = [loads EXCEPT ![l] =
         IF disk[f] \in Absent[f]
         THEN [@ EXCEPT !.phase = "settle", !.version = disk[f]]
         ELSE [@ EXCEPT !.phase = "read"]]
  /\ UNCHANGED <<openVars, disk, noticed, cached, pendingDisk>>

Read(l) ==
  /\ loads[l].phase = "read"
  /\ loads' = [loads EXCEPT ![l] =
       [@ EXCEPT !.phase = "settle", !.version = disk[loads[l].file]]]
  /\ UNCHANGED <<openVars, disk, noticed, cached, pendingDisk>>

\* Bug: a load fills the cache although the file was invalidated since.
IsCurrentBug(l) == TRUE

IsCurrent(l) == pendingDisk[loads[l].file] = l

\* The text is compiled and indexed, and those who asked are answered.
FinishLoad(l) ==
  /\ loads[l].phase = "settle"
  /\ loads' = [loads EXCEPT ![l] = NoLoad]
  /\ LET f == loads[l].file IN
       IF IsCurrent(l)
       THEN /\ cached' = [cached EXCEPT ![f] = loads[l].version]
            /\ pendingDisk' = [pendingDisk EXCEPT ![f] = None]
       ELSE UNCHANGED <<cached, pendingDisk>>
  /\ UNCHANGED <<openVars, disk, noticed>>

Next ==
  \/ \E f \in Files : \/ \E t \in Texts : UpsertOpenDocument(f, t)
                      \/ CloseDocument(f)
                      \/ WriteFile(f)
                      \/ WatchedFileChanged(f)
                      \/ JoinLoad(f)
                      \/ StartLoad(f)
  \/ \E u \in UpsertIds : FinishUpsert(u)
  \/ \E l \in LoadIds : Stat(l) \/ Read(l) \/ FinishLoad(l)

Spec == Init /\ [][Next]_vars

\* Promises settle, and the watcher reports what it sees.
FairSpec ==
  /\ Spec
  /\ \A u \in UpsertIds : WF_vars(FinishUpsert(u))
  /\ \A l \in LoadIds : WF_vars(Stat(l) \/ Read(l) \/ FinishLoad(l))
  /\ \A f \in Files : WF_vars(WatchedFileChanged(f))

-----------------------------------------------------------------------------
Upserts == {NoUpsert} \cup [file : Files, text : Texts]
Loads ==
  {NoLoad} \cup [file : Files, phase : {"stat", "read"}, version : {Unread}, since : Versions]
           \cup [file : Files, phase : {"settle"}, version : Versions, since : Versions]

\* Every variable keeps to its set; a load has a version once it has read.
TypeOK ==
  /\ doc \in [Files -> Texts \cup {None}]
  /\ disk \in [Files -> Versions]
  /\ noticed \in [Files -> Versions]
  /\ override \in [Files -> Texts \cup {None}]
  /\ pendingOpen \in [Files -> UpsertIds \cup {None}]
  /\ upserts \in [UpsertIds -> Upserts]
  /\ undone \subseteq Files
  /\ cached \in [Files -> Versions \cup {None}]
  /\ pendingDisk \in [Files -> LoadIds \cup {None}]
  /\ loads \in [LoadIds -> Loads]

\* An edit back to the text of the override aside, an open document is served
\* as it is, or the build that is pending is of its text; a closed one leaves
\* no override behind, and no build that could still publish one.
ServesTheDocument ==
  \A f \in Files \ undone :
    IF doc[f] = None THEN override[f] = None /\ pendingOpen[f] = None
    ELSE IF pendingOpen[f] = None THEN override[f] = doc[f]
    ELSE IsPending(f, doc[f])

\* With nothing pending, the override of an open document is its text.
SettledOverrideIsTheDocument ==
  \A f \in Files : doc[f] # None /\ pendingOpen[f] = None => override[f] = doc[f]

\* What the cache holds was read after the last invalidation of the file.
CachedIsFresh == \A f \in Files : cached[f] # None => cached[f] >= noticed[f]

\* Whoever asks for a file gets no text from before the last invalidation at
\* the time of asking, even if the load that answers was already under way.
AnswersAreFresh ==
  \A l \in LoadIds : loads[l].phase = "settle" => loads[l].version >= loads[l].since

\* Once a file is written for the last time, the cache comes to hold that
\* version or nothing, for good.
CacheCatchesUp ==
  \A f \in Files : disk[f] = MaxWrites ~> [](cached[f] \in {None, MaxWrites})

\* The document that stays open with a text comes to be served with it.
EditsArrive ==
  \A f \in Files, t \in Texts :
    doc[f] = t ~> (override[f] = t \/ doc[f] # t \/ f \in undone)
=============================================================================
