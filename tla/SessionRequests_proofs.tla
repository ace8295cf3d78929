------------------------ MODULE SessionRequests_proofs ------------------------
(***************************************************************************)
(* What a request of AnalysisSessionCache finds in flight: theorems about  *)
(* the pending entries.  They rest on the invariant of                     *)
(* AnalysisSessionCache_proofs.                                            *)
(***************************************************************************)
EXTENDS AnalysisSessionCache_proofs

\* A pending entry is a promise in flight for its uri, version and source.
PendingPromises ==
  \A u \in Uris : pending[u] # NoEntry =>
    LET t == pending[u].promise
    IN  /\ tasks[t] # NoEntry
        /\ tasks[t].uri = u
        /\ tasks[t].version = pending[u].version
        /\ tasks[t].text = pending[u].source

PendingInv == PendingPromises /\ LatestWorkIsShared

\* Starting a resolution files a promise of its own; the others go on.
LEMMA StartPending ==
  ASSUME IInv, PendingInv, NEW u \in Uris, NEW h \in 1..current[u],
         NEW t \in TaskIds, StartAsyncResolution(u, h, t)
  PROVE  PendingInv'
<1> DEFINE d == doc[u][h]
<1>1. d \in Document /\ h \in Handles
  BY ObjectExists
<1>2. PICK r \in TaskIds :
        tasks' = [tasks EXCEPT ![t] = [uri |-> u, handle |-> h, version |-> d.version,
                                       text |-> d.text, run |-> r]]
  BY DEF StartAsyncResolution, SharedRun, IInv, TypeOK, ExternalsEntry
<1>3. tasks'[t] \in Task /\ tasks'[t] # NoEntry
  BY <1>1, <1>2, EntryAssumption DEF IInv, TypeOK, Task, Document
<1>4. /\ tasks[t] = NoEntry
      /\ pending' = [pending EXCEPT ![u] = [version |-> d.version, source |-> d.text,
                                            promise |-> t]]
      /\ latest' = [latest EXCEPT ![u] = t]
  BY DEF StartAsyncResolution
<1>5. pending'[u] \in PendingEntry /\ pending'[u] # NoEntry
  BY <1>1, <1>4, EntryAssumption DEF IInv, TypeOK, PendingEntry, Document
<1>6. PendingPromises'
  BY <1>2, <1>3, <1>4, <1>5 DEF PendingInv, PendingPromises, IInv, TypeOK, PendingEntry
<1>7. LatestWorkIsShared'
  BY <1>4, <1>5 DEF PendingInv, LatestWorkIsShared, IInv, TypeOK
<1>. QED BY <1>6, <1>7 DEF PendingInv

\* A resolution that ends deletes the entry that is its own, and no other.
LEMMA ResumePending ==
  ASSUME IInv, PendingInv, NEW t \in TaskIds, Resume(t)
  PROVE  PendingInv'
<1> DEFINE u == tasks[t].uri
<1>1. /\ tasks[t] # NoEntry
      /\ u \in Uris
      /\ tasks' = [tasks EXCEPT ![t] = NoEntry]
      /\ latest' = IF latest[u] = t THEN [latest EXCEPT ![u] = NoEntry] ELSE latest
  BY DEF Resume, InFlight, IInv, TypeOK, Task
<1>2. \A w \in Uris : pending[w] # NoEntry /\ pending[w].promise = t =>
                        w = u /\ pending'[w] = NoEntry
  BY <1>1 DEF Resume, ForgetTask, PendingInv, PendingPromises, IInv, TypeOK
<1>3. \A w \in Uris : pending[w] # NoEntry /\ pending[w].promise # t =>
                        pending'[w] = pending[w]
  BY <1>1 DEF Resume, ForgetTask, IInv, TypeOK
<1>4. \A w \in Uris : pending'[w] # NoEntry => pending'[w] = pending[w]
  BY <1>1 DEF Resume, ForgetTask, IInv, TypeOK
<1>5. PendingPromises'
  BY <1>1, <1>2, <1>4 DEF PendingInv, PendingPromises, IInv, TypeOK, PendingEntry
<1>6. LatestWorkIsShared'
  <2>. SUFFICES ASSUME NEW w \in Uris, latest'[w] # NoEntry
                PROVE  pending'[w] # NoEntry /\ pending'[w].promise = latest'[w]
    BY DEF LatestWorkIsShared
  <2>1. latest'[w] = latest[w]
    BY <1>1 DEF IInv, TypeOK
  <2>2. pending[w] # NoEntry /\ pending[w].promise = latest[w]
    BY <2>1 DEF PendingInv, LatestWorkIsShared
  <2>3. latest[w] # t
    BY <1>1, <1>2, <2>1, <2>2 DEF IInv, TypeOK
  <2>. QED BY <1>3, <2>1, <2>2, <2>3
<1>. QED BY <1>5, <1>6 DEF PendingInv

\* The other steps leave the pending entries alone, or drop them.
LEMMA PendingStep == IInv /\ PendingInv /\ [Next]_vars => PendingInv'
<1>. SUFFICES ASSUME IInv, PendingInv, [Next]_vars PROVE PendingInv'
  OBVIOUS
<1>1. CASE UNCHANGED <<pending, tasks, latest>>
  BY <1>1 DEF PendingInv, PendingPromises, LatestWorkIsShared
<1>2. ASSUME NEW S \in SUBSET Uris, NEW k, Drop(S, k), UNCHANGED taskVars PROVE PendingInv'
  BY <1>2 DEF Drop, taskVars, PendingInv, PendingPromises, LatestWorkIsShared
<1>3. ASSUME NEW u \in Uris, Close(u) PROVE PendingInv'
  BY <1>2, <1>3 DEF Close
<1>4. CASE Clear
  BY <1>2, <1>4 DEF Clear
<1>5. ASSUME NEW u \in Uris, NEW h \in 1..current[u],
             \/ ServeCached(u, h) \/ BuildNow(u, h)
             \/ \E t \in TaskIds : StartAsyncResolution(u, h, t)
      PROVE  PendingInv'
  <2>1. ASSUME ServeCached(u, h) \/ BuildNow(u, h) PROVE PendingInv'
    BY <1>1, <2>1 DEF ServeCached, BuildNow, taskVars, historyVars
  <2>. QED
    BY <1>5, <2>1, StartPending
<1>5a. ASSUME NEW u \in Uris, PeekForDocument(u) \/ GetForDocument(u) PROVE PendingInv'
  <2>1. current[u] \in 1..current[u]
    BY <1>5a, CurrentDocExists DEF PeekForDocument, GetForDocument
  <2>. QED
    BY <1>5, <1>5a, <2>1 DEF PeekForDocument, GetForDocument
<1>5b. ASSUME NEW u \in Uris, NEW h \in Handles, GetForDocumentAsync(u, h) PROVE PendingInv'
  <2>1. h \in 1..current[u]
    BY <1>5b, BoundsAssumption DEF GetForDocumentAsync, Handles, IInv, TypeOK
  <2>. QED
    BY <1>5, <1>5b, <2>1 DEF GetForDocumentAsync
<1>6. ASSUME NEW t \in TaskIds, Resume(t) PROVE PendingInv'
  BY <1>6, ResumePending
<1>7. ASSUME NEW r \in TaskIds, ResolverReturns(r) \/ ResolverFails(r) \/ ResolutionSettles(r)
      PROVE  PendingInv'
  BY <1>1, <1>7 DEF ResolverReturns, ResolverFails, ResolutionSettles, historyVars
<1>8. ASSUME NEW u \in Uris, NEW text \in Texts, Open(u, text) \/ Edit(u, text)
      PROVE  PendingInv'
  BY <1>1, <1>8 DEF Open, Edit, taskVars, cacheVars, historyVars
<1>9. CASE WorldChanges \/ UNCHANGED vars
  BY <1>1, <1>9 DEF WorldChanges, vars, taskVars, cacheVars, historyVars
<1>. QED BY <1>3, <1>4, <1>5a, <1>5b, <1>6, <1>7, <1>8, <1>9 DEF Next

LEMMA PendingHolds == Spec => [](IInv /\ PendingInv)
<1>1. Init => PendingInv
  BY DEF Init, PendingInv, PendingPromises, LatestWorkIsShared
<1>. QED BY <1>1, Invariance, PendingStep, PTL DEF Spec

\* Both maps of pending work hold only promises that are still going to settle,
\* filed under what they are working on.
THEOREM PendingWorkIsInFlight == Spec => []PendingIsInFlight
<1>1. IInv /\ PendingInv => PendingIsInFlight
  BY DEF IInv, JoinableRuns, PendingInv, PendingPromises, PendingIsInFlight, InFlight
<1>. QED BY <1>1, PendingHolds, PTL

\* The newest resolution of a document can be joined until it ends, whatever
\* older ones do when they end.
THEOREM NewestWorkIsShared == Spec => []LatestWorkIsShared
<1>1. PendingInv => LatestWorkIsShared
  BY DEF PendingInv
<1>. QED BY <1>1, PendingHolds, PTL

=============================================================================
