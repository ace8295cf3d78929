------------------------- MODULE LanguageWorker_proofs -------------------------
(***************************************************************************)
(* The playground's display moves forward, for every set of files and      *)
(* every number of requests.                                               *)
(*                                                                         *)
(* An answer is displayed if it is of the text (diagnostics) or for the    *)
(* last request (glyphs).  So the proof needs that nothing displayed, and  *)
(* nothing asked, is of a later text than the model's, and that what the   *)
(* last request for glyphs asks is about the model in the editor and of no *)
(* earlier text than the glyphs it will replace.                           *)
(***************************************************************************)
EXTENDS LanguageWorker, TLAPS

\* Nothing asked or displayed is ahead of the text.
NothingIsAhead ==
  /\ \A r \in Requests : IsPending(r) => pending[r].version <= version[pending[r].model]
  /\ \A m \in Models : markers[m] <= version[m]
  /\ glyphs # None => glyphs.version <= version[glyphs.model]

\* The glyphs are those of the model in the editor, and the last request for
\* glyphs, while it is pending, is for that model and a text no earlier.
GlyphsAwaitNewer ==
  /\ glyphs # None => glyphs.model = shown
  /\ \A r \in Requests :
       newest = r /\ IsPending(r) /\ pending[r].feature = "autoAwaitDecorations" =>
         /\ pending[r].model = shown
         /\ glyphs # None => glyphs.version <= pending[r].version

\* A worker that is not alive has nothing pending.
OnlyLiveIsAsked == worker # "alive" => \A r \in Requests : ~IsPending(r)

IInv == TypeOK /\ NothingIsAhead /\ GlyphsAwaitNewer /\ OnlyLiveIsAsked

-----------------------------------------------------------------------------

\* What an answer or a request for a model changes of the requests: asked of
\* them is of the model's text, and the rest is as it was.
LEMMA RefreshAsks ==
  ASSUME TypeOK, OnlyLiveIsAsked, NEW m \in Models, NEW isShown \in BOOLEAN,
         Refresh(m, isShown)
  PROVE  /\ worker' \in {"alive", "disabled"}
         /\ pending' \in [Requests -> Request \cup {None}]
         /\ newest' \in Requests \cup {None}
         /\ \A r \in Requests :
              \/ pending'[r] = pending[r]
              \/ pending'[r] = Asked("diagnostics", m)
              \/ isShown /\ pending'[r] = Asked("autoAwaitDecorations", m) /\ newest' = r
         /\ \/ newest' = newest
            \/ isShown /\ newest' \in Requests
               /\ pending'[newest'] = Asked("autoAwaitDecorations", m)
         /\ worker' = "disabled" => \A r \in Requests : pending'[r] = None
         /\ isShown /\ worker' = "alive" => 
               newest' \in Requests /\ pending'[newest'] = Asked("autoAwaitDecorations", m)
<1> DEFINE d == Unused(Requests)
           g == Unused(Requests \ {d})
<1>1. worker' \in {"alive", "disabled"}
  BY DEF Refresh, EnsureWorker, TypeOK
<1>2. /\ Asked("diagnostics", m) \in Request
      /\ Asked("autoAwaitDecorations", m) \in Request
  BY DEF Asked, Request, TypeOK
<1>3. CASE worker' = "disabled"
  <2>1. pending' = pending /\ newest' = newest
    BY <1>3 DEF Refresh
  <2>2. \A r \in Requests : pending[r] = None
    BY <1>3 DEF Refresh, EnsureWorker, OnlyLiveIsAsked, IsPending
  <2>. QED BY <1>1, <1>3, <2>1, <2>2 DEF TypeOK
<1>4. CASE worker' = "alive"
  <2>0. HasUnused(Requests)
    BY <1>4 DEF Refresh
  <2>1. d \in Requests
    <3>1. \E r \in Requests : ~IsPending(r)
      BY <2>0 DEF HasUnused
    <3>. QED BY <3>1 DEF Unused
  <2>2. CASE isShown
    <3>0. HasUnused(Requests \ {d})
      BY <1>4, <2>2 DEF Refresh
    <3>1. g \in Requests /\ g # d
      <4>1. \E r \in Requests \ {d} : ~IsPending(r)
        BY <3>0 DEF HasUnused
      <4>2. g \in Requests \ {d}
        BY <4>1 DEF Unused
      <4>. QED BY <4>2
    <3>2. /\ pending' = [[pending EXCEPT ![d] = Asked("diagnostics", m)]
                          EXCEPT ![g] = Asked("autoAwaitDecorations", m)]
          /\ newest' = g
      BY <1>4, <2>2 DEF Refresh
    <3>. HIDE DEF d, g
    <3>. QED BY <1>1, <1>2, <1>4, <2>1, <2>2, <3>1, <3>2 DEF TypeOK
  <2>3. CASE ~isShown
    <3>1. pending' = [pending EXCEPT ![d] = Asked("diagnostics", m)] /\ newest' = newest
      BY <1>4, <2>3 DEF Refresh
    <3>. HIDE DEF d, g
    <3>. QED BY <1>1, <1>2, <1>4, <2>1, <2>3, <3>1 DEF TypeOK
  <2>. QED BY <2>2, <2>3
<1>. QED BY <1>1, <1>3, <1>4

LEMMA InitHolds == WorkerAssumption /\ Init => IInv
<1>. SUFFICES ASSUME WorkerAssumption, Init PROVE IInv
  OBVIOUS
<1>1. 1 \in Versions
  BY DEF Versions, WorkerAssumption
<1>2. TypeOK
  BY <1>1 DEF Init, TypeOK, WorkerAssumption
<1>3. NothingIsAhead /\ GlyphsAwaitNewer /\ OnlyLiveIsAsked
  BY DEF Init, NothingIsAhead, GlyphsAwaitNewer, OnlyLiveIsAsked, IsPending
<1>. QED BY <1>2, <1>3 DEF IInv

\* A refresh keeps the invariant, for the model in the editor or for another.
LEMMA RefreshKeeps ==
  ASSUME IInv, NEW m \in Models, NEW isShown \in BOOLEAN, Refresh(m, isShown),
         UNCHANGED <<version, markers>>,
         glyphs' \in {glyphs, None},
         glyphs' # None => shown' = shown,
         isShown => shown' = m,
         ~isShown => shown' = shown
  PROVE  NothingIsAhead' /\ GlyphsAwaitNewer' /\ OnlyLiveIsAsked'
<1>1. /\ worker' \in {"alive", "disabled"}
      /\ newest' \in Requests \cup {None}
      /\ \A r \in Requests :
           \/ pending'[r] = pending[r]
           \/ pending'[r] = Asked("diagnostics", m)
           \/ isShown /\ pending'[r] = Asked("autoAwaitDecorations", m) /\ newest' = r
      /\ \/ newest' = newest
         \/ isShown /\ newest' \in Requests
            /\ pending'[newest'] = Asked("autoAwaitDecorations", m)
      /\ worker' = "disabled" => \A r \in Requests : pending'[r] = None
      /\ isShown /\ worker' = "alive" =>
           newest' \in Requests /\ pending'[newest'] = Asked("autoAwaitDecorations", m)
  BY RefreshAsks DEF IInv
<1>2. /\ version' = version /\ markers' = markers
      /\ version[m] \in Nat
      /\ \A k \in Models : version[k] \in Nat
  BY DEF IInv, TypeOK, Versions
<1>3. \A r \in Requests : IsPending(r) => pending[r] \in Request
  BY DEF IInv, TypeOK, IsPending
<1>4. NothingIsAhead'
  <2>1. ASSUME NEW r \in Requests, IsPending(r)'
        PROVE  pending'[r].version <= version'[pending'[r].model]
    <3>1. CASE pending'[r] = pending[r]
      BY <1>2, <2>1, <3>1 DEF IInv, NothingIsAhead, IsPending
    <3>2. CASE pending'[r] # pending[r]
      <4>1. pending'[r].version = version[m] /\ pending'[r].model = m
        BY <1>1, <3>2 DEF Asked
      <4>. QED BY <1>2, <4>1
    <3>. QED BY <3>1, <3>2
  <2>2. glyphs' # None => glyphs'.version <= version'[glyphs'.model]
    BY <1>2 DEF IInv, NothingIsAhead
  <2>3. \A k \in Models : markers'[k] <= version'[k]
    BY <1>2 DEF IInv, NothingIsAhead
  <2>. QED BY <2>1, <2>2, <2>3 DEF NothingIsAhead, IsPending
<1>5. GlyphsAwaitNewer'
  <2>1. glyphs' # None => glyphs' = glyphs /\ glyphs'.model = shown'
    BY DEF IInv, GlyphsAwaitNewer
  <2>2. ASSUME NEW r \in Requests, newest' = r, IsPending(r)',
               pending'[r].feature = "autoAwaitDecorations"
        PROVE  /\ pending'[r].model = shown'
               /\ glyphs' # None => glyphs'.version <= pending'[r].version
    <3>1. worker' = "alive"
      BY <1>1, <2>2 DEF IsPending
    <3>2. CASE pending'[r] = Asked("autoAwaitDecorations", m) /\ isShown
      <4>1. pending'[r].model = m /\ pending'[r].version = version[m] /\ shown' = m
        BY <3>2 DEF Asked
      <4>2. glyphs' # None => glyphs.version <= version[glyphs.model] /\ glyphs.model = m
        BY <2>1, <4>1 DEF IInv, NothingIsAhead
      <4>. QED BY <2>1, <4>1, <4>2
    <3>3. CASE ~(pending'[r] = Asked("autoAwaitDecorations", m) /\ isShown)
      <4>1. ~isShown /\ newest' = newest
        BY <1>1, <2>2, <3>1, <3>3
      <4>2. pending'[r] # Asked("diagnostics", m)
        BY <2>2 DEF Asked
      <4>3. pending'[r] = pending[r] /\ shown' = shown
        BY <1>1, <4>1, <4>2
      <4>. QED BY <2>1, <2>2, <4>1, <4>3 DEF IInv, GlyphsAwaitNewer, IsPending
    <3>. QED BY <3>2, <3>3
  <2>. QED BY <2>1, <2>2 DEF GlyphsAwaitNewer, IsPending
<1>6. OnlyLiveIsAsked'
  BY <1>1 DEF OnlyLiveIsAsked, IsPending
<1>. QED BY <1>4, <1>5, <1>6

\* Every step keeps the invariant.
LEMMA NextKeeps == WorkerAssumption /\ IInv /\ [Next]_vars => IInv'
<1>. SUFFICES ASSUME WorkerAssumption, IInv, [Next]_vars PROVE IInv'
  OBVIOUS
<1>. USE DEF IInv
<1>1. ASSUME NEW m \in Models, Edit(m) PROVE IInv'
  <2>1. /\ version[m] \in Nat /\ version[m] + 1 \in Versions
        /\ version' = [version EXCEPT ![m] = @ + 1]
    BY <1>1 DEF Edit, TypeOK, Versions, WorkerAssumption
  <2>2. \A k \in Models : version[k] \in Nat /\ version'[k] \in Nat /\ version[k] <= version'[k]
    BY <2>1 DEF TypeOK, Versions
  <2>3. TypeOK'
    BY <1>1, <2>1 DEF Edit, Rearmed, TypeOK
  <2>4. /\ \A r \in Requests : IsPending(r) => pending[r] \in Request
        /\ glyphs # None => glyphs \in [model : Models, version : Versions]
        /\ \A k \in Models : markers[k] \in Nat
    BY DEF TypeOK, IsPending, Versions
  <2>5. \A r \in Requests : IsPending(r) =>
           pending[r].version \in Nat /\ pending[r].model \in Models
    BY <2>4 DEF Request, Versions
  <2>6. glyphs # None => glyphs.version \in Nat /\ glyphs.model \in Models
    BY <2>4 DEF Versions
  <2>7. NothingIsAhead'
    <3>1. UNCHANGED <<pending, markers, glyphs>>
      BY <1>1 DEF Edit
    <3>2. \A r \in Requests : IsPending(r) => pending[r].version <= version'[pending[r].model]
      BY <2>2, <2>5 DEF NothingIsAhead
    <3>3. \A k \in Models : markers[k] <= version'[k]
      BY <2>2, <2>4 DEF NothingIsAhead
    <3>4. glyphs # None => glyphs.version <= version'[glyphs.model]
      BY <2>2, <2>6 DEF NothingIsAhead
    <3>. QED BY <3>1, <3>2, <3>3, <3>4 DEF NothingIsAhead, IsPending
  <2>8. GlyphsAwaitNewer' /\ OnlyLiveIsAsked'
    BY <1>1 DEF Edit, GlyphsAwaitNewer, OnlyLiveIsAsked, IsPending
  <2>. QED BY <2>3, <2>7, <2>8
<1>2. ASSUME NEW m \in Models, TimerFires(m) PROVE IInv'
  <2>1. TypeOK'
    BY <1>2, RefreshAsks DEF TimerFires, TypeOK
  <2>2. NothingIsAhead' /\ GlyphsAwaitNewer' /\ OnlyLiveIsAsked'
    <3>1. (shown = m) \in BOOLEAN
      OBVIOUS
    <3>. QED BY <1>2, <3>1, RefreshKeeps DEF TimerFires
  <2>. QED BY <2>1, <2>2
<1>3. ASSUME NEW m \in Models, FrameComes(m) PROVE IInv'
  <2>1. TypeOK'
    BY <1>3, RefreshAsks DEF FrameComes, TypeOK
  <2>2. NothingIsAhead' /\ GlyphsAwaitNewer' /\ OnlyLiveIsAsked'
    <3>1. (shown = m) \in BOOLEAN
      OBVIOUS
    <3>. QED BY <1>3, <3>1, RefreshKeeps DEF FrameComes
  <2>. QED BY <2>1, <2>2
<1>4. ASSUME NEW m \in Models, OpenFile(m) PROVE IInv'
  <2>1. TypeOK'
    BY <1>4, RefreshAsks DEF OpenFile, TypeOK
  <2>2. NothingIsAhead' /\ GlyphsAwaitNewer' /\ OnlyLiveIsAsked'
    BY <1>4, RefreshKeeps DEF OpenFile
  <2>. QED BY <2>1, <2>2
<1>5. ASSUME NEW r \in Requests, Answer(r) PROVE IInv'
  <2>. DEFINE request == pending[r]
  <2>1. /\ request \in Request /\ worker = "alive"
        /\ pending' = [pending EXCEPT ![r] = None]
        /\ UNCHANGED <<version, timer, frames, shown, worker, newest, refused>>
    BY <1>5 DEF Answer, IsPending, TypeOK
  <2>2. request.model \in Models /\ request.version \in Versions
    BY <2>1 DEF Request
  <2>3. /\ markers' = IF request.feature = "diagnostics" /\ IsOfTheText(request)
                      THEN [markers EXCEPT ![request.model] = request.version] ELSE markers
        /\ glyphs' = IF request.feature = "autoAwaitDecorations" /\ IsNewest(r)
                        /\ shown = request.model
                     THEN [model |-> request.model, version |-> request.version] ELSE glyphs
    BY <1>5 DEF Answer
  <2>4. TypeOK'
    BY <2>1, <2>2, <2>3 DEF TypeOK
  <2>5. \A k \in Requests : IsPending(k)' => k # r /\ pending'[k] = pending[k] /\ IsPending(k)
    BY <2>1 DEF TypeOK, IsPending
  <2>6. request.version <= version[request.model]
    BY <1>5 DEF Answer, NothingIsAhead
  <2>7. NothingIsAhead'
    <3>1. \A m \in Models : markers'[m] <= version'[m]
      BY <2>1, <2>2, <2>3, <2>6 DEF TypeOK, NothingIsAhead
    <3>2. glyphs' # None => glyphs'.version <= version'[glyphs'.model]
      BY <2>1, <2>3, <2>6 DEF NothingIsAhead
    <3>. QED BY <2>1, <2>5, <3>1, <3>2 DEF NothingIsAhead
  <2>8. GlyphsAwaitNewer'
    <3>1. CASE newest = r
      <4>1. \A k \in Requests : ~(newest' = k /\ IsPending(k)')
        BY <2>1, <2>5, <3>1
      <4>2. glyphs' # None => glyphs'.model = shown'
        BY <2>1, <2>3 DEF GlyphsAwaitNewer
      <4>. QED BY <4>1, <4>2 DEF GlyphsAwaitNewer
    <3>2. CASE newest # r
      <4>1. glyphs' = glyphs
        BY <2>3, <3>2 DEF IsNewest
      <4>. QED BY <2>1, <2>5, <4>1 DEF GlyphsAwaitNewer
    <3>. QED BY <3>1, <3>2
  <2>9. OnlyLiveIsAsked'
    BY <2>1 DEF OnlyLiveIsAsked
  <2>. QED BY <2>4, <2>7, <2>8, <2>9
<1>6. ASSUME NEW r \in Requests, Refuse(r) PROVE IInv'
  <2>. DEFINE request == pending[r]
  <2>1. /\ request \in Request
        /\ pending' = [pending EXCEPT ![r] = None]
        /\ UNCHANGED <<version, timer, frames, shown, worker, newest, markers, glyphs>>
    BY <1>6 DEF Refuse, IsPending, TypeOK
  <2>2. request.model \in Models
    BY <2>1 DEF Request
  <2>3. TypeOK'
    BY <1>6, <2>1, <2>2 DEF Refuse, TypeOK
  <2>4. \A k \in Requests : IsPending(k)' => pending'[k] = pending[k] /\ IsPending(k)
    BY <2>1 DEF TypeOK, IsPending
  <2>5. NothingIsAhead' /\ GlyphsAwaitNewer' /\ OnlyLiveIsAsked'
    BY <2>1, <2>4 DEF NothingIsAhead, GlyphsAwaitNewer, OnlyLiveIsAsked
  <2>. QED BY <2>3, <2>5
<1>7. CASE Disable
  <2>1. \A r \in Requests : ~IsPending(r)'
    BY <1>7 DEF Disable, IsPending
  <2>. QED BY <1>7, <2>1 DEF Disable, TypeOK, NothingIsAhead, GlyphsAwaitNewer, OnlyLiveIsAsked
<1>8. CASE UNCHANGED vars
  BY <1>8 DEF vars, TypeOK, NothingIsAhead, GlyphsAwaitNewer, OnlyLiveIsAsked, IsPending
<1>. QED BY <1>1, <1>2, <1>3, <1>4, <1>5, <1>6, <1>7, <1>8 DEF Next

\* The invariant holds throughout.
LEMMA InvariantHolds == Spec => []IInv
<1>1. WorkerAssumption
  BY WorkerAssumption
<1>. QED BY <1>1, InitHolds, NextKeeps, PTL DEF Spec

-----------------------------------------------------------------------------

\* Type correctness, for every set of files, of requests and of versions.
THEOREM TypeCorrect == Spec => []TypeOK
BY InvariantHolds, PTL DEF IInv

\* Whatever the order in which the worker answers, no diagnostics and no glyphs
\* are replaced by those of an earlier text of their model.
THEOREM DisplayNeverGoesBack == Spec => DisplayMovesForward
<1>1. ASSUME IInv, [Next]_vars
      PROVE  /\ \A m \in Models : markers'[m] >= markers[m]
             /\ glyphs # None /\ glyphs' # None /\ glyphs'.model = glyphs.model =>
                  glyphs'.version >= glyphs.version
  <2>0. /\ \A m \in Models : markers[m] \in Nat
        /\ glyphs # None => glyphs.version \in Nat
    <3>1. glyphs # None => glyphs \in [model : Models, version : Versions]
      BY <1>1 DEF IInv, TypeOK
    <3>. QED BY <1>1, <3>1 DEF IInv, TypeOK, Versions
  <2>1. ASSUME NEW r \in Requests, Answer(r)
        PROVE  /\ \A m \in Models : markers'[m] >= markers[m]
               /\ glyphs # None /\ glyphs' # None => glyphs'.version >= glyphs.version
    <3>. DEFINE request == pending[r]
    <3>1. /\ IsPending(r) /\ request \in Request
          /\ markers' = IF request.feature = "diagnostics" /\ IsOfTheText(request)
                        THEN [markers EXCEPT ![request.model] = request.version] ELSE markers
          /\ glyphs' = IF request.feature = "autoAwaitDecorations" /\ IsNewest(r)
                          /\ shown = request.model
                       THEN [model |-> request.model, version |-> request.version] ELSE glyphs
      BY <1>1, <2>1 DEF Answer, IsPending, IInv, TypeOK
    <3>2. request.model \in Models /\ request.version \in Nat
      BY <3>1 DEF Request, Versions
    <3>3. \A m \in Models : markers'[m] >= markers[m]
      <4>1. IsOfTheText(request) => request.version >= markers[request.model]
        BY <1>1, <2>0, <3>2 DEF IsOfTheText, IInv, NothingIsAhead
      <4>. QED BY <1>1, <2>0, <3>1, <3>2, <4>1 DEF IInv, TypeOK
    <3>4. glyphs # None /\ glyphs' # None => glyphs'.version >= glyphs.version
      <4>1. CASE request.feature = "autoAwaitDecorations" /\ IsNewest(r) /\ shown = request.model
        <5>1. glyphs # None => glyphs.version <= request.version
          BY <1>1, <3>1, <4>1 DEF IInv, GlyphsAwaitNewer, IsNewest
        <5>2. glyphs'.version = request.version
          BY <3>1, <4>1
        <5>. QED BY <2>0, <3>2, <5>1, <5>2
      <4>2. CASE ~(request.feature = "autoAwaitDecorations" /\ IsNewest(r) /\ shown = request.model)
        BY <2>0, <3>1, <4>2
      <4>. QED BY <4>1, <4>2
    <3>. QED BY <3>3, <3>4
  <2>2. ASSUME markers' = markers, glyphs' \in {glyphs, None}
        PROVE  /\ \A m \in Models : markers'[m] >= markers[m]
               /\ glyphs # None /\ glyphs' # None => glyphs'.version >= glyphs.version
    BY <2>0, <2>2
  <2>3. ASSUME NEW m \in Models, Edit(m) \/ TimerFires(m) \/ FrameComes(m) \/ OpenFile(m)
        PROVE  markers' = markers /\ glyphs' \in {glyphs, None}
    BY <2>3 DEF Edit, TimerFires, FrameComes, OpenFile
  <2>4. ASSUME NEW r \in Requests, Refuse(r)
        PROVE  markers' = markers /\ glyphs' \in {glyphs, None}
    BY <2>4 DEF Refuse
  <2>5. Disable \/ UNCHANGED vars => markers' = markers /\ glyphs' \in {glyphs, None}
    BY DEF Disable, vars
  <2>. QED BY <1>1, <2>1, <2>2, <2>3, <2>4, <2>5 DEF Next
<1>. QED BY <1>1, InvariantHolds, PTL DEF Spec, DisplayMovesForward

=============================================================================
