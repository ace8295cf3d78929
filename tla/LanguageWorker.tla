---------------------------- MODULE LanguageWorker -----------------------------
(***************************************************************************)
(* The playground's editor and its language worker:                        *)
(* website/src/assets/monaco/languageWorkerClient.ts, the worker's         *)
(* onmessage, and the refreshes of website/src/assets/vexa-embed.ts.       *)
(*                                                                         *)
(* Every edit of a file arms a timer; the timer, the next animation frame  *)
(* and opening a file refresh a model: its diagnostics are asked for, and  *)
(* its auto-await glyphs if the editor shows it.  The worker answers in    *)
(* any order, since its requests wait for the runtime declarations and go  *)
(* on side by side; it may refuse one, or die, which answers all.          *)
(*                                                                         *)
(* A promise the client resolves continues at once (only microtasks lie    *)
(* between), so an answer and its effect on the display are one step.      *)
(*                                                                         *)
(* Left out: the features that the user asks for at a position, which      *)
(* leave no trace, other files as part of a snapshot, and disposal.        *)
(***************************************************************************)
EXTENDS Naturals, FiniteSets

CONSTANTS
  Models,           \* the files of the workspace
  Editable,         \* those that are not read-only
  Requests,         \* names for request ids; bounds how many are pending
  None,             \* no request, no glyphs
  MaxVersion        \* bound: versions of a model

ASSUME WorkerAssumption ==
  /\ Editable \subseteq Models
  /\ MaxVersion \in Nat \ {0}
  /\ Cardinality(Requests) > 1

VARIABLES
  version,      \* version[m]: the version of the model's text
  timer,        \* timer[m]: the 100 ms timer of wireDiagnostics is armed
  frames,       \* models to be refreshed in the next animation frame
  shown,        \* the model in the editor
  worker,       \* "none" before the first request, "alive", then "disabled"
  pending,      \* pending[r]: what request r is for, and of which version
  newest,       \* the last request for glyphs (autoAwaitGlyphRefreshVersions)
  markers,      \* markers[m]: the version whose diagnostics m shows, 0 if none
  glyphs,       \* the model and version whose glyphs the editor shows
  refused       \* history: the models whose text was refused its diagnostics

vars == <<version, timer, frames, shown, worker, pending, newest, markers, glyphs, refused>>

Versions == 1..MaxVersion

Request == [feature : {"diagnostics", "autoAwaitDecorations"}, model : Models,
            version : Versions]

IsPending(r) == pending[r] # None

TypeOK ==
  /\ version \in [Models -> Versions]
  /\ timer \in [Models -> BOOLEAN]
  /\ frames \subseteq Models
  /\ shown \in Models
  /\ worker \in {"none", "alive", "disabled"}
  /\ pending \in [Requests -> Request \cup {None}]
  /\ newest \in Requests \cup {None}
  /\ markers \in [Models -> Versions \cup {0}]
  /\ glyphs \in [model : Models, version : Versions] \cup {None}
  /\ refused \subseteq Models

\* bindEditableModel wires each file that is not read-only, and wireDiagnostics
\* arms its timer and asks for a frame.
Init ==
  /\ version = [m \in Models |-> 1]
  /\ timer = [m \in Models |-> m \in Editable]
  /\ frames = Editable
  /\ shown \in Models
  /\ worker = "none"
  /\ pending = [r \in Requests |-> None]
  /\ newest = None
  /\ markers = [m \in Models |-> 0]
  /\ glyphs = None
  /\ refused = {}

-----------------------------------------------------------------------------
(* The client.                                                             *)

\* ensureWorker: the first request creates the worker, which may fail for good.
EnsureWorker ==
  IF worker = "none" THEN worker' \in {"alive", "disabled"} ELSE worker' = worker

Asked(feature, m) == [feature |-> feature, model |-> m, version |-> version[m]]

\* A name that no pending request has: ids are never used again.
Unused(names) == CHOOSE r \in names : ~IsPending(r)
HasUnused(names) == \E r \in names : ~IsPending(r)

\* refreshDiagnosticsAndGlyphs for model m, which the editor shows or not.
\* Requests of a client that is disabled are answered at once, with nothing.
Refresh(m, isShown) ==
  /\ EnsureWorker
  /\ IF worker' = "disabled" THEN UNCHANGED <<pending, newest>>
     ELSE LET d == Unused(Requests)
              g == Unused(Requests \ {d})
              asked == [pending EXCEPT ![d] = Asked("diagnostics", m)]
          IN  /\ HasUnused(Requests)
              /\ IF isShown
                 THEN /\ HasUnused(Requests \ {d})
                      /\ pending' = [asked EXCEPT ![g] = Asked("autoAwaitDecorations", m)]
                      /\ newest' = g
                 ELSE pending' = asked /\ UNCHANGED newest

\* Bug: the text is not compared.
IsOfTheTextBug(request) == TRUE

\* model.getVersionId() === requestedVersion
IsOfTheText(request) == version[request.model] = request.version

\* Bug: any answer for the model in the editor will do.
IsNewestBug(r) == TRUE

\* autoAwaitGlyphRefreshVersions.get(editor) === refreshVersion
IsNewest(r) == newest = r

\* The worker's result for r arrives: handleMessage, then what awaited it.
Answer(r) ==
  LET request == pending[r]
  IN  /\ worker = "alive" /\ IsPending(r)
      /\ pending' = [pending EXCEPT ![r] = None]
      /\ markers' = IF request.feature = "diagnostics" /\ IsOfTheText(request)
                    THEN [markers EXCEPT ![request.model] = request.version] ELSE markers
      /\ glyphs' = IF request.feature = "autoAwaitDecorations" /\ IsNewest(r)
                      /\ shown = request.model
                   THEN [model |-> request.model, version |-> request.version] ELSE glyphs
      /\ UNCHANGED <<version, timer, frames, shown, worker, newest, refused>>

\* The worker's response is an error: nothing is displayed, or taken away.
Refuse(r) ==
  LET request == pending[r]
  IN  /\ worker = "alive" /\ IsPending(r)
      /\ pending' = [pending EXCEPT ![r] = None]
      /\ refused' = IF request.feature = "diagnostics" /\ IsOfTheText(request)
                    THEN refused \cup {request.model} ELSE refused
      /\ UNCHANGED <<version, timer, frames, shown, worker, newest, markers, glyphs>>

\* disable: an uncaught error in the worker ends it and answers everything.
Disable ==
  /\ worker = "alive"
  /\ worker' = "disabled"
  /\ pending' = [r \in Requests |-> None]
  /\ UNCHANGED <<version, timer, frames, shown, newest, markers, glyphs, refused>>

-----------------------------------------------------------------------------
(* The editor.                                                             *)

\* Bug: the timer is cleared, and armed only if it was not.
RearmedBug(m) == [timer EXCEPT ![m] = ~@]

\* refresh in wireDiagnostics
Rearmed(m) == [timer EXCEPT ![m] = TRUE]

Edit(m) ==
  /\ m \in Editable
  /\ version[m] < MaxVersion
  /\ version' = [version EXCEPT ![m] = @ + 1]
  /\ timer' = Rearmed(m)
  /\ refused' = refused \ {m}
  /\ UNCHANGED <<frames, shown, worker, pending, newest, markers, glyphs>>

TimerFires(m) ==
  /\ timer[m]
  /\ timer' = [timer EXCEPT ![m] = FALSE]
  /\ Refresh(m, shown = m)
  /\ UNCHANGED <<version, frames, shown, markers, glyphs, refused>>

\* Frames asked for one model come together.
FrameComes(m) ==
  /\ m \in frames
  /\ frames' = frames \ {m}
  /\ Refresh(m, shown = m)
  /\ UNCHANGED <<version, timer, shown, markers, glyphs, refused>>

\* openFile: the editor drops the decorations of the model it leaves.
OpenFile(m) ==
  /\ shown' = m
  /\ frames' = frames \cup {m}
  /\ Refresh(m, TRUE)
  /\ glyphs' = IF m = shown THEN glyphs ELSE None
  /\ UNCHANGED <<version, timer, markers, refused>>

Next ==
  \/ \E m \in Models : Edit(m) \/ TimerFires(m) \/ FrameComes(m) \/ OpenFile(m)
  \/ \E r \in Requests : Answer(r) \/ Refuse(r)
  \/ Disable

Spec == Init /\ [][Next]_vars

\* Timers fire, and a worker that lives answers.  A timer is fair in the strong
\* sense since Requests, which the program has no counterpart of, can hold up
\* its step.
Fairness ==
  /\ \A m \in Models : SF_vars(TimerFires(m))
  /\ \A r \in Requests : WF_vars(Answer(r) \/ Refuse(r))

FairSpec == Spec /\ Fairness

-----------------------------------------------------------------------------
(* Properties.                                                             *)

\* What is displayed moves forward only: in whatever order answers come, the
\* diagnostics of a model and the glyphs of the editor are never replaced by
\* those of an earlier text.
DisplayMovesForward ==
  [][/\ \A m \in Models : markers'[m] >= markers[m]
     /\ glyphs # None /\ glyphs' # None /\ glyphs'.model = glyphs.model =>
          glyphs'.version >= glyphs.version]_vars

\* Once the edits of a file end, its diagnostics come to be those of its text,
\* unless the worker died or refused them.
DisplaySettles ==
  \A m \in Editable : \A v \in Versions :
    version[m] = v ~> \/ version[m] # v
                      \/ markers[m] = v
                      \/ m \in refused
                      \/ worker = "disabled"

=============================================================================
