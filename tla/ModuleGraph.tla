------------------------------ MODULE ModuleGraph ------------------------------
(***************************************************************************)
(* bundleModuleGraphAsModules, compiler/runtime/moduleGraph.ts, with the   *)
(* incremental cache that `vexa serve` keeps from build to build.          *)
(*                                                                         *)
(* A build visits the modules depth first, from the entry.  Of every       *)
(* module it collects the declarations of what it imports (its type        *)
(* context), compiles it against them, and keeps both; the next build      *)
(* reuses the context of a module whose imports are the same and the       *)
(* result of one whose text is the same too.  Only a change of a module    *)
(* other than the entry clears the cache.                                  *)
(*                                                                         *)
(* The text of a module is the number of times it was written, and its     *)
(* declarations are the pair of module and text: whether two texts declare *)
(* the same is left out, so a pair with an old text is one that may be     *)
(* wrong.                                                                  *)
(***************************************************************************)
EXTENDS Integers, Sequences, FiniteSets

CONSTANTS
  Modules, Entry,
  MaxWrites,         \* bound: writes of each module
  Projects           \* what the texts import, in order, and which have errors

Texts == 0..MaxWrites
Unknown == -1

ASSUME GraphAssumption ==
  /\ Entry \in Modules
  /\ IsFiniteSet(Modules)
  /\ MaxWrites \in Nat
  /\ Projects \subseteq [imports : [Modules -> [Texts -> Seq(Modules)]],
                          broken  : SUBSET (Modules \X Texts)]

VARIABLES
  project,   \* the project at hand; it never changes
  disk,      \* the text of each module
  watched,   \* the modules of the good builds so far, of which the caller reports changes
  building,
  contexts,  \* typeContextByPath: the text a context was collected for, and the context
  compiled,  \* compiledByPath
  stack,     \* the visits in progress: modules and the positions in their imports
  source,    \* sourceByPath, of this build or of the last
  reused,    \* modules whose context was taken from the cache
  decls,     \* externalDeclarations of each module
  completed, \* localTypeContextByPath: modules whose context others may use
  waiting,   \* pendingTypeContextConsumersByPath
  emitted,   \* emittedByPath, with what each module was compiled against
  seen       \* history: the texts of each module that were read since a build was
             \* told of a change outside the entry

cacheVars == <<contexts, compiled>>
buildVars == <<stack, source, reused, decls, completed, waiting, emitted>>
vars == <<project, disk, watched, building, cacheVars, buildVars, seen>>

NoContext == [text |-> Unknown, decls |-> {}]
NoProgram == [text |-> Unknown, uses |-> {}]
NotRead   == [m \in Modules |-> Unknown]

Imports(m) == project.imports[m][source[m]]

IsEmitted(m)    == emitted[m] # NoProgram
IsInProgress(m) == \E i \in DOMAIN stack : stack[i].module = m

Init ==
  /\ project \in Projects
  /\ disk = [m \in Modules |-> 0]
  /\ watched = {}
  /\ building = TRUE
  /\ contexts = [m \in Modules |-> NoContext]
  /\ compiled = [m \in Modules |-> NoProgram]
  /\ stack = <<[module |-> Entry, next |-> 1]>>
  /\ source = NotRead
  /\ reused = {}
  /\ decls = [m \in Modules |-> {}]
  /\ completed = {}
  /\ waiting = [m \in Modules |-> {}]
  /\ emitted = [m \in Modules |-> NoProgram]
  /\ seen = [m \in Modules |-> {}]

\* Bug: the imports of a visited module are counted from 0.
FrameBug(m) == [module |-> m, next |-> 0]

\* A visit that begins.
Frame(m) == [module |-> m, next |-> 1]

-----------------------------------------------------------------------------
(* The caller: which files changed, and when to build again.               *)

Write(m) ==
  /\ disk[m] < MaxWrites
  /\ disk' = [disk EXCEPT ![m] = @ + 1]
  /\ UNCHANGED <<project, watched, building, cacheVars, buildVars, seen>>

\* Bug: the cache is never cleared.
IsKeptBug(changed) == TRUE

\* incrementalModuleGraphState keeps the cache unless a file other than the
\* entry changed.
IsKept(changed) == changed \subseteq {Entry}

\* What a build may be told of: some of the watched modules.  A write is told late or
\* not at all if it is not noticed before the next build, and a file that was only
\* touched, or written during the build before, is told too.
ChangedFiles == (SUBSET watched) \ {{}}

BuildStarts(changed) ==
  /\ ~building
  /\ building' = TRUE
  /\ contexts' = IF IsKept(changed) THEN contexts ELSE [m \in Modules |-> NoContext]
  /\ compiled' = IF IsKept(changed) THEN compiled ELSE [m \in Modules |-> NoProgram]
  /\ stack' = <<Frame(Entry)>>
  /\ source' = NotRead
  /\ reused' = {}
  /\ decls' = [m \in Modules |-> {}]
  /\ completed' = {}
  /\ waiting' = [m \in Modules |-> {}]
  /\ emitted' = [m \in Modules |-> NoProgram]
  /\ seen' = IF changed \subseteq {Entry} THEN seen ELSE [m \in Modules |-> {}]
  /\ UNCHANGED <<project, disk, watched>>

HasErrors == \E m \in Modules : IsEmitted(m) /\ <<m, emitted[m].text>> \in project.broken

\* The caller watches what the bundle is made of, unless there were errors.  What it
\* watched before may still be queued.
BuildEnds ==
  /\ building
  /\ stack = <<>>
  /\ building' = FALSE
  /\ watched' = IF HasErrors THEN watched ELSE watched \cup {m \in Modules : source[m] # Unknown}
  /\ UNCHANGED <<project, disk, cacheVars, buildVars, seen>>

-----------------------------------------------------------------------------
(* visit                                                                   *)

Top == stack[Len(stack)]
IsVisiting(m) == stack # <<>> /\ Top.module = m

\* Bug: the context of a module is reused although its imports differ.
IsReusableBug(m, text) == contexts[m].text # Unknown

\* The cached context of m was collected for the same imports.
IsReusable(m, text) ==
  /\ contexts[m].text # Unknown
  /\ project.imports[m][contexts[m].text] = project.imports[m][text]

\* loadSource, and the decision to reuse the context.
ReadModule(m) ==
  /\ IsVisiting(m)
  /\ source[m] = Unknown
  /\ source' = [source EXCEPT ![m] = disk[m]]
  /\ reused' = IF IsReusable(m, disk[m]) THEN reused \cup {m} ELSE reused
  /\ decls' = [decls EXCEPT ![m] = IF IsReusable(m, disk[m]) THEN contexts[m].decls ELSE {}]
  /\ seen' = [seen EXCEPT ![m] = @ \cup {disk[m]}]
  /\ UNCHANGED <<project, disk, watched, building, cacheVars, stack, completed, waiting, emitted>>

\* Bug: the imports of a module with a cached context are not visited.
HasImportBug(m) ==
  /\ IsVisiting(m) /\ source[m] # Unknown /\ Top.next \in DOMAIN Imports(m)
  /\ m \notin reused

\* The next import of m, if it has one left.
HasImport(m) ==
  IsVisiting(m) /\ source[m] # Unknown /\ Top.next \in DOMAIN Imports(m)
NextImport(m) == Imports(m)[Top.next]

\* visit returns at once for a module that is emitted or in progress.
IsVisited(t) == IsEmitted(t) \/ IsInProgress(t)

\* The next import was not visited yet: do that first.
VisitImport(m) ==
  /\ HasImport(m)
  /\ ~IsVisited(NextImport(m))
  /\ stack' = Append(stack, Frame(NextImport(m)))
  /\ UNCHANGED <<project, disk, watched, building, cacheVars, source, reused, decls,
                 completed, waiting, emitted, seen>>

\* Bug: only the context of the import is collected.
CollectedBug(m, t) == decls[m] \cup (IF t \in completed THEN decls[t] ELSE {})

\* The context of m with what the import t brings: its context, if it has
\* one by now, and its own declarations.
Collected(m, t) ==
  decls[m] \cup (IF t \in completed THEN decls[t] ELSE {}) \cup {<<t, source[t]>>}

\* Bug: the visit of a module in progress waits for it to end.
IsSettledBug(t) == IsEmitted(t)

\* The visit of an import has returned.
IsSettled(t) == IsVisited(t)

\* The import was visited: take over its declarations, and wait for its
\* context if it is still in progress.
CollectImport(m) ==
  /\ HasImport(m)
  /\ LET t == NextImport(m)
     IN  /\ IsSettled(t)
         /\ stack' = [stack EXCEPT ![Len(stack)].next = @ + 1]
         /\ IF m \in reused
            THEN UNCHANGED <<decls, waiting>>
            ELSE /\ decls' = [decls EXCEPT ![m] = Collected(m, t)]
                 /\ waiting' = IF t \in completed THEN waiting
                               ELSE [waiting EXCEPT ![t] = @ \cup {m}]
  /\ UNCHANGED <<project, disk, watched, building, cacheVars, source, reused, completed,
                 emitted, seen>>

\* The cached result of an unchanged module, or a new one.
Program(m) ==
  IF m \in reused /\ compiled[m].text = source[m]
  THEN compiled[m]
  ELSE [text |-> source[m], uses |-> decls[m]]

\* All imports are collected: complete the context, hand it to the modules
\* that wait for it (the arrays are those of the cached contexts), and compile.
CompileModule(m) ==
  /\ IsVisiting(m)
  /\ source[m] # Unknown
  /\ ~HasImport(m)
  /\ decls' = [c \in Modules |-> IF c \in waiting[m] THEN decls[c] \cup decls[m] ELSE decls[c]]
  /\ contexts' = [c \in Modules |->
       CASE c = m /\ m \notin reused           -> [text |-> source[m], decls |-> decls'[m]]
         [] c # m /\ c \in waiting[m]           -> [contexts[c] EXCEPT !.decls = decls'[c]]
         [] OTHER                              -> contexts[c]]
  /\ waiting' = [waiting EXCEPT ![m] = {}]
  /\ completed' = completed \cup {m}
  /\ compiled' = [compiled EXCEPT ![m] = Program(m)]
  /\ emitted' = [emitted EXCEPT ![m] = Program(m)]
  /\ stack' = SubSeq(stack, 1, Len(stack) - 1)
  /\ UNCHANGED <<project, disk, watched, building, source, reused, seen>>

VisitStep(m) ==
  ReadModule(m) \/ VisitImport(m) \/ CollectImport(m) \/ CompileModule(m)

Next ==
  \/ \E m \in Modules : Write(m) \/ VisitStep(m)
  \/ \E changed \in ChangedFiles : BuildStarts(changed)
  \/ BuildEnds

Spec == Init /\ [][Next]_vars

\* The I/O of a build returns.
Fairness ==
  /\ WF_vars(BuildEnds)
  /\ \A m \in Modules : WF_vars(VisitStep(m))

FairSpec == Spec /\ Fairness

-----------------------------------------------------------------------------
(* Properties.                                                             *)

Declarations == Modules \X Texts

\* The values of the state variables.
TypeOK ==
  /\ project \in Projects
  /\ disk \in [Modules -> Texts]
  /\ watched \subseteq Modules
  /\ building \in BOOLEAN
  /\ contexts \in [Modules -> [text : Texts \cup {Unknown}, decls : SUBSET Declarations]]
  /\ compiled \in [Modules -> [text : Texts \cup {Unknown}, uses : SUBSET Declarations]]
  /\ stack \in Seq([module : Modules, next : Nat \ {0}])
  /\ source \in [Modules -> Texts \cup {Unknown}]
  /\ reused \subseteq Modules
  /\ decls \in [Modules -> SUBSET Declarations]
  /\ completed \subseteq Modules
  /\ waiting \in [Modules -> SUBSET Modules]
  /\ emitted \in [Modules -> [text : Texts \cup {Unknown}, uses : SUBSET Declarations]]
  /\ seen \in [Modules -> SUBSET Texts]

HasResult == building /\ stack = <<>>
ImportSet(m) == {Imports(m)[i] : i \in DOMAIN Imports(m)}

\* A change that a build is told of leaves nothing old: every module of a bundle has the
\* text that was read, and was compiled only against texts that were read since, in
\* this build or in one that kept the cache.
NothingIsStale ==
  HasResult => \A m \in Modules : IsEmitted(m) =>
    /\ emitted[m].text = source[m]
    /\ \A use \in emitted[m].uses : use[2] \in seen[use[1]]

\* What m imports, directly or not.
Reachable(m) ==
  {d \in Modules : \A S \in SUBSET Modules :
     ImportSet(m) \subseteq S /\ (\A x \in S : source[x] # Unknown => ImportSet(x) \subseteq S)
       => d \in S}

\* Nothing that m imports was found changed without the build being told.
ImportsSettled(m) == \A d \in Reachable(m) : seen[d] = {source[d]}

\* m is not on a cycle and imports none.
ImportsNoCycle(m) == m \notin Reachable(m) /\ \A d \in Reachable(m) : d \notin Reachable(d)

\* Reuse gives what a build without a cache gives, unless a change went untold: a module
\* is compiled against nothing that it does not import, directly or not, and without
\* cycles against all of it.
SeesWhatItImports ==
  HasResult => \A m \in Modules : IsEmitted(m) /\ ImportsSettled(m) =>
    LET imported == {<<d, source[d]>> : d \in Reachable(m)}
    IN  emitted[m].uses \subseteq imported /\ (ImportsNoCycle(m) => emitted[m].uses = imported)

\* Every module was compiled against what it imports itself, cycles or not, in a text
\* that was read since the last change the build was told of.
SeesDirectImports ==
  HasResult => \A m \in Modules : IsEmitted(m) =>
    \A t \in ImportSet(m) : \E v \in seen[t] : <<t, v>> \in emitted[m].uses

\* The bundle is complete: it holds the entry and all that it reaches, and no
\* module waits any longer for a context.
BundleIsComplete ==
  HasResult =>
    /\ \A m \in {Entry} \cup Reachable(Entry) : IsEmitted(m)
    /\ \A m \in Modules : waiting[m] = {}

\* Every build comes to an end, cycles or not.
BuildsEnd == building ~> ~building

=============================================================================
