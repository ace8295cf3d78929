--------------------------- MODULE ModuleGraph_proofs ---------------------------
(***************************************************************************)
(* Theorems about ModuleGraph for every set of modules, every graph of     *)
(* imports, cycles included, and writes at any moment: types, and that a   *)
(* bundle is complete.  The second part is about what the cache keeps.     *)
(*                                                                         *)
(* A depth-first search reaches everything because what it has dealt with  *)
(* imports nothing it does not know: an import before the position of its  *)
(* visit, and every import of an emitted module, is emitted or on the      *)
(* stack.  When the stack is empty the emitted modules are closed under    *)
(* imports.                                                                *)
(***************************************************************************)
EXTENDS ModuleGraph, SequenceTheorems, TLAPS

FrameSet == [module : Modules, next : Nat \ {0}]

IsRead(m) == source[m] # Unknown

\* The visits in progress are of different modules, none of them emitted; all
\* but the last have read theirs.
FramesAreOpen ==
  /\ \A i \in 1..Len(stack) : ~IsEmitted(stack[i].module)
  /\ \A i, j \in 1..Len(stack) : stack[i].module = stack[j].module => i = j
  /\ \A i \in 1..Len(stack) : i < Len(stack) => IsRead(stack[i].module)

\* The imports of m up to a position are emitted or in progress.
VisitedUpTo(m, next) ==
  \A k \in 1..Len(Imports(m)) : k < next => IsVisited(Imports(m)[k])

ImportsAreVisited ==
  /\ \A i \in 1..Len(stack) : IF IsRead(stack[i].module)
                              THEN VisitedUpTo(stack[i].module, stack[i].next)
                              ELSE stack[i].next = 1
  /\ \A m \in Modules : IsEmitted(m) =>
       IsRead(m) /\ \A k \in 1..Len(Imports(m)) : IsVisited(Imports(m)[k])

\* The entry was the first to be visited.
EntryIsVisited == building => IsVisited(Entry)

\* A module is waited for only during its visit.
VisitsAreAwaited ==
  \A m \in Modules : /\ IsEmitted(m) => m \in completed
                     /\ waiting[m] # {} => IsInProgress(m)

IInv ==
  /\ TypeOK
  /\ FramesAreOpen
  /\ ImportsAreVisited
  /\ EntryIsVisited
  /\ VisitsAreAwaited

-----------------------------------------------------------------------------
(* What the steps do to the stack.                                         *)

\* The modules and lists of a project are what they seem.
LEMMA ImportsAreModules ==
  ASSUME TypeOK, NEW m \in Modules, IsRead(m)
  PROVE  /\ source[m] \in Texts
         /\ Imports(m) \in Seq(Modules)
         /\ Len(Imports(m)) \in Nat
         /\ DOMAIN Imports(m) = 1..Len(Imports(m))
         /\ \A k \in 1..Len(Imports(m)) : Imports(m)[k] \in Modules
<1>1. source[m] \in Texts
  BY DEF TypeOK, IsRead
<1>2. project.imports \in [Modules -> [Texts -> Seq(Modules)]]
  BY GraphAssumption DEF TypeOK
<1>3. Imports(m) \in Seq(Modules)
  BY <1>1, <1>2 DEF Imports
<1>. QED
  BY <1>1, <1>3, LenProperties, ElementOfSeq

\* The visit on top of the stack.
LEMMA TopIsAFrame ==
  ASSUME TypeOK, NEW m \in Modules, IsVisiting(m)
  PROVE  /\ Len(stack) \in Nat \ {0}
         /\ Top = stack[Len(stack)]
         /\ stack[Len(stack)] \in FrameSet
         /\ stack[Len(stack)].module = m
         /\ stack[Len(stack)].next \in Nat \ {0}
         /\ \A i \in 1..Len(stack) : stack[i] \in FrameSet
<1>1. stack \in Seq(FrameSet) /\ stack # <<>>
  BY DEF TypeOK, FrameSet, IsVisiting
<1>2. Len(stack) \in Nat \ {0}
  BY <1>1, EmptySeq, LenProperties
<1>3. \A i \in 1..Len(stack) : stack[i] \in FrameSet
  BY <1>1, ElementOfSeq
<1>4. Len(stack) \in 1..Len(stack)
  BY <1>2
<1>5. stack[Len(stack)] \in FrameSet
  BY <1>3, <1>4
<1>. QED
  BY <1>2, <1>3, <1>5 DEF IsVisiting, Top, FrameSet

\* Being on the stack, without DOMAIN.
LEMMA InProgress ==
  ASSUME TypeOK
  PROVE  \A m \in Modules : IsInProgress(m) <=> \E i \in 1..Len(stack) : stack[i].module = m
BY LenProperties DEF TypeOK, IsInProgress

\* A visit that begins is put on top.
LEMMA VisitPushes ==
  ASSUME TypeOK, NEW m \in Modules, IsRead(m), VisitImport(m)
  PROVE  /\ NextImport(m) \in Modules
         /\ stack' \in Seq(FrameSet)
         /\ Len(stack') = Len(stack) + 1
         /\ \A i \in 1..Len(stack) : stack'[i] = stack[i]
         /\ stack'[Len(stack')] = [module |-> NextImport(m), next |-> 1]
<1>1. NextImport(m) \in Modules
  BY ImportsAreModules, TopIsAFrame DEF VisitImport, HasImport, NextImport
<1>2. Frame(NextImport(m)) \in FrameSet
  BY <1>1 DEF Frame, FrameSet
<1>3. stack \in Seq(FrameSet)
  BY DEF TypeOK, FrameSet
<1>. QED
  BY <1>1, <1>2, <1>3, AppendProperties DEF VisitImport, Frame

\* Collecting an import moves the position on top.
LEMMA CollectAdvances ==
  ASSUME TypeOK, NEW m \in Modules, CollectImport(m)
  PROVE  /\ stack' \in Seq(FrameSet)
         /\ Len(stack') = Len(stack)
         /\ \A i \in 1..Len(stack) :
              /\ stack'[i].module = stack[i].module
              /\ stack'[i].next = IF i = Len(stack) THEN stack[i].next + 1 ELSE stack[i].next
<1> DEFINE top == stack[Len(stack)]
           moved == [module |-> top.module, next |-> top.next + 1]
<1>1. /\ Len(stack) \in Nat \ {0}
      /\ top \in FrameSet
      /\ top.module \in Modules /\ top.next \in Nat \ {0}
      /\ stack \in Seq(FrameSet)
  BY TopIsAFrame DEF CollectImport, HasImport, FrameSet, TypeOK
<1>2. moved \in FrameSet
  BY <1>1 DEF FrameSet
<1>3. stack' = [stack EXCEPT ![Len(stack)] = moved]
  <2>1. stack' = [stack EXCEPT ![Len(stack)].next = @ + 1]
    BY DEF CollectImport
  <2>2. [top EXCEPT !.next = @ + 1] = moved
    BY <1>1 DEF FrameSet
  <2>. QED BY <2>1, <2>2
<1>4. Len(stack) \in 1..Len(stack)
  BY <1>1
<1>5. /\ stack' \in Seq(FrameSet)
      /\ Len(stack') = Len(stack)
      /\ \A i \in 1..Len(stack) : stack'[i] = IF i = Len(stack) THEN moved ELSE stack[i]
  <2>. HIDE DEF moved
  <2>. QED BY <1>1, <1>2, <1>3, <1>4, ExceptSeq
<1>. QED
  BY <1>5

\* A visit that ends is taken off.
LEMMA CompilePops ==
  ASSUME TypeOK, NEW m \in Modules, CompileModule(m)
  PROVE  /\ stack' \in Seq(FrameSet)
         /\ Len(stack') = Len(stack) - 1
         /\ \A i \in 1..(Len(stack) - 1) : stack'[i] = stack[i]
<1>1. /\ Len(stack) \in Nat \ {0}
      /\ stack \in Seq(FrameSet)
  BY TopIsAFrame DEF CompileModule, TypeOK, FrameSet
<1>2. stack' = SubSeq(stack, 1, Len(stack) - 1)
  BY DEF CompileModule
<1>3. /\ 1 \in 1..(Len(stack) + 1)
      /\ Len(stack) - 1 \in (1 - 1)..Len(stack)
      /\ (Len(stack) - 1) - 1 + 1 = Len(stack) - 1
  BY <1>1
<1>4. \A i \in 1..(Len(stack) - 1) : 1 + i - 1 = i
  OBVIOUS
<1>. QED
  BY <1>1, <1>2, <1>3, <1>4, SubSeqProperties

-----------------------------------------------------------------------------
(* Each step keeps the invariant.                                          *)

LEMMA InitHolds == Init => IInv
<1>. SUFFICES ASSUME Init PROVE IInv
  OBVIOUS
<1>1. /\ stack \in Seq(FrameSet) /\ Len(stack) = 1
      /\ stack[1] = [module |-> Entry, next |-> 1]
  BY GraphAssumption DEF Init, FrameSet
<1>2. \A m \in Modules : ~IsRead(m) /\ ~IsEmitted(m)
  BY DEF Init, NotRead, IsRead, IsEmitted
<1>3. TypeOK
  BY <1>1, GraphAssumption
  DEF Init, TypeOK, FrameSet, Texts, NotRead, NoContext, NoProgram, Declarations
<1>4. FramesAreOpen /\ ImportsAreVisited
  BY <1>1, <1>2, GraphAssumption DEF FramesAreOpen, ImportsAreVisited
<1>5. EntryIsVisited
  BY <1>1, <1>3, InProgress, GraphAssumption DEF EntryIsVisited, IsVisited
<1>6. VisitsAreAwaited
  BY <1>2 DEF Init, VisitsAreAwaited
<1>. QED BY <1>3, <1>4, <1>5, <1>6 DEF IInv

\* Steps that are no part of a build keep the invariant if they keep the types.
LEMMA CallerKeeps ==
  ASSUME IInv, TypeOK', building' => building,
         UNCHANGED <<project, stack, source, completed, waiting, emitted>>
  PROVE  IInv'
<1>1. FramesAreOpen'
  BY DEF IInv, FramesAreOpen, IsEmitted, IsRead
<1>2. ImportsAreVisited'
  <2>1. ImportsAreVisited
    BY DEF IInv
  <2>. QED
    BY <2>1, ZenonT(30)
    DEF ImportsAreVisited, VisitedUpTo, IsVisited, IsEmitted, IsInProgress, IsRead, Imports
<1>3. EntryIsVisited'
  BY DEF IInv, EntryIsVisited, IsVisited, IsEmitted, IsInProgress
<1>4. VisitsAreAwaited'
  BY DEF IInv, VisitsAreAwaited, IsEmitted, IsInProgress
<1>. QED BY <1>1, <1>2, <1>3, <1>4 DEF IInv

\* Writing a file is no part of a build.
LEMMA WriteKeeps ==
  ASSUME IInv, NEW m \in Modules, Write(m)
  PROVE  IInv'
<1>1. /\ disk' = [disk EXCEPT ![m] = disk[m] + 1]
      /\ disk \in [Modules -> Texts]
      /\ disk[m] < MaxWrites
      /\ MaxWrites \in Nat
  BY GraphAssumption DEF Write, IInv, TypeOK
<1>2. disk[m] + 1 \in Texts
  BY <1>1 DEF Texts
<1>3. disk' \in [Modules -> Texts]
  BY <1>1, <1>2
<1>4. UNCHANGED <<project, watched, building, contexts, compiled, stack, source, reused, decls,
                  completed, waiting, emitted, seen>>
  BY DEF Write, cacheVars, buildVars
<1>5. TypeOK'
  BY <1>3, <1>4 DEF IInv, TypeOK, Declarations
<1>. QED BY <1>4, <1>5, CallerKeeps

\* A new build begins as the first did, with or without the cache.
LEMMA BuildStartsKeeps ==
  ASSUME IInv, NEW changed, BuildStarts(changed)
  PROVE  IInv'
<1>1. /\ stack' \in Seq(FrameSet) /\ Len(stack') = 1
      /\ stack'[1] = [module |-> Entry, next |-> 1]
  BY GraphAssumption DEF BuildStarts, Frame, FrameSet
<1>2. \A m \in Modules : ~IsRead(m)' /\ ~IsEmitted(m)'
  BY DEF BuildStarts, NotRead, IsRead, IsEmitted
<1>3. TypeOK'
  BY <1>1, GraphAssumption
  DEF BuildStarts, IInv, TypeOK, FrameSet, Texts, NotRead, NoContext, NoProgram, Declarations
<1>4. FramesAreOpen' /\ ImportsAreVisited'
  BY <1>1, <1>2, GraphAssumption DEF FramesAreOpen, ImportsAreVisited
<1>5. IsInProgress(Entry)'
  BY <1>1 DEF IsInProgress
<1>6. EntryIsVisited'
  BY <1>5 DEF EntryIsVisited, IsVisited
<1>7. VisitsAreAwaited'
  BY <1>2 DEF BuildStarts, VisitsAreAwaited
<1>. QED BY <1>3, <1>4, <1>6, <1>7 DEF IInv

LEMMA BuildEndsKeeps ==
  ASSUME IInv, BuildEnds
  PROVE  IInv'
<1>1. watched' \subseteq Modules
  BY DEF BuildEnds, IInv, TypeOK
<1>2. TypeOK'
  BY <1>1 DEF BuildEnds, IInv, TypeOK, cacheVars, buildVars, Declarations
<1>. QED BY <1>2, CallerKeeps DEF BuildEnds, buildVars

\* Reading a module is the first step of its visit.
LEMMA ReadModuleKeeps ==
  ASSUME IInv, NEW m \in Modules, ReadModule(m)
  PROVE  IInv'
<1>0. TypeOK /\ IsVisiting(m) /\ ~IsRead(m) /\ disk[m] \in Texts
  BY DEF IInv, TypeOK, ReadModule, IsRead
<1>1. TypeOK'
  <2>1. source' \in [Modules -> Texts \cup {Unknown}]
    BY DEF ReadModule, IInv, TypeOK
  <2>2. decls' \in [Modules -> SUBSET Declarations]
    BY DEF ReadModule, IInv, TypeOK
  <2>3. reused' \subseteq Modules
    BY DEF ReadModule, IInv, TypeOK
  <2>4. seen' \in [Modules -> SUBSET Texts]
    BY <1>0 DEF ReadModule, IInv, TypeOK
  <2>. QED BY <2>1, <2>2, <2>3, <2>4 DEF ReadModule, IInv, TypeOK, cacheVars, Declarations
<1>2. /\ \A x \in Modules : x # m => source'[x] = source[x]
      /\ UNCHANGED <<project, building, stack, completed, waiting, emitted>>
      /\ source'[m] = disk[m] /\ disk[m] # Unknown
  BY <1>0, GraphAssumption DEF ReadModule, IInv, TypeOK, Texts, Unknown
<1>3. \A x \in Modules : /\ IsRead(x)' <=> x = m \/ IsRead(x)
                         /\ IsVisited(x)' <=> IsVisited(x)
                         /\ IsEmitted(x)' <=> IsEmitted(x)
                         /\ IsRead(x) => Imports(x)' = Imports(x)
  BY <1>0, <1>2 DEF IsRead, IsVisited, IsEmitted, IsInProgress, Imports
<1>4. \A i \in 1..Len(stack) : stack[i].module \in Modules
  BY <1>0, TopIsAFrame DEF FrameSet
<1>5. FramesAreOpen'
  BY <1>2, <1>3, <1>4 DEF IInv, FramesAreOpen
<1>6. ImportsAreVisited'
  <2>1. ASSUME NEW i \in 1..Len(stack')
        PROVE  IF IsRead(stack[i].module)'
               THEN VisitedUpTo(stack[i].module, stack[i].next)'
               ELSE stack[i].next = 1
    <3>1. CASE stack[i].module = m
      <4>1. stack[i].next = 1
        BY <1>0, <1>2, <3>1 DEF IInv, ImportsAreVisited
      <4>. QED BY <4>1, <1>3, <1>4, <1>2 DEF VisitedUpTo
    <3>2. CASE stack[i].module # m
      <4>1. CASE IsRead(stack[i].module)
        <5>1. VisitedUpTo(stack[i].module, stack[i].next)
          BY <1>2, <4>1 DEF IInv, ImportsAreVisited
        <5>2. \A k \in 1..Len(Imports(stack[i].module)) : Imports(stack[i].module)[k] \in Modules
          BY <1>0, <1>2, <1>4, <4>1, ImportsAreModules
        <5>. QED BY <1>2, <1>3, <1>4, <4>1, <5>1, <5>2 DEF VisitedUpTo
      <4>2. CASE ~IsRead(stack[i].module)
        BY <1>2, <1>3, <1>4, <3>2, <4>2 DEF IInv, ImportsAreVisited
      <4>. QED BY <4>1, <4>2
    <3>. QED BY <3>1, <3>2
  <2>2. ASSUME NEW x \in Modules, IsEmitted(x)'
        PROVE  IsRead(x)' /\ \A k \in 1..Len(Imports(x)') : IsVisited(Imports(x)[k])'
    <3>1. IsRead(x) /\ \A k \in 1..Len(Imports(x)) : IsVisited(Imports(x)[k])
      BY <1>3, <2>2 DEF IInv, ImportsAreVisited
    <3>2. \A k \in 1..Len(Imports(x)) : Imports(x)[k] \in Modules
      BY <1>0, <3>1, ImportsAreModules
    <3>. QED BY <1>3, <3>1, <3>2
  <2>. QED BY <1>2, <2>1, <2>2 DEF ImportsAreVisited
<1>7. EntryIsVisited'
  BY <1>2, <1>3, GraphAssumption DEF IInv, EntryIsVisited
<1>8. VisitsAreAwaited'
  BY <1>2, <1>3 DEF IInv, VisitsAreAwaited, IsInProgress
<1>. QED BY <1>1, <1>5, <1>6, <1>7, <1>8 DEF IInv

\* While a module that was read is on top, all that is visited was read.
LEMMA VisitedAreRead ==
  ASSUME IInv, NEW m \in Modules, IsVisiting(m), IsRead(m), NEW t \in Modules, IsVisited(t)
  PROVE  IsRead(t)
<1>1. CASE IsEmitted(t)
  BY <1>1 DEF IInv, ImportsAreVisited
<1>2. CASE IsInProgress(t)
  <2>1. PICK i \in 1..Len(stack) : stack[i].module = t
    BY <1>2, InProgress DEF IInv
  <2>2. Len(stack) \in Nat \ {0} /\ stack[Len(stack)].module = m
    BY TopIsAFrame DEF IInv
  <2>. QED BY <2>1, <2>2 DEF IInv, FramesAreOpen
<1>. QED BY <1>1, <1>2 DEF IsVisited

\* The visit of an import that was not visited yet.
LEMMA VisitImportKeeps ==
  ASSUME IInv, NEW m \in Modules, VisitImport(m)
  PROVE  IInv'
<1> DEFINE t == NextImport(m)
<1>0. TypeOK /\ IsVisiting(m) /\ IsRead(m) /\ ~IsVisited(t)
  BY DEF IInv, VisitImport, HasImport, IsRead
<1>1. /\ t \in Modules
      /\ stack' \in Seq(FrameSet)
      /\ Len(stack) \in Nat \ {0}
      /\ Len(stack') = Len(stack) + 1
      /\ \A i \in 1..Len(stack) : stack'[i] = stack[i] /\ stack[i].module \in Modules
      /\ stack'[Len(stack')] = [module |-> t, next |-> 1]
  BY <1>0, VisitPushes, TopIsAFrame DEF FrameSet
<1>2. UNCHANGED <<project, disk, watched, building, contexts, compiled, source, reused, decls,
                  completed, waiting, emitted, seen>>
  BY DEF VisitImport, cacheVars
<1>. HIDE DEF t
<1>3. TypeOK'
  BY <1>0, <1>1, <1>2 DEF TypeOK, FrameSet, Declarations
<1>4. \A x \in Modules : /\ IsRead(x)' <=> IsRead(x)
                         /\ IsEmitted(x)' <=> IsEmitted(x)
                         /\ Imports(x)' = Imports(x)
  BY <1>2 DEF IsRead, IsEmitted, Imports
<1>5. \A x \in Modules : IsInProgress(x)' <=> x = t \/ IsInProgress(x)
  <2>1. \A x \in Modules : IsInProgress(x) <=> \E i \in 1..Len(stack) : stack[i].module = x
    BY <1>0, InProgress
  <2>2. DOMAIN stack' = 1..Len(stack')
    BY <1>1, LenProperties
  <2>3. \A x \in Modules : IsInProgress(x)' <=> \E i \in 1..Len(stack') : stack'[i].module = x
    BY <2>2 DEF IsInProgress
  <2>. QED BY <1>1, <2>1, <2>3
<1>6. \A x \in Modules : IsVisited(x) => IsVisited(x)'
  BY <1>4, <1>5 DEF IsVisited
<1>7. FramesAreOpen'
  <2>1. ~IsEmitted(t) /\ \A i \in 1..Len(stack) : stack[i].module # t
    BY <1>0, <1>1, InProgress DEF IsVisited
  <2>2. IsRead(stack[Len(stack)].module)
    BY <1>0, TopIsAFrame
  <2>3. \A i \in 1..Len(stack') : i \in 1..Len(stack) \/ i = Len(stack')
    BY <1>1
  <2>4. \A i \in 1..Len(stack') : ~IsEmitted(stack[i].module)'
    BY <1>1, <1>4, <2>1, <2>3 DEF IInv, FramesAreOpen
  <2>5. \A i, j \in 1..Len(stack') : stack'[i].module = stack'[j].module => i = j
    BY <1>1, <2>1, <2>3 DEF IInv, FramesAreOpen
  <2>6. \A i \in 1..Len(stack') : i < Len(stack') => IsRead(stack[i].module)'
    BY <1>1, <1>4, <2>2, <2>3 DEF IInv, FramesAreOpen
  <2>. QED BY <2>4, <2>5, <2>6 DEF FramesAreOpen
<1>8. ImportsAreVisited'
  <2>1. \A x \in Modules : IsRead(x) =>
          \A k \in 1..Len(Imports(x)) : Imports(x)[k] \in Modules
    BY <1>0, ImportsAreModules
  <2>2. ASSUME NEW i \in 1..Len(stack')
        PROVE  IF IsRead(stack[i].module)'
               THEN VisitedUpTo(stack[i].module, stack[i].next)'
               ELSE stack'[i].next = 1
    <3>1. CASE i = Len(stack')
      BY <1>1, <1>4, <3>1, <2>1 DEF VisitedUpTo
    <3>2. CASE i \in 1..Len(stack)
      BY <1>1, <1>4, <1>6, <3>2, <2>1 DEF IInv, ImportsAreVisited, VisitedUpTo
    <3>. QED BY <1>1, <3>1, <3>2
  <2>3. \A x \in Modules : IsEmitted(x)' =>
          IsRead(x)' /\ \A k \in 1..Len(Imports(x)') : IsVisited(Imports(x)[k])'
    BY <1>4, <1>6, <2>1 DEF IInv, ImportsAreVisited
  <2>. QED BY <2>2, <2>3 DEF ImportsAreVisited
<1>9. EntryIsVisited'
  BY <1>2, <1>6, GraphAssumption DEF IInv, EntryIsVisited
<1>10. VisitsAreAwaited'
  BY <1>2, <1>4, <1>5 DEF IInv, VisitsAreAwaited
<1>. QED BY <1>3, <1>7, <1>8, <1>9, <1>10 DEF IInv

\* The visit of an import has returned, and the next one comes up.
LEMMA CollectImportKeeps ==
  ASSUME IInv, NEW m \in Modules, CollectImport(m)
  PROVE  IInv'
<1> DEFINE t == NextImport(m)
<1>0. TypeOK /\ IsVisiting(m) /\ IsRead(m) /\ HasImport(m) /\ IsVisited(t)
  BY DEF IInv, CollectImport, HasImport, IsRead, IsSettled
<1>1. /\ Len(stack) \in Nat \ {0}
      /\ stack[Len(stack)].module = m
      /\ \A i \in 1..Len(stack) : stack[i] \in FrameSet
      /\ stack' \in Seq(FrameSet)
      /\ Len(stack') = Len(stack)
      /\ \A i \in 1..Len(stack) :
           /\ stack'[i].module = stack[i].module
           /\ stack'[i].next = IF i = Len(stack) THEN stack[i].next + 1 ELSE stack[i].next
  BY <1>0, TopIsAFrame, CollectAdvances
<1>2. UNCHANGED <<project, disk, watched, building, contexts, compiled, source, reused, completed,
                  emitted, seen>>
  BY DEF CollectImport, cacheVars
<1>3. t \in Modules /\ t = Imports(m)[stack[Len(stack)].next]
  BY <1>0, ImportsAreModules, TopIsAFrame DEF HasImport, NextImport
<1>4. /\ decls' = decls \/ decls' = [decls EXCEPT ![m] = Collected(m, t)]
      /\ waiting' = waiting
         \/ (t \notin completed /\ waiting' = [waiting EXCEPT ![t] = @ \cup {m}])
  BY DEF CollectImport
<1>. HIDE DEF t
<1>5. TypeOK'
  <2>1. IsRead(t)
    BY <1>0, <1>3, VisitedAreRead
  <2>2. <<t, source[t]>> \in Declarations
    BY <1>0, <1>3, <2>1 DEF TypeOK, IsRead, Declarations
  <2>3. Collected(m, t) \subseteq Declarations
    BY <1>0, <1>3, <2>2 DEF TypeOK, Collected
  <2>4. decls' \in [Modules -> SUBSET Declarations]
    <3>1. decls \in [Modules -> SUBSET Declarations]
      BY <1>0 DEF TypeOK
    <3>. QED BY <1>4, <2>3, <3>1
  <2>5. waiting' \in [Modules -> SUBSET Modules]
    <3>1. waiting \in [Modules -> SUBSET Modules]
      BY <1>0 DEF TypeOK
    <3>2. waiting' = waiting \/ waiting' = [waiting EXCEPT ![t] = waiting[t] \cup {m}]
      BY <1>4
    <3>. QED BY <1>3, <3>1, <3>2
  <2>. QED BY <1>0, <1>1, <1>2, <2>4, <2>5 DEF TypeOK, FrameSet, Declarations
<1>6. \A x \in Modules : /\ IsRead(x)' <=> IsRead(x)
                         /\ IsEmitted(x)' <=> IsEmitted(x)
                         /\ Imports(x)' = Imports(x)
  BY <1>2 DEF IsRead, IsEmitted, Imports
<1>7. \A x \in Modules : IsInProgress(x)' <=> IsInProgress(x)
  <2>1. DOMAIN stack = 1..Len(stack) /\ DOMAIN stack' = 1..Len(stack)
    BY <1>0, <1>1, LenProperties DEF TypeOK
  <2>. QED BY <1>1, <2>1 DEF IsInProgress
<1>8. \A x \in Modules : IsVisited(x)' <=> IsVisited(x)
  BY <1>6, <1>7 DEF IsVisited
<1>9. \A i \in 1..Len(stack) : stack[i].module \in Modules /\ stack[i].next \in Nat
  BY <1>1 DEF FrameSet
<1>10. FramesAreOpen'
  BY <1>1, <1>6, <1>9 DEF IInv, FramesAreOpen
<1>11. ImportsAreVisited'
  <2>1. \A x \in Modules : IsRead(x) =>
          \A k \in 1..Len(Imports(x)) : Imports(x)[k] \in Modules
    BY <1>0, ImportsAreModules
  <2>2. ASSUME NEW i \in 1..Len(stack')
        PROVE  IF IsRead(stack[i].module)'
               THEN VisitedUpTo(stack[i].module, stack[i].next)'
               ELSE stack'[i].next = 1
    <3>1. CASE i = Len(stack)
      <4>1. VisitedUpTo(m, stack[Len(stack)].next)
        BY <1>0, <1>1 DEF IInv, ImportsAreVisited
      <4>2. \A k \in 1..Len(Imports(m)) :
              k < stack[Len(stack)].next + 1 => IsVisited(Imports(m)[k])
        BY <1>0, <1>1, <1>3, <1>9, <4>1 DEF VisitedUpTo
      <4>. QED BY <1>0, <1>1, <1>6, <1>8, <2>1, <3>1, <4>2 DEF VisitedUpTo
    <3>2. CASE i # Len(stack)
      <4>1. /\ i \in 1..Len(stack) /\ stack[i].module \in Modules
            /\ stack'[i].module = stack[i].module /\ stack'[i].next = stack[i].next
        BY <1>1, <1>9, <3>2
      <4>2. IF IsRead(stack[i].module)
            THEN VisitedUpTo(stack[i].module, stack[i].next)
            ELSE stack[i].next = 1
        BY <4>1 DEF IInv, ImportsAreVisited
      <4>. QED BY <1>6, <1>8, <2>1, <4>1, <4>2 DEF VisitedUpTo
    <3>. QED BY <3>1, <3>2
  <2>3. \A x \in Modules : IsEmitted(x)' =>
          IsRead(x)' /\ \A k \in 1..Len(Imports(x)') : IsVisited(Imports(x)[k])'
    BY <1>6, <1>8, <2>1 DEF IInv, ImportsAreVisited
  <2>. QED BY <2>2, <2>3 DEF ImportsAreVisited
<1>12. EntryIsVisited'
  BY <1>2, <1>8, GraphAssumption DEF IInv, EntryIsVisited
<1>13. VisitsAreAwaited'
  <2>1. t \notin completed => IsInProgress(t)
    BY <1>0, <1>3 DEF IInv, VisitsAreAwaited, IsVisited
  <2>2. waiting \in [Modules -> SUBSET Modules]
    BY <1>0 DEF TypeOK
  <2>. QED BY <1>2, <1>3, <1>4, <1>6, <1>7, <2>1, <2>2 DEF IInv, VisitsAreAwaited
<1>. QED BY <1>5, <1>10, <1>11, <1>12, <1>13 DEF IInv

\* The end of a visit: the module leaves the stack and is emitted.
LEMMA CompileModuleKeeps ==
  ASSUME IInv, NEW m \in Modules, CompileModule(m)
  PROVE  IInv'
<1>0. TypeOK /\ IsVisiting(m) /\ IsRead(m) /\ ~HasImport(m)
  BY DEF IInv, CompileModule, IsRead
<1>1. /\ Len(stack) \in Nat \ {0}
      /\ stack[Len(stack)].module = m
      /\ \A i \in 1..Len(stack) : stack[i].module \in Modules /\ stack[i].next \in Nat \ {0}
      /\ stack' \in Seq(FrameSet)
      /\ Len(stack') = Len(stack) - 1
      /\ \A i \in 1..(Len(stack) - 1) : stack'[i] = stack[i]
  BY <1>0, TopIsAFrame, CompilePops DEF FrameSet
<1>2. UNCHANGED <<project, disk, watched, building, source, reused, seen>>
  BY DEF CompileModule
<1>3. /\ Program(m) \in [text : Texts \cup {Unknown}, uses : SUBSET Declarations]
      /\ Program(m) # NoProgram
  BY <1>0 DEF TypeOK, Program, NoProgram, IsRead
<1>4. TypeOK'
  <2>1. decls' \in [Modules -> SUBSET Declarations]
    BY <1>0 DEF CompileModule, TypeOK
  <2>2. contexts' \in [Modules -> [text : Texts \cup {Unknown}, decls : SUBSET Declarations]]
    <3>1. \A c \in Modules :
            contexts[c] \in [text : Texts \cup {Unknown}, decls : SUBSET Declarations]
      BY <1>0 DEF TypeOK
    <3>2. \A c \in Modules : [contexts[c] EXCEPT !.decls = decls'[c]]
                               \in [text : Texts \cup {Unknown}, decls : SUBSET Declarations]
      BY <2>1, <3>1
    <3>3. [text |-> source[m], decls |-> decls'[m]]
            \in [text : Texts \cup {Unknown}, decls : SUBSET Declarations]
      BY <1>0, <2>1 DEF TypeOK
    <3>4. contexts' = [c \in Modules |->
            CASE c = m /\ m \notin reused -> [text |-> source[m], decls |-> decls'[m]]
              [] c # m /\ c \in waiting[m] -> [contexts[c] EXCEPT !.decls = decls'[c]]
              [] OTHER -> contexts[c]]
      BY DEF CompileModule
    <3>. QED BY <3>1, <3>2, <3>3, <3>4
  <2>3. /\ compiled' \in [Modules -> [text : Texts \cup {Unknown}, uses : SUBSET Declarations]]
        /\ emitted' \in [Modules -> [text : Texts \cup {Unknown}, uses : SUBSET Declarations]]
    BY <1>0, <1>3 DEF CompileModule, TypeOK
  <2>4. completed' \subseteq Modules /\ waiting' \in [Modules -> SUBSET Modules]
    BY <1>0 DEF CompileModule, TypeOK
  <2>. QED BY <1>0, <1>1, <1>2, <2>1, <2>2, <2>3, <2>4 DEF TypeOK, FrameSet, Declarations
<1>5. \A x \in Modules : /\ IsRead(x)' <=> IsRead(x)
                         /\ IsEmitted(x)' <=> x = m \/ IsEmitted(x)
                         /\ Imports(x)' = Imports(x)
  <2>1. emitted' = [emitted EXCEPT ![m] = Program(m)] /\ emitted \in [Modules ->
          [text : Texts \cup {Unknown}, uses : SUBSET Declarations]]
    BY <1>0 DEF CompileModule, TypeOK
  <2>2. \A x \in Modules : emitted'[x] = IF x = m THEN Program(m) ELSE emitted[x]
    BY <2>1
  <2>3. \A x \in Modules : IsEmitted(x)' <=> x = m \/ IsEmitted(x)
    BY <1>3, <2>2 DEF IsEmitted, NoProgram
  <2>. QED BY <1>2, <2>3 DEF IsRead, Imports
<1>6. \A x \in Modules : IsInProgress(x)' <=> x # m /\ IsInProgress(x)
  <2>1. \A x \in Modules : IsInProgress(x) <=> \E i \in 1..Len(stack) : stack[i].module = x
    BY <1>0, InProgress
  <2>2. \A x \in Modules : IsInProgress(x)' <=> \E i \in 1..Len(stack') : stack'[i].module = x
    BY <1>4, InProgress, <1>1, LenProperties DEF IsInProgress
  <2>3. \A i \in 1..Len(stack) : stack[i].module = m => i = Len(stack)
    BY <1>1 DEF IInv, FramesAreOpen
  <2>4. \A i \in 1..Len(stack) : i = Len(stack) \/ i \in 1..(Len(stack) - 1)
    BY <1>1
  <2>5. ASSUME NEW x \in Modules, NEW i \in 1..Len(stack'), stack'[i].module = x
        PROVE  x # m /\ \E j \in 1..Len(stack) : stack[j].module = x
    BY <1>1, <2>3, <2>5
  <2>6. ASSUME NEW x \in Modules, x # m, NEW j \in 1..Len(stack), stack[j].module = x
        PROVE  \E i \in 1..Len(stack') : stack'[i].module = x
    <3>1. j \in 1..(Len(stack) - 1)
      BY <1>1, <2>4, <2>6
    <3>. QED BY <1>1, <2>6, <3>1
  <2>. QED BY <2>1, <2>2, <2>5, <2>6
<1>7. \A x \in Modules : IsVisited(x)' <=> IsVisited(x)
  <2>1. IsInProgress(m)
    BY <1>0, <1>1, InProgress
  <2>. QED BY <1>5, <1>6, <2>1 DEF IsVisited
<1>8. FramesAreOpen'
  <2>1. \A i \in 1..Len(stack') : /\ i \in 1..Len(stack) /\ i < Len(stack)
                                  /\ stack'[i] = stack[i]
                                  /\ stack[i].module # m
    BY <1>1 DEF IInv, FramesAreOpen
  <2>2. \A i \in 1..Len(stack') : ~IsEmitted(stack[i].module)' /\ IsRead(stack[i].module)'
    BY <1>1, <1>5, <2>1 DEF IInv, FramesAreOpen
  <2>3. \A i, j \in 1..Len(stack') : stack'[i].module = stack'[j].module => i = j
    BY <2>1 DEF IInv, FramesAreOpen
  <2>. QED BY <2>2, <2>3 DEF FramesAreOpen
<1>9. ImportsAreVisited'
  <2>1. \A x \in Modules : IsRead(x) =>
          \A k \in 1..Len(Imports(x)) : Imports(x)[k] \in Modules
    BY <1>0, ImportsAreModules
  <2>2. \A k \in 1..Len(Imports(m)) : IsVisited(Imports(m)[k])
    <3>1. stack[Len(stack)].next \notin 1..Len(Imports(m)) /\ Len(Imports(m)) \in Nat
      BY <1>0, ImportsAreModules, TopIsAFrame DEF HasImport, IsRead
    <3>2. VisitedUpTo(m, stack[Len(stack)].next)
      BY <1>0, <1>1 DEF IInv, ImportsAreVisited
    <3>. QED BY <1>1, <3>1, <3>2 DEF VisitedUpTo
  <2>3. ASSUME NEW i \in 1..Len(stack')
        PROVE  IF IsRead(stack[i].module)'
               THEN VisitedUpTo(stack[i].module, stack[i].next)'
               ELSE stack'[i].next = 1
    <3>1. i \in 1..Len(stack) /\ stack'[i] = stack[i]
      BY <1>1
    <3>. QED BY <1>1, <1>5, <1>7, <2>1, <3>1 DEF IInv, ImportsAreVisited, VisitedUpTo
  <2>4. \A x \in Modules : IsEmitted(x)' =>
          IsRead(x)' /\ \A k \in 1..Len(Imports(x)') : IsVisited(Imports(x)[k])'
    BY <1>0, <1>5, <1>7, <2>1, <2>2 DEF IInv, ImportsAreVisited
  <2>. QED BY <2>3, <2>4 DEF ImportsAreVisited
<1>10. EntryIsVisited'
  BY <1>2, <1>7, GraphAssumption DEF IInv, EntryIsVisited
<1>11. VisitsAreAwaited'
  <2>1. completed' = completed \cup {m} /\ waiting' = [waiting EXCEPT ![m] = {}]
    BY DEF CompileModule
  <2>2. waiting \in [Modules -> SUBSET Modules]
    BY <1>0 DEF TypeOK
  <2>. QED BY <1>5, <1>6, <2>1, <2>2 DEF IInv, VisitsAreAwaited
<1>. QED BY <1>4, <1>8, <1>9, <1>10, <1>11 DEF IInv

LEMMA NextKeeps == IInv /\ [Next]_vars => IInv'
<1>. SUFFICES ASSUME IInv, [Next]_vars PROVE IInv'
  OBVIOUS
<1>1. CASE UNCHANGED vars
  <2>1. UNCHANGED <<project, disk, watched, building, contexts, compiled, stack, source, reused,
                    decls, completed, waiting, emitted, seen>>
    BY <1>1 DEF vars, cacheVars, buildVars
  <2>2. TypeOK'
    BY <2>1 DEF IInv, TypeOK, Declarations
  <2>. QED BY <2>1, <2>2, CallerKeeps
<1>2. ASSUME NEW m \in Modules, Write(m) PROVE IInv'
  BY <1>2, WriteKeeps
<1>3. ASSUME NEW m \in Modules, VisitStep(m) PROVE IInv'
  BY <1>3, ReadModuleKeeps, VisitImportKeeps, CollectImportKeeps, CompileModuleKeeps
  DEF VisitStep
<1>. QED BY <1>1, <1>2, <1>3, BuildStartsKeeps, BuildEndsKeeps DEF Next

LEMMA InvariantHolds == Spec => []IInv
BY InitHolds, NextKeeps, PTL DEF Spec

-----------------------------------------------------------------------------
(* The theorems.                                                           *)

\* Every state variable keeps its type; among others, no module takes over
\* declarations of one whose text was not read.
THEOREM TypeCorrect == Spec => []TypeOK
<1>1. IInv => TypeOK
  BY DEF IInv
<1>. QED BY <1>1, InvariantHolds, PTL

\* The result of a build holds the entry and all that it reaches, whatever
\* cycles the imports form and whatever the cache held, and no module is left
\* waiting for a context.
THEOREM BundlesAreComplete == Spec => []BundleIsComplete
<1>1. IInv => BundleIsComplete
  <2>. SUFFICES ASSUME IInv, HasResult
                PROVE  /\ \A m \in {Entry} \cup Reachable(Entry) : IsEmitted(m)
                       /\ \A m \in Modules : waiting[m] = {}
    BY DEF BundleIsComplete
  <2>1. \A m \in Modules : ~IsInProgress(m)
    BY DEF HasResult, IsInProgress
  <2>2. IsEmitted(Entry) /\ Entry \in Modules
    BY <2>1, GraphAssumption DEF IInv, EntryIsVisited, IsVisited, HasResult
  <2> DEFINE S == {m \in Modules : IsEmitted(m)}
  <2>3. \A x \in S : ImportSet(x) \subseteq S
    <3>. SUFFICES ASSUME NEW x \in Modules, IsEmitted(x) PROVE ImportSet(x) \subseteq S
      OBVIOUS
    <3>1. IsRead(x) /\ \A k \in 1..Len(Imports(x)) : IsVisited(Imports(x)[k])
      BY DEF IInv, ImportsAreVisited
    <3>2. /\ DOMAIN Imports(x) = 1..Len(Imports(x))
          /\ \A k \in 1..Len(Imports(x)) : Imports(x)[k] \in Modules
      BY <3>1, ImportsAreModules DEF IInv
    <3>. QED BY <2>1, <3>1, <3>2 DEF ImportSet, IsVisited
  <2>4. S \in SUBSET Modules /\ ImportSet(Entry) \subseteq S
    BY <2>2, <2>3
  <2>5. Reachable(Entry) \subseteq S
    <3>. HIDE DEF S
    <3>. QED BY <2>3, <2>4 DEF Reachable
  <2>6. \A m \in Modules : waiting[m] = {}
    BY <2>1 DEF IInv, VisitsAreAwaited
  <2>. QED BY <2>2, <2>5, <2>6
<1>. QED BY <1>1, InvariantHolds, PTL

-----------------------------------------------------------------------------
(***************************************************************************)
(* The cache, whatever changes the builds are told of: what a module was   *)
(* compiled against.                                                       *)
(*                                                                         *)
(* First what a module imports itself: a                                   *)
(* context is reused for the same imports only, and a cycle is cut at the  *)
(* module in progress, whose own declarations are taken over although its  *)
(* context is not complete.                                                *)
(***************************************************************************)

\* Two texts of a module with the same imports.
Fits(c, v, w) == v # Unknown /\ project.imports[c][v] = project.imports[c][w]

\* Declarations of the imports of a text of c up to a position, and of all of
\* them, of whatever text.
Covers(pairs, c, v, next) ==
  \A k \in 1..Len(project.imports[c][v]) :
    k < next => \E pair \in pairs : pair[1] = project.imports[c][v][k]

CoversAll(pairs, c, v) ==
  \A k \in 1..Len(project.imports[c][v]) :
    \E pair \in pairs : pair[1] = project.imports[c][v][k]

CacheCovers ==
  \A c \in Modules :
    /\ contexts[c].text # Unknown => CoversAll(contexts[c].decls, c, contexts[c].text)
    /\ compiled[c].text # Unknown => CoversAll(compiled[c].uses, c, compiled[c].text)

\* Modules are read in their visits, where the reuse of a context is decided.
ReadAreVisited == \A m \in Modules : IsRead(m) => IsVisited(m)
ReusedFit == \A m \in reused : IsRead(m) /\ Fits(m, contexts[m].text, source[m])

VisitsCover ==
  \A i \in 1..Len(stack) :
    IsRead(stack[i].module) =>
      IF stack[i].module \in reused
      THEN CoversAll(decls[stack[i].module], stack[i].module, source[stack[i].module])
      ELSE Covers(decls[stack[i].module], stack[i].module, source[stack[i].module], stack[i].next)

\* What is emitted is kept, with a context for what was read.
ProgramsCover ==
  \A c \in Modules : IsEmitted(c) =>
    /\ CoversAll(emitted[c].uses, c, source[c])
    /\ CoversAll(decls[c], c, source[c])
    /\ Fits(c, contexts[c].text, source[c])
    /\ compiled[c] = emitted[c] /\ emitted[c].text = source[c]

\* A module that waits for another is emitted, or its visit was begun during
\* that of the other, and ends before it.
WaitersEndFirst ==
  \A m \in Modules : \A c \in waiting[m] :
    IsEmitted(c) \/ \E i, j \in 1..Len(stack) :
                     i <= j /\ stack[i].module = m /\ stack[j].module = c

DirectInv ==
  /\ CacheCovers
  /\ ReadAreVisited
  /\ ReusedFit
  /\ VisitsCover
  /\ ProgramsCover
  /\ WaitersEndFirst

\* What is visited stays visited to the end of the build.
LEMMA VisitedStay ==
  ASSUME IInv, NEW m \in Modules, VisitStep(m), NEW x \in Modules, IsVisited(x)
  PROVE  IsVisited(x)'
<1>1. TypeOK /\ IsVisiting(m) /\ Len(stack) \in Nat /\ DOMAIN stack = 1..Len(stack)
  <2>1. TypeOK /\ IsVisiting(m)
    BY DEF IInv, VisitStep, ReadModule, VisitImport, CollectImport, CompileModule, HasImport
  <2>. QED BY <2>1, LenProperties DEF TypeOK
<1>2. IsEmitted(x) \/ \E i \in 1..Len(stack) : stack[i].module = x
  BY <1>1 DEF IsVisited, IsInProgress
<1>3. CASE ReadModule(m)
  BY <1>3 DEF ReadModule, IsVisited, IsInProgress, IsEmitted
<1>4. CASE VisitImport(m)
  <2>1. IsRead(m) /\ emitted' = emitted
    BY <1>4 DEF VisitImport, HasImport, IsRead
  <2>2. /\ stack' \in Seq(FrameSet) /\ Len(stack') = Len(stack) + 1
        /\ \A i \in 1..Len(stack) : stack'[i] = stack[i]
    BY <1>1, <1>4, <2>1, VisitPushes
  <2>3. DOMAIN stack' = 1..(Len(stack) + 1)
    BY <2>2, LenProperties
  <2>. QED BY <1>1, <1>2, <2>1, <2>2, <2>3 DEF IsVisited, IsInProgress, IsEmitted
<1>5. CASE CollectImport(m)
  <2>1. emitted' = emitted
    BY <1>5 DEF CollectImport
  <2>2. /\ stack' \in Seq(FrameSet) /\ Len(stack') = Len(stack)
        /\ \A i \in 1..Len(stack) : stack'[i].module = stack[i].module
    BY <1>1, <1>5, CollectAdvances
  <2>3. DOMAIN stack' = 1..Len(stack)
    BY <2>2, LenProperties
  <2>. QED BY <1>2, <2>1, <2>2, <2>3 DEF IsVisited, IsInProgress, IsEmitted
<1>6. CASE CompileModule(m)
  <2>1. emitted' = [emitted EXCEPT ![m] = Program(m)] /\ Program(m) # NoProgram
    BY <1>1, <1>6 DEF CompileModule, Program, NoProgram
  <2>2. /\ stack' \in Seq(FrameSet) /\ Len(stack') = Len(stack) - 1
        /\ \A i \in 1..(Len(stack) - 1) : stack'[i] = stack[i]
        /\ stack[Len(stack)].module = m
    BY <1>1, <1>6, CompilePops, TopIsAFrame
  <2>3. DOMAIN stack' = 1..(Len(stack) - 1)
    BY <2>2, LenProperties
  <2>4. x = m \/ IsEmitted(x) => IsEmitted(x)'
    BY <1>1, <2>1 DEF IsEmitted, TypeOK
  <2>5. ASSUME NEW i \in 1..Len(stack), stack[i].module = x, x # m PROVE IsInProgress(x)'
    <3>1. i \in 1..(Len(stack) - 1)
      BY <1>1, <2>2, <2>5
    <3>. QED BY <2>2, <2>3, <2>5, <3>1 DEF IsInProgress
  <2>. QED BY <1>2, <2>4, <2>5 DEF IsVisited
<1>. QED BY <1>3, <1>4, <1>5, <1>6 DEF VisitStep

\* More declarations cover what fewer do, and the texts keep their imports.
LEMMA CoversGrow ==
  ASSUME NEW A, NEW B, A \subseteq B
  PROVE  /\ \A c, v, n : Covers(A, c, v, n) => Covers(B, c, v, n)
         /\ \A c, v : CoversAll(A, c, v) => CoversAll(B, c, v)
BY DEF Covers, CoversAll

LEMMA CoversStay ==
  ASSUME project' = project
  PROVE  /\ \A pairs, c, v, n : Covers(pairs, c, v, n)' <=> Covers(pairs, c, v, n)
         /\ \A pairs, c, v : CoversAll(pairs, c, v)' <=> CoversAll(pairs, c, v)
BY DEF Covers, CoversAll

LEMMA DirectInitHolds == Init => DirectInv
<1>. SUFFICES ASSUME Init PROVE DirectInv
  OBVIOUS
<1>1. \A m \in Modules : /\ ~IsRead(m) /\ ~IsEmitted(m) /\ waiting[m] = {}
                         /\ contexts[m].text = Unknown /\ compiled[m].text = Unknown
  BY DEF Init, NotRead, IsRead, IsEmitted, NoContext, NoProgram
<1>2. reused = {} /\ \A i \in 1..Len(stack) : stack[i].module \in Modules
  BY GraphAssumption DEF Init
<1>3. CacheCovers /\ ReadAreVisited /\ ReusedFit
  BY <1>1, <1>2 DEF CacheCovers, ReadAreVisited, ReusedFit
<1>4. VisitsCover /\ ProgramsCover /\ WaitersEndFirst
  BY <1>1, <1>2 DEF VisitsCover, ProgramsCover, WaitersEndFirst
<1>. QED BY <1>3, <1>4 DEF DirectInv

\* Steps that are no part of a visit.
LEMMA DirectCallerKeeps ==
  ASSUME DirectInv,
         UNCHANGED <<project, contexts, compiled, stack, source, reused, decls, waiting, emitted>>
  PROVE  DirectInv'
<1>0. CacheCovers /\ VisitsCover
  BY DEF DirectInv
<1>1. CacheCovers' /\ VisitsCover'
  <2>1. CacheCovers'
    BY <1>0 DEF CacheCovers, CoversAll
  <2>2. VisitsCover'
    BY <1>0, CoversStay DEF VisitsCover, IsRead
  <2>. QED BY <2>1, <2>2
<1>2. ReadAreVisited' /\ ReusedFit'
  BY DEF DirectInv, ReadAreVisited, ReusedFit, Fits, IsRead, IsEmitted, IsVisited, IsInProgress
<1>3. ProgramsCover' /\ WaitersEndFirst'
  BY DEF DirectInv, ProgramsCover, WaitersEndFirst, Fits, CoversAll, IsEmitted
<1>. QED BY <1>1, <1>2, <1>3 DEF DirectInv

LEMMA DirectStartsKeeps ==
  ASSUME DirectInv, NEW changed, BuildStarts(changed)
  PROVE  DirectInv'
<1>1. \A m \in Modules : ~IsRead(m)' /\ ~IsEmitted(m)' /\ waiting'[m] = {}
  BY DEF BuildStarts, NotRead, IsRead, IsEmitted
<1>2. reused' = {} /\ \A i \in 1..Len(stack') : stack'[i].module \in Modules
  BY GraphAssumption DEF BuildStarts, Frame
<1>3. ReadAreVisited' /\ ReusedFit' /\ VisitsCover' /\ ProgramsCover' /\ WaitersEndFirst'
  BY <1>1, <1>2
  DEF ReadAreVisited, ReusedFit, VisitsCover, ProgramsCover, WaitersEndFirst
<1>4. CacheCovers'
  <2>1. project' = project
    BY DEF BuildStarts
  <2>2. CASE IsKept(changed)
    BY <2>1, <2>2 DEF BuildStarts, DirectInv, CacheCovers, CoversAll
  <2>3. CASE ~IsKept(changed)
    BY <2>3 DEF BuildStarts, CacheCovers, NoContext, NoProgram
  <2>. QED BY <2>2, <2>3
<1>. QED BY <1>3, <1>4 DEF DirectInv

\* A context that is reused was collected for the same imports.
LEMMA DirectReadKeeps ==
  ASSUME IInv, DirectInv, NEW m \in Modules, ReadModule(m)
  PROVE  DirectInv'
<1>1. /\ UNCHANGED <<project, contexts, compiled, stack, waiting, emitted>>
      /\ IsVisiting(m) /\ ~IsRead(m) /\ TypeOK
  BY DEF ReadModule, IsRead, cacheVars, IInv
<1>2. \A x \in Modules : x # m => /\ source'[x] = source[x]
                                  /\ decls'[x] = decls[x]
                                  /\ x \in reused' <=> x \in reused
  BY DEF ReadModule, IInv, TypeOK
<1>3. /\ Len(stack) \in Nat \ {0}
      /\ \A i \in 1..Len(stack) : stack[i].module \in Modules
      /\ \A i \in 1..Len(stack) : stack[i].module = m => stack[i].next = 1
  BY <1>1, TopIsAFrame DEF IInv, ImportsAreVisited, FrameSet
<1>4. source'[m] = disk[m] /\ disk[m] # Unknown
  BY GraphAssumption DEF ReadModule, IInv, TypeOK, Texts, Unknown
<1>5. m \in reused' => Fits(m, contexts[m].text, disk[m]) /\ CoversAll(decls'[m], m, disk[m])
  <2>1. m \notin reused
    BY <1>1 DEF DirectInv, ReusedFit
  <2>2. CASE IsReusable(m, disk[m])
    <3>1. Fits(m, contexts[m].text, disk[m]) /\ decls'[m] = contexts[m].decls
      BY <2>2 DEF ReadModule, IsReusable, Fits, IInv, TypeOK
    <3>2. CoversAll(contexts[m].decls, m, contexts[m].text)
      BY <3>1 DEF DirectInv, CacheCovers, Fits
    <3>. QED BY <3>1, <3>2 DEF CoversAll, Fits
  <2>3. CASE ~IsReusable(m, disk[m])
    BY <2>1, <2>3 DEF ReadModule
  <2>. QED BY <2>2, <2>3
<1>6. VisitsCover'
  <2>0. UNCHANGED <<project, stack>>
    BY <1>1
  <2>. SUFFICES ASSUME NEW i \in 1..Len(stack), IsRead(stack[i].module)'
                PROVE  IF stack[i].module \in reused'
                       THEN CoversAll(decls'[stack[i].module], stack[i].module,
                                      source'[stack[i].module])
                       ELSE Covers(decls'[stack[i].module], stack[i].module,
                                   source'[stack[i].module], stack[i].next)
    BY <2>0, CoversStay DEF VisitsCover
  <2>1. CASE stack[i].module = m
    <3>1. Covers(decls'[m], m, source'[m], stack[i].next)
      BY <1>1, <1>3, <2>1 DEF Covers
    <3>. QED BY <1>4, <1>5, <2>1, <3>1
  <2>2. CASE stack[i].module # m
    <3>1. /\ source'[stack[i].module] = source[stack[i].module]
          /\ decls'[stack[i].module] = decls[stack[i].module]
          /\ stack[i].module \in reused' <=> stack[i].module \in reused
      BY <1>2, <1>3, <2>2
    <3>2. IsRead(stack[i].module)
      BY <1>1, <3>1 DEF IsRead
    <3>3. IF stack[i].module \in reused
          THEN CoversAll(decls[stack[i].module], stack[i].module, source[stack[i].module])
          ELSE Covers(decls[stack[i].module], stack[i].module, source[stack[i].module],
                      stack[i].next)
      BY <3>2 DEF DirectInv, VisitsCover
    <3>. QED BY <1>1, <3>1, <3>3
  <2>. QED BY <2>1, <2>2
<1>7. ProgramsCover'
  <2>1. \A c \in Modules : IsEmitted(c)' => IsEmitted(c) /\ c # m
    BY <1>1 DEF IsEmitted, IInv, ImportsAreVisited
  <2>. QED BY <1>1, <1>2, <2>1 DEF DirectInv, ProgramsCover, CoversAll, Fits
<1>8. CacheCovers' /\ WaitersEndFirst'
  BY <1>1 DEF DirectInv, CacheCovers, CoversAll, WaitersEndFirst, IsEmitted
<1>9. ReusedFit'
  <2>1. reused' \subseteq reused \cup {m} /\ reused \subseteq Modules
    BY <1>1 DEF ReadModule, TypeOK
  <2>2. \A x \in reused' : x # m => x \in reused /\ source'[x] = source[x]
    BY <1>2, <2>1
  <2>3. \A x \in reused' : x # m => IsRead(x)' /\ Fits(x, contexts[x].text, source[x])'
    BY <1>1, <2>2 DEF DirectInv, ReusedFit, IsRead, Fits
  <2>4. m \in reused' => IsRead(m)' /\ Fits(m, contexts[m].text, source[m])'
    BY <1>1, <1>4, <1>5 DEF IsRead, Fits
  <2>. QED BY <2>3, <2>4 DEF ReusedFit
<1>10. ReadAreVisited'
  <2>1. IsVisited(m)
    BY <1>1, TopIsAFrame, InProgress DEF IsVisited
  <2>2. \A x \in Modules : IsVisited(x)' <=> IsVisited(x)
    BY <1>1 DEF IsVisited, IsInProgress, IsEmitted
  <2>. QED BY <1>2, <2>1, <2>2 DEF DirectInv, ReadAreVisited, IsRead
<1>. QED BY <1>6, <1>7, <1>8, <1>9, <1>10 DEF DirectInv

LEMMA DirectVisitKeeps ==
  ASSUME IInv, DirectInv, NEW m \in Modules, VisitImport(m)
  PROVE  DirectInv'
<1> DEFINE t == NextImport(m)
<1>1. /\ UNCHANGED <<project, contexts, compiled, source, reused, decls, waiting, emitted>>
      /\ IsVisiting(m) /\ IsRead(m) /\ ~IsVisited(t) /\ TypeOK
  BY DEF VisitImport, HasImport, IsRead, cacheVars, IInv
<1>2. /\ t \in Modules
      /\ Len(stack) \in Nat
      /\ Len(stack') = Len(stack) + 1
      /\ \A i \in 1..Len(stack) : stack'[i] = stack[i] /\ stack[i].module \in Modules
      /\ stack'[Len(stack')] = [module |-> t, next |-> 1]
  <2>1. Len(stack) \in Nat /\ \A i \in 1..Len(stack) : stack[i].module \in Modules
    BY <1>1, TopIsAFrame DEF FrameSet
  <2>. QED BY <1>1, <2>1, VisitPushes
<1>. HIDE DEF t
<1>3. CacheCovers' /\ ReusedFit' /\ ProgramsCover'
  BY <1>1 DEF DirectInv, CacheCovers, ReusedFit, ProgramsCover, CoversAll, Fits, IsRead, IsEmitted
<1>4. ReadAreVisited'
  BY <1>1, VisitedStay DEF DirectInv, ReadAreVisited, IsRead, VisitStep
<1>5. VisitsCover'
  <2>. SUFFICES ASSUME NEW i \in 1..Len(stack'), IsRead(stack[i].module)'
                PROVE  IF stack'[i].module \in reused'
                       THEN CoversAll(decls[stack[i].module], stack[i].module,
                                      source[stack[i].module])'
                       ELSE Covers(decls[stack[i].module], stack[i].module,
                                   source[stack[i].module], stack[i].next)'
    BY DEF VisitsCover
  <2>1. CASE i = Len(stack')
    <3>1. ~IsRead(t)
      BY <1>1, <1>2 DEF DirectInv, ReadAreVisited
    <3>. QED BY <1>1, <1>2, <2>1, <3>1 DEF IsRead
  <2>2. CASE i \in 1..Len(stack)
    <3>1. stack'[i] = stack[i] /\ IsRead(stack[i].module)
      BY <1>1, <1>2, <2>2 DEF IsRead
    <3>2. IF stack[i].module \in reused
          THEN CoversAll(decls[stack[i].module], stack[i].module, source[stack[i].module])
          ELSE Covers(decls[stack[i].module], stack[i].module, source[stack[i].module],
                      stack[i].next)
      BY <2>2, <3>1 DEF DirectInv, VisitsCover
    <3>. QED BY <1>1, <3>1, <3>2 DEF Covers, CoversAll
  <2>. QED BY <1>2, <2>1, <2>2
<1>6. WaitersEndFirst'
  BY <1>1, <1>2 DEF DirectInv, WaitersEndFirst, IsEmitted
<1>. QED BY <1>3, <1>4, <1>5, <1>6 DEF DirectInv

\* An import in progress is mentioned although its context is not complete.
LEMMA DirectCollectKeeps ==
  ASSUME IInv, DirectInv, NEW m \in Modules, CollectImport(m)
  PROVE  DirectInv'
<1> DEFINE t == NextImport(m)
<1>1. /\ UNCHANGED <<project, contexts, compiled, source, reused, emitted>>
      /\ IsVisiting(m) /\ IsRead(m) /\ IsVisited(t) /\ TypeOK
  BY DEF CollectImport, HasImport, IsSettled, IsRead, cacheVars, IInv
<1>2. /\ Len(stack) \in Nat \ {0} /\ Len(stack') = Len(stack)
      /\ stack[Len(stack)].module = m
      /\ \A i \in 1..Len(stack) :
           /\ stack[i].module \in Modules /\ stack[i].next \in Nat
           /\ stack'[i].module = stack[i].module
           /\ stack'[i].next = IF i = Len(stack) THEN stack[i].next + 1 ELSE stack[i].next
  BY <1>1, TopIsAFrame, CollectAdvances DEF FrameSet
<1>3. t = Imports(m)[stack[Len(stack)].next] /\ t \in Modules
  <2>1. stack[Len(stack)].next \in 1..Len(Imports(m))
    BY <1>1, ImportsAreModules, TopIsAFrame DEF CollectImport, HasImport
  <2>. QED BY <1>1, <2>1, ImportsAreModules, TopIsAFrame DEF NextImport
<1>4. \/ m \in reused /\ decls' = decls /\ waiting' = waiting
      \/ /\ m \notin reused
         /\ decls' = [decls EXCEPT ![m] = Collected(m, t)]
         /\ \/ waiting' = waiting
            \/ t \notin completed /\ waiting' = [waiting EXCEPT ![t] = waiting[t] \cup {m}]
  BY DEF CollectImport
<1>. HIDE DEF t
<1>5. \A x \in Modules : decls[x] \subseteq decls'[x]
  <2>1. decls \in [Modules -> SUBSET Declarations]
    BY <1>1 DEF TypeOK
  <2>2. decls[m] \subseteq Collected(m, t)
    BY DEF Collected
  <2>. QED BY <1>4, <2>1, <2>2
<1>6. \A x \in Modules : /\ IsRead(x)' <=> IsRead(x)
                         /\ IsEmitted(x)' <=> IsEmitted(x)
                         /\ IsVisited(x) => IsVisited(x)'
  BY <1>1, VisitedStay DEF IsRead, IsEmitted, VisitStep
<1>7. CacheCovers' /\ ReadAreVisited' /\ ReusedFit' /\ ProgramsCover'
  <2>1. CacheCovers'
    BY <1>1 DEF DirectInv, CacheCovers, CoversAll
  <2>2. ReadAreVisited' /\ ReusedFit'
    BY <1>1, <1>6 DEF DirectInv, ReadAreVisited, ReusedFit, Fits, TypeOK
  <2>3. ProgramsCover'
    <3>. SUFFICES ASSUME NEW c \in Modules, IsEmitted(c)
                  PROVE  CoversAll(decls'[c], c, source[c])
      BY <1>1, <1>6 DEF DirectInv, ProgramsCover, CoversAll, Fits
    <3>1. CoversAll(decls[c], c, source[c])
      BY DEF DirectInv, ProgramsCover
    <3>2. decls[c] \subseteq decls'[c]
      BY <1>5
    <3>. QED BY <3>1, <3>2 DEF CoversAll
  <2>. QED BY <2>1, <2>2, <2>3
<1>8. VisitsCover'
  <2>. SUFFICES ASSUME NEW i \in 1..Len(stack'), IsRead(stack[i].module)'
                PROVE  IF stack'[i].module \in reused'
                       THEN CoversAll(decls[stack[i].module], stack[i].module,
                                      source[stack[i].module])'
                       ELSE Covers(decls[stack[i].module], stack[i].module,
                                   source[stack[i].module], stack[i].next)'
    BY DEF VisitsCover
  <2>0. /\ i \in 1..Len(stack) /\ stack'[i].module = stack[i].module
        /\ IsRead(stack[i].module)
    BY <1>1, <1>2 DEF IsRead
  <2>. SUFFICES IF stack[i].module \in reused
                THEN CoversAll(decls'[stack[i].module], stack[i].module, source[stack[i].module])
                ELSE Covers(decls'[stack[i].module], stack[i].module, source[stack[i].module],
                            stack'[i].next)
    BY <1>1, <2>0 DEF CoversAll, Covers
  <2>1. CASE i = Len(stack) /\ m \notin reused
    <3>1. Covers(decls[m], m, source[m], stack[Len(stack)].next)
      BY <1>1, <1>2, <2>1 DEF DirectInv, VisitsCover
    <3>2. <<t, source[t]>> \in decls'[m]
      BY <1>1, <1>4, <2>1 DEF TypeOK, Collected
    <3>3. Covers(decls'[m], m, source[m], stack[Len(stack)].next + 1)
      <4>. SUFFICES ASSUME NEW k \in 1..Len(Imports(m)),
                           k < stack[Len(stack)].next + 1
                    PROVE  \E pair \in decls'[m] : pair[1] = Imports(m)[k]
        BY DEF Covers, Imports
      <4>1. CASE k = stack[Len(stack)].next
        BY <1>3, <3>2, <4>1
      <4>2. CASE k < stack[Len(stack)].next
        BY <1>5, <3>1, <4>2 DEF Covers, Imports
      <4>3. k \in Int
        BY <1>1, ImportsAreModules
      <4>. QED BY <1>2, <4>1, <4>2, <4>3
    <3>4. stack[i].module = m /\ stack'[i].next = stack[Len(stack)].next + 1
      BY <1>2, <2>1
    <3>. QED BY <2>1, <3>3, <3>4
  <2>2. CASE i = Len(stack) /\ m \in reused
    <3>1. stack'[i].module = m /\ CoversAll(decls[m], m, source[m])
      BY <1>1, <1>2, <2>2 DEF DirectInv, VisitsCover
    <3>2. decls[m] \subseteq decls'[m]
      BY <1>5
    <3>. QED BY <1>1, <1>2, <2>2, <3>1, <3>2 DEF CoversAll
  <2>3. CASE i # Len(stack)
    <3>1. /\ stack[i].module \in Modules
          /\ stack'[i].module = stack[i].module /\ stack'[i].next = stack[i].next
      BY <1>2, <2>3
    <3>2. decls[stack[i].module] \subseteq decls'[stack[i].module]
      BY <1>5, <3>1
    <3>3. IF stack[i].module \in reused
          THEN CoversAll(decls[stack[i].module], stack[i].module, source[stack[i].module])
          ELSE Covers(decls[stack[i].module], stack[i].module, source[stack[i].module],
                      stack[i].next)
      BY <2>0 DEF DirectInv, VisitsCover
    <3>. QED BY <1>1, <3>1, <3>2, <3>3 DEF Covers, CoversAll
  <2>. QED BY <2>1, <2>2, <2>3
<1>9. WaitersEndFirst'
  <2>1. \A x \in Modules : \A c \in waiting[x] :
          IsEmitted(c)' \/ \E i, j \in 1..Len(stack') :
                           i <= j /\ stack'[i].module = x /\ stack'[j].module = c
    BY <1>1, <1>2 DEF DirectInv, WaitersEndFirst, IsEmitted
  <2>2. t \notin completed =>
          \E i, j \in 1..Len(stack') : i <= j /\ stack'[i].module = t /\ stack'[j].module = m
    <3>1. t \notin completed => \E i \in 1..Len(stack) : stack[i].module = t
      BY <1>1, <1>3, InProgress DEF IInv, VisitsAreAwaited, IsVisited
    <3>. QED BY <1>2, <3>1
  <2>3. \A x \in Modules : \A c \in waiting'[x] :
          c \in waiting[x] \/ (x = t /\ c = m /\ t \notin completed)
    BY <1>1, <1>4 DEF TypeOK
  <2>. QED BY <2>1, <2>2, <2>3 DEF WaitersEndFirst
<1>. QED BY <1>7, <1>8, <1>9 DEF DirectInv

\* A module that ends its visit has the declarations of all its imports, and
\* so have those that waited for it.
LEMMA DirectCompileKeeps ==
  ASSUME IInv, DirectInv, NEW m \in Modules, CompileModule(m)
  PROVE  DirectInv'
<1>1. /\ UNCHANGED <<project, source, reused>>
      /\ IsVisiting(m) /\ IsRead(m) /\ TypeOK
  BY DEF CompileModule, IsRead, IInv
<1>2. /\ Len(stack) \in Nat \ {0} /\ Len(stack') = Len(stack) - 1
      /\ stack[Len(stack)].module = m
      /\ \A i \in 1..Len(stack) : stack[i].module \in Modules /\ stack[i].next \in Nat \ {0}
      /\ \A i \in 1..(Len(stack) - 1) : stack'[i] = stack[i]
  BY <1>1, TopIsAFrame, CompilePops DEF FrameSet
<1>3. CoversAll(decls[m], m, source[m])
  <2>1. stack[Len(stack)].next \notin 1..Len(Imports(m))
        /\ Len(Imports(m)) \in Nat
    <3>1. Top.next \notin DOMAIN Imports(m)
      BY <1>1 DEF CompileModule, HasImport, IsRead
    <3>. QED BY <1>1, <3>1, ImportsAreModules, TopIsAFrame
  <2>2. IF m \in reused THEN CoversAll(decls[m], m, source[m])
                        ELSE Covers(decls[m], m, source[m], stack[Len(stack)].next)
    BY <1>1, <1>2 DEF DirectInv, VisitsCover
  <2>3. \A k \in 1..Len(project.imports[m][source[m]]) : k < stack[Len(stack)].next
    BY <1>2, <2>1 DEF Imports
  <2>. QED BY <2>2, <2>3 DEF Covers, CoversAll
<1>4. \A x \in Modules : decls[x] \subseteq decls'[x]
  BY DEF CompileModule
<1>5. /\ CoversAll(Program(m).uses, m, source[m])
      /\ Program(m).text = source[m] /\ Program(m) # NoProgram
  BY <1>1, <1>3 DEF Program, NoProgram, IsRead, DirectInv, CacheCovers
<1>6. \A x \in Modules : /\ compiled'[x] = IF x = m THEN Program(m) ELSE compiled[x]
                         /\ emitted'[x] = IF x = m THEN Program(m) ELSE emitted[x]
  BY <1>1 DEF CompileModule, TypeOK
<1>7. \A c \in waiting[m] : c # m => IsEmitted(c)
  BY <1>2 DEF DirectInv, WaitersEndFirst, IInv, FramesAreOpen
<1>8. ASSUME NEW c \in Modules
      PROVE  \/ c = m /\ m \notin reused /\ contexts'[c] = [text |-> source[m], decls |-> decls'[m]]
             \/ /\ c # m /\ c \in waiting[m]
                /\ contexts'[c].text = contexts[c].text /\ contexts'[c].decls = decls'[c]
             \/ ~(c = m /\ m \notin reused) /\ contexts'[c] = contexts[c]
  <2>1. contexts'[c] = CASE c = m /\ m \notin reused -> [text |-> source[m], decls |-> decls'[m]]
                         [] c # m /\ c \in waiting[m] -> [contexts[c] EXCEPT !.decls = decls'[c]]
                         [] OTHER -> contexts[c]
    BY DEF CompileModule
  <2>2. contexts[c] \in [text : Texts \cup {Unknown}, decls : SUBSET Declarations]
    BY <1>1 DEF TypeOK
  <2>3. CASE c # m /\ c \in waiting[m]
    BY <2>1, <2>2, <2>3
  <2>4. CASE ~(c # m /\ c \in waiting[m])
    BY <2>1, <2>4
  <2>. QED BY <2>3, <2>4
<1>9. /\ CacheCovers'
      /\ ReadAreVisited'
      /\ ReusedFit'
  <2>1. ASSUME NEW c \in Modules, contexts'[c].text # Unknown
        PROVE  CoversAll(contexts'[c].decls, c, contexts'[c].text)
    <3>1. CASE c = m /\ m \notin reused /\ contexts'[c] = [text |-> source[m], decls |-> decls'[m]]
      BY <1>3, <1>4, <3>1 DEF CoversAll
    <3>2. CASE /\ c # m /\ c \in waiting[m]
               /\ contexts'[c].text = contexts[c].text /\ contexts'[c].decls = decls'[c]
      <4>1. CoversAll(decls[c], c, source[c]) /\ Fits(c, contexts[c].text, source[c])
        BY <1>7, <3>2 DEF DirectInv, ProgramsCover
      <4>. QED BY <1>4, <3>2, <4>1 DEF CoversAll, Fits
    <3>3. CASE contexts'[c] = contexts[c]
      BY <2>1, <3>3 DEF DirectInv, CacheCovers
    <3>. QED BY <1>8, <3>1, <3>2, <3>3
  <2>2. \A c \in Modules :
          compiled'[c].text # Unknown => CoversAll(compiled'[c].uses, c, compiled'[c].text)
    BY <1>5, <1>6 DEF DirectInv, CacheCovers
  <2>3. CacheCovers'
    BY <1>1, <2>1, <2>2 DEF CacheCovers, CoversAll
  <2>4. ReadAreVisited'
    BY <1>1, VisitedStay DEF DirectInv, ReadAreVisited, IsRead, VisitStep
  <2>5. ASSUME NEW c \in reused PROVE IsRead(c) /\ Fits(c, contexts'[c].text, source[c])
    <3>1. c \in Modules
      BY <1>1 DEF TypeOK
    <3>2. contexts'[c].text = contexts[c].text
      BY <1>8, <3>1
    <3>. QED BY <3>2 DEF DirectInv, ReusedFit
  <2>. QED BY <1>1, <2>3, <2>4, <2>5 DEF ReusedFit, IsRead, Fits
<1>10. VisitsCover'
  <2>. SUFFICES ASSUME NEW i \in 1..(Len(stack) - 1), IsRead(stack[i].module)'
                PROVE  IF stack'[i].module \in reused'
                       THEN CoversAll(decls[stack[i].module], stack[i].module,
                                      source[stack[i].module])'
                       ELSE Covers(decls[stack[i].module], stack[i].module,
                                   source[stack[i].module], stack[i].next)'
    BY <1>2 DEF VisitsCover
  <2>1. i \in 1..Len(stack) /\ stack'[i] = stack[i] /\ stack[i].module \in Modules
    BY <1>2
  <2>2. IF stack[i].module \in reused
        THEN CoversAll(decls[stack[i].module], stack[i].module, source[stack[i].module])
        ELSE Covers(decls[stack[i].module], stack[i].module, source[stack[i].module],
                      stack[i].next)
    BY <1>1, <2>1 DEF DirectInv, VisitsCover, IsRead
  <2>3. decls[stack[i].module] \subseteq decls'[stack[i].module]
    BY <1>4, <2>1
  <2>4. UNCHANGED <<project, source, reused>>
    BY <1>1
  <2>. QED BY <2>1, <2>2, <2>3, <2>4, CoversGrow, CoversStay
<1>11. ProgramsCover'
  <2>0. UNCHANGED <<project, source>>
    BY <1>1
  <2>1. \A c \in Modules : IsEmitted(c)' => c = m \/ IsEmitted(c)
    BY <1>6 DEF IsEmitted
  <2>. SUFFICES ASSUME NEW c \in Modules, c = m \/ IsEmitted(c)
                PROVE  /\ CoversAll(emitted'[c].uses, c, source[c])
                       /\ CoversAll(decls'[c], c, source[c])
                       /\ Fits(c, contexts'[c].text, source[c])
                       /\ compiled'[c] = emitted'[c] /\ emitted'[c].text = source[c]
    BY <2>0, <2>1, CoversStay DEF ProgramsCover, Fits
  <2>2. CoversAll(decls[c], c, source[c])
    BY <1>3 DEF DirectInv, ProgramsCover
  <2>3. CoversAll(decls'[c], c, source[c])
    BY <1>4, <2>2 DEF CoversAll
  <2>4. /\ CoversAll(emitted'[c].uses, c, source[c])
        /\ compiled'[c] = emitted'[c] /\ emitted'[c].text = source[c]
    BY <1>5, <1>6 DEF DirectInv, ProgramsCover
  <2>5. Fits(c, contexts'[c].text, source[c])
    <3>1. CASE c = m /\ m \notin reused
      BY <1>1, <1>8, <3>1 DEF Fits, IsRead
    <3>2. CASE ~(c = m /\ m \notin reused)
      <4>1. contexts'[c].text = contexts[c].text
        BY <1>8, <3>2
      <4>. QED BY <3>2, <4>1 DEF DirectInv, ProgramsCover, ReusedFit
    <3>. QED BY <3>1, <3>2
  <2>. QED BY <2>3, <2>4, <2>5
<1>12. WaitersEndFirst'
  <2>. SUFFICES ASSUME NEW x \in Modules, NEW c \in waiting'[x]
                PROVE  IsEmitted(c)' \/ \E i, j \in 1..Len(stack') :
                         i <= j /\ stack'[i].module = x /\ stack'[j].module = c
    BY DEF WaitersEndFirst
  <2>1. c \in waiting[x] /\ c \in Modules
    BY <1>1 DEF CompileModule, TypeOK
  <2>2. c = m \/ IsEmitted(c) => IsEmitted(c)'
    BY <1>1, <1>5, <1>6, <2>1 DEF IsEmitted
  <2>3. ASSUME NEW i \in 1..Len(stack), NEW j \in 1..Len(stack), c # m,
               i <= j, stack[i].module = x, stack[j].module = c
        PROVE  \E k, l \in 1..Len(stack') : k <= l /\ stack'[k].module = x /\ stack'[l].module = c
    <3>1. j \in 1..(Len(stack) - 1) /\ i \in 1..(Len(stack) - 1)
      BY <1>2, <2>3
    <3>. QED BY <1>2, <2>3, <3>1
  <2>. QED BY <2>1, <2>2, <2>3 DEF DirectInv, WaitersEndFirst
<1>. QED BY <1>9, <1>10, <1>11, <1>12 DEF DirectInv

LEMMA DirectNextKeeps == IInv /\ DirectInv /\ [Next]_vars => DirectInv'
<1>. SUFFICES ASSUME IInv, DirectInv, [Next]_vars PROVE DirectInv'
  OBVIOUS
<1>1. CASE UNCHANGED vars
  BY <1>1, DirectCallerKeeps DEF vars, cacheVars, buildVars
<1>2. ASSUME NEW m \in Modules, Write(m) PROVE DirectInv'
  BY <1>2, DirectCallerKeeps DEF Write, cacheVars, buildVars
<1>3. CASE BuildEnds
  BY <1>3, DirectCallerKeeps DEF BuildEnds, cacheVars, buildVars
<1>4. ASSUME NEW m \in Modules, VisitStep(m) PROVE DirectInv'
  BY <1>4, DirectReadKeeps, DirectVisitKeeps, DirectCollectKeeps, DirectCompileKeeps DEF VisitStep
<1>. QED BY <1>1, <1>2, <1>3, <1>4, DirectStartsKeeps DEF Next

-----------------------------------------------------------------------------
(***************************************************************************)
(* What a module imports by the texts that were seen, by sets closed under *)
(* imports: Below(c, v) is the least of them that holds the imports of the *)
(* text v of c.  A module is compiled against nothing that is not below    *)
(* it.  If nothing below it was seen with two texts or on a cycle, each of *)
(* its imports is emitted by the time it is collected, for if it were in   *)
(* progress its visit would have led to the importer; so what a module is  *)
(* compiled against is closed, and holds all that is below it.  Reading    *)
(* another text of a module takes nothing of this away, since contexts     *)
(* that name the module are then about two texts of it.                    *)
(***************************************************************************)

\* What declarations name, and that their texts were seen.
Named(pairs) == {pair[1] : pair \in pairs}
AreSeen(pairs) == \A pair \in pairs : pair[2] \in seen[pair[1]]

HoldsImports(S, c, v) ==
  \A k \in 1..Len(project.imports[c][v]) : project.imports[c][v][k] \in S

IsClosed(S) == \A x \in S : \A v \in seen[x] : HoldsImports(S, x, v)

Below(c, v) ==
  {d \in Modules : \A S \in SUBSET Modules : HoldsImports(S, c, v) /\ IsClosed(S) => d \in S}

\* The text v of c reaches no cycle and nothing that was seen with two texts.
IsTree(c, v) ==
  /\ c \notin Below(c, v)
  /\ \A x \in Below(c, v) : \A w \in seen[x] : x \notin Below(x, w) /\ seen[x] = {w}

\* Declarations that the text v of c may be compiled against.
Suits(pairs, c, v) ==
  /\ AreSeen(pairs)
  /\ Named(pairs) \subseteq Below(c, v)
  /\ IsTree(c, v) => IsClosed(Named(pairs))

CacheSuits ==
  \A c \in Modules :
    /\ contexts[c].text # Unknown => Suits(contexts[c].decls, c, contexts[c].text)
    /\ compiled[c].text # Unknown => Suits(compiled[c].uses, c, compiled[c].text)

VisitsSuit ==
  \A c \in Modules : IsRead(c) => source[c] \in seen[c] /\ Suits(decls[c], c, source[c])

\* Only a module that reaches a cycle waits for another.
WaitersReachCycles ==
  \A m \in Modules : \A c \in waiting[m] :
    IsRead(c) /\ m \in Below(c, source[c]) /\ ~IsTree(c, source[c])

\* Each visit is of something below the visits under it.
VisitsDescend ==
  \A i, j \in 1..Len(stack) :
    i < j => stack[j].module \in Below(stack[i].module, source[stack[i].module])

SuitInv == CacheSuits /\ VisitsSuit /\ WaitersReachCycles /\ VisitsDescend

LEMMA ImportsAreLists ==
  ASSUME TypeOK, NEW c \in Modules, NEW v \in Texts
  PROVE  /\ Len(project.imports[c][v]) \in Nat
         /\ HoldsImports(Modules, c, v)
<1>1. project.imports \in [Modules -> [Texts -> Seq(Modules)]]
  BY GraphAssumption DEF TypeOK
<1>2. project.imports[c][v] \in Seq(Modules)
  BY <1>1
<1>. QED BY <1>2, LenProperties, ElementOfSeq DEF HoldsImports

LEMMA BelowHoldsImports ==
  ASSUME TypeOK, NEW c \in Modules, NEW v \in Texts
  PROVE  HoldsImports(Below(c, v), c, v)
BY ImportsAreLists DEF Below, HoldsImports

LEMMA BelowIsClosed ==
  ASSUME TypeOK, NEW c \in Modules, NEW v \in Texts
  PROVE  IsClosed(Below(c, v))
<1>. SUFFICES ASSUME NEW x \in Below(c, v), NEW w \in seen[x],
                     NEW k \in 1..Len(project.imports[x][w])
              PROVE  project.imports[x][w][k] \in Below(c, v)
  BY DEF IsClosed, HoldsImports
<1>1. x \in Modules /\ w \in Texts
  BY DEF Below, TypeOK
<1>2. project.imports[x][w][k] \in Modules
  BY <1>1, ImportsAreLists DEF HoldsImports
<1>3. ASSUME NEW S \in SUBSET Modules, HoldsImports(S, c, v), IsClosed(S)
      PROVE  project.imports[x][w][k] \in S
  <2>1. x \in S
    BY <1>3 DEF Below
  <2>. QED BY <1>3, <2>1 DEF IsClosed, HoldsImports
<1>. QED BY <1>2, <1>3 DEF Below

LEMMA BelowIsLeast ==
  ASSUME NEW c, NEW v, NEW S \in SUBSET Modules, HoldsImports(S, c, v), IsClosed(S)
  PROVE  Below(c, v) \subseteq S
BY DEF Below

\* What is below something below c is below c.
LEMMA BelowIsTransitive ==
  ASSUME TypeOK, NEW c \in Modules, NEW v \in Texts, NEW d \in Below(c, v), NEW w \in seen[d]
  PROVE  d \in Modules /\ w \in Texts /\ Below(d, w) \subseteq Below(c, v)
<1>1. d \in Modules /\ w \in Texts
  BY DEF TypeOK, Below
<1>2. HoldsImports(Below(c, v), d, w)
  BY BelowIsClosed DEF IsClosed
<1>3. Below(c, v) \in SUBSET Modules /\ IsClosed(Below(c, v))
  BY BelowIsClosed DEF Below
<1>. QED BY <1>1, <1>2, <1>3, BelowIsLeast

LEMMA BelowIsTree ==
  ASSUME TypeOK, NEW c \in Modules, NEW v \in Texts, IsTree(c, v),
         NEW d \in Below(c, v), NEW w \in seen[d]
  PROVE  IsTree(d, w) /\ seen[d] = {w}
BY BelowIsTransitive DEF IsTree

LEMMA FitsSuits ==
  ASSUME NEW c, NEW v, NEW w, Fits(c, v, w)
  PROVE  /\ Below(c, v) = Below(c, w)
         /\ IsTree(c, v) <=> IsTree(c, w)
         /\ \A pairs : Suits(pairs, c, v) <=> Suits(pairs, c, w)
<1>1. Below(c, v) = Below(c, w)
  BY DEF Fits, Below, HoldsImports
<1>2. IsTree(c, v) <=> IsTree(c, w)
  BY <1>1 DEF IsTree
<1>. QED BY <1>1, <1>2 DEF Suits

\* What declarations name together.
LEMMA NamedTogether ==
  ASSUME NEW A, NEW B
  PROVE  /\ Named(A \cup B) = Named(A) \cup Named(B)
         /\ AreSeen(A) /\ AreSeen(B) => AreSeen(A \cup B)
BY DEF Named, AreSeen

LEMMA NamedOnce ==
  ASSUME NEW x, NEW y
  PROVE  Named({<<x, y>>}) = {x} /\ (y \in seen[x] => AreSeen({<<x, y>>}))
<1>1. <<x, y>>[1] = x /\ <<x, y>>[2] = y
  OBVIOUS
<1>. QED BY <1>1 DEF Named, AreSeen

\* Steps that read nothing leave all of it as it is.
LEMMA SuitsStay ==
  ASSUME UNCHANGED <<project, seen>>
  PROVE  /\ \A c, v : Below(c, v)' = Below(c, v) /\ (IsTree(c, v)' <=> IsTree(c, v))
         /\ \A pairs, c, v : Suits(pairs, c, v)' <=> Suits(pairs, c, v)
<1>1. \A S : IsClosed(S)' <=> IsClosed(S)
  BY DEF IsClosed, HoldsImports
<1>2. \A c, v : Below(c, v)' = Below(c, v)
  BY <1>1 DEF Below, HoldsImports
<1>3. \A c, v : IsTree(c, v)' <=> IsTree(c, v)
  BY <1>2 DEF IsTree
<1>4. \A pairs, c, v : Suits(pairs, c, v)' <=> Suits(pairs, c, v)
  BY <1>1, <1>2, <1>3 DEF Suits, AreSeen, Named
<1>. QED BY <1>2, <1>3, <1>4

\* Another text of a module is read: more may be below, less is a tree.
LEMMA BelowGrows ==
  ASSUME project' = project, \A x \in Modules : seen[x] \subseteq seen'[x]
  PROVE  /\ \A c, v : Below(c, v) \subseteq Below(c, v)'
         /\ \A c, v : IsTree(c, v)' => IsTree(c, v)
<1>1. \A S \in SUBSET Modules : IsClosed(S)' => IsClosed(S)
  BY DEF IsClosed, HoldsImports
<1>2. \A c, v : Below(c, v) \subseteq Below(c, v)'
  BY <1>1 DEF Below, HoldsImports
<1>3. \A c, v : \A x \in Below(c, v) : x \in Modules
  BY DEF Below
<1>. SUFFICES ASSUME NEW c, NEW v, IsTree(c, v)' PROVE IsTree(c, v)
  BY <1>2
<1>4. c \notin Below(c, v)
  BY <1>2 DEF IsTree
<1>5. ASSUME NEW x \in Below(c, v), NEW w \in seen[x] PROVE x \notin Below(x, w) /\ seen[x] = {w}
  <2>1. x \in Below(c, v)' /\ w \in seen'[x] /\ seen[x] \subseteq seen'[x]
    BY <1>2, <1>3
  <2>2. x \notin Below(x, w)' /\ seen'[x] = {w}
    BY <2>1 DEF IsTree
  <2>. QED BY <1>2, <2>1, <2>2
<1>. QED BY <1>4, <1>5 DEF IsTree

\* Declarations that name a module are about every text that it was seen with, as
\* long as it was seen with one only.
LEMMA SuitsGrow ==
  ASSUME TypeOK, project' = project, \A x \in Modules : seen[x] \subseteq seen'[x],
         NEW pairs \in SUBSET Declarations, NEW c, NEW v, Suits(pairs, c, v)
  PROVE  Suits(pairs, c, v)'
<1>1. \A pair \in pairs : pair[1] \in Modules
  BY DEF Declarations
<1>2. AreSeen(pairs)'
  BY <1>1 DEF Suits, AreSeen
<1>3. Named(pairs) \subseteq Below(c, v)'
  BY BelowGrows DEF Suits
<1>4. ASSUME IsTree(c, v)' PROVE IsClosed(Named(pairs))'
  <2>1. IsClosed(Named(pairs))
    BY <1>4, BelowGrows DEF Suits
  <2>2. \A x \in Named(pairs) : seen'[x] \subseteq seen[x]
    <3>. SUFFICES ASSUME NEW pair \in pairs PROVE seen'[pair[1]] \subseteq seen[pair[1]]
      BY DEF Named
    <3>1. pair[2] \in seen[pair[1]] /\ pair[2] \in seen'[pair[1]]
      BY <1>1 DEF Suits, AreSeen
    <3>2. pair[1] \in Below(c, v)'
      BY <1>3 DEF Named
    <3>3. seen'[pair[1]] = {pair[2]}
      BY <1>4, <3>1, <3>2 DEF IsTree
    <3>. QED BY <3>1, <3>3
  <2>. QED BY <2>1, <2>2 DEF IsClosed, HoldsImports, Named
<1>. QED BY <1>2, <1>3, <1>4 DEF Suits, Named

-----------------------------------------------------------------------------
(* Each step keeps the declarations suitable.                              *)

LEMMA NothingSuits ==
  ASSUME NEW c, NEW v
  PROVE  Suits({}, c, v) /\ Suits({}, c, v)'
BY DEF Suits, AreSeen, Named, IsClosed

LEMMA SuitInitHolds == Init => SuitInv
<1>. SUFFICES ASSUME Init PROVE SuitInv
  OBVIOUS
<1>1. \A m \in Modules : /\ ~IsRead(m) /\ waiting[m] = {}
                         /\ contexts[m].text = Unknown /\ compiled[m].text = Unknown
  BY DEF Init, NotRead, IsRead, NoContext, NoProgram
<1>2. Len(stack) = 1
  BY DEF Init
<1>. QED BY <1>1, <1>2 DEF SuitInv, CacheSuits, VisitsSuit, WaitersReachCycles, VisitsDescend

\* Steps that are no part of a visit.
LEMMA SuitCallerKeeps ==
  ASSUME SuitInv, UNCHANGED <<project, contexts, compiled, stack, source, decls, waiting, seen>>
  PROVE  SuitInv'
<1>1. CacheSuits'
  BY SuitsStay DEF SuitInv, CacheSuits
<1>2. VisitsSuit'
  BY SuitsStay DEF SuitInv, VisitsSuit, IsRead
<1>3. WaitersReachCycles' /\ VisitsDescend'
  BY SuitsStay DEF SuitInv, WaitersReachCycles, VisitsDescend, IsRead
<1>. QED BY <1>1, <1>2, <1>3 DEF SuitInv

\* What is kept from build to build was compiled against what was seen since.
LEMMA SuitStartsKeeps ==
  ASSUME SuitInv, NEW changed, BuildStarts(changed)
  PROVE  SuitInv'
<1>1. \A m \in Modules : ~IsRead(m)' /\ waiting'[m] = {}
  BY DEF BuildStarts, NotRead, IsRead
<1>2. Len(stack') = 1
  BY DEF BuildStarts
<1>3. VisitsSuit' /\ WaitersReachCycles' /\ VisitsDescend'
  BY <1>1, <1>2 DEF VisitsSuit, WaitersReachCycles, VisitsDescend
<1>4. CacheSuits'
  <2>1. CASE IsKept(changed)
    <3>1. UNCHANGED <<project, contexts, compiled, seen>>
      BY <2>1 DEF BuildStarts, IsKept
    <3>. QED BY <3>1, SuitsStay DEF SuitInv, CacheSuits
  <2>2. CASE ~IsKept(changed)
    BY <2>2 DEF BuildStarts, CacheSuits, NoContext, NoProgram
  <2>. QED BY <2>1, <2>2
<1>. QED BY <1>3, <1>4 DEF SuitInv

\* The module that is read gets a context for the same imports, or none yet.
LEMMA SuitReadKeeps ==
  ASSUME IInv, DirectInv, SuitInv, NEW m \in Modules, ReadModule(m)
  PROVE  SuitInv'
<1>1. /\ UNCHANGED <<project, contexts, compiled, stack, waiting>>
      /\ TypeOK /\ ~IsRead(m) /\ IsVisiting(m) /\ disk[m] \in Texts
  BY DEF ReadModule, IsRead, cacheVars, IInv, TypeOK
<1>2. /\ \A x \in Modules : x # m => source'[x] = source[x] /\ decls'[x] = decls[x]
      /\ source'[m] = disk[m] /\ disk[m] \in seen'[m]
      /\ \A x \in Modules : seen[x] \subseteq seen'[x]
  BY <1>1 DEF ReadModule, TypeOK
<1>3. \A pairs \in SUBSET Declarations : \A c, v : Suits(pairs, c, v) => Suits(pairs, c, v)'
  BY <1>1, <1>2, SuitsGrow
<1>4. /\ \A c, v : Below(c, v) \subseteq Below(c, v)'
      /\ \A c, v : IsTree(c, v)' => IsTree(c, v)
  BY <1>1, <1>2, BelowGrows
<1>5. \A c \in Modules : /\ contexts[c].decls \in SUBSET Declarations
                         /\ compiled[c].uses \in SUBSET Declarations
                         /\ decls[c] \in SUBSET Declarations
  BY <1>1 DEF TypeOK
<1>6. CacheSuits'
  BY <1>1, <1>3, <1>5 DEF SuitInv, CacheSuits
<1>7. Suits(decls[m], m, source[m])'
  <2>1. CASE IsReusable(m, disk[m])
    <3>1. Fits(m, contexts[m].text, disk[m]) /\ decls'[m] = contexts[m].decls
      BY <1>1, <2>1 DEF ReadModule, IsReusable, Fits, TypeOK
    <3>2. Suits(contexts[m].decls, m, contexts[m].text)
      BY <3>1 DEF SuitInv, CacheSuits, Fits
    <3>3. Suits(contexts[m].decls, m, disk[m])
      BY <3>1, <3>2, FitsSuits
    <3>. QED BY <1>2, <1>3, <1>5, <3>1, <3>3
  <2>2. CASE ~IsReusable(m, disk[m])
    <3>1. decls'[m] = {}
      BY <1>1, <2>2 DEF ReadModule, TypeOK
    <3>. QED BY <3>1, NothingSuits
  <2>. QED BY <2>1, <2>2
<1>8. VisitsSuit'
  <2>. SUFFICES ASSUME NEW c \in Modules, IsRead(c)'
                PROVE  source'[c] \in seen'[c] /\ Suits(decls[c], c, source[c])'
    BY DEF VisitsSuit
  <2>1. CASE c = m
    BY <1>2, <1>7, <2>1
  <2>2. CASE c # m
    <3>1. IsRead(c) /\ source'[c] = source[c] /\ decls'[c] = decls[c]
      BY <1>2, <2>2 DEF IsRead
    <3>. QED BY <1>2, <1>3, <1>5, <3>1 DEF SuitInv, VisitsSuit
  <2>. QED BY <2>1, <2>2
<1>9. WaitersReachCycles'
  <2>. SUFFICES ASSUME NEW x \in Modules, NEW c \in waiting[x]
                PROVE  IsRead(c)' /\ x \in Below(c, source[c])' /\ ~IsTree(c, source[c])'
    BY <1>1 DEF WaitersReachCycles
  <2>1. c \in Modules /\ IsRead(c) /\ x \in Below(c, source[c]) /\ ~IsTree(c, source[c])
    BY <1>1 DEF SuitInv, WaitersReachCycles, TypeOK
  <2>2. source'[c] = source[c]
    BY <1>1, <1>2, <2>1
  <2>. QED BY <1>4, <2>1, <2>2 DEF IsRead
<1>10. VisitsDescend'
  <2>. SUFFICES ASSUME NEW i \in 1..Len(stack), NEW j \in 1..Len(stack), i < j
                PROVE  (stack[j].module \in Below(stack[i].module, source[stack[i].module]))'
    BY <1>1 DEF VisitsDescend
  <2>1. stack[i].module \in Modules /\ Len(stack) \in Nat
    BY <1>1, TopIsAFrame DEF FrameSet
  <2>2. IsRead(stack[i].module)
    BY <2>1 DEF IInv, FramesAreOpen
  <2>3. source'[stack[i].module] = source[stack[i].module]
    BY <1>1, <1>2, <2>1, <2>2
  <2>. QED BY <1>1, <1>4, <2>3 DEF SuitInv, VisitsDescend
<1>. QED BY <1>6, <1>8, <1>9, <1>10 DEF SuitInv

\* The next import is below its importer.
LEMMA NextImportIsBelow ==
  ASSUME TypeOK, NEW m \in Modules, HasImport(m)
  PROVE  /\ IsRead(m) /\ source[m] \in Texts
         /\ NextImport(m) \in Modules
         /\ NextImport(m) \in Below(m, source[m])
<1>1. IsRead(m) /\ IsVisiting(m)
  BY DEF HasImport, IsRead
<1>2. /\ source[m] \in Texts
      /\ Top.next \in 1..Len(project.imports[m][source[m]])
      /\ NextImport(m) = project.imports[m][source[m]][Top.next]
      /\ NextImport(m) \in Modules
  BY <1>1, ImportsAreModules DEF HasImport, NextImport, Imports
<1>3. NextImport(m) \in Below(m, source[m])
  BY <1>2, BelowHoldsImports DEF HoldsImports
<1>. QED BY <1>1, <1>2, <1>3

\* ... and so below all visits in progress.
LEMMA SuitVisitKeeps ==
  ASSUME IInv, SuitInv, NEW m \in Modules, VisitImport(m)
  PROVE  SuitInv'
<1> DEFINE t == NextImport(m)
<1>1. /\ UNCHANGED <<project, contexts, compiled, source, decls, waiting, seen>>
      /\ TypeOK /\ IsVisiting(m) /\ HasImport(m)
  BY DEF VisitImport, HasImport, cacheVars, IInv
<1>2. IsRead(m) /\ source[m] \in seen[m] /\ t \in Below(m, source[m])
  BY <1>1, NextImportIsBelow DEF SuitInv, VisitsSuit
<1>3. /\ Len(stack) \in Nat \ {0} /\ stack[Len(stack)].module = m
      /\ \A i \in 1..Len(stack) : stack[i].module \in Modules
      /\ Len(stack') = Len(stack) + 1
      /\ \A i \in 1..Len(stack) : stack'[i] = stack[i]
      /\ stack'[Len(stack')] = [module |-> t, next |-> 1]
  BY <1>1, <1>2, TopIsAFrame, VisitPushes DEF FrameSet
<1>. HIDE DEF t
<1>4. \A i \in 1..Len(stack) : t \in Below(stack[i].module, source[stack[i].module])
  <2>. SUFFICES ASSUME NEW i \in 1..Len(stack), i < Len(stack)
                PROVE  t \in Below(stack[i].module, source[stack[i].module])
    BY <1>2, <1>3
  <2>1. m \in Below(stack[i].module, source[stack[i].module])
    BY <1>3 DEF SuitInv, VisitsDescend
  <2>2. stack[i].module \in Modules /\ source[stack[i].module] \in Texts
    BY <1>1, <1>3 DEF IInv, FramesAreOpen, IsRead, TypeOK
  <2>3. Below(m, source[m]) \subseteq Below(stack[i].module, source[stack[i].module])
    BY <1>1, <1>2, <2>1, <2>2, BelowIsTransitive
  <2>. QED BY <1>2, <2>3
<1>5. VisitsDescend'
  <2>. SUFFICES ASSUME NEW i \in 1..Len(stack'), NEW j \in 1..Len(stack'), i < j
                PROVE  stack'[j].module \in Below(stack'[i].module, source[stack'[i].module])
    BY <1>1, SuitsStay DEF VisitsDescend
  <2>1. i \in 1..Len(stack) /\ stack'[i] = stack[i]
    BY <1>3
  <2>2. CASE j = Len(stack')
    BY <1>3, <1>4, <2>1, <2>2
  <2>3. CASE j \in 1..Len(stack)
    BY <1>3, <2>1, <2>3 DEF SuitInv, VisitsDescend
  <2>. QED BY <1>3, <2>2, <2>3
<1>6. CacheSuits' /\ VisitsSuit' /\ WaitersReachCycles'
  <2>1. CacheSuits'
    BY <1>1, SuitsStay DEF SuitInv, CacheSuits
  <2>2. VisitsSuit'
    BY <1>1, SuitsStay DEF SuitInv, VisitsSuit, IsRead
  <2>3. WaitersReachCycles'
    BY <1>1, SuitsStay DEF SuitInv, WaitersReachCycles, IsRead
  <2>. QED BY <2>1, <2>2, <2>3
<1>. QED BY <1>5, <1>6 DEF SuitInv

\* An import of a module that reaches no cycle is emitted when it was visited.
LEMMA CollectedAreEmitted ==
  ASSUME IInv, SuitInv, NEW m \in Modules, IsVisiting(m), IsRead(m), IsTree(m, source[m]),
         NEW t \in Below(m, source[m]), IsVisited(t)
  PROVE  IsEmitted(t)
<1>1. /\ TypeOK /\ t \in Modules /\ source[m] \in Texts
      /\ Len(stack) \in Nat \ {0} /\ stack[Len(stack)].module = m
  BY TopIsAFrame DEF IInv, TypeOK, Below, IsRead
<1>. SUFFICES ASSUME NEW i \in 1..Len(stack), stack[i].module = t PROVE FALSE
  BY <1>1, InProgress DEF IsVisited
<1>2. source[t] \in seen[t]
  BY <1>1, VisitedAreRead DEF SuitInv, VisitsSuit
<1>3. t = m \/ m \in Below(t, source[t])
  <2>1. CASE i = Len(stack)
    BY <1>1, <2>1
  <2>2. CASE i < Len(stack)
    BY <1>1, <2>2 DEF SuitInv, VisitsDescend
  <2>. QED BY <1>1, <2>1, <2>2
<1>4. m \in Below(m, source[m])
  BY <1>1, <1>2, <1>3, BelowIsTransitive
<1>. QED BY <1>4 DEF IsTree

\* An import in progress has no context yet, and only a cycle leads back to it.
LEMMA SuitCollectKeeps ==
  ASSUME IInv, DirectInv, SuitInv, NEW m \in Modules, CollectImport(m)
  PROVE  SuitInv'
<1> DEFINE t == NextImport(m)
<1>1. /\ UNCHANGED <<project, contexts, compiled, source, reused, seen>>
      /\ TypeOK /\ IsVisiting(m) /\ HasImport(m) /\ IsVisited(t)
  BY DEF CollectImport, IsSettled, HasImport, cacheVars, IInv
<1>2. /\ IsRead(m) /\ source[m] \in Texts /\ source[m] \in seen[m]
      /\ t \in Modules /\ t \in Below(m, source[m])
      /\ Suits(decls[m], m, source[m])
  BY <1>1, NextImportIsBelow DEF SuitInv, VisitsSuit
<1>3. IsRead(t) /\ source[t] \in seen[t] /\ Suits(decls[t], t, source[t])
  BY <1>1, <1>2, VisitedAreRead DEF SuitInv, VisitsSuit
<1>4. Below(t, source[t]) \subseteq Below(m, source[m])
  BY <1>1, <1>2, <1>3, BelowIsTransitive
<1>5. IsTree(m, source[m]) => IsEmitted(t) /\ t \in completed /\ IsClosed(Named(decls[t]) \cup {t})
  <2>. SUFFICES ASSUME IsTree(m, source[m])
                PROVE  IsEmitted(t) /\ t \in completed /\ IsClosed(Named(decls[t]) \cup {t})
    OBVIOUS
  <2>1. IsEmitted(t)
    BY <1>1, <1>2, CollectedAreEmitted
  <2>2. t \in completed
    BY <1>2, <2>1 DEF IInv, VisitsAreAwaited
  <2>3. IsTree(t, source[t]) /\ seen[t] = {source[t]}
    BY <1>1, <1>2, <1>3, BelowIsTree
  <2>4. IsClosed(Named(decls[t]))
    BY <1>3, <2>3 DEF Suits
  <2>5. HoldsImports(Named(decls[t]), t, source[t])
    <3>1. CoversAll(decls[t], t, source[t])
      BY <1>2, <2>1 DEF DirectInv, ProgramsCover
    <3>. QED BY <3>1 DEF CoversAll, HoldsImports, Named
  <2>. HIDE DEF t
  <2>. QED BY <2>1, <2>2, <2>3, <2>4, <2>5 DEF IsClosed, HoldsImports
<1>6. Suits(Collected(m, t), m, source[m])
  <2> DEFINE context == IF t \in completed THEN decls[t] ELSE {}
             own == {<<t, source[t]>>}
  <2>1. Collected(m, t) = (decls[m] \cup context) \cup own
    BY DEF Collected
  <2>2. AreSeen(context) /\ Named(context) \subseteq Below(m, source[m])
    <3>1. CASE t \in completed
      BY <1>3, <1>4, <3>1 DEF Suits
    <3>2. CASE t \notin completed
      BY <3>2 DEF AreSeen, Named
    <3>. QED BY <3>1, <3>2
  <2>3. AreSeen(own) /\ Named(own) = {t}
    BY <1>3, NamedOnce
  <2>. HIDE DEF context, own
  <2>4. /\ AreSeen((decls[m] \cup context) \cup own)
        /\ Named((decls[m] \cup context) \cup own) = (Named(decls[m]) \cup Named(context)) \cup Named(own)
    <3>1. /\ AreSeen(decls[m] \cup context)
          /\ Named(decls[m] \cup context) = Named(decls[m]) \cup Named(context)
      BY <1>2, <2>2, NamedTogether DEF Suits
    <3> DEFINE both == decls[m] \cup context
    <3>. HIDE DEF both
    <3>2. AreSeen(both \cup own) /\ Named(both \cup own) = Named(both) \cup Named(own)
      BY <2>3, <3>1, NamedTogether DEF both
    <3>. QED BY <3>1, <3>2 DEF both
  <2>5. ASSUME IsTree(m, source[m]) PROVE IsClosed(Named(Collected(m, t)))
    <3>1. Named(context) = Named(decls[t])
      BY <1>5, <2>5 DEF context
    <3>2. IsClosed(Named(decls[m])) /\ IsClosed(Named(decls[t]) \cup {t})
      BY <1>2, <1>5, <2>5 DEF Suits
    <3>. QED BY <2>1, <2>3, <2>4, <3>1, <3>2 DEF IsClosed, HoldsImports
  <2>. QED BY <1>2, <2>1, <2>2, <2>3, <2>4, <2>5 DEF Suits
<1>7. /\ decls' = IF m \in reused THEN decls ELSE [decls EXCEPT ![m] = Collected(m, t)]
      /\ waiting' = waiting
         \/ (t \notin completed /\ waiting' = [waiting EXCEPT ![t] = waiting[t] \cup {m}])
  BY DEF CollectImport
<1>8. /\ Len(stack) \in Nat /\ Len(stack') = Len(stack)
      /\ \A i \in 1..Len(stack) : stack'[i].module = stack[i].module
  BY <1>1, TopIsAFrame, CollectAdvances
<1>. HIDE DEF t
<1>9. CacheSuits'
  BY <1>1, SuitsStay DEF SuitInv, CacheSuits
<1>10. VisitsSuit'
  <2>. SUFFICES ASSUME NEW c \in Modules, IsRead(c)
                PROVE  source[c] \in seen[c] /\ Suits(decls'[c], c, source[c])
    BY <1>1, SuitsStay DEF VisitsSuit, IsRead
  <2>1. source[c] \in seen[c] /\ Suits(decls[c], c, source[c])
    BY DEF SuitInv, VisitsSuit
  <2>2. decls'[c] = decls[c] \/ (c = m /\ decls'[c] = Collected(m, t))
    BY <1>1, <1>7 DEF TypeOK
  <2>. QED BY <1>6, <2>1, <2>2
<1>11. WaitersReachCycles'
  <2>. SUFFICES ASSUME NEW x \in Modules, NEW c \in waiting'[x]
                PROVE  IsRead(c) /\ x \in Below(c, source[c]) /\ ~IsTree(c, source[c])
    BY <1>1, SuitsStay DEF WaitersReachCycles, IsRead
  <2>1. c \in waiting[x] \/ (x = t /\ c = m /\ t \notin completed)
    BY <1>1, <1>7 DEF TypeOK
  <2>. QED BY <1>2, <1>5, <2>1 DEF SuitInv, WaitersReachCycles
<1>12. VisitsDescend'
  BY <1>1, <1>8, SuitsStay DEF SuitInv, VisitsDescend
<1>. QED BY <1>9, <1>10, <1>11, <1>12 DEF SuitInv

\* What the end of a visit leaves in the maps.
LEMMA CompiledMaps ==
  ASSUME IInv, DirectInv, NEW m \in Modules, CompileModule(m), NEW c \in Modules
  PROVE  /\ decls'[c] = IF c \in waiting[m] THEN decls[c] \cup decls[m] ELSE decls[c]
         /\ emitted'[c] = IF c = m THEN Program(m) ELSE emitted[c]
         /\ compiled'[c] = IF c = m THEN Program(m) ELSE compiled[c]
         /\ \/ c = m /\ m \notin reused /\ contexts'[c] = [text |-> source[m], decls |-> decls'[m]]
            \/ /\ c # m /\ c \in waiting[m] /\ IsEmitted(c)
               /\ contexts'[c].text = contexts[c].text /\ contexts'[c].decls = decls'[c]
               /\ Fits(c, contexts[c].text, source[c])
            \/ /\ contexts'[c] = contexts[c]
               /\ c = m => m \in reused /\ Fits(m, contexts[m].text, source[m])
<1>1. /\ TypeOK /\ IsVisiting(m)
      /\ contexts[c] \in [text : Texts \cup {Unknown}, decls : SUBSET Declarations]
  BY DEF CompileModule, IInv, TypeOK
<1>2. /\ decls'[c] = IF c \in waiting[m] THEN decls[c] \cup decls[m] ELSE decls[c]
      /\ emitted'[c] = IF c = m THEN Program(m) ELSE emitted[c]
      /\ compiled'[c] = IF c = m THEN Program(m) ELSE compiled[c]
  BY <1>1 DEF CompileModule, TypeOK
<1>3. contexts'[c] = CASE c = m /\ m \notin reused -> [text |-> source[m], decls |-> decls'[m]]
                       [] c # m /\ c \in waiting[m] -> [contexts[c] EXCEPT !.decls = decls'[c]]
                       [] OTHER -> contexts[c]
  BY DEF CompileModule
<1>4. CASE c # m /\ c \in waiting[m]
  <2>1. IsEmitted(c)
    BY <1>1, <1>4, TopIsAFrame DEF DirectInv, WaitersEndFirst, IInv, FramesAreOpen
  <2>2. Fits(c, contexts[c].text, source[c])
    BY <2>1 DEF DirectInv, ProgramsCover
  <2>. QED BY <1>1, <1>2, <1>3, <1>4, <2>1, <2>2
<1>5. CASE ~(c # m /\ c \in waiting[m])
  <2>1. m \in reused => Fits(m, contexts[m].text, source[m])
    BY DEF DirectInv, ReusedFit
  <2>. QED BY <1>2, <1>3, <1>5, <2>1
<1>. QED BY <1>4, <1>5

\* Modules that waited reach a cycle, so only that what they are handed is below them
\* has to be seen.
LEMMA SuitCompileKeeps ==
  ASSUME IInv, DirectInv, SuitInv, NEW m \in Modules, CompileModule(m)
  PROVE  SuitInv'
<1>1. /\ UNCHANGED <<project, source, reused, seen>>
      /\ TypeOK /\ IsVisiting(m) /\ IsRead(m)
      /\ \A x \in Modules : waiting'[x] \subseteq waiting[x]
  BY DEF CompileModule, IsRead, IInv, TypeOK
<1>2. source[m] \in seen[m] /\ Suits(decls[m], m, source[m])
  BY <1>1 DEF SuitInv, VisitsSuit
<1>3. /\ Len(stack) \in Nat \ {0} /\ Len(stack') = Len(stack) - 1
      /\ \A i \in 1..(Len(stack) - 1) : stack'[i] = stack[i]
  BY <1>1, TopIsAFrame, CompilePops
<1>4. ASSUME NEW c \in Modules, IsRead(c) PROVE Suits(decls'[c], c, source[c])
  <2>1. Suits(decls[c], c, source[c]) /\ source[c] \in Texts
    BY <1>1, <1>4 DEF SuitInv, VisitsSuit, TypeOK, IsRead
  <2>2. CASE c \in waiting[m]
    <3>1. m \in Below(c, source[c]) /\ ~IsTree(c, source[c])
      BY <2>2 DEF SuitInv, WaitersReachCycles
    <3>2. Below(m, source[m]) \subseteq Below(c, source[c])
      BY <1>1, <1>2, <2>1, <3>1, BelowIsTransitive
    <3>3. decls'[c] = decls[c] \cup decls[m]
      BY <2>2, CompiledMaps
    <3>4. AreSeen(decls[c] \cup decls[m]) /\ Named(decls[c] \cup decls[m]) = Named(decls[c]) \cup Named(decls[m])
      BY <1>2, <2>1, NamedTogether DEF Suits
    <3>. QED BY <1>2, <2>1, <3>1, <3>2, <3>3, <3>4 DEF Suits
  <2>3. CASE c \notin waiting[m]
    BY <2>1, <2>3, CompiledMaps
  <2>. QED BY <2>2, <2>3
<1>5. Suits(Program(m).uses, m, source[m]) /\ Program(m).text = source[m]
  BY <1>1, <1>2 DEF Program, SuitInv, CacheSuits, IsRead
<1>6. CacheSuits'
  <2>1. ASSUME NEW c \in Modules, contexts'[c].text # Unknown
        PROVE  Suits(contexts'[c].decls, c, contexts'[c].text)
    <3>1. CASE c = m /\ m \notin reused /\ contexts'[c] = [text |-> source[m], decls |-> decls'[m]]
      BY <1>1, <1>4, <3>1
    <3>2. CASE /\ c # m /\ c \in waiting[m] /\ IsEmitted(c)
               /\ contexts'[c].text = contexts[c].text /\ contexts'[c].decls = decls'[c]
               /\ Fits(c, contexts[c].text, source[c])
      <4>1. Suits(decls'[c], c, source[c])
        BY <1>4, <3>2 DEF IInv, ImportsAreVisited
      <4>. QED BY <3>2, <4>1, FitsSuits
    <3>3. CASE contexts'[c] = contexts[c]
      BY <2>1, <3>3 DEF SuitInv, CacheSuits
    <3>. QED BY <3>1, <3>2, <3>3, CompiledMaps
  <2>2. ASSUME NEW c \in Modules, compiled'[c].text # Unknown
        PROVE  Suits(compiled'[c].uses, c, compiled'[c].text)
    <3>1. compiled'[c] = IF c = m THEN Program(m) ELSE compiled[c]
      BY CompiledMaps
    <3>. QED BY <1>5, <2>2, <3>1 DEF SuitInv, CacheSuits
  <2>. QED BY <1>1, <2>1, <2>2, SuitsStay DEF CacheSuits
<1>7. VisitsSuit'
  <2>. SUFFICES ASSUME NEW c \in Modules, IsRead(c)
                PROVE  source[c] \in seen[c] /\ Suits(decls'[c], c, source[c])
    BY <1>1, SuitsStay DEF VisitsSuit, IsRead
  <2>. QED BY <1>4 DEF SuitInv, VisitsSuit
<1>8. WaitersReachCycles'
  <2>. SUFFICES ASSUME NEW x \in Modules, NEW c \in waiting'[x]
                PROVE  IsRead(c) /\ x \in Below(c, source[c]) /\ ~IsTree(c, source[c])
    BY <1>1, SuitsStay DEF WaitersReachCycles, IsRead
  <2>. QED BY <1>1 DEF SuitInv, WaitersReachCycles
<1>9. VisitsDescend'
  BY <1>1, <1>3, SuitsStay DEF SuitInv, VisitsDescend
<1>. QED BY <1>6, <1>7, <1>8, <1>9 DEF SuitInv

LEMMA SuitNextKeeps == IInv /\ DirectInv /\ SuitInv /\ [Next]_vars => SuitInv'
<1>. SUFFICES ASSUME IInv, DirectInv, SuitInv, [Next]_vars PROVE SuitInv'
  OBVIOUS
<1>1. CASE UNCHANGED vars
  BY <1>1, SuitCallerKeeps DEF vars, cacheVars, buildVars
<1>2. ASSUME NEW m \in Modules, Write(m) PROVE SuitInv'
  BY <1>2, SuitCallerKeeps DEF Write, cacheVars, buildVars
<1>3. CASE BuildEnds
  BY <1>3, SuitCallerKeeps DEF BuildEnds, cacheVars, buildVars
<1>4. ASSUME NEW m \in Modules, VisitStep(m) PROVE SuitInv'
  BY <1>4, SuitReadKeeps, SuitVisitKeeps, SuitCollectKeeps, SuitCompileKeeps DEF VisitStep
<1>. QED BY <1>1, <1>2, <1>3, <1>4, SuitStartsKeeps DEF Next

LEMMA CacheInvariantHolds == Spec => [](IInv /\ DirectInv /\ SuitInv)
BY InitHolds, DirectInitHolds, SuitInitHolds, NextKeeps, DirectNextKeeps, SuitNextKeeps, PTL DEF Spec

-----------------------------------------------------------------------------
(* The theorems.                                                           *)

\* What a module of a bundle was compiled against suits its text.
LEMMA UsesSuit ==
  ASSUME IInv, DirectInv, SuitInv, NEW m \in Modules, IsEmitted(m)
  PROVE  /\ IsRead(m) /\ source[m] \in seen[m] /\ source[m] \in Texts
         /\ emitted[m].text = source[m]
         /\ emitted[m].uses \subseteq Declarations
         /\ CoversAll(emitted[m].uses, m, source[m])
         /\ Suits(emitted[m].uses, m, source[m])
<1>1. IsRead(m) /\ source[m] \in seen[m] /\ source[m] \in Texts /\ emitted[m].uses \subseteq Declarations
  BY DEF IInv, ImportsAreVisited, SuitInv, VisitsSuit, TypeOK, IsRead
<1>2. /\ emitted[m].text = source[m] /\ compiled[m] = emitted[m]
      /\ CoversAll(emitted[m].uses, m, source[m])
  BY DEF DirectInv, ProgramsCover
<1>3. Suits(emitted[m].uses, m, source[m])
  BY <1>1, <1>2 DEF SuitInv, CacheSuits, IsRead
<1>. QED BY <1>1, <1>2, <1>3

\* With the cache kept from build to build, with builds that fail, with files written
\* at any moment and noticed or not, no module is compiled against a text that was not
\* read since the last change that a build was told of.
THEOREM NothingOldIsKept == Spec => []NothingIsStale
<1>1. IInv /\ DirectInv /\ SuitInv => NothingIsStale
  BY UsesSuit DEF NothingIsStale, Suits, AreSeen
<1>. QED BY <1>1, CacheInvariantHolds, PTL

\* Every module of a bundle was compiled against the modules it imports itself, with
\* such a text: no cycle of imports and no reuse of a context or of a result leaves
\* one out.
THEOREM ImportsAreSeen == Spec => []SeesDirectImports
<1>1. IInv /\ DirectInv /\ SuitInv => SeesDirectImports
  <2>. SUFFICES ASSUME IInv, DirectInv, SuitInv, NEW m \in Modules, IsEmitted(m),
                       NEW t \in ImportSet(m)
                PROVE  \E v \in seen[t] : <<t, v>> \in emitted[m].uses
    BY DEF SeesDirectImports
  <2>1. IsRead(m) /\ TypeOK
    BY UsesSuit DEF IInv
  <2>2. PICK k \in 1..Len(project.imports[m][source[m]]) : t = project.imports[m][source[m]][k]
    BY <2>1, ImportsAreModules DEF ImportSet, Imports
  <2>3. PICK pair \in emitted[m].uses : pair[1] = t
    BY <2>2, UsesSuit DEF CoversAll
  <2>4. pair \in Declarations /\ pair[2] \in seen[t]
    BY <2>3, UsesSuit DEF Suits, AreSeen
  <2>5. pair = <<t, pair[2]>>
    BY <2>3, <2>4 DEF Declarations
  <2>. QED BY <2>3, <2>4, <2>5
<1>. QED BY <1>1, CacheInvariantHolds, PTL

\* What a module that was read imports, as a set and as a list.
LEMMA ImportSetHolds ==
  ASSUME TypeOK, NEW x \in Modules, IsRead(x), NEW S
  PROVE  ImportSet(x) \subseteq S <=> HoldsImports(S, x, source[x])
BY ImportsAreModules DEF ImportSet, HoldsImports, Imports

\* What a module reaches by the texts of a build is below it.
LEMMA ReachableIsBelow ==
  ASSUME TypeOK, SuitInv, NEW m \in Modules, IsRead(m)
  PROVE  Reachable(m) \subseteq Below(m, source[m])
<1>1. source[m] \in Texts /\ \A x \in Modules : IsRead(x) => source[x] \in seen[x]
  BY DEF TypeOK, IsRead, SuitInv, VisitsSuit
<1>2. PICK S \in SUBSET Modules : S = Below(m, source[m])
  BY DEF Below
<1>3. HoldsImports(S, m, source[m]) /\ IsClosed(S)
  BY <1>1, <1>2, BelowHoldsImports, BelowIsClosed
<1>4. ImportSet(m) \subseteq S
  BY <1>3, ImportSetHolds
<1>5. ASSUME NEW x \in S, source[x] # Unknown PROVE ImportSet(x) \subseteq S
  <2>1. HoldsImports(S, x, source[x]) /\ x \in Modules /\ IsRead(x)
    BY <1>1, <1>3, <1>5 DEF IsClosed, IsRead
  <2>. QED BY <2>1, ImportSetHolds
<1>. QED BY <1>2, <1>4, <1>5 DEF Reachable

\* If nothing that a module imports was seen with another text, what is below it is
\* what it reaches.
LEMMA BelowIsReachable ==
  ASSUME TypeOK, SuitInv, NEW m \in Modules, IsRead(m), ImportsSettled(m)
  PROVE  Below(m, source[m]) = Reachable(m)
<1>1. \A d \in Reachable(m) : d \in Modules /\ seen[d] = {source[d]} /\ IsRead(d)
  <2>1. \A d \in Reachable(m) : d \in Modules /\ seen[d] = {source[d]}
    BY DEF ImportsSettled, Reachable
  <2>2. \A d \in Reachable(m) : source[d] \in Texts
    BY <2>1 DEF TypeOK
  <2>. QED BY <2>1, <2>2, GraphAssumption DEF IsRead, Texts, Unknown
<1>2. \A x \in Modules : IsRead(x) => ImportSet(x) \subseteq Modules
  BY ImportsAreModules DEF ImportSet
<1>3. /\ Reachable(m) \in SUBSET Modules
      /\ ImportSet(m) \subseteq Reachable(m)
      /\ \A x \in Reachable(m) : ImportSet(x) \subseteq Reachable(m)
  BY <1>1, <1>2 DEF Reachable, IsRead
<1>4. HoldsImports(Reachable(m), m, source[m]) /\ IsClosed(Reachable(m))
  <2>1. HoldsImports(Reachable(m), m, source[m])
    BY <1>3, ImportSetHolds
  <2>2. \A x \in Reachable(m) : HoldsImports(Reachable(m), x, source[x])
    BY <1>1, <1>3, ImportSetHolds
  <2>. QED BY <1>1, <2>1, <2>2 DEF IsClosed
<1>5. Below(m, source[m]) \subseteq Reachable(m)
  BY <1>3, <1>4, BelowIsLeast
<1>. QED BY <1>5, ReachableIsBelow

\* Unless the caller overlooked a change of something it imports, a module of a bundle
\* is compiled against nothing that it does not import, directly or not, and without
\* cycles against all of it: whatever contexts and results are kept from build to
\* build, the bundle is that of a build without a cache.
THEOREM AllImportsAreSeen == Spec => []SeesWhatItImports
<1>1. IInv /\ DirectInv /\ SuitInv => SeesWhatItImports
  <2>. SUFFICES ASSUME IInv, DirectInv, SuitInv, NEW m \in Modules, IsEmitted(m), ImportsSettled(m)
                PROVE  LET imported == {<<d, source[d]>> : d \in Reachable(m)}
                       IN  /\ emitted[m].uses \subseteq imported
                           /\ ImportsNoCycle(m) => emitted[m].uses = imported
    BY DEF SeesWhatItImports
  <2>1. TypeOK /\ Below(m, source[m]) = Reachable(m)
    BY UsesSuit, BelowIsReachable DEF IInv
  <2>2. \A use \in emitted[m].uses :
          use[1] \in Reachable(m) /\ use[2] = source[use[1]] /\ use = <<use[1], source[use[1]]>>
    <3>. SUFFICES ASSUME NEW use \in emitted[m].uses
                  PROVE  use[1] \in Reachable(m) /\ use[2] = source[use[1]] /\ use = <<use[1], use[2]>>
      OBVIOUS
    <3>1. use[1] \in Reachable(m) /\ use[2] \in seen[use[1]] /\ use \in Declarations
      BY <2>1, UsesSuit DEF Suits, AreSeen, Named
    <3>. QED BY <3>1 DEF ImportsSettled, Declarations
  <2>3. ASSUME ImportsNoCycle(m), NEW d \in Reachable(m) PROVE <<d, source[d]>> \in emitted[m].uses
    <3>1. \A x \in Reachable(m) : /\ x \in Modules /\ seen[x] = {source[x]}
                                  /\ Below(x, source[x]) \subseteq Reachable(m)
      BY <2>1, UsesSuit, BelowIsTransitive DEF ImportsSettled, Reachable
    <3>2. ASSUME NEW x \in Reachable(m) PROVE x \notin Below(x, source[x])
      <4>1. x \in Modules /\ IsRead(x)
        <5>1. x \in Modules /\ source[x] \in seen[x] /\ seen[x] \subseteq Texts
          BY <2>1, <3>1 DEF TypeOK
        <5>. QED BY <5>1, GraphAssumption DEF IsRead, Texts, Unknown
      <4>2. \A y \in Below(x, source[x]) : seen[y] = {source[y]}
        BY <3>1
      <4>3. Reachable(x) \subseteq Below(x, source[x])
        BY <2>1, <4>1, <4>2, ReachableIsBelow
      <4>4. ImportsSettled(x)
        BY <4>2, <4>3 DEF ImportsSettled
      <4>5. Below(x, source[x]) = Reachable(x)
        BY <2>1, <4>1, <4>4, BelowIsReachable
      <4>. QED BY <2>3, <4>5 DEF ImportsNoCycle
    <3>3. IsTree(m, source[m])
      BY <2>1, <2>3, <3>1, <3>2 DEF IsTree, ImportsNoCycle
    <3>4. IsClosed(Named(emitted[m].uses)) /\ HoldsImports(Named(emitted[m].uses), m, source[m])
      BY <3>3, UsesSuit DEF Suits, CoversAll, HoldsImports, Named
    <3>5. Named(emitted[m].uses) \in SUBSET Modules
      BY UsesSuit DEF Named, Declarations
    <3>6. d \in Named(emitted[m].uses)
      BY <2>1, <3>4, <3>5, BelowIsLeast
    <3>. QED BY <2>2, <3>6 DEF Named
  <2>. QED BY <2>2, <2>3
<1>. QED BY <1>1, CacheInvariantHolds, PTL
=============================================================================
