------------------------------- MODULE Programs -------------------------------
(***************************************************************************)
(* What statements do when they run, the programs that can be built of     *)
(* them, and what the analyses of ControlFlow promise about those.         *)
(* Conditions, discriminants and calls are unknown: either way, any case,  *)
(* and they may throw.                                                     *)
(***************************************************************************)
EXTENDS ControlFlow, Naturals

CONSTANT MaxSteps         \* bound: how often something is added to a program

-----------------------------------------------------------------------------
(* Running.  An outcome: how the statement completed, which variables are  *)
(* assigned then, and which were read before they were.                    *)

Outcomes == [c : {"normal", "return", "throw"} \cup Jumps, a : SUBSET Vars, bad : SUBSET Vars]
Outcome(c, a, bad) == [c |-> c, a |-> a, bad |-> bad]
Normal(a) == Outcome("normal", a, {})

\* The outcomes N of what comes after o.
Following(o, N) == {Outcome(n.c, n.a, o.bad \cup n.bad) : n \in N}

\* What completes by c is followed by next.
After(O, c, next) ==
  {o \in O : o.c # c} \cup UNION {Following(o, next[o.a]) : o \in {x \in O : x.c = c}}

Then(s, t, a) == After(s.run[a], "normal", t.run)

\* Completions of kind c become kind d.
Catch(O, c, d) == {Outcome(IF o.c = c THEN d ELSE o.c, o.a, o.bad) : o \in O}

\* A round of a loop: the body, and then the condition or the update.
Round(s, a) == After(Catch(s.first.run[a], "continue", "normal"), "normal", s.second.run)
Rounds(s, starts) == UNION {Following(o, Round(s, o.a)) : o \in starts}

\* The starts of rounds are what every set contains that has the first of them and,
\* with the start of a round, what that round leads to.
Closed(s) ==
  {S \in SUBSET {o \in Outcomes : o.c = "normal"} :
     \A o \in Rounds(s, S) : o.c = "normal" => o \in S}
Starts(closed, a) == {o \in Outcomes : \A S \in closed : Normal(a) \in S => o \in S}

\* Any number of rounds.
Repeated(s) ==
  LET closed == Closed(s)
  IN  [a \in SUBSET Vars |->
        LET starts == Starts(closed, a)
        IN  Catch(starts \cup Rounds(s, starts), "break", "normal")]

\* The tests run one by one; the first that matches enters its case and runs on from
\* there.  When none does, the default case is entered, if there is one.
Unmatched(cases, a) ==
  IF cases.default THEN After(cases.tests.run[a], "normal", cases.fallback)
  ELSE cases.tests.run[a]

EnterCases(cases, a) == cases.matched[a] \cup Unmatched(cases, a)

\* A read is f(x), an assignment x = f(): f may throw.
Run(s, a) ==
  CASE s.k = "read"   -> {Outcome(c, a, {s.first} \ a) : c \in {"normal", "throw"}}
    [] s.k = "assign" -> {Normal(a \cup {s.first}), Outcome("throw", a, {})}
    [] s.k = "call"   -> {Normal(a), Outcome("throw", a, {})}
    [] s.k = "empty"  -> {Normal(a)}
    [] s.k \in {"return", "throw"} \cup Jumps -> {Outcome(s.k, a, {})}
    [] s.k = "expression" -> {Outcome(s.first, a, {})}
    [] s.k \in {"conditional", "if"} -> s.first.run[a] \cup s.second.run[a]
    [] s.k = "and" -> s.first.run[a] \cup Then(s.first, s.second, a)
    [] s.k \in {"comma", "list"} -> Then(s.first, s.second, a)
    [] s.k = "block" -> s.first.run[a]
    [] s.k = "while" -> After(s.second.run[a], "normal", Repeated(s))
    [] s.k = "do" -> Catch(After(Round(s, a), "normal", Repeated(s)), "break", "normal")
    [] s.k = "for" -> Repeated(s)[a]
    [] s.k = "switch" -> Catch(EnterCases(s.cases, a), "break", "normal")
    [] s.k = "try" -> After(s.first.run[a], "throw", s.second.run)
    [] s.k = "finally" ->
         UNION {Catch(Following(o, s.second.run[o.a]), "normal", o.c) : o \in s.first.run[a]}
    [] s.k = "labeled" -> Catch(s.first.run[a], "leave", "normal")
    \* The function is called at once, or not before the variables are assigned.
    [] s.k = "function" -> {Normal(a)} \cup Catch(s.first.run[a], "return", "normal")

-----------------------------------------------------------------------------
(* The jumps that leave a statement, and the kinds of statements in it.    *)

\* The jumps a statement is the target of.
Targeted(s) ==
  CASE s.k \in {"while", "do", "for"} -> {"break", "continue"}
    [] s.k = "switch" -> {"break"}
    [] s.k = "labeled" -> {"leave"}
    [] OTHER -> {}

IsLeaf(s) ==
  s.k \in {"read", "assign", "call", "empty", "return", "throw", "expression"} \cup Jumps

IsExpression(s) ==
  s.k \in {"read", "assign", "call", "return", "throw", "conditional", "comma", "and"}

FreeJumps(s) ==
  IF s.k \in Jumps THEN {s.k}
  ELSE IF s.k = "expression" THEN {s.first}
  ELSE IF IsLeaf(s) THEN {}
  ELSE (s.first.free \cup s.second.free) \ Targeted(s)

\* Those that are not statements of the statement's own list, but stand deeper.
BuriedJumps(s) ==
  IF IsLeaf(s) /\ s.k # "expression" THEN {}
  ELSE IF s.k = "list" THEN s.first.buried \cup s.second.buried
  ELSE FreeJumps(s)

Assigns(s) == \E a \in SUBSET Vars : s.visit[a].assigned # a

Kinds(s) ==
  ({s.k} \cap {"empty", "return", "throw", "conditional", "and", "finally"})
  \cup (IF s.k \in Jumps \cup {"expression"} THEN FreeJumps(s) ELSE {})
  \cup (IF IsLeaf(s) THEN {} ELSE s.first.kinds \cup s.second.kinds)
  \cup (IF s.k = "labeled" /\ "leave" \in s.first.kinds THEN {"left"} ELSE {})
  \cup (IF s.k = "switch" /\ ~s.cases.single THEN {"cases"} ELSE {})
  \cup (IF s.k = "switch" /\ Assigns(s.cases.tests) THEN {"tests"} ELSE {})
  \cup (IF s.k \in {"do", "switch", "labeled"} /\ s.first.buried \cap Targeted(s) # {}
        THEN {"indirect"} ELSE {})

-----------------------------------------------------------------------------
(* What is known of a statement, as a part of others.                      *)

Statement(s) ==
  [ exits |-> AlwaysExits(s), prevents |-> PreventsFallthrough(s), jump |-> IsJump(s),
    visit |-> [a \in SUBSET Vars |-> Visit(s, a)],
    run   |-> [a \in SUBSET Vars |-> Run(s, a)],
    expression |-> IsExpression(s),
    free |-> FreeJumps(s), buried |-> BuriedJumps(s), kinds |-> Kinds(s) ]

Leaf(k) == Statement(Node(k, "", ""))
Read(v) == Statement(Node("read", v, ""))
Leaves  == {Leaf(k) : k \in {"call", "empty", "return", "throw"} \cup Jumps}
           \cup {Statement(JumpExpression(c)) : c \in Jumps}
           \cup UNION {{Read(v), Statement(Node("assign", v, ""))} : v \in Vars}

\* What stands for an else branch that is not there.
Absent == [Leaf("empty") EXCEPT !.kinds = {}]

\* What is known of the cases of a switch: of none, and of one before others.
NoCases ==
  [ list |-> Absent, tests |-> Absent, default |-> FALSE, none |-> TRUE, single |-> TRUE,
    exits |-> TRUE, visit |-> [a \in SUBSET Vars |-> Visited(Vars, {})],
    matched |-> [a \in SUBSET Vars |-> {}], fallback |-> [a \in SUBSET Vars |-> {}] ]

AddCase(test, list, default, cases) ==
  LET all == Statement(List(list, cases.list))
  IN  [ list |-> all, tests |-> Statement(Comma(test, cases.tests)),
        default |-> default \/ cases.default, none |-> FALSE, single |-> cases.none,
        exits |-> CasesExit(list, cases),
        visit |-> [a \in SUBSET Vars |-> VisitCases(test, list, cases, a)],
        matched |-> [a \in SUBSET Vars |-> After(test.run[a], "normal", cases.matched)
                                            \cup (IF default THEN {} ELSE Then(test, all, a))],
        fallback |-> IF default THEN all.run ELSE cases.fallback ]

-----------------------------------------------------------------------------
(* The programs.                                                           *)

VARIABLES
  statements,       \* the statements there are
  switches,         \* the cases of the switches there are
  steps

vars == <<statements, switches, steps>>

Init == statements = {} /\ switches = {} /\ steps = 0

Add(s) ==
  /\ steps < MaxSteps
  /\ steps' = steps + 1
  /\ statements' = statements \cup {s}

AddLeaf == \E s \in Leaves : Add(s) /\ UNCHANGED switches

\* The composite statements made of s and t.
Combined(s, t) ==
  { List(s, t), Block(s), If(s, t), If(s, Absent), For(s, Absent), Try(s, t),
    Finally(s, t), Labeled(s) }
  \cup (IF s.free = {} THEN {Function(s)} ELSE {})
  \cup (IF t.expression THEN {While(t, s), DoWhile(s, t), For(s, t)} ELSE {})
  \cup (IF s.expression /\ t.expression THEN {Conditional(s, t), Comma(s, t), And(s, t)} ELSE {})

AddStatement ==
  \E s, t \in statements : \E n \in Combined(s, t) : Add(Statement(n)) /\ UNCHANGED switches

\* A switch of one case, with a constant or another test, before those of another.
AddSwitch ==
  \E s \in statements, cases \in switches \cup {NoCases} :
    \E test \in {Absent} \cup {t \in statements : t.expression}, default \in BOOLEAN :
      LET all == AddCase(test, s, default, cases)
      IN  /\ default => test = Absent /\ ~cases.default
          /\ Add(Statement(Switch(all)))
          /\ switches' = switches \cup {all}

Next == AddLeaf \/ AddStatement \/ AddSwitch

Spec == Init /\ [][Next]_vars

-----------------------------------------------------------------------------
(* Properties.                                                             *)

Completions(s) == UNION {{o.c : o \in s.run[a]} : a \in SUBSET Vars}

\* A statement that is said to exit always does, so a body that passes "Not all
\* code paths return a value" never ends without one, as long as every jump out of
\* a do loop, switch or label is a statement of its own list: one in a deeper
\* statement, or in parentheses, is not looked for.
ExitsAreReal ==
  \A s \in statements : s.exits /\ "indirect" \notin s.kinds => "normal" \notin Completions(s)

\* A case that is said not to fall through does not, and what follows an if is
\* narrowed only when its branch cannot reach it - but for branches with a label
\* of their own.
FallthroughIsPrevented ==
  \A s \in statements : s.prevents /\ "left" \notin s.kinds => "normal" \notin Completions(s)

\* Has no jumps, conditional or short-circuit expressions, finally clauses, or cases
\* whose test assigns: all of these may hide a misread.
IsStructured(s) ==
  s.kinds \cap (Jumps \cup {"conditional", "and", "finally", "tests"}) = {}

\* Every path through it goes to its end, and no case falls through.
IsStraight(s) == IsStructured(s) /\ s.kinds \cap {"return", "throw", "empty", "cases"} = {}

\* Read at the end as well, so that what is assigned by then is seen.
Probed(s, v) == Statement(List(s, Read(v)))

Misread(s) == UNION {o.bad : o \in s.run[{}]}

\* In a structured program a read that some path reaches before an assignment is
\* reported, whatever branches, loops, cases, catch clauses and function bodies
\* stand in between.
MisreadsAreReported ==
  \A s \in statements, v \in Vars :
    IsStructured(s) => Misread(Probed(s, v)) \subseteq Reported(Probed(s, v))

\* Nothing else is reported of straight programs.
ReportsAreMisreads ==
  \A s \in statements, v \in Vars :
    IsStraight(s) => Reported(Probed(s, v)) \subseteq Misread(Probed(s, v))

\* The fields that are not assigned on some path to the end of construction, which
\* a return is too.
LeftUnassigned(s, t) ==
  UNION {Vars \ o.a : o \in {x \in Then(s, t, {}) : x.c \in {"normal", "return"}}}

Returns(s) == "return" \in Completions(s)

\* A class field that is not reported is assigned once a structured init block and
\* constructor have completed, whichever of them assigns it, if none returns early,
\* and a field that is reported may be left unassigned if they are straight.
FieldsAreInitialized ==
  \A s, t \in statements :
    /\ IsStructured(s) /\ IsStructured(t) /\ ~Returns(s) /\ ~Returns(t)
         => LeftUnassigned(s, t) \subseteq ClassFieldReported(s, t)
    /\ IsStraight(s) /\ IsStraight(t) => ClassFieldReported(s, t) \subseteq LeftUnassigned(s, t)

\* A local var is assigned on every path before it is read, in whatever program
\* is not reported.
ReadsAreInitialized ==
  \A s \in statements, v \in Vars :
    s.free = {} => Misread(Probed(s, v)) \subseteq Reported(Probed(s, v))

=============================================================================
