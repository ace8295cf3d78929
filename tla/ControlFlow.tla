----------------------------- MODULE ControlFlow ------------------------------
(***************************************************************************)
(* Three analyses of statements:                                           *)
(*   - statementAlwaysExits, on which "Not all code paths return a value"  *)
(*     rests, and statementPreventsSwitchFallthrough, on which the switch  *)
(*     warning and the narrowing after an if rest (controlFlow.ts);        *)
(*   - the check that a var is assigned before it is read                  *)
(*     (DefiniteAssignmentChecker.ts).                                     *)
(* Each is a recursion over the syntax tree.  A statement is a node of     *)
(* that tree here; a part of a node is the record of what the analyses say *)
(* of the part, and the recursive call on it a field of that record:       *)
(*   exits, prevents, visit[a]   the three analyses                        *)
(*   jump                        it is, or as a list holds, a jump         *)
(* A node of one part has it twice.  A list is its first statement and a   *)
(* list of the others, a try with a catch and a finally clause is a        *)
(* finally around a try with a catch clause, and an else branch that is    *)
(* not there is one that does nothing: the code treats them alike.         *)
(*                                                                         *)
(* Left out: defer (its expression is visited where it stands, although it *)
(* runs at the end), with, namespaces, the head of a for loop, jumps       *)
(* inside larger expressions, and what no path semantics tells apart from  *)
(* a block (exports, var lists); the labels of a program are one label.    *)
(***************************************************************************)

CONSTANT Vars       \* the variables that are checked

-----------------------------------------------------------------------------
(* The nodes.  An expression statement is its expression, but for that of *)
(* a jump, (break), which is not the break that a list is searched for.    *)

Node(k, first, second) == [k |-> k, first |-> first, second |-> second]

List(first, rest)     == Node("list", first, rest)
Block(list)           == Node("block", list, list)
If(then, else)        == Node("if", then, else)
While(test, body)     == Node("while", body, test)
DoWhile(body, test)   == Node("do", body, test)
For(body, update)     == Node("for", body, update)
Try(block, catch)     == Node("try", block, catch)
Finally(try, finally) == Node("finally", try, finally)
Labeled(body)         == Node("labeled", body, body)
Function(body)        == Node("function", body, body)
Conditional(l, r)     == Node("conditional", l, r)      \* c ? l : r
Comma(l, r)           == Node("comma", l, r)            \* and l + r
And(l, r)             == Node("and", l, r)              \* and ||, ??

\* cases is a record too: of all their statements (list) and tests, whether one of
\* them is the default, and of what the analyses say of the cases one by one.
Switch(cases) ==
  [k |-> "switch", first |-> cases.list, second |-> cases.tests, cases |-> cases]

Jumps == {"break", "continue", "leave"}      \* leave: break to the label

JumpExpression(c) == Node("expression", c, "")

IsJump(s) ==
  \/ s.k \in Jumps
  \/ s.k = "list" /\ (s.first.jump \/ s.second.jump)

-----------------------------------------------------------------------------
(* controlFlow.ts                                                          *)

\* Bug: jumps in a list are not looked for.
ListAlwaysExitsBug(first, rest) == first.exits \/ rest.exits

\* The list is read up to the first statement that exits, or that jumps.
ListAlwaysExits(first, rest) == first.exits \/ (~first.jump /\ rest.exits)

\* Each case exits when it is entered and runs on to the end: the first one of
\* these, and the others.
CasesExit(list, cases) == ListAlwaysExits(list, cases.list) /\ cases.exits

\* Both sides of a conditional, any part that is sure to be evaluated.
ExpressionAlwaysExits(s) ==
  \/ s.k \in {"return", "throw"}
  \/ s.k = "conditional" /\ s.first.exits /\ s.second.exits
  \/ s.k = "comma" /\ (s.first.exits \/ s.second.exits)
  \/ s.k = "and" /\ s.first.exits

AlwaysExits(s) ==
  \/ ExpressionAlwaysExits(s)
  \/ s.k = "list" /\ ListAlwaysExits(s.first, s.second)
  \/ s.k = "if" /\ s.first.exits /\ s.second.exits
  \/ s.k \in {"block", "do", "labeled"} /\ s.first.exits
  \/ s.k = "switch" /\ s.cases.default /\ s.cases.exits
  \/ s.k = "try" /\ s.first.exits /\ s.second.exits
  \/ s.k = "finally" /\ (s.first.exits \/ s.second.exits)

ExpressionPrevents(s) ==
  \/ s.k \in {"return", "throw", "expression"} \cup Jumps
  \/ s.k = "conditional" /\ s.first.prevents /\ s.second.prevents
  \/ s.k = "comma" /\ (s.first.prevents \/ s.second.prevents)
  \/ s.k = "and" /\ s.first.prevents

\* Bug: a catch clause is not asked for.
TryPreventsBug(s) ==
  \/ s.k = "try" /\ s.first.prevents
  \/ s.k = "finally" /\ (s.first.prevents \/ s.second.prevents)

\* A finally that jumps decides; otherwise the block and its catch clause do.
TryPrevents(s) ==
  \/ s.k = "try" /\ s.first.prevents /\ s.second.prevents
  \/ s.k = "finally" /\ (s.first.prevents \/ s.second.prevents)

PreventsFallthrough(s) ==
  \/ ExpressionPrevents(s)
  \/ s.k = "list" /\ (s.first.prevents \/ s.second.prevents)
  \/ s.k = "if" /\ s.first.prevents /\ s.second.prevents
  \/ s.k \in {"block", "labeled"} /\ s.first.prevents
  \/ TryPrevents(s)

-----------------------------------------------------------------------------
(* DefiniteAssignmentChecker.ts.  Visit(s, a): the variables that count as *)
(* assigned after s, if those of a do before, and those of which a read in *)
(* s was reported.                                                         *)

Visited(assigned, reported) == [assigned |-> assigned, reported |-> reported]

\* intersectStates: assigned when every branch assigned it.
Intersect(x, y) == Visited(x.assigned \cap y.assigned, x.reported \cup y.reported)

\* One part, and the other in the state that leaves.
VisitBoth(first, second, a) ==
  LET x == first.visit[a]
      y == second.visit[x.assigned]
  IN  Visited(y.assigned, x.reported \cup y.reported)

\* Only what is reported in a part counts, not what it assigns.
Aside(a, inner) == Visited(a, inner.reported)

\* The catch clause starts in the state before the block, finally in the state
\* after both.
VisitTry(s, a) ==
  IF s.k = "try" THEN Intersect(s.first.visit[a], s.second.visit[a])
  ELSE VisitBoth(s.first, s.second, a)

\* Each case starts in the state before the switch, with its own test.
VisitCases(test, list, cases, a) == Intersect(VisitBoth(test, list, a), cases.visit[a])

\* Bug: a switch without a default counts like one with.
VisitSwitchBug(s, a) == s.cases.visit[a]

\* Without a default, none of the cases may run.
VisitSwitch(s, a) ==
  IF s.cases.default THEN s.cases.visit[a]
  ELSE Intersect(s.cases.visit[a], Visited(a, {}))

\* Bug: like the other loops, the body counts as possibly not run.
VisitDoBug(s, a) == Aside(a, VisitBoth(s.first, s.second, a))

\* The body is visited in the state itself, then the condition.
VisitDo(s, a) == VisitBoth(s.first, s.second, a)

Visit(s, a) ==
  CASE s.k = "read"   -> Visited(a, {s.first} \ a)
    [] s.k = "assign" -> Visited(a \cup {s.first}, {})
    [] s.k \in {"list", "conditional", "comma", "and"} -> VisitBoth(s.first, s.second, a)
    [] s.k \in {"block", "labeled"} -> s.first.visit[a]
    [] s.k = "if" -> Intersect(s.first.visit[a], s.second.visit[a])
    [] s.k = "while" -> LET test == s.second.visit[a]
                            body == s.first.visit[test.assigned]
                        IN  Visited(test.assigned, test.reported \cup body.reported)
    [] s.k = "do" -> VisitDo(s, a)
    [] s.k = "for" -> Aside(a, VisitBoth(s.first, s.second, a))
    [] s.k = "switch" -> VisitSwitch(s, a)
    [] s.k \in {"try", "finally"} -> VisitTry(s, a)
    [] s.k = "function" -> Aside(a, s.first.visit[a])
    [] OTHER -> Visited(a, {})

\* Reads of variables that are declared without a value, in s, are reported.
Reported(s) == s.visit[{}].reported

\* Bug: the constructor's body does not count towards the class.
ClassFieldReportedBug(initBlock, constructor) == Vars \ initBlock.visit[{}].assigned

\* visitClass for fields without a value: its init block, then its constructor,
\* have not assigned them.
ClassFieldReported(initBlock, constructor) ==
  Vars \ VisitBoth(initBlock, constructor, {}).assigned

=============================================================================
