-------------------------- MODULE ControlFlow_proofs --------------------------
(***************************************************************************)
(* Theorems about the analyses of statements, for programs of every size   *)
(* and any number of variables.                                            *)
(*                                                                         *)
(* Statements are built of statements, so the induction over the syntax    *)
(* tree is an invariant of Programs: every statement there is Good, which  *)
(* says of one statement all that is needed of its parts.  It is stronger  *)
(* than what the properties ask for:                                       *)
(*   - a statement that is said to exit does not jump out of its own list  *)
(*     either (ExitsRight), or a loop around it could be left;             *)
(*   - what a visit says holds from every state that has at least what the *)
(*     visit starts with (Sound), since loops and handlers are entered in  *)
(*     other states than they are visited in;                              *)
(*   - what is reported, and what is not assigned, shows on some path from *)
(*     every state without the variable (Shown), and something may fail    *)
(*     before it is assigned (Fails), or no handler would be entered.      *)
(* Rounds of a loop are an induction of their own (RepeatedCases): they    *)
(* start in the least set of outcomes that is closed under rounds, so any  *)
(* closed set has them all.                                                *)
(***************************************************************************)
EXTENDS Programs, TLAPS

-----------------------------------------------------------------------------
(* Outcomes, and the operators that combine sets of them: what they hold   *)
(* is said by the predicates below, so that proofs need not expand them.   *)

Runs == [SUBSET Vars -> SUBSET Outcomes]

\* x is what comes of m after o.
Joins(x, o, m) == x.c = m.c /\ x.a = m.a /\ x.bad = o.bad \cup m.bad

\* x is o with completion c made d.
Caught(x, o, c, d) == x.a = o.a /\ x.bad = o.bad /\ x.c = IF o.c = c THEN d ELSE o.c

\* Nothing happened from a to x.
Stays(x, a) == x.c = "normal" /\ x.a = a /\ x.bad = {}

\* x is one of the outcomes After(O, c, next).
ComesAfter(x, O, c, next) ==
  \/ x \in O /\ x.c # c
  \/ \E o \in O : o.c = c /\ \E m \in next[o.a] : Joins(x, o, m)

\* x is an outcome of a round of the loop n.
InRound(x, n, a) ==
  \/ x \in n.first.run[a] /\ x.c \notin {"normal", "continue"}
  \/ \E o \in n.first.run[a] :
       o.c \in {"normal", "continue"} /\ \E m \in n.second.run[o.a] : Joins(x, o, m)

LEMMA OutcomeFields ==
  \A c, a, bad : /\ Outcome(c, a, bad).c = c
                 /\ Outcome(c, a, bad).a = a
                 /\ Outcome(c, a, bad).bad = bad
BY DEF Outcome

LEMMA OutcomeTypes ==
  \A o \in Outcomes : /\ o.c \in {"normal", "return", "throw"} \cup Jumps
                      /\ o.a \in SUBSET Vars /\ o.bad \in SUBSET Vars
BY DEF Outcomes

LEMMA SameOutcome ==
  \A x, y \in Outcomes : x.c = y.c /\ x.a = y.a /\ x.bad = y.bad => x = y
BY DEF Outcomes

LEMMA IsOutcome ==
  \A c \in {"normal", "return", "throw"} \cup Jumps, a, bad \in SUBSET Vars :
    Outcome(c, a, bad) \in Outcomes
BY DEF Outcome, Outcomes

LEMMA NormalOutcome ==
  \A a \in SUBSET Vars : /\ Normal(a) \in Outcomes
                         /\ Normal(a).c = "normal" /\ Normal(a).a = a /\ Normal(a).bad = {}
BY OutcomeFields, IsOutcome DEF Normal

LEMMA FollowingCases ==
  ASSUME NEW o \in Outcomes, NEW N \in SUBSET Outcomes, NEW x \in Following(o, N)
  PROVE  x \in Outcomes /\ \E n \in N : Joins(x, o, n)
<1>1. PICK n \in N : x = Outcome(n.c, n.a, o.bad \cup n.bad)
  BY DEF Following
<1>2. Joins(x, o, n)
  BY <1>1, OutcomeFields DEF Joins
<1>3. x \in Outcomes
  BY <1>1, IsOutcome, OutcomeTypes
<1> QED BY <1>2, <1>3

LEMMA FollowingHas ==
  ASSUME NEW o, NEW N, NEW n \in N
  PROVE  \E x \in Following(o, N) : Joins(x, o, n)
<1>1. Outcome(n.c, n.a, o.bad \cup n.bad) \in Following(o, N)
  BY DEF Following
<1>2. Joins(Outcome(n.c, n.a, o.bad \cup n.bad), o, n)
  BY OutcomeFields DEF Joins
<1> QED BY <1>1, <1>2

LEMMA AfterCases ==
  ASSUME NEW O \in SUBSET Outcomes, NEW c, NEW next \in Runs, NEW x \in After(O, c, next)
  PROVE  x \in Outcomes /\ ComesAfter(x, O, c, next)
<1>1. CASE x \in {o \in O : o.c # c}
  BY <1>1 DEF ComesAfter
<1>2. ASSUME NEW o \in O, o.c = c, x \in Following(o, next[o.a])
      PROVE  x \in Outcomes /\ ComesAfter(x, O, c, next)
  <2>1. o \in Outcomes /\ next[o.a] \in SUBSET Outcomes
    BY OutcomeTypes DEF Runs
  <2>2. x \in Outcomes /\ \E m \in next[o.a] : Joins(x, o, m)
    BY <1>2, <2>1, FollowingCases
  <2> QED BY <1>2, <2>2 DEF ComesAfter
<1>3. QED BY <1>1, <1>2 DEF After

LEMMA AfterHas ==
  ASSUME NEW O, NEW c, NEW next, NEW o \in O
  PROVE  /\ o.c # c => o \in After(O, c, next)
         /\ o.c = c => \A m \in next[o.a] : \E x \in After(O, c, next) : Joins(x, o, m)
<1>1. o.c # c => o \in After(O, c, next)
  BY DEF After
<1>2. ASSUME o.c = c, NEW m \in next[o.a]
      PROVE  \E x \in After(O, c, next) : Joins(x, o, m)
  <2>1. PICK x \in Following(o, next[o.a]) : Joins(x, o, m)
    BY FollowingHas
  <2>2. x \in After(O, c, next)
    BY <1>2 DEF After
  <2> QED BY <2>1, <2>2
<1> QED BY <1>1, <1>2

LEMMA CatchCases ==
  ASSUME NEW O \in SUBSET Outcomes, NEW c, NEW d \in {"normal", "return", "throw"} \cup Jumps,
         NEW x \in Catch(O, c, d)
  PROVE  x \in Outcomes /\ \E o \in O : Caught(x, o, c, d)
<1>1. PICK o \in O : x = Outcome(IF o.c = c THEN d ELSE o.c, o.a, o.bad)
  BY DEF Catch
<1>2. Caught(x, o, c, d)
  BY <1>1, OutcomeFields DEF Caught
<1>3. x \in Outcomes
  BY <1>1, IsOutcome, OutcomeTypes
<1> QED BY <1>2, <1>3

LEMMA CatchHas ==
  ASSUME NEW O, NEW c, NEW d, NEW o \in O
  PROVE  \E x \in Catch(O, c, d) : Caught(x, o, c, d)
<1> DEFINE x == Outcome(IF o.c = c THEN d ELSE o.c, o.a, o.bad)
<1>1. x \in Catch(O, c, d)
  BY DEF Catch
<1>2. Caught(x, o, c, d)
  BY OutcomeFields DEF Caught
<1> QED BY <1>1, <1>2

LEMMA RoundCases ==
  ASSUME NEW n, n.first.run \in Runs, n.second.run \in Runs, NEW a \in SUBSET Vars,
         NEW x \in Round(n, a)
  PROVE  x \in Outcomes /\ InRound(x, n, a)
<1> DEFINE O == Catch(n.first.run[a], "continue", "normal")
<1>1. n.first.run[a] \in SUBSET Outcomes
  BY DEF Runs
<1>2. \A y \in O : y \in Outcomes /\ \E o \in n.first.run[a] : Caught(y, o, "continue", "normal")
  BY <1>1, CatchCases
<1>3. x \in After(O, "normal", n.second.run)
  BY DEF Round
<1> HIDE DEF O
<1>4. O \in SUBSET Outcomes
  BY <1>2
<1>5. x \in Outcomes /\ ComesAfter(x, O, "normal", n.second.run)
  BY <1>3, <1>4, AfterCases
<1>6. CASE x \in O /\ x.c # "normal"
  <2>1. PICK o \in n.first.run[a] : Caught(x, o, "continue", "normal")
    BY <1>2, <1>6
  <2>2. x = o /\ o.c \notin {"normal", "continue"}
    BY <1>1, <1>5, <1>6, <2>1, SameOutcome DEF Caught
  <2> QED BY <1>5, <2>1, <2>2 DEF InRound
<1>7. ASSUME NEW y \in O, y.c = "normal", NEW m \in n.second.run[y.a], Joins(x, y, m)
      PROVE  InRound(x, n, a)
  <2>1. PICK o \in n.first.run[a] : Caught(y, o, "continue", "normal")
    BY <1>2
  <2>2. o.c \in {"normal", "continue"} /\ m \in n.second.run[o.a] /\ Joins(x, o, m)
    BY <1>7, <2>1 DEF Caught, Joins
  <2> QED BY <2>2 DEF InRound
<1> QED BY <1>5, <1>6, <1>7 DEF ComesAfter

LEMMA RoundHas ==
  ASSUME NEW n, NEW a, NEW o \in n.first.run[a]
  PROVE  /\ o.c \notin {"normal", "continue"} =>
              \E x \in Round(n, a) : x.c = o.c /\ x.a = o.a /\ x.bad = o.bad
         /\ o.c \in {"normal", "continue"} => \A m \in n.second.run[o.a] :
              \E x \in Round(n, a) : Joins(x, o, m)
<1> DEFINE O == Catch(n.first.run[a], "continue", "normal")
<1>1. PICK y \in O : Caught(y, o, "continue", "normal")
  BY CatchHas
<1>2. Round(n, a) = After(O, "normal", n.second.run)
  BY DEF Round
<1> HIDE DEF O
<1>3. o.c \notin {"normal", "continue"} => y \in Round(n, a)
  BY <1>1, <1>2, AfterHas DEF Caught
<1>4. ASSUME o.c \in {"normal", "continue"}, NEW m \in n.second.run[o.a]
      PROVE  \E x \in Round(n, a) : Joins(x, o, m)
  <2>1. y.c = "normal" /\ m \in n.second.run[y.a]
    BY <1>1, <1>4 DEF Caught
  <2>2. PICK x \in Round(n, a) : Joins(x, y, m)
    BY <1>2, <2>1, AfterHas
  <2> QED BY <1>1, <2>2 DEF Joins, Caught
<1> QED BY <1>1, <1>3, <1>4 DEF Caught

\* The rounds of a loop, by induction: a set that holds the first start and what the
\* rounds from it lead to holds the start of every round.
LEMMA RepeatedCases ==
  ASSUME NEW n, n.first.run \in Runs, n.second.run \in Runs, NEW a \in SUBSET Vars,
         NEW I \in SUBSET {o \in Outcomes : o.c = "normal"}, Normal(a) \in I,
         \A o \in I : \A m \in Round(n, o.a) :
           m.c = "normal" => Outcome("normal", m.a, o.bad \cup m.bad) \in I,
         NEW x \in Repeated(n)[a]
  PROVE  /\ x \in Outcomes
         /\ \/ x \in I
            \/ \E o \in I : \E m \in Round(n, o.a) : \E y : Joins(y, o, m) /\ Caught(x, y, "break", "normal")
<1> DEFINE starts == Starts(Closed(n), a)
<1>0. \A o \in I : o \in Outcomes /\ o.c = "normal" /\ o.a \in SUBSET Vars
  BY OutcomeTypes
<1>1. ASSUME NEW S \in SUBSET {o \in Outcomes : o.c = "normal"}, NEW y \in Rounds(n, S)
      PROVE  y \in Outcomes /\ \E o \in S : \E m \in Round(n, o.a) : Joins(y, o, m)
  <2>1. PICK o \in S : y \in Following(o, Round(n, o.a))
    BY <1>1 DEF Rounds
  <2>2. o \in Outcomes /\ Round(n, o.a) \in SUBSET Outcomes
    BY OutcomeTypes, RoundCases
  <2> QED BY <2>1, <2>2, FollowingCases
<1>2. I \in Closed(n)
  <2>1. ASSUME NEW y \in Rounds(n, I), y.c = "normal" PROVE y \in I
    <3>0. PICK o \in I : \E m \in Round(n, o.a) : Joins(y, o, m)
      BY <1>1
    <3>1. PICK m \in Round(n, o.a) : Joins(y, o, m)
      BY <3>0
    <3> DEFINE z == Outcome("normal", m.a, o.bad \cup m.bad)
    <3>2. z \in I
      BY <2>1, <3>1 DEF Joins
    <3>3. z.c = "normal" /\ z.a = m.a /\ z.bad = o.bad \cup m.bad
      BY OutcomeFields
    <3>4. z \in Outcomes /\ y \in Outcomes
      BY <1>0, <1>1, <3>2
    <3> HIDE DEF z
    <3>5. y = z
      BY <2>1, <3>1, <3>3, <3>4, SameOutcome DEF Joins
    <3> QED BY <3>2, <3>5
  <2> QED BY <2>1 DEF Closed
<1>3. starts \in SUBSET I
  BY <1>2 DEF Starts
<1>4. x \in Catch(starts \cup Rounds(n, starts), "break", "normal")
  BY DEF Repeated
<1> HIDE DEF starts
<1>5. starts \cup Rounds(n, starts) \in SUBSET Outcomes
  BY <1>0, <1>1, <1>3
<1>6. x \in Outcomes /\ \E y \in starts \cup Rounds(n, starts) : Caught(x, y, "break", "normal")
  BY <1>4, <1>5, CatchCases
<1>7. PICK y \in starts \cup Rounds(n, starts) : Caught(x, y, "break", "normal")
  BY <1>6
<1>8. CASE y \in starts
  <2>1. x = y
    BY <1>0, <1>3, <1>6, <1>7, <1>8, SameOutcome DEF Caught
  <2> QED BY <1>3, <1>6, <1>8, <2>1
<1>9. CASE y \in Rounds(n, starts)
  <2>1. PICK o \in starts : \E m \in Round(n, o.a) : Joins(y, o, m)
    BY <1>0, <1>1, <1>3, <1>9
  <2>2. o \in I /\ \E m \in Round(n, o.a) : Joins(y, o, m) /\ Caught(x, y, "break", "normal")
    BY <1>3, <1>7, <2>1
  <2> QED BY <1>6, <2>2
<1> QED BY <1>7, <1>8, <1>9

LEMMA RepeatedHas ==
  ASSUME NEW n, NEW a \in SUBSET Vars
  PROVE  /\ \E x \in Repeated(n)[a] : Stays(x, a)
         /\ \A m \in Round(n, a) : \E x \in Repeated(n)[a] : Caught(x, m, "break", "normal")
<1> DEFINE starts == Starts(Closed(n), a)
<1> DEFINE all == starts \cup Rounds(n, starts)
<1>1. Normal(a) \in starts
  BY NormalOutcome DEF Starts
<1>2. Repeated(n)[a] = Catch(all, "break", "normal")
  BY DEF Repeated
<1>3. \A y \in all : \E x \in Repeated(n)[a] : Caught(x, y, "break", "normal")
  BY <1>2, CatchHas
<1>4. \E x \in Repeated(n)[a] : Stays(x, a)
  <2>1. PICK x \in Repeated(n)[a] : Caught(x, Normal(a), "break", "normal")
    BY <1>1, <1>3
  <2> QED BY <2>1, NormalOutcome DEF Caught, Stays
<1>5. ASSUME NEW m \in Round(n, a)
      PROVE  \E x \in Repeated(n)[a] : Caught(x, m, "break", "normal")
  <2>1. PICK y \in Following(Normal(a), Round(n, a)) : Joins(y, Normal(a), m)
    BY FollowingHas
  <2>2. y \in all
    BY <1>1, <2>1, NormalOutcome DEF Rounds
  <2>3. PICK x \in Repeated(n)[a] : Caught(x, y, "break", "normal")
    BY <1>3, <2>2
  <2>4. Caught(x, m, "break", "normal")
    BY <2>1, <2>3, NormalOutcome DEF Joins, Caught
  <2> QED BY <2>4
<1> QED BY <1>4, <1>5

LEMMA RepeatedEnds ==
  ASSUME NEW n, n.first.run \in Runs, n.second.run \in Runs, NEW a \in SUBSET Vars,
         NEW x \in Repeated(n)[a]
  PROVE  /\ x \in Outcomes
         /\ \/ x.c = "normal"
            \/ \E b \in SUBSET Vars : \E m \in Round(n, b) : m.c # "break" /\ x.c = m.c
<1> DEFINE I == {o \in Outcomes : o.c = "normal"}
<1>1. I \in SUBSET {o \in Outcomes : o.c = "normal"} /\ Normal(a) \in I
  BY NormalOutcome
<1>2. ASSUME NEW o \in I, NEW m \in Round(n, o.a)
      PROVE  Outcome("normal", m.a, o.bad \cup m.bad) \in I
  <2>1. o.a \in SUBSET Vars /\ o.bad \in SUBSET Vars
    BY OutcomeTypes
  <2>2. m.a \in SUBSET Vars /\ m.bad \in SUBSET Vars
    BY <2>1, RoundCases, OutcomeTypes
  <2> QED BY <2>1, <2>2, IsOutcome, OutcomeFields
<1>3. \A o \in I : o.c = "normal" /\ o.a \in SUBSET Vars
  BY OutcomeTypes
<1> HIDE DEF I
<1>4. /\ x \in Outcomes
      /\ \/ x \in I
         \/ \E o \in I : \E m \in Round(n, o.a) : \E y : Joins(y, o, m) /\ Caught(x, y, "break", "normal")
  BY <1>1, <1>2, RepeatedCases
<1>5. ASSUME NEW o \in I, NEW m \in Round(n, o.a), NEW y, Joins(y, o, m), Caught(x, y, "break", "normal")
      PROVE  x.c = "normal" \/ \E b \in SUBSET Vars : \E z \in Round(n, b) : z.c # "break" /\ x.c = z.c
  BY <1>3, <1>5 DEF Joins, Caught
<1> QED BY <1>3, <1>4, <1>5

LEMMA RepeatedRuns ==
  ASSUME NEW n, n.first.run \in Runs, n.second.run \in Runs
  PROVE  Repeated(n) \in Runs
<1>1. \A a \in SUBSET Vars : Repeated(n)[a] \in SUBSET Outcomes
  BY RepeatedEnds
<1>2. \E f : Repeated(n) = [a \in SUBSET Vars |-> f[a]]
  <2>1. Repeated(n) = [a \in SUBSET Vars |-> Repeated(n)[a]]
    BY DEF Repeated
  <2> QED BY <2>1
<1> QED BY <1>1, <1>2 DEF Runs

-----------------------------------------------------------------------------
(* Statements, kind by kind.                                               *)

LEMMA StatementFields ==
  ASSUME NEW n
  PROVE  /\ Statement(n).exits <=> AlwaysExits(n)
         /\ Statement(n).prevents <=> PreventsFallthrough(n)
         /\ Statement(n).jump <=> IsJump(n)
         /\ Statement(n).expression <=> IsExpression(n)
         /\ Statement(n).free = FreeJumps(n)
         /\ Statement(n).buried = BuriedJumps(n)
         /\ Statement(n).kinds = Kinds(n)
         /\ Statement(n).visit = [a \in SUBSET Vars |-> Visit(n, a)]
         /\ Statement(n).run = [a \in SUBSET Vars |-> Run(n, a)]
BY DEF Statement

LEMMA RunCases ==
  ASSUME NEW n, NEW a
  PROVE  /\ n.k \in {"conditional", "if"} => Run(n, a) = n.first.run[a] \cup n.second.run[a]
         /\ n.k = "and" => Run(n, a) = n.first.run[a] \cup Then(n.first, n.second, a)
         /\ n.k \in {"comma", "list"} => Run(n, a) = Then(n.first, n.second, a)
         /\ n.k = "block" => Run(n, a) = n.first.run[a]
         /\ n.k = "while" => Run(n, a) = After(n.second.run[a], "normal", Repeated(n))
         /\ n.k = "do" => Run(n, a) = Catch(After(Round(n, a), "normal", Repeated(n)), "break", "normal")
         /\ n.k = "for" => Run(n, a) = Repeated(n)[a]
         /\ n.k = "switch" => Run(n, a) = Catch(EnterCases(n.cases, a), "break", "normal")
         /\ n.k = "try" => Run(n, a) = After(n.first.run[a], "throw", n.second.run)
         /\ n.k = "finally" => Run(n, a) =
              UNION {Catch(Following(o, n.second.run[o.a]), "normal", o.c) : o \in n.first.run[a]}
         /\ n.k = "labeled" => Run(n, a) = Catch(n.first.run[a], "leave", "normal")
         /\ n.k = "function" => Run(n, a) = {Normal(a)} \cup Catch(n.first.run[a], "return", "normal")
BY DEF Run, Jumps

LEMMA LeafRuns ==
  ASSUME NEW n, NEW a
  PROVE  /\ n.k = "read" => Run(n, a) = {Outcome(c, a, {n.first} \ a) : c \in {"normal", "throw"}}
         /\ n.k = "assign" => Run(n, a) = {Normal(a \cup {n.first}), Outcome("throw", a, {})}
         /\ n.k = "call" => Run(n, a) = {Normal(a), Outcome("throw", a, {})}
         /\ n.k = "empty" => Run(n, a) = {Normal(a)}
         /\ n.k \in {"return", "throw"} \cup Jumps => Run(n, a) = {Outcome(n.k, a, {})}
BY DEF Run, Jumps

LEMMA JumpRuns ==
  ASSUME NEW n, NEW a, n.k = "expression"
  PROVE  Run(n, a) = {Outcome(n.first, a, {})}
BY DEF Run, Jumps

\* A loop that tests first.
VisitLoop(body, test, a) ==
  Visited(test.visit[a].assigned,
          test.visit[a].reported \cup body.visit[test.visit[a].assigned].reported)

LEMMA VisitsOf ==
  ASSUME NEW n, NEW a
  PROVE  /\ n.k = "read" => Visit(n, a) = Visited(a, {n.first} \ a)
         /\ n.k = "assign" => Visit(n, a) = Visited(a \cup {n.first}, {})
         /\ n.k \in {"call", "empty", "return", "throw", "expression"} \cup Jumps => Visit(n, a) = Visited(a, {})
         /\ n.k \in {"list", "conditional", "comma", "and", "do", "finally"} =>
              Visit(n, a) = VisitBoth(n.first, n.second, a)
         /\ n.k \in {"block", "labeled"} => Visit(n, a) = n.first.visit[a]
         /\ n.k \in {"if", "try"} => Visit(n, a) = Intersect(n.first.visit[a], n.second.visit[a])
         /\ n.k = "while" => Visit(n, a) = VisitLoop(n.first, n.second, a)
         /\ n.k = "for" => Visit(n, a) = Aside(a, VisitBoth(n.first, n.second, a))
         /\ n.k = "switch" => Visit(n, a) =
              IF n.cases.default THEN n.cases.visit[a]
              ELSE Intersect(n.cases.visit[a], Visited(a, {}))
         /\ n.k = "function" => Visit(n, a) = Aside(a, n.first.visit[a])
BY DEF Visit, VisitLoop, VisitTry, VisitDo, VisitSwitch, Jumps

LEMMA ExitsOf ==
  ASSUME NEW n
  PROVE  AlwaysExits(n) =>
           \/ n.k \in {"return", "throw"}
           \/ n.k \in {"if", "conditional", "try"} /\ n.first.exits /\ n.second.exits
           \/ n.k \in {"comma", "finally"} /\ (n.first.exits \/ n.second.exits)
           \/ n.k \in {"and", "block", "do", "labeled"} /\ n.first.exits
           \/ n.k = "list" /\ ListAlwaysExits(n.first, n.second)
           \/ n.k = "switch" /\ n.cases.default /\ n.cases.exits
BY DEF AlwaysExits, ExpressionAlwaysExits

LEMMA PreventsOf ==
  ASSUME NEW n
  PROVE  PreventsFallthrough(n) =>
           \/ n.k \in {"return", "throw", "expression"} \cup Jumps
           \/ n.k \in {"if", "conditional", "try"} /\ n.first.prevents /\ n.second.prevents
           \/ n.k \in {"comma", "list", "finally"} /\ (n.first.prevents \/ n.second.prevents)
           \/ n.k \in {"and", "block", "labeled"} /\ n.first.prevents
BY DEF PreventsFallthrough, ExpressionPrevents, TryPrevents

-----------------------------------------------------------------------------
(* The inductive invariant: what holds of a statement once it holds of its *)
(* parts.                                                                  *)

States == [assigned : SUBSET Vars, reported : SUBSET Vars]

Typed(s) ==
  /\ s.visit \in [SUBSET Vars -> States] /\ s.run \in Runs
  /\ s.free \in SUBSET Jumps /\ s.buried \in SUBSET Jumps

\* Something happens, and jumps go where they may; nothing is unassigned, and what is
\* assigned is not reported.
Flows(s) ==
  /\ \A a \in SUBSET Vars : s.run[a] # {}
  /\ \A a \in SUBSET Vars : \A o \in s.run[a] : o.c \in Jumps => o.c \in s.free
  /\ s.free \subseteq s.kinds
  /\ s.jump \/ s.free \subseteq s.buried
  /\ s.expression => s.free = {}
  /\ \A b \in SUBSET Vars : b \subseteq s.visit[b].assigned /\ s.visit[b].reported \cap b = {}

\* The statement does not end normally.
Abrupt(s) == \A a \in SUBSET Vars : \A o \in s.run[a] : o.c # "normal"

\* The jumps by which it ends do not stand in its own list.
JumpsBuried(s) == \A a \in SUBSET Vars : \A o \in s.run[a] : o.c \in Jumps => o.c \in s.buried

ExitsRight(s) == s.exits /\ "indirect" \notin s.kinds => Abrupt(s) /\ JumpsBuried(s)

PreventsRight(s) == s.prevents /\ "left" \notin s.kinds => Abrupt(s)

\* An outcome from a, seen by a visit from no more than a.
Covers(visited, a, o) ==
  /\ a \subseteq o.a /\ o.bad \subseteq visited.reported
  /\ o.c = "normal" => visited.assigned \subseteq o.a

Sound(s) ==
  IsStructured(s) =>
    \A a \in SUBSET Vars : \A b \in SUBSET a, o \in s.run[a] : Covers(s.visit[b], a, o)

\* Outcomes O from a state without v that show what a visit from b says of v.
Shows(visited, b, O, v) ==
  /\ v \in visited.reported => \E o \in O : v \in o.bad
  /\ v \notin visited.assigned => \E o \in O : o.c = "normal" /\ v \notin o.a
  /\ v \in visited.assigned \ b => \E o \in O : o.c = "throw" /\ v \notin o.a

\* Something in it may fail before v is assigned.
MayFail(O, v) == \E o \in O : (o.c = "throw" /\ v \notin o.a) \/ v \in o.bad

Shown(s) ==
  IsStraight(s) =>
    \A a, b \in SUBSET Vars : \A v \in Vars \ a : Shows(s.visit[b], b, s.run[a], v)

Fails(s) == IsStraight(s) => \A a \in SUBSET Vars : \A v \in Vars \ a : MayFail(s.run[a], v)

\* Of a part, the absent ones too, and of a statement.
Right(s) == Typed(s) /\ Flows(s) /\ ExitsRight(s) /\ PreventsRight(s) /\ Sound(s) /\ Shown(s)
Good(s) == Right(s) /\ Fails(s)

Loops == {"while", "do", "for"}
Expressions == {"conditional", "comma", "and"}
Composites == {"list", "block", "if", "try", "finally", "labeled", "function"} \cup Loops \cup Expressions

\* n is made of s and t.
IsComposite(n, s, t) ==
  /\ n.k \in Composites /\ n.first = s /\ n.second = t
  /\ n.k \in Loops => t.free = {}
  /\ n.k \in Expressions \cup {"function"} => s.free = {} /\ t.free = {}

LEMMA TypedStatement ==
  ASSUME NEW n,
         \A a \in SUBSET Vars : Visit(n, a) \in States,
         \A a \in SUBSET Vars : Run(n, a) \in SUBSET Outcomes,
         FreeJumps(n) \in SUBSET Jumps, BuriedJumps(n) \in SUBSET Jumps
  PROVE  Typed(Statement(n))
<1>1. /\ Statement(n).visit = [a \in SUBSET Vars |-> Visit(n, a)]
      /\ Statement(n).run = [a \in SUBSET Vars |-> Run(n, a)]
      /\ Statement(n).free = FreeJumps(n) /\ Statement(n).buried = BuriedJumps(n)
  BY StatementFields
<1>2. [a \in SUBSET Vars |-> Visit(n, a)] \in [SUBSET Vars -> States]
  OBVIOUS
<1>3. [a \in SUBSET Vars |-> Run(n, a)] \in Runs
  BY DEF Runs
<1> QED BY <1>1, <1>2, <1>3 DEF Typed

LEMMA VisitBothTyped ==
  ASSUME NEW s, Typed(s), NEW t, Typed(t), NEW a \in SUBSET Vars
  PROVE  VisitBoth(s, t, a) \in States
BY DEF Typed, VisitBoth, Visited, States

LEMMA VisitOfWhile ==
  ASSUME NEW s, NEW t, NEW n, IsComposite(n, s, t), n.k = "while", NEW a
  PROVE  Visit(n, a) = VisitLoop(s, t, a)
<1>1. n.first = s /\ n.second = t
  BY DEF IsComposite
<1>2. Visit(n, a) = VisitLoop(n.first, n.second, a)
  BY VisitsOf
<1> QED BY <1>1, <1>2

LEMMA CompositeVisitTyped ==
  ASSUME NEW s, Typed(s), NEW t, Typed(t), NEW n, IsComposite(n, s, t), NEW a \in SUBSET Vars
  PROVE  Visit(n, a) \in States
<1>0. n.first = s /\ n.second = t /\ n.k \in Composites
  BY DEF IsComposite
<1>1. /\ s.visit[a] \in States /\ t.visit[a] \in States
      /\ s.visit[t.visit[a].assigned] \in States
  BY DEF Typed, States
<1>2. VisitBoth(s, t, a) \in States
  BY VisitBothTyped
<1>3. CASE n.k \in {"list", "conditional", "comma", "and", "do", "finally"}
  <2>1. Visit(n, a) = VisitBoth(n.first, n.second, a)
    BY <1>3 DEF Visit, VisitTry, VisitDo
  <2> QED BY <1>0, <1>2, <2>1
<1>4. CASE n.k \in {"block", "labeled"}
  <2>1. Visit(n, a) = n.first.visit[a]
    BY <1>4 DEF Visit
  <2> QED BY <1>0, <1>1, <2>1
<1>5. CASE n.k \in {"if", "try"}
  <2>1. Visit(n, a) = Intersect(s.visit[a], t.visit[a])
    BY <1>0, <1>5, VisitsOf
  <2> QED BY <1>1, <2>1 DEF Intersect, Visited, States
<1>6. CASE n.k = "while"
  <2>1. Visit(n, a) = VisitLoop(s, t, a)
    BY <1>6, VisitOfWhile
  <2> QED BY <1>1, <2>1 DEF VisitLoop, Visited, States
<1>7. CASE n.k \in {"for", "function"}
  <2>1. Visit(n, a) = Aside(a, VisitBoth(s, t, a)) \/ Visit(n, a) = Aside(a, s.visit[a])
    BY <1>0, <1>7, VisitsOf
  <2> QED BY <1>1, <1>2, <2>1 DEF Aside, Visited, States
<1> QED BY <1>0, <1>3, <1>4, <1>5, <1>6, <1>7 DEF Composites, Loops, Expressions

LEMMA FinallyCases ==
  ASSUME NEW s, Typed(s), NEW t, Typed(t), NEW a \in SUBSET Vars,
         NEW x \in UNION {Catch(Following(o, t.run[o.a]), "normal", o.c) : o \in s.run[a]}
  PROVE  /\ x \in Outcomes
         /\ \E o \in s.run[a] : \E m \in t.run[o.a] :
              /\ x.c = (IF m.c = "normal" THEN o.c ELSE m.c)
              /\ x.a = m.a /\ x.bad = o.bad \cup m.bad
<1>1. PICK o \in s.run[a] : x \in Catch(Following(o, t.run[o.a]), "normal", o.c)
  OBVIOUS
<1>2. o \in Outcomes /\ t.run[o.a] \in SUBSET Outcomes
  BY OutcomeTypes DEF Typed, Runs
<1>3. \A y \in Following(o, t.run[o.a]) : y \in Outcomes /\ \E m \in t.run[o.a] : Joins(y, o, m)
  BY <1>2, FollowingCases
<1>4. x \in Outcomes /\ \E y \in Following(o, t.run[o.a]) : Caught(x, y, "normal", o.c)
  BY <1>1, <1>2, <1>3, CatchCases, OutcomeTypes
<1>5. PICK y \in Following(o, t.run[o.a]) : Caught(x, y, "normal", o.c)
  BY <1>4
<1>6. PICK m \in t.run[o.a] : Joins(y, o, m)
  BY <1>3
<1>7. x.c = (IF m.c = "normal" THEN o.c ELSE m.c) /\ x.a = m.a /\ x.bad = o.bad \cup m.bad
  BY <1>5, <1>6 DEF Caught, Joins
<1> QED BY <1>4, <1>7

LEMMA ThenTyped ==
  ASSUME NEW s, Typed(s), NEW t, Typed(t), NEW a \in SUBSET Vars
  PROVE  Then(s, t, a) \in SUBSET Outcomes
<1>1. s.run[a] \in SUBSET Outcomes /\ t.run \in Runs
  BY DEF Typed, Runs
<1> QED BY <1>1, AfterCases DEF Then

LEMMA CompositeRunTyped ==
  ASSUME NEW s, Typed(s), NEW t, Typed(t), NEW n, IsComposite(n, s, t), NEW a \in SUBSET Vars
  PROVE  Run(n, a) \in SUBSET Outcomes
<1>0. n.first = s /\ n.second = t /\ n.k \in Composites
  BY DEF IsComposite
<1>1. s.run[a] \in SUBSET Outcomes /\ t.run[a] \in SUBSET Outcomes /\ s.run \in Runs /\ t.run \in Runs
  BY DEF Typed, Runs
<1>2. Repeated(n) \in Runs
  BY <1>0, <1>1, RepeatedRuns
<1>3. CASE n.k \in {"conditional", "if", "and", "comma", "list", "block"}
  <2>1. Then(s, t, a) \in SUBSET Outcomes
    BY ThenTyped
  <2> QED BY <1>0, <1>1, <1>3, <2>1, RunCases
<1>4. CASE n.k = "while"
  BY <1>0, <1>1, <1>2, <1>4, RunCases, AfterCases
<1>5. CASE n.k = "do"
  <2>1. Round(n, a) \in SUBSET Outcomes
    BY <1>0, <1>1, RoundCases
  <2>2. After(Round(n, a), "normal", Repeated(n)) \in SUBSET Outcomes
    BY <1>2, <2>1, AfterCases
  <2>3. Catch(After(Round(n, a), "normal", Repeated(n)), "break", "normal") \in SUBSET Outcomes
    BY <2>2, CatchCases
  <2> QED BY <1>5, <2>3, RunCases
<1>6. CASE n.k = "for"
  BY <1>2, <1>6, RunCases DEF Runs
<1>7. CASE n.k = "try"
  BY <1>0, <1>1, <1>7, RunCases, AfterCases
<1>8. CASE n.k = "finally"
  BY <1>0, <1>8, RunCases, FinallyCases
<1>9. CASE n.k \in {"labeled", "function"}
  <2>1. Catch(s.run[a], "leave", "normal") \in SUBSET Outcomes
    BY <1>1, CatchCases
  <2>2. Catch(s.run[a], "return", "normal") \in SUBSET Outcomes
    BY <1>1, CatchCases
  <2> QED BY <1>0, <1>9, <2>1, <2>2, RunCases, NormalOutcome
<1> QED BY <1>0, <1>3, <1>4, <1>5, <1>6, <1>7, <1>8, <1>9 DEF Composites, Loops, Expressions

LEMMA CompositeShape ==
  ASSUME NEW s, NEW t, NEW n, IsComposite(n, s, t)
  PROVE  /\ FreeJumps(n) = (s.free \cup t.free) \ Targeted(n)
         /\ BuriedJumps(n) = IF n.k = "list" THEN s.buried \cup t.buried ELSE FreeJumps(n)
         /\ Targeted(n) = IF n.k \in Loops THEN {"break", "continue"}
                          ELSE IF n.k = "labeled" THEN {"leave"} ELSE {}
         /\ IsJump(n) <=> n.k = "list" /\ (s.jump \/ t.jump)
         /\ IsExpression(n) <=> n.k \in Expressions
         /\ s.kinds \cup t.kinds \subseteq Kinds(n)
         /\ n.k \in {"conditional", "and", "finally"} => n.k \in Kinds(n)
         /\ n.k = "labeled" /\ "leave" \in s.kinds => "left" \in Kinds(n)
         /\ n.k \in {"do", "labeled"} /\ s.buried \cap Targeted(n) # {} => "indirect" \in Kinds(n)
<1>0. n.first = s /\ n.second = t /\ n.k \in Composites
  BY DEF IsComposite
<1>1. ~IsLeaf(n) /\ n.k \notin Jumps \cup {"expression"} /\ n.k # "switch"
  BY <1>0 DEF IsLeaf, Jumps, Composites, Loops, Expressions
<1>2. Targeted(n) = IF n.k \in Loops THEN {"break", "continue"}
                    ELSE IF n.k = "labeled" THEN {"leave"} ELSE {}
  BY <1>0, <1>1 DEF Targeted, Loops
<1>3. /\ FreeJumps(n) = (s.free \cup t.free) \ Targeted(n)
      /\ BuriedJumps(n) = IF n.k = "list" THEN s.buried \cup t.buried ELSE FreeJumps(n)
      /\ IsJump(n) <=> n.k = "list" /\ (s.jump \/ t.jump)
  BY <1>0, <1>1 DEF FreeJumps, BuriedJumps, IsJump
<1>4. IsExpression(n) <=> n.k \in Expressions
  BY <1>0 DEF IsExpression, Composites, Loops, Expressions
<1>5. /\ s.kinds \cup t.kinds \subseteq Kinds(n)
      /\ n.k \in {"conditional", "and", "finally"} => n.k \in Kinds(n)
      /\ n.k = "labeled" /\ "leave" \in s.kinds => "left" \in Kinds(n)
      /\ n.k \in {"do", "labeled"} /\ s.buried \cap Targeted(n) # {} => "indirect" \in Kinds(n)
  BY <1>0, <1>1 DEF Kinds
<1> QED BY <1>2, <1>3, <1>4, <1>5

LEMMA CompositeTyped ==
  ASSUME NEW s, Typed(s), NEW t, Typed(t), NEW n, IsComposite(n, s, t)
  PROVE  Typed(Statement(n))
<1>1. \A a \in SUBSET Vars : Visit(n, a) \in States
  BY CompositeVisitTyped
<1>2. \A a \in SUBSET Vars : Run(n, a) \in SUBSET Outcomes
  BY CompositeRunTyped
<1>3. FreeJumps(n) \in SUBSET Jumps /\ BuriedJumps(n) \in SUBSET Jumps
  <2>1. FreeJumps(n) \in SUBSET Jumps
    BY CompositeShape DEF Typed
  <2> QED BY <2>1, CompositeShape DEF Typed
<1> QED BY <1>1, <1>2, <1>3, TypedStatement

-----------------------------------------------------------------------------
(* What composite statements do.                                           *)

LEMMA ThenCases ==
  ASSUME NEW s, Typed(s), NEW t, Typed(t), NEW a \in SUBSET Vars, NEW x \in Then(s, t, a)
  PROVE  ComesAfter(x, s.run[a], "normal", t.run)
<1>1. s.run[a] \in SUBSET Outcomes /\ t.run \in Runs
  BY DEF Typed, Runs
<1> QED BY <1>1, AfterCases DEF Then

LEMMA CatchRunCases ==
  ASSUME NEW s, Typed(s), NEW a \in SUBSET Vars, NEW c, NEW x \in Catch(s.run[a], c, "normal")
  PROVE  \E o \in s.run[a] : Caught(x, o, c, "normal")
<1>1. s.run[a] \in SUBSET Outcomes
  BY DEF Typed, Runs
<1> QED BY <1>1, CatchCases

LEMMA RunFacts ==
  ASSUME NEW s, Typed(s), NEW a \in SUBSET Vars, NEW o \in s.run[a]
  PROVE  o \in Outcomes /\ o.a \in SUBSET Vars /\ o.bad \in SUBSET Vars
<1>1. o \in Outcomes
  BY DEF Typed, Runs
<1> QED BY <1>1, OutcomeTypes

LEMMA RoundJumps ==
  ASSUME NEW s, Typed(s), Flows(s), NEW t, Typed(t), Flows(t), NEW n, IsComposite(n, s, t),
         n.k \in Loops, NEW a \in SUBSET Vars, NEW x \in Round(n, a), x.c \in Jumps
  PROVE  x.c \in s.free \ {"continue"}
<1>0. n.first = s /\ n.second = t /\ t.free = {} /\ s.run \in Runs /\ t.run \in Runs
  BY DEF IsComposite, Typed
<1>1. InRound(x, n, a)
  BY <1>0, RoundCases
<1>2. CASE x \in s.run[a] /\ x.c \notin {"normal", "continue"}
  BY <1>2 DEF Flows
<1>3. ASSUME NEW o \in s.run[a], NEW m \in t.run[o.a], Joins(x, o, m) PROVE FALSE
  <2>1. o.a \in SUBSET Vars
    BY RunFacts
  <2> QED BY <1>0, <1>3, <2>1 DEF Flows, Joins
<1> QED BY <1>0, <1>1, <1>2, <1>3 DEF InRound

LEMMA RepeatedJumps ==
  ASSUME NEW s, Typed(s), Flows(s), NEW t, Typed(t), Flows(t), NEW n, IsComposite(n, s, t),
         n.k \in Loops, NEW a \in SUBSET Vars, NEW x \in Repeated(n)[a], x.c \in Jumps
  PROVE  x.c \in s.free \ {"break", "continue"}
<1>0. n.first = s /\ n.second = t /\ s.run \in Runs /\ t.run \in Runs
  BY DEF IsComposite, Typed
<1>1. \E b \in SUBSET Vars : \E m \in Round(n, b) : m.c # "break" /\ x.c = m.c
  <2>1. x.c # "normal"
    BY DEF Jumps
  <2> QED BY <1>0, <2>1, RepeatedEnds
<1> QED BY <1>1, RoundJumps

LEMMA CompositeJumps ==
  ASSUME NEW s, Typed(s), Flows(s), NEW t, Typed(t), Flows(t), NEW n, IsComposite(n, s, t),
         NEW a \in SUBSET Vars, NEW x \in Run(n, a), x.c \in Jumps
  PROVE  x.c \in FreeJumps(n)
<1>0. n.first = s /\ n.second = t /\ n.k \in Composites /\ s.run \in Runs /\ t.run \in Runs
  BY DEF IsComposite, Typed
<1>1. /\ FreeJumps(n) = (s.free \cup t.free) \ Targeted(n)
      /\ Targeted(n) = IF n.k \in Loops THEN {"break", "continue"}
                       ELSE IF n.k = "labeled" THEN {"leave"} ELSE {}
  BY CompositeShape
<1>2. x.c # "normal"
  BY DEF Jumps
<1>3. \A b \in SUBSET Vars : /\ \A o \in s.run[b] : o.a \in SUBSET Vars /\ (o.c \in Jumps => o.c \in s.free)
                             /\ \A o \in t.run[b] : o.c \in Jumps => o.c \in t.free
  BY RunFacts DEF Flows
<1>4. ASSUME n.k \notin Loops \cup {"labeled"}, x.c \in s.free \cup t.free PROVE x.c \in FreeJumps(n)
  BY <1>1, <1>4
<1>5. ASSUME NEW c, ComesAfter(x, s.run[a], c, t.run) PROVE x.c \in s.free \cup t.free
  BY <1>3, <1>5 DEF ComesAfter, Joins
<1>6. CASE n.k \in {"conditional", "if", "and", "comma", "list", "block"}
  <2>1. x \in s.run[a] \/ x \in t.run[a] \/ x \in Then(s, t, a)
    BY <1>0, <1>6, RunCases
  <2>2. x \in Then(s, t, a) => ComesAfter(x, s.run[a], "normal", t.run)
    BY ThenCases
  <2>3. x.c \in s.free \cup t.free
    BY <1>3, <1>5, <2>1, <2>2
  <2> QED BY <1>4, <1>6, <2>3 DEF Loops
<1>7. CASE n.k = "while"
  <2>1. x \in After(t.run[a], "normal", Repeated(n))
    BY <1>0, <1>7, RunCases
  <2>2. ComesAfter(x, t.run[a], "normal", Repeated(n))
    BY <1>0, <2>1, RepeatedRuns, AfterCases DEF Runs
  <2>3. t.free = {}
    BY <1>7 DEF IsComposite, Loops
  <2>4. PICK o \in t.run[a] : \E m \in Repeated(n)[o.a] : Joins(x, o, m)
    BY <1>3, <2>2, <2>3 DEF ComesAfter
  <2>5. o.a \in SUBSET Vars
    BY RunFacts
  <2>6. x.c \in s.free \ {"break", "continue"}
    BY <1>7, <2>4, <2>5, RepeatedJumps DEF Joins, Loops
  <2> QED BY <1>1, <1>7, <2>6 DEF Loops
<1>8. CASE n.k = "do"
  <2>1. x \in Catch(After(Round(n, a), "normal", Repeated(n)), "break", "normal")
    BY <1>8, RunCases
  <2>2. Round(n, a) \in SUBSET Outcomes /\ Repeated(n) \in Runs
    BY <1>0, RoundCases, RepeatedRuns
  <2>3. \A y \in After(Round(n, a), "normal", Repeated(n)) :
          y \in Outcomes /\ ComesAfter(y, Round(n, a), "normal", Repeated(n))
    BY <2>2, AfterCases
  <2>4. PICK y \in After(Round(n, a), "normal", Repeated(n)) : Caught(x, y, "break", "normal")
    BY <2>1, <2>3, CatchCases
  <2>5. x.c = y.c /\ y.c # "break"
    BY <1>2, <2>4 DEF Caught
  <2>6. y.c \in s.free \ {"continue"}
    <3>1. CASE y \in Round(n, a)
      BY <1>8, <2>5, <3>1, RoundJumps DEF Loops
    <3>2. ASSUME NEW o \in Round(n, a), NEW m \in Repeated(n)[o.a], Joins(y, o, m)
          PROVE  y.c \in s.free \ {"continue"}
      <4>1. o.a \in SUBSET Vars /\ m.c \in Jumps
        BY <2>2, <2>5, <3>2, OutcomeTypes DEF Joins
      <4>2. m.c \in s.free \ {"break", "continue"}
        BY <1>8, <4>1, RepeatedJumps DEF Loops
      <4> QED BY <3>2, <4>2 DEF Joins
    <3> QED BY <2>3, <3>1, <3>2 DEF ComesAfter
  <2> QED BY <1>1, <1>8, <2>5, <2>6 DEF Loops
<1>9. CASE n.k = "for"
  <2>1. x \in Repeated(n)[a]
    BY <1>9, RunCases
  <2>2. x.c \in s.free \ {"break", "continue"}
    BY <1>9, <2>1, RepeatedJumps DEF Loops
  <2> QED BY <1>1, <1>9, <2>2 DEF Loops
<1>10. CASE n.k = "try"
  <2>1. x \in After(s.run[a], "throw", t.run) /\ s.run[a] \in SUBSET Outcomes
    BY <1>0, <1>10, RunCases DEF Runs
  <2>2. ComesAfter(x, s.run[a], "throw", t.run)
    BY <1>0, <2>1, AfterCases
  <2> QED BY <1>4, <1>5, <1>10, <2>2 DEF Loops
<1>11. CASE n.k = "finally"
  <2>1. \E o \in s.run[a] : \E m \in t.run[o.a] : x.c = (IF m.c = "normal" THEN o.c ELSE m.c)
    BY <1>0, <1>11, RunCases, FinallyCases
  <2>2. x.c \in s.free \cup t.free
    BY <1>3, <2>1
  <2> QED BY <1>4, <1>11, <2>2 DEF Loops
<1>12. CASE n.k = "labeled"
  <2>1. PICK o \in s.run[a] : Caught(x, o, "leave", "normal")
    BY <1>0, <1>12, RunCases, CatchRunCases
  <2>2. x.c \in s.free \ {"leave"}
    BY <1>2, <1>3, <2>1 DEF Caught
  <2> QED BY <1>1, <1>12, <2>2 DEF Loops
<1>13. CASE n.k = "function"
  <2>1. x \in Catch(s.run[a], "return", "normal")
    BY <1>0, <1>2, <1>13, RunCases, NormalOutcome
  <2>2. PICK o \in s.run[a] : Caught(x, o, "return", "normal")
    BY <2>1, CatchRunCases
  <2>3. x.c \in s.free
    BY <1>2, <1>3, <2>2 DEF Caught
  <2> QED BY <1>4, <1>13, <2>3 DEF Loops
<1> QED BY <1>0, <1>6, <1>7, <1>8, <1>9, <1>10, <1>11, <1>12, <1>13 DEF Composites, Loops, Expressions

LEMMA AfterSome ==
  ASSUME NEW O, NEW c, NEW next, O # {}, \A o \in O : o.c = c => next[o.a] # {}
  PROVE  After(O, c, next) # {}
<1>1. PICK o \in O : TRUE
  OBVIOUS
<1>2. CASE o.c # c
  BY <1>2, AfterHas
<1>3. CASE o.c = c
  <2>1. PICK m \in next[o.a] : TRUE
    BY <1>3
  <2>2. \E x \in After(O, c, next) : Joins(x, o, m)
    BY <1>3, <2>1, AfterHas
  <2> QED BY <2>2
<1> QED BY <1>2, <1>3

LEMMA CatchSome ==
  ASSUME NEW O, NEW c, NEW d, O # {}
  PROVE  Catch(O, c, d) # {}
<1>1. PICK o \in O : TRUE
  OBVIOUS
<1> QED BY CatchHas

LEMMA RoundSome ==
  ASSUME NEW s, Typed(s), Flows(s), NEW t, Flows(t), NEW n, n.first = s, n.second = t,
         NEW a \in SUBSET Vars
  PROVE  Round(n, a) # {}
<1>1. PICK o \in s.run[a] : TRUE
  BY DEF Flows
<1>2. o.a \in SUBSET Vars
  BY <1>1, RunFacts
<1>3. PICK m \in t.run[o.a] : TRUE
  BY <1>2 DEF Flows
<1> QED BY <1>1, <1>3, RoundHas

LEMMA CompositeRuns ==
  ASSUME NEW s, Typed(s), Flows(s), NEW t, Typed(t), Flows(t), NEW n, IsComposite(n, s, t),
         NEW a \in SUBSET Vars
  PROVE  Run(n, a) # {}
<1>0. n.first = s /\ n.second = t /\ n.k \in Composites
  BY DEF IsComposite
<1>1. \A b \in SUBSET Vars : /\ s.run[b] # {} /\ \A o \in s.run[b] : t.run[o.a] # {}
                             /\ t.run[b] # {} /\ \A o \in t.run[b] : o.a \in SUBSET Vars
  BY RunFacts DEF Flows
<1>2. \A b \in SUBSET Vars : Repeated(n)[b] # {}
  BY RepeatedHas
<1>3. CASE n.k \in {"conditional", "if", "and", "block"}
  BY <1>0, <1>1, <1>3, RunCases
<1>4. CASE n.k \in {"comma", "list"}
  <2>1. After(s.run[a], "normal", t.run) # {}
    BY <1>1, AfterSome
  <2> QED BY <1>0, <1>4, <2>1, RunCases DEF Then
<1>5. CASE n.k = "while"
  <2>1. After(t.run[a], "normal", Repeated(n)) # {}
    BY <1>1, <1>2, AfterSome
  <2> QED BY <1>0, <1>5, <2>1, RunCases
<1>6. CASE n.k = "do"
  <2>1. Round(n, a) # {} /\ \A o \in Round(n, a) : o.a \in SUBSET Vars
    BY <1>0, RoundSome, RoundCases, OutcomeTypes DEF Typed
  <2>2. After(Round(n, a), "normal", Repeated(n)) # {}
    BY <1>2, <2>1, AfterSome
  <2> QED BY <1>6, <2>2, RunCases, CatchSome
<1>7. CASE n.k = "for"
  BY <1>2, <1>7, RunCases
<1>8. CASE n.k = "try"
  <2>1. After(s.run[a], "throw", t.run) # {}
    BY <1>1, AfterSome
  <2> QED BY <1>0, <1>8, <2>1, RunCases
<1>9. CASE n.k = "finally"
  <2>1. PICK o \in s.run[a] : TRUE
    BY <1>1
  <2>2. PICK m \in t.run[o.a] : TRUE
    BY <1>1
  <2>3. Following(o, t.run[o.a]) # {}
    BY FollowingHas
  <2>4. Catch(Following(o, t.run[o.a]), "normal", o.c) # {}
    BY <2>3, CatchSome
  <2>5. Catch(Following(o, t.run[o.a]), "normal", o.c) \subseteq Run(n, a)
    BY <1>0, <1>9, RunCases
  <2> QED BY <2>4, <2>5
<1>10. CASE n.k \in {"labeled", "function"}
  BY <1>0, <1>1, <1>10, RunCases, CatchSome
<1> QED BY <1>0, <1>3, <1>4, <1>5, <1>6, <1>7, <1>8, <1>9, <1>10 DEF Composites, Loops, Expressions

\* A visit from b keeps what is assigned, and reports none of it.
Keeps(visited, b) == b \subseteq visited.assigned /\ visited.reported \cap b = {}

LEMMA VisitBothKeeps ==
  ASSUME NEW s, Typed(s), Flows(s), NEW t, Flows(t), NEW b \in SUBSET Vars
  PROVE  Keeps(VisitBoth(s, t, b), b)
<1>1. s.visit[b].assigned \in SUBSET Vars
  BY DEF Typed, States
<1>2. Keeps(s.visit[b], b) /\ Keeps(t.visit[s.visit[b].assigned], s.visit[b].assigned)
  BY <1>1 DEF Flows, Keeps
<1> QED BY <1>2 DEF Keeps, VisitBoth, Visited

LEMMA CompositeKeeps ==
  ASSUME NEW s, Typed(s), Flows(s), NEW t, Typed(t), Flows(t), NEW n, IsComposite(n, s, t),
         NEW b \in SUBSET Vars
  PROVE  Keeps(Visit(n, b), b)
<1>0. n.first = s /\ n.second = t /\ n.k \in Composites
  BY DEF IsComposite
<1>1. Keeps(s.visit[b], b) /\ Keeps(t.visit[b], b) /\ t.visit[b].assigned \in SUBSET Vars
  BY DEF Flows, Keeps, Typed, States
<1>2. Keeps(VisitBoth(s, t, b), b)
  BY VisitBothKeeps
<1>3. CASE n.k \in {"list", "conditional", "comma", "and", "do", "finally"}
  BY <1>0, <1>2, <1>3, VisitsOf
<1>4. CASE n.k \in {"block", "labeled"}
  BY <1>0, <1>1, <1>4, VisitsOf
<1>5. CASE n.k \in {"if", "try"}
  <2>1. Visit(n, b) = Intersect(s.visit[b], t.visit[b])
    BY <1>0, <1>5, VisitsOf
  <2>2. Keeps(Intersect(s.visit[b], t.visit[b]), b)
    BY <1>1 DEF Intersect, Visited, Keeps
  <2> QED BY <2>1, <2>2
<1>6. CASE n.k = "while"
  <2>1. Visit(n, b) = VisitLoop(s, t, b)
    BY <1>6, VisitOfWhile
  <2>2. Keeps(s.visit[t.visit[b].assigned], t.visit[b].assigned)
    BY <1>1 DEF Flows, Keeps
  <2> QED BY <1>1, <2>1, <2>2 DEF VisitLoop, Visited, Keeps
<1>7. CASE n.k \in {"for", "function"}
  <2>1. Visit(n, b) = Aside(b, VisitBoth(s, t, b)) \/ Visit(n, b) = Aside(b, s.visit[b])
    BY <1>0, <1>7, VisitsOf
  <2>2. Keeps(Aside(b, VisitBoth(s, t, b)), b) /\ Keeps(Aside(b, s.visit[b]), b)
    BY <1>1, <1>2 DEF Aside, Visited, Keeps
  <2> QED BY <2>1, <2>2
<1> QED BY <1>0, <1>3, <1>4, <1>5, <1>6, <1>7 DEF Composites, Loops, Expressions

LEMMA CompositeFlows ==
  ASSUME NEW s, Typed(s), Flows(s), NEW t, Typed(t), Flows(t), NEW n, IsComposite(n, s, t)
  PROVE  Flows(Statement(n))
<1> DEFINE c == Statement(n)
<1>0. /\ c.visit = [a \in SUBSET Vars |-> Visit(n, a)]
      /\ c.run = [a \in SUBSET Vars |-> Run(n, a)]
  BY StatementFields
<1>1. \A a \in SUBSET Vars : /\ c.run[a] = Run(n, a) /\ c.visit[a] = Visit(n, a)
  BY <1>0
<1>2. /\ c.free = FreeJumps(n) /\ c.buried = BuriedJumps(n) /\ c.kinds = Kinds(n)
      /\ c.jump <=> IsJump(n)
      /\ c.expression <=> IsExpression(n)
  BY StatementFields
<1> HIDE DEF c
<1>3. \A a \in SUBSET Vars : c.run[a] # {} /\ \A o \in c.run[a] : o.c \in Jumps => o.c \in c.free
  BY <1>1, <1>2, CompositeRuns, CompositeJumps
<1>4. c.free \subseteq c.kinds
  BY <1>2, CompositeShape DEF Flows
<1>5. c.jump \/ c.free \subseteq c.buried
  <2>1. CASE n.k # "list"
    BY <1>2, <2>1, CompositeShape
  <2>2. CASE n.k = "list"
    BY <1>2, <2>2, CompositeShape DEF Flows
  <2> QED BY <2>1, <2>2
<1>6. c.expression => c.free = {}
  BY <1>2, CompositeShape DEF IsComposite
<1>7. \A b \in SUBSET Vars : Keeps(c.visit[b], b)
  BY <1>1, CompositeKeeps
<1>8. Flows(c)
  BY <1>3, <1>4, <1>5, <1>6, <1>7 DEF Flows, Keeps
<1> QED BY <1>8 DEF c

-----------------------------------------------------------------------------
(* controlFlow.ts is right about composite statements.                     *)

LEMMA RunOfStatement ==
  ASSUME NEW n, NEW a \in SUBSET Vars
  PROVE  Statement(n).run[a] = Run(n, a)
<1>1. Statement(n).run = [b \in SUBSET Vars |-> Run(n, b)]
  BY StatementFields
<1> QED BY <1>1

LEMMA VisitOfStatement ==
  ASSUME NEW n, NEW a \in SUBSET Vars
  PROVE  Statement(n).visit[a] = Visit(n, a)
<1>1. Statement(n).visit = [b \in SUBSET Vars |-> Visit(n, b)]
  BY StatementFields
<1> QED BY <1>1

LEMMA CompositeAbrupt ==
  ASSUME NEW s, Typed(s), NEW t, Typed(t), NEW n, IsComposite(n, s, t),
         \/ n.k \in {"if", "conditional", "try"} /\ Abrupt(s) /\ Abrupt(t)
         \/ n.k \in {"comma", "list", "finally"} /\ (Abrupt(s) \/ Abrupt(t))
         \/ n.k \in {"and", "block"} /\ Abrupt(s)
  PROVE  Abrupt(Statement(n))
<1> SUFFICES ASSUME NEW a \in SUBSET Vars, NEW x \in Run(n, a)
             PROVE  x.c # "normal"
  BY RunOfStatement DEF Abrupt
<1>0. n.first = s /\ n.second = t /\ s.run[a] \in SUBSET Outcomes /\ t.run \in Runs
  BY DEF IsComposite, Typed, Runs
<1>1. \A o \in s.run[a] : /\ o.a \in SUBSET Vars
                          /\ Abrupt(s) => o.c # "normal"
                          /\ Abrupt(t) => \A m \in t.run[o.a] : m.c # "normal"
  BY RunFacts DEF Abrupt
<1>2. CASE n.k \in {"if", "conditional", "block"}
  BY <1>0, <1>1, <1>2, RunCases DEF Abrupt
<1>3. CASE n.k \in {"comma", "list", "and"}
  <2>1. x \in Then(s, t, a) \/ (x \in s.run[a] /\ Abrupt(s))
    BY <1>0, <1>3, RunCases
  <2>2. x \in Then(s, t, a) => ComesAfter(x, s.run[a], "normal", t.run)
    BY ThenCases
  <2> QED BY <1>1, <1>3, <2>1, <2>2 DEF ComesAfter, Joins
<1>4. CASE n.k = "try"
  <2>1. x \in After(s.run[a], "throw", t.run)
    BY <1>0, <1>4, RunCases
  <2>2. ComesAfter(x, s.run[a], "throw", t.run)
    BY <1>0, <2>1, AfterCases
  <2> QED BY <1>1, <1>4, <2>2 DEF ComesAfter, Joins
<1>5. CASE n.k = "finally"
  <2>1. \E o \in s.run[a] : \E m \in t.run[o.a] : x.c = (IF m.c = "normal" THEN o.c ELSE m.c)
    BY <1>0, <1>5, RunCases, FinallyCases
  <2> QED BY <1>1, <1>5, <2>1
<1> QED BY <1>2, <1>3, <1>4, <1>5

\* A body that exits leaves its loop or label, unless it jumps to the end of it.
LEMMA TargetsExit ==
  ASSUME NEW s, Typed(s), NEW t, Typed(t), NEW n, IsComposite(n, s, t), n.k \in {"do", "labeled"},
         Abrupt(s), JumpsBuried(s), s.buried \cap Targeted(n) = {}
  PROVE  Abrupt(Statement(n))
<1> SUFFICES ASSUME NEW a \in SUBSET Vars, NEW x \in Run(n, a)
             PROVE  x.c # "normal"
  BY RunOfStatement DEF Abrupt
<1>0. n.first = s /\ n.second = t /\ s.run \in Runs /\ t.run \in Runs
  BY DEF IsComposite, Typed
<1>1. \A o \in s.run[a] : o.c # "normal" /\ o.c \notin Targeted(n)
  BY CompositeShape DEF Abrupt, JumpsBuried, Jumps
<1>2. CASE n.k = "labeled"
  <2>1. PICK o \in s.run[a] : Caught(x, o, "leave", "normal")
    BY <1>0, <1>2, RunCases, CatchRunCases
  <2>2. Targeted(n) = {"leave"}
    BY <1>2, CompositeShape DEF Loops
  <2> QED BY <1>1, <2>1, <2>2 DEF Caught
<1>3. CASE n.k = "do"
  <2>1. Targeted(n) = {"break", "continue"}
    BY <1>3, CompositeShape DEF Loops
  <2>2. \A y \in Round(n, a) : y \in Outcomes /\ y.c \notin {"normal", "break"}
    BY <1>0, <1>1, <2>1, RoundCases DEF InRound
  <2>3. Round(n, a) \in SUBSET Outcomes /\ Repeated(n) \in Runs
    BY <1>0, <2>2, RepeatedRuns
  <2>4. \A y \in After(Round(n, a), "normal", Repeated(n)) : y \in Outcomes /\ y.c \notin {"normal", "break"}
    BY <2>2, <2>3, AfterCases DEF ComesAfter
  <2>5. x \in Catch(After(Round(n, a), "normal", Repeated(n)), "break", "normal")
    BY <1>3, RunCases
  <2>6. PICK y \in After(Round(n, a), "normal", Repeated(n)) : Caught(x, y, "break", "normal")
    BY <2>4, <2>5, CatchCases
  <2> QED BY <2>4, <2>6 DEF Caught
<1> QED BY <1>2, <1>3

LEMMA CompositeExits ==
  ASSUME NEW s, Typed(s), Flows(s), ExitsRight(s), NEW t, Typed(t), Flows(t), ExitsRight(t),
         NEW n, IsComposite(n, s, t)
  PROVE  ExitsRight(Statement(n))
<1> DEFINE c == Statement(n)
<1> SUFFICES ASSUME AlwaysExits(n), "indirect" \notin Kinds(n)
             PROVE  Abrupt(c) /\ JumpsBuried(c)
  BY StatementFields DEF ExitsRight
<1>0. n.first = s /\ n.second = t /\ n.k \in Composites
  BY DEF IsComposite
<1>1. /\ s.exits => Abrupt(s) /\ JumpsBuried(s)
      /\ t.exits => Abrupt(t) /\ JumpsBuried(t)
  BY CompositeShape DEF ExitsRight
<1>2. \/ n.k \in {"if", "conditional", "try"} /\ s.exits /\ t.exits
      \/ n.k \in {"comma", "finally"} /\ (s.exits \/ t.exits)
      \/ n.k \in {"and", "block", "do", "labeled"} /\ s.exits
      \/ n.k = "list" /\ (s.exits \/ (~s.jump /\ t.exits))
  BY <1>0, ExitsOf DEF ListAlwaysExits, Composites, Loops, Expressions
<1>3. Abrupt(c)
  <2>1. CASE n.k \in {"do", "labeled"}
    <3>1. s.buried \cap Targeted(n) = {}
      BY <2>1, CompositeShape
    <3> QED BY <1>1, <1>2, <2>1, <3>1, TargetsExit
  <2>2. CASE n.k \notin {"do", "labeled"}
    BY <1>1, <1>2, <2>2, CompositeAbrupt
  <2> QED BY <2>1, <2>2
<1>4. JumpsBuried(c)
  <2> SUFFICES ASSUME NEW a \in SUBSET Vars, NEW x \in Run(n, a), x.c \in Jumps
               PROVE  x.c \in BuriedJumps(n)
    BY RunOfStatement, StatementFields DEF JumpsBuried
  <2>1. CASE n.k # "list"
    BY <2>1, CompositeJumps, CompositeShape
  <2>2. CASE n.k = "list"
    <3>1. x \in Then(s, t, a)
      BY <1>0, <2>2, RunCases
    <3>2. ComesAfter(x, s.run[a], "normal", t.run)
      BY <3>1, ThenCases
    <3>3. CASE x \in s.run[a]
      <4>1. s.exits => x.c \in s.buried
        BY <1>1, <3>3 DEF JumpsBuried
      <4>2. ~s.jump => x.c \in s.buried
        BY <3>3 DEF Flows
      <4> QED BY <1>2, <2>2, <4>1, <4>2, CompositeShape
    <3>4. ASSUME NEW o \in s.run[a], o.c = "normal", NEW m \in t.run[o.a], Joins(x, o, m)
          PROVE  x.c \in BuriedJumps(n)
      <4>1. ~s.exits
        BY <1>1, <3>4 DEF Abrupt
      <4>2. o.a \in SUBSET Vars /\ t.exits
        BY <1>2, <2>2, <4>1, RunFacts
      <4>3. x.c \in t.buried
        BY <1>1, <3>4, <4>2 DEF JumpsBuried, Joins
      <4> QED BY <2>2, <4>3, CompositeShape
    <3> QED BY <3>2, <3>3, <3>4 DEF ComesAfter
  <2> QED BY <2>1, <2>2
<1> QED BY <1>3, <1>4

LEMMA CompositePrevents ==
  ASSUME NEW s, Typed(s), Flows(s), PreventsRight(s), NEW t, Typed(t), Flows(t), PreventsRight(t),
         NEW n, IsComposite(n, s, t)
  PROVE  PreventsRight(Statement(n))
<1> SUFFICES ASSUME PreventsFallthrough(n), "left" \notin Kinds(n)
             PROVE  Abrupt(Statement(n))
  BY StatementFields DEF PreventsRight
<1>0. n.first = s /\ n.second = t /\ n.k \in Composites
  BY DEF IsComposite
<1>1. /\ s.prevents => Abrupt(s)
      /\ t.prevents => Abrupt(t)
  BY CompositeShape DEF PreventsRight
<1>2. \/ n.k \in {"if", "conditional", "try"} /\ s.prevents /\ t.prevents
      \/ n.k \in {"comma", "list", "finally"} /\ (s.prevents \/ t.prevents)
      \/ n.k \in {"and", "block", "labeled"} /\ s.prevents
  BY <1>0, PreventsOf DEF Composites, Loops, Expressions, Jumps
<1>3. CASE n.k = "labeled"
  <2>1. "leave" \notin s.free
    BY <1>3, CompositeShape DEF Flows
  <2>2. ASSUME NEW a \in SUBSET Vars, NEW x \in Run(n, a) PROVE x.c # "normal"
    <3>1. PICK o \in s.run[a] : Caught(x, o, "leave", "normal")
      BY <1>0, <1>3, <2>2, RunCases, CatchRunCases
    <3>2. o.c # "leave" /\ o.c # "normal"
      BY <1>1, <1>2, <1>3, <2>1 DEF Flows, Jumps, Abrupt
    <3> QED BY <3>1, <3>2 DEF Caught
  <2> QED BY <2>2, RunOfStatement DEF Abrupt
<1>4. CASE n.k # "labeled"
  BY <1>1, <1>2, <1>4, CompositeAbrupt
<1> QED BY <1>3, <1>4

-----------------------------------------------------------------------------
(* DefiniteAssignmentChecker.ts misses nothing in composite statements.    *)

Sees(s) == \A a \in SUBSET Vars : \A b \in SUBSET a, o \in s.run[a] : Covers(s.visit[b], a, o)

LEMMA BothCover ==
  ASSUME NEW s, Typed(s), Sees(s), NEW t, Typed(t), Sees(t),
         NEW a \in SUBSET Vars, NEW b \in SUBSET a, NEW x, ComesAfter(x, s.run[a], "normal", t.run)
  PROVE  Covers(VisitBoth(s, t, b), a, x)
<1> DEFINE S == s.visit[b]
<1>1. /\ VisitBoth(s, t, b).assigned = t.visit[S.assigned].assigned
      /\ VisitBoth(s, t, b).reported = S.reported \cup t.visit[S.assigned].reported
  BY DEF VisitBoth, Visited
<1>2. \A o \in s.run[a] : Covers(S, a, o) /\ o.a \in SUBSET Vars
  BY RunFacts DEF Sees
<1> HIDE DEF S
<1>3. CASE x \in s.run[a] /\ x.c # "normal"
  BY <1>1, <1>2, <1>3 DEF Covers
<1>4. ASSUME NEW o \in s.run[a], o.c = "normal", NEW m \in t.run[o.a], Joins(x, o, m)
      PROVE  Covers(VisitBoth(s, t, b), a, x)
  <2>1. a \subseteq o.a /\ o.bad \subseteq S.reported /\ S.assigned \subseteq o.a /\ o.a \in SUBSET Vars
    BY <1>2, <1>4 DEF Covers
  <2>2. Covers(t.visit[S.assigned], o.a, m)
    BY <2>1 DEF Sees
  <2> QED BY <1>1, <1>4, <2>1, <2>2 DEF Covers, Joins
<1> QED BY <1>3, <1>4 DEF ComesAfter

\* From a on, a round of n keeps what is assigned and misreads no more than R.
RoundKeeps(n, a, R) ==
  \A e \in SUBSET Vars : a \subseteq e => \A m \in Round(n, e) : e \subseteq m.a /\ m.bad \subseteq R

\* However often a loop goes round, what was assigned stays so, and only what a round
\* misreads is misread.
LEMMA RepeatedKeeps ==
  ASSUME NEW n, n.first.run \in Runs, n.second.run \in Runs, NEW a \in SUBSET Vars, NEW R,
         RoundKeeps(n, a, R),
         NEW x \in Repeated(n)[a]
  PROVE  a \subseteq x.a /\ x.bad \subseteq R
<1> DEFINE I == {o \in Outcomes : o.c = "normal" /\ a \subseteq o.a /\ o.bad \subseteq R}
<1>1. Normal(a) \in I
  BY NormalOutcome
<1>2. ASSUME NEW o \in I, NEW m \in Round(n, o.a)
      PROVE  /\ a \subseteq m.a /\ o.bad \cup m.bad \subseteq R
             /\ Outcome("normal", m.a, o.bad \cup m.bad) \in I
  <2>1. o.a \in SUBSET Vars /\ o.bad \in SUBSET Vars
    BY OutcomeTypes
  <2>2. m.a \in SUBSET Vars /\ m.bad \in SUBSET Vars
    BY <2>1, RoundCases, OutcomeTypes
  <2>3. a \subseteq m.a /\ o.bad \cup m.bad \subseteq R
    BY <2>1 DEF RoundKeeps
  <2> QED BY <2>1, <2>2, <2>3, IsOutcome, OutcomeFields
<1>3. I \in SUBSET {o \in Outcomes : o.c = "normal"} /\ \A o \in I : a \subseteq o.a /\ o.bad \subseteq R
  OBVIOUS
<1> HIDE DEF I
<1>4. \/ x \in I
      \/ \E o \in I : \E m \in Round(n, o.a) : \E y : Joins(y, o, m) /\ Caught(x, y, "break", "normal")
  BY <1>1, <1>2, <1>3, RepeatedCases
<1>5. ASSUME NEW o \in I, NEW m \in Round(n, o.a), NEW y, Joins(y, o, m), Caught(x, y, "break", "normal")
      PROVE  a \subseteq x.a /\ x.bad \subseteq R
  BY <1>2, <1>5 DEF Joins, Caught
<1> QED BY <1>3, <1>4, <1>5

\* A round, when nothing jumps, is the body and then the rest.
LEMMA RoundAfter ==
  ASSUME NEW s, Typed(s), Flows(s), s.free = {}, NEW t, Typed(t), NEW n, IsComposite(n, s, t),
         NEW a \in SUBSET Vars, NEW x \in Round(n, a)
  PROVE  ComesAfter(x, s.run[a], "normal", t.run)
<1>1. n.first = s /\ n.second = t /\ s.run \in Runs /\ t.run \in Runs
  BY DEF IsComposite, Typed
<1>2. InRound(x, n, a)
  BY <1>1, RoundCases
<1>3. \A o \in s.run[a] : o.c # "continue"
  BY DEF Flows, Jumps
<1> QED BY <1>1, <1>2, <1>3 DEF InRound, ComesAfter

LEMMA WhileCovers ==
  ASSUME NEW s, Typed(s), Flows(s), Sees(s), NEW t, Typed(t), Flows(t), Sees(t), NEW n, IsComposite(n, s, t),
         n.k = "while", NEW a \in SUBSET Vars, NEW b \in SUBSET a, NEW x \in Run(n, a)
  PROVE  Covers(Visit(n, b), a, x)
<1>0. n.first = s /\ n.second = t /\ s.run \in Runs /\ t.run \in Runs /\ t.run[a] \in SUBSET Outcomes
  BY DEF IsComposite, Typed, Runs
<1> DEFINE T == t.visit[b].assigned
<1> DEFINE R == t.visit[b].reported \cup s.visit[T].reported
<1>1. Visit(n, b) = Visited(T, R)
  BY VisitOfWhile DEF VisitLoop
<1>2. Visit(n, b).assigned = T /\ Visit(n, b).reported = R
  BY <1>1 DEF Visited
<1>3. T \in SUBSET Vars /\ b \subseteq T
  BY DEF Typed, States, Flows
<1>4. \A o \in t.run[a] : o.a \in SUBSET Vars /\ Covers(t.visit[b], a, o)
  BY RunFacts DEF Sees
<1>5. ASSUME NEW e \in SUBSET Vars, T \subseteq e, NEW m \in Round(n, e)
      PROVE  e \subseteq m.a /\ m.bad \subseteq R
  <2>1. \A o \in s.run[e] : o.a \in SUBSET Vars /\ Covers(s.visit[T], e, o)
    BY <1>5, RunFacts DEF Sees
  <2>2. InRound(m, n, e)
    BY <1>0, RoundCases
  <2>3. ASSUME NEW o \in s.run[e], NEW p \in t.run[o.a], Joins(m, o, p)
        PROVE  e \subseteq m.a /\ m.bad \subseteq R
    <3>1. e \subseteq o.a /\ o.bad \subseteq s.visit[T].reported /\ o.a \in SUBSET Vars /\ b \subseteq o.a
      BY <1>3, <1>5, <2>1 DEF Covers
    <3>2. Covers(t.visit[b], o.a, p)
      BY <3>1 DEF Sees
    <3> QED BY <2>3, <3>1, <3>2 DEF Covers, Joins
  <2> QED BY <1>0, <2>1, <2>2, <2>3 DEF InRound, Covers
<1> HIDE DEF T, R
<1>6. x \in After(t.run[a], "normal", Repeated(n))
  BY <1>0, RunCases
<1>7. ComesAfter(x, t.run[a], "normal", Repeated(n))
  BY <1>0, <1>6, RepeatedRuns, AfterCases
<1>8. CASE x \in t.run[a] /\ x.c # "normal"
  BY <1>2, <1>4, <1>8 DEF Covers, R
<1>9. ASSUME NEW o \in t.run[a], o.c = "normal", NEW m \in Repeated(n)[o.a], Joins(x, o, m)
      PROVE  Covers(Visit(n, b), a, x)
  <2>1. a \subseteq o.a /\ o.bad \subseteq R /\ T \subseteq o.a /\ o.a \in SUBSET Vars
    BY <1>4, <1>9 DEF Covers, T, R
  <2>2. RoundKeeps(n, o.a, R)
    BY <1>5, <2>1 DEF RoundKeeps
  <2>3. o.a \subseteq m.a /\ m.bad \subseteq R
    BY <1>0, <2>1, <2>2, RepeatedKeeps
  <2> QED BY <1>2, <1>9, <2>1, <2>3 DEF Covers, Joins
<1> QED BY <1>7, <1>8, <1>9 DEF ComesAfter

LEMMA DoCovers ==
  ASSUME NEW s, Typed(s), Flows(s), s.free = {}, Sees(s), NEW t, Typed(t), Flows(t), t.free = {}, Sees(t),
         NEW n, IsComposite(n, s, t), n.k \in {"do", "for"},
         NEW a \in SUBSET Vars, NEW b \in SUBSET a, NEW x \in Run(n, a)
  PROVE  Covers(Visit(n, b), a, x)
<1>0. n.first = s /\ n.second = t /\ s.run \in Runs /\ t.run \in Runs
  BY DEF IsComposite, Typed
<1> DEFINE V == VisitBoth(s, t, b)
<1>1. \A e \in SUBSET Vars : b \subseteq e => \A m \in Round(n, e) : Covers(V, e, m)
  BY RoundAfter, BothCover
<1> HIDE DEF V
<1>2. \A e \in SUBSET Vars : b \subseteq e =>
        \A m \in Repeated(n)[e] : e \subseteq m.a /\ m.bad \subseteq V.reported
  <2> SUFFICES ASSUME NEW e \in SUBSET Vars, b \subseteq e, NEW m \in Repeated(n)[e]
               PROVE  e \subseteq m.a /\ m.bad \subseteq V.reported
    OBVIOUS
  <2>1. RoundKeeps(n, e, V.reported)
    BY <1>1 DEF Covers, RoundKeeps
  <2> QED BY <1>0, <2>1, RepeatedKeeps
<1>3. CASE n.k = "for"
  <2>1. Visit(n, b) = Aside(b, V) /\ x \in Repeated(n)[a]
    BY <1>0, <1>3, VisitsOf, RunCases DEF V
  <2> QED BY <1>2, <2>1 DEF Covers, Aside, Visited
<1>4. CASE n.k = "do"
  <2>1. Visit(n, b) = V /\ x \in Catch(After(Round(n, a), "normal", Repeated(n)), "break", "normal")
    BY <1>0, <1>4, VisitsOf, RunCases DEF V
  <2>2. \A y \in Round(n, a) : y \in Outcomes /\ y.c # "break"
    <3>1. \A y \in Round(n, a) : y \in Outcomes
      BY <1>0, RoundCases
    <3>2. \A y \in Round(n, a) : y.c \in Jumps => y.c \in s.free \ {"continue"}
      BY <1>4, RoundJumps DEF Loops
    <3> QED BY <3>1, <3>2 DEF Jumps
  <2>3. Round(n, a) \in SUBSET Outcomes /\ Repeated(n) \in Runs
    BY <1>0, <2>2, RepeatedRuns
  <2>4. \A y \in After(Round(n, a), "normal", Repeated(n)) :
          y \in Outcomes /\ ComesAfter(y, Round(n, a), "normal", Repeated(n))
    BY <2>3, AfterCases
  <2>5. PICK y \in After(Round(n, a), "normal", Repeated(n)) : Caught(x, y, "break", "normal")
    BY <2>1, <2>4, CatchCases
  <2>6. CASE y \in Round(n, a) /\ y.c # "normal"
    <3>1. Covers(V, a, y) /\ y.c # "break"
      BY <1>1, <2>2, <2>6
    <3> QED BY <2>1, <2>5, <2>6, <3>1 DEF Covers, Caught
  <2>7. ASSUME NEW o \in Round(n, a), o.c = "normal", NEW m \in Repeated(n)[o.a], Joins(y, o, m)
        PROVE  Covers(Visit(n, b), a, x)
    <3>1. Covers(V, a, o) /\ o.a \in SUBSET Vars
      BY <1>1, <2>2, OutcomeTypes
    <3>2. o.a \subseteq m.a /\ m.bad \subseteq V.reported
      BY <1>2, <3>1 DEF Covers
    <3>3. x.a = m.a /\ x.bad = o.bad \cup m.bad
      BY <2>5, <2>7 DEF Caught, Joins
    <3> QED BY <2>1, <2>7, <3>1, <3>2, <3>3 DEF Covers
  <2> QED BY <2>4, <2>6, <2>7 DEF ComesAfter
<1> QED BY <1>3, <1>4

LEMMA CompositeSees ==
  ASSUME NEW s, Typed(s), Flows(s), s.free = {}, Sees(s), NEW t, Typed(t), Flows(t), t.free = {}, Sees(t),
         NEW n, IsComposite(n, s, t), n.k \notin {"conditional", "and", "finally"},
         NEW a \in SUBSET Vars, NEW b \in SUBSET a, NEW x \in Run(n, a)
  PROVE  Covers(Visit(n, b), a, x)
<1>0. /\ n.first = s /\ n.second = t /\ n.k \in Composites
      /\ s.run[a] \in SUBSET Outcomes /\ t.run \in Runs
  BY DEF IsComposite, Typed, Runs
<1>1. /\ \A o \in s.run[a] : o.a \in SUBSET Vars /\ Covers(s.visit[b], a, o) /\ o.c \notin Jumps
      /\ \A o \in t.run[a] : Covers(t.visit[b], a, o)
  BY RunFacts DEF Sees, Flows
<1>2. CASE n.k \in {"list", "comma"}
  <2>0. Visit(n, b) = VisitBoth(s, t, b)
    BY <1>0, <1>2, VisitsOf
  <2>1. x \in Then(s, t, a)
    BY <1>0, <1>2, RunCases
  <2> QED BY <2>0, <2>1, ThenCases, BothCover
<1>3. CASE n.k = "block"
  <2>0. Visit(n, b) = s.visit[b]
    BY <1>0, <1>3, VisitsOf
  <2>1. x \in s.run[a]
    BY <1>0, <1>3, RunCases
  <2> QED BY <1>1, <2>0, <2>1
<1>4. CASE n.k = "labeled"
  <2>0. Visit(n, b) = s.visit[b]
    BY <1>0, <1>4, VisitsOf
  <2>1. x \in Catch(s.run[a], "leave", "normal")
    BY <1>0, <1>4, RunCases
  <2>2. PICK o \in s.run[a] : Caught(x, o, "leave", "normal")
    BY <2>0, <2>1, CatchRunCases
  <2>3. o.c # "leave"
    BY <1>1 DEF Jumps
  <2> QED BY <1>1, <2>0, <2>1, <2>2, <2>3 DEF Covers, Caught
<1>5. CASE n.k = "function"
  <2>0. Visit(n, b) = Aside(b, s.visit[b])
    BY <1>0, <1>5, VisitsOf
  <2>1. x \in {Normal(a)} \cup Catch(s.run[a], "return", "normal")
    BY <1>0, <1>5, RunCases
  <2>2. CASE x = Normal(a)
    BY <2>0, <2>1, <2>2, NormalOutcome DEF Covers, Aside, Visited
  <2>3. CASE x \in Catch(s.run[a], "return", "normal")
    <3>1. PICK o \in s.run[a] : Caught(x, o, "return", "normal")
      BY <2>3, CatchRunCases
    <3> QED BY <1>1, <2>0, <2>1, <3>1 DEF Covers, Caught, Aside, Visited
  <2> QED BY <2>0, <2>1, <2>2, <2>3
<1>6. CASE n.k = "if"
  <2>0. Visit(n, b) = Intersect(s.visit[b], t.visit[b])
    BY <1>0, <1>6, VisitsOf
  <2>1. x \in s.run[a] \cup t.run[a]
    BY <1>0, <1>6, RunCases
  <2> QED BY <1>1, <2>0, <2>1 DEF Covers, Intersect, Visited
<1>7. CASE n.k = "try"
  <2>0. Visit(n, b) = Intersect(s.visit[b], t.visit[b])
    BY <1>0, <1>7, VisitsOf
  <2>1. x \in After(s.run[a], "throw", t.run)
    BY <1>0, <1>7, RunCases
  <2>2. ComesAfter(x, s.run[a], "throw", t.run)
    BY <1>0, <2>1, AfterCases
  <2>3. CASE x \in s.run[a]
    BY <1>1, <2>0, <2>1, <2>3 DEF Covers, Intersect, Visited
  <2>4. ASSUME NEW o \in s.run[a], NEW m \in t.run[o.a], Joins(x, o, m)
        PROVE  Covers(Visit(n, b), a, x)
    <3>1. a \subseteq o.a /\ o.bad \subseteq s.visit[b].reported /\ o.a \in SUBSET Vars
      BY <1>1 DEF Covers
    <3>2. Covers(t.visit[b], o.a, m)
      BY <3>1 DEF Sees
    <3> QED BY <2>0, <2>1, <2>4, <3>1, <3>2 DEF Covers, Intersect, Visited, Joins
  <2> QED BY <2>2, <2>3, <2>4 DEF ComesAfter
<1>8. CASE n.k = "while"
  BY <1>8, WhileCovers
<1>9. CASE n.k \in {"do", "for"}
  BY <1>9, DoCovers
<1> QED BY <1>0, <1>2, <1>3, <1>4, <1>5, <1>6, <1>7, <1>8, <1>9 DEF Composites, Loops, Expressions

LEMMA StructuredParts ==
  ASSUME NEW s, Typed(s), Flows(s), NEW t, Typed(t), Flows(t), NEW n, IsComposite(n, s, t),
         IsStructured(Statement(n))
  PROVE  /\ IsStructured(s) /\ IsStructured(t) /\ s.free = {} /\ t.free = {}
         /\ n.k \notin {"conditional", "and", "finally"}
<1>1. Kinds(n) \cap (Jumps \cup {"conditional", "and", "finally", "tests"}) = {}
  BY StatementFields DEF IsStructured
<1>2. IsStructured(s) /\ IsStructured(t) /\ n.k \notin {"conditional", "and", "finally"}
  BY <1>1, CompositeShape DEF IsStructured
<1> QED BY <1>2 DEF IsStructured, Flows, Typed

LEMMA CompositeSound ==
  ASSUME NEW s, Typed(s), Flows(s), Sound(s), NEW t, Typed(t), Flows(t), Sound(t),
         NEW n, IsComposite(n, s, t)
  PROVE  Sound(Statement(n))
<1> SUFFICES ASSUME IsStructured(Statement(n)), NEW a \in SUBSET Vars, NEW b \in SUBSET a, NEW x \in Run(n, a)
             PROVE  Covers(Visit(n, b), a, x)
  BY RunOfStatement, VisitOfStatement DEF Sound
<1>1. /\ IsStructured(s) /\ IsStructured(t) /\ s.free = {} /\ t.free = {}
      /\ n.k \notin {"conditional", "and", "finally"}
  BY StructuredParts
<1>2. Sees(s) /\ Sees(t)
  BY <1>1 DEF Sound, Sees
<1> QED BY <1>1, <1>2, CompositeSees

-----------------------------------------------------------------------------
(* DefiniteAssignmentChecker.ts reports nothing else of composite          *)
(* statements that are straight.                                           *)

\* O holds what comes of P when next follows completion c.
HasAfter(O, P, c, next) ==
  \A o \in P :
    /\ o.c # c => \E x \in O : x.c = o.c /\ x.a = o.a /\ x.bad = o.bad
    /\ o.c = c => \A m \in next[o.a] : \E x \in O : Joins(x, o, m)

LEMMA AfterHasAfter ==
  ASSUME NEW P, NEW c, NEW next
  PROVE  HasAfter(After(P, c, next), P, c, next)
BY AfterHas DEF HasAfter

\* What is shown from every state without v.
ShowsAll(s, b, v) == \A a \in SUBSET Vars : v \notin a => Shows(s.visit[b], b, s.run[a], v)
FailsAll(s, v) == \A a \in SUBSET Vars : v \notin a => MayFail(s.run[a], v)

\* What is misread first is misread.
LEMMA MisreadFirst ==
  ASSUME NEW s, Typed(s), NEW a \in SUBSET Vars, NEW next, \A e \in SUBSET Vars : next[e] # {},
         NEW c, NEW O, HasAfter(O, s.run[a], c, next),
         NEW v, NEW o \in s.run[a], v \in o.bad
  PROVE  \E x \in O : v \in x.bad
<1>1. CASE o.c # c
  BY <1>1 DEF HasAfter
<1>2. CASE o.c = c
  <2>1. PICK m \in next[o.a] : TRUE
    BY RunFacts
  <2>2. \E x \in O : Joins(x, o, m)
    BY <1>2, <2>1 DEF HasAfter
  <2> QED BY <2>2 DEF Joins
<1> QED BY <1>1, <1>2

LEMMA BothShow ==
  ASSUME NEW s, Typed(s), Flows(s), NEW t, Typed(t), Flows(t), NEW v,
         \A e \in SUBSET Vars : ShowsAll(s, e, v) /\ ShowsAll(t, e, v),
         NEW a \in SUBSET Vars, v \notin a, NEW b \in SUBSET Vars,
         NEW O, HasAfter(O, s.run[a], "normal", t.run)
  PROVE  Shows(VisitBoth(s, t, b), b, O, v) /\ (FailsAll(s, v) => MayFail(O, v))
<1> DEFINE S == s.visit[b]
<1> DEFINE T == t.visit[S.assigned]
<1>1. VisitBoth(s, t, b).assigned = T.assigned /\ VisitBoth(s, t, b).reported = S.reported \cup T.reported
  BY DEF VisitBoth, Visited
<1>2. S.assigned \in SUBSET Vars /\ S.assigned \subseteq T.assigned /\ T.reported \cap S.assigned = {}
  BY DEF Typed, States, Flows
<1>3. Shows(S, b, s.run[a], v) /\ (FailsAll(s, v) => MayFail(s.run[a], v))
  BY DEF ShowsAll, FailsAll
<1>4. \A o \in s.run[a] : /\ o.a \in SUBSET Vars
                          /\ v \notin o.a => Shows(T, S.assigned, t.run[o.a], v)
  BY <1>2, RunFacts DEF ShowsAll
<1> HIDE DEF S, T
<1>5. \A e \in SUBSET Vars : t.run[e] # {}
  BY DEF Flows
<1>6. ASSUME NEW o \in s.run[a], v \in o.bad
      PROVE  \E x \in O : v \in x.bad
  BY <1>5, <1>6, MisreadFirst
<1>7. ASSUME NEW o \in s.run[a], o.c = "throw", v \notin o.a
      PROVE  \E x \in O : x.c = "throw" /\ v \notin x.a
  BY <1>7 DEF HasAfter
<1>8. v \in S.reported \cup T.reported => \E x \in O : v \in x.bad
  <2>1. CASE v \in S.reported
    <3>1. PICK o \in s.run[a] : v \in o.bad
      BY <1>3, <2>1 DEF Shows
    <3> QED BY <1>6, <3>1
  <2>2. CASE v \in T.reported
    <3>1. PICK o \in s.run[a] : o.c = "normal" /\ v \notin o.a
      BY <1>2, <1>3, <2>2 DEF Shows
    <3>2. PICK m \in t.run[o.a] : v \in m.bad
      BY <1>4, <2>2, <3>1 DEF Shows
    <3>3. \E x \in O : Joins(x, o, m)
      BY <3>1, <3>2 DEF HasAfter
    <3> QED BY <3>2, <3>3 DEF Joins
  <2> QED BY <2>1, <2>2
<1>9. v \notin T.assigned => \E x \in O : x.c = "normal" /\ v \notin x.a
  <2> SUFFICES ASSUME v \notin T.assigned PROVE \E x \in O : x.c = "normal" /\ v \notin x.a
    OBVIOUS
  <2>1. PICK o \in s.run[a] : o.c = "normal" /\ v \notin o.a
    BY <1>2, <1>3 DEF Shows
  <2>2. PICK m \in t.run[o.a] : m.c = "normal" /\ v \notin m.a
    BY <1>4, <2>1 DEF Shows
  <2>3. \E x \in O : Joins(x, o, m)
    BY <2>1, <2>2 DEF HasAfter
  <2> QED BY <2>2, <2>3 DEF Joins
<1>10. v \in T.assigned \ b => \E x \in O : x.c = "throw" /\ v \notin x.a
  <2>1. CASE v \in S.assigned \ b
    <3>1. PICK o \in s.run[a] : o.c = "throw" /\ v \notin o.a
      BY <1>3, <2>1 DEF Shows
    <3> QED BY <1>7, <3>1
  <2>2. CASE v \in T.assigned \ S.assigned
    <3>1. PICK o \in s.run[a] : o.c = "normal" /\ v \notin o.a
      BY <1>3, <2>2 DEF Shows
    <3>2. PICK m \in t.run[o.a] : m.c = "throw" /\ v \notin m.a
      BY <1>4, <2>2, <3>1 DEF Shows
    <3>3. \E x \in O : Joins(x, o, m)
      BY <3>1, <3>2 DEF HasAfter
    <3> QED BY <3>2, <3>3 DEF Joins
  <2> QED BY <2>1, <2>2
<1>11. Shows(VisitBoth(s, t, b), b, O, v)
  BY <1>1, <1>8, <1>9, <1>10 DEF Shows
<1>12. ASSUME FailsAll(s, v) PROVE MayFail(O, v)
  <2>1. PICK o \in s.run[a] : (o.c = "throw" /\ v \notin o.a) \/ v \in o.bad
    BY <1>3, <1>12 DEF MayFail
  <2> QED BY <1>6, <1>7, <2>1 DEF MayFail
<1> QED BY <1>11, <1>12

\* One round is enough to show what is wrong with a loop.
LEMMA RoundHasAfter ==
  ASSUME NEW s, Typed(s), Flows(s), s.free = {}, NEW t, NEW n, n.first = s, n.second = t,
         NEW a \in SUBSET Vars
  PROVE  HasAfter(Round(n, a), s.run[a], "normal", t.run)
<1>1. \A o \in s.run[a] : o.c # "continue"
  BY DEF Flows, Jumps
<1> QED BY <1>1, RoundHas DEF HasAfter

LEMMA LoopHasAfter ==
  ASSUME NEW s, Typed(s), Flows(s), s.free = {}, NEW t, Typed(t), Flows(t), NEW n, IsComposite(n, s, t),
         n.k \in {"do", "for"}, NEW a \in SUBSET Vars
  PROVE  HasAfter(Run(n, a), s.run[a], "normal", t.run)
<1>0. n.first = s /\ n.second = t
  BY DEF IsComposite
<1>1. \A y \in Round(n, a) : y.c # "break"
  <2>1. \A y \in Round(n, a) : y.c \in Jumps => y.c \in s.free \ {"continue"}
    BY RoundJumps DEF Loops
  <2> QED BY <2>1 DEF Jumps
<1>2. \A e \in SUBSET Vars : \E m \in Repeated(n)[e] : Stays(m, e)
  BY RepeatedHas
<1>3. ASSUME NEW y \in Round(n, a)
      PROVE  \E x \in Run(n, a) : x.c = y.c /\ x.a = y.a /\ x.bad = y.bad
  <2>1. y.a \in SUBSET Vars
    BY <1>0, RoundCases, OutcomeTypes DEF Typed
  <2>2. CASE n.k = "for"
    <3>1. PICK x \in Repeated(n)[a] : Caught(x, y, "break", "normal")
      BY RepeatedHas
    <3> QED BY <1>1, <2>2, <3>1, RunCases DEF Caught
  <2>3. CASE n.k = "do"
    <3>1. \E z \in After(Round(n, a), "normal", Repeated(n)) : z.c = y.c /\ z.a = y.a /\ z.bad = y.bad
      <4>1. CASE y.c # "normal"
        BY <4>1, AfterHas
      <4>2. CASE y.c = "normal"
        <5>1. PICK m \in Repeated(n)[y.a] : Stays(m, y.a)
          BY <1>2, <2>1
        <5>2. \E z \in After(Round(n, a), "normal", Repeated(n)) : Joins(z, y, m)
          BY <4>2, <5>1, AfterHas
        <5> QED BY <4>2, <5>1, <5>2 DEF Joins, Stays
      <4> QED BY <4>1, <4>2
    <3>2. PICK z \in After(Round(n, a), "normal", Repeated(n)) : z.c = y.c /\ z.a = y.a /\ z.bad = y.bad
      BY <3>1
    <3>3. PICK x \in Catch(After(Round(n, a), "normal", Repeated(n)), "break", "normal") :
            Caught(x, z, "break", "normal")
      BY <3>2, CatchHas
    <3>4. x \in Run(n, a)
      BY <2>3, <3>3, RunCases
    <3> QED BY <1>1, <3>2, <3>3, <3>4 DEF Caught
  <2> QED BY <2>2, <2>3
<1>4. HasAfter(Round(n, a), s.run[a], "normal", t.run)
  BY <1>0, RoundHasAfter
<1>5. ASSUME NEW o \in s.run[a], o.c # "normal"
      PROVE  \E x \in Run(n, a) : x.c = o.c /\ x.a = o.a /\ x.bad = o.bad
  <2>1. PICK y \in Round(n, a) : y.c = o.c /\ y.a = o.a /\ y.bad = o.bad
    BY <1>4, <1>5 DEF HasAfter
  <2>2. PICK x \in Run(n, a) : x.c = y.c /\ x.a = y.a /\ x.bad = y.bad
    BY <1>3
  <2> QED BY <2>1, <2>2
<1>6. ASSUME NEW o \in s.run[a], o.c = "normal", NEW m \in t.run[o.a]
      PROVE  \E x \in Run(n, a) : Joins(x, o, m)
  <2>1. PICK y \in Round(n, a) : Joins(y, o, m)
    BY <1>4, <1>6 DEF HasAfter
  <2>2. PICK x \in Run(n, a) : x.c = y.c /\ x.a = y.a /\ x.bad = y.bad
    BY <1>3
  <2> QED BY <2>1, <2>2 DEF Joins
<1> QED BY <1>5, <1>6 DEF HasAfter

LEMMA WhileShows ==
  ASSUME NEW s, Typed(s), Flows(s), NEW t, Typed(t), Flows(t), NEW n, IsComposite(n, s, t), n.k = "while",
         NEW v, \A e \in SUBSET Vars : ShowsAll(s, e, v) /\ ShowsAll(t, e, v), FailsAll(t, v),
         NEW a \in SUBSET Vars, v \notin a, NEW b \in SUBSET Vars
  PROVE  Shows(Visit(n, b), b, Run(n, a), v) /\ MayFail(Run(n, a), v)
<1>0. n.first = s /\ n.second = t
  BY DEF IsComposite
<1> DEFINE T == t.visit[b]
<1> DEFINE B == s.visit[T.assigned]
<1>1. Visit(n, b).assigned = T.assigned /\ Visit(n, b).reported = T.reported \cup B.reported
  BY VisitOfWhile DEF VisitLoop, Visited
<1>2. T.assigned \in SUBSET Vars /\ B.reported \cap T.assigned = {}
  BY DEF Typed, States, Flows
<1>3. Shows(T, b, t.run[a], v) /\ MayFail(t.run[a], v)
  BY DEF ShowsAll, FailsAll
<1>4. \A o \in t.run[a] : /\ o.a \in SUBSET Vars
                          /\ v \notin o.a => Shows(B, T.assigned, s.run[o.a], v)
  BY <1>2, RunFacts DEF ShowsAll
<1> HIDE DEF T, B
<1>5. HasAfter(Run(n, a), t.run[a], "normal", Repeated(n))
  BY <1>0, RunCases, AfterHasAfter
<1>6. \A e \in SUBSET Vars : \E m \in Repeated(n)[e] : Stays(m, e)
  BY RepeatedHas
<1>7. ASSUME NEW o \in t.run[a], v \in o.bad
      PROVE  \E x \in Run(n, a) : v \in x.bad
  <2>1. \A e \in SUBSET Vars : Repeated(n)[e] # {}
    BY <1>6
  <2> QED BY <1>5, <1>7, <2>1, MisreadFirst
<1>8. ASSUME NEW o \in t.run[a], o.c = "throw", v \notin o.a
      PROVE  \E x \in Run(n, a) : x.c = "throw" /\ v \notin x.a
  BY <1>5, <1>8 DEF HasAfter
<1>9. v \in B.reported => \E x \in Run(n, a) : v \in x.bad
  <2> SUFFICES ASSUME v \in B.reported PROVE \E x \in Run(n, a) : v \in x.bad
    OBVIOUS
  <2>1. PICK o \in t.run[a] : o.c = "normal" /\ v \notin o.a
    BY <1>2, <1>3 DEF Shows
  <2>2. PICK p \in s.run[o.a] : v \in p.bad
    BY <1>4, <2>1 DEF Shows
  <2>3. \E y \in Round(n, o.a) : v \in y.bad
    <3>1. CASE p.c \notin {"normal", "continue"}
      BY <1>0, <2>2, <3>1, RoundHas
    <3>2. CASE p.c \in {"normal", "continue"}
      <4>1. o.a \in SUBSET Vars
        BY <1>4
      <4>2. PICK q \in t.run[p.a] : TRUE
        BY <4>1, RunFacts DEF Flows
      <4>3. \E y \in Round(n, o.a) : Joins(y, p, q)
        BY <1>0, <3>2, <4>2, RoundHas
      <4> QED BY <2>2, <4>3 DEF Joins
    <3> QED BY <3>1, <3>2
  <2>4. PICK y \in Round(n, o.a) : v \in y.bad
    BY <2>3
  <2>5. \E m \in Repeated(n)[o.a] : Caught(m, y, "break", "normal")
    BY <1>4, RepeatedHas
  <2>6. PICK m \in Repeated(n)[o.a] : v \in m.bad
    BY <2>4, <2>5 DEF Caught
  <2>7. \E x \in Run(n, a) : Joins(x, o, m)
    BY <1>5, <2>1 DEF HasAfter
  <2> QED BY <2>6, <2>7 DEF Joins
<1>10. v \notin T.assigned => \E x \in Run(n, a) : x.c = "normal" /\ v \notin x.a
  <2> SUFFICES ASSUME v \notin T.assigned PROVE \E x \in Run(n, a) : x.c = "normal" /\ v \notin x.a
    OBVIOUS
  <2>1. PICK o \in t.run[a] : o.c = "normal" /\ v \notin o.a
    BY <1>3 DEF Shows
  <2>2. PICK m \in Repeated(n)[o.a] : Stays(m, o.a)
    BY <1>4, <1>6
  <2>3. \E x \in Run(n, a) : Joins(x, o, m)
    BY <1>5, <2>1 DEF HasAfter
  <2> QED BY <2>1, <2>2, <2>3 DEF Joins, Stays
<1>11. Shows(Visit(n, b), b, Run(n, a), v)
  BY <1>1, <1>3, <1>7, <1>8, <1>9, <1>10 DEF Shows
<1>12. MayFail(Run(n, a), v)
  <2>1. PICK o \in t.run[a] : (o.c = "throw" /\ v \notin o.a) \/ v \in o.bad
    BY <1>3 DEF MayFail
  <2> QED BY <1>7, <1>8, <2>1 DEF MayFail
<1> QED BY <1>11, <1>12

LEMMA TryShows ==
  ASSUME NEW s, Typed(s), Flows(s), NEW t, Typed(t), Flows(t), NEW n, IsComposite(n, s, t), n.k = "try",
         NEW v, \A e \in SUBSET Vars : ShowsAll(s, e, v) /\ ShowsAll(t, e, v), FailsAll(s, v), FailsAll(t, v),
         NEW a \in SUBSET Vars, v \notin a, NEW b \in SUBSET Vars
  PROVE  Shows(Visit(n, b), b, Run(n, a), v) /\ MayFail(Run(n, a), v)
<1>0. n.first = s /\ n.second = t
  BY DEF IsComposite
<1> DEFINE S == s.visit[b]
<1> DEFINE T == t.visit[b]
<1>1. Visit(n, b) = Intersect(S, T)
  BY <1>0, VisitsOf
<1>2. /\ Visit(n, b).assigned = S.assigned \cap T.assigned
      /\ Visit(n, b).reported = S.reported \cup T.reported
  BY <1>1 DEF Intersect, Visited
<1>3. Shows(S, b, s.run[a], v) /\ MayFail(s.run[a], v) /\ T.reported \cap b = {} /\ b \subseteq T.assigned
  BY DEF ShowsAll, FailsAll, Flows
<1>4. \A o \in s.run[a] : /\ o.a \in SUBSET Vars
                          /\ v \notin o.a => Shows(T, b, t.run[o.a], v) /\ MayFail(t.run[o.a], v)
  BY RunFacts DEF ShowsAll, FailsAll
<1> HIDE DEF S, T
<1>5. HasAfter(Run(n, a), s.run[a], "throw", t.run)
  BY <1>0, RunCases, AfterHasAfter
<1>6. \A e \in SUBSET Vars : t.run[e] # {}
  BY DEF Flows
<1>7. ASSUME NEW o \in s.run[a], v \in o.bad
      PROVE  \E x \in Run(n, a) : v \in x.bad
  BY <1>5, <1>6, <1>7, MisreadFirst, ZenonT(30)
<1>8. ASSUME NEW o \in s.run[a], o.c = "throw", NEW m \in t.run[o.a]
      PROVE  \E x \in Run(n, a) : Joins(x, o, m)
  BY <1>5, <1>8 DEF HasAfter
<1>9. v \in S.reported \cup T.reported => \E x \in Run(n, a) : v \in x.bad
  <2>1. CASE v \in S.reported
    <3>1. PICK o \in s.run[a] : v \in o.bad
      BY <1>3, <2>1 DEF Shows
    <3> QED BY <1>7, <3>1
  <2>2. CASE v \in T.reported
    <3>1. PICK o \in s.run[a] : (o.c = "throw" /\ v \notin o.a) \/ v \in o.bad
      BY <1>3 DEF MayFail
    <3>2. CASE o.c = "throw" /\ v \notin o.a
      <4>1. PICK m \in t.run[o.a] : v \in m.bad
        BY <1>4, <2>2, <3>2 DEF Shows
      <4> QED BY <1>8, <3>2, <4>1 DEF Joins
    <3> QED BY <1>7, <3>1, <3>2
  <2> QED BY <2>1, <2>2
<1>10. v \notin S.assigned \cap T.assigned => \E x \in Run(n, a) : x.c = "normal" /\ v \notin x.a
  <2>1. CASE v \notin S.assigned
    <3>1. PICK o \in s.run[a] : o.c = "normal" /\ v \notin o.a
      BY <1>3, <2>1 DEF Shows
    <3> QED BY <1>5, <3>1 DEF HasAfter
  <2>2. CASE v \in S.assigned /\ v \notin T.assigned
    <3>1. PICK o \in s.run[a] : o.c = "throw" /\ v \notin o.a
      BY <1>3, <2>2 DEF Shows
    <3>2. PICK m \in t.run[o.a] : m.c = "normal" /\ v \notin m.a
      BY <1>4, <2>2, <3>1 DEF Shows
    <3> QED BY <1>8, <3>1, <3>2 DEF Joins
  <2> QED BY <2>1, <2>2
<1>11. v \in (S.assigned \cap T.assigned) \ b => \E x \in Run(n, a) : x.c = "throw" /\ v \notin x.a
  <2> SUFFICES ASSUME v \in (S.assigned \cap T.assigned) \ b
               PROVE  \E x \in Run(n, a) : x.c = "throw" /\ v \notin x.a
    OBVIOUS
  <2>1. PICK o \in s.run[a] : o.c = "throw" /\ v \notin o.a
    BY <1>3 DEF Shows
  <2>2. PICK m \in t.run[o.a] : m.c = "throw" /\ v \notin m.a
    BY <1>4, <2>1 DEF Shows
  <2> QED BY <1>8, <2>1, <2>2 DEF Joins
<1>12. Shows(Visit(n, b), b, Run(n, a), v)
  BY <1>2, <1>9, <1>10, <1>11 DEF Shows
<1>13. MayFail(Run(n, a), v)
  <2>1. PICK o \in s.run[a] : (o.c = "throw" /\ v \notin o.a) \/ v \in o.bad
    BY <1>3 DEF MayFail
  <2>2. CASE o.c = "throw" /\ v \notin o.a
    <3>1. PICK m \in t.run[o.a] : (m.c = "throw" /\ v \notin m.a) \/ v \in m.bad
      BY <1>4, <2>2 DEF MayFail
    <3>2. PICK x \in Run(n, a) : Joins(x, o, m)
      BY <1>8, <2>2
    <3> QED BY <3>1, <3>2 DEF Joins, MayFail
  <2> QED BY <1>7, <2>1, <2>2 DEF MayFail
<1> QED BY <1>12, <1>13

LEMMA CompositeShows ==
  ASSUME NEW s, Typed(s), Flows(s), s.free = {}, NEW t, Typed(t), Flows(t), t.free = {},
         NEW n, IsComposite(n, s, t), n.k \notin {"conditional", "and", "finally"},
         NEW v, \A e \in SUBSET Vars : ShowsAll(s, e, v) /\ ShowsAll(t, e, v),
         FailsAll(s, v), n.k \notin {"if", "for"} => FailsAll(t, v),
         NEW a \in SUBSET Vars, v \notin a, NEW b \in SUBSET Vars
  PROVE  Shows(Visit(n, b), b, Run(n, a), v) /\ MayFail(Run(n, a), v)
<1>0. n.first = s /\ n.second = t /\ n.k \in Composites
  BY DEF IsComposite
<1>1. /\ Shows(s.visit[b], b, s.run[a], v) /\ Shows(t.visit[b], b, t.run[a], v) /\ MayFail(s.run[a], v)
      /\ \A o \in s.run[a] : o.c \notin Jumps
  BY DEF ShowsAll, FailsAll, Flows
<1>2. CASE n.k \in {"list", "comma"}
  <2>1. HasAfter(Run(n, a), s.run[a], "normal", t.run)
    BY <1>0, <1>2, RunCases, AfterHasAfter DEF Then
  <2>2. Visit(n, b) = VisitBoth(s, t, b)
    BY <1>0, <1>2, VisitsOf
  <2> QED BY <2>1, <2>2, BothShow
<1>3. CASE n.k = "block"
  <2>1. Visit(n, b) = s.visit[b]
    BY <1>0, <1>3, VisitsOf
  <2>2. Run(n, a) = s.run[a]
    BY <1>0, <1>3, RunCases
  <2> QED BY <1>1, <2>1, <2>2
<1>4. CASE n.k = "labeled"
  <2>1. Visit(n, b) = s.visit[b]
    BY <1>0, <1>4, VisitsOf
  <2>2. Run(n, a) = Catch(s.run[a], "leave", "normal")
    BY <1>0, <1>4, RunCases
  <2>3. ASSUME NEW o \in s.run[a]
        PROVE  \E x \in Run(n, a) : x.c = o.c /\ x.a = o.a /\ x.bad = o.bad
    <3>1. PICK x \in Run(n, a) : Caught(x, o, "leave", "normal")
      BY <2>2, CatchHas
    <3>2. o.c # "leave"
      BY <1>1 DEF Jumps
    <3> QED BY <3>1, <3>2 DEF Caught
  <2>4. Shows(s.visit[b], b, Run(n, a), v)
    BY <1>1, <2>3 DEF Shows
  <2>5. MayFail(Run(n, a), v)
    BY <1>1, <2>3 DEF MayFail
  <2> QED BY <2>1, <2>4, <2>5
<1>5. CASE n.k = "function"
  <2>1. Visit(n, b) = Aside(b, s.visit[b])
    BY <1>0, <1>5, VisitsOf
  <2>2. Run(n, a) = {Normal(a)} \cup Catch(s.run[a], "return", "normal")
    BY <1>0, <1>5, RunCases
  <2>3. ASSUME NEW o \in s.run[a]
        PROVE  \E x \in Run(n, a) : x.a = o.a /\ x.bad = o.bad /\ (o.c = "throw" => x.c = "throw")
    <3>1. PICK x \in Catch(s.run[a], "return", "normal") : Caught(x, o, "return", "normal")
      BY CatchHas
    <3> QED BY <2>2, <3>1 DEF Caught
  <2>4. \E x \in Run(n, a) : x.c = "normal" /\ v \notin x.a
    BY <2>2, NormalOutcome
  <2>5. Visit(n, b).assigned = b /\ Visit(n, b).reported = s.visit[b].reported
    BY <2>1 DEF Aside, Visited
  <2>6. Shows(Visit(n, b), b, Run(n, a), v)
    BY <1>1, <2>3, <2>4, <2>5 DEF Shows
  <2>7. MayFail(Run(n, a), v)
    BY <1>1, <2>3 DEF MayFail
  <2> QED BY <2>6, <2>7
<1>6. CASE n.k = "if"
  <2>1. Visit(n, b) = Intersect(s.visit[b], t.visit[b])
    BY <1>0, <1>6, VisitsOf
  <2>2. Run(n, a) = s.run[a] \cup t.run[a]
    BY <1>0, <1>6, RunCases
  <2>3. /\ Visit(n, b).assigned = s.visit[b].assigned \cap t.visit[b].assigned
        /\ Visit(n, b).reported = s.visit[b].reported \cup t.visit[b].reported
    BY <2>1 DEF Intersect, Visited
  <2>4. Shows(Visit(n, b), b, Run(n, a), v)
    BY <1>1, <2>2, <2>3 DEF Shows
  <2>5. MayFail(Run(n, a), v)
    BY <1>1, <2>2 DEF MayFail
  <2> QED BY <2>4, <2>5
<1>7. CASE n.k = "try"
  BY <1>7, TryShows
<1>8. CASE n.k = "while"
  BY <1>8, WhileShows
<1>9. CASE n.k = "do"
  <2>1. HasAfter(Run(n, a), s.run[a], "normal", t.run)
    BY <1>9, LoopHasAfter
  <2>2. Visit(n, b) = VisitBoth(s, t, b)
    BY <1>0, <1>9, VisitsOf
  <2> QED BY <2>1, <2>2, BothShow
<1>10. CASE n.k = "for"
  <2>1. HasAfter(Run(n, a), s.run[a], "normal", t.run)
    BY <1>10, LoopHasAfter
  <2>2. Visit(n, b) = Aside(b, VisitBoth(s, t, b))
    BY <1>0, <1>10, VisitsOf
  <2>3. Shows(VisitBoth(s, t, b), b, Run(n, a), v) /\ MayFail(Run(n, a), v)
    BY <2>1, BothShow
  <2>4. Visit(n, b).assigned = b /\ Visit(n, b).reported = VisitBoth(s, t, b).reported
    BY <2>2 DEF Aside, Visited
  <2>5. Run(n, a) = Repeated(n)[a]
    BY <1>10, RunCases
  <2>6. \E x \in Run(n, a) : x.c = "normal" /\ v \notin x.a
    BY <2>5, RepeatedHas DEF Stays
  <2> QED BY <2>3, <2>4, <2>6 DEF Shows
<1> QED BY <1>0, <1>2, <1>3, <1>4, <1>5, <1>6, <1>7, <1>8, <1>9, <1>10 DEF Composites, Loops, Expressions

LEMMA CompositeShown ==
  ASSUME NEW s, Typed(s), Flows(s), Shown(s), Fails(s), NEW t, Typed(t), Flows(t), Shown(t),
         NEW n, IsComposite(n, s, t), n.k \notin {"if", "for"} => Fails(t)
  PROVE  Shown(Statement(n)) /\ Fails(Statement(n))
<1> SUFFICES ASSUME IsStraight(Statement(n)), NEW v \in Vars, NEW a \in SUBSET Vars, v \notin a,
                    NEW b \in SUBSET Vars
             PROVE  Shows(Visit(n, b), b, Run(n, a), v) /\ MayFail(Run(n, a), v)
  BY RunOfStatement, VisitOfStatement DEF Shown, Fails
<1>1. /\ IsStructured(s) /\ IsStructured(t) /\ s.free = {} /\ t.free = {}
      /\ n.k \notin {"conditional", "and", "finally"}
  BY StructuredParts DEF IsStraight
<1>2. IsStraight(s) /\ IsStraight(t)
  <2>1. Statement(n).kinds = Kinds(n)
    BY StatementFields
  <2>2. s.kinds \cup t.kinds \subseteq Kinds(n)
    BY CompositeShape
  <2> QED BY <1>1, <2>1, <2>2 DEF IsStraight
<1>3. /\ \A e \in SUBSET Vars : ShowsAll(s, e, v) /\ ShowsAll(t, e, v)
      /\ FailsAll(s, v)
      /\ n.k \notin {"if", "for"} => FailsAll(t, v)
  BY <1>2 DEF Shown, Fails, ShowsAll, FailsAll
<1> QED BY <1>1, <1>3, CompositeShows

\* So a statement is right when its parts are.
LEMMA CompositeGood ==
  ASSUME NEW s, Good(s), NEW t, Right(t), NEW n, IsComposite(n, s, t), n.k \notin {"if", "for"} => Good(t)
  PROVE  Good(Statement(n))
<1>1. Typed(Statement(n)) /\ Flows(Statement(n))
  BY CompositeTyped, CompositeFlows DEF Good, Right
<1>2. ExitsRight(Statement(n)) /\ PreventsRight(Statement(n))
  BY CompositeExits, CompositePrevents DEF Good, Right
<1>3. Sound(Statement(n))
  BY CompositeSound DEF Good, Right
<1>4. Shown(Statement(n)) /\ Fails(Statement(n))
  BY CompositeShown DEF Good, Right
<1> QED BY <1>1, <1>2, <1>3, <1>4 DEF Good, Right

\* What runs one after the other need not be able to fail for that.
LEMMA SequenceRight ==
  ASSUME NEW s, Right(s), NEW t, Right(t), NEW n, IsComposite(n, s, t), n.k \in {"list", "comma"}
  PROVE  Right(Statement(n)) /\ (Fails(s) => Fails(Statement(n)))
<1>1. /\ Typed(s) /\ Flows(s) /\ ExitsRight(s) /\ PreventsRight(s) /\ Sound(s) /\ Shown(s)
      /\ Typed(t) /\ Flows(t) /\ ExitsRight(t) /\ PreventsRight(t) /\ Sound(t) /\ Shown(t)
  BY DEF Right
<1>2. ASSUME IsStraight(Statement(n)), NEW v \in Vars, NEW a \in SUBSET Vars, v \notin a,
             NEW b \in SUBSET Vars
      PROVE  Shows(Visit(n, b), b, Run(n, a), v) /\ (Fails(s) => MayFail(Run(n, a), v))
  <2>1. IsStraight(s) /\ IsStraight(t)
    <3>1. Statement(n).kinds = Kinds(n)
      BY StatementFields
    <3>2. s.kinds \cup t.kinds \subseteq Kinds(n)
      BY CompositeShape
    <3>3. IsStructured(s) /\ IsStructured(t)
      BY <1>1, <1>2, StructuredParts DEF IsStraight
    <3> QED BY <1>2, <3>1, <3>2, <3>3 DEF IsStraight
  <2>2. /\ \A e \in SUBSET Vars : ShowsAll(s, e, v) /\ ShowsAll(t, e, v)
        /\ Fails(s) => FailsAll(s, v)
    BY <1>1, <2>1 DEF Shown, Fails, ShowsAll, FailsAll
  <2>3. HasAfter(Run(n, a), s.run[a], "normal", t.run) /\ Visit(n, b) = VisitBoth(s, t, b)
    <3>1. n.first = s /\ n.second = t
      BY DEF IsComposite
    <3>2. Run(n, a) = After(s.run[a], "normal", t.run)
      BY <3>1, RunCases DEF Then
    <3>3. Visit(n, b) = VisitBoth(s, t, b)
      BY <3>1, VisitsOf
    <3> QED BY <3>2, <3>3, AfterHasAfter
  <2> QED BY <1>1, <1>2, <2>2, <2>3, BothShow
<1>3. Shown(Statement(n)) /\ (Fails(s) => Fails(Statement(n)))
  BY <1>2, RunOfStatement, VisitOfStatement DEF Shown, Fails
<1>4. Typed(Statement(n)) /\ Flows(Statement(n)) /\ Sound(Statement(n))
  BY <1>1, CompositeTyped, CompositeFlows, CompositeSound
<1>5. ExitsRight(Statement(n)) /\ PreventsRight(Statement(n))
  BY <1>1, CompositeExits, CompositePrevents
<1> QED BY <1>3, <1>4, <1>5 DEF Right

-----------------------------------------------------------------------------
(* Leaves.                                                                 *)

\* The jump a leaf is.
JumpOf(n) == IF n.k = "expression" THEN n.first ELSE n.k

IsGoodLeaf(n) ==
  /\ n.k \in {"read", "assign", "call", "empty", "return", "throw", "expression"} \cup Jumps
  /\ n.k \in {"read", "assign"} => n.first \in Vars
  /\ n.k = "expression" => n.first \in Jumps

LEMMA LeafShape ==
  ASSUME NEW n, IsGoodLeaf(n)
  PROVE  /\ FreeJumps(n) = {JumpOf(n)} \cap Jumps
         /\ BuriedJumps(n) = IF n.k = "expression" THEN {JumpOf(n)} ELSE {}
         /\ IsJump(n) <=> n.k \in Jumps
         /\ Kinds(n) = {JumpOf(n)} \cap ({"empty", "return", "throw"} \cup Jumps)
         /\ IsExpression(n) => n.k \notin Jumps \cup {"expression"}
         /\ AlwaysExits(n) => n.k \in {"return", "throw"}
         /\ PreventsFallthrough(n) => n.k \in {"return", "throw", "expression"} \cup Jumps
<1>1. IsLeaf(n) /\ n.k \notin Composites \cup {"switch"}
  BY DEF IsGoodLeaf, IsLeaf, Jumps, Composites, Loops, Expressions
<1>2. /\ FreeJumps(n) = {JumpOf(n)} \cap Jumps
      /\ BuriedJumps(n) = IF n.k = "expression" THEN {JumpOf(n)} ELSE {}
  BY <1>1 DEF FreeJumps, BuriedJumps, JumpOf, IsGoodLeaf, Jumps
<1>3. IsJump(n) <=> n.k \in Jumps
  BY <1>1 DEF IsJump, Composites
<1>4. Kinds(n) = {JumpOf(n)} \cap ({"empty", "return", "throw"} \cup Jumps)
  <2>1. Kinds(n) = ({n.k} \cap {"empty", "return", "throw", "conditional", "and", "finally"})
                     \cup (IF n.k \in Jumps \cup {"expression"} THEN FreeJumps(n) ELSE {})
    BY <1>1 DEF Kinds, Composites, Loops, Expressions
  <2> QED BY <1>1, <1>2, <2>1 DEF JumpOf, IsGoodLeaf, Jumps, Composites, Loops, Expressions
<1>5. IsExpression(n) => n.k \notin Jumps \cup {"expression"}
  BY DEF IsExpression, Jumps
<1>6. AlwaysExits(n) => n.k \in {"return", "throw"}
  BY <1>1, ExitsOf DEF Composites, Loops, Expressions
<1>7. PreventsFallthrough(n) => n.k \in {"return", "throw", "expression"} \cup Jumps
  BY <1>1, PreventsOf DEF Composites, Loops, Expressions
<1> QED BY <1>2, <1>3, <1>4, <1>5, <1>6, <1>7

\* What leaves come to, and what is said of them.
LeafOutcome(n, a, o) ==
  \/ n.k \in {"read", "call", "empty"} /\ o.c = "normal" /\ o.a = a
  \/ n.k = "assign" /\ o.c = "normal" /\ o.a = a \cup {n.first}
  \/ n.k \in {"read", "call", "assign"} /\ o.c = "throw" /\ o.a = a
  \/ n.k \in {"return", "throw", "expression"} \cup Jumps /\ o.c = JumpOf(n) /\ o.a = a

LeafRunIs(n, a, R) ==
  /\ R # {}
  /\ \A o \in R : o \in Outcomes /\ LeafOutcome(n, a, o)
  /\ \A o \in R : o.bad = IF n.k = "read" THEN {n.first} \ a ELSE {}
  /\ n.k \in {"read", "call", "empty"} => \E o \in R : o.c = "normal" /\ o.a = a
  /\ n.k = "assign" => \E o \in R : o.c = "normal" /\ o.a = a \cup {n.first}
  /\ n.k \in {"read", "call", "assign"} => \E o \in R : o.c = "throw" /\ o.a = a

LeafVisitIs(n, b, visited) ==
  /\ visited \in States
  /\ visited.assigned = IF n.k = "assign" THEN b \cup {n.first} ELSE b
  /\ visited.reported = IF n.k = "read" THEN {n.first} \ b ELSE {}

LEMMA LeafRun ==
  ASSUME NEW n, IsGoodLeaf(n), NEW a \in SUBSET Vars
  PROVE  LeafRunIs(n, a, Run(n, a))
<1>1. CASE n.k = "read"
  <2>1. Run(n, a) = {Outcome(c, a, {n.first} \ a) : c \in {"normal", "throw"}}
    BY <1>1, LeafRuns
  <2>2. Run(n, a) = {Outcome("normal", a, {n.first} \ a), Outcome("throw", a, {n.first} \ a)}
    BY <2>1
  <2>3. /\ Outcome("normal", a, {n.first} \ a) \in Outcomes
        /\ Outcome("throw", a, {n.first} \ a) \in Outcomes
    BY <1>1, IsOutcome DEF IsGoodLeaf
  <2> QED BY <1>1, <2>2, <2>3, OutcomeFields DEF LeafRunIs, LeafOutcome, Jumps
<1>2. CASE n.k = "assign"
  <2>1. Run(n, a) = {Normal(a \cup {n.first}), Outcome("throw", a, {})}
    BY <1>2, LeafRuns
  <2>2. a \cup {n.first} \in SUBSET Vars
    BY <1>2 DEF IsGoodLeaf
  <2>3. Outcome("throw", a, {}) \in Outcomes
    BY IsOutcome
  <2> QED BY <1>2, <2>1, <2>2, <2>3, NormalOutcome, OutcomeFields DEF LeafRunIs, LeafOutcome, Jumps
<1>3. CASE n.k = "call"
  <2>1. Run(n, a) = {Normal(a), Outcome("throw", a, {})}
    BY <1>3, LeafRuns
  <2>2. Outcome("throw", a, {}) \in Outcomes
    BY IsOutcome
  <2> QED BY <1>3, <2>1, <2>2, NormalOutcome, OutcomeFields DEF LeafRunIs, LeafOutcome, Jumps
<1>4. CASE n.k = "empty"
  <2>1. Run(n, a) = {Normal(a)}
    BY <1>4, LeafRuns
  <2> QED BY <1>4, <2>1, NormalOutcome DEF LeafRunIs, LeafOutcome, Jumps
<1>5. CASE n.k \in {"return", "throw", "expression"} \cup Jumps
  <2>1. Run(n, a) = {Outcome(JumpOf(n), a, {})}
    BY <1>5, LeafRuns, JumpRuns DEF JumpOf, Jumps
  <2>2. Outcome(JumpOf(n), a, {}) \in Outcomes
    BY <1>5, IsOutcome DEF JumpOf, IsGoodLeaf
  <2> QED BY <1>5, <2>1, <2>2, OutcomeFields DEF LeafRunIs, LeafOutcome, Jumps
<1> QED BY <1>1, <1>2, <1>3, <1>4, <1>5 DEF IsGoodLeaf

LEMMA LeafVisit ==
  ASSUME NEW n, IsGoodLeaf(n), NEW b \in SUBSET Vars
  PROVE  LeafVisitIs(n, b, Visit(n, b))
<1>1. CASE n.k = "read"
  <2>1. Visit(n, b) = Visited(b, {n.first} \ b)
    BY <1>1, VisitsOf
  <2> QED BY <1>1, <2>1 DEF LeafVisitIs, Visited, States, IsGoodLeaf
<1>2. CASE n.k = "assign"
  <2>1. Visit(n, b) = Visited(b \cup {n.first}, {})
    BY <1>2, VisitsOf
  <2> QED BY <1>2, <2>1 DEF LeafVisitIs, Visited, States, IsGoodLeaf
<1>3. CASE n.k \notin {"read", "assign"}
  <2>1. Visit(n, b) = Visited(b, {})
    BY <1>3, VisitsOf DEF IsGoodLeaf
  <2> QED BY <1>3, <2>1 DEF LeafVisitIs, Visited, States
<1> QED BY <1>1, <1>2, <1>3

LEMMA LeafGood ==
  ASSUME NEW n, IsGoodLeaf(n)
  PROVE  /\ Good(Statement(n))
         /\ n.k = "empty" => \A a, b \in SUBSET Vars : \A v \in Vars \ a :
              Shows(Statement(n).visit[b], b, Statement(n).run[a], v)
<1> DEFINE s == Statement(n)
<1>1. \A a \in SUBSET Vars : LeafRunIs(n, a, s.run[a]) /\ LeafVisitIs(n, a, s.visit[a])
  BY RunOfStatement, VisitOfStatement, LeafRun, LeafVisit
<1>2. /\ s.free = FreeJumps(n) /\ s.buried = BuriedJumps(n) /\ s.kinds = Kinds(n)
      /\ s.exits <=> AlwaysExits(n)
      /\ s.prevents <=> PreventsFallthrough(n)
      /\ s.jump <=> IsJump(n)
      /\ s.expression <=> IsExpression(n)
  BY StatementFields
<1>3. Typed(s)
  <2>1. FreeJumps(n) \in SUBSET Jumps /\ BuriedJumps(n) \in SUBSET Jumps
    BY LeafShape DEF JumpOf, IsGoodLeaf
  <2>2. \A a \in SUBSET Vars : Run(n, a) \in SUBSET Outcomes
    BY LeafRun DEF LeafRunIs
  <2>3. \A a \in SUBSET Vars : Visit(n, a) \in States
    BY LeafVisit DEF LeafVisitIs
  <2> QED BY <2>1, <2>2, <2>3, TypedStatement
<1> HIDE DEF s
<1>4. Flows(s)
  <2>1. \A a \in SUBSET Vars : s.run[a] # {}
    BY <1>1 DEF LeafRunIs
  <2>2. \A a \in SUBSET Vars : \A o \in s.run[a] : o.c \in Jumps => o.c \in s.free
    <3>1. \A a \in SUBSET Vars : \A o \in s.run[a] : LeafOutcome(n, a, o)
      BY <1>1 DEF LeafRunIs
    <3>2. \A a \in SUBSET Vars : \A o \in s.run[a] : o.c \in Jumps => o.c = JumpOf(n)
      BY <3>1 DEF LeafOutcome, Jumps
    <3> QED BY <1>2, <3>2, LeafShape
  <2>3. s.free \subseteq s.kinds /\ (s.jump \/ s.free \subseteq s.buried) /\ (s.expression => s.free = {})
    BY <1>2, LeafShape DEF JumpOf
  <2>4. \A b \in SUBSET Vars : b \subseteq s.visit[b].assigned /\ s.visit[b].reported \cap b = {}
    BY <1>1 DEF LeafVisitIs
  <2> QED BY <2>1, <2>2, <2>3, <2>4 DEF Flows
<1>5. ExitsRight(s) /\ PreventsRight(s)
  <2>1. \A a \in SUBSET Vars : \A o \in s.run[a] : LeafOutcome(n, a, o)
    BY <1>1 DEF LeafRunIs
  <2>2. s.exits => n.k \in {"return", "throw"}
    BY <1>2, LeafShape
  <2>3. s.prevents => n.k \in {"return", "throw", "expression"} \cup Jumps
    BY <1>2, LeafShape
  <2> QED BY <2>1, <2>2, <2>3
          DEF ExitsRight, PreventsRight, Abrupt, JumpsBuried, LeafOutcome, Jumps, JumpOf, IsGoodLeaf
<1>6. Sound(s)
  <2> SUFFICES ASSUME IsStructured(s), NEW a \in SUBSET Vars, NEW b \in SUBSET a, NEW o \in s.run[a]
               PROVE  Covers(s.visit[b], a, o)
    BY DEF Sound
  <2>1. b \in SUBSET Vars
    OBVIOUS
  <2>2. LeafOutcome(n, a, o) /\ o.bad = IF n.k = "read" THEN {n.first} \ a ELSE {}
    <3>1. LeafRunIs(n, a, s.run[a])
      BY <1>1
    <3> QED BY <3>1 DEF LeafRunIs
  <2>3. /\ s.visit[b].assigned = IF n.k = "assign" THEN b \cup {n.first} ELSE b
        /\ s.visit[b].reported = IF n.k = "read" THEN {n.first} \ b ELSE {}
    BY <1>1, <2>1 DEF LeafVisitIs
  <2> QED BY <2>2, <2>3 DEF Covers, LeafOutcome, Jumps
<1>7. IsStraight(s) => n.k \in {"read", "assign", "call"}
  BY <1>2, LeafShape DEF IsStraight, IsStructured, IsGoodLeaf, JumpOf
<1>8. ASSUME n.k \in {"read", "assign", "call", "empty"},
             NEW a \in SUBSET Vars, NEW b \in SUBSET Vars, NEW v \in Vars \ a
      PROVE  Shows(s.visit[b], b, s.run[a], v)
  <2>1. \A o \in s.run[a] : o.bad = IF n.k = "read" THEN {n.first} \ a ELSE {}
    BY <1>1 DEF LeafRunIs
  <2>2. /\ n.k # "assign" => \E o \in s.run[a] : o.c = "normal" /\ o.a = a
        /\ n.k = "assign" => \E o \in s.run[a] : o.c = "normal" /\ o.a = a \cup {n.first}
        /\ n.k = "assign" => \E o \in s.run[a] : o.c = "throw" /\ o.a = a
    BY <1>1, <1>8 DEF LeafRunIs
  <2>3. /\ s.visit[b].assigned = IF n.k = "assign" THEN b \cup {n.first} ELSE b
        /\ s.visit[b].reported = IF n.k = "read" THEN {n.first} \ b ELSE {}
    BY <1>1 DEF LeafVisitIs
  <2> QED BY <2>1, <2>2, <2>3 DEF Shows
<1>9. Shown(s)
  BY <1>7, <1>8 DEF Shown
<1>10. Fails(s)
  <2> SUFFICES ASSUME IsStraight(s), NEW a \in SUBSET Vars, NEW v \in Vars \ a
               PROVE  MayFail(s.run[a], v)
    BY DEF Fails
  <2>1. \E o \in s.run[a] : o.c = "throw" /\ o.a = a
    BY <1>1, <1>7 DEF LeafRunIs
  <2> QED BY <2>1 DEF MayFail
<1> QED BY <1>3, <1>4, <1>5, <1>6, <1>8, <1>9, <1>10 DEF Right, Good, s

LEMMA LeavesGood ==
  ASSUME NEW s \in Leaves
  PROVE  Good(s)
<1>1. \A k, first : Node(k, first, "").k = k /\ Node(k, first, "").first = first
  BY DEF Node
<1>2. CASE \E k \in {"call", "empty", "return", "throw"} \cup Jumps : s = Leaf(k)
  <2>1. PICK k \in {"call", "empty", "return", "throw"} \cup Jumps : s = Statement(Node(k, "", ""))
    BY <1>2 DEF Leaf
  <2>2. IsGoodLeaf(Node(k, "", ""))
    BY <1>1, <2>1 DEF IsGoodLeaf, Jumps
  <2> QED BY <2>1, <2>2, LeafGood
<1>3. CASE \E c \in Jumps : s = Statement(JumpExpression(c))
  <2>1. PICK c \in Jumps : s = Statement(Node("expression", c, ""))
    BY <1>3 DEF JumpExpression
  <2>2. Node("expression", c, "").k = "expression" /\ Node("expression", c, "").first = c
    BY <1>1
  <2>3. IsGoodLeaf(Node("expression", c, ""))
    BY <2>1, <2>2 DEF IsGoodLeaf
  <2> QED BY <2>1, <2>3, LeafGood
<1>4. CASE \E v \in Vars : s \in {Read(v), Statement(Node("assign", v, ""))}
  <2>1. PICK v \in Vars : s \in {Statement(Node("read", v, "")), Statement(Node("assign", v, ""))}
    BY <1>4 DEF Read
  <2>2. IsGoodLeaf(Node("read", v, "")) /\ IsGoodLeaf(Node("assign", v, ""))
    <3>1. /\ Node("read", v, "").k = "read" /\ Node("read", v, "").first = v
          /\ Node("assign", v, "").k = "assign" /\ Node("assign", v, "").first = v
      BY <1>1
    <3> QED BY <3>1 DEF IsGoodLeaf
  <2> QED BY <2>1, <2>2, LeafGood
<1> QED BY <1>2, <1>3, <1>4 DEF Leaves

LEMMA AbsentIs ==
  ASSUME NEW a \in SUBSET Vars
  PROVE  Absent.run[a] = {Normal(a)} /\ Absent.visit[a] = Visited(a, {})
<1> DEFINE n == Node("empty", "", "")
<1>1. n.k = "empty"
  BY DEF Node
<1>2. Absent.run = Statement(n).run /\ Absent.visit = Statement(n).visit
  BY DEF Absent, Leaf, Statement
<1> HIDE DEF n
<1>3. Run(n, a) = {Normal(a)} /\ Visit(n, a) = Visited(a, {})
  BY <1>1, LeafRuns, VisitsOf
<1> QED BY <1>2, <1>3, RunOfStatement, VisitOfStatement

LEMMA AbsentRight ==
  Right(Absent) /\ Absent.free = {}
<1> DEFINE n == Node("empty", "", "")
<1> DEFINE s == Statement(n)
<1>1. n.k = "empty" /\ IsGoodLeaf(n)
  BY DEF Node, IsGoodLeaf
<1>2. /\ Absent.exits = s.exits /\ Absent.prevents = s.prevents /\ Absent.jump = s.jump
      /\ Absent.visit = s.visit /\ Absent.run = s.run /\ Absent.expression = s.expression
      /\ Absent.free = s.free /\ Absent.buried = s.buried /\ Absent.kinds = {}
  BY DEF Absent, Leaf, Statement
<1>3. s.free = FreeJumps(n) /\ (s.exits <=> AlwaysExits(n)) /\ (s.prevents <=> PreventsFallthrough(n))
  BY StatementFields
<1> HIDE DEF n
<1>4. s.free = {} /\ ~s.exits /\ ~s.prevents
  BY <1>1, <1>3, LeafShape DEF Jumps, JumpOf
<1>5. Good(s)
  BY <1>1, LeafGood
<1>6. \A a, b \in SUBSET Vars : \A v \in Vars \ a : Shows(s.visit[b], b, s.run[a], v)
  BY <1>1, LeafGood
<1>7. s.kinds = {"empty"}
  BY <1>1, LeafShape, StatementFields DEF JumpOf
<1>8. Sound(s) /\ IsStructured(s)
  BY <1>5, <1>7 DEF Good, Right, IsStructured, Jumps
<1> HIDE DEF s
<1>9. Typed(Absent) /\ Flows(Absent)
  BY <1>2, <1>4, <1>5 DEF Good, Right, Typed, Flows
<1>10. ExitsRight(Absent) /\ PreventsRight(Absent)
  BY <1>2, <1>4 DEF ExitsRight, PreventsRight
<1>11. Sound(Absent)
  BY <1>2, <1>8 DEF Sound
<1>12. Shown(Absent)
  BY <1>2, <1>6 DEF Shown
<1> QED BY <1>2, <1>4, <1>9, <1>10, <1>11, <1>12 DEF Right

-----------------------------------------------------------------------------
(* Switches.                                                               *)

\* What a visit of the cases of a switch says covers what running on from one of them
\* may come to, if no test assigns.
SeenCases(c) ==
  IsStructured(c.list) /\ IsStructured(c.tests) /\ ~Assigns(c.tests) =>
    \A a \in SUBSET Vars : \A b \in SUBSET a :
      /\ \A o \in c.matched[a] : Covers(c.visit[b], a, o)
      /\ \A o \in c.fallback[a] : Covers(c.visit[b], a, o)
      /\ \A o \in c.list.run[a] : a \subseteq o.a /\ o.bad \subseteq c.visit[b].reported
      /\ \A o \in c.tests.run[a] : a \subseteq o.a /\ o.bad \subseteq c.visit[b].reported

\* No case goes on normally, or jumps but in the list of a case.
AbruptCases(c, O) ==
  \A o \in O : o.c # "normal" /\ (o.c \in Jumps => o.c \in c.list.buried)

\* Good(s) but for the cases of a switch: of none too.
RightCases(c) ==
  /\ Right(c.list) /\ Right(c.tests) /\ c.tests.free = {}
  /\ c.visit \in [SUBSET Vars -> States] /\ c.matched \in Runs /\ c.fallback \in Runs
  /\ \A a \in SUBSET Vars : \A o \in c.matched[a] \cup c.fallback[a] :
       o.c \in Jumps => o.c \in c.list.free
  /\ c.default => \A a \in SUBSET Vars : c.fallback[a] # {}
  /\ \A b \in SUBSET Vars : Keeps(c.visit[b], b)
  /\ c.exits /\ "indirect" \notin c.list.kinds =>
       \A a \in SUBSET Vars : AbruptCases(c, c.matched[a] \cup c.fallback[a])
  /\ SeenCases(c)

\* What a switch of a single case is said to be shows.
ShownCases(c) ==
  c.single /\ IsStraight(c.list) /\ IsStraight(c.tests) /\ ~Assigns(c.tests) =>
    \A a, b \in SUBSET Vars : \A v \in Vars \ a :
      Shows(VisitSwitch(Switch(c), b), b, EnterCases(c, a), v) /\ MayFail(EnterCases(c, a), v)

GoodCases(c) == RightCases(c) /\ ShownCases(c)

LEMMA NoCasesRight ==
  RightCases(NoCases)
<1>1. /\ NoCases.list = Absent /\ NoCases.tests = Absent /\ NoCases.default = FALSE
      /\ NoCases.visit = [a \in SUBSET Vars |-> Visited(Vars, {})]
      /\ NoCases.matched = [a \in SUBSET Vars |-> {}]
      /\ NoCases.fallback = [a \in SUBSET Vars |-> {}]
  BY DEF NoCases
<1>2. Right(Absent) /\ Absent.free = {}
  BY AbsentRight
<1>3. /\ NoCases.visit \in [SUBSET Vars -> States]
      /\ NoCases.matched \in Runs /\ NoCases.fallback \in Runs
  BY <1>1 DEF Visited, States, Runs
<1>4. \A b \in SUBSET Vars : Keeps(NoCases.visit[b], b)
  BY <1>1 DEF Keeps, Visited
<1>5. SeenCases(NoCases)
  <2>1. \A a \in SUBSET Vars : \A o \in Absent.run[a] : o.a = a /\ o.bad = {}
    BY AbsentIs, NormalOutcome
  <2> QED BY <1>1, <2>1 DEF SeenCases
<1> QED BY <1>1, <1>2, <1>3, <1>4, <1>5 DEF RightCases, AbruptCases

\* The cases c of a switch are one before those of d.
IsCase(c, test, s, d) ==
  /\ Right(test) /\ test.free = {} /\ Good(s) /\ RightCases(d)
  /\ \E default \in BOOLEAN : c = AddCase(test, s, default, d)

\* The statements of a case run on into those of the others.
LEMMA CaseParts ==
  ASSUME NEW test, NEW s, NEW d, NEW c, IsCase(c, test, s, d)
  PROVE  /\ Right(c.list) /\ Right(c.tests) /\ c.tests.free = {} /\ Good(c.list)
         /\ c.list.free = s.free \cup d.list.free /\ c.list.buried = s.buried \cup d.list.buried
         /\ s.kinds \cup d.list.kinds \subseteq c.list.kinds
         /\ test.kinds \cup d.tests.kinds \subseteq c.tests.kinds
         /\ c.list.exits <=> ListAlwaysExits(s, d.list)
         /\ c.exits <=> CasesExit(s, d)
         /\ \A a \in SUBSET Vars : /\ c.list.run[a] = Then(s, d.list, a)
                                    /\ c.list.visit[a] = VisitBoth(s, d.list, a)
                                    /\ c.tests.run[a] = Then(test, d.tests, a)
                                    /\ c.tests.visit[a] = VisitBoth(test, d.tests, a)
<1> DEFINE n == List(s, d.list)
<1> DEFINE m == Comma(test, d.tests)
<1>0. Right(test) /\ test.free = {} /\ Good(s) /\ RightCases(d)
  BY DEF IsCase
<1>1. IsComposite(n, s, d.list) /\ n.k = "list"
  BY DEF List, Node, IsComposite, Composites, Loops, Expressions
<1>2. IsComposite(m, test, d.tests) /\ m.k = "comma"
  BY <1>0 DEF Comma, Node, IsComposite, Composites, Loops, Expressions, RightCases
<1> HIDE DEF n, m
<1>3. /\ Right(Statement(n)) /\ Fails(Statement(n)) /\ Right(Statement(m))
  BY <1>0, <1>1, <1>2, SequenceRight DEF RightCases, Good
<1>4. /\ Statement(n).free = s.free \cup d.list.free
      /\ Statement(n).buried = s.buried \cup d.list.buried
      /\ s.kinds \cup d.list.kinds \subseteq Statement(n).kinds
  <2>1. FreeJumps(n) = (s.free \cup d.list.free) \ Targeted(n) /\ Targeted(n) = {}
    BY <1>1, CompositeShape DEF Loops
  <2>2. BuriedJumps(n) = s.buried \cup d.list.buried /\ s.kinds \cup d.list.kinds \subseteq Kinds(n)
    BY <1>1, CompositeShape
  <2> QED BY <2>1, <2>2, StatementFields
<1>5. /\ Statement(m).free = {}
      /\ test.kinds \cup d.tests.kinds \subseteq Statement(m).kinds
  <2>1. FreeJumps(m) = (test.free \cup d.tests.free) \ Targeted(m)
    BY <1>2, CompositeShape
  <2>2. test.kinds \cup d.tests.kinds \subseteq Kinds(m)
    BY <1>2, CompositeShape
  <2>3. d.tests.free = {}
    BY <1>0 DEF RightCases
  <2> QED BY <1>0, <2>1, <2>2, <2>3, StatementFields
<1>6. Statement(n).exits <=> ListAlwaysExits(s, d.list)
  <2>1. Statement(n).exits <=> AlwaysExits(n)
    BY StatementFields
  <2>2. n.first = s /\ n.second = d.list
    BY <1>1 DEF IsComposite
  <2> QED BY <1>1, <2>1, <2>2, ExitsOf DEF AlwaysExits
<1>7. \A a \in SUBSET Vars : /\ Statement(n).run[a] = Then(s, d.list, a)
                             /\ Statement(n).visit[a] = VisitBoth(s, d.list, a)
                             /\ Statement(m).run[a] = Then(test, d.tests, a)
                             /\ Statement(m).visit[a] = VisitBoth(test, d.tests, a)
  <2>1. n.first = s /\ n.second = d.list /\ m.first = test /\ m.second = d.tests
    BY <1>1, <1>2 DEF IsComposite
  <2> SUFFICES ASSUME NEW a \in SUBSET Vars
               PROVE  /\ Statement(n).run[a] = Then(s, d.list, a)
                      /\ Statement(n).visit[a] = VisitBoth(s, d.list, a)
                      /\ Statement(m).run[a] = Then(test, d.tests, a)
                      /\ Statement(m).visit[a] = VisitBoth(test, d.tests, a)
    OBVIOUS
  <2>2. /\ Statement(n).run[a] = Run(n, a) /\ Statement(m).run[a] = Run(m, a)
        /\ Statement(n).visit[a] = Visit(n, a) /\ Statement(m).visit[a] = Visit(m, a)
    BY RunOfStatement, VisitOfStatement
  <2>3. Run(n, a) = Then(s, d.list, a) /\ Run(m, a) = Then(test, d.tests, a)
    BY <1>1, <1>2, <2>1, RunCases
  <2>4. Visit(n, a) = VisitBoth(s, d.list, a) /\ Visit(m, a) = VisitBoth(test, d.tests, a)
    <3>1. Visit(n, a) = VisitBoth(n.first, n.second, a)
      BY <1>1, VisitsOf, Zenon
    <3>2. Visit(m, a) = VisitBoth(m.first, m.second, a)
      BY <1>2, VisitsOf, Zenon
    <3> QED BY <2>1, <3>1, <3>2
  <2> QED BY <2>2, <2>3, <2>4
<1>8. c.list = Statement(n) /\ c.tests = Statement(m) /\ (c.exits <=> CasesExit(s, d))
  BY DEF IsCase, AddCase, n, m
<1> QED BY <1>3, <1>4, <1>5, <1>6, <1>7, <1>8 DEF Good

\* The case is the default one, which is entered when no test matches, or another.
LEMMA AddedCase ==
  ASSUME NEW test, NEW s, NEW d, NEW c, IsCase(c, test, s, d)
  PROVE  /\ c.single <=> d.none
         /\ ~c.none
         /\ \A b \in SUBSET Vars : c.visit[b] = VisitCases(test, s, d, b)
         /\ \/ /\ c.default
               /\ c.fallback = c.list.run
               /\ \A a \in SUBSET Vars : c.matched[a] = After(test.run[a], "normal", d.matched)
            \/ /\ c.default <=> d.default
               /\ c.fallback = d.fallback
               /\ \A a \in SUBSET Vars : c.matched[a] = After(test.run[a], "normal", d.matched)
                                                          \cup Then(test, c.list, a)
<1>1. PICK default \in BOOLEAN : c = AddCase(test, s, default, d)
  BY DEF IsCase
<1>2. CASE default
  BY <1>1, <1>2, Zenon DEF AddCase
<1>3. CASE ~default
  BY <1>1, <1>3 DEF AddCase
<1> QED BY <1>2, <1>3

LEMMA CaseVisits ==
  ASSUME NEW test, NEW s, NEW d, NEW c, IsCase(c, test, s, d)
  PROVE  c.visit = [b \in SUBSET Vars |-> c.visit[b]]
<1>1. PICK default \in BOOLEAN : c = AddCase(test, s, default, d)
  BY DEF IsCase
<1> QED BY <1>1 DEF AddCase

LEMMA CaseMatches ==
  ASSUME NEW test, NEW s, NEW d, NEW c, IsCase(c, test, s, d)
  PROVE  \E f : c.matched = [a \in SUBSET Vars |-> f[a]]
<1>1. PICK default \in BOOLEAN : c = AddCase(test, s, default, d)
  BY DEF IsCase
<1>2. c.matched = [a \in SUBSET Vars |-> c.matched[a]]
  BY <1>1 DEF AddCase
<1> QED BY <1>2

\* A case is entered when its test ends normally, or never.
LEMMA MatchedCase ==
  ASSUME NEW test, NEW s, NEW d, NEW c, IsCase(c, test, s, d),
         NEW a \in SUBSET Vars, NEW o \in c.matched[a]
  PROVE  /\ o \in Outcomes
         /\ \/ o \in test.run[a] /\ o.c # "normal"
            \/ \E y \in test.run[a] :
                 y.c = "normal" /\ \E m \in d.matched[y.a] \cup c.list.run[y.a] : Joins(o, y, m)
<1>0. Right(test) /\ test.free = {} /\ Good(s) /\ RightCases(d)
  BY DEF IsCase
<1>1. \/ o \in After(test.run[a], "normal", d.matched)
      \/ o \in Then(test, c.list, a)
  BY AddedCase
<1>2. Typed(test) /\ Typed(c.list) /\ test.run[a] \in SUBSET Outcomes /\ d.matched \in Runs
  <2>1. Typed(test) /\ Typed(c.list)
    BY <1>0, CaseParts DEF Right
  <2>2. test.run[a] \in SUBSET Outcomes
    BY <2>1 DEF Typed, Runs
  <2> QED BY <1>0, <2>1, <2>2 DEF RightCases
<1>3. CASE o \in After(test.run[a], "normal", d.matched)
  BY <1>2, <1>3, AfterCases DEF ComesAfter
<1>4. CASE o \in Then(test, c.list, a)
  <2>1. o \in Outcomes
    BY <1>2, <1>4, ThenTyped
  <2>2. ComesAfter(o, test.run[a], "normal", c.list.run)
    BY <1>2, <1>4, ThenCases
  <2> QED BY <2>1, <2>2 DEF ComesAfter
<1> QED BY <1>1, <1>3, <1>4

\* The statements of a case, run from where it is entered or run into.
LEMMA CaseSeen ==
  ASSUME NEW test, NEW s, NEW d, NEW c, IsCase(c, test, s, d),
         IsStructured(c.list), IsStructured(c.tests), ~Assigns(c.tests),
         NEW a \in SUBSET Vars, NEW b \in SUBSET a
  PROVE  /\ \A o \in c.list.run[a] : Covers(c.visit[b], a, o)
         /\ \A o \in c.tests.run[a] : a \subseteq o.a /\ o.bad \subseteq c.visit[b].reported
         /\ \A o \in test.run[a] : a \subseteq o.a /\ o.bad \subseteq c.visit[b].reported
         /\ c.visit[b].assigned \subseteq d.visit[b].assigned
         /\ d.visit[b].reported \subseteq c.visit[b].reported
         /\ IsStructured(d.list) /\ IsStructured(d.tests) /\ ~Assigns(d.tests)
<1>a. Right(test) /\ test.free = {} /\ Good(s) /\ RightCases(d)
  BY DEF IsCase
<1>0. /\ Right(c.list) /\ Right(c.tests)
      /\ s.kinds \cup d.list.kinds \subseteq c.list.kinds
      /\ test.kinds \cup d.tests.kinds \subseteq c.tests.kinds
      /\ \A e \in SUBSET Vars : /\ c.list.run[e] = Then(s, d.list, e)
                                /\ c.tests.run[e] = Then(test, d.tests, e)
                                /\ c.tests.visit[e] = VisitBoth(test, d.tests, e)
  BY CaseParts
<1>1. IsStructured(s) /\ IsStructured(d.list) /\ IsStructured(test) /\ IsStructured(d.tests)
  BY <1>0 DEF IsStructured
<1>2. /\ Typed(s) /\ Typed(test) /\ Typed(d.list) /\ Typed(d.tests)
      /\ Flows(s) /\ Flows(test) /\ Flows(d.tests)
      /\ Sees(s) /\ Sees(test)
  BY <1>a, <1>1 DEF Right, Good, Sound, Sees, RightCases
<1>3. \A e \in SUBSET Vars : test.visit[e].assigned = e /\ d.tests.visit[e].assigned = e
  <2> SUFFICES ASSUME NEW e \in SUBSET Vars
               PROVE  test.visit[e].assigned = e /\ d.tests.visit[e].assigned = e
    OBVIOUS
  <2>1. VisitBoth(test, d.tests, e).assigned = e
    BY <1>0 DEF Assigns
  <2>2. d.tests.visit[test.visit[e].assigned].assigned = e
    BY <2>1 DEF VisitBoth, Visited
  <2>3. test.visit[e].assigned \in SUBSET Vars /\ e \subseteq test.visit[e].assigned
    BY <1>2 DEF Typed, States, Flows
  <2>4. test.visit[e].assigned \subseteq d.tests.visit[test.visit[e].assigned].assigned
    BY <1>2, <2>3 DEF Flows
  <2>5. test.visit[e].assigned = e
    BY <2>2, <2>3, <2>4
  <2> QED BY <2>2, <2>5
<1>4. b \in SUBSET Vars
  OBVIOUS
<1>5. /\ c.visit[b].assigned = s.visit[b].assigned \cap d.visit[b].assigned
      /\ c.visit[b].reported = test.visit[b].reported \cup s.visit[b].reported \cup d.visit[b].reported
  <2>1. c.visit[b] = VisitCases(test, s, d, b)
    BY <1>4, AddedCase
  <2>2. /\ VisitBoth(test, s, b).assigned = s.visit[test.visit[b].assigned].assigned
        /\ VisitBoth(test, s, b).reported =
             test.visit[b].reported \cup s.visit[test.visit[b].assigned].reported
    BY DEF VisitBoth, Visited
  <2>3. test.visit[b].assigned = b
    BY <1>3, <1>4
  <2>4. /\ VisitCases(test, s, d, b).assigned = VisitBoth(test, s, b).assigned \cap d.visit[b].assigned
        /\ VisitCases(test, s, d, b).reported = VisitBoth(test, s, b).reported \cup d.visit[b].reported
    BY DEF VisitCases, Intersect, Visited
  <2> QED BY <2>1, <2>2, <2>3, <2>4
<1>6. SeenCases(d) /\ ~Assigns(d.tests)
  BY <1>a, <1>3 DEF RightCases, Assigns
<1>7. \A e \in SUBSET Vars : b \subseteq e =>
        /\ \A o \in d.list.run[e] : e \subseteq o.a /\ o.bad \subseteq d.visit[b].reported
        /\ \A o \in d.tests.run[e] : e \subseteq o.a /\ o.bad \subseteq d.visit[b].reported
  BY <1>1, <1>6 DEF SeenCases
<1>8. \A o \in s.run[a] : Covers(s.visit[b], a, o) /\ o.a \in SUBSET Vars
  BY <1>2, RunFacts DEF Sees
<1>9. \A o \in test.run[a] : Covers(test.visit[b], a, o) /\ o.a \in SUBSET Vars
  BY <1>2, RunFacts DEF Sees
<1>10. ASSUME NEW o \in c.list.run[a] PROVE Covers(c.visit[b], a, o)
  <2>1. ComesAfter(o, s.run[a], "normal", d.list.run)
    BY <1>0, <1>2, ThenCases
  <2>2. CASE o \in s.run[a] /\ o.c # "normal"
    BY <1>5, <1>8, <2>2 DEF Covers
  <2>3. ASSUME NEW y \in s.run[a], y.c = "normal", NEW m \in d.list.run[y.a], Joins(o, y, m)
        PROVE  Covers(c.visit[b], a, o)
    <3>1. /\ a \subseteq y.a /\ y.bad \subseteq s.visit[b].reported
          /\ s.visit[b].assigned \subseteq y.a /\ y.a \in SUBSET Vars
      BY <1>8, <2>3 DEF Covers
    <3>2. y.a \subseteq m.a /\ m.bad \subseteq d.visit[b].reported
      BY <1>7, <3>1
    <3> QED BY <1>5, <2>3, <3>1, <3>2 DEF Covers, Joins
  <2> QED BY <2>1, <2>2, <2>3 DEF ComesAfter
<1>11. ASSUME NEW o \in c.tests.run[a] PROVE a \subseteq o.a /\ o.bad \subseteq c.visit[b].reported
  <2>1. ComesAfter(o, test.run[a], "normal", d.tests.run)
    BY <1>0, <1>2, ThenCases
  <2>2. CASE o \in test.run[a]
    BY <1>5, <1>9, <2>2 DEF Covers
  <2>3. ASSUME NEW y \in test.run[a], y.c = "normal", NEW m \in d.tests.run[y.a], Joins(o, y, m)
        PROVE  a \subseteq o.a /\ o.bad \subseteq c.visit[b].reported
    <3>1. a \subseteq y.a /\ y.bad \subseteq test.visit[b].reported /\ y.a \in SUBSET Vars
      BY <1>9 DEF Covers
    <3>2. y.a \subseteq m.a /\ m.bad \subseteq d.visit[b].reported
      BY <1>7, <3>1
    <3> QED BY <1>5, <2>3, <3>1, <3>2 DEF Joins
  <2> QED BY <2>1, <2>2, <2>3 DEF ComesAfter
<1>12. \A o \in test.run[a] : a \subseteq o.a /\ o.bad \subseteq c.visit[b].reported
  BY <1>5, <1>9 DEF Covers
<1> QED BY <1>1, <1>5, <1>6, <1>10, <1>11, <1>12

LEMMA AddCaseSeen ==
  ASSUME NEW test, NEW s, NEW d, NEW c, IsCase(c, test, s, d)
  PROVE  SeenCases(c)
<1> SUFFICES ASSUME IsStructured(c.list), IsStructured(c.tests), ~Assigns(c.tests),
                    NEW a \in SUBSET Vars, NEW b \in SUBSET a
             PROVE  /\ \A o \in c.matched[a] : Covers(c.visit[b], a, o)
                    /\ \A o \in c.fallback[a] : Covers(c.visit[b], a, o)
                    /\ \A o \in c.list.run[a] : a \subseteq o.a /\ o.bad \subseteq c.visit[b].reported
                    /\ \A o \in c.tests.run[a] : a \subseteq o.a /\ o.bad \subseteq c.visit[b].reported
  BY DEF SeenCases
<1>0. Right(test) /\ RightCases(d)
  BY DEF IsCase
<1>1. /\ \A o \in c.list.run[a] : Covers(c.visit[b], a, o)
      /\ \A o \in c.tests.run[a] : a \subseteq o.a /\ o.bad \subseteq c.visit[b].reported
      /\ \A o \in test.run[a] : a \subseteq o.a /\ o.bad \subseteq c.visit[b].reported
      /\ c.visit[b].assigned \subseteq d.visit[b].assigned
      /\ d.visit[b].reported \subseteq c.visit[b].reported
      /\ IsStructured(d.list) /\ IsStructured(d.tests) /\ ~Assigns(d.tests)
  BY CaseSeen
<1>2. \A e \in SUBSET Vars : a \subseteq e => \A o \in c.list.run[e] : Covers(c.visit[b], e, o)
  BY CaseSeen
<1>3. \A e \in SUBSET Vars : b \subseteq e =>
        \A o \in d.matched[e] \cup d.fallback[e] : Covers(d.visit[b], e, o)
  BY <1>0, <1>1 DEF RightCases, SeenCases
<1>4. \A e \in SUBSET Vars : b \subseteq e =>
        \A o \in d.matched[e] \cup d.fallback[e] : Covers(c.visit[b], e, o)
  BY <1>1, <1>3 DEF Covers
<1>5. ASSUME NEW o \in c.matched[a] PROVE Covers(c.visit[b], a, o)
  <2>1. \/ o \in test.run[a] /\ o.c # "normal"
        \/ \E y \in test.run[a] :
             y.c = "normal" /\ \E m \in d.matched[y.a] \cup c.list.run[y.a] : Joins(o, y, m)
    BY MatchedCase
  <2>2. CASE o \in test.run[a] /\ o.c # "normal"
    BY <1>1, <2>2 DEF Covers
  <2>3. ASSUME NEW y \in test.run[a], NEW m \in d.matched[y.a] \cup c.list.run[y.a], Joins(o, y, m)
        PROVE  Covers(c.visit[b], a, o)
    <3>1. a \subseteq y.a /\ y.bad \subseteq c.visit[b].reported
      BY <1>1
    <3>2. y.a \in SUBSET Vars
      BY <1>0, RunFacts DEF Right
    <3>3. Covers(c.visit[b], y.a, m)
      BY <1>2, <1>4, <3>1, <3>2
    <3> QED BY <2>3, <3>1, <3>3 DEF Covers, Joins
  <2> QED BY <2>1, <2>2, <2>3
<1>6. \A o \in c.fallback[a] : Covers(c.visit[b], a, o)
  <2>1. c.fallback = c.list.run \/ c.fallback = d.fallback
    BY AddedCase
  <2> QED BY <1>1, <1>4, <2>1
<1> QED BY <1>1, <1>5, <1>6 DEF Covers

LEMMA AddCaseRight ==
  ASSUME NEW test, NEW s, NEW d, NEW c, IsCase(c, test, s, d)
  PROVE  RightCases(c)
<1>0. Right(test) /\ test.free = {} /\ Good(s) /\ RightCases(d)
  BY DEF IsCase
<1>1. /\ Right(c.list) /\ Right(c.tests) /\ c.tests.free = {}
      /\ c.list.free = s.free \cup d.list.free /\ c.list.buried = s.buried \cup d.list.buried
      /\ s.kinds \cup d.list.kinds \subseteq c.list.kinds
      /\ c.list.exits <=> ListAlwaysExits(s, d.list)
      /\ c.exits <=> CasesExit(s, d)
  BY CaseParts
<1>2. /\ \A b \in SUBSET Vars : c.visit[b] = VisitCases(test, s, d, b)
      /\ c.fallback = c.list.run \/ (c.fallback = d.fallback /\ (c.default <=> d.default))
  BY AddedCase
<1>3. /\ Typed(test) /\ Flows(test) /\ Typed(s) /\ Flows(s) /\ Typed(c.list) /\ Flows(c.list)
      /\ d.visit \in [SUBSET Vars -> States] /\ d.fallback \in Runs
  BY <1>0, <1>1 DEF Right, Good, RightCases
<1>4. c.visit \in [SUBSET Vars -> States]
  <2>1. \A b \in SUBSET Vars : VisitCases(test, s, d, b) \in States
    BY <1>3, VisitBothTyped DEF VisitCases, Intersect, Visited, States
  <2>2. \A b \in SUBSET Vars : c.visit[b] \in States
    BY <1>2, <2>1
  <2>3. c.visit = [b \in SUBSET Vars |-> c.visit[b]]
    BY CaseVisits
  <2> QED BY <2>2, <2>3
<1>5. c.matched \in Runs /\ c.fallback \in Runs
  <2>1. \A a \in SUBSET Vars : c.matched[a] \in SUBSET Outcomes
    BY MatchedCase
  <2>2. \E f : c.matched = [a \in SUBSET Vars |-> f[a]]
    BY CaseMatches
  <2>3. c.matched \in Runs
    BY <2>1, <2>2 DEF Runs
  <2> QED BY <1>2, <1>3, <2>3 DEF Typed
<1>6. ASSUME NEW a \in SUBSET Vars, NEW o \in c.matched[a], o.c \in Jumps
      PROVE  o.c \in c.list.free
  <2>1. o \notin test.run[a]
    BY <1>0, <1>3, <1>6 DEF Flows
  <2>2. PICK y \in test.run[a] : \E m \in d.matched[y.a] \cup c.list.run[y.a] : Joins(o, y, m)
    BY <2>1, MatchedCase
  <2>3. y.a \in SUBSET Vars
    BY <1>3, RunFacts
  <2>4. \A m \in d.matched[y.a] \cup c.list.run[y.a] : m.c \in Jumps => m.c \in c.list.free
    BY <1>0, <1>1, <1>3, <2>3 DEF RightCases, Flows
  <2> QED BY <1>6, <2>2, <2>4 DEF Joins
<1>7. ASSUME NEW a \in SUBSET Vars, NEW o \in c.fallback[a], o.c \in Jumps
      PROVE  o.c \in c.list.free
  BY <1>0, <1>1, <1>2, <1>3, <1>7 DEF RightCases, Flows
<1>8. c.default => \A a \in SUBSET Vars : c.fallback[a] # {}
  BY <1>0, <1>2, <1>3 DEF RightCases, Flows
<1>9. \A b \in SUBSET Vars : Keeps(c.visit[b], b)
  <2> SUFFICES ASSUME NEW b \in SUBSET Vars PROVE Keeps(VisitCases(test, s, d, b), b)
    BY <1>2
  <2>1. Keeps(VisitBoth(test, s, b), b)
    BY <1>3, VisitBothKeeps
  <2>2. Keeps(d.visit[b], b)
    BY <1>0 DEF RightCases
  <2> QED BY <2>1, <2>2 DEF VisitCases, Intersect, Visited, Keeps
<1>10. ASSUME c.exits, "indirect" \notin c.list.kinds, NEW a \in SUBSET Vars
       PROVE  AbruptCases(c, c.matched[a] \cup c.fallback[a])
  <2>1. c.list.exits /\ d.exits /\ "indirect" \notin d.list.kinds /\ d.list.buried \subseteq c.list.buried
    BY <1>1, <1>10 DEF CasesExit
  <2>2. \A e \in SUBSET Vars : AbruptCases(c, d.matched[e] \cup d.fallback[e] \cup c.list.run[e])
    BY <1>0, <1>1, <1>10, <2>1 DEF Right, ExitsRight, Abrupt, JumpsBuried, RightCases, AbruptCases
  <2>3. AbruptCases(c, c.fallback[a])
    BY <1>2, <2>2 DEF AbruptCases
  <2>4. ASSUME NEW o \in c.matched[a]
        PROVE  o.c # "normal" /\ (o.c \in Jumps => o.c \in c.list.buried)
    <3>1. CASE o \in test.run[a] /\ o.c # "normal"
      BY <1>0, <1>3, <3>1 DEF Flows
    <3>2. ASSUME NEW y \in test.run[a], NEW m \in d.matched[y.a] \cup c.list.run[y.a], Joins(o, y, m)
          PROVE  o.c # "normal" /\ (o.c \in Jumps => o.c \in c.list.buried)
      <4>1. y.a \in SUBSET Vars
        BY <1>3, RunFacts
      <4> QED BY <2>2, <3>2, <4>1 DEF AbruptCases, Joins
    <3> QED BY <3>1, <3>2, MatchedCase
  <2> QED BY <2>3, <2>4 DEF AbruptCases
<1>11. SeenCases(c)
  BY AddCaseSeen
<1> QED BY <1>1, <1>4, <1>5, <1>6, <1>7, <1>8, <1>9, <1>10, <1>11 DEF RightCases

LEMMA SwitchShape ==
  ASSUME NEW c, c.tests.free = {}
  PROVE  LET n == Switch(c)
         IN  /\ n.k = "switch" /\ n.cases = c
             /\ FreeJumps(n) = c.list.free \ {"break"}
             /\ BuriedJumps(n) = c.list.free \ {"break"}
             /\ c.list.kinds \cup c.tests.kinds \subseteq Kinds(n)
             /\ ~c.single => "cases" \in Kinds(n)
             /\ Assigns(c.tests) => "tests" \in Kinds(n)
             /\ "break" \in c.list.buried => "indirect" \in Kinds(n)
             /\ ~IsExpression(n)
             /\ AlwaysExits(n) => c.default /\ c.exits
             /\ ~PreventsFallthrough(n)
<1> DEFINE n == Switch(c)
<1>1. n.k = "switch" /\ n.first = c.list /\ n.second = c.tests /\ n.cases = c
  BY DEF Switch
<1> HIDE DEF n
<1>2. ~IsLeaf(n) /\ n.k \notin Jumps /\ Targeted(n) = {"break"}
  BY <1>1 DEF IsLeaf, Jumps, Targeted
<1>3. FreeJumps(n) = c.list.free \ {"break"} /\ BuriedJumps(n) = c.list.free \ {"break"}
  BY <1>1, <1>2 DEF FreeJumps, BuriedJumps
<1>4. /\ c.list.kinds \cup c.tests.kinds \subseteq Kinds(n)
      /\ ~c.single => "cases" \in Kinds(n)
      /\ Assigns(c.tests) => "tests" \in Kinds(n)
      /\ "break" \in c.list.buried => "indirect" \in Kinds(n)
  BY <1>1, <1>2 DEF Kinds
<1>5. ~IsExpression(n)
  BY <1>1 DEF IsExpression
<1>6. AlwaysExits(n) => c.default /\ c.exits
  BY <1>1, ExitsOf
<1>7. ~PreventsFallthrough(n)
  BY <1>1, PreventsOf DEF Jumps
<1> QED BY <1>1, <1>3, <1>4, <1>5, <1>6, <1>7, Zenon DEF n

\* A case is entered, or the default one when no test matches, or none.
LEMMA EnterOutcomes ==
  ASSUME NEW c, RightCases(c), NEW a \in SUBSET Vars
  PROVE  /\ EnterCases(c, a) # {}
         /\ \A o \in EnterCases(c, a) :
              /\ o \in Outcomes
              /\ \/ o \in c.matched[a]
                 \/ o \in c.tests.run[a] /\ (c.default => o.c # "normal")
                 \/ /\ c.default
                    /\ \E y \in c.tests.run[a] : \E m \in c.fallback[y.a] : Joins(o, y, m)
         /\ c.matched[a] \subseteq EnterCases(c, a)
         /\ ~c.default => c.tests.run[a] \subseteq EnterCases(c, a)
         /\ c.default =>
              HasAfter(EnterCases(c, a), c.tests.run[a], "normal", c.fallback)
<1>1. /\ c.tests.run[a] \in SUBSET Outcomes /\ c.tests.run[a] # {}
      /\ \A o \in c.tests.run[a] : o.a \in SUBSET Vars
      /\ c.matched[a] \in SUBSET Outcomes /\ c.fallback \in Runs
  BY RunFacts DEF RightCases, Right, Typed, Flows, Runs
<1>2. CASE ~c.default
  <2>1. EnterCases(c, a) = c.matched[a] \cup c.tests.run[a]
    BY <1>2 DEF EnterCases, Unmatched
  <2> QED BY <1>1, <1>2, <2>1
<1>3. CASE c.default
  <2> DEFINE O == After(c.tests.run[a], "normal", c.fallback)
  <2>1. EnterCases(c, a) = c.matched[a] \cup O
    BY <1>3 DEF EnterCases, Unmatched
  <2>2. \A o \in O : o \in Outcomes /\ ComesAfter(o, c.tests.run[a], "normal", c.fallback)
    BY <1>1, AfterCases
  <2>3. HasAfter(O, c.tests.run[a], "normal", c.fallback)
    BY AfterHasAfter
  <2> HIDE DEF O
  <2>4. O # {}
    <3>1. PICK o \in c.tests.run[a] : o.a \in SUBSET Vars
      BY <1>1
    <3>2. c.fallback[o.a] # {}
      BY <1>3, <3>1 DEF RightCases
    <3> QED BY <2>3, <3>1, <3>2 DEF HasAfter
  <2>5. HasAfter(EnterCases(c, a), c.tests.run[a], "normal", c.fallback)
    BY <2>1, <2>3 DEF HasAfter
  <2> QED BY <1>1, <1>3, <2>1, <2>2, <2>4, <2>5 DEF ComesAfter
<1> QED BY <1>2, <1>3

LEMMA SwitchVisit ==
  ASSUME NEW c, RightCases(c), NEW b \in SUBSET Vars
  PROVE  LET visited == Visit(Switch(c), b)
         IN  /\ visited = VisitSwitch(Switch(c), b)
             /\ visited \in States /\ Keeps(visited, b)
             /\ visited.reported = c.visit[b].reported
             /\ c.default => visited.assigned = c.visit[b].assigned
             /\ ~c.default => visited.assigned = b
<1>0. Switch(c).k = "switch" /\ Switch(c).cases = c
  BY SwitchShape DEF RightCases
<1>1. /\ Visit(Switch(c), b) = IF c.default THEN c.visit[b] ELSE Intersect(c.visit[b], Visited(b, {}))
      /\ VisitSwitch(Switch(c), b) = Visit(Switch(c), b)
  <2> DEFINE n == Switch(c)
  <2>1. n.k = "switch" /\ n.cases = c
    BY <1>0
  <2> HIDE DEF n
  <2>2. Visit(n, b) = IF n.cases.default THEN n.cases.visit[b]
                      ELSE Intersect(n.cases.visit[b], Visited(b, {}))
    BY <2>1, VisitsOf
  <2>3. Visit(n, b) = IF c.default THEN c.visit[b] ELSE Intersect(c.visit[b], Visited(b, {}))
    BY <2>1, <2>2
  <2>4. VisitSwitch(n, b) = Visit(n, b)
    BY <2>2 DEF VisitSwitch
  <2> QED BY <2>3, <2>4 DEF n
<1>2. c.visit[b] \in States /\ Keeps(c.visit[b], b)
  BY DEF RightCases
<1>3. CASE c.default
  BY <1>1, <1>2, <1>3
<1>4. CASE ~c.default
  <2> DEFINE x == c.visit[b]
  <2> DEFINE y == Intersect(x, Visited(b, {}))
  <2>1. Visit(Switch(c), b) = y
    BY <1>1, <1>4
  <2>2. y.assigned = x.assigned \cap b /\ y.reported = x.reported
    BY DEF Intersect, Visited
  <2>3. y \in States
    BY <1>2 DEF Intersect, Visited, States
  <2>4. x.assigned \cap b = b /\ Keeps(y, b)
    BY <1>2, <2>2 DEF Keeps
  <2> HIDE DEF y
  <2> QED BY <1>1, <1>4, <2>1, <2>2, <2>3, <2>4
<1> QED BY <1>3, <1>4

\* A single case: it is entered, or its test is all that runs.
LEMMA AddCaseShown ==
  ASSUME NEW test, NEW s, NEW d, NEW c, IsCase(c, test, s, d),
         d.none => d = NoCases
  PROVE  ShownCases(c)
<1> SUFFICES ASSUME d.none, IsStraight(c.list), IsStraight(c.tests), ~Assigns(c.tests),
                    NEW a \in SUBSET Vars, NEW b \in SUBSET Vars, NEW v \in Vars \ a
             PROVE  /\ Shows(VisitSwitch(Switch(c), b), b, EnterCases(c, a), v)
                    /\ MayFail(EnterCases(c, a), v)
  BY AddedCase DEF ShownCases
<1> DEFINE L == c.list
<1> DEFINE T == c.tests
<1> DEFINE O == EnterCases(c, a)
<1>. Right(test) /\ Good(s) /\ RightCases(d)
  BY DEF IsCase
<1>0. RightCases(c)
  BY AddCaseRight
<1>1. /\ Good(L) /\ Right(T) /\ test.kinds \subseteq T.kinds
      /\ \A e \in SUBSET Vars : /\ L.visit[e] = VisitBoth(s, d.list, e)
                                /\ T.visit[e] = VisitBoth(test, d.tests, e)
  BY CaseParts
<1>2. /\ c.visit[b] = VisitCases(test, s, d, b)
      /\ \/ c.default /\ c.fallback = L.run
         \/ (c.default <=> d.default) /\ Then(test, L, a) \subseteq c.matched[a]
  BY AddedCase
<1>3. /\ \A e \in SUBSET Vars : d.visit[e] = Visited(Vars, {})
      /\ d.list = Absent /\ d.tests = Absent /\ d.default = FALSE
  BY DEF NoCases
<1>4. \A e \in SUBSET Vars : Absent.visit[e] = Visited(e, {})
  BY AbsentIs
<1>5. IsStraight(test)
  BY <1>1 DEF IsStraight, IsStructured
<1>6. /\ Typed(s) /\ Typed(test) /\ Flows(test) /\ Typed(T) /\ Flows(T) /\ Typed(L) /\ Flows(L)
      /\ \A e \in SUBSET Vars : ShowsAll(test, e, v) /\ ShowsAll(T, e, v) /\ ShowsAll(L, e, v)
      /\ FailsAll(L, v)
  BY <1>1, <1>5 DEF Right, Good, Shown, Fails, ShowsAll, FailsAll
<1> HIDE DEF L, T, O
<1>7. \A e \in SUBSET Vars : /\ s.visit[e].assigned \in SUBSET Vars
                             /\ test.visit[e].assigned \in SUBSET Vars
  BY <1>6 DEF Typed, States
<1>8. \A e \in SUBSET Vars :
        /\ L.visit[e].assigned = s.visit[e].assigned /\ L.visit[e].reported = s.visit[e].reported
        /\ T.visit[e].assigned = test.visit[e].assigned /\ T.visit[e].reported = test.visit[e].reported
  <2> SUFFICES ASSUME NEW e \in SUBSET Vars
               PROVE  /\ L.visit[e].assigned = s.visit[e].assigned
                      /\ L.visit[e].reported = s.visit[e].reported
                      /\ T.visit[e].assigned = test.visit[e].assigned
                      /\ T.visit[e].reported = test.visit[e].reported
    OBVIOUS
  <2>1. /\ Absent.visit[s.visit[e].assigned] = Visited(s.visit[e].assigned, {})
        /\ Absent.visit[test.visit[e].assigned] = Visited(test.visit[e].assigned, {})
    BY <1>4, <1>7
  <2>2. L.visit[e] = VisitBoth(s, Absent, e) /\ T.visit[e] = VisitBoth(test, Absent, e)
    BY <1>1, <1>3
  <2> QED BY <2>1, <2>2 DEF VisitBoth, Visited
<1>9. \A e \in SUBSET Vars : T.visit[e].assigned = e
  BY DEF Assigns, T
<1>10. /\ c.visit[b].assigned = VisitBoth(test, L, b).assigned
       /\ c.visit[b].reported = VisitBoth(test, L, b).reported
  <2>1. /\ VisitBoth(test, s, b).assigned = s.visit[b].assigned
        /\ VisitBoth(test, s, b).reported = test.visit[b].reported \cup s.visit[b].reported
        /\ VisitBoth(test, L, b).assigned = L.visit[b].assigned
        /\ VisitBoth(test, L, b).reported = test.visit[b].reported \cup L.visit[b].reported
    BY <1>8, <1>9 DEF VisitBoth, Visited
  <2> QED BY <1>2, <1>3, <1>7, <1>8, <2>1 DEF VisitCases, Intersect, Visited
<1>11. /\ VisitBoth(T, L, b).assigned = VisitBoth(test, L, b).assigned
       /\ VisitBoth(T, L, b).reported = VisitBoth(test, L, b).reported
  BY <1>8 DEF VisitBoth, Visited
\* What runs from a normal end of the tests fails before v is assigned.
<1>12. ASSUME NEW P, NEW t \in {test, T}, HasAfter(P, t.run[a], "normal", L.run)
       PROVE  MayFail(P, v)
  <2>1. t.visit[{}].assigned = {} /\ Shows(t.visit[{}], {}, t.run[a], v)
    BY <1>6, <1>8, <1>9, <1>12 DEF ShowsAll
  <2>2. PICK o \in t.run[a] : o.c = "normal" /\ v \notin o.a
    BY <2>1 DEF Shows
  <2>3. o.a \in SUBSET Vars
    BY <1>6, <1>12, RunFacts
  <2>4. PICK m \in L.run[o.a] : (m.c = "throw" /\ v \notin m.a) \/ v \in m.bad
    BY <1>6, <2>2, <2>3 DEF FailsAll, MayFail
  <2>5. PICK x \in P : Joins(x, o, m)
    BY <1>12, <2>2 DEF HasAfter
  <2> QED BY <2>4, <2>5 DEF MayFail, Joins
<1>13. /\ VisitSwitch(Switch(c), b).reported = VisitBoth(test, L, b).reported
       /\ c.default => VisitSwitch(Switch(c), b).assigned = VisitBoth(test, L, b).assigned
       /\ ~c.default => VisitSwitch(Switch(c), b).assigned = b
  BY <1>0, <1>10, SwitchVisit
<1>14. CASE c.default /\ c.fallback = L.run
  <2>1. HasAfter(O, T.run[a], "normal", L.run)
    BY <1>0, <1>2, <1>14, EnterOutcomes DEF O, T
  <2>2. Shows(VisitBoth(T, L, b), b, O, v)
    BY <1>6, <2>1, BothShow
  <2>3. MayFail(O, v)
    BY <1>12, <2>1
  <2> QED BY <1>2, <1>11, <1>13, <1>14, <2>2, <2>3 DEF Shows, O
<1>15. CASE (c.default <=> d.default) /\ Then(test, L, a) \subseteq c.matched[a]
  <2> DEFINE P == Then(test, L, a)
  <2>1. HasAfter(P, test.run[a], "normal", L.run)
    BY AfterHasAfter DEF Then
  <2>2. Shows(VisitBoth(test, L, b), b, P, v) /\ MayFail(P, v)
    BY <1>6, <1>12, <2>1, BothShow
  <2>3. P \subseteq O /\ T.run[a] \subseteq O /\ ~c.default
    BY <1>0, <1>2, <1>3, <1>15, EnterOutcomes DEF O, T
  <2> HIDE DEF P
  <2>4. v \notin b => \E o \in O : o.c = "normal" /\ v \notin o.a
    <3>1. Shows(T.visit[b], b, T.run[a], v) /\ T.visit[b].assigned = b
      BY <1>6, <1>9 DEF ShowsAll
    <3> QED BY <2>3, <3>1 DEF Shows
  <2>5. v \in VisitBoth(test, L, b).reported => \E o \in O : v \in o.bad
    BY <2>2, <2>3 DEF Shows
  <2>6. MayFail(O, v)
    BY <2>2, <2>3 DEF MayFail
  <2> QED BY <1>13, <2>3, <2>4, <2>5, <2>6 DEF Shows, O
<1> QED BY <1>2, <1>14, <1>15

LEMMA AddCaseGood ==
  ASSUME NEW test, NEW s, NEW d, NEW c, IsCase(c, test, s, d),
         d.none => d = NoCases
  PROVE  GoodCases(c) /\ ~c.none
BY AddCaseRight, AddCaseShown, AddedCase DEF GoodCases

LEMMA SwitchGood ==
  ASSUME NEW c, GoodCases(c)
  PROVE  Good(Statement(Switch(c)))
<1> DEFINE n == Switch(c)
<1> DEFINE s == Statement(n)
<1>0. RightCases(c) /\ ShownCases(c)
  BY DEF GoodCases
<1>1. /\ s.free = FreeJumps(n) /\ s.buried = BuriedJumps(n) /\ s.kinds = Kinds(n)
      /\ s.exits <=> AlwaysExits(n)
      /\ s.prevents <=> PreventsFallthrough(n)
      /\ s.expression <=> IsExpression(n)
  BY StatementFields
<1>2. /\ s.free = c.list.free \ {"break"} /\ s.buried = c.list.free \ {"break"}
      /\ c.list.kinds \cup c.tests.kinds \subseteq s.kinds
      /\ ~c.single => "cases" \in s.kinds
      /\ Assigns(c.tests) => "tests" \in s.kinds
      /\ "break" \in c.list.buried => "indirect" \in s.kinds
      /\ ~s.expression
      /\ s.exits => c.default /\ c.exits
      /\ ~s.prevents
      /\ n.k = "switch" /\ n.cases = c
  BY <1>0, <1>1, SwitchShape DEF RightCases
<1>3. \A a \in SUBSET Vars : s.run[a] = Catch(EnterCases(c, a), "break", "normal")
  BY <1>2, RunOfStatement, RunCases
<1>4. \A a \in SUBSET Vars :
        /\ \A x \in s.run[a] : x \in Outcomes /\ \E o \in EnterCases(c, a) : Caught(x, o, "break", "normal")
        /\ \A o \in EnterCases(c, a) : \E x \in s.run[a] : Caught(x, o, "break", "normal")
  <2> SUFFICES ASSUME NEW a \in SUBSET Vars
               PROVE  /\ \A x \in s.run[a] : /\ x \in Outcomes
                                              /\ \E o \in EnterCases(c, a) : Caught(x, o, "break", "normal")
                      /\ \A o \in EnterCases(c, a) : \E x \in s.run[a] : Caught(x, o, "break", "normal")
    OBVIOUS
  <2>1. EnterCases(c, a) \in SUBSET Outcomes
    BY <1>0, EnterOutcomes
  <2> HIDE DEF s, n
  <2> QED BY <1>3, <2>1, CatchCases, CatchHas
<1>5. \A b \in SUBSET Vars : /\ s.visit[b] \in States /\ Keeps(s.visit[b], b)
                             /\ s.visit[b] = VisitSwitch(n, b)
                             /\ s.visit[b].reported = c.visit[b].reported
                             /\ c.default => s.visit[b].assigned = c.visit[b].assigned
                             /\ ~c.default => s.visit[b].assigned = b
  BY <1>0, VisitOfStatement, SwitchVisit
<1>6. /\ Typed(c.list) /\ Flows(c.list) /\ Typed(c.tests) /\ Flows(c.tests)
      /\ c.list.free \in SUBSET Jumps /\ c.tests.free = {}
  BY <1>0 DEF RightCases, Right, Typed
<1>7. Typed(s)
  <2>1. FreeJumps(n) \in SUBSET Jumps /\ BuriedJumps(n) \in SUBSET Jumps
    BY <1>1, <1>2, <1>6
  <2>2. \A a \in SUBSET Vars : Run(n, a) \in SUBSET Outcomes
    BY <1>4, RunOfStatement
  <2>3. \A a \in SUBSET Vars : Visit(n, a) \in States
    BY <1>5, VisitOfStatement
  <2> QED BY <2>1, <2>2, <2>3, TypedStatement
<1> HIDE DEF s
\* A jump out of the switch is one out of a case.
<1>8. \A a \in SUBSET Vars : \A o \in EnterCases(c, a) : o.c \in Jumps => o.c \in c.list.free
  <2> SUFFICES ASSUME NEW a \in SUBSET Vars, NEW o \in EnterCases(c, a), o.c \in Jumps
               PROVE  o.c \in c.list.free
    OBVIOUS
  <2>1. CASE o \in c.matched[a]
    BY <1>0, <2>1 DEF RightCases
  <2>2. CASE o \in c.tests.run[a]
    BY <1>6, <2>2 DEF Flows
  <2>3. ASSUME NEW y \in c.tests.run[a], NEW m \in c.fallback[y.a], Joins(o, y, m)
        PROVE  o.c \in c.list.free
    BY <1>0, <1>6, <2>3, RunFacts DEF RightCases, Joins
  <2> QED BY <1>0, <2>1, <2>2, <2>3, EnterOutcomes
<1>9. Flows(s)
  <2>1. \A a \in SUBSET Vars : s.run[a] # {}
    BY <1>0, <1>4, EnterOutcomes
  <2>2. ASSUME NEW a \in SUBSET Vars, NEW x \in s.run[a], x.c \in Jumps
        PROVE  x.c \in s.free
    <3>1. PICK o \in EnterCases(c, a) : Caught(x, o, "break", "normal")
      BY <1>4
    <3>2. x.c = o.c /\ o.c # "break"
      BY <2>2, <3>1 DEF Caught, Jumps
    <3> QED BY <1>2, <1>8, <2>2, <3>2
  <2>3. s.free \subseteq s.kinds
    BY <1>2, <1>6 DEF Flows
  <2> QED BY <1>2, <1>5, <2>1, <2>2, <2>3 DEF Flows, Keeps
<1>10. ExitsRight(s)
  <2> SUFFICES ASSUME s.exits, "indirect" \notin s.kinds PROVE Abrupt(s) /\ JumpsBuried(s)
    BY DEF ExitsRight
  <2>1. c.default /\ c.exits /\ "indirect" \notin c.list.kinds /\ "break" \notin c.list.buried
    BY <1>2
  <2>2. \A e \in SUBSET Vars : \A o \in c.matched[e] \cup c.fallback[e] : o.c \notin {"normal", "break"}
    BY <1>0, <2>1 DEF RightCases, AbruptCases, Jumps
  <2>3. Abrupt(s)
    <3> SUFFICES ASSUME NEW a \in SUBSET Vars, NEW x \in s.run[a] PROVE x.c # "normal"
      BY DEF Abrupt
    <3>1. PICK o \in EnterCases(c, a) : Caught(x, o, "break", "normal")
      BY <1>4
    <3>2. o.c \notin {"normal", "break"}
      <4>1. CASE o \in c.matched[a]
        BY <2>2, <4>1
      <4>2. CASE o \in c.tests.run[a] /\ o.c # "normal"
        BY <1>6, <4>2 DEF Flows, Jumps
      <4>3. ASSUME NEW y \in c.tests.run[a], NEW m \in c.fallback[y.a], Joins(o, y, m)
            PROVE  o.c \notin {"normal", "break"}
        BY <1>6, <2>2, <4>3, RunFacts DEF Joins
      <4> QED BY <1>0, <2>1, <4>1, <4>2, <4>3, EnterOutcomes
    <3> QED BY <3>1, <3>2 DEF Caught
  <2>4. JumpsBuried(s)
    BY <1>2, <1>9 DEF JumpsBuried, Flows
  <2> QED BY <2>3, <2>4
<1>11. PreventsRight(s)
  BY <1>2 DEF PreventsRight
<1>12. IsStructured(s) =>
         /\ IsStructured(c.list) /\ IsStructured(c.tests) /\ ~Assigns(c.tests)
         /\ \A a \in SUBSET Vars : \A o \in EnterCases(c, a) : o.c # "break"
  <2>1. IsStructured(s) => IsStructured(c.list) /\ IsStructured(c.tests) /\ ~Assigns(c.tests)
    BY <1>2 DEF IsStructured
  <2>2. IsStructured(c.list) => c.list.free = {}
    BY <1>6 DEF IsStructured, Flows
  <2> QED BY <1>8, <2>1, <2>2 DEF Jumps
<1>13. Sound(s)
  <2> SUFFICES ASSUME IsStructured(s), NEW a \in SUBSET Vars, NEW b \in SUBSET a, NEW x \in s.run[a]
               PROVE  Covers(s.visit[b], a, x)
    BY DEF Sound
  <2>1. b \in SUBSET Vars
    OBVIOUS
  <2>2. \A e \in SUBSET Vars : b \subseteq e =>
          /\ \A o \in c.matched[e] \cup c.fallback[e] : Covers(c.visit[b], e, o)
          /\ \A o \in c.tests.run[e] : e \subseteq o.a /\ o.bad \subseteq c.visit[b].reported
    BY <1>0, <1>12 DEF RightCases, SeenCases
  <2>3. /\ s.visit[b].reported = c.visit[b].reported
        /\ c.default => s.visit[b].assigned = c.visit[b].assigned
        /\ ~c.default => s.visit[b].assigned = b
    BY <1>5, <2>1
  <2>4. PICK o \in EnterCases(c, a) : Caught(x, o, "break", "normal")
    BY <1>4
  <2>5. x.a = o.a /\ x.bad = o.bad /\ x.c = o.c
    BY <1>12, <2>4 DEF Caught
  <2>6. CASE o \in c.matched[a]
    BY <2>2, <2>3, <2>5, <2>6 DEF Covers
  <2>7. CASE o \in c.tests.run[a] /\ (c.default => o.c # "normal")
    BY <2>2, <2>3, <2>5, <2>7 DEF Covers
  <2>8. ASSUME c.default, NEW y \in c.tests.run[a], NEW m \in c.fallback[y.a], Joins(o, y, m)
        PROVE  Covers(s.visit[b], a, x)
    <3>1. a \subseteq y.a /\ y.bad \subseteq c.visit[b].reported /\ y.a \in SUBSET Vars
      BY <1>6, <2>2, RunFacts
    <3>2. Covers(c.visit[b], y.a, m)
      BY <2>2, <3>1
    <3> QED BY <2>3, <2>5, <2>8, <3>1, <3>2 DEF Covers, Joins
  <2> QED BY <1>0, <2>6, <2>7, <2>8, EnterOutcomes
<1>14. Shown(s) /\ Fails(s)
  <2> SUFFICES ASSUME IsStraight(s), NEW a \in SUBSET Vars, NEW b \in SUBSET Vars, NEW v \in Vars \ a
               PROVE  Shows(s.visit[b], b, s.run[a], v) /\ MayFail(s.run[a], v)
    BY DEF Shown, Fails
  <2>1. c.single /\ IsStraight(c.list) /\ IsStraight(c.tests) /\ ~Assigns(c.tests)
    BY <1>2, <1>12 DEF IsStraight, IsStructured
  <2>2. Shows(s.visit[b], b, EnterCases(c, a), v) /\ MayFail(EnterCases(c, a), v)
    BY <1>0, <1>5, <2>1 DEF ShownCases, n
  <2>3. ASSUME NEW o \in EnterCases(c, a)
        PROVE  \E x \in s.run[a] : x.c = o.c /\ x.a = o.a /\ x.bad = o.bad
    <3>1. PICK x \in s.run[a] : Caught(x, o, "break", "normal")
      BY <1>4
    <3>2. o.c # "break"
      BY <1>12 DEF IsStraight
    <3> QED BY <3>1, <3>2 DEF Caught
  <2> QED BY <2>2, <2>3 DEF Shows, MayFail
<1> QED BY <1>7, <1>9, <1>10, <1>11, <1>13, <1>14 DEF Right, Good, s, n

-----------------------------------------------------------------------------
(* Every program that can be built is right.                               *)

LEMMA CombinedGood ==
  ASSUME NEW s, Good(s), NEW t, Good(t), NEW n \in Combined(s, t)
  PROVE  Good(Statement(n))
<1>1. /\ s.expression => s.free = {}
      /\ t.expression => t.free = {}
  BY DEF Good, Right, Flows
<1>2. Right(t) /\ Right(s) /\ Right(Absent) /\ Absent.free = {}
  BY AbsentRight DEF Good
<1>3. CASE n \in {List(s, t), If(s, t), Try(s, t), Finally(s, t)}
  <2>1. IsComposite(n, s, t)
    BY <1>3 DEF List, If, Try, Finally, Node, IsComposite, Composites, Loops, Expressions
  <2> QED BY <1>2, <2>1, CompositeGood
<1>4. CASE n \in {Block(s), Labeled(s)} \/ (s.free = {} /\ n = Function(s))
  <2>1. IsComposite(n, s, s)
    BY <1>4 DEF Block, Labeled, Function, Node, IsComposite, Composites, Loops, Expressions
  <2> QED BY <1>2, <2>1, CompositeGood
<1>5. CASE n \in {If(s, Absent), For(s, Absent)}
  <2>1. IsComposite(n, s, Absent) /\ n.k \in {"if", "for"}
    BY <1>2, <1>5 DEF If, For, Node, IsComposite, Composites, Loops, Expressions
  <2> QED BY <1>2, <2>1, CompositeGood
<1>6. CASE t.expression /\ n \in {While(t, s), DoWhile(s, t), For(s, t)}
  <2>1. IsComposite(n, s, t)
    BY <1>1, <1>6 DEF While, DoWhile, For, Node, IsComposite, Composites, Loops, Expressions
  <2> QED BY <1>2, <2>1, CompositeGood
<1>7. CASE s.expression /\ t.expression /\ n \in {Conditional(s, t), Comma(s, t), And(s, t)}
  <2>1. IsComposite(n, s, t)
    BY <1>1, <1>7 DEF Conditional, Comma, And, Node, IsComposite, Composites, Loops, Expressions
  <2> QED BY <1>2, <2>1, CompositeGood
<1> QED BY <1>3, <1>4, <1>5, <1>6, <1>7 DEF Combined

\* The inductive invariant: every statement is good, and so are the cases of switches.
IInv == (\A s \in statements : Good(s)) /\ \A c \in switches : GoodCases(c) /\ ~c.none

\* Whatever the analyses say of a statement fits what it does when it runs, however
\* the statement is built: what is built of good parts is good.
THEOREM AlwaysGood == Spec => []IInv
<1>1. Init => IInv
  BY DEF Init, IInv
<1>2. IInv /\ [Next]_vars => IInv'
  <2> SUFFICES ASSUME IInv, [Next]_vars PROVE IInv'
    OBVIOUS
  <2>1. CASE AddLeaf
    <3>1. PICK s \in Leaves : statements' = statements \cup {s} /\ switches' = switches
      BY <2>1 DEF AddLeaf, Add
    <3>2. Good(s)
      BY <3>1, LeavesGood
    <3> QED BY <3>1, <3>2 DEF IInv
  <2>2. CASE AddStatement
    <3>1. PICK s \in statements : \E t \in statements : \E n \in Combined(s, t) :
            Add(Statement(n)) /\ UNCHANGED switches
      BY <2>2 DEF AddStatement
    <3>2. PICK t \in statements : \E n \in Combined(s, t) : Add(Statement(n)) /\ UNCHANGED switches
      BY <3>1
    <3>3. PICK n \in Combined(s, t) : statements' = statements \cup {Statement(n)} /\ switches' = switches
      BY <3>2 DEF Add
    <3>4. Good(Statement(n))
      BY CombinedGood DEF IInv
    <3> QED BY <3>3, <3>4 DEF IInv
  <2>3. CASE AddSwitch
    <3>1. PICK s \in statements, d \in switches \cup {NoCases},
               test \in {Absent} \cup {t \in statements : t.expression}, default \in BOOLEAN :
            /\ statements' = statements \cup {Statement(Switch(AddCase(test, s, default, d)))}
            /\ switches' = switches \cup {AddCase(test, s, default, d)}
      BY <2>3 DEF AddSwitch, Add
    <3>2. Right(test) /\ test.free = {} /\ Good(s)
      BY AbsentRight DEF IInv, Good, Right, Flows
    <3>3. RightCases(d) /\ (d.none => d = NoCases)
      BY NoCasesRight DEF IInv, GoodCases
    <3> DEFINE c == AddCase(test, s, default, d)
    <3>4. GoodCases(c) /\ ~c.none
      BY <3>1, <3>2, <3>3, AddCaseGood DEF IsCase
    <3>5. Good(Statement(Switch(c)))
      BY <3>4, SwitchGood
    <3> QED BY <3>1, <3>4, <3>5 DEF IInv
  <2>4. CASE UNCHANGED vars
    BY <2>4 DEF IInv, vars
  <2> QED BY <2>1, <2>2, <2>3, <2>4 DEF Next
<1> QED BY <1>1, <1>2, PTL DEF Spec

-----------------------------------------------------------------------------
(* The properties.                                                         *)

\* A function body that passes "Not all code paths return a value" never ends without
\* one: in programs of any size a statement that statementAlwaysExits accepts does not
\* end normally, if the jumps out of a do loop, switch or label are statements of its
\* own list: those in deeper statements, and (break), are not looked for.
THEOREM ExitsStayReal == Spec => []ExitsAreReal
<1>1. IInv => ExitsAreReal
  <2> SUFFICES ASSUME IInv, NEW s \in statements, s.exits, "indirect" \notin s.kinds
               PROVE  "normal" \notin Completions(s)
    BY DEF ExitsAreReal
  <2>1. Abrupt(s)
    BY DEF IInv, Good, Right, ExitsRight
  <2> QED BY <2>1 DEF Abrupt, Completions
<1> QED BY <1>1, AlwaysGood, PTL

\* A case that is accepted by statementPreventsSwitchFallthrough never runs into the
\* next one, in programs of any size, but for branches with a label of their own.
THEOREM FallthroughStaysPrevented == Spec => []FallthroughIsPrevented
<1>1. IInv => FallthroughIsPrevented
  <2> SUFFICES ASSUME IInv, NEW s \in statements, s.prevents, "left" \notin s.kinds
               PROVE  "normal" \notin Completions(s)
    BY DEF FallthroughIsPrevented
  <2>1. Abrupt(s)
    BY DEF IInv, Good, Right, PreventsRight
  <2> QED BY <2>1 DEF Abrupt, Completions
<1> QED BY <1>1, AlwaysGood, PTL

\* A program with a read at its end is a program.
LEMMA ProbedGood ==
  ASSUME NEW s, Good(s), NEW v \in Vars
  PROVE  /\ Good(Probed(s, v))
         /\ Probed(s, v).kinds = s.kinds
<1> DEFINE r == Node("read", v, "")
<1> DEFINE n == List(s, Read(v))
<1>1. IsGoodLeaf(r) /\ r.k = "read" /\ Read(v) = Statement(r)
  BY DEF Read, Node, IsGoodLeaf
<1>2. n.k = "list" /\ n.first = s /\ n.second = Read(v)
  BY DEF List, Node
<1>3. Probed(s, v) = Statement(n)
  BY DEF Probed
<1> HIDE DEF n, r
<1>4. Good(Read(v)) /\ Read(v).kinds = {}
  <2>1. Good(Read(v))
    BY <1>1, LeafGood
  <2>2. Statement(r).kinds = Kinds(r) /\ Kinds(r) = {}
    BY <1>1, LeafShape, StatementFields DEF Jumps, JumpOf
  <2> QED BY <1>1, <2>1, <2>2
<1>5. IsComposite(n, s, Read(v))
  BY <1>2 DEF IsComposite, Composites, Loops, Expressions
<1>6. Good(Statement(n))
  BY <1>4, <1>5, CompositeGood DEF Good
<1>7. Kinds(n) = s.kinds
  <2>1. ~IsLeaf(n)
    BY <1>2 DEF IsLeaf, Jumps
  <2> QED BY <1>2, <1>4, <2>1 DEF Kinds, Jumps
<1>8. Statement(n).kinds = Kinds(n)
  BY StatementFields
<1> QED BY <1>3, <1>6, <1>7, <1>8

\* The definite assignment check misses nothing in structured programs, those without
\* jumps, conditionals, short circuits, finally clauses and tests of cases that assign:
\* a read that any path through branches, loops, cases, handlers and functions reaches
\* before an assignment is reported, in programs of any size and for any variables.
THEOREM MisreadsStayReported == Spec => []MisreadsAreReported
<1>1. IInv => MisreadsAreReported
  <2> SUFFICES ASSUME IInv, NEW s \in statements, NEW v \in Vars, IsStructured(s)
               PROVE  Misread(Probed(s, v)) \subseteq Reported(Probed(s, v))
    BY DEF MisreadsAreReported
  <2> DEFINE t == Probed(s, v)
  <2>1. Good(t) /\ IsStructured(t)
    BY ProbedGood DEF IInv, IsStructured
  <2> HIDE DEF t
  <2>2. \A o \in t.run[{}] : o.bad \subseteq t.visit[{}].reported
    BY <2>1 DEF Good, Right, Sound, Covers
  <2> QED BY <2>2 DEF Misread, Reported, t
<1> QED BY <1>1, AlwaysGood, PTL

\* The definite assignment check reports nothing else of straight programs of any
\* size: some path reaches the read of what is reported before an assignment.
THEOREM ReportsStayMisreads == Spec => []ReportsAreMisreads
<1>1. IInv => ReportsAreMisreads
  <2> SUFFICES ASSUME IInv, NEW s \in statements, NEW v \in Vars, IsStraight(s),
                      NEW w \in Reported(Probed(s, v))
               PROVE  w \in Misread(Probed(s, v))
    BY DEF ReportsAreMisreads
  <2> DEFINE t == Probed(s, v)
  <2>1. Good(t) /\ IsStraight(t)
    BY ProbedGood DEF IInv, IsStraight, IsStructured
  <2>2. w \in t.visit[{}].reported
    BY DEF Reported
  <2> HIDE DEF t
  <2>3. w \in Vars
    BY <2>1, <2>2 DEF Good, Right, Typed, States
  <2>4. \E o \in t.run[{}] : w \in o.bad
    BY <2>1, <2>2, <2>3 DEF Good, Right, Shown, Shows
  <2> QED BY <2>4 DEF Misread, t
<1> QED BY <1>1, AlwaysGood, PTL

\* For any structured init block and constructor that do not return early, a class
\* field is reported when it may be unassigned after both, and only then if they are
\* straight.
THEOREM FieldsStayInitialized == Spec => []FieldsAreInitialized
<1>1. IInv => FieldsAreInitialized
  <2> SUFFICES ASSUME IInv, NEW s \in statements, NEW t \in statements
               PROVE  /\ IsStructured(s) /\ IsStructured(t) /\ ~Returns(s) /\ ~Returns(t) =>
                           LeftUnassigned(s, t) \subseteq ClassFieldReported(s, t)
                      /\ IsStraight(s) /\ IsStraight(t) =>
                           ClassFieldReported(s, t) \subseteq LeftUnassigned(s, t)
    BY DEF FieldsAreInitialized
  <2>0. Good(s) /\ Good(t)
    BY DEF IInv
  <2>1. /\ Typed(s) /\ Flows(s) /\ Sound(s) /\ Shown(s) /\ Fails(s)
        /\ Typed(t) /\ Flows(t) /\ Sound(t) /\ Shown(t)
    BY <2>0 DEF Good, Right
  <2> DEFINE V == VisitBoth(s, t, {})
  <2> DEFINE O == Then(s, t, {})
  <2>2. ASSUME IsStructured(s), IsStructured(t), ~Returns(s), ~Returns(t),
               NEW o \in O, o.c \in {"normal", "return"}
        PROVE  Vars \ o.a \subseteq Vars \ V.assigned
    <3>1. Sees(s) /\ Sees(t)
      BY <2>1, <2>2 DEF Sound, Sees
    <3>2. ComesAfter(o, s.run[{}], "normal", t.run)
      BY <2>1, <2>2, ThenCases
    <3>3. Covers(V, {}, o)
      BY <2>1, <3>1, <3>2, BothCover
    <3>4. o.c # "return"
      BY <2>1, <2>2, <3>2, RunFacts DEF Returns, Completions, ComesAfter, Joins
    <3> QED BY <2>2, <3>3, <3>4 DEF Covers
  <2>3. ASSUME IsStraight(s), IsStraight(t), NEW v \in Vars \ V.assigned
        PROVE  \E o \in O : o.c = "normal" /\ v \notin o.a
    <3>1. /\ \A e \in SUBSET Vars : ShowsAll(s, e, v) /\ ShowsAll(t, e, v)
          /\ FailsAll(s, v)
      BY <2>1, <2>3 DEF Shown, Fails, ShowsAll, FailsAll
    <3>2. HasAfter(O, s.run[{}], "normal", t.run)
      BY AfterHasAfter DEF Then
    <3>3. Shows(V, {}, O, v)
      BY <2>1, <3>1, <3>2, BothShow
    <3> QED BY <2>3, <3>3 DEF Shows
  <2>4. IsStructured(s) /\ IsStructured(t) /\ ~Returns(s) /\ ~Returns(t) =>
          LeftUnassigned(s, t) \subseteq ClassFieldReported(s, t)
    BY <2>2 DEF LeftUnassigned, ClassFieldReported
  <2>5. IsStraight(s) /\ IsStraight(t) => ClassFieldReported(s, t) \subseteq LeftUnassigned(s, t)
    BY <2>3 DEF LeftUnassigned, ClassFieldReported
  <2> QED BY <2>4, <2>5
<1> QED BY <1>1, AlwaysGood, PTL


=============================================================================
