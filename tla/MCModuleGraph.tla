----------------------------- MODULE MCModuleGraph -----------------------------
(* Import graphs over an entry e and modules a and b.                          *)
EXTENDS ModuleGraph, TLC

CONSTANTS e, a, b

\* What the texts of e and b (the first one and the later ones) and a import.
Graph(first, later, ofA, ofB, laterB) ==
  [m \in Modules |-> [v \in Texts |->
    CASE m = e -> IF v = 0 THEN first ELSE later
      [] m = a -> ofA
      [] m = b -> IF v = 0 THEN ofB ELSE laterB]]

\* The imports of the first text and of the later ones.
Same(list) == <<list, list>>
OfEntry == {Same(<<a, b>>), << <<a>>, <<a, b>> >>, << <<b, a>>, <<b>> >>, << <<>>, <<a>> >>}
OfB == {Same(<<>>), Same(<<a>>), << <<>>, <<a>> >>, << <<e>>, <<>> >>}

\* Imports that differ from text to text, cycles through a and b or through the entry,
\* and texts with errors.
AllProjects ==
  {[imports |-> Graph(ofE[1], ofE[2], ofA, ofB[1], ofB[2]), broken |-> broken] :
   ofE \in OfEntry, ofA \in {<<>>, <<b>>, <<b, e>>}, ofB \in OfB, broken \in {{}, {<<a, 1>>}}}
=============================================================================
