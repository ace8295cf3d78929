---------------------------- MODULE MCControlFlow -----------------------------
(***************************************************************************)
(* Instance of Programs for TLC: all programs over one variable that are   *)
(* built in MaxSteps steps.                                                *)
(***************************************************************************)
EXTENDS Programs

\* Bound: one variable is declared without a value, and one field.
OneVariable == {"x"}

=============================================================================
