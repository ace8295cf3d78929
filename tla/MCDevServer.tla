------------------------------ MODULE MCDevServer ------------------------------
(* Instances of DevServer: an entry e that imports g in every version, or only *)
(* once it has been written; some versions of g do not compile.                *)
EXTENDS DevServer, TLC

CONSTANTS e, g, d1, d2, p1, AlwaysImports, BrokenOf

MCImportsOf == [v \in 0..MaxWrites |-> IF AlwaysImports \/ v > 0 THEN {g} ELSE {}]
MCBroken == {g} \X BrokenOf
=============================================================================
