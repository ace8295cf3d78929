------------------------ MODULE MCAnalysisSessionCache ------------------------
(* Instances of AnalysisSessionCache.  Two texts share their imports, a third *)
(* has others, a fourth has no syntax tree.                                   *)
EXTENDS AnalysisSessionCache, TLC

CONSTANTS u1, tA, tB, tC, tX, k1, k2, p1, p2

MCImportKey == [t \in Texts |-> CASE t \in {tA, tB} -> k1
                                  [] t = tC -> k2
                                  [] OTHER -> NoKey]
=============================================================================
