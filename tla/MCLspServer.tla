------------------------------ MODULE MCLspServer -----------------------------
(* Instances of LspServer with one document; two of its texts, of different   *)
(* imports.                                                                   *)
EXTENDS LspServer, TLC

CONSTANTS u1, tA, tC, k1, k2, p1, j1, j2, j3, q1

MCImportKey == [t \in Texts |-> IF t = tA THEN k1 ELSE k2]
=============================================================================
