---------------------------- MODULE MCLanguageWorker ---------------------------
(* Instances of LanguageWorker.                                               *)
EXTENDS LanguageWorker

CONSTANTS m1, m2, r1, r2, r3, r4
=============================================================================
