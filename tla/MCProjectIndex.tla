---------------------------- MODULE MCProjectIndex ----------------------------
(* One file: the entries of two files never meet.                             *)
EXTENDS ProjectIndex

CONSTANTS f1, tA, tB

\* The file is deleted by its first write and created again by the second.
Deleted == [f \in Files |-> {1} \cap Versions]
=============================================================================
