-------------------------- MODULE MCDocumentGeneration --------------------------
(* Small instances of DocumentGeneration. *)
EXTENDS DocumentGeneration, TLC

CONSTANTS s1, s2, t1, t2

Symmetric == Permutations(Sessions) \cup Permutations(Templates)
=================================================================================
