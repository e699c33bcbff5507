----------------------------- MODULE MCReferenceData -----------------------------
(* Small instances of ReferenceData. *)
EXTENDS ReferenceData, TLC

CONSTANTS s1, s2, s3, c1, c2, e1, e2, a1, o1, o2

Symmetric == Permutations(Sessions) \cup Permutations(Courts)
             \cup Permutations(Entities) \cup Permutations(Officials)
=================================================================================
