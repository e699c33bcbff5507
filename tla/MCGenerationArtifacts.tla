-------------------------- MODULE MCGenerationArtifacts --------------------------
(* Small instances of GenerationArtifacts. *)
EXTENDS GenerationArtifacts, TLC

CONSTANTS r1, r2, r3, a1, a2

\* Everybody owns every attempt: all requests may race on one attempt.
AllOwned == [r \in Requests |-> Attempts]

\* r2 is another user's request: it owns a2 only.
SplitOwned == [r \in Requests |-> IF r = r2 THEN {a2} ELSE Attempts]

Symmetric == Permutations(Requests)
=================================================================================
