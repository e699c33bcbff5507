--------------------------- MODULE MCTemplateVersions ---------------------------
(* Small instances of TemplateVersions. *)
EXTENDS TemplateVersions, TLC

CONSTANTS u1, u2, u3, s1, s2, s3

\* Every upload proposes a version of its own.
Distinct == [u \in Uploads |-> u]

\* u1 and u2 propose the same version.
Clashing == [u \in Uploads |-> IF u = u2 THEN u1 ELSE u]

Symmetric == Permutations(Uploads) \cup Permutations(Sessions)
=================================================================================
