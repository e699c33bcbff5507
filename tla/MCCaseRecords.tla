------------------------------ MODULE MCCaseRecords ------------------------------
(* Small instances of CaseRecords. *)
EXTENDS CaseRecords, TLC

CONSTANTS s1, s2, s3

Symmetric == Permutations(Sessions)
=================================================================================
