--------------------------- MODULE MCAccountSessions ---------------------------
(* Small instances of AccountSessions. *)
EXTENDS AccountSessions, TLC

CONSTANTS l1, l2, q1, q2

Symmetric == Permutations(Logins) \cup Permutations(Requests)
=================================================================================
