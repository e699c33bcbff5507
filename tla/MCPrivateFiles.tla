----------------------------- MODULE MCPrivateFiles -----------------------------
(* Small instances of PrivateFiles. *)
EXTENDS PrivateFiles

CONSTANTS r1, r2, r3, a1, a2, d1

\* Everybody owns every attempt: all requests may race on one attempt.
AllOwned == [r \in Requests |-> Attempts]
=================================================================================
