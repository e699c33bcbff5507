----------------------------- MODULE ActiveTemplate -----------------------------
(* What the template versions of one document type promise to the people who    *)
(* generate documents: at most one version is current, a version that has been  *)
(* withdrawn never comes back, and a reservation takes the version current at   *)
(* that moment and keeps it.                                                    *)

CONSTANTS Versions,   \* the template versions of the type
          Sessions    \* the requests that may reserve a generation

VARIABLES current,    \* the current version, as a set of at most one
          withdrawn,  \* the versions that were current once
          taken       \* taken[s]: the version the reservation of s took, likewise

avars == <<current, withdrawn, taken>>

AInit == /\ current = {}
         /\ withdrawn = {}
         /\ taken = [s \in Sessions |-> {}]

Succeed(v) == /\ v \notin current \cup withdrawn
              /\ current' = {v}
              /\ withdrawn' = withdrawn \cup current
              /\ UNCHANGED taken

Withdraw == /\ current # {}
            /\ current' = {}
            /\ withdrawn' = withdrawn \cup current
            /\ UNCHANGED taken

Take(s) == /\ current # {} /\ taken[s] = {}
           /\ taken' = [taken EXCEPT ![s] = current]
           /\ UNCHANGED <<current, withdrawn>>

ANext == \/ \E v \in Versions : Succeed(v)
         \/ Withdraw
         \/ \E s \in Sessions : Take(s)

ASpec == AInit /\ [][ANext]_avars
=================================================================================
