---------------------------- MODULE AttemptLifecycle ----------------------------
(* What a generation attempt promises to the people who use it, without saying  *)
(* how.  An attempt is opened once and decided at most once: it ends published, *)
(* with a readable artifact of its own, or failed, with a category.  A decision *)
(* is never revised, no artifact serves two attempts, and whoever asks about an *)
(* attempt is told its decision or nothing.                                     *)

CONSTANTS Requests,    \* the calls that work on attempts; each may name one artifact
          Attempts,    \* the attempts (GeneratedDocument rows)
          Categories   \* the failure categories

VARIABLES outcome,     \* outcome[a]: what has been decided about attempt a
          heard        \* heard[r]: what call r has been told, with the attempt

avars == <<outcome, heard>>

Absent       == [kind |-> "absent", detail |-> ""]
Pending      == [kind |-> "pending", detail |-> ""]
Published(k) == [kind |-> "published", detail |-> k]
Failed(c)    == [kind |-> "failed", detail |-> c]

Decisions == {Published(k) : k \in Requests} \cup {Failed(c) : c \in Categories}

AInit == /\ outcome = [a \in Attempts |-> Absent]
         /\ heard = [r \in Requests |-> Absent]

Open(a) == /\ outcome[a] = Absent
           /\ outcome' = [outcome EXCEPT ![a] = Pending]
           /\ UNCHANGED heard

Decide(a, d) == /\ outcome[a] = Pending
                /\ d.kind = "published" => \A b \in Attempts : outcome[b] # d
                /\ outcome' = [outcome EXCEPT ![a] = d]
                /\ UNCHANGED heard

Tell(r, a) == /\ heard[r] = Absent
              /\ outcome[a] \in Decisions
              /\ heard' = [heard EXCEPT ![r] = outcome[a]]
              /\ UNCHANGED outcome

\* A deciding call may be told in the very step that decides.
DecideAndTell(r, a, d) == /\ heard[r] = Absent
                          /\ outcome[a] = Pending
                          /\ d.kind = "published" => \A b \in Attempts : outcome[b] # d
                          /\ outcome' = [outcome EXCEPT ![a] = d]
                          /\ heard' = [heard EXCEPT ![r] = d]

ANext == \E a \in Attempts :
            \/ Open(a)
            \/ \E d \in Decisions : Decide(a, d)
            \/ \E r \in Requests : Tell(r, a)
            \/ \E r \in Requests, d \in Decisions : DecideAndTell(r, a, d)

ASpec == AInit /\ [][ANext]_avars
=================================================================================
