------------------------------ MODULE SharedRecord ------------------------------
(* What optimistic revisions promise to people who edit one record together:    *)
(* the record is a log of changes, and a change is appended only by somebody    *)
(* who has seen the log exactly as long as it then is.                          *)
EXTENDS Naturals, Sequences

CONSTANTS Sessions,   \* those who view and change the record
          Changes     \* what a change may be

VARIABLES log,        \* the changes so far
          base        \* base[s]: how much of the log s has seen

avars == <<log, base>>

AInit == /\ log = <<>>
         /\ base = [s \in Sessions |-> 0]

\* Somebody looks at the record, or at an older picture of it that is still around.
See(s) == /\ \E n \in 0..Len(log) : base' = [base EXCEPT ![s] = n]
          /\ UNCHANGED log

Start == /\ log = <<>>
         /\ \E c \in Changes : log' = <<c>>
         /\ UNCHANGED base

\* Whoever changes the record may forget what it saw.
Change(s) == /\ log # <<>> /\ base[s] = Len(log)
             /\ \E c \in Changes : log' = Append(log, c)
             /\ UNCHANGED base \/ base' = [base EXCEPT ![s] = 0]

ANext == Start \/ \E s \in Sessions : See(s) \/ Change(s)

ASpec == AInit /\ [][ANext]_avars
=================================================================================
