------------------------ MODULE GenerationArtifactsProofs ------------------------
(* Machine-checked facts about GenerationArtifacts, for any number of requests  *)
(* and attempts.                                                                *)
EXTENDS GenerationArtifacts, Integers, SequenceTheorems, TLAPS

--------------------------------------------------------------------------------
(* Rows *)

\* The four shapes of a row are rows.
LEMMA RowShapes ==
    /\ NoRow \in Rows
    /\ GeneratingRow \in Rows
    /\ \A r \in Requests : GeneratedRow(r) \in Rows
    /\ \A c \in Categories : FailedRow(c) \in Rows
BY Zenon DEF Rows

\* The constructors put their argument where it is read.
LEMMA RowFields ==
    /\ \A r : GeneratedRow(r).status = "generated" /\ GeneratedRow(r).key = r
    /\ \A c : FailedRow(c).status = "failed" /\ FailedRow(c).category = c
    /\ NoRow.status = "none" /\ GeneratingRow.status = "generating"
BY DEF NoRow, GeneratingRow, GeneratedRow, FailedRow

\* The status of a row determines its shape.
LEMMA RowsByStatus ==
    \A x \in Rows :
        /\ x.status \in {"none", "generating", "generated", "failed"}
        /\ x.status = "none" <=> x = NoRow
        /\ x.status = "generating" <=> x = GeneratingRow
        /\ x.status = "generated" => x.key \in Requests /\ x = GeneratedRow(x.key)
        /\ x.status = "failed" => x.category \in Categories /\ x = FailedRow(x.category)
<1> TAKE x \in Rows
<1>1. (x = NoRow => x.status = "none") /\ (x = GeneratingRow => x.status = "generating")
  BY RowFields
<1>2. ASSUME NEW r \in Requests, x = GeneratedRow(r) PROVE x.status = "generated" /\ x.key = r
  BY <1>2 DEF GeneratedRow
<1>3. ASSUME NEW c \in Categories, x = FailedRow(c) PROVE x.status = "failed" /\ x.category = c
  BY <1>3 DEF FailedRow
<1>. QED
  BY <1>1, <1>2, <1>3 DEF Rows

\* Appending to a trail keeps it a trail.
LEMMA TrailGrows ==
    ASSUME NEW S, NEW s \in Seq(S), NEW e \in S PROVE Append(s, e) \in Seq(S)
OBVIOUS

\* A trail of one event and another is the trail of both.
LEMMA TwoEvents ==
    ASSUME NEW x, NEW y PROVE Append(<<x>>, y) = <<x, y>>
<1> DEFINE S == {x, y}
           s == Append(<<x>>, y)
           t == <<x, y>>
<1>1. <<x>> \in Seq(S) /\ Len(<<x>>) = 1 /\ <<x>>[1] = x
  OBVIOUS
<1>2. t \in Seq(S) /\ Len(t) = 2 /\ t[1] = x /\ t[2] = y
  OBVIOUS
<1>3. s \in Seq(S) /\ Len(s) = 2 /\ s[1] = x /\ s[2] = y
  BY <1>1, AppendProperties
<1>4. \A i \in 1 .. Len(s) : s[i] = t[i]
  BY <1>2, <1>3
<1> HIDE DEF s, t
<1>5. s = t
  BY <1>2, <1>3, <1>4, SeqEqual
<1>. QED
  BY <1>5 DEF s, t

--------------------------------------------------------------------------------
(* Type correctness *)

LEMMA InitTyped == Init => TypeOK
<1> SUFFICES ASSUME Init PROVE TypeOK
    OBVIOUS
<1>1. audit \in [Attempts -> Seq({"reserved", "succeeded", "failed"})]
  <2>1. <<>> \in Seq({"reserved", "succeeded", "failed"})
    OBVIOUS
  <2>. QED
    BY <2>1, Zenon DEF Init
<1>2. row \in [Attempts -> Rows] /\ seen \in [Requests -> Rows]
  BY RowShapes, Zenon DEF Init
<1>. QED
  <2>1. attempt \in [Requests -> Attempts \cup {NoAttempt}]
    BY DEF Init
  <2>2. pc \in [Requests -> PCs] /\ category \in [Requests -> Categories \cup {""}]
    BY DEF Init, PCs
  <2>3. file \in [Requests -> {"absent", "intact", "damaged"}]
    BY DEF Init
  <2>4. flushed = {} /\ stage = {} /\ tracked = {} /\ leftover = {}
    BY DEF Init
  <2>5. answer \in [Requests -> {"none", "denied", "returned", "raised", "error"}]
    BY DEF Init
  <2>. QED
    BY <1>1, <1>2, <2>1, <2>2, <2>3, <2>4, <2>5 DEF TypeOK

\* The proof of the one step that matters, per action: TypeOK alone is not inductive,
\* since a failure is recorded under whatever category the request carries.
LEMMA StepWellTyped == WellTyped /\ [Next]_vars => WellTyped'
<1> SUFFICES ASSUME WellTyped, [Next]_vars PROVE WellTyped'
    OBVIOUS
<1> USE RowShapes, TrailGrows
    DEF WellTyped, TypeOK, PCs, Active, Holding, Goto, Finish, Raise, See, database, disk, local
<1>1. ASSUME NEW a \in Attempts, Reserve(a) PROVE WellTyped'
  BY <1>1 DEF Reserve
<1>2. ASSUME NEW r \in Requests, NEW a \in Attempts, Deny(r, a) PROVE WellTyped'
  BY <1>2 DEF Deny
<1>3. ASSUME NEW r \in Requests, NEW a \in Attempts, Replay(r, a) PROVE WellTyped'
  BY <1>3 DEF Replay
<1>4. ASSUME NEW r \in Requests, NEW a \in Attempts, Start(r, a) PROVE WellTyped'
  BY <1>4 DEF Start, Categories
<1>5. ASSUME NEW r \in Requests, Prepare(r) PROVE WellTyped'
  <2>1. PrepareFailures \subseteq Categories
    BY DEF PrepareFailures, ReadTemplateFailures, RenderFailures, FilenameFailures, Categories
  <2>2. CASE Goto(r, "stage") /\ UNCHANGED category
    BY <1>5, <2>2 DEF Prepare
  <2>3. ASSUME NEW c \in Categories, Raise(r, c) PROVE WellTyped'
    BY <1>5, <2>3 DEF Prepare
  <2>. QED
    BY <1>5, <2>1, <2>2, <2>3 DEF Prepare
<1>6. ASSUME NEW r \in Requests, OpenStage(r) PROVE WellTyped'
  BY <1>6 DEF OpenStage, Categories
<1>7. ASSUME NEW r \in Requests, Link(r) PROVE WellTyped'
  <2>1. file' \in [Requests -> {"absent", "intact", "damaged"}]
    BY <1>7 DEF Link
  <2>2. category' \in [Requests -> Categories \cup {""}]
    BY <1>7 DEF Link, Categories
  <2>. QED
    BY <1>7, <2>1, <2>2 DEF Link
<1>8. ASSUME NEW r \in Requests, Unstage(r) PROVE WellTyped'
  BY <1>8 DEF Unstage, Categories
<1>9. ASSUME NEW r \in Requests, Verify(r) PROVE WellTyped'
  BY <1>9 DEF Verify, Categories
<1>10. ASSUME NEW r \in Requests, FinalizeCommit(r) PROVE WellTyped'
  <2>1. attempt[r] \in Attempts
    BY <1>10 DEF FinalizeCommit
  <2>2. row' \in [Attempts -> Rows] /\ seen' \in [Requests -> Rows]
    BY <1>10, <2>1 DEF FinalizeCommit
  <2>3. audit' \in [Attempts -> Seq({"reserved", "succeeded", "failed"})]
    BY <1>10, <2>1 DEF FinalizeCommit
  <2>4. /\ pc' \in [Requests -> PCs]
        /\ answer' \in [Requests -> {"none", "denied", "returned", "raised", "error"}]
        /\ category' \in [Requests -> Categories \cup {""}]
        /\ \A q \in Requests : pc'[q] \in Active => pc[q] \in Active
        /\ \A q \in Requests : pc'[q] \in {"cleanup", "mark"} => category'[q] \in Categories
    BY <1>10 DEF FinalizeCommit, Categories
  <2>. QED
    BY <1>10, <2>2, <2>3, <2>4 DEF FinalizeCommit
<1>11. ASSUME NEW r \in Requests, FinalizeSettled(r) PROVE WellTyped'
  <2>1. attempt[r] \in Attempts /\ row[attempt[r]] \in Rows
    BY <1>11 DEF FinalizeSettled
  <2>2. row[attempt[r]].status = "failed" => row[attempt[r]].category \in Categories
    BY <2>1, RowsByStatus
  <2>. QED
    BY <1>11, <2>1, <2>2 DEF FinalizeSettled
<1>12. ASSUME NEW r \in Requests, FinalizeRollback(r) PROVE WellTyped'
  BY <1>12 DEF FinalizeRollback, Categories
<1>13. ASSUME NEW r \in Requests, Discard(r) PROVE WellTyped'
  BY <1>13 DEF Discard, Erase
<1>14. ASSUME NEW r \in Requests, Cleanup(r) PROVE WellTyped'
  BY <1>14 DEF Cleanup, Erase
<1>15. ASSUME NEW r \in Requests, MarkCommit(r) PROVE WellTyped'
  <2>1. attempt[r] \in Attempts /\ FailedRow(category[r]) \in Rows
    BY <1>15 DEF MarkCommit
  <2>2. row' \in [Attempts -> Rows] /\ seen' \in [Requests -> Rows]
    BY <1>15, <2>1 DEF MarkCommit
  <2>3. audit' \in [Attempts -> Seq({"reserved", "succeeded", "failed"})]
    BY <1>15, <2>1 DEF MarkCommit
  <2>. QED
    BY <1>15, <2>2, <2>3 DEF MarkCommit
<1>16. ASSUME NEW r \in Requests, MarkSettled(r) PROVE WellTyped'
  <2>1. attempt[r] \in Attempts /\ row[attempt[r]] \in Rows
    BY <1>16 DEF MarkSettled
  <2>. QED
    BY <1>16, <2>1 DEF MarkSettled
<1>17. ASSUME NEW r \in Requests, MarkError(r) PROVE WellTyped'
  BY <1>17 DEF MarkError
<1>18. ASSUME NEW r \in Requests, Crash(r) PROVE WellTyped'
  BY <1>18 DEF Crash
<1>19. ASSUME NEW r \in Requests, WriteBack(r) \/ ReclaimStage(r) PROVE WellTyped'
  BY <1>19 DEF WriteBack, ReclaimStage
<1>20. ASSUME NEW lost \in SUBSET Requests, HostFailure(lost) PROVE WellTyped'
  BY <1>20 DEF HostFailure
<1>21. CASE UNCHANGED vars
  BY <1>21 DEF vars
<1>. QED
  BY <1>1, <1>2, <1>3, <1>4, <1>5, <1>6, <1>7, <1>8, <1>9, <1>10, <1>11, <1>12, <1>13,
     <1>14, <1>15, <1>16, <1>17, <1>18, <1>19, <1>20, <1>21 DEF Next, Work, Terminated

\* Initially nothing has happened.
LEMMA InitialState ==
    ASSUME Init
    PROVE  /\ \A a \in Attempts : row[a] = NoRow
           /\ \A r \in Requests : /\ pc[r] = "idle" /\ file[r] = "absent"
                                  /\ answer[r] = "none" /\ seen[r] = NoRow
<1>1. \A a \in Attempts : row[a] = NoRow
  BY DEF Init
<1>2. \A r \in Requests : pc[r] = "idle" /\ answer[r] = "none"
  BY DEF Init
<1>3. \A r \in Requests : file[r] = "absent" /\ seen[r] = NoRow
  BY DEF Init
<1>. QED
  BY <1>1, <1>2, <1>3

LEMMA AlwaysWellTyped == Spec => []WellTyped
<1>1. Init => WellTyped
  <2> SUFFICES ASSUME Init PROVE WellTyped
      OBVIOUS
  <2>1. \A r \in Requests : pc[r] = "idle"
    BY DEF Init
  <2>. QED
    BY <2>1, InitTyped DEF WellTyped, Active, Holding
<1>. QED
  BY <1>1, StepWellTyped, PTL DEF Spec

\* In every reachable state every variable holds a value of its kind.
THEOREM Typed == Spec => []TypeOK
<1>1. WellTyped => TypeOK
  BY DEF WellTyped
<1>. QED
  BY <1>1, AlwaysWellTyped, PTL

--------------------------------------------------------------------------------
(* What a step may do to a row and to a request *)

\* A row changes only by being reserved, by its finalization, or by its failure, and the
\* audit event is written in the same step.
LEMMA RowStep ==
    ASSUME WellTyped, [Next]_vars, NEW a \in Attempts
    PROVE  \/ row'[a] = row[a] /\ audit'[a] = audit[a]
           \/ /\ row[a] = NoRow /\ row'[a] = GeneratingRow
              /\ audit'[a] = Append(audit[a], "reserved")
           \/ /\ row[a].status = "generating"
              /\ \E r \in Requests : /\ row'[a] = GeneratedRow(r) /\ pc[r] = "finalize"
                                     /\ attempt[r] = a /\ pc'[r] \in {"done", "cleanup"}
                                     /\ ~LostAck => pc'[r] = "done"
              /\ audit'[a] = Append(audit[a], "succeeded")
           \/ /\ row[a].status = "generating"
              /\ \E c \in Categories : row'[a] = FailedRow(c)
              /\ audit'[a] = Append(audit[a], "failed")
<1> DEFINE Goal == \/ row'[a] = row[a] /\ audit'[a] = audit[a]
                   \/ /\ row[a] = NoRow /\ row'[a] = GeneratingRow
                      /\ audit'[a] = Append(audit[a], "reserved")
                   \/ /\ row[a].status = "generating"
                      /\ \E r \in Requests : /\ row'[a] = GeneratedRow(r) /\ pc[r] = "finalize"
                                             /\ attempt[r] = a /\ pc'[r] \in {"done", "cleanup"}
                                             /\ ~LostAck => pc'[r] = "done"
                      /\ audit'[a] = Append(audit[a], "succeeded")
                   \/ /\ row[a].status = "generating"
                      /\ \E c \in Categories : row'[a] = FailedRow(c)
                      /\ audit'[a] = Append(audit[a], "failed")
<1>1. ASSUME UNCHANGED database PROVE Goal
  BY <1>1 DEF database
<1>2. ASSUME NEW b \in Attempts, Reserve(b) PROVE Goal
  BY <1>2 DEF Reserve, WellTyped, TypeOK
<1>3. ASSUME NEW r \in Requests, FinalizeCommit(r) PROVE Goal
  <2>1. CASE a = attempt[r]
    BY <1>3, <2>1 DEF FinalizeCommit, Finish, Raise, Goto, WellTyped, TypeOK
  <2>2. CASE a # attempt[r]
    BY <1>3, <2>2 DEF FinalizeCommit, WellTyped, TypeOK
  <2>. QED
    BY <2>1, <2>2
<1>4. ASSUME NEW r \in Requests, MarkCommit(r) PROVE Goal
  BY <1>4 DEF MarkCommit, WellTyped, TypeOK
<1>. QED
  BY <1>1, <1>2, <1>3, <1>4
     DEF Next, Work, Terminated, vars, database, Deny, Replay, Start, Prepare, OpenStage, Link,
         Unstage, Verify, FinalizeSettled, FinalizeRollback, Discard, Cleanup, MarkSettled,
         MarkError, Crash, WriteBack, ReclaimStage, HostFailure

\* A request keeps its attempt, never gets back before its finalization, and is over
\* once it has answered or died.
LEMMA RequestStep ==
    ASSUME WellTyped, [Next]_vars, NEW r \in Requests
    PROVE  /\ pc[r] # "idle" => attempt'[r] = attempt[r]
           /\ pc[r] \in Late => pc'[r] \in Late
           /\ pc[r] \in {"done", "crashed"} => /\ pc'[r] = pc[r]
                                              /\ answer'[r] = answer[r]
                                              /\ seen'[r] = seen[r]
<1> USE DEF WellTyped, TypeOK, Late, Goto, Finish, Raise, See, database, disk, local
<1> DEFINE Goal == /\ pc[r] # "idle" => attempt'[r] = attempt[r]
                   /\ pc[r] \in Late => pc'[r] \in Late
                   /\ pc[r] \in {"done", "crashed"} => /\ pc'[r] = pc[r]
                                                      /\ answer'[r] = answer[r]
                                                      /\ seen'[r] = seen[r]
<1>1. ASSUME NEW a \in Attempts, Reserve(a) PROVE Goal
  BY <1>1 DEF Reserve
<1>2. ASSUME NEW q \in Requests, NEW a \in Attempts, Deny(q, a) PROVE Goal
  BY <1>2 DEF Deny
<1>3. ASSUME NEW q \in Requests, NEW a \in Attempts, Replay(q, a) PROVE Goal
  BY <1>3 DEF Replay
<1>4. ASSUME NEW q \in Requests, NEW a \in Attempts, Start(q, a) PROVE Goal
  BY <1>4 DEF Start
<1>5. ASSUME NEW q \in Requests, Prepare(q) PROVE Goal
  BY <1>5 DEF Prepare
<1>6. ASSUME NEW q \in Requests, OpenStage(q) PROVE Goal
  BY <1>6 DEF OpenStage
<1>7. ASSUME NEW q \in Requests, Link(q) PROVE Goal
  BY <1>7 DEF Link
<1>8. ASSUME NEW q \in Requests, Unstage(q) PROVE Goal
  BY <1>8 DEF Unstage
<1>9. ASSUME NEW q \in Requests, Verify(q) PROVE Goal
  BY <1>9 DEF Verify
<1>10. ASSUME NEW q \in Requests, FinalizeCommit(q) PROVE Goal
  BY <1>10 DEF FinalizeCommit
<1>11. ASSUME NEW q \in Requests, FinalizeSettled(q) PROVE Goal
  BY <1>11 DEF FinalizeSettled
<1>12. ASSUME NEW q \in Requests, FinalizeRollback(q) PROVE Goal
  BY <1>12 DEF FinalizeRollback
<1>13. ASSUME NEW q \in Requests, Discard(q) PROVE Goal
  BY <1>13 DEF Discard, Erase
<1>14. ASSUME NEW q \in Requests, Cleanup(q) PROVE Goal
  BY <1>14 DEF Cleanup, Erase
<1>15. ASSUME NEW q \in Requests, MarkCommit(q) PROVE Goal
  BY <1>15 DEF MarkCommit
<1>16. ASSUME NEW q \in Requests, MarkSettled(q) PROVE Goal
  BY <1>16 DEF MarkSettled
<1>17. ASSUME NEW q \in Requests, MarkError(q) PROVE Goal
  BY <1>17 DEF MarkError
<1>18. ASSUME NEW q \in Requests, Crash(q) PROVE Goal
  BY <1>18 DEF Crash, Active, Holding
<1>19. ASSUME NEW q \in Requests, WriteBack(q) PROVE Goal
  BY <1>19 DEF WriteBack
<1>20. ASSUME NEW q \in Requests, ReclaimStage(q) PROVE Goal
  BY <1>20 DEF ReclaimStage
<1>21. ASSUME NEW lost \in SUBSET Requests, HostFailure(lost) PROVE Goal
  BY <1>21 DEF HostFailure, Active, Holding
<1>22. CASE UNCHANGED vars
  BY <1>22 DEF vars
<1>. QED
  BY <1>1, <1>2, <1>3, <1>4, <1>5, <1>6, <1>7, <1>8, <1>9, <1>10, <1>11,
     <1>12, <1>13, <1>14, <1>15, <1>16, <1>17, <1>18, <1>19, <1>20, <1>21, <1>22
     DEF Next, Work, Terminated

--------------------------------------------------------------------------------
(* History *)

\* A decided attempt is never rewritten, and no row is ever withdrawn.
THEOREM DecisionsStand == Spec => DecisionsAreFinal
<1>1. WellTyped /\ [Next]_vars => [RowsOnlyMoveForward]_vars
  <2> SUFFICES ASSUME WellTyped, [Next]_vars, NEW a \in Attempts
               PROVE  /\ row[a].status \in Terminal => row'[a] = row[a]
                      /\ row[a] # NoRow => row'[a] # NoRow
      BY DEF RowsOnlyMoveForward
  <2>. QED
    BY RowStep, RowFields DEF Terminal
<1>. QED
  BY <1>1, AlwaysWellTyped, PTL DEF Spec, DecisionsAreFinal

\* The audit trail of every attempt is exactly the history of its row.
THEOREM AuditIsHistory == Spec => []AuditMatchesRow
<1> DEFINE Trail(x) == CASE x.status = "none" -> <<>>
                          [] x.status = "generating" -> <<"reserved">>
                          [] x.status = "generated" -> <<"reserved", "succeeded">>
                          [] x.status = "failed" -> <<"reserved", "failed">>
<1>0. /\ Trail(NoRow) = <<>>
      /\ Trail(GeneratingRow) = Append(<<>>, "reserved")
      /\ \A r : Trail(GeneratedRow(r)) = Append(Trail(GeneratingRow), "succeeded")
      /\ \A c : Trail(FailedRow(c)) = Append(Trail(GeneratingRow), "failed")
  <2>1. Append(<<>>, "reserved") = <<"reserved">>
    OBVIOUS
  <2>2. Append(<<"reserved">>, "succeeded") = <<"reserved", "succeeded">>
    BY TwoEvents, Zenon
  <2>3. Append(<<"reserved">>, "failed") = <<"reserved", "failed">>
    BY TwoEvents, Zenon
  <2>. QED
    BY <2>1, <2>2, <2>3, RowFields
<1>1. AuditMatchesRow <=> \A a \in Attempts : audit[a] = Trail(row[a])
  BY Zenon DEF AuditMatchesRow
<1>2. AuditMatchesRow' <=> \A a \in Attempts : audit'[a] = Trail(row'[a])
  BY Zenon DEF AuditMatchesRow
<1> HIDE DEF Trail
<1>3. Init => AuditMatchesRow
  <2> SUFFICES ASSUME Init, NEW a \in Attempts PROVE audit[a] = Trail(row[a])
      BY <1>1
  <2>1. row[a] = NoRow
    BY DEF Init
  <2>2. audit = [b \in Attempts |-> <<>>]
    BY DEF Init
  <2>3. audit[a] = <<>>
    BY <2>2, Zenon
  <2>. QED
    BY <1>0, <2>1, <2>3
<1>4. WellTyped /\ AuditMatchesRow /\ [Next]_vars => AuditMatchesRow'
  <2> SUFFICES ASSUME WellTyped, AuditMatchesRow, [Next]_vars, NEW a \in Attempts
               PROVE  audit'[a] = Trail(row'[a])
      BY <1>2
  <2>1. audit[a] = Trail(row[a]) /\ row[a] \in Rows
    BY <1>1 DEF WellTyped, TypeOK
  <2>2. row[a].status = "generating" => row[a] = GeneratingRow
    BY <2>1, RowsByStatus
  <2>. QED
    BY <1>0, <2>1, <2>2, RowStep
<1>. QED
  BY <1>3, <1>4, AlwaysWellTyped, PTL DEF Spec

--------------------------------------------------------------------------------
(* The pipeline invariant, whatever faults occur *)

LEMMA StepKeysBelong == WellTyped /\ KeysBelong /\ [Next]_vars => KeysBelong'
<1> SUFFICES ASSUME WellTyped, KeysBelong, [Next]_vars,
                    NEW a \in Attempts, row'[a].status = "generated"
             PROVE  attempt'[row'[a].key] = a /\ pc'[row'[a].key] \in Late
    BY DEF KeysBelong
<1>1. CASE row'[a] = row[a]
  <2>1. attempt[row[a].key] = a /\ pc[row[a].key] \in Late /\ row[a].key \in Requests
    BY <1>1, RowsByStatus DEF KeysBelong, WellTyped, TypeOK
  <2>. QED
    BY <1>1, <2>1, RequestStep DEF Late
<1>2. CASE row'[a] # row[a]
  <2>1. PICK r \in Requests : /\ row'[a] = GeneratedRow(r) /\ pc[r] = "finalize"
                              /\ attempt[r] = a /\ pc'[r] \in {"done", "cleanup"}
    BY <1>2, RowStep, RowFields
  <2>. QED
    BY <2>1, RequestStep, RowFields DEF Late
<1>. QED
  BY <1>1, <1>2

LEMMA StepFilesAreTracked == WellTyped /\ FilesAreTracked /\ [Next]_vars => FilesAreTracked'
<1> SUFFICES ASSUME WellTyped, FilesAreTracked, [Next]_vars, NEW r \in Requests
             PROVE  /\ pc'[r] \in {"idle", "prepare", "stage", "link"} => file'[r] = "absent"
                    /\ pc'[r] = "link" \/ file'[r] # "absent" => r \in tracked'
    BY DEF FilesAreTracked
<1> USE DEF WellTyped, TypeOK, FilesAreTracked, Goto, Finish, Raise, See, database, disk, local
<1> DEFINE Goal == /\ pc'[r] \in {"idle", "prepare", "stage", "link"} => file'[r] = "absent"
                   /\ pc'[r] = "link" \/ file'[r] # "absent" => r \in tracked'
<1>1. ASSUME NEW a \in Attempts, Reserve(a) PROVE Goal
  BY <1>1 DEF Reserve
<1>2. ASSUME NEW q \in Requests, NEW a \in Attempts, Deny(q, a) PROVE Goal
  BY <1>2 DEF Deny
<1>3. ASSUME NEW q \in Requests, NEW a \in Attempts, Replay(q, a) PROVE Goal
  BY <1>3 DEF Replay
<1>4. ASSUME NEW q \in Requests, NEW a \in Attempts, Start(q, a) PROVE Goal
  BY <1>4 DEF Start
<1>5. ASSUME NEW q \in Requests, Prepare(q) PROVE Goal
  BY <1>5 DEF Prepare
<1>6. ASSUME NEW q \in Requests, OpenStage(q) PROVE Goal
  BY <1>6 DEF OpenStage
<1>7. ASSUME NEW q \in Requests, Link(q) PROVE Goal
  BY <1>7 DEF Link
<1>8. ASSUME NEW q \in Requests, Unstage(q) PROVE Goal
  BY <1>8 DEF Unstage
<1>9. ASSUME NEW q \in Requests, Verify(q) PROVE Goal
  BY <1>9 DEF Verify
<1>10. ASSUME NEW q \in Requests, FinalizeCommit(q) PROVE Goal
  BY <1>10 DEF FinalizeCommit
<1>11. ASSUME NEW q \in Requests, FinalizeSettled(q) PROVE Goal
  BY <1>11 DEF FinalizeSettled
<1>12. ASSUME NEW q \in Requests, FinalizeRollback(q) PROVE Goal
  BY <1>12 DEF FinalizeRollback
<1>13. ASSUME NEW q \in Requests, Discard(q) PROVE Goal
  BY <1>13 DEF Discard, Erase
<1>14. ASSUME NEW q \in Requests, Cleanup(q) PROVE Goal
  BY <1>14 DEF Cleanup, Erase
<1>15. ASSUME NEW q \in Requests, MarkCommit(q) PROVE Goal
  BY <1>15 DEF MarkCommit
<1>16. ASSUME NEW q \in Requests, MarkSettled(q) PROVE Goal
  BY <1>16 DEF MarkSettled
<1>17. ASSUME NEW q \in Requests, MarkError(q) PROVE Goal
  BY <1>17 DEF MarkError
<1>18. ASSUME NEW q \in Requests, Crash(q) PROVE Goal
  BY <1>18 DEF Crash, Active, Holding
<1>19. ASSUME NEW q \in Requests, WriteBack(q) PROVE Goal
  BY <1>19 DEF WriteBack
<1>20. ASSUME NEW q \in Requests, ReclaimStage(q) PROVE Goal
  BY <1>20 DEF ReclaimStage
<1>21. ASSUME NEW lost \in SUBSET Requests, HostFailure(lost) PROVE Goal
  BY <1>21 DEF HostFailure, Active, Holding
<1>22. CASE UNCHANGED vars
  BY <1>22 DEF vars
<1>. QED
  BY <1>1, <1>2, <1>3, <1>4, <1>5, <1>6, <1>7, <1>8, <1>9, <1>10, <1>11,
     <1>12, <1>13, <1>14, <1>15, <1>16, <1>17, <1>18, <1>19, <1>20, <1>21, <1>22
     DEF Next, Work, Terminated

LEMMA StepLosersHoldTheWinner ==
    WellTyped /\ LosersHoldTheWinner /\ [Next]_vars => LosersHoldTheWinner'
<1> SUFFICES ASSUME WellTyped, LosersHoldTheWinner, [Next]_vars,
                    NEW r \in Requests, pc'[r] = "discard"
             PROVE  seen'[r].status = "generated" /\ row'[attempt'[r]] = seen'[r]
    BY DEF LosersHoldTheWinner
<1> DEFINE Goal == \/ /\ pc[r] = "discard" /\ seen'[r] = seen[r]
                      /\ attempt'[r] = attempt[r]
                   \/ /\ row[attempt[r]].status = "generated" /\ seen'[r] = row[attempt[r]]
                      /\ attempt'[r] = attempt[r] /\ pc[r] = "finalize"
<1>0. Goal
  <2> USE DEF WellTyped, TypeOK, Goto, Finish, Raise, See, database, disk, local
  <2>1. ASSUME NEW a \in Attempts, Reserve(a) PROVE Goal
    BY <2>1 DEF Reserve
  <2>2. ASSUME NEW q \in Requests, NEW a \in Attempts, Deny(q, a) PROVE Goal
    BY <2>2 DEF Deny
  <2>3. ASSUME NEW q \in Requests, NEW a \in Attempts, Replay(q, a) PROVE Goal
    BY <2>3 DEF Replay
  <2>4. ASSUME NEW q \in Requests, NEW a \in Attempts, Start(q, a) PROVE Goal
    BY <2>4 DEF Start
  <2>5. ASSUME NEW q \in Requests, Prepare(q) PROVE Goal
    BY <2>5 DEF Prepare
  <2>6. ASSUME NEW q \in Requests, OpenStage(q) PROVE Goal
    BY <2>6 DEF OpenStage
  <2>7. ASSUME NEW q \in Requests, Link(q) PROVE Goal
    BY <2>7 DEF Link
  <2>8. ASSUME NEW q \in Requests, Unstage(q) PROVE Goal
    BY <2>8 DEF Unstage
  <2>9. ASSUME NEW q \in Requests, Verify(q) PROVE Goal
    BY <2>9 DEF Verify
  <2>10. ASSUME NEW q \in Requests, FinalizeCommit(q) PROVE Goal
    BY <2>10 DEF FinalizeCommit
  <2>11. ASSUME NEW q \in Requests, FinalizeSettled(q) PROVE Goal
    BY <2>11 DEF FinalizeSettled
  <2>12. ASSUME NEW q \in Requests, FinalizeRollback(q) PROVE Goal
    BY <2>12 DEF FinalizeRollback
  <2>13. ASSUME NEW q \in Requests, Discard(q) PROVE Goal
    BY <2>13 DEF Discard, Erase
  <2>14. ASSUME NEW q \in Requests, Cleanup(q) PROVE Goal
    BY <2>14 DEF Cleanup, Erase
  <2>15. ASSUME NEW q \in Requests, MarkCommit(q) PROVE Goal
    BY <2>15 DEF MarkCommit
  <2>16. ASSUME NEW q \in Requests, MarkSettled(q) PROVE Goal
    BY <2>16 DEF MarkSettled
  <2>17. ASSUME NEW q \in Requests, MarkError(q) PROVE Goal
    BY <2>17 DEF MarkError
  <2>18. ASSUME NEW q \in Requests, Crash(q) PROVE Goal
    BY <2>18 DEF Crash, Active, Holding
  <2>19. ASSUME NEW q \in Requests, WriteBack(q) PROVE Goal
    BY <2>19 DEF WriteBack
  <2>20. ASSUME NEW q \in Requests, ReclaimStage(q) PROVE Goal
    BY <2>20 DEF ReclaimStage
  <2>21. ASSUME NEW lost \in SUBSET Requests, HostFailure(lost) PROVE Goal
    BY <2>21 DEF HostFailure, Active, Holding
  <2>22. CASE UNCHANGED vars
    BY <2>22 DEF vars
  <2>. QED
    BY <2>1, <2>2, <2>3, <2>4, <2>5, <2>6, <2>7, <2>8, <2>9, <2>10, <2>11,
       <2>12, <2>13, <2>14, <2>15, <2>16, <2>17, <2>18, <2>19, <2>20, <2>21, <2>22
       DEF Next, Work, Terminated
<1>1. attempt[r] \in Attempts
  BY <1>0 DEF WellTyped, Active, Holding
<1>2. row[attempt[r]].status = "generated" /\ seen'[r] = row[attempt[r]]
  BY <1>0 DEF LosersHoldTheWinner
<1>3. row'[attempt[r]] = row[attempt[r]]
  BY <1>1, <1>2, RowStep, RowFields
<1>. QED
  BY <1>0, <1>2, <1>3

LEMMA AlwaysPipelineInv == Spec => []PipelineInv
<1>1. Init => KeysBelong /\ FilesAreTracked /\ LosersHoldTheWinner
  BY InitialState, RowFields DEF KeysBelong, FilesAreTracked, LosersHoldTheWinner
<1>. QED
  BY <1>1, AlwaysWellTyped, StepKeysBelong, StepFilesAreTracked, StepLosersHoldTheWinner, PTL
     DEF Spec, PipelineInv

--------------------------------------------------------------------------------
(* What callers are told *)

\* A step that answers a request answers it with the committed row.
LEMMA AnswerStep ==
    ASSUME Unsuited = {}, PipelineInv, [Next]_vars, NEW r \in Requests
    PROVE  \/ answer'[r] = answer[r]
           \/ pc'[r] = "done" /\ answer'[r] \in {"denied", "error"}
           \/ /\ pc'[r] = "done" /\ attempt'[r] \in Attempts
              /\ row'[attempt'[r]] = seen'[r]
              /\ \/ answer'[r] = "returned" /\ seen'[r].status = "generated"
                 \/ answer'[r] = "raised" /\ seen'[r].status = "failed"
<1> DEFINE Goal == \/ answer'[r] = answer[r]
                   \/ pc'[r] = "done" /\ answer'[r] \in {"denied", "error"}
                   \/ /\ pc'[r] = "done" /\ attempt'[r] \in Attempts
                      /\ row'[attempt'[r]] = seen'[r]
                      /\ \/ answer'[r] = "returned" /\ seen'[r].status = "generated"
                         \/ answer'[r] = "raised" /\ seen'[r].status = "failed"
<1>0. WellTyped /\ LosersHoldTheWinner
  BY DEF PipelineInv
<1> USE <1>0, RowFields
    DEF WellTyped, TypeOK, Active, Holding, Terminal, Goto, Finish, Raise, See, database, disk, local
<1>1. ASSUME NEW a \in Attempts, Reserve(a) PROVE Goal
  BY <1>1 DEF Reserve
<1>2. ASSUME NEW q \in Requests, NEW a \in Attempts, Deny(q, a) PROVE Goal
  BY <1>2 DEF Deny
<1>3. ASSUME NEW q \in Requests, NEW a \in Attempts, Replay(q, a) PROVE Goal
  BY <1>3 DEF Replay
<1>4. ASSUME NEW q \in Requests, NEW a \in Attempts, Start(q, a) PROVE Goal
  BY <1>4 DEF Start
<1>5. ASSUME NEW q \in Requests, Prepare(q) PROVE Goal
  BY <1>5 DEF Prepare
<1>6. ASSUME NEW q \in Requests, OpenStage(q) PROVE Goal
  BY <1>6 DEF OpenStage
<1>7. ASSUME NEW q \in Requests, Link(q) PROVE Goal
  BY <1>7 DEF Link
<1>8. ASSUME NEW q \in Requests, Unstage(q) PROVE Goal
  BY <1>8 DEF Unstage
<1>9. ASSUME NEW q \in Requests, Verify(q) PROVE Goal
  BY <1>9 DEF Verify
<1>10. ASSUME NEW q \in Requests, FinalizeCommit(q) PROVE Goal
  <2>1. CASE q # r
    BY <1>10, <2>1 DEF FinalizeCommit
  <2>2. CASE q = r
    <3>1. attempt[r] \in Attempts /\ attempt'[r] = attempt[r]
          /\ row'[attempt[r]] = GeneratedRow(q)
      BY <1>10, <2>2 DEF FinalizeCommit
    <3>2. GeneratedRow(q).status = "generated"
      BY RowFields
    <3>3. \/ answer'[r] = answer[r]
          \/ pc'[r] = "done" /\ answer'[r] = "error"
          \/ seen'[r] = GeneratedRow(q) /\ pc'[r] = "done" /\ answer'[r] = "returned"
      BY <1>10, <2>2 DEF FinalizeCommit
    <3>. QED
      BY <2>2, <3>1, <3>2, <3>3
  <2>. QED
    BY <2>1, <2>2
<1>11. ASSUME NEW q \in Requests, FinalizeSettled(q) PROVE Goal
  BY <1>11 DEF FinalizeSettled
<1>12. ASSUME NEW q \in Requests, FinalizeRollback(q) PROVE Goal
  BY <1>12 DEF FinalizeRollback
<1>13. ASSUME NEW q \in Requests, Discard(q) PROVE Goal
  BY <1>13 DEF Discard, Erase, LosersHoldTheWinner
<1>14. ASSUME NEW q \in Requests, Cleanup(q) PROVE Goal
  BY <1>14 DEF Cleanup, Erase
<1>15. ASSUME NEW q \in Requests, MarkCommit(q) PROVE Goal
  <2>1. CASE q # r
    BY <1>15, <2>1 DEF MarkCommit
  <2>2. CASE q = r
    <3>1. attempt[r] \in Attempts /\ attempt'[r] = attempt[r]
          /\ row'[attempt[r]] = FailedRow(category[q])
      BY <1>15, <2>2 DEF MarkCommit
    <3>2. FailedRow(category[q]).status = "failed"
      BY RowFields
    <3>3. \/ answer'[r] = answer[r]
          \/ pc'[r] = "done" /\ answer'[r] = "error"
          \/ seen'[r] = FailedRow(category[q]) /\ pc'[r] = "done" /\ answer'[r] = "raised"
      BY <1>15, <2>2 DEF MarkCommit
    <3>. QED
      BY <2>2, <3>1, <3>2, <3>3
  <2>. QED
    BY <2>1, <2>2
<1>16. ASSUME NEW q \in Requests, MarkSettled(q) PROVE Goal
  BY <1>16 DEF MarkSettled
<1>17. ASSUME NEW q \in Requests, MarkError(q) PROVE Goal
  BY <1>17 DEF MarkError
<1>18. ASSUME NEW q \in Requests, Crash(q) PROVE Goal
  BY <1>18 DEF Crash, Active, Holding
<1>19. ASSUME NEW q \in Requests, WriteBack(q) PROVE Goal
  BY <1>19 DEF WriteBack
<1>20. ASSUME NEW q \in Requests, ReclaimStage(q) PROVE Goal
  BY <1>20 DEF ReclaimStage
<1>21. ASSUME NEW lost \in SUBSET Requests, HostFailure(lost) PROVE Goal
  BY <1>21 DEF HostFailure, Active, Holding
<1>22. CASE UNCHANGED vars
  BY <1>22 DEF vars
<1>. QED
  BY <1>1, <1>2, <1>3, <1>4, <1>5, <1>6, <1>7, <1>8, <1>9, <1>10, <1>11,
     <1>12, <1>13, <1>14, <1>15, <1>16, <1>17, <1>18, <1>19, <1>20, <1>21, <1>22
     DEF Next, Work, Terminated

\* Only a request that is over has been answered, and it had an attempt.
Answered == \A r \in Requests :
               /\ answer[r] # "none" => pc[r] = "done"
               /\ answer[r] \in {"returned", "raised"} => attempt[r] \in Attempts

LEMMA AlwaysAnswered ==
    ASSUME Unsuited = {} PROVE Spec => [](ResponseIsCommitted /\ Answered)
<1>1. Init => ResponseIsCommitted /\ Answered
  BY InitialState DEF ResponseIsCommitted, Answered
<1>2. PipelineInv /\ ResponseIsCommitted /\ Answered /\ [Next]_vars
         => ResponseIsCommitted' /\ Answered'
  <2> SUFFICES ASSUME PipelineInv, ResponseIsCommitted, Answered, [Next]_vars, NEW r \in Requests
               PROVE  /\ answer'[r] = "returned" => /\ seen'[r].status = "generated"
                                                    /\ row'[attempt'[r]] = seen'[r]
                      /\ answer'[r] = "raised" => /\ seen'[r].status = "failed"
                                                  /\ row'[attempt'[r]] = seen'[r]
                      /\ answer'[r] # "none" => pc'[r] = "done"
                      /\ answer'[r] \in {"returned", "raised"} => attempt'[r] \in Attempts
      BY DEF ResponseIsCommitted, Answered
  <2>0. WellTyped
    BY DEF PipelineInv
  <2>1. CASE answer'[r] = answer[r] /\ answer[r] \in {"returned", "raised"}
    <3>1. /\ pc[r] = "done" /\ attempt[r] \in Attempts
          /\ row[attempt[r]] = seen[r] /\ seen[r].status \in {"generated", "failed"}
          /\ answer[r] = "returned" => seen[r].status = "generated"
          /\ answer[r] = "raised" => seen[r].status = "failed"
      BY <2>1 DEF ResponseIsCommitted, Answered
    <3>2. pc'[r] = "done" /\ attempt'[r] = attempt[r] /\ seen'[r] = seen[r]
      BY <2>0, <3>1, RequestStep
    <3>3. row'[attempt[r]] = row[attempt[r]]
      BY <2>0, <3>1, RowStep, RowFields
    <3>. QED
      BY <2>1, <3>1, <3>2, <3>3
  <2>2. CASE answer'[r] = answer[r] /\ answer[r] \notin {"returned", "raised"}
    BY <2>0, <2>2, RequestStep DEF Answered
  <2>3. CASE answer'[r] # answer[r]
    BY <2>3, AnswerStep
  <2>. QED
    BY <2>1, <2>2, <2>3
<1>. QED
  BY <1>1, <1>2, AlwaysPipelineInv, PTL DEF Spec

\* When every process has the private storage, a caller is told the committed outcome
\* of its attempt, whichever request decided it and whatever faults occur.
THEOREM ResponsesAreCommitted ==
    ASSUME Unsuited = {} PROVE Spec => []ResponseIsCommitted
BY AlwaysAnswered, PTL

--------------------------------------------------------------------------------
(* Files *)

\* Whatever faults occur, a final file that no generated row names belongs to a request
\* that still holds it, was killed, or could not delete it.
THEOREM OrphansAreExplained == Spec => []OrphanIsExplained
<1>1. Init => OrphanIsExplained
  BY InitialState DEF OrphanIsExplained
<1>2. PipelineInv /\ OrphanIsExplained /\ [Next]_vars => OrphanIsExplained'
  <2> DEFINE Published(r) == \E a \in Attempts : row[a] = GeneratedRow(r)
  <2> SUFFICES ASSUME PipelineInv, OrphanIsExplained, [Next]_vars, NEW r \in Requests,
                      file'[r] # "absent"
               PROVE  \/ Published(r)'
                      \/ pc'[r] \in Holding \cup {"crashed"}
                      \/ r \in leftover'
      BY DEF OrphanIsExplained
  <2>0. WellTyped /\ FilesAreTracked
    BY DEF PipelineInv
  <2>1. CASE Published(r)
    <3>1. PICK a \in Attempts : row[a] = GeneratedRow(r)
      BY <2>1
    <3>2. row'[a] = GeneratedRow(r)
      BY <2>0, <3>1, RowStep, RowFields
    <3>. QED
      BY <3>2
  <2>2. CASE ~Published(r)
    <3>0. file[r] # "absent" => pc[r] \in Holding \cup {"crashed"} \/ r \in leftover
      BY <2>2 DEF OrphanIsExplained
    <3> HIDE DEF Published
    <3> DEFINE Goal == \/ Published(r)'
                       \/ pc'[r] \in Holding \cup {"crashed"}
                       \/ r \in leftover'
    <3>a. ASSUME NEW q \in Requests, FinalizeCommit(q), q = r PROVE Published(r)'
      <4>1. attempt[r] \in Attempts
        BY <2>0, <3>a DEF FinalizeCommit, WellTyped, Active, Holding
      <4>2. row'[attempt[r]] = GeneratedRow(r)
        BY <2>0, <3>a, <4>1 DEF FinalizeCommit, WellTyped, TypeOK
      <4>. QED
        BY <4>1, <4>2 DEF Published
    <3> USE <2>0, <3>0 DEF WellTyped, TypeOK, FilesAreTracked, Holding,
                           Goto, Finish, Raise, See, database, disk, local
    <3>1. ASSUME NEW a \in Attempts, Reserve(a) PROVE Goal
      BY <3>1 DEF Reserve
    <3>2. ASSUME NEW q \in Requests, NEW a \in Attempts, Deny(q, a) PROVE Goal
      BY <3>2 DEF Deny
    <3>3. ASSUME NEW q \in Requests, NEW a \in Attempts, Replay(q, a) PROVE Goal
      BY <3>3 DEF Replay
    <3>4. ASSUME NEW q \in Requests, NEW a \in Attempts, Start(q, a) PROVE Goal
      BY <3>4 DEF Start
    <3>5. ASSUME NEW q \in Requests, Prepare(q) PROVE Goal
      BY <3>5 DEF Prepare
    <3>6. ASSUME NEW q \in Requests, OpenStage(q) PROVE Goal
      BY <3>6 DEF OpenStage
    <3>7. ASSUME NEW q \in Requests, Link(q) PROVE Goal
      BY <3>7 DEF Link
    <3>8. ASSUME NEW q \in Requests, Unstage(q) PROVE Goal
      BY <3>8 DEF Unstage
    <3>9. ASSUME NEW q \in Requests, Verify(q) PROVE Goal
      BY <3>9 DEF Verify
    <3>10. ASSUME NEW q \in Requests, FinalizeCommit(q) PROVE Goal
      BY <3>10, <3>a DEF FinalizeCommit
    <3>11. ASSUME NEW q \in Requests, FinalizeSettled(q) PROVE Goal
      BY <3>11 DEF FinalizeSettled
    <3>12. ASSUME NEW q \in Requests, FinalizeRollback(q) PROVE Goal
      BY <3>12 DEF FinalizeRollback
    <3>13. ASSUME NEW q \in Requests, Discard(q) PROVE Goal
      BY <3>13 DEF Discard, Erase
    <3>14. ASSUME NEW q \in Requests, Cleanup(q) PROVE Goal
      BY <3>14 DEF Cleanup, Erase
    <3>15. ASSUME NEW q \in Requests, MarkCommit(q) PROVE Goal
      BY <3>15 DEF MarkCommit
    <3>16. ASSUME NEW q \in Requests, MarkSettled(q) PROVE Goal
      BY <3>16 DEF MarkSettled
    <3>17. ASSUME NEW q \in Requests, MarkError(q) PROVE Goal
      BY <3>17 DEF MarkError
    <3>18. ASSUME NEW q \in Requests, Crash(q) PROVE Goal
      BY <3>18 DEF Crash, Active, Holding
    <3>19. ASSUME NEW q \in Requests, WriteBack(q) PROVE Goal
      BY <3>19 DEF WriteBack
    <3>20. ASSUME NEW q \in Requests, ReclaimStage(q) PROVE Goal
      BY <3>20 DEF ReclaimStage
    <3>21. ASSUME NEW lost \in SUBSET Requests, HostFailure(lost) PROVE Goal
      BY <3>21 DEF HostFailure, Active, Holding
    <3>22. CASE UNCHANGED vars
      BY <3>22 DEF vars
    <3>. QED
      BY <3>1, <3>2, <3>3, <3>4, <3>5, <3>6, <3>7, <3>8, <3>9, <3>10, <3>11,
         <3>12, <3>13, <3>14, <3>15, <3>16, <3>17, <3>18, <3>19, <3>20, <3>21, <3>22
         DEF Next, Work, Terminated
  <2>. QED
    BY <2>1, <2>2
<1>. QED
  BY <1>1, <1>2, AlwaysPipelineInv, PTL DEF Spec

\* Without host failures only its own request touches a final file, and not once it is over.
LEMMA FileStep ==
    ASSUME ~HostLoss, WellTyped, [Next]_vars, NEW r \in Requests
    PROVE  /\ pc[r] \in {"done", "crashed"} => file'[r] = file[r]
           /\ pc[r] = "finalize" => file'[r] = file[r]
           /\ pc'[r] = "finalize" => pc[r] = "finalize" \/ file'[r] = "intact"
<1> USE DEF WellTyped, TypeOK, Goto, Finish, Raise, See, database, disk, local
<1> DEFINE Goal == /\ pc[r] \in {"done", "crashed"} => file'[r] = file[r]
                   /\ pc[r] = "finalize" => file'[r] = file[r]
                   /\ pc'[r] = "finalize" => pc[r] = "finalize" \/ file'[r] = "intact"
<1>1. ASSUME NEW a \in Attempts, Reserve(a) PROVE Goal
  BY <1>1 DEF Reserve
<1>2. ASSUME NEW q \in Requests, NEW a \in Attempts, Deny(q, a) PROVE Goal
  BY <1>2 DEF Deny
<1>3. ASSUME NEW q \in Requests, NEW a \in Attempts, Replay(q, a) PROVE Goal
  BY <1>3 DEF Replay
<1>4. ASSUME NEW q \in Requests, NEW a \in Attempts, Start(q, a) PROVE Goal
  BY <1>4 DEF Start
<1>5. ASSUME NEW q \in Requests, Prepare(q) PROVE Goal
  BY <1>5 DEF Prepare
<1>6. ASSUME NEW q \in Requests, OpenStage(q) PROVE Goal
  BY <1>6 DEF OpenStage
<1>7. ASSUME NEW q \in Requests, Link(q) PROVE Goal
  BY <1>7 DEF Link
<1>8. ASSUME NEW q \in Requests, Unstage(q) PROVE Goal
  BY <1>8 DEF Unstage
<1>9. ASSUME NEW q \in Requests, Verify(q) PROVE Goal
  BY <1>9 DEF Verify
<1>10. ASSUME NEW q \in Requests, FinalizeCommit(q) PROVE Goal
  BY <1>10 DEF FinalizeCommit
<1>11. ASSUME NEW q \in Requests, FinalizeSettled(q) PROVE Goal
  BY <1>11 DEF FinalizeSettled
<1>12. ASSUME NEW q \in Requests, FinalizeRollback(q) PROVE Goal
  BY <1>12 DEF FinalizeRollback
<1>13. ASSUME NEW q \in Requests, Discard(q) PROVE Goal
  BY <1>13 DEF Discard, Erase
<1>14. ASSUME NEW q \in Requests, Cleanup(q) PROVE Goal
  BY <1>14 DEF Cleanup, Erase
<1>15. ASSUME NEW q \in Requests, MarkCommit(q) PROVE Goal
  BY <1>15 DEF MarkCommit
<1>16. ASSUME NEW q \in Requests, MarkSettled(q) PROVE Goal
  BY <1>16 DEF MarkSettled
<1>17. ASSUME NEW q \in Requests, MarkError(q) PROVE Goal
  BY <1>17 DEF MarkError
<1>18. ASSUME NEW q \in Requests, Crash(q) PROVE Goal
  BY <1>18 DEF Crash, Active, Holding
<1>19. ASSUME NEW q \in Requests, WriteBack(q) PROVE Goal
  BY <1>19 DEF WriteBack
<1>20. ASSUME NEW q \in Requests, ReclaimStage(q) PROVE Goal
  BY <1>20 DEF ReclaimStage
<1>21. ASSUME NEW lost \in SUBSET Requests, HostFailure(lost) PROVE Goal
  BY <1>21 DEF HostFailure, Active, Holding
<1>22. CASE UNCHANGED vars
  BY <1>22 DEF vars
<1>. QED
  BY <1>1, <1>2, <1>3, <1>4, <1>5, <1>6, <1>7, <1>8, <1>9, <1>10, <1>11,
     <1>12, <1>13, <1>14, <1>15, <1>16, <1>17, <1>18, <1>19, <1>20, <1>21, <1>22
     DEF Next, Work, Terminated

LEMMA AlwaysArtifactInv ==
    ASSUME ~LostAck, ~HostLoss PROVE Spec => []ArtifactInv
<1>1. Init => ArtifactInv
  BY InitialState, RowFields DEF ArtifactInv
<1>2. PipelineInv /\ ArtifactInv /\ [Next]_vars => ArtifactInv'
  <2> SUFFICES ASSUME PipelineInv, ArtifactInv, [Next]_vars PROVE ArtifactInv'
      OBVIOUS
  <2>0. WellTyped
    BY DEF PipelineInv
  <2>1. ASSUME NEW r \in Requests, pc'[r] = "finalize" PROVE file'[r] = "intact"
    BY <2>0, <2>1, FileStep DEF ArtifactInv
  <2>2. ASSUME NEW a \in Attempts, row'[a].status = "generated"
        PROVE  file'[row'[a].key] = "intact" /\ pc'[row'[a].key] \in {"done", "crashed"}
    <3>1. CASE row'[a] = row[a]
      <4>1. /\ row[a].key \in Requests
            /\ file[row[a].key] = "intact" /\ pc[row[a].key] \in {"done", "crashed"}
        BY <2>0, <2>2, <3>1, RowsByStatus DEF ArtifactInv, WellTyped, TypeOK
      <4>. QED
        BY <2>0, <3>1, <4>1, FileStep, RequestStep
    <3>2. CASE row'[a] # row[a]
      <4>1. PICK r \in Requests :
               row'[a] = GeneratedRow(r) /\ pc[r] = "finalize" /\ pc'[r] = "done"
        BY <2>0, <2>2, <3>2, RowStep, RowFields
      <4>. QED
        BY <2>0, <4>1, FileStep, RowFields DEF ArtifactInv
    <3>. QED
      BY <3>1, <3>2
  <2>. QED
    BY <2>1, <2>2 DEF ArtifactInv
<1>. QED
  BY <1>1, <1>2, AlwaysPipelineInv, PTL DEF Spec

\* Unless a commit acknowledgement or a directory entry is lost, a generated row always
\* names a file with the recorded bytes.
THEOREM GeneratedKeepsItsArtifact ==
    ASSUME ~LostAck, ~HostLoss PROVE Spec => []GeneratedHasArtifact
<1>1. ArtifactInv => GeneratedHasArtifact
  BY DEF ArtifactInv, GeneratedHasArtifact
<1>. QED
  BY <1>1, AlwaysArtifactInv, PTL

--------------------------------------------------------------------------------
(* Refinement *)

\* An undecided, published or failed row looks so to the outside.
LEMMA OutcomeShapes ==
    ASSUME WellTyped, ArtifactInv, NEW a \in Attempts
    PROVE  /\ row[a] = NoRow => OutcomeOf(row[a]) = Lifecycle!Absent
           /\ row[a] = GeneratingRow => OutcomeOf(row[a]) = Lifecycle!Pending
           /\ \A r : row[a] = GeneratedRow(r) => OutcomeOf(row[a]) = Lifecycle!Published(r)
           /\ \A c : row[a] = FailedRow(c) => OutcomeOf(row[a]) = Lifecycle!Failed(c)
<1>1. row[a] = NoRow => OutcomeOf(row[a]) = Lifecycle!Absent
  BY RowFields DEF OutcomeOf, Lifecycle!Absent
<1>2. row[a] = GeneratingRow => OutcomeOf(row[a]) = Lifecycle!Pending
  BY RowFields DEF OutcomeOf, Lifecycle!Pending
<1>3. ASSUME NEW r, row[a] = GeneratedRow(r) PROVE OutcomeOf(row[a]) = Lifecycle!Published(r)
  <2>1. file[r] = "intact"
    BY <1>3, RowFields DEF ArtifactInv
  <2>. QED
    BY <1>3, <2>1, RowFields DEF OutcomeOf, Lifecycle!Published
<1>4. ASSUME NEW c, row[a] = FailedRow(c) PROVE OutcomeOf(row[a]) = Lifecycle!Failed(c)
  BY <1>4, RowFields DEF OutcomeOf, Lifecycle!Failed
<1>. QED
  BY <1>1, <1>2, <1>3, <1>4

\* The same in the next state.
LEMMA OutcomeShapesNext ==
    ASSUME WellTyped', ArtifactInv', NEW a \in Attempts
    PROVE  /\ row'[a] = NoRow => OutcomeOf(row[a])' = Lifecycle!Absent
           /\ row'[a] = GeneratingRow => OutcomeOf(row[a])' = Lifecycle!Pending
           /\ \A r : row'[a] = GeneratedRow(r) => OutcomeOf(row[a])' = Lifecycle!Published(r)
           /\ \A c : row'[a] = FailedRow(c) => OutcomeOf(row[a])' = Lifecycle!Failed(c)
<1>1. row'[a] = NoRow => OutcomeOf(row[a])' = Lifecycle!Absent
  BY RowFields DEF OutcomeOf, Lifecycle!Absent
<1>2. row'[a] = GeneratingRow => OutcomeOf(row[a])' = Lifecycle!Pending
  BY RowFields DEF OutcomeOf, Lifecycle!Pending
<1>3. ASSUME NEW r, row'[a] = GeneratedRow(r) PROVE OutcomeOf(row[a])' = Lifecycle!Published(r)
  <2>1. file'[r] = "intact"
    BY <1>3, RowFields DEF ArtifactInv
  <2>. QED
    BY <1>3, <2>1, RowFields DEF OutcomeOf, Lifecycle!Published
<1>4. ASSUME NEW c, row'[a] = FailedRow(c) PROVE OutcomeOf(row[a])' = Lifecycle!Failed(c)
  BY <1>4, RowFields DEF OutcomeOf, Lifecycle!Failed
<1>. QED
  BY <1>1, <1>2, <1>3, <1>4

\* What has not changed in the database looks the same to the outside.
LEMMA SameRowSameOutcome ==
    ASSUME WellTyped, WellTyped', ArtifactInv, ArtifactInv', NEW a \in Attempts, row'[a] = row[a]
    PROVE  OutcomeOf(row[a])' = OutcomeOf(row[a])
<1>1. \/ row[a] = NoRow \/ row[a] = GeneratingRow
      \/ row[a] = GeneratedRow(row[a].key) \/ row[a] = FailedRow(row[a].category)
  BY RowsByStatus DEF WellTyped, TypeOK
<1>. QED
  BY <1>1, OutcomeShapes, OutcomeShapesNext

RefinementInv == PipelineInv /\ ArtifactInv /\ ResponseIsCommitted /\ Answered

\* A request is answered at most once, and hears nothing before that.
LEMMA HeardOnce ==
    ASSUME Unsuited = {}, RefinementInv, [Next]_vars, NEW r \in Requests
    PROVE  /\ answer'[r] = answer[r] \/ answer'[r] \in {"denied", "error"}
                  => HeardBy(r)' = HeardBy(r)
           /\ answer'[r] # answer[r] => HeardBy(r) = Lifecycle!Absent
<1>0. WellTyped /\ Answered
  BY DEF RefinementInv, PipelineInv
<1>1. answer'[r] # answer[r] => answer[r] = "none"
  BY <1>0, RequestStep DEF Answered
<1>2. answer[r] = "none" => HeardBy(r) = Lifecycle!Absent
  BY DEF HeardBy, Lifecycle!Absent
<1>3. answer'[r] \in {"denied", "error"} => HeardBy(r)' = Lifecycle!Absent
  BY DEF HeardBy, Lifecycle!Absent
<1>4. answer'[r] = answer[r] => HeardBy(r)' = HeardBy(r)
  <2>1. CASE answer[r] \in {"returned", "raised"}
    BY <1>0, <2>1, RequestStep DEF Answered, HeardBy
  <2>2. CASE answer[r] \notin {"returned", "raised"}
    BY <2>2 DEF HeardBy
  <2>. QED
    BY <2>1, <2>2
<1>. QED
  BY <1>1, <1>2, <1>3, <1>4

\* Whoever is answered with a result hears the outcome of the attempt.
LEMMA HearsTheOutcome ==
    ASSUME Unsuited = {}, RefinementInv, RefinementInv', [Next]_vars, NEW r \in Requests,
           answer'[r] # answer[r], answer'[r] \notin {"denied", "error"}
    PROVE  \E a \in Attempts : /\ a = attempt'[r]
                              /\ HeardBy(r)' = OutcomeOf(row[a])'
                              /\ HeardBy(r)' \in Lifecycle!Decisions
<1>0. WellTyped' /\ ArtifactInv'
  BY DEF RefinementInv, PipelineInv
<1>1. PICK a \in Attempts :
         /\ a = attempt'[r]
         /\ row'[a] = seen'[r]
         /\ \/ answer'[r] = "returned" /\ seen'[r].status = "generated"
            \/ answer'[r] = "raised" /\ seen'[r].status = "failed"
  BY AnswerStep DEF RefinementInv
<1>2. seen'[r] \in Rows
  BY <1>0 DEF WellTyped, TypeOK
<1>3. CASE answer'[r] = "returned"
  <2>1. seen'[r].key \in Requests /\ row'[a] = GeneratedRow(seen'[r].key)
    BY <1>1, <1>2, <1>3, RowsByStatus
  <2>2. OutcomeOf(row[a])' = Lifecycle!Published(seen'[r].key)
    BY <1>0, <2>1, OutcomeShapesNext
  <2>3. HeardBy(r)' = Lifecycle!Published(seen'[r].key)
    BY <1>3 DEF HeardBy, Lifecycle!Published
  <2>. QED
    BY <1>1, <2>1, <2>2, <2>3 DEF Lifecycle!Decisions
<1>4. CASE answer'[r] = "raised"
  <2>1. seen'[r].category \in Categories /\ row'[a] = FailedRow(seen'[r].category)
    BY <1>1, <1>2, <1>4, RowsByStatus
  <2>2. OutcomeOf(row[a])' = Lifecycle!Failed(seen'[r].category)
    BY <1>0, <2>1, OutcomeShapesNext
  <2>3. HeardBy(r)' = Lifecycle!Failed(seen'[r].category)
    BY <1>4 DEF HeardBy, Lifecycle!Failed
  <2>. QED
    BY <1>1, <2>1, <2>2, <2>3 DEF Lifecycle!Decisions
<1>. QED
  BY <1>1, <1>3, <1>4

\* A step that decides nothing is a step in which at most one request is told something.
LEMMA QuietStepImplements ==
    ASSUME Unsuited = {}, RefinementInv, RefinementInv', [Next]_vars, row' = row,
           NEW r \in Requests, \A q \in Requests \ {r} : answer'[q] = answer[q]
    PROVE  [Lifecycle!ANext]_(Lifecycle!avars)
<1> DEFINE O == [a \in Attempts |-> OutcomeOf(row[a])]
           H == [q \in Requests |-> HeardBy(q)]
<1>0. WellTyped /\ ArtifactInv /\ WellTyped' /\ ArtifactInv'
  BY DEF RefinementInv, PipelineInv
<1>1. \A a \in Attempts : OutcomeOf(row[a])' = OutcomeOf(row[a])
  BY <1>0, SameRowSameOutcome
<1>2. O' = O
  BY <1>1
<1>3. \A q \in Requests \ {r} : HeardBy(q)' = HeardBy(q)
  BY HeardOnce
<1>4. CASE answer'[r] = answer[r] \/ answer'[r] \in {"denied", "error"}
  <2>1. \A q \in Requests : HeardBy(q)' = HeardBy(q)
    BY <1>3, <1>4, HeardOnce
  <2>2. H' = H
    BY <2>1
  <2>. QED
    BY <1>2, <2>2 DEF Lifecycle!avars
<1>5. CASE answer'[r] # answer[r] /\ answer'[r] \notin {"denied", "error"}
  <2>1. PICK a \in Attempts : /\ HeardBy(r)' = OutcomeOf(row[a])'
                              /\ HeardBy(r)' \in Lifecycle!Decisions
    BY <1>5, HearsTheOutcome
  <2>2. HeardBy(r) = Lifecycle!Absent
    BY <1>5, HeardOnce
  <2>3. H' = [H EXCEPT ![r] = O[a]]
    BY <1>1, <1>3, <2>1
  <2>4. O[a] \in Lifecycle!Decisions /\ H[r] = Lifecycle!Absent
    BY <1>1, <2>1, <2>2
  <2>5. Lifecycle!Tell(r, a)
    BY <1>2, <2>3, <2>4 DEF Lifecycle!Tell
  <2>. QED
    BY <2>5 DEF Lifecycle!ANext
<1>. QED
  BY <1>4, <1>5

\* A step in which a request decides its attempt and is answered decides and tells.
LEMMA DecidingStepImplements ==
    ASSUME Unsuited = {}, RefinementInv, RefinementInv', [Next]_vars,
           NEW r \in Requests, NEW a \in Attempts, NEW x \in Rows,
           row[a] = GeneratingRow, row' = [row EXCEPT ![a] = x],
           x.status \in Terminal, \A b \in Attempts : row[b] # x \/ x.status = "failed",
           attempt'[r] = a, answer'[r] \in {"returned", "raised"}, answer'[r] # answer[r],
           \A q \in Requests \ {r} : answer'[q] = answer[q]
    PROVE  Lifecycle!ANext
<1> DEFINE O == [b \in Attempts |-> OutcomeOf(row[b])]
           H == [q \in Requests |-> HeardBy(q)]
           d == HeardBy(r)'
<1>0. WellTyped /\ ArtifactInv /\ WellTyped' /\ ArtifactInv'
  BY DEF RefinementInv, PipelineInv
<1>1. OutcomeOf(row[a])' = d /\ d \in Lifecycle!Decisions
  BY HearsTheOutcome
<1>2. OutcomeOf(row[a]) = Lifecycle!Pending
  BY <1>0, OutcomeShapes
<1>3. \A b \in Attempts \ {a} : OutcomeOf(row[b])' = OutcomeOf(row[b])
  BY <1>0, SameRowSameOutcome DEF WellTyped, TypeOK
<1>4. \A q \in Requests \ {r} : HeardBy(q)' = HeardBy(q)
  BY HeardOnce
<1>5. HeardBy(r) = Lifecycle!Absent
  BY HeardOnce
<1>6. d.kind = "published" => \A b \in Attempts : OutcomeOf(row[b]) # d
  <2>0. row'[a] = x
    BY <1>0 DEF WellTyped, TypeOK
  <2>1. CASE x.status = "failed"
    <3>1. x = FailedRow(x.category)
      BY <2>1, RowsByStatus
    <3>2. d = Lifecycle!Failed(x.category)
      BY <1>0, <1>1, <2>0, <3>1, OutcomeShapesNext
    <3>. QED
      BY <3>2 DEF Lifecycle!Failed
  <2>2. CASE x.status = "generated"
    <3>1. x = GeneratedRow(x.key)
      BY <2>2, RowsByStatus
    <3>2. d = Lifecycle!Published(x.key)
      BY <1>0, <1>1, <2>0, <3>1, OutcomeShapesNext
    <3>3. ASSUME NEW b \in Attempts, OutcomeOf(row[b]) = Lifecycle!Published(x.key)
          PROVE  row[b] = x
      <4>1. /\ Lifecycle!Published(x.key).kind = "published"
            /\ Lifecycle!Published(x.key).detail = x.key
            /\ \A k : Lifecycle!Published(k).detail = k
            /\ \A c : Lifecycle!Failed(c).kind = "failed"
            /\ Lifecycle!Absent.kind = "absent" /\ Lifecycle!Pending.kind = "pending"
        BY DEF Lifecycle!Published, Lifecycle!Failed, Lifecycle!Absent, Lifecycle!Pending
      <4>2. \/ row[b] = NoRow \/ row[b] = GeneratingRow
            \/ row[b] = GeneratedRow(row[b].key) \/ row[b] = FailedRow(row[b].category)
        BY <1>0, RowsByStatus DEF WellTyped, TypeOK
      <4>3. row[b] = GeneratedRow(row[b].key)
        BY <1>0, <3>3, <4>1, <4>2, OutcomeShapes
      <4>4. row[b].key = x.key
        BY <1>0, <3>3, <4>1, <4>3, OutcomeShapes
      <4>. QED
        BY <3>1, <4>3, <4>4
    <3>. QED
      BY <2>2, <3>2, <3>3
  <2>. QED
    BY <2>1, <2>2 DEF Terminal
<1>7. O' = [O EXCEPT ![a] = d] /\ H' = [H EXCEPT ![r] = d]
  BY <1>1, <1>3, <1>4
<1>8. Lifecycle!DecideAndTell(r, a, d)
  BY <1>2, <1>5, <1>6, <1>7 DEF Lifecycle!DecideAndTell
<1>. QED
  BY <1>1, <1>8 DEF Lifecycle!ANext

LEMMA StepImplements ==
    ASSUME Unsuited = {}, ~LostAck, ~HostLoss, RefinementInv, RefinementInv', [Next]_vars
    PROVE  [Lifecycle!ANext]_(Lifecycle!avars)
<1> DEFINE Goal == [Lifecycle!ANext]_(Lifecycle!avars)
<1>0. WellTyped /\ ArtifactInv /\ KeysBelong /\ Answered /\ WellTyped' /\ ArtifactInv'
  BY DEF RefinementInv, PipelineInv
<1> HIDE DEF Goal
<1>1. ASSUME NEW a \in Attempts, Reserve(a) PROVE Goal
  <2> DEFINE O == [b \in Attempts |-> OutcomeOf(row[b])]
             H == [q \in Requests |-> HeardBy(q)]
  <2>1. row' = [row EXCEPT ![a] = GeneratingRow] /\ row[a] = NoRow /\ answer' = answer
    BY <1>1 DEF Reserve
  <2>2. OutcomeOf(row[a])' = Lifecycle!Pending /\ OutcomeOf(row[a]) = Lifecycle!Absent
    BY <1>0, <2>1, OutcomeShapes, OutcomeShapesNext DEF WellTyped, TypeOK
  <2>3. \A b \in Attempts \ {a} : OutcomeOf(row[b])' = OutcomeOf(row[b])
    BY <1>0, <2>1, SameRowSameOutcome DEF WellTyped, TypeOK
  <2>4. \A q \in Requests : HeardBy(q)' = HeardBy(q)
    BY <2>1, HeardOnce
  <2>5. O' = [O EXCEPT ![a] = Lifecycle!Pending] /\ H' = H
    BY <2>2, <2>3, <2>4
  <2>6. Lifecycle!Open(a)
    BY <2>2, <2>5 DEF Lifecycle!Open
  <2>. QED
    BY <2>6 DEF Goal, Lifecycle!ANext
<1>2. ASSUME NEW r \in Requests, row' = row, \A q \in Requests \ {r} : answer'[q] = answer[q]
      PROVE  Goal
  BY <1>2, QuietStepImplements DEF Goal
<1>3. ASSUME NEW r \in Requests, FinalizeCommit(r) PROVE Goal
  <2>1. /\ attempt[r] \in Attempts /\ row' = [row EXCEPT ![attempt[r]] = GeneratedRow(r)]
        /\ row[attempt[r]] = GeneratingRow /\ attempt' = attempt
        /\ answer' = [answer EXCEPT ![r] = "returned"] /\ pc[r] = "finalize"
    BY <1>0, <1>3, RowsByStatus DEF FinalizeCommit, Finish, WellTyped, TypeOK, Active, Holding
  <2>2. answer'[r] = "returned" /\ answer[r] = "none"
        /\ \A q \in Requests \ {r} : answer'[q] = answer[q]
    BY <1>0, <2>1 DEF Answered, WellTyped, TypeOK
  <2>3. \A b \in Attempts : row[b] # GeneratedRow(r)
    BY <1>0, <2>1, RowFields DEF ArtifactInv
  <2>. QED
    BY <2>1, <2>2, <2>3, DecidingStepImplements, RowShapes, RowFields DEF Goal, Terminal
<1>4. ASSUME NEW r \in Requests, MarkCommit(r) PROVE Goal
  <2> DEFINE x == FailedRow(category[r])
  <2>1. /\ attempt[r] \in Attempts /\ row' = [row EXCEPT ![attempt[r]] = x]
        /\ x \in Rows /\ attempt' = attempt
        /\ row[attempt[r]] = GeneratingRow
        /\ answer' = [answer EXCEPT ![r] = "raised"] /\ pc[r] = "mark"
    BY <1>0, <1>4, RowsByStatus, RowShapes
       DEF MarkCommit, Finish, WellTyped, TypeOK, Active, Holding
  <2>2. answer'[r] = "raised" /\ answer[r] = "none"
        /\ \A q \in Requests \ {r} : answer'[q] = answer[q]
    BY <1>0, <2>1 DEF Answered, WellTyped, TypeOK
  <2>3. x.status = "failed"
    BY RowFields
  <2>. QED
    BY <2>1, <2>2, <2>3, DecidingStepImplements DEF Goal, Terminal
<1>5. CASE UNCHANGED vars
  <2>1. row' = row /\ file' = file /\ answer' = answer /\ seen' = seen
    BY <1>5 DEF vars
  <2>2. UNCHANGED Lifecycle!avars
    BY <2>1 DEF Lifecycle!avars, OutcomeOf, HeardBy
  <2>. QED
    BY <2>2 DEF Goal
<1> USE <1>0 DEF WellTyped, TypeOK, Goto, Finish, Raise, database, disk, local
<1>6. ASSUME NEW r \in Requests, NEW a \in Attempts, Deny(r, a) \/ Replay(r, a) \/ Start(r, a)
      PROVE  Goal
  BY <1>2, <1>6 DEF Deny, Replay, Start
<1>7. ASSUME NEW r \in Requests,
             Prepare(r) \/ OpenStage(r) \/ Link(r) \/ Unstage(r) \/ Verify(r)
      PROVE  Goal
  BY <1>2, <1>7 DEF Prepare, OpenStage, Link, Unstage, Verify
<1>8. ASSUME NEW r \in Requests, FinalizeSettled(r) \/ FinalizeRollback(r) \/ Discard(r) \/ Cleanup(r)
      PROVE  Goal
  BY <1>2, <1>8 DEF FinalizeSettled, FinalizeRollback, Discard, Cleanup
<1>9. ASSUME NEW r \in Requests, MarkSettled(r) \/ MarkError(r) PROVE Goal
  BY <1>2, <1>9 DEF MarkSettled, MarkError
<1>10. ASSUME NEW r \in Requests, Crash(r) \/ WriteBack(r) \/ ReclaimStage(r) PROVE Goal
  BY <1>2, <1>10 DEF Crash, WriteBack, ReclaimStage
<1>. QED
  BY <1>1, <1>3, <1>4, <1>5, <1>6, <1>7, <1>8, <1>9, <1>10
     DEF Next, Work, Terminated, HostFailure, Goal

\* Unless a commit acknowledgement or a directory entry is lost or a process has the
\* wrong storage, every behaviour of the pipeline is one of the abstract attempt: each
\* is decided at most once, for good, and everybody is told that decision.
THEOREM PipelineImplementsLifecycle ==
    ASSUME Unsuited = {}, ~LostAck, ~HostLoss PROVE Spec => ImplementsLifecycle
<1>1. Init => Lifecycle!AInit
  <2> SUFFICES ASSUME Init PROVE Lifecycle!AInit
      OBVIOUS
  <2>1. \A a \in Attempts : OutcomeOf(row[a]) = Lifecycle!Absent
    BY InitialState, RowFields DEF OutcomeOf, Lifecycle!Absent
  <2>2. \A r \in Requests : HeardBy(r) = Lifecycle!Absent
    BY InitialState DEF HeardBy, Lifecycle!Absent
  <2>. QED
    BY <2>1, <2>2 DEF Lifecycle!AInit
<1>2. RefinementInv /\ RefinementInv' /\ [Next]_vars => [Lifecycle!ANext]_(Lifecycle!avars)
  BY StepImplements
<1>3. Spec => []RefinementInv
  BY AlwaysPipelineInv, AlwaysArtifactInv, AlwaysAnswered, PTL DEF RefinementInv
<1>. QED
  BY <1>1, <1>2, <1>3, PTL DEF Spec, ImplementsLifecycle, Lifecycle!ASpec
=================================================================================
