---------------------------- MODULE PrivateFilesProofs ----------------------------
(* Proofs about PrivateFiles: what reconciliation and downloads may rely on, while  *)
(* any number of requests write and remove artifacts.                               *)
EXTENDS PrivateFiles, GenerationArtifactsProofs

--------------------------------------------------------------------------------
(* The pipeline, with bytes replaced from outside *)

\* To the pipeline a step of the readers is nothing, or the removal of a staging file.
LEMMA ReadersLeaveThePipeline ==
  ASSUME [FilesNext]_pvars
  PROVE  [Next]_vars \/ \E k \in Requests : Replace(k)
<1>1. ASSUME Write PROVE [Next]_vars \/ \E k \in Requests : Replace(k)
  BY <1>1 DEF Write, Next
<1>2. ASSUME NEW k \in Requests, List(k) PROVE UNCHANGED vars \/ ReclaimStage(k)
  BY <1>2 DEF List, Stale, ReclaimStage, vars, database, local
<1>3. ASSUME Reconcile PROVE [Next]_vars
  BY <1>2, <1>3 DEF Reconcile, BeginScan, VerifyReference, BeginInventory, ListFails,
                    EndScan, Next
<1>4. ASSUME NEW d \in Readers, Read(d) PROVE UNCHANGED vars
  BY <1>4 DEF Read, Ask, ReadArtifact, HandOut
<1> QED
  BY <1>1, <1>3, <1>4 DEF FilesNext, pvars

LEMMA ReplaceChangesBytes ==
  ASSUME WellTyped, NEW k \in Requests, Replace(k)
  PROVE  /\ UNCHANGED <<database, local, pc, answer, stage, flushed, leftover>>
         /\ \A r \in Requests : \/ file'[r] = file[r]
                                \/ file[r] # "absent" /\ file'[r] = "damaged"
         /\ file' \in [Requests -> {"absent", "intact", "damaged"}]
BY DEF Replace, WellTyped, TypeOK

LEMMA PipelineStep ==
  ASSUME WellTyped, KeysBelong, FilesAreTracked, [FilesNext]_pvars
  PROVE  WellTyped' /\ KeysBelong' /\ FilesAreTracked'
<1>1. CASE [Next]_vars
  BY <1>1, StepWellTyped, StepKeysBelong, StepFilesAreTracked
<1>2. ASSUME NEW k \in Requests, Replace(k) PROVE WellTyped' /\ KeysBelong' /\ FilesAreTracked'
  <2>1. WellTyped'
    BY <1>2, ReplaceChangesBytes DEF WellTyped, TypeOK, database, local
  <2>2. KeysBelong'
    BY <1>2, ReplaceChangesBytes DEF KeysBelong, database, local
  <2>3. FilesAreTracked'
    BY <1>2, ReplaceChangesBytes DEF FilesAreTracked, database, local
  <2> QED
    BY <2>1, <2>2, <2>3
<1> QED
  BY <1>1, <1>2, ReadersLeaveThePipeline

\* A request that has linked its file, or failed to, writes no other.
LEMMA SettledStep ==
  ASSUME WellTyped, [Next]_vars, NEW r \in Requests, Settled(r)
  PROVE  Settled(r)' /\ (file'[r] = file[r] \/ file'[r] = "absent")
<1> USE DEF WellTyped, TypeOK, Settled, Goto, Finish, Raise, See, database, disk, local
<1> DEFINE Goal == Settled(r)' /\ (file'[r] = file[r] \/ file'[r] = "absent")
<1>1. ASSUME NEW a \in Attempts, Reserve(a) PROVE Goal
  BY <1>1 DEF Reserve
<1>2. ASSUME NEW q \in Requests, NEW a \in Attempts, Deny(q, a) PROVE Goal
  BY <1>2 DEF Deny
<1>3. ASSUME NEW q \in Requests, NEW a \in Attempts, Replay(q, a) PROVE Goal
  BY <1>3 DEF Replay
<1>4. ASSUME NEW q \in Requests, NEW a \in Attempts, Start(q, a) PROVE Goal
  BY <1>4 DEF Start
<1>5. ASSUME NEW q \in Requests, Prepare(q) PROVE Goal
  BY <1>5 DEF Prepare
<1>6. ASSUME NEW q \in Requests, OpenStage(q) PROVE Goal
  BY <1>6 DEF OpenStage
<1>7. ASSUME NEW q \in Requests, Link(q) PROVE Goal
  BY <1>7 DEF Link
<1>8. ASSUME NEW q \in Requests, Unstage(q) PROVE Goal
  BY <1>8 DEF Unstage
<1>9. ASSUME NEW q \in Requests, Verify(q) PROVE Goal
  BY <1>9 DEF Verify
<1>10. ASSUME NEW q \in Requests, FinalizeCommit(q) PROVE Goal
  BY <1>10 DEF FinalizeCommit
<1>11. ASSUME NEW q \in Requests, FinalizeSettled(q) PROVE Goal
  BY <1>11 DEF FinalizeSettled
<1>12. ASSUME NEW q \in Requests, FinalizeRollback(q) PROVE Goal
  BY <1>12 DEF FinalizeRollback
<1>13. ASSUME NEW q \in Requests, Discard(q) PROVE Goal
  BY <1>13 DEF Discard, Erase
<1>14. ASSUME NEW q \in Requests, Cleanup(q) PROVE Goal
  BY <1>14 DEF Cleanup, Erase
<1>15. ASSUME NEW q \in Requests, MarkCommit(q) PROVE Goal
  BY <1>15 DEF MarkCommit
<1>16. ASSUME NEW q \in Requests, MarkSettled(q) PROVE Goal
  BY <1>16 DEF MarkSettled
<1>17. ASSUME NEW q \in Requests, MarkError(q) PROVE Goal
  BY <1>17 DEF MarkError
<1>18. ASSUME NEW q \in Requests, Crash(q) PROVE Goal
  BY <1>18 DEF Crash, Active, Holding
<1>19. ASSUME NEW q \in Requests, WriteBack(q) PROVE Goal
  BY <1>19 DEF WriteBack
<1>20. ASSUME NEW q \in Requests, ReclaimStage(q) PROVE Goal
  BY <1>20 DEF ReclaimStage
<1>21. ASSUME NEW lost \in SUBSET Requests, HostFailure(lost) PROVE Goal
  BY <1>21 DEF HostFailure, Active, Holding
<1>22. CASE UNCHANGED vars
  BY <1>22 DEF vars
<1> QED
  BY <1>1, <1>2, <1>3, <1>4, <1>5, <1>6, <1>7, <1>8, <1>9, <1>10, <1>11,
     <1>12, <1>13, <1>14, <1>15, <1>16, <1>17, <1>18, <1>19, <1>20, <1>21, <1>22
     DEF Next, Work, Terminated

\* Published keys stay published, a broken file stays broken and an orphan that went stays away.
LEMMA Monotone ==
  ASSUME WellTyped, KeysBelong, [FilesNext]_pvars, NEW k \in Requests
  PROVE  /\ k \in Published => k \in Published'
         /\ Broken(k) => Broken(k)'
         /\ Settled(k) => Settled(k)' /\ (k \in Orphans' => k \in Orphans)
<1>1. ASSUME k \in Published PROVE Settled(k)
  <2>1. PICK a \in Attempts : row[a].status = "generated" /\ k = row[a].key
    BY <1>1 DEF Published
  <2> QED
    BY <2>1 DEF KeysBelong, Late, Settled
<1>2. CASE [Next]_vars
  <2>1. ASSUME k \in Published PROVE k \in Published'
    <3>1. PICK a \in Attempts : row[a].status = "generated" /\ k = row[a].key
      BY <2>1 DEF Published
    <3>2. row'[a] = row[a]
      BY <1>2, <3>1, RowStep, RowFields
    <3> QED
      BY <3>1, <3>2 DEF Published
  <2>2. ASSUME Broken(k) PROVE Broken(k)'
    BY <1>1, <1>2, <2>1, <2>2, SettledStep DEF Broken
  <2>3. ASSUME Settled(k) PROVE Settled(k)' /\ (k \in Orphans' => k \in Orphans)
    BY <1>2, <2>1, <2>3, SettledStep DEF Orphans
  <2> QED
    BY <2>1, <2>2, <2>3
<1>3. ASSUME NEW r \in Requests, Replace(r)
      PROVE  /\ k \in Published => k \in Published'
             /\ Broken(k) => Broken(k)'
             /\ Settled(k) => Settled(k)' /\ (k \in Orphans' => k \in Orphans)
  <2>1. row' = row /\ pc' = pc
    BY <1>3, ReplaceChangesBytes DEF database
  <2>2. Published' = Published
    BY <2>1 DEF Published
  <2>3. file'[k] = file[k] \/ (file[k] # "absent" /\ file'[k] = "damaged")
    BY <1>3, ReplaceChangesBytes
  <2> QED
    BY <2>1, <2>2, <2>3 DEF Broken, Settled, Orphans
<1> QED
  BY <1>2, <1>3, ReadersLeaveThePipeline

--------------------------------------------------------------------------------
(* Type correctness *)

LEMMA PublishedAreRequests == WellTyped => Published \subseteq Requests
BY RowsByStatus DEF WellTyped, TypeOK, Published

\* Which steps move the reconciliation, and that they leave rows, files and requests alone.
LEMMA ScanMoves ==
  ASSUME [FilesNext]_pvars
  PROVE  \/ UNCHANGED fvars
         \/ /\ UNCHANGED <<row, file, pc, dlvars>>
            /\ \/ BeginScan \/ BeginInventory \/ EndScan
               \/ \E k \in Requests : VerifyReference(k) \/ List(k) \/ ListFails(k)
<1>1. ASSUME Reconcile
      PROVE  /\ UNCHANGED <<row, file, pc, dlvars>>
             /\ \/ BeginScan \/ BeginInventory \/ EndScan
                \/ \E k \in Requests : VerifyReference(k) \/ List(k) \/ ListFails(k)
  BY <1>1 DEF Reconcile, BeginScan, BeginInventory, EndScan, VerifyReference, List, ListFails,
              vars, database
<1>2. ASSUME Write PROVE UNCHANGED fvars
  BY <1>2 DEF Write, fvars
<1>3. ASSUME NEW d \in Readers, Read(d) PROVE UNCHANGED fvars
  BY <1>3 DEF Read, Ask, ReadArtifact, HandOut
<1>4. ASSUME UNCHANGED pvars PROVE UNCHANGED fvars
  BY <1>4 DEF pvars
<1> QED
  BY <1>1, <1>2, <1>3, <1>4 DEF FilesNext

\* What one visit of the reconciliation adds to the report.
LEMMA ReportStep ==
  ASSUME WellTyped, FilesTypeOK, NEW k \in Requests, VerifyReference(k) \/ List(k) \/ ListFails(k)
  PROVE  /\ report' \in [missing : SUBSET Requests, modified : SUBSET Requests,
                         orphaned : SUBSET Requests, staging : SUBSET Requests,
                         errors : BOOLEAN]
         /\ Breaches \subseteq Breaches' /\ (report.errors => report'.errors)
         /\ \A x \in report'.missing \ report.missing :
               x = k /\ scan = "verify" /\ k \in todo /\ file[k] = "absent"
         /\ \A x \in report'.modified \ report.modified :
               x = k /\ scan = "verify" /\ k \in todo /\ file[k] = "damaged"
         /\ VerifyReference(k) => k \in Breaches' \/ report'.errors \/ file[k] = "intact"
         /\ List(k) \/ ListFails(k) => k \in Breaches' \/ report'.errors \/ ~OrphanAt(k)
<1> DEFINE Added(m, b, o, t, e) ==
             [missing |-> report.missing \cup m, modified |-> report.modified \cup b,
              orphaned |-> report.orphaned \cup o, staging |-> report.staging \cup t,
              errors |-> report.errors \/ e]
<1>1. report \in [missing : SUBSET Requests, modified : SUBSET Requests,
                  orphaned : SUBSET Requests, staging : SUBSET Requests, errors : BOOLEAN]
  BY DEF FilesTypeOK
<1>2. /\ Count("missing", k) => report' = Added({k}, {}, {}, {}, FALSE)
      /\ Count("modified", k) => report' = Added({}, {k}, {}, {}, FALSE)
      /\ CountError => report' = Added({}, {}, {}, {}, TRUE)
      /\ UNCHANGED report => report' = Added({}, {}, {}, {}, FALSE)
  BY <1>1 DEF Count, CountError
<1>3. \A o \in SUBSET Requests :
         /\ report' = [report EXCEPT !.orphaned = @ \cup o] =>
               report' = Added({}, {}, o, {}, FALSE)
         /\ report' = [report EXCEPT !.orphaned = @ \cup o, !.staging = @ \cup {k}] =>
               report' = Added({}, {}, o, {k}, FALSE)
  BY <1>1
<1> DEFINE Grows(m, b, o, t) ==
             /\ report' \in [missing : SUBSET Requests, modified : SUBSET Requests,
                             orphaned : SUBSET Requests, staging : SUBSET Requests,
                             errors : BOOLEAN]
             /\ Breaches' = Breaches \cup m \cup b \cup o \cup t
             /\ report'.missing = report.missing \cup m
             /\ report'.modified = report.modified \cup b
             /\ report.errors => report'.errors
<1>4. ASSUME NEW m \in SUBSET Requests, NEW b \in SUBSET Requests, NEW o \in SUBSET Requests,
             NEW t \in SUBSET Requests, NEW e \in BOOLEAN, report' = Added(m, b, o, t, e)
      PROVE  Grows(m, b, o, t) /\ (e => report'.errors)
  <2>1. Added(m, b, o, t, e) \in [missing : SUBSET Requests, modified : SUBSET Requests,
                                  orphaned : SUBSET Requests, staging : SUBSET Requests,
                                  errors : BOOLEAN]
    BY <1>1
  <2>2. /\ report'.missing = report.missing \cup m /\ report'.modified = report.modified \cup b
        /\ report'.orphaned = report.orphaned \cup o /\ report'.staging = report.staging \cup t
    BY <1>4
  <2>3. report.errors \/ e => report'.errors
    BY <1>4
  <2> QED
    BY <1>4, <2>1, <2>2, <2>3 DEF Breaches
<1>5. {k} \in SUBSET Requests /\ {} \in SUBSET Requests /\ TRUE \in BOOLEAN /\ FALSE \in BOOLEAN
  OBVIOUS
<1>6. /\ Count("missing", k) => Grows({k}, {}, {}, {})
      /\ Count("modified", k) => Grows({}, {k}, {}, {})
      /\ CountError => Grows({}, {}, {}, {}) /\ report'.errors
      /\ UNCHANGED report => Grows({}, {}, {}, {})
  <2> HIDE DEF Added, Grows
  <2> QED
    BY <1>2, <1>4, <1>5
<1>7. \A o \in SUBSET Requests :
         /\ report' = [report EXCEPT !.orphaned = @ \cup o] => Grows({}, {}, o, {})
         /\ report' = [report EXCEPT !.orphaned = @ \cup o, !.staging = @ \cup {k}] =>
               Grows({}, {}, o, {k})
  <2> HIDE DEF Added, Grows
  <2> QED
    BY <1>3, <1>4, <1>5
<1> HIDE DEF Added
<1>8. CASE VerifyReference(k)
  <2>1. scan = "verify" /\ k \in todo /\ ~List(k) /\ ~ListFails(k)
    BY <1>8 DEF VerifyReference, List, ListFails
  <2>2. CASE file[k] = "absent" /\ Count("missing", k)
    BY <1>6, <2>1, <2>2
  <2>3. CASE file[k] = "damaged" /\ Count("modified", k)
    BY <1>6, <2>1, <2>3
  <2>4. CASE file[k] = "intact" /\ UNCHANGED report
    BY <1>6, <2>1, <2>4
  <2>5. CASE CountError
    BY <1>6, <2>1, <2>5
  <2> QED
    BY <1>8, <2>2, <2>3, <2>4, <2>5 DEF VerifyReference
<1>9. CASE List(k)
  <2>1. PICK o \in {IF OrphanAt(k) THEN {k} ELSE {}} :
           \/ report' = [report EXCEPT !.orphaned = @ \cup o]
           \/ report' = [report EXCEPT !.orphaned = @ \cup o, !.staging = @ \cup {k}]
    BY <1>9 DEF List
  <2>2. o \in SUBSET Requests /\ (o = {k} \/ ~OrphanAt(k))
    BY <2>1
  <2>3. Grows({}, {}, o, {}) \/ Grows({}, {}, o, {k})
    <3> HIDE DEF Grows
    <3> QED
      BY <1>7, <2>1, <2>2
  <2>4. ~VerifyReference(k)
    BY <1>9 DEF VerifyReference, List
  <2> QED
    BY <2>2, <2>3, <2>4
<1>10. CASE ListFails(k)
  <2>1. ~VerifyReference(k) /\ CountError
    BY <1>10 DEF VerifyReference, ListFails
  <2> QED
    BY <1>6, <2>1
<1> QED
  BY <1>8, <1>9, <1>10

\* A report only grows.
LEMMA ReportGrows ==
  ASSUME WellTyped, FilesTypeOK, [FilesNext]_pvars
  PROVE  /\ Breaches \subseteq Breaches' /\ (report.errors => report'.errors)
         /\ report' \in [missing : SUBSET Requests, modified : SUBSET Requests,
                         orphaned : SUBSET Requests, staging : SUBSET Requests,
                         errors : BOOLEAN]
<1>1. CASE UNCHANGED report
  BY <1>1 DEF FilesTypeOK, Breaches
<1>2. ASSUME NEW k \in Requests, VerifyReference(k) \/ List(k) \/ ListFails(k)
      PROVE  /\ Breaches \subseteq Breaches' /\ (report.errors => report'.errors)
             /\ report' \in [missing : SUBSET Requests, modified : SUBSET Requests,
                             orphaned : SUBSET Requests, staging : SUBSET Requests,
                             errors : BOOLEAN]
  BY <1>2, ReportStep DEF FilesTypeOK, Breaches
<1> QED
  BY <1>1, <1>2, ScanMoves DEF BeginScan, BeginInventory, EndScan, fvars

LEMMA FilesTypedStep == ASSUME WellTyped, FilesTypeOK, [FilesNext]_pvars PROVE FilesTypeOK'
<1> DEFINE ScanTyped == /\ scan \in {"idle", "verify", "list", "done"}
                        /\ known \subseteq Requests /\ todo \subseteq Requests
                        /\ atStart \in [broken : SUBSET Requests, orphans : SUBSET Requests]
           ReadersTyped == /\ rpc \in [Readers -> {"idle", "open", "record", "served", "refused"}]
                           /\ asked \in [Readers -> Requests \cup {NoRequest}]
                           /\ handle \in [Readers -> {"absent", "intact", "damaged"}]
                           /\ trace \in [Readers -> {"none", "denied", "failure", "success"}]
<1>1. ScanTyped'
  <2>1. CASE UNCHANGED fvars
    BY <2>1 DEF fvars, FilesTypeOK
  <2>2. CASE BeginScan
    BY <2>2, PublishedAreRequests DEF BeginScan, FilesTypeOK, Orphans
  <2>3. CASE BeginInventory \/ EndScan
    BY <2>3 DEF BeginInventory, EndScan, FilesTypeOK
  <2>4. ASSUME NEW k \in Requests, VerifyReference(k) \/ List(k) \/ ListFails(k) PROVE ScanTyped'
    BY <2>4 DEF VerifyReference, List, ListFails, Visited, FilesTypeOK
  <2> QED
    BY <2>1, <2>2, <2>3, <2>4, ScanMoves
<1>2. ReadersTyped'
  <2>1. CASE UNCHANGED dlvars
    BY <2>1 DEF dlvars, FilesTypeOK
  <2>2. ASSUME NEW d \in Readers, NEW a \in Attempts, Ask(d, a) PROVE ReadersTyped'
    <3>1. row[a].status = "generated" => row[a].key \in Requests
      BY RowsByStatus DEF WellTyped, TypeOK
    <3> QED
      BY <2>2, <3>1 DEF Ask, Refused, Step, Record, FilesTypeOK
  <2>3. ASSUME NEW d \in Readers, ReadArtifact(d) \/ HandOut(d) PROVE ReadersTyped'
    BY <2>3 DEF ReadArtifact, HandOut, Refused, Step, Record, FilesTypeOK
  <2> QED
    BY <2>1, <2>2, <2>3 DEF FilesNext, Read, Write, Reconcile, BeginScan, BeginInventory,
                            EndScan,
       VerifyReference, List, ListFails, Reserve, dlvars, pvars
<1> QED
  BY <1>1, <1>2, ReportGrows DEF FilesTypeOK

LEMMA AlwaysFilesTyped == FilesSpec => [](WellTyped /\ KeysBelong /\ FilesAreTracked /\ FilesTypeOK)
<1>1. FilesInit => WellTyped /\ KeysBelong /\ FilesAreTracked /\ FilesTypeOK
  <2> SUFFICES ASSUME FilesInit PROVE WellTyped /\ KeysBelong /\ FilesAreTracked /\ FilesTypeOK
    OBVIOUS
  <2>1. Init
    BY DEF FilesInit
  <2>2. WellTyped
    BY <2>1, InitTyped DEF WellTyped, Init, Active, Holding
  <2>3. KeysBelong /\ FilesAreTracked
    BY <2>1, RowFields DEF Init, KeysBelong, FilesAreTracked
  <2>4. FilesTypeOK
    BY DEF FilesInit, FilesTypeOK, Nothing
  <2> QED
    BY <2>2, <2>3, <2>4
<1> QED
  BY <1>1, PipelineStep, FilesTypedStep, PTL DEF FilesSpec

\* The readers keep their variables in their types, for any number of requests and readers.
THEOREM FilesTyped == FilesSpec => []FilesTypeOK
BY AlwaysFilesTyped, PTL

--------------------------------------------------------------------------------
(* The reconciliation *)

LEMMA FindingsStep ==
  ASSUME FilesTypeOK, FilesInv, [FilesNext]_pvars PROVE FindingsStand'
<1>1. CASE UNCHANGED fvars
  <2>1. WellTyped /\ KeysBelong /\ Published \subseteq Requests
    BY PublishedAreRequests DEF FilesInv
  <2>2. \A k \in atStart.broken : Broken(k)'
    BY <2>1, Monotone DEF FilesInv, FindingsStand, FilesTypeOK
  <2>3. \A k \in atStart.orphans : Settled(k)'
    BY <2>1, Monotone DEF FilesInv, FindingsStand, FilesTypeOK
  <2>4. Published \subseteq Published'
    BY <2>1, Monotone
  <2> QED
    BY <1>1, <2>2, <2>3, <2>4 DEF fvars, FilesInv, FindingsStand
<1>2. CASE UNCHANGED <<row, file, pc>> /\ BeginScan
  <2>1. Published' = Published
    BY <1>2 DEF Published
  <2>2. atStart' = [broken |-> {k \in Published : file[k] # "intact"}, orphans |-> Orphans]
    BY <1>2 DEF BeginScan
  <2>3. \A k \in atStart'.broken : Broken(k)'
    BY <1>2, <2>1, <2>2 DEF Broken
  <2>4. \A k \in atStart'.orphans : Settled(k)'
    BY <1>2, <2>2 DEF Orphans, Settled, FilesInv, FilesAreTracked
  <2> QED
    BY <1>2, <2>1, <2>2, <2>3, <2>4 DEF BeginScan, FindingsStand, Orphans
<1>3. ASSUME UNCHANGED <<row, file, pc>>,
             \/ BeginInventory \/ EndScan
             \/ \E k \in Requests : VerifyReference(k) \/ List(k) \/ ListFails(k)
      PROVE  FindingsStand'
  <2>1. Published' = Published
    BY <1>3 DEF Published
  <2>2. /\ atStart' = atStart /\ known' = known /\ scan # "idle"
        /\ scan' = "verify" => scan = "verify" /\ todo' \subseteq todo
    BY <1>3 DEF BeginInventory, EndScan, VerifyReference, List, ListFails, Visited
  <2>3. \A k : (Broken(k)' <=> Broken(k)) /\ (Settled(k)' <=> Settled(k))
    BY <1>3, <2>1 DEF Broken, Settled
  <2> QED
    BY <2>1, <2>2, <2>3 DEF FilesInv, FindingsStand
<1> QED
  BY <1>1, <1>2, <1>3, ScanMoves

LEMMA AlarmsStep == ASSUME FilesTypeOK, FilesInv, [FilesNext]_pvars PROVE AlarmsAreReal'
<1>0. WellTyped /\ KeysBelong
  BY DEF FilesInv
<1>1. \A k \in report.missing \cup report.modified : Broken(k)'
  BY <1>0, Monotone DEF FilesInv, AlarmsAreReal, Broken, FilesTypeOK
<1>2. CASE UNCHANGED report
  BY <1>1, <1>2 DEF AlarmsAreReal, Broken
<1>3. ASSUME NEW k \in Requests, VerifyReference(k) \/ List(k) \/ ListFails(k) PROVE AlarmsAreReal'
  <2>1. ASSUME NEW x \in report'.missing \cup report'.modified PROVE Broken(x)'
    <3>1. CASE x \in report.missing \cup report.modified
      BY <1>1, <3>1
    <3>2. CASE x \notin report.missing \cup report.modified
      <4>1. x = k /\ scan = "verify" /\ k \in todo /\ file[k] # "intact"
        BY <1>0, <1>3, <2>1, <3>2, ReportStep
      <4>2. Broken(x)
        BY <4>1 DEF FilesInv, FindingsStand, Broken
      <4> QED
        BY <1>0, <4>1, <4>2, Monotone
    <3> QED
      BY <3>1, <3>2
  <2> QED
    BY <2>1 DEF AlarmsAreReal, Broken
<1> QED
  BY <1>2, <1>3, ScanMoves DEF BeginScan, BeginInventory, EndScan, fvars

LEMMA PassedStep == ASSUME FilesTypeOK, FilesInv, [FilesNext]_pvars PROVE PassedIsReported'
<1>0. WellTyped /\ KeysBelong
  BY DEF FilesInv
<1>1. Breaches \subseteq Breaches' /\ (report.errors => report'.errors)
  BY <1>0, ReportGrows
<1>2. ASSUME atStart' = atStart PROVE atStart'.orphans \cap Orphans' \subseteq Orphans
  BY <1>0, <1>2, Monotone DEF FilesInv, FindingsStand, FilesTypeOK
<1>3. CASE UNCHANGED fvars
  BY <1>1, <1>2, <1>3 DEF fvars, FilesInv, PassedIsReported
<1>4. CASE BeginScan
  <2>1. atStart'.broken \subseteq todo' /\ scan' = "verify"
    BY <1>4 DEF BeginScan
  <2> QED
    BY <2>1 DEF PassedIsReported
<1>5. CASE BeginInventory
  <2>1. /\ atStart' = atStart /\ report' = report /\ scan' = "list" /\ todo' = Requests
        /\ todo = {} /\ Breaches' = Breaches
    BY <1>5 DEF BeginInventory, Breaches
  <2>2. atStart.orphans \subseteq Requests
    BY DEF FilesTypeOK
  <2> QED
    BY <2>1, <2>2 DEF FilesInv, PassedIsReported
<1>6. CASE EndScan
  <2>1. /\ atStart' = atStart /\ report' = report /\ scan' = "done" /\ scan = "list"
        /\ todo = {} /\ Breaches' = Breaches
    BY <1>6 DEF EndScan, Breaches
  <2> QED
    BY <1>2, <2>1 DEF FilesInv, PassedIsReported
<1>7. ASSUME NEW k \in Requests, VerifyReference(k) PROVE PassedIsReported'
  <2>1. /\ atStart' = atStart /\ scan = "verify" /\ scan' = "verify" /\ todo' = todo \ {k}
    BY <1>7 DEF VerifyReference, Visited
  <2>2. k \in Breaches' \/ report'.errors \/ file[k] = "intact"
    BY <1>0, <1>7, ReportStep
  <2>3. k \in atStart.broken => file[k] # "intact"
    BY DEF FilesInv, FindingsStand, Broken
  <2> QED
    BY <1>1, <2>1, <2>2, <2>3 DEF FilesInv, PassedIsReported
<1>8. ASSUME NEW k \in Requests, List(k) \/ ListFails(k) PROVE PassedIsReported'
  <2>1. /\ atStart' = atStart /\ scan = "list" /\ scan' = "list" /\ todo' = todo \ {k}
    BY <1>8 DEF List, ListFails, Visited
  <2>2. k \in Breaches' \/ report'.errors \/ ~OrphanAt(k)
    BY <1>0, <1>8, ReportStep
  <2>3. k \in atStart.orphans \cap Orphans => OrphanAt(k)
    BY <2>1 DEF FilesInv, FindingsStand, OrphanAt, Orphans
  <2> QED
    BY <1>1, <1>2, <2>1, <2>2, <2>3 DEF FilesInv, PassedIsReported
<1> QED
  BY <1>3, <1>4, <1>5, <1>6, <1>7, <1>8, ScanMoves

--------------------------------------------------------------------------------
(* Downloads *)

LEMMA DownloadStep ==
  ASSUME FilesTypeOK, FilesInv, [FilesNext]_pvars PROVE ReadersAskForPublished'
<1>0. WellTyped /\ KeysBelong /\ Published \subseteq Requests
  BY PublishedAreRequests DEF FilesInv
<1>1. Published \subseteq Published'
  BY <1>0, Monotone
<1>2. CASE UNCHANGED dlvars
  BY <1>1, <1>2 DEF dlvars, FilesInv, ReadersAskForPublished
<1>3. ASSUME NEW d \in Readers, NEW a \in Attempts, Ask(d, a) PROVE ReadersAskForPublished'
  <2>1. row[a].status = "generated" => row[a].key \in Published
    BY DEF Published
  <2> QED
    <3> USE DEF FilesTypeOK, FilesInv, ReadersAskForPublished
    <3>1. \A e \in Readers \ {d} : /\ rpc'[e] = rpc[e] /\ asked'[e] = asked[e]
                                   /\ handle'[e] = handle[e] /\ trace'[e] = trace[e]
      BY <1>3 DEF Ask, Refused, Step, Record
    <3>2. rpc'[d] = "refused" \/ (rpc'[d] = "open" /\ asked'[d] \in Published)
      BY <1>3, <2>1 DEF Ask, Refused, Step
    <3> QED
      BY <1>1, <3>1, <3>2
<1>4. ASSUME NEW d \in Readers, ReadArtifact(d) \/ HandOut(d) PROVE ReadersAskForPublished'
  BY <1>1, <1>4 DEF ReadArtifact, HandOut, Refused, Step, Record, FilesInv,
                    ReadersAskForPublished,
                    FilesTypeOK
<1> QED
  BY <1>2, <1>3, <1>4 DEF FilesNext, Read, Write, Reconcile, BeginScan, BeginInventory, EndScan,
     VerifyReference, List, ListFails, dlvars, pvars

--------------------------------------------------------------------------------

LEMMA AlwaysFilesInv == FilesSpec => []FilesInv
<1>1. FilesInit => FindingsStand /\ PassedIsReported /\ AlarmsAreReal /\ ReadersAskForPublished
  BY DEF FilesInit, FindingsStand, PassedIsReported, AlarmsAreReal, ReadersAskForPublished,
         Nothing
<1>2. FilesTypeOK /\ FilesInv /\ [FilesNext]_pvars =>
         (FindingsStand /\ PassedIsReported /\ AlarmsAreReal /\ ReadersAskForPublished)'
  BY FindingsStep, PassedStep, AlarmsStep, DownloadStep
<1>3. FilesInv <=> /\ WellTyped /\ KeysBelong /\ FilesAreTracked
                   /\ FindingsStand /\ PassedIsReported /\ AlarmsAreReal /\ ReadersAskForPublished
  BY DEF FilesInv
<1> QED
  BY <1>1, <1>2, <1>3, AlwaysFilesTyped, PTL DEF FilesSpec

\* What was wrong when a reconciliation began and is wrong still is reported when it ends
\* without an error, however many requests work meanwhile.
THEOREM BreachesAlwaysReported == FilesSpec => []BreachesAreReported
<1>1. FilesInv => BreachesAreReported
  BY DEF FilesInv, PassedIsReported, BreachesAreReported
<1> QED
  BY <1>1, AlwaysFilesInv, PTL

\* A file that is reported missing or modified is, for any number of requests.
THEOREM AlarmsStand == FilesSpec => []AlarmsAreReal
BY AlwaysFilesInv, PTL DEF FilesInv

\* A download hands out recorded bytes and is on record before it does, for any number of
\* readers and requests.
THEOREM DownloadsAlwaysOnRecord == FilesSpec => []DownloadsAreOnRecord
<1>1. FilesInv => DownloadsAreOnRecord
  BY DEF FilesInv, ReadersAskForPublished, DownloadsAreOnRecord
<1> QED
  BY <1>1, AlwaysFilesInv, PTL
===================================================================================
