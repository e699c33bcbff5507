--------------------------- MODULE GenerationArtifacts ---------------------------
(* The artifact pipeline of apps/documents/generation_artifacts.py: requests    *)
(* that carry reserved attempts (GeneratedDocument rows) to "generated" or      *)
(* "failed" while the artifact itself is a file that no transaction covers.     *)
(*                                                                              *)
(* Each call of generate_artifact builds one fresh storage key, so the request  *)
(* names the key: file[r] is the final file of r's key and stage holds r while  *)
(* its ".immutable-stage-*" file exists.  A database transaction of the code    *)
(* locks one attempt row and is one action here; file operations interleave.    *)
EXTENDS Sequences

CONSTANTS Requests,   \* calls of generate_artifact
          Attempts,   \* attempts that may be reserved
          Owned,      \* Owned[r]: the attempts whose actor is the caller of r
          Unsuited,   \* requests whose configured storage is not the private one
          NoRequest,  \* the empty output_storage_key
          NoAttempt,  \* the attempt of a request that has not begun
          LostAck,    \* a COMMIT may take effect although the client sees an error
          HostLoss    \* a host failure may lose a directory entry not yet written back

Categories == {"template_invalid", "context_missing", "render_error",
               "storage_error", "integrity_error"}

\* What the steps before the artifact is stored may fail with: the template file is
\* missing, unreadable or of another size; rendering rejects the template, the values or
\* its own output; the file name cannot be built.
ReadTemplateFailures == {"storage_error", "integrity_error"}

RenderFailures   == {"template_invalid", "context_missing", "render_error", "integrity_error"}
FilenameFailures == {"context_missing", "render_error"}
PrepareFailures  == ReadTemplateFailures \cup RenderFailures \cup FilenameFailures

ASSUME ConstantsAssumption ==
    /\ Owned \in [Requests -> SUBSET Attempts]
    /\ Unsuited \subseteq Requests
    /\ NoRequest \notin Requests
    /\ NoAttempt \notin Attempts
    /\ LostAck \in BOOLEAN
    /\ HostLoss \in BOOLEAN

VARIABLES row,       \* the GeneratedDocument rows, as committed
          audit,     \* audit[a]: the committed audit events about a, in order
          file,      \* file[r]: the final file under r's storage key
          flushed,   \* keys whose directory entry has reached the disk
          stage,     \* requests whose staging file exists
          pc,        \* where each request is
          attempt,   \* the attempt a request works on
          tracked,   \* requests whose key is in their cleanup_keys
          category,  \* the failure category a request carries
          seen,      \* the row a request last got from the database
          answer,    \* how the call ended
          leftover   \* history: requests for which a file deletion failed

database == <<row, audit>>
disk     == <<file, flushed, stage, leftover>>
local    == <<attempt, tracked, category, seen>>
vars     == <<row, audit, file, flushed, stage, pc, attempt, tracked, category,
              seen, answer, leftover>>

NoRow           == [status |-> "none", key |-> NoRequest, category |-> ""]
GeneratingRow   == [status |-> "generating", key |-> NoRequest, category |-> ""]
GeneratedRow(r) == [status |-> "generated", key |-> r, category |-> ""]
FailedRow(c)    == [status |-> "failed", key |-> NoRequest, category |-> c]

\* The states documents_generation_status_metadata_valid admits.
Rows == {NoRow, GeneratingRow} \cup {GeneratedRow(r) : r \in Requests}
                               \cup {FailedRow(c) : c \in Categories}
Terminal == {"generated", "failed"}

Holding == {"unstage", "verify", "finalize", "discard", "cleanup"}
Active  == {"prepare", "stage", "link", "mark"} \cup Holding
PCs     == Active \cup {"idle", "done", "crashed"}

Init == /\ row = [a \in Attempts |-> NoRow]
        /\ audit = [a \in Attempts |-> <<>>]
        /\ file = [r \in Requests |-> "absent"]
        /\ flushed = {}
        /\ stage = {}
        /\ pc = [r \in Requests |-> "idle"]
        /\ attempt = [r \in Requests |-> NoAttempt]
        /\ tracked = {}
        /\ category = [r \in Requests |-> ""]
        /\ seen = [r \in Requests |-> NoRow]
        /\ answer = [r \in Requests |-> "none"]
        /\ leftover = {}

--------------------------------------------------------------------------------
Goto(r, l)   == /\ pc' = [pc EXCEPT ![r] = l]
                /\ UNCHANGED answer
Finish(r, x) == /\ pc' = [pc EXCEPT ![r] = "done"]
                /\ answer' = [answer EXCEPT ![r] = x]
Raise(r, c)  == /\ category' = [category EXCEPT ![r] = c]
                /\ Goto(r, "cleanup")
See(r, x)    == seen' = [seen EXCEPT ![r] = x]

\* The reservation transaction inserts the row together with its audit event.
Reserve(a) == /\ row[a] = NoRow
              /\ row' = [row EXCEPT ![a] = GeneratingRow]
              /\ audit' = [audit EXCEPT ![a] = Append(@, "reserved")]
              /\ UNCHANGED <<disk, local, pc, answer>>

\* _owned_attempt finds no row of this actor: PermissionDenied.
Deny(r, a) == /\ pc[r] = "idle"
              /\ a \notin Owned[r] \/ row[a] = NoRow
              /\ attempt' = [attempt EXCEPT ![r] = a]
              /\ Finish(r, "denied")
              /\ UNCHANGED <<database, disk, tracked, category, seen>>

\* The attempt is already decided: return it, or raise its failure again.
Replay(r, a) == /\ pc[r] = "idle"
                /\ a \in Owned[r] /\ row[a].status \in Terminal
                /\ attempt' = [attempt EXCEPT ![r] = a]
                /\ See(r, row[a])
                /\ Finish(r, IF row[a].status = "generated" THEN "returned" ELSE "raised")
                /\ UNCHANGED <<database, disk, tracked, category>>

\* The attempt is still generating: work on it, unless the storage is not private.
Start(r, a) == /\ pc[r] = "idle"
               /\ a \in Owned[r] /\ row[a].status = "generating"
               /\ attempt' = [attempt EXCEPT ![r] = a]
               /\ See(r, row[a])
               /\ \/ /\ r \notin Unsuited
                     /\ Goto(r, "prepare")
                     /\ UNCHANGED category
                  \/ /\ r \in Unsuited
                     /\ category' = [category EXCEPT ![r] = "storage_error"]
                     /\ Goto(r, "mark")
               /\ UNCHANGED <<database, disk, tracked>>

\* Template bytes, rendering and file name: only immutable rows and files are read.
Prepare(r) == /\ pc[r] = "prepare"
              /\ \/ Goto(r, "stage") /\ UNCHANGED category
                 \/ \E c \in PrepareFailures : Raise(r, c)
              /\ UNCHANGED <<database, disk, attempt, tracked, seen>>

--------------------------------------------------------------------------------
(* _store_and_verify over PrivateFileSystemStorage.save_immutable *)

\* The key is remembered for cleanup before anything is written.
OpenStage(r) == /\ pc[r] = "stage"
                /\ tracked' = tracked \cup {r}
                /\ \/ /\ stage' = stage \cup {r}
                      /\ Goto(r, "link")
                      /\ UNCHANGED category
                   \/ /\ Raise(r, "storage_error")
                      /\ UNCHANGED stage
                /\ UNCHANGED <<database, file, flushed, leftover, attempt, seen>>

\* Write, fsync and chmod the staging file, link it to the final key, set the group.
\* category "" stands for "no exception so far" on the way to the finally clause.
Link(r) == /\ pc[r] = "link"
           /\ \/ \E content \in {"intact", "damaged"} :
                    file' = [file EXCEPT ![r] = content]
              \/ UNCHANGED file
           /\ \/ file'[r] # "absent" /\ category' = [category EXCEPT ![r] = ""]
              \/ category' = [category EXCEPT ![r] = "storage_error"]
           /\ Goto(r, "unstage")
           /\ UNCHANGED <<database, flushed, stage, leftover, attempt, tracked, seen>>

\* The finally clause removes the staging file; its own failure is an exception too.
Unstage(r) == /\ pc[r] = "unstage"
              /\ \/ /\ stage' = stage \ {r}
                    /\ UNCHANGED leftover
                    /\ \/ category[r] = "" /\ Goto(r, "verify") /\ UNCHANGED category
                       \/ category[r] # "" /\ Raise(r, category[r])
                 \/ /\ leftover' = leftover \cup {r}
                    /\ Raise(r, "storage_error")
                    /\ UNCHANGED stage
              /\ UNCHANGED <<database, file, flushed, attempt, tracked, seen>>

\* Mutant: the stored bytes are opened but not compared.
VerifyExistence(r) == /\ pc[r] = "verify"
                      /\ Goto(r, "finalize")
                      /\ UNCHANGED <<database, disk, local>>

\* Read the stored bytes back and compare size and checksum.
Verify(r) == /\ pc[r] = "verify"
             /\ \/ file[r] = "intact" /\ Goto(r, "finalize") /\ UNCHANGED category
                \/ file[r] # "intact" /\ Raise(r, "integrity_error")
                \/ Raise(r, "storage_error")
             /\ UNCHANGED <<database, disk, attempt, tracked, seen>>

--------------------------------------------------------------------------------
(* _finalize_success: one transaction that locks the row *)

\* Mutant: the locked row's status is not looked at.
FinalizeBlindly(r) ==
    /\ pc[r] = "finalize"
    /\ row' = [row EXCEPT ![attempt[r]] = GeneratedRow(r)]
    /\ audit' = [audit EXCEPT ![attempt[r]] = Append(@, "succeeded")]
    /\ See(r, GeneratedRow(r))
    /\ Finish(r, "returned")
    /\ UNCHANGED <<disk, attempt, tracked, category>>

FinalizeCommit(r) ==
    /\ pc[r] = "finalize"
    /\ row[attempt[r]].status = "generating"
    /\ row' = [row EXCEPT ![attempt[r]] = GeneratedRow(r)]
    /\ audit' = [audit EXCEPT ![attempt[r]] = Append(@, "succeeded")]
    /\ \/ /\ See(r, GeneratedRow(r))
          /\ Finish(r, "returned")
          /\ UNCHANGED category
       \/ /\ LostAck
          /\ Raise(r, "integrity_error")
          /\ UNCHANGED seen
    /\ UNCHANGED <<disk, attempt, tracked>>

\* Another request decided the attempt first: return its artifact or adopt its failure.
FinalizeSettled(r) ==
    /\ pc[r] = "finalize"
    /\ row[attempt[r]].status \in Terminal
    /\ See(r, row[attempt[r]])
    /\ \/ /\ row[attempt[r]].status = "generated"
          /\ Goto(r, "discard")
          /\ UNCHANGED category
       \/ /\ row[attempt[r]].status = "failed"
          /\ Raise(r, row[attempt[r]].category)
    /\ UNCHANGED <<database, disk, attempt, tracked>>

\* Mutant: the audit event is written outside the transaction.
RollbackKeepingAudit(r) ==
    /\ pc[r] = "finalize"
    /\ Raise(r, "integrity_error")
    /\ audit' = [audit EXCEPT ![attempt[r]] = Append(@, "succeeded")]
    /\ UNCHANGED <<row, disk, attempt, tracked, seen>>

\* Any exception rolls the row and its audit event back together.
FinalizeRollback(r) ==
    /\ pc[r] = "finalize"
    /\ Raise(r, "integrity_error")
    /\ UNCHANGED <<database, disk, attempt, tracked, seen>>

--------------------------------------------------------------------------------

(* _cleanup: errors are swallowed, so a file may stay *)
Erase(r) == \/ /\ file' = IF r \in tracked THEN [file EXCEPT ![r] = "absent"] ELSE file
               /\ UNCHANGED leftover
            \/ /\ r \in tracked /\ file[r] # "absent"
               /\ leftover' = leftover \cup {r}
               /\ UNCHANGED file

\* Mutant: the loser returns the winner's row and leaves its own file.
DiscardNothing(r) == /\ pc[r] = "discard"
                     /\ Finish(r, "returned")
                     /\ UNCHANGED <<database, disk, local>>

\* The loser of a race removes its own file and returns the winner's row.
Discard(r) == /\ pc[r] = "discard"
              /\ Erase(r)
              /\ Finish(r, "returned")
              /\ UNCHANGED <<database, flushed, stage, local>>

\* Mutant: the failure is raised without being recorded.
CleanupAndRaise(r) == /\ pc[r] = "cleanup"
                      /\ Erase(r)
                      /\ Finish(r, "raised")
                      /\ UNCHANGED <<database, flushed, stage, local>>

\* Cleanup comes before the failure is recorded.
Cleanup(r) == /\ pc[r] = "cleanup"
              /\ Erase(r)
              /\ Goto(r, "mark")
              /\ UNCHANGED <<database, flushed, stage, local>>

(* _mark_failed: one transaction that locks the row *)

MarkCommit(r) ==
    /\ pc[r] = "mark"
    /\ row[attempt[r]].status = "generating"
    /\ row' = [row EXCEPT ![attempt[r]] = FailedRow(category[r])]
    /\ audit' = [audit EXCEPT ![attempt[r]] = Append(@, "failed")]
    /\ \/ See(r, FailedRow(category[r])) /\ Finish(r, "raised")
       \/ LostAck /\ Finish(r, "error") /\ UNCHANGED seen
    /\ UNCHANGED <<disk, attempt, tracked, category>>

\* Mutant: the failure path raises whatever the row says.
MarkSettledRaising(r) ==
    /\ pc[r] = "mark"
    /\ row[attempt[r]].status \in Terminal
    /\ See(r, row[attempt[r]])
    /\ Finish(r, "raised")
    /\ UNCHANGED <<database, disk, attempt, tracked, category>>

\* Already decided: success is returned, except on the path of an unsuited storage,
\* which raises whatever the row says.
MarkSettled(r) ==
    /\ pc[r] = "mark"
    /\ row[attempt[r]].status \in Terminal
    /\ See(r, row[attempt[r]])
    /\ Finish(r, IF row[attempt[r]].status = "generated" /\ r \notin Unsuited
                 THEN "returned" ELSE "raised")
    /\ UNCHANGED <<database, disk, attempt, tracked, category>>

\* GenerationFailurePersistenceError: the attempt stays as it was.
MarkError(r) == /\ pc[r] = "mark"
                /\ Finish(r, "error")
                /\ UNCHANGED <<database, disk, local>>

--------------------------------------------------------------------------------
(* The environment *)

\* The worker dies; an open transaction with it, files stay.
Crash(r) == /\ pc[r] \in Active
            /\ Goto(r, "crashed")
            /\ UNCHANGED <<database, disk, local>>

\* The kernel writes the directory entry back; save_immutable does not wait for it.
WriteBack(r) == /\ HostLoss
                /\ file[r] # "absent" /\ r \notin flushed
                /\ flushed' = flushed \cup {r}
                /\ UNCHANGED <<database, file, stage, leftover, local, pc, answer>>

\* The host fails: every running request dies and unflushed entries may be gone.
HostFailure(lost) ==
    /\ HostLoss
    /\ lost \subseteq {r \in Requests : file[r] # "absent"} \ flushed
    /\ lost # {}
    /\ file' = [r \in Requests |-> IF r \in lost THEN "absent" ELSE file[r]]
    /\ pc' = [r \in Requests |-> IF pc[r] \in Active THEN "crashed" ELSE pc[r]]
    /\ UNCHANGED <<database, flushed, stage, leftover, local, answer>>

\* reconcile_private_files --cleanup-stale-staging: a staging file older than a day
\* belongs to a request that no longer runs.
ReclaimStage(r) == /\ r \in stage /\ pc[r] \notin Active
                   /\ stage' = stage \ {r}
                   /\ UNCHANGED <<database, file, flushed, leftover, local, pc, answer>>

Work(r) == \/ Prepare(r) \/ OpenStage(r) \/ Link(r) \/ Unstage(r) \/ Verify(r)
           \/ FinalizeCommit(r) \/ FinalizeSettled(r) \/ FinalizeRollback(r)
           \/ Discard(r) \/ Cleanup(r)
           \/ MarkCommit(r) \/ MarkSettled(r) \/ MarkError(r)

Terminated == /\ \A r \in Requests : pc[r] \in {"done", "crashed"}
              /\ UNCHANGED vars

Next == \/ \E a \in Attempts : Reserve(a)
        \/ \E r \in Requests, a \in Attempts : Deny(r, a) \/ Replay(r, a) \/ Start(r, a)
        \/ \E r \in Requests : Work(r)
        \/ \E r \in Requests : Crash(r) \/ WriteBack(r) \/ ReclaimStage(r)
        \/ \E lost \in SUBSET Requests : HostFailure(lost)
        \/ Terminated

Spec == Init /\ [][Next]_vars

\* A request thread that is neither killed nor blocked takes its next step: the
\* pipeline waits for nothing but the row lock, which a transaction holds for one step.
FairSpec == Spec /\ \A r \in Requests : WF_vars(Work(r))

--------------------------------------------------------------------------------
(* Properties *)

\* Every variable holds a value of its kind; rows are those the table's check
\* constraint documents_generation_status_metadata_valid admits.
TypeOK ==
    /\ row \in [Attempts -> Rows]
    /\ audit \in [Attempts -> Seq({"reserved", "succeeded", "failed"})]
    /\ file \in [Requests -> {"absent", "intact", "damaged"}]
    /\ flushed \subseteq Requests
    /\ stage \subseteq Requests
    /\ pc \in [Requests -> PCs]
    /\ attempt \in [Requests -> Attempts \cup {NoAttempt}]
    /\ tracked \subseteq Requests
    /\ category \in [Requests -> Categories \cup {""}]
    /\ seen \in [Requests -> Rows]
    /\ answer \in [Requests -> {"none", "denied", "returned", "raised", "error"}]
    /\ leftover \subseteq Requests

\* What the types leave out: a request at work has an attempt, and one that is about
\* to record a failure has a category the table's check constraint admits.
WellTyped ==
    /\ TypeOK
    /\ \A r \in Requests :
          /\ pc[r] \in Active => attempt[r] \in Attempts
          /\ pc[r] \in {"cleanup", "mark"} => category[r] \in Categories

\* A row in state generated names a file that exists and has the recorded bytes
\* (docs/specs/LGD_001_SPEC.md:23), whatever the requests racing on its attempt clean up.
GeneratedHasArtifact ==
    \A a \in Attempts : row[a].status = "generated" => file[row[a].key] = "intact"

\* What a caller is told is what the database says for good: the pipeline returns only
\* the attempt's committed artifact and raises GenerationAttemptFailed only with the
\* committed category, even when another request decided the attempt meanwhile.
ResponseIsCommitted ==
    \A r \in Requests :
        /\ answer[r] = "returned" => /\ seen[r].status = "generated"
                                     /\ row[attempt[r]] = seen[r]
        /\ answer[r] = "raised" => /\ seen[r].status = "failed"
                                   /\ row[attempt[r]] = seen[r]

\* A final file no generated row names is explained: its request still holds it before
\* its own cleanup, was killed, or could not delete it.  In particular no file of a
\* request survives the moment that request records or reports a failure.
OrphanIsExplained ==
    \A r \in Requests :
        file[r] # "absent" => \/ \E a \in Attempts : row[a] = GeneratedRow(r)
                              \/ pc[r] \in Holding \cup {"crashed"}
                              \/ r \in leftover

\* The audit trail of an attempt is exactly the history of its row: one reservation,
\* then one terminal event of the row's own kind, although several requests and retries
\* may try to decide it and transactions may fail.
AuditMatchesRow ==
    \A a \in Attempts :
        audit[a] = CASE row[a].status = "none" -> <<>>
                     [] row[a].status = "generating" -> <<"reserved">>
                     [] row[a].status = "generated" -> <<"reserved", "succeeded">>
                     [] row[a].status = "failed" -> <<"reserved", "failed">>

Late == {"cleanup", "mark", "done", "crashed"}   \* where a request is past finalization

KeysBelong ==
    \A a \in Attempts :
        row[a].status = "generated" => attempt[row[a].key] = a /\ pc[row[a].key] \in Late

FilesAreTracked ==
    \A r \in Requests : /\ pc[r] \in {"idle", "prepare", "stage", "link"} => file[r] = "absent"
                        /\ pc[r] = "link" \/ file[r] # "absent" => r \in tracked

LosersHoldTheWinner ==
    \A r \in Requests :
        pc[r] = "discard" => seen[r].status = "generated" /\ row[attempt[r]] = seen[r]

\* A generated row names the key of a request that worked on this very attempt and is
\* past its finalization, so no key serves two attempts; a request has no final file
\* before it links one and remembers its key as long as it has one; and a request that
\* lost the race holds the winner's committed row.
PipelineInv == WellTyped /\ KeysBelong /\ FilesAreTracked /\ LosersHoldTheWinner

\* Without lost acknowledgements and host failures, an intact file stays under its key
\* from its verification on, because only its own request ever removes it and that
\* request is over once the row names the key.
ArtifactInv ==
    /\ \A r \in Requests : pc[r] = "finalize" => file[r] = "intact"
    /\ \A a \in Attempts :
          row[a].status = "generated" =>
             /\ file[row[a].key] = "intact"
             /\ pc[row[a].key] \in {"done", "crashed"}

RowsOnlyMoveForward ==
    \A a \in Attempts : /\ row[a].status \in Terminal => row'[a] = row[a]
                        /\ row[a] # NoRow => row'[a] # NoRow

\* A decided attempt is never rewritten (LGD_001_SPEC.md:132) and no attempt is
\* withdrawn, whatever the other requests on it still intend to record.
DecisionsAreFinal == [][RowsOnlyMoveForward]_vars

\* A request that begins work on an attempt leaves it decided, unless the request is
\* killed or cannot write the failure (the caller is then told so).
WorkSettlesAttempt ==
    \A r \in Requests, a \in Attempts :
        (pc[r] \in Active /\ attempt[r] = a)
            ~> (row[a].status \in Terminal \/ pc[r] = "crashed" \/ answer[r] = "error")

--------------------------------------------------------------------------------
(* The pipeline implements AttemptLifecycle: a published attempt is a generated row *)
(* whose file is there to be read, and a caller hears what its call returned or raised. *)
OutcomeOf(x) ==
    CASE x.status = "none"       -> [kind |-> "absent", detail |-> ""]
      [] x.status = "generating" -> [kind |-> "pending", detail |-> ""]
      [] x.status = "failed"     -> [kind |-> "failed", detail |-> x.category]
      [] x.status = "generated"  ->
            [kind |-> IF file[x.key] = "intact" THEN "published" ELSE "lost", detail |-> x.key]

HeardBy(r) ==
    CASE answer[r] = "returned" -> [kind |-> "published", detail |-> seen[r].key]
      [] answer[r] = "raised"   -> [kind |-> "failed", detail |-> seen[r].category]
      [] OTHER                  -> [kind |-> "absent", detail |-> ""]

Lifecycle == INSTANCE AttemptLifecycle
                 WITH outcome <- [a \in Attempts |-> OutcomeOf(row[a])],
                      heard   <- [r \in Requests |-> HeardBy(r)]

\* Every behaviour of the pipeline is a behaviour of the abstract attempt.
ImplementsLifecycle == Lifecycle!ASpec
=================================================================================
