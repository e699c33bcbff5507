------------------------------ MODULE PrivateFiles ------------------------------
(* The readers of the artifacts: downloads (apps/documents/downloads.py behind    *)
(* download_views.py) and the command reconcile_private_files                     *)
(* (apps/documents/reconciliation.py), while GenerationArtifacts writes them.     *)
(*                                                                                *)
(* Of the private root this module has the generated artifacts: final files and   *)
(* staging files, named by the request whose key they carry.  The reconciliation  *)
(* reads the rows in one statement, then one file after the other.                *)
EXTENDS GenerationArtifacts

CONSTANTS Readers      \* requests for a download

VARIABLES scan,        \* where the reconciliation is
          known,       \* expected_keys
          todo,        \* the keys it has still to verify or to list
          report,      \* what it has counted, by key
          atStart,     \* history: what was wrong when it read the references
          rpc,         \* where each reader is
          asked,       \* the key that the row of its attempt names
          handle,      \* the content of the file it holds open
          trace        \* its committed audit event

fvars == <<scan, known, todo, report, atStart>>
dlvars == <<rpc, asked, handle, trace>>
pvars == <<vars, fvars, dlvars>>

Published == {row[a].key : a \in {b \in Attempts : row[b].status = "generated"}}
Orphans   == {k \in Requests : file[k] # "absent"} \ Published

Nothing == [missing |-> {}, modified |-> {}, orphaned |-> {}, staging |-> {},
            errors |-> FALSE]

FilesInit == /\ Init
             /\ scan = "idle" /\ known = {} /\ todo = {}
             /\ report = Nothing
             /\ atStart = [broken |-> {}, orphans |-> {}]
             /\ rpc = [d \in Readers |-> "idle"]
             /\ asked = [d \in Readers |-> NoRequest]
             /\ handle = [d \in Readers |-> "absent"]
             /\ trace = [d \in Readers |-> "none"]

--------------------------------------------------------------------------------
(* reconcile_private_files *)

Count(kind, k) == report' = [report EXCEPT ![kind] = @ \cup {k}]
CountError     == report' = [report EXCEPT !.errors = TRUE]
Visited(k)     == todo' = todo \ {k}

\* The references: the keys of all rows in state generated, as one statement sees them.
BeginScan == /\ scan = "idle"
             /\ scan' = "verify"
             /\ known' = Published
             /\ todo' = Published
             /\ atStart' = [broken |-> {k \in Published : file[k] # "intact"},
                            orphans |-> Orphans]
             /\ UNCHANGED <<vars, report, dlvars>>

\* Mutant: an unreadable file is skipped without being counted.
VerifySilently(k) == /\ scan = "verify" /\ k \in todo
                     /\ \/ file[k] = "absent" /\ Count("missing", k)
                        \/ file[k] = "damaged" /\ Count("modified", k)
                        \/ UNCHANGED report
                     /\ Visited(k)
                     /\ UNCHANGED <<vars, scan, known, atStart, dlvars>>

\* Mutant: whatever goes wrong, the file is counted as missing.
VerifyAsMissing(k) == /\ scan = "verify" /\ k \in todo
                      /\ \/ file[k] = "damaged" /\ Count("modified", k)
                         \/ file[k] = "intact" /\ UNCHANGED report
                         \/ Count("missing", k)
                      /\ Visited(k)
                      /\ UNCHANGED <<vars, scan, known, atStart, dlvars>>

\* _verify_reference: the file is absent, has other bytes, or cannot be read.
VerifyReference(k) == /\ scan = "verify" /\ k \in todo
                      /\ \/ file[k] = "absent" /\ Count("missing", k)
                         \/ file[k] = "damaged" /\ Count("modified", k)
                         \/ file[k] = "intact" /\ UNCHANGED report
                         \/ CountError
                      /\ Visited(k)
                      /\ UNCHANGED <<vars, scan, known, atStart, dlvars>>

BeginInventory == /\ scan = "verify" /\ todo = {}
                  /\ scan' = "list"
                  /\ todo' = Requests
                  /\ UNCHANGED <<vars, known, report, atStart, dlvars>>

\* A final file whose key is not in expected_keys.
OrphanAt(k) == k \notin known /\ file[k] # "absent"

\* A staging file is stale when its request no longer runs: no request lives for a day.
Stale(k) == k \in stage /\ pc[k] \notin Active

\* The directory of a key is listed: a final file that no reference named is an orphan.  A
\* stale staging file is a breach, unless it is removed: it may be young yet, the run may
\* not have been asked to clean up, or the file may not go.
List(k) == /\ scan = "list" /\ k \in todo
           /\ Visited(k)
           /\ \E orphaned \in {IF OrphanAt(k) THEN {k} ELSE {}} :
                 \/ /\ report' = [report EXCEPT !.orphaned = @ \cup orphaned]
                    /\ \/ UNCHANGED stage
                       \/ Stale(k) /\ stage' = stage \ {k}
                 \/ /\ Stale(k)
                    /\ report' = [report EXCEPT !.orphaned = @ \cup orphaned,
                                                !.staging = @ \cup {k}]
                    /\ UNCHANGED stage
           /\ UNCHANGED <<database, file, flushed, leftover, local, pc, answer,
                          scan, known, atStart, dlvars>>

\* os.scandir fails: the rest of the directory stays unseen and the error is counted.
ListFails(k) == /\ scan = "list" /\ k \in todo
                /\ CountError
                /\ Visited(k)
                /\ UNCHANGED <<vars, scan, known, atStart, dlvars>>

EndScan == /\ scan = "list" /\ todo = {}
           /\ scan' = "done"
           /\ UNCHANGED <<vars, known, todo, report, atStart, dlvars>>

\* What integrity_breaches sums up: the run ends as "ok" only if there is nothing of it.
Breaches == report.missing \cup report.modified \cup report.orphaned \cup report.staging

Reconcile == \/ BeginScan \/ BeginInventory \/ EndScan
             \/ \E k \in Requests : VerifyReference(k) \/ List(k) \/ ListFails(k)

--------------------------------------------------------------------------------
(* open_generated_document_download *)

Step(d, l)   == rpc' = [rpc EXCEPT ![d] = l]
Record(d, o) == trace' = [trace EXCEPT ![d] = o]

\* The last audit event of a refused download; when it cannot be written, the request fails.
Refused(d, o) == /\ Step(d, "refused")
                 /\ Record(d, o) \/ UNCHANGED trace
                 /\ handle' = [handle EXCEPT ![d] = "absent"]

\* The permission, then the attempt: only a generated one that the actor may access.
Ask(d, a) == /\ rpc[d] = "idle"
             /\ \/ /\ Refused(d, "denied")
                   /\ UNCHANGED asked
                \/ /\ row[a].status = "generated"
                   /\ asked' = [asked EXCEPT ![d] = row[a].key]
                   /\ Step(d, "open")
                   /\ UNCHANGED <<handle, trace>>
             /\ UNCHANGED <<vars, fvars>>

\* Mutant: the bytes that were read are not compared with the row.
ReadUnchecked(d) == /\ rpc[d] = "open"
                    /\ \/ /\ file[asked[d]] # "absent"
                          /\ handle' = [handle EXCEPT ![d] = file[asked[d]]]
                          /\ Step(d, "record")
                          /\ UNCHANGED trace
                       \/ Refused(d, "failure")
                    /\ UNCHANGED <<vars, fvars, asked>>

\* Open, read and compare size and checksum; the handle outlives the directory entry.
ReadArtifact(d) == /\ rpc[d] = "open"
                   /\ \/ /\ file[asked[d]] = "intact"
                         /\ handle' = [handle EXCEPT ![d] = "intact"]
                         /\ Step(d, "record")
                         /\ UNCHANGED trace
                      \/ Refused(d, "failure")
                   /\ UNCHANGED <<vars, fvars, asked>>

\* The success event first; without it the file is closed and nothing is handed out.
HandOut(d) == /\ rpc[d] = "record"
              /\ \/ /\ Record(d, "success")
                    /\ Step(d, "served")
                    /\ UNCHANGED handle
                 \/ /\ Step(d, "refused")
                    /\ handle' = [handle EXCEPT ![d] = "absent"]
                    /\ UNCHANGED trace \/ (LostAck /\ Record(d, "success"))
              /\ UNCHANGED <<vars, fvars, asked>>

Read(d) == (\E a \in Attempts : Ask(d, a)) \/ ReadArtifact(d) \/ HandOut(d)

--------------------------------------------------------------------------------
\* Outside the program, a restore from the wrong backup puts other bytes in the place of an
\* artifact; who holds the old file open keeps it.
Replace(k) == /\ HostLoss
              /\ k \in Published /\ file[k] = "intact"
              /\ file' = [file EXCEPT ![k] = "damaged"]
              /\ UNCHANGED <<database, flushed, stage, leftover, local, pc, answer>>

\* The pipeline of GenerationArtifacts; staging files are reclaimed by List only.
Write == /\ \/ \E k \in Requests : Replace(k)
            \/ \E a \in Attempts : Reserve(a)
            \/ \E r \in Requests, a \in Attempts : Deny(r, a) \/ Replay(r, a) \/ Start(r, a)
            \/ \E r \in Requests : Work(r) \/ Crash(r) \/ WriteBack(r)
            \/ \E lost \in SUBSET Requests : HostFailure(lost)
         /\ UNCHANGED <<scan, known, todo, report, atStart, dlvars>>

FilesNext == Write \/ Reconcile \/ (\E d \in Readers : Read(d))

FilesSpec == FilesInit /\ [][FilesNext]_pvars

--------------------------------------------------------------------------------
(* Properties *)

\* Every variable of the readers holds a value of its kind.
FilesTypeOK ==
    /\ scan \in {"idle", "verify", "list", "done"}
    /\ known \subseteq Requests /\ todo \subseteq Requests
    /\ report \in [missing : SUBSET Requests, modified : SUBSET Requests,
                   orphaned : SUBSET Requests, staging : SUBSET Requests, errors : BOOLEAN]
    /\ atStart \in [broken : SUBSET Requests, orphans : SUBSET Requests]
    /\ rpc \in [Readers -> {"idle", "open", "record", "served", "refused"}]
    /\ asked \in [Readers -> Requests \cup {NoRequest}]
    /\ handle \in [Readers -> {"absent", "intact", "damaged"}]
    /\ trace \in [Readers -> {"none", "denied", "failure", "success"}]

\* A breach that was there when the reconciliation began, and still is when it ends, is in
\* its report, whatever requests did to the other files meanwhile, unless the report says
\* that something could not be read (docs/operations/private-file-reconciliation.md: "An
\* interrupted scan is not converted into a successful result").
BreachesAreReported ==
    (scan = "done" /\ ~report.errors) =>
        /\ atStart.broken \subseteq Breaches
        /\ (atStart.orphans \cap Orphans) \subseteq Breaches

\* A missing or modified artifact of the report is one: the pipeline never repairs a file
\* and never gives its key to another one, so the finding does not go out of date.
AlarmsAreReal ==
    \A k \in report.missing \cup report.modified : k \in Published /\ file[k] # "intact"

\* What a download hands out are the bytes the row recorded, although the file may be
\* deleted or lost under the open handle, and the audit trail knows of it before the first
\* byte leaves (LGD_001_SPEC.md:613 lists "every generated-file download").
DownloadsAreOnRecord ==
    \A d \in Readers : rpc[d] = "served" => /\ trace[d] = "success"
                                            /\ handle[d] = "intact"
                                            /\ asked[d] \in Published

\* A published key whose file is not what its row recorded.
Broken(k) == k \in Published /\ file[k] # "intact"

\* The request of k will not write its file any more.
Settled(k) == pc[k] \notin {"idle", "prepare", "stage", "link"}

\* What was wrong at the start is wrong until somebody outside the program sets it right: a
\* broken file is not mended, and no orphan comes back that once went.
FindingsStand ==
    /\ \A k \in atStart.broken : Broken(k)
    /\ \A k \in atStart.orphans : Settled(k)
    /\ scan # "idle" => /\ known \subseteq Published
                        /\ atStart.broken \subseteq known
                        /\ atStart.orphans \cap known = {}
    /\ scan = "verify" => todo \subseteq known

\* Of what was wrong, the report has what the scan has passed.
PassedIsReported ==
    /\ \A k \in atStart.broken :
          k \in Breaches \/ report.errors \/ (scan = "verify" /\ k \in todo)
    /\ scan \in {"list", "done"} =>
          \A k \in atStart.orphans \cap Orphans :
             k \in Breaches \/ report.errors \/ (scan = "list" /\ k \in todo)

ReadersAskForPublished ==
    \A d \in Readers :
        /\ rpc[d] \in {"open", "record", "served"} => asked[d] \in Published
        /\ rpc[d] \in {"record", "served"} => handle[d] = "intact"
        /\ rpc[d] = "served" => trace[d] = "success"

\* The inductive invariant of the readers.
FilesInv == /\ WellTyped /\ KeysBelong /\ FilesAreTracked
            /\ FindingsStand /\ PassedIsReported /\ AlarmsAreReal /\ ReadersAskForPublished
=================================================================================
