---------------------------- MODULE TemplateVersions ----------------------------
(* Template versions of one registered document type (apps/documents/services.py, *)
(* models.py): uploads that store a file and a TemplateVersion row and validate   *)
(* it, and sessions that activate, deactivate or reserve from a page they viewed  *)
(* earlier.                                                                       *)
(*                                                                                *)
(* An upload builds one fresh storage key and creates at most one row, so the     *)
(* upload names both.  Transitions and reservations of the type take an advisory  *)
(* lock before they read; the row locks they take on top of it and the partial    *)
(* unique index on active rows are left out, so what holds here holds by the      *)
(* advisory lock alone.                                                           *)
EXTENDS Sequences

CONSTANTS Uploads,    \* calls of upload_and_validate_template
          VersionOf,  \* VersionOf[u]: the version string the upload proposes
          Sessions,   \* page views with the confirmation that may follow
          NoVersion,  \* no template version
          Nobody      \* no session

ASSUME ConstantsAssumption == NoVersion \notin Uploads /\ Nobody \notin Sessions

VARIABLES status,     \* the committed status of the row of upload u
          activatedBy,\* the session recorded as activated_by
          trail,      \* trail[u]: the committed lifecycle events of version u
          stored,     \* uploads whose file is in the private storage
          at,         \* where each upload is
          cause,      \* the exception an upload carries to its cleanup
          told,       \* how an upload call ended
          refused,    \* uploads with a committed failure event
          typeLock,   \* the session holding the advisory lock of the type
          pc,         \* where each session is
          goal,       \* what a session is to do
          target,     \* the version a session is about
          shown,      \* the active version its page showed
          read,       \* what it read under the lock
          reply,      \* how its request ended
          denied,     \* sessions with a committed failure event
          reserved    \* the template version of the attempt a session reserved

versions == <<status, activatedBy, trail>>
uploads  == <<stored, at, cause, told, refused>>
sessions == <<typeLock, pc, goal, target, shown, read, reply, denied, reserved>>
vars     == <<status, activatedBy, trail, stored, at, cause, told, refused, typeLock, pc,
              goal, target, shown, read, reply, denied, reserved>>

Statuses == {"absent", "uploaded", "valid", "invalid", "active", "inactive"}
Events   == {"uploaded", "valid", "invalid", "activated", "deactivated"}
Goals    == {"activate", "deactivate", "generate"}

Uploading == {"store", "clean", "insert", "undo", "settle"}
Places    == Uploading \cup {"idle", "done", "killed"}
Causes    == {"none", "OSError", "ValidationError", "IntegrityError"}
Outcomes  == {"none", "returned", "duplicate", "invalid", "storage_error", "error"}

PCs     == {"idle", "viewed", "form", "post", "locked", "decide", "refuse", "done"}
Replies == {"none", "stale", "rejected", "done", "conflict", "error"}

ActiveSet == {v \in Uploads : status[v] = "active"}

\* The first active row, as the pages and the transitions query it.
ActiveIds == IF ActiveSet = {} THEN {NoVersion} ELSE ActiveSet

Init == /\ status = [u \in Uploads |-> "absent"]
        /\ activatedBy = [u \in Uploads |-> Nobody]
        /\ trail = [u \in Uploads |-> <<>>]
        /\ stored = {}
        /\ at = [u \in Uploads |-> "idle"]
        /\ cause = [u \in Uploads |-> "none"]
        /\ told = [u \in Uploads |-> "none"]
        /\ refused = {}
        /\ typeLock = Nobody
        /\ pc = [s \in Sessions |-> "idle"]
        /\ goal = [s \in Sessions |-> "none"]
        /\ target = [s \in Sessions |-> NoVersion]
        /\ shown = [s \in Sessions |-> NoVersion]
        /\ read = [s \in Sessions |-> [status |-> "absent", active |-> NoVersion]]
        /\ reply = [s \in Sessions |-> "none"]
        /\ denied = {}
        /\ reserved = [s \in Sessions |-> NoVersion]

Record(u, event) == trail' = [trail EXCEPT ![u] = Append(@, event)]

--------------------------------------------------------------------------------
(* upload_and_validate_template *)
To(u, l)  == at' = [at EXCEPT ![u] = l] /\ UNCHANGED told
End(u, x) == at' = [at EXCEPT ![u] = "done"] /\ told' = [told EXCEPT ![u] = x]

Taken(u) == \E v \in Uploads : VersionOf[v] = VersionOf[u] /\ status[v] # "absent"

\* The unlocked look for the version, then the bounded copy of the upload stream.
Propose(u) == /\ at[u] = "idle"
              /\ \/ Taken(u) /\ End(u, "duplicate") /\ UNCHANGED refused
                 \/ ~Taken(u) /\ To(u, "store") /\ UNCHANGED refused
                 \/ ~Taken(u) /\ End(u, "invalid") /\ refused' = refused \cup {u}
              /\ UNCHANGED <<versions, sessions, stored, cause>>

\* storage.save; an OSError may leave a file behind.
Store(u) == /\ at[u] = "store"
            /\ \/ stored' = stored \cup {u} /\ To(u, "clean") /\ UNCHANGED cause
               \/ /\ stored' \in {stored, stored \cup {u}}
                  /\ cause' = [cause EXCEPT ![u] = "OSError"]
                  /\ To(u, "undo")
            /\ UNCHANGED <<versions, sessions, refused>>

\* save() begins with full_clean, which queries the unique constraints.
Clean(u) == /\ at[u] = "clean"
            /\ \/ ~Taken(u) /\ To(u, "insert") /\ UNCHANGED cause
               \/ /\ Taken(u)
                  /\ cause' = [cause EXCEPT ![u] = "ValidationError"]
                  /\ To(u, "undo")
            /\ UNCHANGED <<versions, sessions, stored, refused>>

\* INSERT and the event commit together.  The unique index decides between racing
\* uploads; a DatabaseError is not caught here, and the COMMIT it hides may have happened.
Insert(u) ==
    /\ at[u] = "insert"
    /\ \/ /\ ~Taken(u)
          /\ status' = [status EXCEPT ![u] = "uploaded"]
          /\ Record(u, "uploaded")
          /\ To(u, "settle") \/ End(u, "error")
          /\ UNCHANGED cause
       \/ /\ Taken(u)
          /\ cause' = [cause EXCEPT ![u] = "IntegrityError"]
          /\ To(u, "undo")
          /\ UNCHANGED <<status, trail>>
       \/ /\ End(u, "error")
          /\ UNCHANGED <<status, trail, cause>>
    /\ UNCHANGED <<sessions, activatedBy, stored, refused>>

\* Mutant: the failure is audited and the file left for later.
UndoLater(u) == /\ at[u] = "undo"
                /\ refused' = refused \cup {u}
                /\ End(u, "storage_error")
                /\ UNCHANGED <<versions, sessions, stored, cause>>

\* Mutant: the cleanup goes by the version instead of the fresh key.
UndoByVersion(u) == /\ at[u] = "undo"
                    /\ stored' = {v \in stored : VersionOf[v] # VersionOf[u]}
                    /\ refused' = refused \cup {u}
                    /\ End(u, "storage_error")
                    /\ UNCHANGED <<versions, sessions, cause>>

\* Delete what was saved, then record the failure; either may raise in turn.
Undo(u) == /\ at[u] = "undo"
           /\ \/ /\ stored' = stored \ {u}
                 /\ refused' = refused \cup {u}
                 /\ End(u, IF cause[u] = "IntegrityError" THEN "duplicate" ELSE "storage_error")
              \/ /\ stored' \in {stored, stored \ {u}}
                 /\ End(u, "error")
                 /\ UNCHANGED refused
           /\ UNCHANGED <<versions, sessions, cause>>

\* Mutant: the outcome of the validation is written without its event.
SettleSilently(u) == /\ at[u] = "settle"
                     /\ \E x \in {"valid", "invalid"} : status' = [status EXCEPT ![u] = x]
                     /\ End(u, "returned")
                     /\ UNCHANGED <<sessions, activatedBy, trail, stored, cause, refused>>

\* Validate and render outside any transaction, then commit report, status and event.
Settle(u) ==
    /\ at[u] = "settle"
    /\ \/ /\ \E x \in {"valid", "invalid"} :
                status' = [status EXCEPT ![u] = x] /\ Record(u, x)
          /\ End(u, "returned") \/ End(u, "error")
       \/ End(u, "error") /\ UNCHANGED <<status, trail>>
    /\ UNCHANGED <<sessions, activatedBy, stored, cause, refused>>

UploadStep(u) == Propose(u) \/ Store(u) \/ Clean(u) \/ Insert(u) \/ Undo(u) \/ Settle(u)

\* The worker process is killed; an open transaction rolls back.
Kill(u) == /\ at[u] \in Uploading
           /\ To(u, "killed")
           /\ UNCHANGED <<versions, sessions, stored, cause, refused>>

--------------------------------------------------------------------------------
(* The pages: _perform_transition on GET, _render_transition, _generation_form *)
Go(s, l)     == pc' = [pc EXCEPT ![s] = l] /\ UNCHANGED reply
Answer(s, x) == pc' = [pc EXCEPT ![s] = "done"] /\ reply' = [reply EXCEPT ![s] = x]

\* What the page of a goal requires of its version.
ExpectedState(g) == IF g = "activate" THEN "valid" ELSE "active"

\* The template row is read first; a version in another state gets no form.
View(s, g, v) == /\ pc[s] = "idle" /\ status[v] # "absent"
                 /\ goal' = [goal EXCEPT ![s] = g]
                 /\ target' = [target EXCEPT ![s] = v]
                 /\ \/ status[v] = ExpectedState(g) /\ Go(s, "viewed")
                    \/ status[v] # ExpectedState(g) /\ Answer(s, "stale")
                 /\ UNCHANGED <<versions, uploads, typeLock, shown, read, denied, reserved>>

\* A second query reads the active version the form will carry.
Show(s) == /\ pc[s] = "viewed"
           /\ \E v \in ActiveIds : shown' = [shown EXCEPT ![s] = v]
           /\ Go(s, "form")
           /\ UNCHANGED <<versions, uploads, typeLock, goal, target, read, denied, reserved>>

\* The generation form is offered only with an active version.
ViewGeneration(s) == /\ pc[s] = "idle"
                     /\ goal' = [goal EXCEPT ![s] = "generate"]
                     /\ \E v \in ActiveSet : /\ target' = [target EXCEPT ![s] = v]
                                             /\ shown' = [shown EXCEPT ![s] = v]
                     /\ Go(s, "form")
                     /\ UNCHANGED <<versions, uploads, typeLock, read, denied, reserved>>

Submit(s) == /\ pc[s] = "form"
             /\ Go(s, "post")
             /\ UNCHANGED <<versions, uploads, typeLock, goal, target, shown, read, denied,
                            reserved>>

\* A form that does not validate is recorded as a failed confirmation.
Misconfirm(s) == /\ pc[s] = "form" /\ goal[s] # "generate"
                 /\ denied' = denied \cup {s}
                 /\ Answer(s, "rejected")
                 /\ UNCHANGED <<versions, uploads, typeLock, goal, target, shown, read, reserved>>

--------------------------------------------------------------------------------
(* activate_template_version, deactivate_template_version, _active_template *)
\* Mutant: the advisory lock is the connection's instead of the transaction's.
ReleaseLater == UNCHANGED typeLock

\* The advisory lock ends with its transaction.
Release == typeLock' = Nobody

Lock(s) == /\ pc[s] = "post" /\ typeLock = Nobody
           /\ typeLock' = s
           /\ Go(s, "locked")
           /\ UNCHANGED <<versions, uploads, goal, target, shown, read, denied, reserved>>

Read(s) == /\ pc[s] = "locked"
           /\ \E v \in ActiveIds :
                 read' = [read EXCEPT ![s] = [status |-> status[target[s]], active |-> v]]
           /\ Go(s, "decide")
           /\ UNCHANGED <<versions, uploads, typeLock, goal, target, shown, denied, reserved>>

\* Mutant: the active version the page showed is not compared.
IgnoringThePage(s) == read[s].status = ExpectedState(goal[s])

\* Mutant: the locked status is not compared.
IgnoringTheStatus(s) == read[s].active = shown[s]

\* What the transaction read is what the page showed.
Current(s) == /\ read[s].active = shown[s]
              /\ goal[s] = "generate" \/ read[s].status = ExpectedState(goal[s])
              /\ goal[s] = "deactivate" => shown[s] = target[s]

\* The previous version becomes inactive, the selected one active, each with its event.
Activate(s) ==
    /\ pc[s] = "decide" /\ goal[s] = "activate" /\ Current(s)
    /\ status' = [v \in Uploads |-> CASE v = target[s] -> "active"
                                      [] v = read[s].active -> "inactive"
                                      [] OTHER -> status[v]]
    /\ trail' = [v \in Uploads |-> CASE v = target[s] -> Append(trail[v], "activated")
                                     [] v = read[s].active -> Append(trail[v], "deactivated")
                                     [] OTHER -> trail[v]]
    /\ activatedBy' = [activatedBy EXCEPT ![target[s]] = s]
    /\ Answer(s, "done") \/ Answer(s, "error")
    /\ Release
    /\ UNCHANGED <<uploads, goal, target, shown, read, denied, reserved>>

\* Mutant: deactivation clears the activation metadata.
DeactivateForgetting(s) ==
    /\ pc[s] = "decide" /\ goal[s] = "deactivate" /\ Current(s)
    /\ status' = [status EXCEPT ![target[s]] = "inactive"]
    /\ Record(target[s], "deactivated")
    /\ activatedBy' = [activatedBy EXCEPT ![target[s]] = Nobody]
    /\ Answer(s, "done")
    /\ Release
    /\ UNCHANGED <<uploads, goal, target, shown, read, denied, reserved>>

Deactivate(s) ==
    /\ pc[s] = "decide" /\ goal[s] = "deactivate" /\ Current(s)
    /\ status' = [status EXCEPT ![target[s]] = "inactive"]
    /\ Record(target[s], "deactivated")
    /\ Answer(s, "done") \/ Answer(s, "error")
    /\ Release
    /\ UNCHANGED <<uploads, activatedBy, goal, target, shown, read, denied, reserved>>

\* reserve_generation commits an attempt that names the version it read as active.
Reserve(s) ==
    /\ pc[s] = "decide" /\ goal[s] = "generate" /\ Current(s)
    /\ reserved' = [reserved EXCEPT ![s] = read[s].active]
    /\ Answer(s, "done") \/ Answer(s, "error")
    /\ Release
    /\ UNCHANGED <<versions, uploads, goal, target, shown, read, denied>>

\* The transaction rolls back; a transition then records the refusal on its own.
Conflict(s) ==
    /\ pc[s] = "decide" /\ ~Current(s)
    /\ \/ goal[s] = "generate" /\ Answer(s, "conflict")
       \/ goal[s] # "generate" /\ Go(s, "refuse")
    /\ Release
    /\ UNCHANGED <<versions, uploads, goal, target, shown, read, denied, reserved>>

Refuse(s) == /\ pc[s] = "refuse"
             /\ denied' = denied \cup {s}
             /\ Answer(s, "conflict")
             /\ UNCHANGED <<versions, uploads, typeLock, goal, target, shown, read, reserved>>

\* A database error or a kill ends the request and, with its connection, the lock.
Fail(s) == /\ pc[s] \in {"post", "locked", "decide", "refuse"}
           /\ Answer(s, "error")
           /\ typeLock' = IF typeLock = s THEN Nobody ELSE typeLock
           /\ UNCHANGED <<versions, uploads, goal, target, shown, read, denied, reserved>>

Decide(s) == Activate(s) \/ Deactivate(s) \/ Reserve(s) \/ Conflict(s)

Serve(s) == Lock(s) \/ Read(s) \/ Decide(s) \/ Refuse(s)

Browse(s) == \/ \E g \in {"activate", "deactivate"}, v \in Uploads : View(s, g, v)
             \/ Show(s) \/ ViewGeneration(s) \/ Submit(s) \/ Misconfirm(s)

\* All uploads have ended and every session is over or waits for its user.
Rest == /\ \A u \in Uploads : at[u] \in {"done", "killed"}
        /\ \A s \in Sessions : pc[s] \in {"idle", "done"}
        /\ UNCHANGED vars

Next == \/ \E u \in Uploads : UploadStep(u) \/ Kill(u)
        \/ \E s \in Sessions : Browse(s) \/ Serve(s) \/ Fail(s)
        \/ Rest

Spec == Init /\ [][Next]_vars

\* A worker process runs its request to the end unless it is killed; what a user does
\* with a page is up to the user.
Fairness == /\ \A u \in Uploads : WF_vars(at[u] # "idle" /\ UploadStep(u))
            /\ \A s \in Sessions : WF_vars(Serve(s))

FairSpec == Spec /\ Fairness

--------------------------------------------------------------------------------
VersionsTyped == /\ status \in [Uploads -> Statuses]
                 /\ activatedBy \in [Uploads -> Sessions \cup {Nobody}]
                 /\ trail \in [Uploads -> Seq(Events)]

UploadsTyped == /\ stored \subseteq Uploads
                /\ at \in [Uploads -> Places]
                /\ cause \in [Uploads -> Causes]
                /\ told \in [Uploads -> Outcomes]
                /\ refused \subseteq Uploads

SessionsTyped == /\ typeLock \in Sessions \cup {Nobody}
                 /\ pc \in [Sessions -> PCs]
                 /\ goal \in [Sessions -> Goals \cup {"none"}]
                 /\ target \in [Sessions -> Uploads \cup {NoVersion}]
                 /\ shown \in [Sessions -> Uploads \cup {NoVersion}]
                 /\ read \in [Sessions -> [status : Statuses, active : Uploads \cup {NoVersion}]]
                 /\ reply \in [Sessions -> Replies]
                 /\ denied \subseteq Sessions
                 /\ reserved \in [Sessions -> Uploads \cup {NoVersion}]
                 /\ \A s \in Sessions : pc[s] \notin {"idle", "done"} => target[s] \in Uploads

TypeOK == VersionsTyped /\ UploadsTyped /\ SessionsTyped

\* At most one version of a type is active (FR-TPL-04, LGD_001_SPEC.md:210), by the
\* advisory lock alone: the partial unique index documents_one_active_template_per_type
\* is never needed.
OneActive == \A v, w \in ActiveSet : v = w

\* What a session read under the lock still holds when it decides, although uploads
\* commit in between and other sessions hold the same page.
DecisionsAreCurrent ==
    \A s \in Sessions :
        pc[s] = "decide" => /\ read[s].active \in ActiveIds
                            /\ read[s].status \in {"valid", "active"} =>
                                   read[s].status = status[target[s]]

\* The lock is held exactly by the session that is inside its transaction.
LockIsHeld == \A s \in Sessions : typeLock = s <=> pc[s] \in {"locked", "decide"}

\* What a session knows when it is about to decide.
SessionsKnow ==
    \A s \in Sessions :
        /\ pc[s] \notin {"idle", "done"} => goal[s] \in Goals
        /\ pc[s] = "viewed" => goal[s] # "generate"
        /\ goal[s] = "generate" => shown[s] = target[s]
        /\ pc[s] # "done" => reserved[s] = NoVersion

\* An upload has its row from the insertion on, and its row waits for the validation.
RowsFollowUploads ==
    \A u \in Uploads :
        /\ at[u] \in {"idle", "store", "clean", "insert", "undo"} => status[u] = "absent"
        /\ at[u] = "settle" => status[u] = "uploaded"

\* The inductive strengthening of OneActive.
TemplateInv == /\ OneActive /\ DecisionsAreCurrent
               /\ LockIsHeld /\ SessionsKnow /\ RowsFollowUploads

\* The active version changes only by a session whose page showed the version active at
\* that very moment, however long ago the page was made: nobody replaces a version they
\* have not seen (the 409 of LGD_001_SPEC.md:578).
OnlySeenVersionsChange ==
    ActiveSet' # ActiveSet =>
        \E s \in Sessions : /\ pc[s] = "decide" /\ pc'[s] # "decide"
                            /\ ActiveIds = {shown[s]}

ChangesWereSeen == [][OnlySeenVersionsChange]_vars

\* A success reported to a session took effect and is still on record, with the session
\* as the one who activated; a session told of a conflict changed nothing, and its
\* refusal is on record.
RepliesAreTrue ==
    \A s \in Sessions :
        /\ reply[s] = "done" =>
              CASE goal[s] = "activate" -> /\ status[target[s]] \in {"active", "inactive"}
                                           /\ activatedBy[target[s]] = s
                [] goal[s] = "deactivate" -> status[target[s]] = "inactive"
                [] goal[s] = "generate" -> reserved[s] = target[s]
        /\ reply[s] \in {"stale", "rejected", "conflict"} =>
              /\ \A v \in Uploads : activatedBy[v] # s
              /\ reserved[s] = NoVersion
              /\ reply[s] = "conflict" /\ goal[s] # "generate" => s \in denied

\* A version on record has its file: no cleanup of an upload ever removes the file of a
\* row that was committed, whoever heard of the commit.
TemplateHasFile == \A u \in Uploads : status[u] # "absent" => u \in stored

\* A file without a row is explained: its upload is still at work, was killed, or failed
\* with an error that its cleanup does not cover or could not handle.
OrphanUploadIsExplained ==
    \A u \in stored : \/ status[u] # "absent"
                      \/ at[u] \in {"clean", "insert", "undo", "killed"}
                      \/ told[u] = "error"

\* The path of SPEC 17.2 to a status.
PathTo(x) == CASE x = "absent" -> <<>>
               [] x = "uploaded" -> <<"uploaded">>
               [] x = "valid" -> <<"uploaded", "valid">>
               [] x = "invalid" -> <<"uploaded", "invalid">>
               [] x = "active" -> <<"uploaded", "valid", "activated">>
               [] x = "inactive" -> <<"uploaded", "valid", "activated", "deactivated">>

\* The audit trail of a version is the path to its status, and activated_by is set exactly
\* for versions that have been active.
TrailMatchesStatus ==
    \A u \in Uploads : /\ trail[u] = PathTo(status[u])
                       /\ status[u] \in {"active", "inactive"} <=> activatedBy[u] # Nobody

\* A file is there from the end of its storage on, while its upload goes well.
FilesFollowUploads ==
    \A u \in Uploads : /\ at[u] \in {"idle", "store"} => u \notin stored
                       /\ at[u] \in {"clean", "insert", "settle"} => u \in stored

\* The inductive strengthening of the two properties about files.
FilesInv == FilesFollowUploads /\ TemplateHasFile /\ OrphanUploadIsExplained

\* A session acts once, with its last step, which also answers it.
AnswersFollowSessions ==
    \A s \in Sessions :
        /\ pc[s] # "done" => reply[s] = "none" /\ \A v \in Uploads : activatedBy[v] # s
        /\ reply[s] = "done" => goal[s] \in Goals /\ target[s] \in Uploads

\* The inductive strengthening of RepliesAreTrue.
RepliesInv == AnswersFollowSessions /\ RepliesAreTrue

\* Nobody waits for ever: a confirmation that was posted is answered, whoever held the type
\* lock before, and an upload that passed its first checks ends unless it is killed.
EveryRequestEnds == /\ \A s \in Sessions : pc[s] = "post" ~> pc[s] = "done"
                    /\ \A u \in Uploads : at[u] = "store" ~> at[u] \in {"done", "killed"}

--------------------------------------------------------------------------------
(* The versions of a type implement ActiveTemplate. *)
Promise == INSTANCE ActiveTemplate
               WITH Versions  <- Uploads,
                    current   <- ActiveSet,
                    withdrawn <- {v \in Uploads : status[v] = "inactive"},
                    taken     <- [s \in Sessions |-> {reserved[s]} \ {NoVersion}]

ImplementsActiveTemplate == Promise!ASpec
=================================================================================
