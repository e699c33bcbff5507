------------------------------- MODULE CaseRecords -------------------------------
(* One case and the sessions that edit it (apps/cases/services.py, views.py): core *)
(* fields, relationships, archive and restore.  A session renders a page with the  *)
(* revision it read and posts it back, at any time and again after a conflict.     *)
(*                                                                                 *)
(* Field values are abstracted to the session that wrote them last.  A statement   *)
(* that updates the row waits for the lock of a transaction that selected the row  *)
(* FOR UPDATE; update, audit event and COMMIT of a compare-and-swap are one step.  *)
EXTENDS Naturals, Sequences

CONSTANTS Sessions, Nobody

ASSUME ConstantsAssumption == Nobody \notin Sessions

VARIABLES case,     \* the committed CaseRecord row and its relationship rows
          audit,    \* the committed success events about the case, in order
          failures, \* sessions with a committed failure event
          rowLock,  \* the session whose transaction holds the row FOR UPDATE
          pc,       \* where each session is
          goal,     \* what it is to do
          page,     \* the case as its page showed it
          loaded,   \* the case as its request loaded it without a lock
          reply     \* how its last request ended

committed == <<case, audit, failures>>
local     == <<goal, page, loaded>>
vars      == <<case, audit, failures, rowLock, pc, goal, page, loaded, reply>>

Goals == {"edit", "relate", "archive", "restore"}
Cases == [status : {"none", "active", "archived"}, revision : Nat,
          core : Sessions \cup {Nobody}, relations : Sessions \cup {Nobody}]

NoCase  == [status |-> "none", revision |-> 0, core |-> Nobody, relations |-> Nobody]
NewCase == [status |-> "active", revision |-> 1, core |-> Nobody, relations |-> Nobody]

\* A success event; basis is the row the changed_fields of an edit were computed from.
Event(act, s, b) == [action |-> act, by |-> s, basis |-> b]

Init == /\ case = NoCase
        /\ audit = <<>>
        /\ failures = {}
        /\ rowLock = Nobody
        /\ pc = [s \in Sessions |-> "idle"]
        /\ goal = [s \in Sessions |-> "none"]
        /\ page = [s \in Sessions |-> NoCase]
        /\ loaded = [s \in Sessions |-> NoCase]
        /\ reply = [s \in Sessions |-> "none"]

--------------------------------------------------------------------------------
Go(s, l)     == pc' = [pc EXCEPT ![s] = l] /\ UNCHANGED reply
Answer(s, x) == pc' = [pc EXCEPT ![s] = "done"] /\ reply' = [reply EXCEPT ![s] = x]
Unlocked     == rowLock = Nobody

\* create_case inserts the row at revision 1 with its event.
Create == /\ case = NoCase
          /\ case' = NewCase
          /\ audit' = <<Event("create", Nobody, Nobody)>>
          /\ UNCHANGED <<failures, rowLock, pc, goal, page, loaded, reply>>

\* A page reads the case row; the pages that edit refuse an archived case.
View(s, g) == /\ pc[s] = "idle" /\ case # NoCase
              /\ goal' = [goal EXCEPT ![s] = g]
              /\ page' = [page EXCEPT ![s] = [case EXCEPT !.relations = Nobody]]
              /\ \/ /\ g \in {"edit", "relate"} /\ case.status # "active"
                    /\ Answer(s, "denied")
                 \/ g = "relate" /\ case.status = "active" /\ Go(s, "viewed")
                 \/ /\ g = "edit" => case.status = "active"
                    /\ g # "relate"
                    /\ Go(s, "form")
              /\ UNCHANGED <<committed, rowLock, loaded>>

\* The relationship forms query their rows after the revision was read.
Show(s) == /\ pc[s] = "viewed"
           /\ page' = [page EXCEPT ![s].relations = case.relations]
           /\ Go(s, "form")
           /\ UNCHANGED <<committed, rowLock, goal, loaded>>

\* Post the form; after a conflict the same form, with the same revision, is still there.
Post(s) == /\ \/ pc[s] = "form"
              \/ pc[s] = "done" /\ reply[s] = "conflict"
           /\ pc' = [pc EXCEPT ![s] = "post"]
           /\ reply' = [reply EXCEPT ![s] = "none"]
           /\ UNCHANGED <<committed, rowLock, local>>

\* A form that does not validate is recorded as a failure and shown again.
Misfill(s) == /\ pc[s] = "form"
              /\ failures' = failures \cup {s}
              /\ UNCHANGED <<case, audit, rowLock, pc, local, reply>>

--------------------------------------------------------------------------------
(* update_case, archive_case, restore_case: compare and swap *)

\* The request loads the row without a lock; an edit checks its status there.
Load(s) == /\ pc[s] = "post" /\ goal[s] # "relate"
           /\ loaded' = [loaded EXCEPT ![s] = case]
           /\ \/ goal[s] = "edit" /\ case.status # "active" /\ Answer(s, "denied")
              \/ (goal[s] = "edit" => case.status = "active") /\ Go(s, "swap")
           /\ UNCHANGED <<committed, rowLock, goal, page>>

\* The WHERE clause of the update: the revision and, for a transition, the status.
Matches(s) == /\ page[s].revision = case.revision
              /\ goal[s] = "archive" => case.status = "active"
              /\ goal[s] = "restore" => case.status = "archived"

\* Mutant: a transition leaves the revision alone.
ChangedKeepingRevision(s) ==
    CASE goal[s] = "edit" -> [case EXCEPT !.core = s, !.revision = @ + 1]
      [] goal[s] = "archive" -> [case EXCEPT !.status = "archived"]
      [] goal[s] = "restore" -> [case EXCEPT !.status = "active"]

Changed(s) == [status    |-> CASE goal[s] = "edit" -> case.status
                               [] goal[s] = "archive" -> "archived"
                               [] goal[s] = "restore" -> "active",
               revision  |-> case.revision + 1,
               core      |-> IF goal[s] = "edit" THEN s ELSE case.core,
               relations |-> case.relations]

\* Mutant: the event is written whether or not the update matched a row.
SwapAuditingAlways(s) ==
    /\ pc[s] = "swap" /\ Unlocked
    /\ case' = IF Matches(s) THEN Changed(s) ELSE case
    /\ audit' = Append(audit, Event(goal[s], s, loaded[s].core))
    /\ IF Matches(s) THEN Answer(s, "done") ELSE Go(s, "refuse")
    /\ UNCHANGED <<failures, rowLock, local>>

Swap(s) == /\ pc[s] = "swap" /\ Unlocked
           /\ Matches(s)
           /\ case' = Changed(s)
           /\ audit' = Append(audit, Event(goal[s], s, loaded[s].core))
           /\ Answer(s, "done") \/ Answer(s, "error")
           /\ UNCHANGED <<failures, rowLock, local>>

Mismatch(s) == /\ pc[s] = "swap" /\ Unlocked
               /\ ~Matches(s)
               /\ Go(s, "refuse")
               /\ UNCHANGED <<committed, rowLock, local>>

--------------------------------------------------------------------------------
(* _update_case_relationships: lock, then compare *)

\* Mutant: the row is selected without FOR UPDATE.
LockNothing(s) == /\ pc[s] = "post" /\ goal[s] = "relate" /\ Unlocked
                  /\ loaded' = [loaded EXCEPT ![s] = case]
                  /\ case.status = "active" /\ page[s].revision = case.revision
                  /\ Go(s, "save")
                  /\ UNCHANGED <<committed, rowLock, goal, page>>

\* SELECT ... FOR UPDATE, then the checks on the locked row.
Lock(s) == /\ pc[s] = "post" /\ goal[s] = "relate" /\ Unlocked
           /\ loaded' = [loaded EXCEPT ![s] = case]
           /\ \/ /\ case.status # "active"
                 /\ Answer(s, "denied")
                 /\ UNCHANGED rowLock
              \/ /\ case.status = "active" /\ page[s].revision # case.revision
                 /\ Go(s, "refuse")
                 /\ UNCHANGED rowLock
              \/ /\ case.status = "active" /\ page[s].revision = case.revision
                 /\ Go(s, "save")
                 /\ rowLock' = s
           /\ UNCHANGED <<committed, goal, page>>

\* Mutant: the relationships are saved and the revision is forgotten.
SaveForgetting(s) == /\ pc[s] = "save"
                     /\ case' = [case EXCEPT !.relations = s]
                     /\ audit' = Append(audit, Event("relate", s, loaded[s].core))
                     /\ Answer(s, "done")
                     /\ rowLock' = Nobody
                     /\ UNCHANGED <<failures, local>>

\* Save the formsets and the row's next revision, as computed from the locked row.
Save(s) == /\ pc[s] = "save"
           /\ case' = [status |-> case.status, revision |-> loaded[s].revision + 1,
                       core |-> case.core, relations |-> s]
           /\ audit' = Append(audit, Event("relate", s, loaded[s].core))
           /\ Answer(s, "done") \/ Answer(s, "error")
           /\ rowLock' = Nobody
           /\ UNCHANGED <<failures, local>>

\* The formsets do not validate: the transaction rolls back.
Reject(s) == /\ pc[s] = "save"
             /\ Go(s, "refuse")
             /\ rowLock' = Nobody
             /\ UNCHANGED <<committed, local>>

\* The refusal is recorded in a transaction of its own.
Refuse(s) == /\ pc[s] = "refuse"
             /\ failures' = failures \cup {s}
             /\ Answer(s, "conflict")
             /\ UNCHANGED <<case, audit, rowLock, local>>

\* A database error or a kill ends the request and, with its connection, the lock.
Fail(s) == /\ pc[s] \in {"post", "swap", "save", "refuse"}
           /\ Answer(s, "error")
           /\ rowLock' = IF rowLock = s THEN Nobody ELSE rowLock
           /\ UNCHANGED <<committed, local>>

Serve(s) == Load(s) \/ Swap(s) \/ Mismatch(s) \/ Lock(s) \/ Save(s) \/ Reject(s) \/ Refuse(s)

Browse(s) == (\E g \in Goals : View(s, g)) \/ Show(s) \/ Post(s) \/ Misfill(s)

\* Every session is over or waits for its user.
Rest == /\ \A s \in Sessions : pc[s] = "done"
        /\ UNCHANGED vars

Next == \/ Create
        \/ \E s \in Sessions : Browse(s) \/ Serve(s) \/ Fail(s)
        \/ Rest

Spec == Init /\ [][Next]_vars

--------------------------------------------------------------------------------
Events  == [action : Goals \cup {"create"}, by : Sessions \cup {Nobody},
            basis : Sessions \cup {Nobody}]
PCs     == {"idle", "viewed", "form", "post", "swap", "save", "refuse", "done"}
Replies == {"none", "denied", "done", "conflict", "error"}

TypeOK == /\ case \in Cases
          /\ audit \in Seq(Events)
          /\ failures \subseteq Sessions
          /\ rowLock \in Sessions \cup {Nobody}
          /\ pc \in [Sessions -> PCs]
          /\ goal \in [Sessions -> Goals \cup {"none"}]
          /\ page \in [Sessions -> Cases]
          /\ loaded \in [Sessions -> Cases]
          /\ reply \in [Sessions -> Replies]
          /\ \A s \in Sessions : /\ pc[s] # "idle" => goal[s] \in Goals
                                 /\ pc[s] = "save" => goal[s] = "relate"
                                 /\ pc[s] = "swap" => goal[s] # "relate"

\* A stale edit never overwrites a newer revision (AC-07): whatever changes the case is the
\* request of a session whose page showed the case, its relationships included when those
\* are what it edits, exactly as it stands at that moment.
NothingIsOverwritten ==
    case' # case =>
        \/ case = NoCase
        \/ \E s \in Sessions :
              /\ pc[s] \in {"swap", "save"} /\ pc'[s] = "done"
              /\ page[s].revision = case.revision
              /\ page[s].status = case.status /\ page[s].core = case.core
              /\ goal[s] = "relate" => page[s].relations = case.relations

EditsSawTheCase == [][NothingIsOverwritten]_vars

ArchivedUnchanged == case.status = "archived" =>
                         case'.core = case.core /\ case'.relations = case.relations

\* An archived case is not edited, although update_case looks at the status of a row it has
\* not locked and swaps on the revision alone.
ArchivedIsFrozen == [][ArchivedUnchanged]_vars

\* What the success events up to the n-th say about the case.
Written(n, act) == LET by == {i \in 1..n : audit[i].action = act}
                   IN  IF by = {} THEN Nobody
                       ELSE audit[CHOOSE i \in by : \A j \in by : j <= i].by

Transitions(n) == {i \in 1..n : audit[i].action \in {"archive", "restore"}}

\* Every change of the case has its revision and its event.
RevisionsAreEvents == case.revision = Len(audit)

\* The changed_fields of an edit are the difference to the edit before it, although they
\* are computed from a row read without a lock before the update.
EditsNameTheirChange ==
    \A i \in 1..Len(audit) :
        audit[i].action = "edit" => audit[i].basis = Written(i - 1, "edit")

\* The audit trail is the history of the case: one event per revision, its last archive or
\* restore is the status, the last writers are those on record, and every edit names what
\* it changed.
AuditTellsTheCase ==
    /\ RevisionsAreEvents
    /\ EditsNameTheirChange
    /\ case.core = Written(Len(audit), "edit")
    /\ case.relations = Written(Len(audit), "relate")
    /\ case.status = "archived" <=>
          \E i \in Transitions(Len(audit)) : /\ audit[i].action = "archive"
                                             /\ \A j \in Transitions(Len(audit)) : j <= i

\* A reported success is on record once, a refusal is on record as a failure and changed
\* nothing.
RepliesAreTrue ==
    \A s \in Sessions :
        LET mine == {i \in 1..Len(audit) : audit[i].by = s}
        IN  /\ reply[s] = "done" => \E i \in mine : mine = {i} /\ audit[i].action = goal[s]
            /\ reply[s] \in {"denied", "conflict"} => mine = {}
            /\ reply[s] = "conflict" => s \in failures

\* Every action that is on record before the n-th event has a last one there.
LastIsOnRecord ==
    \A n \in 0..Len(audit), act \in Goals :
        LET by == {i \in 1..n : audit[i].action = act}
        IN  by # {} => \E i \in by : \A j \in by : j <= i

\* The inductive strengthening of AuditTellsTheCase.
AuditInv == LastIsOnRecord /\ AuditTellsTheCase

\* A session is on record at most with its last step, which also answers it.
RecordsFollowSessions ==
    \A s \in Sessions :
        pc[s] # "done" => reply[s] = "none" /\ {i \in 1..Len(audit) : audit[i].by = s} = {}

\* The inductive strengthening of RepliesAreTrue.
RepliesInv == RecordsFollowSessions /\ RepliesAreTrue

LockIsHeld == \A s \in Sessions : rowLock = s <=> pc[s] = "save"

\* A page is never ahead of the case, and at the case's revision it shows the case.
PageIsCaseOrOlder(s) ==
    /\ page[s].revision <= case.revision
    /\ pc[s] # "idle" => case # NoCase
    /\ reply[s] = "denied" => pc[s] = "done"
    /\ pc[s] # "idle" /\ page[s].revision = case.revision =>
          /\ page[s].status = case.status /\ page[s].core = case.core
          /\ goal[s] = "relate" /\ pc[s] # "viewed" /\ reply[s] # "denied" =>
                page[s].relations = case.relations

\* A request loads the row after its page was made and keeps it current under the lock.
LoadedIsCaseOrOlder(s) ==
    /\ pc[s] \in {"swap", "save"} =>
          /\ page[s].revision <= loaded[s].revision /\ loaded[s].revision <= case.revision
          /\ loaded[s].revision = case.revision => loaded[s] = case
          /\ goal[s] \in {"edit", "relate"} => loaded[s].status = "active"
    /\ pc[s] = "save" => loaded[s].revision = case.revision /\ page[s].revision = case.revision

PagesAreCaseOrOlder ==
    /\ case.revision = 0 <=> case = NoCase
    /\ \A s \in Sessions : PageIsCaseOrOlder(s) /\ LoadedIsCaseOrOlder(s)

\* The inductive strengthening of the properties above.
CaseInv == LockIsHeld /\ PagesAreCaseOrOlder /\ RevisionsAreEvents

--------------------------------------------------------------------------------
(* The case implements SharedRecord: a session has seen as much of the log as its page. *)
Record == INSTANCE SharedRecord
              WITH Changes <- Events, log <- audit,
                   base <- [s \in Sessions |-> page[s].revision]

ImplementsSharedRecord == Record!ASpec
=================================================================================
