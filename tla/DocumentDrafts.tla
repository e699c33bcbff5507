----------------------------- MODULE DocumentDrafts -----------------------------
(* The draft of one document type in one case (apps/documents/draft_services.py   *)
(* behind the draft page of workflow_views.py): sessions open the page, fill it   *)
(* in and post it, while others edit, archive and restore the case.               *)
(*                                                                                *)
(* A session is a browser tab with at most one request.  Payloads are abstracted  *)
(* to the session that wrote them, the facts of the case to the revision of the   *)
(* edit that last changed them.  Draft writes hold the lock of the case row; what *)
(* a transaction does between taking it and COMMIT is one step here.              *)
EXTENDS Naturals, Sequences

CONSTANTS Sessions, Nobody,
          MaxCaseRevision,   \* bound: revisions of the case
          MaxDraftRevision   \* bound: revisions of the draft

ASSUME ConstantsAssumption == /\ Nobody \notin Sessions
                              /\ MaxCaseRevision \in Nat /\ MaxDraftRevision \in Nat

VARIABLES case,      \* the committed CaseRecord row
          draft,     \* the committed DocumentDraft row
          trail,     \* the committed audit events about the draft, in order
          caseLock,  \* the session whose transaction holds the case row FOR UPDATE
          pc,        \* where each session is
          page,      \* what its page was made from
          wanted,    \* the state its post asks for
          loaded,    \* the draft as its request read it without a lock
          reply      \* the response that the last step sent, if it sent one

committed == <<case, draft, trail>>
local     == <<page, wanted, loaded>>
dvars     == <<case, draft, trail, caseLock, pc, page, wanted, loaded, reply>>

States  == {"draft", "ready"}
Drafts  == [revision : Nat, state : States, payload : Sessions \cup {Nobody}]
CaseRow == [active : BOOLEAN, revision : Nat, facts : Nat]

NoDraft == [revision |-> 0, state |-> "draft", payload |-> Nobody]
NewCase == [active |-> TRUE, revision |-> 1, facts |-> 1]
NoPage  == [active |-> FALSE, case |-> 0, draft |-> NoDraft]

Silence == [to |-> Nobody, what |-> "nothing"]

\* The audit event of a saved draft: its state, and the payload that its changed_fields
\* were computed against.
Saved(act, s, d, b) == [action |-> act, by |-> s, state |-> d.state, basis |-> b]

DInit == /\ case = NewCase
         /\ draft = NoDraft
         /\ trail = <<>>
         /\ caseLock = Nobody
         /\ pc = [s \in Sessions |-> "idle"]
         /\ page = [s \in Sessions |-> NoPage]
         /\ wanted = [s \in Sessions |-> "draft"]
         /\ loaded = [s \in Sessions |-> NoDraft]
         /\ reply = Silence

--------------------------------------------------------------------------------
Silent        == reply' = Silence
Go(s, l)      == pc' = [pc EXCEPT ![s] = l] /\ Silent
Carry(s, l)   == Go(s, l) /\ UNCHANGED local

\* The request ends, and with it what its page and its reads held.
Answer(s, x)  == /\ pc' = [pc EXCEPT ![s] = "idle"]
                 /\ reply' = [to |-> s, what |-> x]
                 /\ page' = [page EXCEPT ![s] = NoPage]
                 /\ wanted' = [wanted EXCEPT ![s] = "draft"]
                 /\ loaded' = [loaded EXCEPT ![s] = NoDraft]

Unlocked      == caseLock = Nobody
Acquire(s)    == Unlocked /\ caseLock' = s
Release       == caseLock' = Nobody

\* The case services: every change of the case waits for its row and counts a revision.
ChangeCase(new) == /\ Unlocked /\ case.revision < MaxCaseRevision
                   /\ case' = [new EXCEPT !.revision = @ + 1]
                   /\ Silent
                   /\ UNCHANGED <<draft, trail, caseLock, pc, local>>

EditCase == case.active /\ ChangeCase([case EXCEPT !.facts = case.revision + 1])

\* archive_case and restore_case
ShelveCase == ChangeCase([case EXCEPT !.active = ~@])

--------------------------------------------------------------------------------
(* The draft page *)

\* GET case_document_draft reads the case row first; a page that is open is left ...
Open(s) == /\ pc[s] \in {"idle", "form"}
           /\ Go(s, "open")
           /\ page' = [page EXCEPT ![s] = [active |-> case.active, case |-> case.revision,
                                           draft |-> NoDraft]]
           /\ UNCHANGED <<committed, caseLock, wanted, loaded>>

\* ... and then the draft that the form is filled from.  The status of the case has no place
\* in the form.
Fill(s) == /\ pc[s] = "open"
           /\ page' = [page EXCEPT ![s].draft = draft, ![s].active = FALSE]
           /\ Go(s, "form")
           /\ UNCHANGED <<committed, caseLock, wanted, loaded>>

\* POST: of the page, the form carries the draft and its revision.  The request reads case
\* and draft again; the fields must be valid, the page must know of a draft if there is one,
\* and what the request read decides between create and update.
Save(s) == /\ pc[s] = "form" /\ page[s].draft.revision < MaxDraftRevision
           /\ \/ /\ ~case.active
                 /\ Answer(s, "denied")
              \/ /\ case.active
                 /\ Answer(s, "invalid")
              \/ /\ case.active
                 /\ draft # NoDraft /\ page[s].draft = NoDraft
                 /\ Answer(s, "conflict")
              \/ /\ case.active
                 /\ draft = NoDraft <=> page[s].draft = NoDraft
                 /\ \E st \in States : wanted' = [wanted EXCEPT ![s] = st]
                 /\ loaded' = [loaded EXCEPT ![s] = draft]
                 /\ page' = [page EXCEPT ![s] = [NoPage EXCEPT !.draft = page[s].draft]]
                 /\ Go(s, "lock")
           /\ UNCHANGED <<committed, caseLock>>

--------------------------------------------------------------------------------
(* create_document_draft and update_document_draft *)

\* _accessible_case(for_write, lock): the case row FOR UPDATE, then its status.
Lock(s) == /\ pc[s] = "lock" /\ Unlocked
           /\ \/ ~case.active /\ Answer(s, "denied") /\ UNCHANGED caseLock
              \/ case.active /\ Carry(s, "write") /\ Acquire(s)
           /\ UNCHANGED committed

\* Insert, audit, COMMIT; the client may see an error although COMMIT took effect.
Create(s) == /\ pc[s] = "write" /\ loaded[s] = NoDraft
             /\ draft = NoDraft
             /\ draft' = [revision |-> 1, state |-> wanted[s], payload |-> s]
             /\ trail' = <<Saved("created", s, draft', Nobody)>>
             /\ Answer(s, "saved") \/ Answer(s, "error")
             /\ Release
             /\ UNCHANGED case

\* Another session created the draft: full_clean of DocumentDraft.save refuses the second
\* with a ValidationError that neither the service nor the page handles.
CreateTwice(s) == /\ pc[s] = "write" /\ loaded[s] = NoDraft
                  /\ draft # NoDraft
                  /\ Answer(s, "unhandled")
                  /\ Release
                  /\ UNCHANGED committed

\* The event is named by the row that the request read before it locked the case.
Kind(s) == IF loaded[s].state = wanted[s] THEN "updated" ELSE "state_changed"

\* Mutant: the update does not filter on the revision.
UpdateAnyRevision(s) ==
    /\ pc[s] = "write" /\ loaded[s] # NoDraft
    /\ draft' = [revision |-> draft.revision + 1, state |-> wanted[s], payload |-> s]
    /\ trail' = Append(trail, Saved(Kind(s), s, draft', loaded[s].payload))
    /\ Answer(s, "saved")
    /\ Release
    /\ UNCHANGED case

Update(s) == /\ pc[s] = "write" /\ loaded[s] # NoDraft
             /\ page[s].draft.revision = draft.revision
             /\ draft' = [revision |-> page[s].draft.revision + 1,
                          state |-> wanted[s], payload |-> s]
             /\ trail' = Append(trail, Saved(Kind(s), s, draft', loaded[s].payload))
             /\ Answer(s, "saved") \/ Answer(s, "error")
             /\ Release
             /\ UNCHANGED case

\* The update matches no row: DraftRevisionConflict.
UpdateStale(s) == /\ pc[s] = "write" /\ loaded[s] # NoDraft
                  /\ page[s].draft.revision # draft.revision
                  /\ Answer(s, "conflict")
                  /\ Release
                  /\ UNCHANGED committed

\* validate_document_draft_payload refuses the payload and the transaction rolls back.
Refuse(s) == /\ pc[s] = "write"
             /\ Answer(s, "invalid")
             /\ Release
             /\ UNCHANGED committed

\* A database error or a kill rolls back and, with the connection, releases the row.
FailSave(s) == /\ pc[s] \in {"lock", "write"}
               /\ Answer(s, "error")
               /\ caseLock' = IF caseLock = s THEN Nobody ELSE caseLock
               /\ UNCHANGED committed

Write(s) == Create(s) \/ CreateTwice(s) \/ Update(s) \/ UpdateStale(s) \/ Refuse(s)

--------------------------------------------------------------------------------
DraftEvents == [action : {"created", "updated", "state_changed"}, by : Sessions,
                state : States, basis : Sessions \cup {Nobody}]

\* What the trail says the draft was at a revision.
Version(n) == IF n = 0 THEN NoDraft
              ELSE [revision |-> n, state |-> trail[n].state, payload |-> trail[n].by]

\* The draft is the last saved one, one revision per event.  Every event names the change
\* it stands for: its changed_fields are the difference to the event before it, and it is
\* a state change exactly if the state changed, although update_document_draft takes both
\* from a row that it read before it locked anything.
EventsTellTheChange ==
    /\ draft = Version(Len(trail))
    /\ \A i \in 1..Len(trail) :
          IF i = 1 THEN trail[i].action = "created" /\ trail[i].basis = Nobody
          ELSE /\ trail[i].basis = trail[i - 1].by
               /\ trail[i].action = "state_changed" <=> trail[i].state # trail[i - 1].state

\* d is the draft, or was at some time.
IsPast(d) == d.revision \in 0..Len(trail) /\ d = Version(d.revision)

\* Pages and requests know a draft that was; a request that is to write read it after the
\* page did.
DraftsArePast ==
    \A s \in Sessions :
        /\ IsPast(page[s].draft) /\ IsPast(loaded[s])
        /\ pc[s] \in {"lock", "write"} =>
              /\ page[s].draft.revision <= loaded[s].revision
              /\ loaded[s] = NoDraft <=> page[s].draft = NoDraft
=================================================================================
