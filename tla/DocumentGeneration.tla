--------------------------- MODULE DocumentGeneration ---------------------------
(* Drafts, templates and generation together: the draft page that offers to       *)
(* generate, its confirmation, the retry of a failed attempt from the history     *)
(* page, and reserve_generation, which turns either into an immutable attempt     *)
(* (workflow_views.py, history_views.py, generation_reservations.py).  What       *)
(* generate_artifact does with an attempt is the subject of GenerationArtifacts;  *)
(* here it decides the attempt or leaves it undecided, as in AttemptLifecycle.    *)
EXTENDS DocumentDrafts

CONSTANTS Templates,    \* the template versions of the type
          NoTemplate,   \* none of them is active
          MaxTokens     \* bound: idempotency keys issued

ASSUME GenerationAssumption == NoTemplate \notin Templates /\ MaxTokens \in Nat

VARIABLES active,    \* the active template version
          retired,   \* the versions that were active before
          attempts,  \* the GeneratedDocument rows, in the order of their reservation
          tokens,    \* how many idempotency keys have been issued; the n-th is n
          offer      \* offer[s]: what the page of s offers to generate

template == <<active, retired>>
gvars    == <<active, retired, attempts, tokens, offer>>
vars     == <<dvars, gvars>>

NoOffer  == [token |-> 0, facts |-> 0, template |-> NoTemplate]
Statuses == {"generating", "generated", "failed"}
Attempt  == [token : Nat, case : Nat, facts : Nat, draft : Nat, template : Templates,
             payload : Sessions \cup {Nobody}, status : Statuses]

Init == /\ DInit
        /\ active = NoTemplate
        /\ retired = {}
        /\ attempts = <<>>
        /\ tokens = 0
        /\ offer = [s \in Sessions |-> NoOffer]

--------------------------------------------------------------------------------
\* What TemplateVersions does to the one active version.
Activate(t) == /\ t \notin retired \cup {active}
               /\ active' = t
               /\ retired' = retired \cup ({active} \ {NoTemplate})
               /\ Silent
               /\ UNCHANGED <<committed, caseLock, pc, local, attempts, tokens, offer>>

Withdraw == /\ active # NoTemplate
            /\ active' = NoTemplate
            /\ retired' = retired \cup {active}
            /\ Silent
            /\ UNCHANGED <<committed, caseLock, pc, local, attempts, tokens, offer>>

\* The end of a request forgets what its page offered.
Close(s)  == offer' = [offer EXCEPT ![s] = NoOffer]
End(s, x) == Answer(s, x) /\ Close(s)
Pass(s, l) == Carry(s, l) /\ UNCHANGED offer

\* generate_artifact is called with the attempt and nothing of the page.
Generating(s) == /\ Go(s, "work")
                 /\ page' = [page EXCEPT ![s] = NoPage]
                 /\ UNCHANGED <<wanted, loaded, offer>>

--------------------------------------------------------------------------------
(* The draft page *)

\* It exists only while the type has an active template.
OpenPage(s) == /\ active # NoTemplate
               /\ Open(s) /\ Close(s)
               /\ UNCHANGED <<template, attempts, tokens>>

\* _generation_form: what the page can offer.
Offerable(s) == page[s].active /\ draft.state = "ready" /\ active # NoTemplate

\* After the case row the page reads the draft, the facts of the case that it shows
\* (document_case_transfer) and the active template, and issues an idempotency key.
FillPage(s) == /\ Fill(s)
               /\ \/ /\ Offerable(s) /\ tokens < MaxTokens
                     /\ tokens' = tokens + 1
                     /\ offer' = [offer EXCEPT ![s] = [token |-> tokens + 1, facts |-> case.facts,
                                                       template |-> active]]
                  \/ ~Offerable(s) /\ UNCHANGED <<tokens, offer>>
               /\ UNCHANGED <<template, attempts>>

\* The same page in another tab, or clicked a second time.
Resend(s, t) == /\ s # t /\ pc[s] = "form" /\ offer[s].token # 0
                /\ pc[t] = "idle"
                /\ page' = [page EXCEPT ![t] = page[s]]
                /\ offer' = [offer EXCEPT ![t] = offer[s]]
                /\ Go(t, "form")
                /\ UNCHANGED <<committed, caseLock, wanted, loaded, template, attempts, tokens>>

\* A posted draft, and the draft services behind the page.
Draft(s) == /\ \/ active # NoTemplate /\ Save(s) /\ Close(s)
               \/ /\ active = NoTemplate /\ pc[s] = "form"
                  /\ End(s, "missing")
                  /\ UNCHANGED <<committed, caseLock>>
               \/ (Lock(s) \/ Write(s) \/ FailSave(s)) /\ UNCHANGED offer
            /\ UNCHANGED <<template, attempts, tokens>>

\* _confirmed_generation: the posted confirmation, before it reserves.  Posted once more,
\* it comes from another tab (Resend).
Confirm(s) == /\ pc[s] = "form" /\ offer[s].token # 0
              /\ \/ ~case.active /\ End(s, "denied")
                 \/ case.active /\ active = NoTemplate /\ End(s, "unavailable")
                 \/ case.active /\ active # NoTemplate /\ Pass(s, "reserve")
              /\ UNCHANGED <<committed, caseLock, template, attempts, tokens>>

--------------------------------------------------------------------------------
(* The retry of a failed attempt *)

\* The history page of an active case offers every failed attempt again, each with a key.
OpenHistory(s) == /\ pc[s] = "idle"
                  /\ case.active
                  /\ \E i \in 1..Len(attempts) : attempts[i].status = "failed"
                  /\ tokens < MaxTokens
                  /\ tokens' = tokens + 1
                  /\ offer' = [offer EXCEPT ![s].token = tokens + 1]
                  /\ Go(s, "history")
                  /\ UNCHANGED <<committed, caseLock, local, template, attempts>>

\* retry_generation reads the case, then the ready draft and the active template, and
\* expects the reservation to find what it read.
Retry(s) == /\ pc[s] = "history"
            /\ \/ ~case.active /\ End(s, "denied")
               \/ /\ case.active
                  /\ page' = [page EXCEPT ![s].case = case.revision]
                  /\ Go(s, "retry")
                  /\ UNCHANGED <<wanted, loaded, offer>>
            /\ UNCHANGED <<committed, caseLock, template, attempts, tokens>>

RetryCurrent(s) == /\ pc[s] = "retry"
                   /\ \/ /\ draft.state # "ready" \/ active = NoTemplate
                         /\ End(s, "unavailable")
                      \/ /\ draft.state = "ready" /\ active # NoTemplate
                         /\ page' = [page EXCEPT ![s].draft = draft]
                         /\ offer' = [offer EXCEPT ![s].template = active]
                         /\ Go(s, "reserve")
                         /\ UNCHANGED <<wanted, loaded>>
                   /\ UNCHANGED <<committed, caseLock, template, attempts, tokens>>

--------------------------------------------------------------------------------
(* reserve_generation *)

Reserved(s) == {i \in 1..Len(attempts) : attempts[i].token = offer[s].token}

\* Mutant: the case row is read without FOR UPDATE.
ReserveUnlocked(s) ==
    /\ pc[s] = "reserve" /\ case.active /\ page[s].case = case.revision
    /\ IF Reserved(s) # {} THEN Generating(s) ELSE Pass(s, "snapshot")
    /\ UNCHANGED <<committed, caseLock, template, attempts, tokens>>

\* Mutant: the key is looked up after the revision.
ReserveByRevision(s) ==
    /\ pc[s] = "reserve" /\ Unlocked /\ case.active
    /\ \/ page[s].case # case.revision /\ End(s, "conflict") /\ UNCHANGED caseLock
       \/ /\ page[s].case = case.revision /\ Reserved(s) # {}
          /\ Generating(s) /\ UNCHANGED caseLock
       \/ /\ page[s].case = case.revision /\ Reserved(s) = {}
          /\ Pass(s, "snapshot") /\ Acquire(s)
    /\ UNCHANGED <<committed, template, attempts, tokens>>

\* Lock the case; the key of an earlier reservation returns that attempt, whatever has
\* changed since; else the case must be as expected.
Reserve(s) == /\ pc[s] = "reserve" /\ Unlocked
              /\ \/ /\ ~case.active
                    /\ End(s, "denied") /\ UNCHANGED caseLock
                 \/ /\ case.active /\ Reserved(s) # {}
                    /\ Generating(s) /\ UNCHANGED caseLock
                 \/ /\ case.active /\ Reserved(s) = {}
                    /\ page[s].case # case.revision
                    /\ End(s, "conflict") /\ UNCHANGED caseLock
                 \/ /\ case.active /\ Reserved(s) = {}
                    /\ page[s].case = case.revision
                    /\ Pass(s, "snapshot") /\ Acquire(s)
              /\ UNCHANGED <<committed, template, attempts, tokens>>

\* Mutant: the revision of the draft is not compared.
DraftAsReady(s) == draft.state = "ready"

\* The draft is locked and compared with what was expected, then the active template.
DraftAsExpected(s) == page[s].draft.revision = draft.revision
Available          == draft.state = "ready" /\ active # NoTemplate

\* The snapshot is taken from the rows and committed with the attempt; its case_revision is
\* the one that Reserve read with the lock.
Snapshot(s) ==
    /\ pc[s] = "snapshot"
    /\ DraftAsExpected(s) /\ Available /\ offer[s].template = active
    /\ attempts' = Append(attempts, [token |-> offer[s].token, case |-> page[s].case,
                                     facts |-> case.facts, draft |-> draft.revision,
                                     template |-> active, payload |-> draft.payload,
                                     status |-> "generating"])
    /\ Generating(s) \/ End(s, "error")
    /\ Release
    /\ UNCHANGED <<committed, template, tokens>>

\* Something is not as expected, the draft is not ready or no longer validates, or there is
\* no active template with a valid report.
Decline(s) == /\ pc[s] = "snapshot"
              /\ \/ DraftAsExpected(s) /\ End(s, "unavailable")
                 \/ /\ ~DraftAsExpected(s) \/ (Available /\ offer[s].template # active)
                    /\ End(s, "conflict")
              /\ Release
              /\ UNCHANGED <<committed, template, attempts, tokens>>

\* A database error or a kill; a killed worker may also leave the attempt undecided.
FailGeneration(s) == /\ pc[s] \in {"reserve", "snapshot", "work"}
                     /\ End(s, "error")
                     /\ caseLock' = IF caseLock = s THEN Nobody ELSE caseLock
                     /\ UNCHANGED <<committed, template, attempts, tokens>>

\* generate_artifact on the attempt of the key: decide it, or learn what was decided.
Work(s) == /\ pc[s] = "work"
           /\ \E i \in Reserved(s) :
                 \/ /\ attempts[i].status = "generating"
                    /\ \E d \in {"generated", "failed"} :
                          /\ attempts' = [attempts EXCEPT ![i].status = d]
                          /\ End(s, d)
                 \/ /\ attempts[i].status # "generating"
                    /\ End(s, attempts[i].status)
                    /\ UNCHANGED attempts
           /\ UNCHANGED <<committed, caseLock, template, tokens>>

--------------------------------------------------------------------------------
Browse(s) == OpenPage(s) \/ FillPage(s) \/ OpenHistory(s) \/ \E t \in Sessions : Resend(s, t)

Generate(s) == \/ Confirm(s) \/ Retry(s) \/ RetryCurrent(s)
               \/ Reserve(s) \/ Snapshot(s) \/ Decline(s) \/ Work(s) \/ FailGeneration(s)

\* Nobody has a request under way.
Rest == /\ \A s \in Sessions : pc[s] \in {"idle", "form", "history"}
        /\ UNCHANGED vars

Next == \/ (EditCase \/ ShelveCase) /\ UNCHANGED gvars
        \/ Withdraw \/ \E t \in Templates : Activate(t)
        \/ \E s \in Sessions : Browse(s) \/ Draft(s) \/ Generate(s)
        \/ Rest

Spec == Init /\ [][Next]_vars

--------------------------------------------------------------------------------
PCs     == {"idle", "open", "form", "lock", "write", "history", "retry", "reserve",
            "snapshot", "work"}
Replies == {"nothing", "denied", "missing", "conflict", "unavailable", "invalid", "unhandled",
            "saved", "generated", "failed", "error"}
Pages   == [active : BOOLEAN, case : Nat, draft : Drafts]
Offers  == [token : 0..MaxTokens, facts : Nat, template : Templates \cup {NoTemplate}]

TypeOK == /\ case \in CaseRow
          /\ draft \in Drafts
          /\ trail \in Seq(DraftEvents)
          /\ caseLock \in Sessions \cup {Nobody}
          /\ pc \in [Sessions -> PCs]
          /\ page \in [Sessions -> Pages]
          /\ wanted \in [Sessions -> States]
          /\ loaded \in [Sessions -> Drafts]
          /\ reply \in [to : Sessions \cup {Nobody}, what : Replies]
          /\ active \in Templates \cup {NoTemplate}
          /\ retired \subseteq Templates
          /\ attempts \in Seq(Attempt)
          /\ tokens \in 0..MaxTokens
          /\ offer \in [Sessions -> Offers]
          /\ \A s \in Sessions : pc[s] \in {"write", "snapshot"} <=> caseLock = s

\* The attempt a step reserves, and the session that reserves it.
NewAttempt == attempts'[Len(attempts')]
Reserving(s) == Len(attempts') > Len(attempts) /\ pc[s] = "snapshot" /\ pc'[s] # "snapshot"

ShownIsReserved ==
    \A s \in Sessions : Reserving(s) =>
        /\ NewAttempt.case = page[s].case
        /\ NewAttempt.draft = page[s].draft.revision
        /\ NewAttempt.payload = page[s].draft.payload /\ page[s].draft.state = "ready"
        /\ NewAttempt.template = offer[s].template
        /\ offer[s].facts # 0 => NewAttempt.facts = offer[s].facts

\* One token produces one attempt of the facts that were confirmed: what an attempt keeps
\* is what its page showed, case facts, draft and template, although the page read them one
\* after the other and the reservation reads them again.
ReservesWhatWasShown == [][ShownIsReserved]_vars

AnsweredByToken ==
    \A s \in Sessions :
        /\ pc[s] \in {"reserve", "snapshot"}
        /\ reply'.to = s /\ reply'.what \in {"conflict", "unavailable"}
        => Reserved(s) = {}

\* A confirmation that is sent again is never refused for what changed after it was
\* reserved: its key leads to its attempt.
ResubmissionFindsItsAttempt == [][AnsweredByToken]_vars

WritesAreActive == draft' # draft \/ Len(attempts') > Len(attempts) => case.active

\* No draft is written and no attempt reserved in an archived case, whatever the pages and
\* the unlocked reads of a request saw (AC-08).
ArchivedCaseIsClosed == [][WritesAreActive]_vars

\* Every attempt holds the facts of the case at its revision and the payload of the draft at
\* its revision, and two attempts that share revisions share them.
AttemptsAgree ==
    \A i, j \in 1..Len(attempts) :
        /\ attempts[i].draft \in 1..Len(trail)
        /\ attempts[i].payload = trail[attempts[i].draft].by
        /\ trail[attempts[i].draft].state = "ready"
        /\ attempts[i].case = attempts[j].case => attempts[i].facts = attempts[j].facts
        /\ attempts[i].token = attempts[j].token => i = j

\* Who holds the case row found it active, and has changed nothing of what it checked.
LockedIsChecked ==
    \A s \in Sessions :
        /\ pc[s] \in {"write", "snapshot"} => case.active
        /\ pc[s] = "snapshot" => page[s].case = case.revision /\ Reserved(s) = {}

\* The facts that a page shows are not older than the revision that it carries.
PageIsPast(s) ==
    /\ page[s].case <= case.revision
    /\ offer[s].facts # 0 =>
          /\ pc[s] \in {"form", "reserve", "snapshot", "work"}
          /\ page[s].case = case.revision => offer[s].facts = case.facts

PagesArePast == case.revision > 0 /\ \A s \in Sessions : PageIsPast(s)

AttemptsArePast ==
    \A i \in 1..Len(attempts) :
        /\ attempts[i].case <= case.revision
        /\ attempts[i].case = case.revision => attempts[i].facts = case.facts

\* The inductive invariant of drafts and attempts.
GenerationInv == /\ EventsTellTheChange /\ DraftsArePast
                 /\ LockedIsChecked /\ PagesArePast /\ AttemptsArePast /\ AttemptsAgree

\* The draft implements SharedRecord.
Record == INSTANCE SharedRecord
              WITH Changes <- DraftEvents, log <- trail,
                   base <- [s \in Sessions |-> page[s].draft.revision]

\* A stale page never overwrites a newer draft.
ImplementsSharedRecord == Record!ASpec
=================================================================================
