------------------------ MODULE DocumentGenerationProofs ------------------------
(* Proofs about DocumentDrafts and DocumentGeneration. *)
EXTENDS DocumentGeneration, SequenceTheorems, TLAPS

USE DEF committed, local, template, Silent, Go, Carry, Pass, Answer, Close, End, Unlocked,
        Acquire, Release

--------------------------------------------------------------------------------
(* Type correctness *)

LEMMA NothingTyped == NoDraft \in Drafts /\ NoPage \in Pages /\ NoOffer \in Offers
BY GenerationAssumption DEF NoDraft, NoPage, NoOffer, Drafts, Pages, Offers, States

LEMMA AnswerTyped == ASSUME TypeOK, NEW s \in Sessions, NEW x \in Replies, Answer(s, x)
                     PROVE  /\ pc' \in [Sessions -> PCs]
                            /\ reply' \in [to : Sessions \cup {Nobody}, what : Replies]
                            /\ page' \in [Sessions -> Pages]
                            /\ wanted' \in [Sessions -> States]
                            /\ loaded' \in [Sessions -> Drafts]
BY NothingTyped DEF TypeOK, PCs, States

LEMMA GoTyped == ASSUME TypeOK, NEW s \in Sessions, NEW l \in PCs, Go(s, l)
                 PROVE  /\ pc' \in [Sessions -> PCs]
                        /\ reply' \in [to : Sessions \cup {Nobody}, what : Replies]
BY DEF TypeOK, Silence, Replies

LEMMA CloseTyped == ASSUME TypeOK, NEW s \in Sessions, Close(s)
                    PROVE  offer' \in [Sessions -> Offers]
BY NothingTyped DEF TypeOK

LEMMA GeneratingTyped == ASSUME TypeOK, NEW s \in Sessions, Generating(s)
                         PROVE  /\ pc' = [pc EXCEPT ![s] = "work"]
                                /\ pc' \in [Sessions -> PCs]
                                /\ reply' \in [to : Sessions \cup {Nobody}, what : Replies]
                                /\ page' \in [Sessions -> Pages]
                                /\ wanted' \in [Sessions -> States]
                                /\ loaded' \in [Sessions -> Drafts]
                                /\ offer' \in [Sessions -> Offers]
BY NothingTyped, GoTyped DEF TypeOK, Generating, PCs

\* A step that neither takes nor gives up the case row keeps to the lock.
LEMMA LockKept ==
  ASSUME TypeOK, NEW s \in Sessions, NEW l \in PCs \ {"write", "snapshot"},
         pc' = [pc EXCEPT ![s] = l],
         IF pc[s] \in {"write", "snapshot"} THEN caseLock' = Nobody ELSE caseLock' = caseLock
  PROVE  \A t \in Sessions : pc'[t] \in {"write", "snapshot"} <=> caseLock' = t
BY ConstantsAssumption DEF TypeOK

LEMMA LockTaken ==
  ASSUME TypeOK, NEW s \in Sessions, NEW l \in {"write", "snapshot"}, caseLock = Nobody,
         pc' = [pc EXCEPT ![s] = l], caseLock' = s
  PROVE  \A t \in Sessions : pc'[t] \in {"write", "snapshot"} <=> caseLock' = t
BY ConstantsAssumption DEF TypeOK

LEMMA CaseTyped == ASSUME TypeOK, NEW new \in CaseRow, ChangeCase(new), UNCHANGED gvars
                   PROVE  TypeOK'
<1>1. [new EXCEPT !.revision = @ + 1] \in CaseRow
  BY DEF CaseRow
<1> QED
  BY <1>1 DEF ChangeCase, TypeOK, gvars, Silence, Replies

LEMMA EventTyped ==
  ASSUME TypeOK, NEW s \in Sessions, NEW act \in {"created", "updated", "state_changed"},
         NEW d \in Drafts, NEW b \in Sessions \cup {Nobody}
  PROVE  Saved(act, s, d, b) \in DraftEvents
BY DEF Saved, DraftEvents, Drafts

LEMMA TypedStep == ASSUME TypeOK, [Next]_vars PROVE TypeOK'
<1>2. CASE EditCase /\ UNCHANGED gvars
  <2>1. [case EXCEPT !.facts = case.revision + 1] \in CaseRow
    <3>1. case \in CaseRow
      BY DEF TypeOK
    <3> QED
      BY <3>1 DEF CaseRow
  <2> QED
    BY <1>2, <2>1, CaseTyped DEF EditCase
<1>3. CASE ShelveCase /\ UNCHANGED gvars
  <2>1. [case EXCEPT !.active = ~@] \in CaseRow
    BY DEF TypeOK, CaseRow
  <2> QED
    BY <1>3, <2>1, CaseTyped DEF ShelveCase
<1>4. CASE Withdraw
  BY <1>4 DEF Withdraw, TypeOK, Silence, Replies
<1>5. ASSUME NEW t \in Templates, Activate(t) PROVE TypeOK'
  BY <1>5 DEF Activate, TypeOK, Silence, Replies
<1>6. ASSUME NEW s \in Sessions, OpenPage(s) PROVE TypeOK'
  <2>1. [active |-> case.active, case |-> case.revision, draft |-> NoDraft] \in Pages
    BY NothingTyped DEF TypeOK, CaseRow, Pages
  <2> QED
    BY <1>6, <2>1, GoTyped, CloseTyped, LockKept DEF OpenPage, Open, TypeOK, PCs
<1>7. ASSUME NEW s \in Sessions, FillPage(s) PROVE TypeOK'
  <2>1. [page[s] EXCEPT !.draft = draft, !.active = FALSE] \in Pages
    BY DEF TypeOK, Pages
  <2>2. page' = [page EXCEPT ![s] = [page[s] EXCEPT !.draft = draft, !.active = FALSE]]
    BY <1>7 DEF FillPage, Fill, TypeOK
  <2>3. /\ tokens \in Nat /\ tokens <= MaxTokens /\ MaxTokens \in Nat /\ case.facts \in Nat
        /\ active \in Templates \cup {NoTemplate}
    BY GenerationAssumption DEF TypeOK, CaseRow
  <2>4. tokens' \in 0..MaxTokens /\ offer' \in [Sessions -> Offers]
    <3>1. CASE UNCHANGED <<tokens, offer>>
      BY <3>1 DEF TypeOK
    <3>2. CASE /\ tokens < MaxTokens
               /\ tokens' = tokens + 1
               /\ offer' = [offer EXCEPT ![s] = [token |-> tokens + 1, facts |-> case.facts,
                                                 template |-> active]]
      <4>1. [token |-> tokens + 1, facts |-> case.facts, template |-> active] \in Offers
        BY <2>3, <3>2 DEF Offers
      <4> QED
        BY <2>3, <3>2, <4>1 DEF TypeOK
    <3> QED
      BY <1>7, <3>1, <3>2 DEF FillPage
  <2>5. page' \in [Sessions -> Pages] /\ pc' = [pc EXCEPT ![s] = "form"] /\ pc[s] = "open"
    BY <1>7, <2>1, <2>2 DEF FillPage, Fill, TypeOK
  <2>6. pc' \in [Sessions -> PCs] /\ reply' \in [to : Sessions \cup {Nobody}, what : Replies]
    BY <1>7, GoTyped DEF FillPage, Fill, PCs
  <2> QED
    BY <1>7, <2>4, <2>5, <2>6, LockKept DEF FillPage, Fill, TypeOK, PCs
<1>8. ASSUME NEW s \in Sessions, OpenHistory(s) PROVE TypeOK'
  <2>1. tokens' \in 0..MaxTokens /\ offer' \in [Sessions -> Offers]
    <3>1. /\ tokens \in Nat /\ tokens < MaxTokens /\ MaxTokens \in Nat /\ offer[s] \in Offers
          /\ tokens' = tokens + 1
          /\ offer' = [offer EXCEPT ![s] = [offer[s] EXCEPT !.token = tokens + 1]]
      BY <1>8, GenerationAssumption DEF OpenHistory, TypeOK
    <3>2. [offer[s] EXCEPT !.token = tokens + 1] \in Offers
      BY <3>1 DEF Offers
    <3> QED
      BY <3>1, <3>2 DEF TypeOK
  <2> QED
    BY <1>8, <2>1, GoTyped, LockKept DEF OpenHistory, TypeOK, PCs
<1>9. ASSUME NEW s \in Sessions, NEW t \in Sessions, Resend(s, t) PROVE TypeOK'
  BY <1>9, GoTyped, LockKept DEF Resend, TypeOK, PCs
<1>10. ASSUME NEW s \in Sessions, Save(s), Close(s),
            UNCHANGED <<template, attempts, tokens>>
      PROVE TypeOK'
  <2>1. CASE \E x \in {"denied", "invalid", "conflict"} : Answer(s, x)
    BY <1>10, <2>1, AnswerTyped, CloseTyped, LockKept DEF Save, TypeOK, PCs, Replies
  <2>2. CASE Go(s, "lock")
    <3>1. [NoPage EXCEPT !.draft = page[s].draft] \in Pages
      BY NothingTyped DEF TypeOK, Pages
    <3>2. /\ \E st \in States : wanted' = [wanted EXCEPT ![s] = st]
          /\ loaded' = [loaded EXCEPT ![s] = draft]
          /\ page' = [page EXCEPT ![s] = [NoPage EXCEPT !.draft = page[s].draft]]
      BY <1>10, <2>2 DEF Save, TypeOK, PCs, Silence
    <3> QED
      <4>1. /\ page' \in [Sessions -> Pages] /\ wanted' \in [Sessions -> States]
            /\ loaded' \in [Sessions -> Drafts]
        BY <3>1, <3>2 DEF TypeOK
      <4>2. pc[s] = "form" /\ UNCHANGED caseLock
        BY <1>10 DEF Save
      <4>3. \A t \in Sessions : pc'[t] \in {"write", "snapshot"} <=> caseLock' = t
        BY <2>2, <4>2, LockKept DEF PCs
      <4> QED
        BY <1>10, <2>2, <4>1, <4>3, GoTyped, CloseTyped DEF Save, TypeOK, PCs
  <2> QED
    BY <1>10, <2>1, <2>2 DEF Save
<1>11. ASSUME NEW s \in Sessions, End(s, "missing"), pc[s] = "form", UNCHANGED <<committed, caseLock>>,
            UNCHANGED <<template, attempts, tokens>>
      PROVE TypeOK'
  BY <1>11, AnswerTyped, CloseTyped, LockKept DEF TypeOK, PCs, Replies
<1>12. ASSUME NEW s \in Sessions, Lock(s),
            UNCHANGED <<template, attempts, tokens, offer>>
      PROVE TypeOK'
  <2>1. CASE Answer(s, "denied") /\ UNCHANGED caseLock
    BY <1>12, <2>1, AnswerTyped, LockKept DEF Lock, TypeOK, PCs, Replies
  <2>2. CASE Carry(s, "write") /\ Acquire(s)
    BY <1>12, <2>2, GoTyped, LockTaken DEF Lock, TypeOK, PCs
  <2> QED
    BY <1>12, <2>1, <2>2 DEF Lock
<1>13. ASSUME NEW s \in Sessions, Create(s),
            UNCHANGED <<template, attempts, tokens, offer>>
      PROVE TypeOK'
  <2>1. draft' \in Drafts
    BY <1>13 DEF Create, TypeOK, Drafts
  <2>2. trail' \in Seq(DraftEvents)
    BY <1>13, <2>1, EventTyped DEF Create
  <2> QED
    BY <1>13, <2>1, <2>2, AnswerTyped, LockKept DEF Create, TypeOK, PCs, Replies
<1>14. ASSUME NEW s \in Sessions, CreateTwice(s),
            UNCHANGED <<template, attempts, tokens, offer>>
      PROVE TypeOK'
  BY <1>14, AnswerTyped, LockKept DEF CreateTwice, TypeOK, PCs, Replies
<1>15. ASSUME NEW s \in Sessions, Update(s),
            UNCHANGED <<template, attempts, tokens, offer>>
      PROVE TypeOK'
  <2>1. draft' \in Drafts
    BY <1>15 DEF Update, TypeOK, Drafts, Pages
  <2>2. loaded[s].payload \in Sessions \cup {Nobody}
    BY DEF TypeOK, Drafts
  <2>3. Saved(Kind(s), s, draft', loaded[s].payload) \in DraftEvents
    BY <2>1, <2>2, EventTyped DEF Kind
  <2>4. trail' \in Seq(DraftEvents)
    BY <1>15, <2>3 DEF Update, TypeOK
  <2> QED
    BY <1>15, <2>1, <2>4, AnswerTyped, LockKept DEF Update, TypeOK, PCs, Replies
<1>16. ASSUME NEW s \in Sessions, UpdateStale(s),
            UNCHANGED <<template, attempts, tokens, offer>>
      PROVE TypeOK'
  BY <1>16, AnswerTyped, LockKept DEF UpdateStale, TypeOK, PCs, Replies
<1>17. ASSUME NEW s \in Sessions, Refuse(s),
            UNCHANGED <<template, attempts, tokens, offer>>
      PROVE TypeOK'
  BY <1>17, AnswerTyped, LockKept DEF Refuse, TypeOK, PCs, Replies
<1>18. ASSUME NEW s \in Sessions, FailSave(s),
            UNCHANGED <<template, attempts, tokens, offer>>
      PROVE TypeOK'
  BY <1>18, AnswerTyped, LockKept DEF FailSave, TypeOK, PCs, Replies
<1>19. ASSUME NEW s \in Sessions, Confirm(s) PROVE TypeOK'
  <2>1. CASE \E x \in {"denied", "unavailable"} : End(s, x)
    BY <1>19, <2>1, AnswerTyped, CloseTyped, LockKept DEF Confirm, TypeOK, PCs, Replies
  <2>2. CASE Pass(s, "reserve")
    BY <1>19, <2>2, GoTyped, LockKept DEF Confirm, TypeOK, PCs
  <2> QED
    BY <1>19, <2>1, <2>2 DEF Confirm
<1>20. ASSUME NEW s \in Sessions, Retry(s) PROVE TypeOK'
  <2>1. CASE End(s, "denied")
    BY <1>20, <2>1, AnswerTyped, CloseTyped, LockKept DEF Retry, TypeOK, PCs, Replies
  <2>2. CASE /\ page' = [page EXCEPT ![s].case = case.revision]
             /\ Go(s, "retry")
             /\ UNCHANGED <<wanted, loaded, offer>>
    <3>1. [page[s] EXCEPT !.case = case.revision] \in Pages
      BY DEF TypeOK, Pages, CaseRow
    <3>2. page' = [page EXCEPT ![s] = [page[s] EXCEPT !.case = case.revision]]
      BY <2>2
    <3> QED
      <4>1. page' \in [Sessions -> Pages]
        BY <3>1, <3>2 DEF TypeOK
      <4>2. pc[s] = "history" /\ UNCHANGED caseLock
        BY <1>20 DEF Retry
      <4>3. \A t \in Sessions : pc'[t] \in {"write", "snapshot"} <=> caseLock' = t
        BY <2>2, <4>2, LockKept DEF PCs
      <4> QED
        BY <1>20, <2>2, <4>1, <4>3, GoTyped DEF Retry, TypeOK, PCs
  <2> QED
    BY <1>20, <2>1, <2>2 DEF Retry
<1>21. ASSUME NEW s \in Sessions, RetryCurrent(s) PROVE TypeOK'
  <2>1. CASE End(s, "unavailable")
    BY <1>21, <2>1, AnswerTyped, CloseTyped, LockKept DEF RetryCurrent, TypeOK, PCs, Replies
  <2>2. CASE /\ page' = [page EXCEPT ![s].draft = draft]
             /\ offer' = [offer EXCEPT ![s].template = active]
             /\ Go(s, "reserve")
             /\ UNCHANGED <<wanted, loaded>>
    <3>1. [page[s] EXCEPT !.draft = draft] \in Pages
      BY DEF TypeOK, Pages
    <3>2. [offer[s] EXCEPT !.template = active] \in Offers
      BY DEF TypeOK, Offers
    <3>3. /\ page' = [page EXCEPT ![s] = [page[s] EXCEPT !.draft = draft]]
          /\ offer' = [offer EXCEPT ![s] = [offer[s] EXCEPT !.template = active]]
      BY <2>2
    <3> QED
      <4>1. page' \in [Sessions -> Pages] /\ offer' \in [Sessions -> Offers]
        BY <3>1, <3>2, <3>3 DEF TypeOK
      <4>2. pc[s] = "retry" /\ UNCHANGED caseLock
        BY <1>21 DEF RetryCurrent
      <4>3. \A t \in Sessions : pc'[t] \in {"write", "snapshot"} <=> caseLock' = t
        BY <2>2, <4>2, LockKept DEF PCs
      <4> QED
        BY <1>21, <2>2, <4>1, <4>3, GoTyped DEF RetryCurrent, TypeOK, PCs
  <2> QED
    BY <1>21, <2>1, <2>2 DEF RetryCurrent
<1>22. ASSUME NEW s \in Sessions, Reserve(s) PROVE TypeOK'
  <2>1. CASE \E x \in {"denied", "conflict"} : End(s, x) /\ UNCHANGED caseLock
    BY <1>22, <2>1, AnswerTyped, CloseTyped, LockKept DEF Reserve, TypeOK, PCs, Replies
  <2>2. CASE Generating(s) /\ UNCHANGED caseLock
    BY <1>22, <2>2, GeneratingTyped, LockKept DEF Reserve, TypeOK, PCs
  <2>3. CASE Pass(s, "snapshot") /\ Acquire(s)
    BY <1>22, <2>3, GoTyped, LockTaken DEF Reserve, TypeOK, PCs
  <2> QED
    BY <1>22, <2>1, <2>2, <2>3 DEF Reserve
<1>23. ASSUME NEW s \in Sessions, Snapshot(s) PROVE TypeOK'
  <2>1. [token |-> offer[s].token, case |-> page[s].case, facts |-> case.facts,
         draft |-> draft.revision, template |-> active, payload |-> draft.payload,
         status |-> "generating"] \in Attempt
    <3>1. /\ offer[s].token \in Nat /\ page[s].case \in Nat /\ case.facts \in Nat
          /\ draft.revision \in Nat /\ draft.payload \in Sessions \cup {Nobody}
      BY DEF TypeOK, Offers, Pages, CaseRow, Drafts
    <3>2. active \in Templates
      BY <1>23 DEF Snapshot, Available, TypeOK
    <3> QED
      BY <3>1, <3>2 DEF Attempt, Statuses
  <2>2. attempts' \in Seq(Attempt)
    BY <1>23, <2>1 DEF Snapshot, TypeOK
  <2>3. CASE End(s, "error")
    BY <1>23, <2>2, <2>3, AnswerTyped, CloseTyped, LockKept DEF Snapshot, TypeOK, PCs, Replies
  <2>4. CASE Generating(s)
    BY <1>23, <2>2, <2>4, GeneratingTyped, LockKept DEF Snapshot, TypeOK, PCs
  <2> QED
    BY <1>23, <2>3, <2>4 DEF Snapshot
<1>24. ASSUME NEW s \in Sessions, Decline(s) PROVE TypeOK'
  <2>1. PICK x \in {"unavailable", "conflict"} : End(s, x)
    BY <1>24 DEF Decline
  <2>2. \A t \in Sessions : pc'[t] \in {"write", "snapshot"} <=> caseLock' = t
    BY <1>24, <2>1, LockKept DEF Decline, PCs
  <2> QED
    BY <1>24, <2>1, <2>2, AnswerTyped, CloseTyped DEF Decline, TypeOK, PCs, Replies
<1>25. ASSUME NEW s \in Sessions, Work(s) PROVE TypeOK'
  <2>1. PICK i \in Reserved(s) :
           \/ \E d \in {"generated", "failed"} :
                 attempts' = [attempts EXCEPT ![i].status = d] /\ End(s, d)
           \/ /\ attempts[i].status # "generating"
              /\ End(s, attempts[i].status) /\ UNCHANGED attempts
    BY <1>25 DEF Work
  <2>2. i \in 1..Len(attempts) /\ attempts[i] \in Attempt /\ attempts[i].status \in Statuses
    <3>1. i \in 1..Len(attempts) /\ attempts \in Seq(Attempt)
      BY DEF Reserved, TypeOK
    <3>2. attempts[i] \in Attempt
      BY <3>1
    <3> QED
      BY <3>1, <3>2 DEF Attempt
  <2>3. PICK x \in {"generated", "failed"} : End(s, x)
    BY <2>1, <2>2 DEF Statuses
  <2>4. attempts' \in Seq(Attempt)
    <3>1. \A d \in {"generated", "failed"} : [attempts[i] EXCEPT !.status = d] \in Attempt
      BY <2>2 DEF Attempt, Statuses
    <3>2. ASSUME NEW d \in {"generated", "failed"},
                 attempts' = [attempts EXCEPT ![i].status = d]
          PROVE  attempts' \in Seq(Attempt)
      <4>1. attempts' = [attempts EXCEPT ![i] = [attempts[i] EXCEPT !.status = d]]
        BY <3>2
      <4> QED
        BY <2>2, <3>1, <4>1, ExceptSeq DEF TypeOK
    <3> QED
      BY <2>1, <3>2 DEF TypeOK
  <2> QED
    BY <1>25, <2>3, <2>4, AnswerTyped, CloseTyped, LockKept DEF Work, TypeOK, PCs, Replies
<1>26. ASSUME NEW s \in Sessions, FailGeneration(s) PROVE TypeOK'
  BY <1>26, AnswerTyped, CloseTyped, LockKept DEF FailGeneration, TypeOK, PCs, Replies
<1>27. CASE UNCHANGED vars
  BY <1>27 DEF vars, dvars, gvars, TypeOK, PCs, Replies
<1> QED
  BY <1>2, <1>3, <1>4, <1>5, <1>6, <1>7, <1>8, <1>9, <1>10, <1>11, <1>12, <1>13, <1>14,
     <1>15, <1>16, <1>17, <1>18, <1>19, <1>20, <1>21, <1>22, <1>23, <1>24, <1>25, <1>26, <1>27
     DEF Next, Browse, Draft, Write, Generate, Rest

\* Every reachable state is well typed, and the case row is held exactly by who writes a
\* draft or takes a snapshot (draft_services.py, generation_reservations.py).
THEOREM GenerationTyped == Spec => []TypeOK
<1>1. Init => TypeOK
  BY NothingTyped, ConstantsAssumption, GenerationAssumption
     DEF Init, DInit, TypeOK, NewCase, CaseRow, PCs, Replies, Silence, States
<1> QED
  BY <1>1, TypedStep, PTL DEF Spec

--------------------------------------------------------------------------------
(* The inductive invariant: the case *)

USE DEF ChangeCase, NoOffer, NoPage

LEMMA CaseIsTyped == TypeOK => /\ case.revision \in Nat /\ case.facts \in Nat
                               /\ case.active \in BOOLEAN
                               /\ \A s \in Sessions : page[s].case \in Nat /\ offer[s].facts \in Nat
BY DEF TypeOK, CaseRow, Pages, Offers

\* Work on an attempt changes its status only.
LEMMA WorkKeeps ==
  ASSUME TypeOK, NEW s \in Sessions, Work(s)
  PROVE  /\ Len(attempts') = Len(attempts)
         /\ \A i \in 1..Len(attempts) :
               /\ attempts'[i].token = attempts[i].token /\ attempts'[i].case = attempts[i].case
               /\ attempts'[i].facts = attempts[i].facts /\ attempts'[i].draft = attempts[i].draft
               /\ attempts'[i].payload = attempts[i].payload
<1>1. PICK i \in Reserved(s) :
         \/ \E d \in {"generated", "failed"} : attempts' = [attempts EXCEPT ![i].status = d]
         \/ UNCHANGED attempts
  BY DEF Work
<1>2. i \in 1..Len(attempts) /\ attempts \in Seq(Attempt)
  BY DEF Reserved, TypeOK
<1>3. attempts[i] \in Attempt
  BY <1>2
<1>4. ASSUME NEW d \in {"generated", "failed"}, attempts' = [attempts EXCEPT ![i].status = d]
      PROVE  /\ Len(attempts') = Len(attempts)
             /\ \A j \in 1..Len(attempts) :
                   attempts'[j] = IF j = i THEN [attempts[i] EXCEPT !.status = d] ELSE attempts[j]
  <2>1. attempts' = [attempts EXCEPT ![i] = [attempts[i] EXCEPT !.status = d]]
    BY <1>4
  <2>2. [attempts[i] EXCEPT !.status = d] \in Attempt
    BY <1>3, <1>4 DEF Attempt, Statuses
  <2> QED
    BY <1>2, <2>1, <2>2, ExceptSeq
<1> QED
  BY <1>1, <1>3, <1>4 DEF Attempt

LEMMA LockedStep == ASSUME TypeOK, TypeOK', GenerationInv, [Next]_vars PROVE LockedIsChecked'
<1>2. CASE EditCase /\ UNCHANGED gvars
  BY <1>2, CaseIsTyped, ConstantsAssumption DEF EditCase, TypeOK, GenerationInv,
                                                LockedIsChecked, Reserved
<1>3. CASE ShelveCase /\ UNCHANGED gvars
  BY <1>3, CaseIsTyped, ConstantsAssumption DEF ShelveCase, TypeOK, GenerationInv,
                                                LockedIsChecked, Reserved
<1>4. CASE Withdraw
  BY <1>4, CaseIsTyped, ConstantsAssumption DEF Withdraw, TypeOK, GenerationInv,
                                                LockedIsChecked, Reserved
<1>5. ASSUME NEW t \in Templates, Activate(t) PROVE LockedIsChecked'
  BY <1>5, CaseIsTyped, ConstantsAssumption DEF Activate, TypeOK, GenerationInv,
                                                LockedIsChecked, Reserved
<1>6. ASSUME NEW s \in Sessions, OpenPage(s) PROVE LockedIsChecked'
  BY <1>6, CaseIsTyped, ConstantsAssumption DEF OpenPage, Open, TypeOK, GenerationInv,
                                                LockedIsChecked, Reserved
<1>7. ASSUME NEW s \in Sessions, FillPage(s) PROVE LockedIsChecked'
  BY <1>7, CaseIsTyped, ConstantsAssumption DEF FillPage, Fill, TypeOK, GenerationInv,
                                                LockedIsChecked, Reserved
<1>8. ASSUME NEW s \in Sessions, OpenHistory(s) PROVE LockedIsChecked'
  BY <1>8, CaseIsTyped, ConstantsAssumption DEF OpenHistory, TypeOK, GenerationInv,
                                                LockedIsChecked, Reserved
<1>9. ASSUME NEW s \in Sessions, NEW t \in Sessions, Resend(s, t) PROVE LockedIsChecked'
  BY <1>9, CaseIsTyped, ConstantsAssumption DEF Resend, TypeOK, GenerationInv,
                                                LockedIsChecked, Reserved
<1>10. ASSUME NEW s \in Sessions, Save(s), Close(s),
            UNCHANGED <<template, attempts, tokens>>
      PROVE LockedIsChecked'
  BY <1>10, CaseIsTyped, ConstantsAssumption DEF Save, TypeOK, GenerationInv,
                                                 LockedIsChecked, Reserved
<1>11. ASSUME NEW s \in Sessions, End(s, "missing"), pc[s] = "form", UNCHANGED <<committed, caseLock>>,
            UNCHANGED <<template, attempts, tokens>>
      PROVE LockedIsChecked'
  BY <1>11, CaseIsTyped, ConstantsAssumption DEF TypeOK, GenerationInv, LockedIsChecked,
                                                 Reserved
<1>12. ASSUME NEW s \in Sessions, Lock(s),
            UNCHANGED <<template, attempts, tokens, offer>>
      PROVE LockedIsChecked'
  BY <1>12, CaseIsTyped, ConstantsAssumption DEF Lock, TypeOK, GenerationInv,
                                                 LockedIsChecked, Reserved
<1>13. ASSUME NEW s \in Sessions, Create(s),
            UNCHANGED <<template, attempts, tokens, offer>>
      PROVE LockedIsChecked'
  BY <1>13, CaseIsTyped, ConstantsAssumption DEF Create, TypeOK, GenerationInv,
                                                 LockedIsChecked, Reserved
<1>14. ASSUME NEW s \in Sessions, CreateTwice(s),
            UNCHANGED <<template, attempts, tokens, offer>>
      PROVE LockedIsChecked'
  BY <1>14, CaseIsTyped, ConstantsAssumption DEF CreateTwice, TypeOK, GenerationInv,
                                                 LockedIsChecked, Reserved
<1>15. ASSUME NEW s \in Sessions, Update(s),
            UNCHANGED <<template, attempts, tokens, offer>>
      PROVE LockedIsChecked'
  BY <1>15, CaseIsTyped, ConstantsAssumption DEF Update, TypeOK, GenerationInv,
                                                 LockedIsChecked, Reserved
<1>16. ASSUME NEW s \in Sessions, UpdateStale(s),
            UNCHANGED <<template, attempts, tokens, offer>>
      PROVE LockedIsChecked'
  BY <1>16, CaseIsTyped, ConstantsAssumption DEF UpdateStale, TypeOK, GenerationInv,
                                                 LockedIsChecked, Reserved
<1>17. ASSUME NEW s \in Sessions, Refuse(s),
            UNCHANGED <<template, attempts, tokens, offer>>
      PROVE LockedIsChecked'
  BY <1>17, CaseIsTyped, ConstantsAssumption DEF Refuse, TypeOK, GenerationInv,
                                                 LockedIsChecked, Reserved
<1>18. ASSUME NEW s \in Sessions, FailSave(s),
            UNCHANGED <<template, attempts, tokens, offer>>
      PROVE LockedIsChecked'
  BY <1>18, CaseIsTyped, ConstantsAssumption DEF FailSave, TypeOK, GenerationInv,
                                                 LockedIsChecked, Reserved
<1>19. ASSUME NEW s \in Sessions, Confirm(s) PROVE LockedIsChecked'
  BY <1>19, CaseIsTyped, ConstantsAssumption DEF Confirm, TypeOK, GenerationInv,
                                                 LockedIsChecked, Reserved
<1>20. ASSUME NEW s \in Sessions, Retry(s) PROVE LockedIsChecked'
  BY <1>20, CaseIsTyped, ConstantsAssumption DEF Retry, TypeOK, GenerationInv,
                                                 LockedIsChecked, Reserved
<1>21. ASSUME NEW s \in Sessions, RetryCurrent(s) PROVE LockedIsChecked'
  BY <1>21, CaseIsTyped, ConstantsAssumption DEF RetryCurrent, TypeOK, GenerationInv,
                                                 LockedIsChecked, Reserved
<1>22. ASSUME NEW s \in Sessions, Reserve(s) PROVE LockedIsChecked'
  BY <1>22, CaseIsTyped, ConstantsAssumption DEF Reserve, TypeOK, GenerationInv,
                                                 LockedIsChecked, Reserved
<1>23. ASSUME NEW s \in Sessions, Snapshot(s) PROVE LockedIsChecked'
  BY <1>23, CaseIsTyped, ConstantsAssumption DEF Snapshot, TypeOK, GenerationInv,
                                                 LockedIsChecked, Reserved
<1>24. ASSUME NEW s \in Sessions, Decline(s) PROVE LockedIsChecked'
  BY <1>24, CaseIsTyped, ConstantsAssumption DEF Decline, TypeOK, GenerationInv,
                                                 LockedIsChecked, Reserved
<1>25. ASSUME NEW s \in Sessions, Work(s) PROVE LockedIsChecked'
  <2>1. /\ UNCHANGED <<case, caseLock>> /\ pc[s] = "work"
        /\ \A t \in Sessions \ {s} : pc'[t] = pc[t] /\ page'[t] = page[t] /\ offer'[t] = offer[t]
        /\ pc'[s] = "idle"
    BY <1>25 DEF Work, TypeOK
  <2>2. /\ Len(attempts') = Len(attempts)
        /\ \A i \in 1..Len(attempts) : attempts'[i].token = attempts[i].token
    BY <1>25, WorkKeeps
  <2>3. \A t \in Sessions \ {s} : Reserved(t) = {} => Reserved(t)' = {}
    BY <2>1, <2>2 DEF Reserved
  <2> QED
    BY <2>1, <2>3 DEF GenerationInv, LockedIsChecked
<1>26. ASSUME NEW s \in Sessions, FailGeneration(s) PROVE LockedIsChecked'
  BY <1>26, CaseIsTyped, ConstantsAssumption DEF FailGeneration, TypeOK, GenerationInv,
                                                 LockedIsChecked, Reserved
<1>27. CASE UNCHANGED vars
  BY <1>27 DEF vars, dvars, gvars, TypeOK, GenerationInv, LockedIsChecked, Reserved
<1> QED
  BY <1>2, <1>3, <1>4, <1>5, <1>6, <1>7, <1>8, <1>9, <1>10, <1>11, <1>12, <1>13, <1>14,
     <1>15, <1>16, <1>17, <1>18, <1>19, <1>20, <1>21, <1>22, <1>23, <1>24, <1>25, <1>26, <1>27
     DEF Next, Browse, Draft, Write, Generate, Rest

\* The step of one session.
LEMMA OnePage ==
  ASSUME TypeOK, TypeOK', PagesArePast, NEW s \in Sessions, UNCHANGED case, PageIsPast(s)',
         \A t \in Sessions \ {s} : pc'[t] = pc[t] /\ page'[t] = page[t] /\ offer'[t] = offer[t]
  PROVE  PagesArePast'
BY DEF PagesArePast, PageIsPast

\* The end of a request that has no offer or gives it up.
LEMMA PageAnswered ==
  ASSUME TypeOK, TypeOK', PagesArePast, NEW s \in Sessions, NEW x, Answer(s, x),
         UNCHANGED case, Close(s) \/ (UNCHANGED offer /\ pc[s] \in {"lock", "write"})
  PROVE  PagesArePast'
<1>1. page'[s].case = 0 /\ offer'[s].facts = 0
  <2>1. page'[s] = NoPage
    BY DEF TypeOK
  <2>2. CASE Close(s)
    BY <2>1, <2>2 DEF TypeOK
  <2>3. CASE UNCHANGED offer /\ pc[s] \in {"lock", "write"}
    BY <2>1, <2>3 DEF PagesArePast, PageIsPast
  <2> QED
    BY <2>2, <2>3
<1>2. PageIsPast(s)'
  BY <1>1, CaseIsTyped DEF PagesArePast, PageIsPast
<1> QED
  BY <1>2, OnePage DEF TypeOK

LEMMA PageGenerating ==
  ASSUME TypeOK, TypeOK', PagesArePast, NEW s \in Sessions, Generating(s), UNCHANGED case
  PROVE  PagesArePast'
<1>1. PageIsPast(s)'
  BY CaseIsTyped DEF PagesArePast, PageIsPast, TypeOK, Generating
<1> QED
  BY <1>1, OnePage DEF TypeOK, Generating

LEMMA PagesStep == ASSUME TypeOK, TypeOK', GenerationInv, [Next]_vars PROVE PagesArePast'
<1>2. CASE EditCase /\ UNCHANGED gvars
  <2>1. case'.revision = case.revision + 1 /\ UNCHANGED <<page, offer, pc>>
    BY <1>2 DEF EditCase, gvars, TypeOK, CaseRow
  <2> QED
    BY <2>1, CaseIsTyped DEF GenerationInv, PagesArePast, PageIsPast
<1>3. CASE ShelveCase /\ UNCHANGED gvars
  <2>1. case'.revision = case.revision + 1 /\ UNCHANGED <<page, offer, pc>>
    BY <1>3 DEF ShelveCase, gvars, TypeOK, CaseRow
  <2> QED
    BY <2>1, CaseIsTyped DEF GenerationInv, PagesArePast, PageIsPast
<1>4. CASE Withdraw
  BY <1>4, CaseIsTyped DEF Withdraw, TypeOK, GenerationInv, PagesArePast, PageIsPast
<1>5. ASSUME NEW t \in Templates, Activate(t) PROVE PagesArePast'
  BY <1>5, CaseIsTyped DEF Activate, TypeOK, GenerationInv, PagesArePast, PageIsPast
<1>6. ASSUME NEW s \in Sessions, OpenPage(s) PROVE PagesArePast'
  BY <1>6, CaseIsTyped DEF OpenPage, Open, TypeOK, GenerationInv, PagesArePast, PageIsPast
<1>7. ASSUME NEW s \in Sessions, FillPage(s) PROVE PagesArePast'
  BY <1>7, CaseIsTyped DEF FillPage, Fill, TypeOK, GenerationInv, PagesArePast, PageIsPast
<1>8. ASSUME NEW s \in Sessions, OpenHistory(s) PROVE PagesArePast'
  BY <1>8, CaseIsTyped DEF OpenHistory, TypeOK, GenerationInv, PagesArePast, PageIsPast
<1>9. ASSUME NEW s \in Sessions, NEW t \in Sessions, Resend(s, t) PROVE PagesArePast'
  BY <1>9, CaseIsTyped DEF Resend, TypeOK, GenerationInv, PagesArePast, PageIsPast
<1>10. ASSUME NEW s \in Sessions, Save(s), Close(s),
            UNCHANGED <<template, attempts, tokens>>
      PROVE PagesArePast'
  <2>1. CASE \E x \in Replies : Answer(s, x)
    BY <1>10, <2>1, PageAnswered DEF Save, GenerationInv
  <2>2. CASE page' = [page EXCEPT ![s] = [NoPage EXCEPT !.draft = page[s].draft]] /\ Go(s, "lock")
    <3>1. PageIsPast(s)'
      BY <1>10, <2>2, CaseIsTyped DEF Save, GenerationInv, PagesArePast, PageIsPast, TypeOK
    <3> QED
      BY <1>10, <2>2, <3>1, OnePage DEF Save, GenerationInv, TypeOK
  <2> QED
    BY <1>10, <2>1, <2>2 DEF Save, Replies
<1>11. ASSUME NEW s \in Sessions, End(s, "missing"), pc[s] = "form", UNCHANGED <<committed, caseLock>>,
            UNCHANGED <<template, attempts, tokens>>
      PROVE PagesArePast'
  BY <1>11, PageAnswered DEF GenerationInv
<1>12. ASSUME NEW s \in Sessions, Lock(s),
            UNCHANGED <<template, attempts, tokens, offer>>
      PROVE PagesArePast'
  <2>1. CASE Carry(s, "write")
    BY <1>12, <2>1 DEF Lock, TypeOK, GenerationInv, PagesArePast, PageIsPast
  <2> QED
    BY <1>12, <2>1, PageAnswered DEF Lock, GenerationInv
<1>13. ASSUME NEW s \in Sessions, Create(s),
            UNCHANGED <<template, attempts, tokens, offer>>
      PROVE PagesArePast'
  BY <1>13, PageAnswered DEF Create, GenerationInv
<1>14. ASSUME NEW s \in Sessions, CreateTwice(s),
            UNCHANGED <<template, attempts, tokens, offer>>
      PROVE PagesArePast'
  BY <1>14, PageAnswered DEF CreateTwice, GenerationInv
<1>15. ASSUME NEW s \in Sessions, Update(s),
            UNCHANGED <<template, attempts, tokens, offer>>
      PROVE PagesArePast'
  BY <1>15, PageAnswered DEF Update, GenerationInv
<1>16. ASSUME NEW s \in Sessions, UpdateStale(s),
            UNCHANGED <<template, attempts, tokens, offer>>
      PROVE PagesArePast'
  BY <1>16, PageAnswered DEF UpdateStale, GenerationInv
<1>17. ASSUME NEW s \in Sessions, Refuse(s),
            UNCHANGED <<template, attempts, tokens, offer>>
      PROVE PagesArePast'
  BY <1>17, PageAnswered DEF Refuse, GenerationInv
<1>18. ASSUME NEW s \in Sessions, FailSave(s),
            UNCHANGED <<template, attempts, tokens, offer>>
      PROVE PagesArePast'
  BY <1>18, PageAnswered DEF FailSave, GenerationInv
<1>19. ASSUME NEW s \in Sessions, Confirm(s) PROVE PagesArePast'
  BY <1>19, CaseIsTyped DEF Confirm, TypeOK, GenerationInv, PagesArePast, PageIsPast
<1>20. ASSUME NEW s \in Sessions, Retry(s) PROVE PagesArePast'
  <2>1. CASE page' = [page EXCEPT ![s].case = case.revision] /\ UNCHANGED offer
    <3>1. page'[s].case = case.revision /\ offer[s].facts = 0
      <4>1. page[s] \in Pages /\ page'[s] = [page[s] EXCEPT !.case = case.revision]
        BY <2>1 DEF TypeOK
      <4>2. page'[s].case = case.revision
        BY <4>1 DEF Pages
      <4> QED
        BY <1>20, <4>2 DEF Retry, GenerationInv, PagesArePast, PageIsPast
    <3>2. PageIsPast(s)'
      BY <1>20, <2>1, <3>1, CaseIsTyped DEF Retry, PageIsPast
    <3> QED
      BY <1>20, <2>1, <3>2, OnePage DEF Retry, TypeOK, GenerationInv
  <2> QED
    BY <1>20, <2>1, PageAnswered DEF Retry, GenerationInv
<1>21. ASSUME NEW s \in Sessions, RetryCurrent(s) PROVE PagesArePast'
  <2>1. CASE /\ page' = [page EXCEPT ![s].draft = draft]
             /\ offer' = [offer EXCEPT ![s].template = active]
    <3>1. page'[s].case = page[s].case /\ offer'[s].facts = offer[s].facts /\ offer[s].facts = 0
      <4>1. /\ page[s] \in Pages /\ page'[s] = [page[s] EXCEPT !.draft = draft]
            /\ offer[s] \in Offers /\ offer'[s] = [offer[s] EXCEPT !.template = active]
        BY <2>1 DEF TypeOK
      <4>2. page'[s].case = page[s].case /\ offer'[s].facts = offer[s].facts
        BY <4>1 DEF Pages, Offers
      <4> QED
        BY <1>21, <4>2 DEF RetryCurrent, GenerationInv, PagesArePast, PageIsPast
    <3>2. PageIsPast(s)'
      BY <1>21, <3>1 DEF RetryCurrent, GenerationInv, PagesArePast, PageIsPast
    <3> QED
      BY <1>21, <2>1, <3>2, OnePage DEF RetryCurrent, TypeOK, GenerationInv
  <2> QED
    BY <1>21, <2>1, PageAnswered DEF RetryCurrent, GenerationInv
<1>22. ASSUME NEW s \in Sessions, Reserve(s) PROVE PagesArePast'
  <2>1. CASE Pass(s, "snapshot")
    BY <1>22, <2>1 DEF Reserve, TypeOK, GenerationInv, PagesArePast, PageIsPast
  <2> QED
    BY <1>22, <2>1, PageAnswered, PageGenerating DEF Reserve, GenerationInv
<1>23. ASSUME NEW s \in Sessions, Snapshot(s) PROVE PagesArePast'
  BY <1>23, PageAnswered, PageGenerating DEF Snapshot, GenerationInv
<1>24. ASSUME NEW s \in Sessions, Decline(s) PROVE PagesArePast'
  BY <1>24, PageAnswered DEF Decline, GenerationInv
<1>25. ASSUME NEW s \in Sessions, Work(s) PROVE PagesArePast'
  BY <1>25, PageAnswered DEF Work, GenerationInv
<1>26. ASSUME NEW s \in Sessions, FailGeneration(s) PROVE PagesArePast'
  BY <1>26, PageAnswered DEF FailGeneration, GenerationInv
<1>27. CASE UNCHANGED vars
  BY <1>27 DEF vars, dvars, gvars, TypeOK, GenerationInv, PagesArePast, PageIsPast
<1> QED
  BY <1>2, <1>3, <1>4, <1>5, <1>6, <1>7, <1>8, <1>9, <1>10, <1>11, <1>12, <1>13, <1>14,
     <1>15, <1>16, <1>17, <1>18, <1>19, <1>20, <1>21, <1>22, <1>23, <1>24, <1>25, <1>26, <1>27
     DEF Next, Browse, Draft, Write, Generate, Rest

--------------------------------------------------------------------------------
(* The inductive invariant: the draft *)

LEMMA Nothing == NoDraft.revision = 0 /\ NoPage.draft = NoDraft /\ NoPage.case = 0
BY DEF NoDraft

LEMMA VersionOf == \A n : Version(n).revision = n
BY DEF Version, NoDraft

LEMMA NowIsPast == TypeOK /\ GenerationInv => /\ IsPast(draft) /\ IsPast(NoDraft)
                                              /\ draft.revision = Len(trail)
                                              /\ Len(trail) \in Nat
                                              /\ draft = NoDraft <=> Len(trail) = 0
<1> SUFFICES ASSUME TypeOK, GenerationInv
             PROVE  /\ IsPast(draft) /\ IsPast(NoDraft)
                    /\ draft.revision = Len(trail) /\ Len(trail) \in Nat
                    /\ draft = NoDraft <=> Len(trail) = 0
  OBVIOUS
<1>1. draft = Version(Len(trail)) /\ Len(trail) \in Nat
  BY DEF GenerationInv, EventsTellTheChange, TypeOK
<1>2. draft.revision = Len(trail)
  BY <1>1, VersionOf
<1> QED
  BY <1>1, <1>2, Nothing DEF IsPast, Version

\* What a step that writes no draft leaves of the pages and reads.
LEMMA PicturesKept ==
  ASSUME TypeOK, GenerationInv, UNCHANGED <<draft, trail>>,
         \A t \in Sessions :
            /\ page'[t].draft \in {NoDraft, draft} \/ \E u \in Sessions : page'[t].draft = page[u].draft
            /\ loaded'[t] \in {NoDraft, draft, loaded[t]}
            /\ pc'[t] \in {"lock", "write"} =>
                  \/ /\ pc[t] \in {"lock", "write"}
                     /\ page'[t].draft = page[t].draft /\ loaded'[t] = loaded[t]
                  \/ /\ page'[t].draft.revision <= loaded'[t].revision
                     /\ loaded'[t] = NoDraft <=> page'[t].draft = NoDraft
  PROVE  EventsTellTheChange' /\ DraftsArePast'
<1>1. EventsTellTheChange'
  BY DEF GenerationInv, EventsTellTheChange, Version
<1>2. \A t \in Sessions : IsPast(page'[t].draft) /\ IsPast(loaded'[t])
  BY NowIsPast DEF GenerationInv, DraftsArePast
<1>3. \A t \in Sessions : IsPast(page[t].draft)' /\ IsPast(loaded[t])'
  BY <1>2 DEF IsPast, Version
<1> QED
  BY <1>1, <1>3 DEF GenerationInv, DraftsArePast

LEMMA AnswerKeeps ==
  ASSUME TypeOK, GenerationInv, NEW s \in Sessions, NEW x, Answer(s, x), UNCHANGED <<draft, trail>>
  PROVE  EventsTellTheChange' /\ DraftsArePast'
BY PicturesKept, Nothing DEF TypeOK

LEMMA GeneratingKeeps ==
  ASSUME TypeOK, GenerationInv, NEW s \in Sessions, Generating(s), UNCHANGED <<draft, trail>>
  PROVE  EventsTellTheChange' /\ DraftsArePast'
BY PicturesKept, Nothing DEF TypeOK, Generating

\* A write appends one event and one version.
LEMMA WriteGrows ==
  ASSUME TypeOK, TypeOK', GenerationInv, NEW s \in Sessions, Create(s) \/ Update(s)
  PROVE  /\ Len(trail') = Len(trail) + 1
         /\ \A n \in 1..Len(trail) : trail'[n] = trail[n]
         /\ trail'[Len(trail')].by = draft'.payload /\ trail'[Len(trail')].state = draft'.state
         /\ draft' = [revision |-> Len(trail'), state |-> wanted[s], payload |-> s]
         /\ page[s].draft.revision = Len(trail)
<1>1. Len(trail) \in Nat /\ draft.revision = Len(trail) /\ trail \in Seq(DraftEvents)
  BY NowIsPast DEF TypeOK
<1>2. CASE Create(s)
  <2>1. Len(trail) = 0
    BY <1>2, NowIsPast DEF Create
  <2>2. page[s].draft = NoDraft
    BY <1>2 DEF Create, GenerationInv, DraftsArePast
  <2> QED
    BY <1>2, <2>1, <2>2, Nothing DEF Create, Saved
<1>3. CASE Update(s)
  <2>1. page[s].draft.revision = Len(trail)
    BY <1>1, <1>3 DEF Update
  <2>2. /\ draft' = [revision |-> Len(trail) + 1, state |-> wanted[s], payload |-> s]
        /\ trail' = Append(trail, Saved(Kind(s), s, draft', loaded[s].payload))
    BY <1>3, <2>1 DEF Update
  <2>3. /\ Len(trail') = Len(trail) + 1
        /\ \A n \in 1..Len(trail) : trail'[n] = trail[n]
        /\ trail'[Len(trail) + 1] = Saved(Kind(s), s, draft', loaded[s].payload)
    BY <1>1, <2>2
  <2> QED
    BY <2>1, <2>2, <2>3 DEF Saved
<1> QED
  BY <1>2, <1>3

LEMMA VersionsKept ==
  ASSUME TypeOK, TypeOK', GenerationInv, NEW s \in Sessions, Create(s) \/ Update(s)
  PROVE  \A n \in 0..Len(trail) : Version(n)' = Version(n)
BY WriteGrows, NowIsPast DEF Version

LEMMA WriteStep ==
  ASSUME TypeOK, TypeOK', GenerationInv, NEW s \in Sessions, Create(s) \/ Update(s)
  PROVE  EventsTellTheChange' /\ DraftsArePast'
<1>1. Len(trail) \in Nat /\ draft.revision = Len(trail) /\ draft = Version(Len(trail))
  BY NowIsPast DEF GenerationInv, EventsTellTheChange
<1>2. draft' = Version(Len(trail))'
  BY <1>1, WriteGrows DEF Version
<1>3. \A t \in Sessions : IsPast(page[t].draft)' /\ IsPast(loaded[t])'
  <2>1. SUFFICES ASSUME NEW t \in Sessions PROVE IsPast(page[t].draft)' /\ IsPast(loaded[t])'
    OBVIOUS
  <2>2. /\ page'[t].draft \in {NoDraft, page[t].draft} /\ loaded'[t] \in {NoDraft, loaded[t]}
    BY Nothing DEF Create, Update, TypeOK
  <2>3. IsPast(page'[t].draft) /\ IsPast(loaded'[t])
    BY <2>2, NowIsPast DEF GenerationInv, DraftsArePast
  <2> QED
    BY <1>1, <2>3, VersionsKept, WriteGrows DEF IsPast
<1>4. \A t \in Sessions : pc'[t] \in {"lock", "write"} =>
         t # s /\ pc[t] \in {"lock", "write"} /\ page'[t] = page[t] /\ loaded'[t] = loaded[t]
  BY DEF Create, Update, TypeOK
<1>5. DraftsArePast'
  BY <1>3, <1>4 DEF GenerationInv, DraftsArePast
<1>6. \A i \in 1..Len(trail') :
         IF i = 1 THEN trail'[i].action = "created" /\ trail'[i].basis = Nobody
         ELSE /\ trail'[i].basis = trail'[i - 1].by
              /\ trail'[i].action = "state_changed" <=> trail'[i].state # trail'[i - 1].state
  <2>1. CASE Create(s)
    <3>1. Len(trail) = 0
      BY <2>1, NowIsPast DEF Create
    <3> QED
      BY <2>1, <3>1 DEF Create, Saved
  <2>2. CASE Update(s)
    <3>1. loaded[s] = draft /\ Len(trail) > 0
      <4>1. /\ page[s].draft.revision = Len(trail) /\ loaded[s] # NoDraft
            /\ page[s].draft.revision <= loaded[s].revision
            /\ loaded[s].revision \in 0..Len(trail) /\ loaded[s] = Version(loaded[s].revision)
        BY <2>2, WriteGrows DEF Update, GenerationInv, DraftsArePast, IsPast
      <4>2. loaded[s].revision = Len(trail)
        BY <1>1, <4>1
      <4> QED
        BY <1>1, <4>1, <4>2, NowIsPast
    <3>2. draft.payload = trail[Len(trail)].by /\ draft.state = trail[Len(trail)].state
      BY <1>1, <3>1 DEF Version
    <3>3. /\ trail'[Len(trail) + 1].basis = trail[Len(trail)].by
          /\ trail'[Len(trail) + 1].action = Kind(s) /\ trail'[Len(trail) + 1].state = wanted[s]
      BY <1>1, <2>2, <3>1, <3>2 DEF Update, Saved, TypeOK
    <3>4. Kind(s) = "state_changed" <=> wanted[s] # trail[Len(trail)].state
      BY <3>1, <3>2 DEF Kind
    <3> QED
      BY <1>1, <3>1, <3>3, <3>4, WriteGrows DEF GenerationInv, EventsTellTheChange
  <2> QED
    BY <2>1, <2>2
<1> QED
  BY <1>2, <1>5, <1>6, WriteGrows, <1>1 DEF EventsTellTheChange

LEMMA DraftStep == ASSUME TypeOK, TypeOK', GenerationInv, [Next]_vars PROVE (EventsTellTheChange /\ DraftsArePast)'
<1>2. CASE EditCase /\ UNCHANGED gvars
  BY <1>2, PicturesKept DEF EditCase, gvars, TypeOK
<1>3. CASE ShelveCase /\ UNCHANGED gvars
  BY <1>3, PicturesKept DEF ShelveCase, gvars, TypeOK
<1>4. CASE Withdraw
  BY <1>4, PicturesKept DEF Withdraw, TypeOK
<1>5. ASSUME NEW t \in Templates, Activate(t) PROVE (EventsTellTheChange /\ DraftsArePast)'
  BY <1>5, PicturesKept DEF Activate, TypeOK
<1>6. ASSUME NEW s \in Sessions, OpenPage(s) PROVE (EventsTellTheChange /\ DraftsArePast)'
  <2>1. page'[s].draft = NoDraft
    BY <1>6 DEF OpenPage, Open, TypeOK
  <2> QED
    BY <1>6, <2>1, PicturesKept DEF OpenPage, Open, TypeOK
<1>7. ASSUME NEW s \in Sessions, FillPage(s) PROVE (EventsTellTheChange /\ DraftsArePast)'
  <2>1. page'[s].draft = draft
    <3>1. page[s] \in Pages
      BY DEF TypeOK
    <3> QED
      BY <1>7, <3>1 DEF FillPage, Fill, TypeOK, Pages
  <2> QED
    BY <1>7, <2>1, PicturesKept DEF FillPage, Fill, TypeOK
<1>8. ASSUME NEW s \in Sessions, OpenHistory(s) PROVE (EventsTellTheChange /\ DraftsArePast)'
  BY <1>8, PicturesKept DEF OpenHistory, TypeOK
<1>9. ASSUME NEW s \in Sessions, NEW t \in Sessions, Resend(s, t)
      PROVE (EventsTellTheChange /\ DraftsArePast)'
  BY <1>9, PicturesKept DEF Resend, TypeOK
<1>10. ASSUME NEW s \in Sessions, Save(s), Close(s),
            UNCHANGED <<template, attempts, tokens>>
      PROVE (EventsTellTheChange /\ DraftsArePast)'
  <2>1. CASE \E x \in Replies : Answer(s, x)
    BY <1>10, <2>1, AnswerKeeps DEF Save
  <2>2. CASE /\ Go(s, "lock") /\ loaded' = [loaded EXCEPT ![s] = draft]
             /\ page' = [page EXCEPT ![s] = [NoPage EXCEPT !.draft = page[s].draft]]
    <3>1. /\ page'[s].draft = page[s].draft /\ loaded'[s] = draft
          /\ draft = NoDraft <=> page[s].draft = NoDraft
      BY <1>10, <2>2 DEF Save, TypeOK, Replies
    <3>2. page[s].draft.revision <= draft.revision
      BY NowIsPast DEF GenerationInv, DraftsArePast, IsPast
    <3> QED
      BY <1>10, <2>2, <3>1, <3>2, PicturesKept DEF Save, TypeOK
  <2> QED
    BY <1>10, <2>1, <2>2 DEF Save, Replies
<1>11. ASSUME NEW s \in Sessions, End(s, "missing"), pc[s] = "form", UNCHANGED <<committed, caseLock>>,
            UNCHANGED <<template, attempts, tokens>>
      PROVE (EventsTellTheChange /\ DraftsArePast)'
  BY <1>11, AnswerKeeps
<1>12. ASSUME NEW s \in Sessions, Lock(s),
            UNCHANGED <<template, attempts, tokens, offer>>
      PROVE (EventsTellTheChange /\ DraftsArePast)'
  BY <1>12, AnswerKeeps, PicturesKept DEF Lock, TypeOK
<1>13. ASSUME NEW s \in Sessions, Create(s),
            UNCHANGED <<template, attempts, tokens, offer>>
      PROVE (EventsTellTheChange /\ DraftsArePast)'
  BY <1>13, WriteStep
<1>14. ASSUME NEW s \in Sessions, CreateTwice(s),
            UNCHANGED <<template, attempts, tokens, offer>>
      PROVE (EventsTellTheChange /\ DraftsArePast)'
  BY <1>14, AnswerKeeps DEF CreateTwice
<1>15. ASSUME NEW s \in Sessions, Update(s),
            UNCHANGED <<template, attempts, tokens, offer>>
      PROVE (EventsTellTheChange /\ DraftsArePast)'
  BY <1>15, WriteStep
<1>16. ASSUME NEW s \in Sessions, UpdateStale(s),
            UNCHANGED <<template, attempts, tokens, offer>>
      PROVE (EventsTellTheChange /\ DraftsArePast)'
  BY <1>16, AnswerKeeps DEF UpdateStale
<1>17. ASSUME NEW s \in Sessions, Refuse(s),
            UNCHANGED <<template, attempts, tokens, offer>>
      PROVE (EventsTellTheChange /\ DraftsArePast)'
  BY <1>17, AnswerKeeps DEF Refuse
<1>18. ASSUME NEW s \in Sessions, FailSave(s),
            UNCHANGED <<template, attempts, tokens, offer>>
      PROVE (EventsTellTheChange /\ DraftsArePast)'
  BY <1>18, AnswerKeeps DEF FailSave
<1>19. ASSUME NEW s \in Sessions, Confirm(s) PROVE (EventsTellTheChange /\ DraftsArePast)'
  BY <1>19, AnswerKeeps, PicturesKept DEF Confirm, TypeOK
<1>20. ASSUME NEW s \in Sessions, Retry(s) PROVE (EventsTellTheChange /\ DraftsArePast)'
  <2>1. page'[s].draft = page[s].draft \/ End(s, "denied")
    <3>1. page[s] \in Pages
      BY DEF TypeOK
    <3> QED
      BY <1>20, <3>1 DEF Retry, TypeOK, Pages
  <2> QED
    BY <1>20, <2>1, AnswerKeeps, PicturesKept DEF Retry, TypeOK
<1>21. ASSUME NEW s \in Sessions, RetryCurrent(s) PROVE (EventsTellTheChange /\ DraftsArePast)'
  <2>1. page'[s].draft = draft \/ End(s, "unavailable")
    <3>1. page[s] \in Pages
      BY DEF TypeOK
    <3> QED
      BY <1>21, <3>1 DEF RetryCurrent, TypeOK, Pages
  <2> QED
    BY <1>21, <2>1, AnswerKeeps, PicturesKept DEF RetryCurrent, TypeOK
<1>22. ASSUME NEW s \in Sessions, Reserve(s) PROVE (EventsTellTheChange /\ DraftsArePast)'
  BY <1>22, AnswerKeeps, GeneratingKeeps, PicturesKept DEF Reserve, TypeOK
<1>23. ASSUME NEW s \in Sessions, Snapshot(s) PROVE (EventsTellTheChange /\ DraftsArePast)'
  BY <1>23, AnswerKeeps, GeneratingKeeps DEF Snapshot
<1>24. ASSUME NEW s \in Sessions, Decline(s) PROVE (EventsTellTheChange /\ DraftsArePast)'
  BY <1>24, AnswerKeeps DEF Decline
<1>25. ASSUME NEW s \in Sessions, Work(s) PROVE (EventsTellTheChange /\ DraftsArePast)'
  BY <1>25, AnswerKeeps DEF Work
<1>26. ASSUME NEW s \in Sessions, FailGeneration(s)
      PROVE (EventsTellTheChange /\ DraftsArePast)'
  BY <1>26, AnswerKeeps DEF FailGeneration
<1>27. CASE UNCHANGED vars
  BY <1>27, PicturesKept DEF vars, dvars, TypeOK
<1> QED
  BY <1>2, <1>3, <1>4, <1>5, <1>6, <1>7, <1>8, <1>9, <1>10, <1>11, <1>12, <1>13, <1>14,
     <1>15, <1>16, <1>17, <1>18, <1>19, <1>20, <1>21, <1>22, <1>23, <1>24, <1>25, <1>26, <1>27
     DEF Next, Browse, Draft, Write, Generate, Rest

--------------------------------------------------------------------------------
(* The inductive invariant: the attempts *)

\* Which steps change the case, the draft or the attempts.
LEMMA Kinds ==
  ASSUME [Next]_vars
  PROVE  \/ (EditCase \/ ShelveCase) /\ UNCHANGED gvars
         \/ \E s \in Sessions : (Create(s) \/ Update(s)) /\ UNCHANGED <<template, attempts, tokens>>
         \/ \E s \in Sessions : Snapshot(s) \/ Work(s)
         \/ UNCHANGED <<committed, attempts>>
<1>1. ASSUME NEW s \in Sessions, Browse(s) PROVE UNCHANGED <<committed, attempts>>
  BY <1>1 DEF Browse, OpenPage, Open, FillPage, Fill, OpenHistory, Resend
<1>2. ASSUME NEW s \in Sessions, Draft(s)
      PROVE  \/ (Create(s) \/ Update(s)) /\ UNCHANGED <<template, attempts, tokens>>
             \/ UNCHANGED <<committed, attempts>>
  BY <1>2 DEF Draft, Save, Lock, Write, CreateTwice, UpdateStale, Refuse, FailSave
<1>3. ASSUME NEW s \in Sessions, Generate(s)
      PROVE  Snapshot(s) \/ Work(s) \/ UNCHANGED <<committed, attempts>>
  BY <1>3 DEF Generate, Confirm, Retry, RetryCurrent, Reserve, Decline, FailGeneration
<1>4. ASSUME Withdraw \/ \E t \in Templates : Activate(t) PROVE UNCHANGED <<committed, attempts>>
  BY <1>4 DEF Withdraw, Activate
<1>5. ASSUME UNCHANGED vars PROVE UNCHANGED <<committed, attempts>>
  BY <1>5 DEF vars, dvars, gvars
<1> QED
  BY <1>1, <1>2, <1>3, <1>4, <1>5 DEF Next, Rest

\* The attempt that is reserved, and the draft and case that it was reserved from.
LEMMA Reservation ==
  ASSUME TypeOK, GenerationInv, NEW s \in Sessions, Snapshot(s)
  PROVE  /\ Len(attempts) \in Nat /\ Len(attempts') = Len(attempts) + 1
         /\ \A i \in 1..Len(attempts) : attempts'[i] = attempts[i]
         /\ NewAttempt = [token |-> offer[s].token, case |-> page[s].case,
                          facts |-> case.facts, draft |-> draft.revision,
                          template |-> active, payload |-> draft.payload,
                          status |-> "generating"]
         /\ page[s].case = case.revision
         /\ \A i \in 1..Len(attempts) : attempts[i].token # offer[s].token
         /\ Len(trail) \in Nat /\ draft.revision = Len(trail) /\ draft.revision \in 1..Len(trail)
         /\ draft.payload = trail[draft.revision].by /\ draft.state = trail[draft.revision].state
         /\ draft.state = "ready"
<1>1. draft = Version(Len(trail)) /\ Len(trail) \in Nat /\ draft.revision = Len(trail)
  BY NowIsPast DEF GenerationInv, EventsTellTheChange
<1>2. draft.state = "ready"
  BY DEF Snapshot, Available
<1>3. Len(trail) # 0
  BY <1>1, <1>2 DEF Version, NoDraft
<1>4. page[s].case = case.revision /\ Reserved(s) = {}
  BY DEF Snapshot, GenerationInv, LockedIsChecked
<1>5. attempts \in Seq(Attempt)
  BY DEF TypeOK
<1>6. PICK a : /\ attempts' = Append(attempts, a)
               /\ a = [token |-> offer[s].token, case |-> page[s].case,
                       facts |-> case.facts, draft |-> draft.revision,
                       template |-> active, payload |-> draft.payload,
                       status |-> "generating"]
  BY DEF Snapshot
<1>7. /\ Len(attempts) \in Nat /\ Len(attempts') = Len(attempts) + 1
      /\ \A i \in 1..Len(attempts) : attempts'[i] = attempts[i]
      /\ NewAttempt = a
  BY <1>5, <1>6 DEF NewAttempt
<1>8. draft.payload = trail[Len(trail)].by /\ draft.state = trail[Len(trail)].state
  BY <1>1, <1>3 DEF Version
<1>9. \A i \in 1..Len(attempts) : attempts[i].token # offer[s].token
  BY <1>4 DEF Reserved
<1> QED
  BY <1>1, <1>2, <1>3, <1>4, <1>6, <1>7, <1>8, <1>9

LEMMA AttemptsStep ==
  ASSUME TypeOK, TypeOK', GenerationInv, [Next]_vars PROVE (AttemptsArePast /\ AttemptsAgree)'
<1> USE DEF GenerationInv
<1>1. CASE (EditCase \/ ShelveCase) /\ UNCHANGED gvars
  <2>1. case'.revision > case.revision /\ UNCHANGED <<trail, attempts>>
    <3>1. case \in CaseRow /\ case.revision \in Nat
      BY CaseIsTyped DEF TypeOK
    <3>2. case'.revision = case.revision + 1
      BY <1>1, <3>1 DEF EditCase, ShelveCase, CaseRow
    <3> QED
      BY <1>1, <3>1, <3>2 DEF EditCase, ShelveCase, gvars
  <2>2. \A i \in 1..Len(attempts) : attempts[i].case \in Nat
    <3>1. \A i \in 1..Len(attempts) : attempts[i] \in Attempt
      BY DEF TypeOK
    <3> QED
      BY <3>1 DEF Attempt
  <2>3. case.revision \in Nat /\ case'.revision \in Nat
    BY CaseIsTyped DEF TypeOK, CaseRow
  <2>4. AttemptsArePast'
    <3> SUFFICES ASSUME NEW i \in 1..Len(attempts)
                 PROVE  /\ attempts[i].case <= case'.revision
                        /\ attempts[i].case # case'.revision
      BY <2>1 DEF AttemptsArePast
    <3>1. attempts[i].case <= case.revision
      BY DEF AttemptsArePast
    <3> QED
      BY <2>1, <2>2, <2>3, <3>1
  <2>5. AttemptsAgree'
    BY <2>1 DEF AttemptsAgree
  <2> QED
    BY <2>4, <2>5
<1>2. ASSUME NEW s \in Sessions, Create(s) \/ Update(s), UNCHANGED attempts
      PROVE  (AttemptsArePast /\ AttemptsAgree)'
  <2>1. /\ Len(trail') = Len(trail) + 1 /\ Len(trail) \in Nat
        /\ \A n \in 1..Len(trail) : trail'[n] = trail[n]
    BY <1>2, WriteGrows, NowIsPast
  <2>2. case' = case
    BY <1>2 DEF Create, Update
  <2> QED
    BY <1>2, <2>1, <2>2 DEF AttemptsArePast, AttemptsAgree
<1>3. ASSUME NEW s \in Sessions, Snapshot(s) PROVE (AttemptsArePast /\ AttemptsAgree)'
  <2>1. UNCHANGED committed
    BY <1>3 DEF Snapshot
  <2> DEFINE n == Len(attempts)
             a == attempts'[n + 1]
  <2>2. /\ n \in Nat /\ Len(attempts') = n + 1
        /\ \A i \in 1..n : attempts'[i] = attempts[i] /\ attempts[i].token # a.token
        /\ a.case = case.revision /\ a.facts = case.facts
        /\ a.draft \in 1..Len(trail) /\ a.payload = trail[a.draft].by
        /\ trail[a.draft].state = "ready"
    <3>1. /\ n \in Nat /\ Len(attempts') = n + 1
          /\ \A i \in 1..n : attempts'[i] = attempts[i] /\ attempts[i].token # offer[s].token
      BY <1>3, Reservation
    <3>2. NewAttempt = a
      BY <3>1 DEF NewAttempt
    <3>3. /\ a.token = offer[s].token /\ a.case = page[s].case /\ a.facts = case.facts
          /\ a.draft = draft.revision /\ a.payload = draft.payload
      <4>1. NewAttempt = [token |-> offer[s].token, case |-> page[s].case,
                          facts |-> case.facts, draft |-> draft.revision,
                          template |-> active, payload |-> draft.payload,
                          status |-> "generating"]
        BY <1>3, Reservation
      <4>2. a = [token |-> offer[s].token, case |-> page[s].case,
                 facts |-> case.facts, draft |-> draft.revision,
                 template |-> active, payload |-> draft.payload,
                 status |-> "generating"]
        BY <3>2, <4>1
      <4> HIDE DEF a
      <4> QED
        BY <4>2
    <3>4. /\ page[s].case = case.revision
          /\ draft.revision \in 1..Len(trail) /\ draft.payload = trail[draft.revision].by
          /\ draft.state = trail[draft.revision].state /\ draft.state = "ready"
      BY <1>3, Reservation
    <3> QED
      BY <3>1, <3>3, <3>4
  <2> HIDE DEF a
  <2>3. AttemptsArePast'
    BY <2>1, <2>2, CaseIsTyped DEF AttemptsArePast, a
  <2>4. \A i \in 1..Len(attempts') :
           /\ attempts'[i].draft \in 1..Len(trail)
           /\ attempts'[i].payload = trail[attempts'[i].draft].by
           /\ trail[attempts'[i].draft].state = "ready"
    BY <2>2 DEF AttemptsAgree, a
  <2>5. \A i, j \in 1..Len(attempts') :
           /\ attempts'[i].case = attempts'[j].case => attempts'[i].facts = attempts'[j].facts
           /\ attempts'[i].token = attempts'[j].token => i = j
    BY <2>2 DEF AttemptsAgree, AttemptsArePast, a
  <2> QED
    BY <2>1, <2>3, <2>4, <2>5 DEF AttemptsAgree
<1>4. ASSUME NEW s \in Sessions, Work(s) PROVE (AttemptsArePast /\ AttemptsAgree)'
  <2>1. UNCHANGED committed
    BY <1>4 DEF Work
  <2> QED
    BY <1>4, <2>1, WorkKeeps DEF AttemptsArePast, AttemptsAgree
<1>5. CASE UNCHANGED <<committed, attempts>>
  BY <1>5 DEF AttemptsArePast, AttemptsAgree
<1> QED
  BY <1>1, <1>2, <1>3, <1>4, <1>5, Kinds

\* What drafts, pages and attempts say of each other holds for any number of sessions,
\* templates and revisions.
THEOREM GenerationIsConsistent == Spec => []GenerationInv
<1>1. Init => GenerationInv
  <2> SUFFICES ASSUME Init PROVE GenerationInv
    OBVIOUS
  <2>1. trail = <<>> /\ Len(trail) = 0 /\ attempts = <<>> /\ Len(attempts) = 0
    BY DEF Init, DInit
  <2>2. EventsTellTheChange /\ DraftsArePast
    BY <2>1, Nothing DEF Init, DInit, EventsTellTheChange, DraftsArePast, IsPast, Version
  <2>3. LockedIsChecked /\ PagesArePast /\ AttemptsArePast /\ AttemptsAgree
    BY <2>1, Nothing DEF Init, DInit, NewCase, LockedIsChecked, PagesArePast, PageIsPast,
                         AttemptsArePast, AttemptsAgree
  <2> QED
    BY <2>2, <2>3 DEF GenerationInv
<1>2. TypeOK /\ TypeOK' /\ GenerationInv /\ [Next]_vars => GenerationInv'
  BY DraftStep, LockedStep, PagesStep, AttemptsStep DEF GenerationInv
<1> QED
  BY <1>1, <1>2, GenerationTyped, PTL DEF Spec

\* Every audit event of a draft names the change it stands for, for any number of sessions.
THEOREM DraftEventsTell == Spec => []EventsTellTheChange
BY GenerationIsConsistent, PTL DEF GenerationInv

\* Attempts agree on what their revisions stand for, for any number of sessions and templates.
THEOREM AttemptsAlwaysAgree == Spec => []AttemptsAgree
BY GenerationIsConsistent, PTL DEF GenerationInv

--------------------------------------------------------------------------------
(* What a step may never do *)

\* Only the session that takes the snapshot reserves an attempt.
LEMMA OnlySnapshotReserves ==
  ASSUME TypeOK, GenerationInv, [Next]_vars, NEW s \in Sessions, Reserving(s)
  PROVE  Snapshot(s)
<1>1. Len(attempts') > Len(attempts) /\ pc'[s] # pc[s]
  BY DEF Reserving
<1>2. attempts' # attempts
  BY <1>1 DEF TypeOK
<1>3. ASSUME NEW u \in Sessions, Snapshot(u) PROVE u = s
  <2>1. \E l : pc' = [pc EXCEPT ![u] = l]
    BY <1>3 DEF Snapshot, Generating
  <2> QED
    BY <1>1, <2>1 DEF TypeOK
<1>4. ASSUME NEW u \in Sessions, Work(u) PROVE FALSE
  BY <1>1, <1>4, WorkKeeps DEF TypeOK
<1> QED
  BY <1>2, <1>3, <1>4, Kinds DEF gvars

LEMMA ShownStep == ASSUME TypeOK, GenerationInv, [Next]_vars PROVE ShownIsReserved
<1> SUFFICES ASSUME NEW s \in Sessions, Reserving(s)
             PROVE  /\ NewAttempt.case = page[s].case
                    /\ NewAttempt.draft = page[s].draft.revision
                    /\ NewAttempt.payload = page[s].draft.payload /\ page[s].draft.state = "ready"
                    /\ NewAttempt.template = offer[s].template
                    /\ offer[s].facts # 0 => NewAttempt.facts = offer[s].facts
  BY DEF ShownIsReserved
<1>1. Snapshot(s)
  BY OnlySnapshotReserves
<1>2. page[s].draft.revision = draft.revision /\ offer[s].template = active
  BY <1>1 DEF Snapshot, DraftAsExpected
<1>3. page[s].draft = draft
  BY <1>2, NowIsPast DEF GenerationInv, DraftsArePast, EventsTellTheChange, IsPast
<1>4. page[s].case = case.revision /\ draft.state = "ready"
  BY <1>1, Reservation
<1>5. offer[s].facts # 0 => offer[s].facts = case.facts
  BY <1>4 DEF GenerationInv, PagesArePast, PageIsPast
<1>6. NewAttempt = [token |-> offer[s].token, case |-> page[s].case,
                    facts |-> case.facts, draft |-> draft.revision,
                    template |-> active, payload |-> draft.payload,
                    status |-> "generating"]
  BY <1>1, Reservation
<1>7. /\ NewAttempt.case = page[s].case /\ NewAttempt.draft = draft.revision
      /\ NewAttempt.payload = draft.payload /\ NewAttempt.template = active
      /\ NewAttempt.facts = case.facts
  BY <1>6
<1> QED
  BY <1>2, <1>3, <1>4, <1>5, <1>7

\* What an attempt keeps is what its page showed, for any number of sessions, templates, keys
\* and revisions.
THEOREM ReservedAsShown == Spec => ReservesWhatWasShown
BY GenerationTyped, GenerationIsConsistent, ShownStep, PTL DEF Spec, ReservesWhatWasShown

\* Who may be told of a conflict while it reserves.
LEMMA AnswerIsToTheOneAtWork ==
  ASSUME TypeOK, [Next]_vars, vars' # vars, NEW s \in Sessions,
         pc[s] = "reserve", reply'.to = s, reply'.what # "error"
  PROVE  Reserve(s)
<1>1. Silent => FALSE
  BY ConstantsAssumption DEF Silence
<1>2. ASSUME NEW u \in Sessions, NEW x, Answer(u, x) PROVE u = s /\ x = reply'.what
  BY <1>2
<1>3. ASSUME NEW u \in Sessions, Browse(u) PROVE FALSE
  BY <1>1, <1>3 DEF Browse, OpenPage, Open, FillPage, Fill, OpenHistory, Resend
<1>4. ASSUME NEW u \in Sessions, Draft(u) PROVE FALSE
  <2>1. pc[u] \in {"form", "lock", "write"}
    BY <1>4 DEF Draft, Save, Lock, Write, Create, CreateTwice, Update, UpdateStale, Refuse,
                FailSave
  <2>2. Silent \/ \E x : Answer(u, x)
    BY <1>4 DEF Draft, Save, Lock, Write, Create, CreateTwice, Update, UpdateStale, Refuse,
                FailSave
  <2> QED
    BY <1>1, <1>2, <2>1, <2>2
<1>5. ASSUME NEW u \in Sessions, Generate(u) PROVE Reserve(s)
  <2>1. CASE Reserve(u)
    BY <1>1, <1>2, <2>1 DEF Reserve, Generating
  <2>2. CASE Confirm(u) \/ Retry(u) \/ RetryCurrent(u)
    <3>1. pc[u] # "reserve" /\ (Silent \/ \E x : Answer(u, x))
      BY <2>2 DEF Confirm, Retry, RetryCurrent
    <3> QED
      BY <1>1, <1>2, <3>1
  <2>3. CASE Snapshot(u) \/ Decline(u) \/ Work(u)
    <3>1. pc[u] # "reserve" /\ (Silent \/ \E x : Answer(u, x))
      BY <2>3 DEF Snapshot, Decline, Work, Generating
    <3> QED
      BY <1>1, <1>2, <3>1
  <2>4. CASE FailGeneration(u)
    BY <1>2, <2>4 DEF FailGeneration
  <2> QED
    BY <1>5, <2>1, <2>2, <2>3, <2>4 DEF Generate
<1>6. ASSUME (EditCase \/ ShelveCase) \/ Withdraw \/ \E t \in Templates : Activate(t) PROVE FALSE
  BY <1>1, <1>6 DEF EditCase, ShelveCase, Withdraw, Activate
<1> QED
  BY <1>3, <1>4, <1>5, <1>6 DEF Next, Rest

LEMMA AnsweredStep ==
  ASSUME TypeOK, GenerationInv, [Next]_vars PROVE [AnsweredByToken]_vars
<1> SUFFICES ASSUME vars' # vars, NEW s \in Sessions, pc[s] \in {"reserve", "snapshot"},
                    reply'.to = s, reply'.what \in {"conflict", "unavailable"}
             PROVE  Reserved(s) = {}
  BY DEF AnsweredByToken
<1>1. CASE pc[s] = "snapshot"
  BY <1>1 DEF GenerationInv, LockedIsChecked
<1>2. CASE pc[s] = "reserve"
  <2>1. Reserve(s)
    BY <1>2, AnswerIsToTheOneAtWork
  <2> QED
    BY <2>1, ConstantsAssumption DEF Reserve, Generating, Silence
<1> QED
  BY <1>1, <1>2

\* A key leads to its attempt, however often and late it is sent again, for any number of
\* sessions.
THEOREM KeysFindTheirAttempt == Spec => ResubmissionFindsItsAttempt
BY GenerationTyped, GenerationIsConsistent, AnsweredStep, PTL
   DEF Spec, ResubmissionFindsItsAttempt

LEMMA ActiveStep == ASSUME TypeOK, GenerationInv, [Next]_vars PROVE WritesAreActive
<1>1. CASE (EditCase \/ ShelveCase) /\ UNCHANGED gvars
  BY <1>1 DEF EditCase, ShelveCase, gvars, WritesAreActive, TypeOK
<1>2. ASSUME NEW s \in Sessions, Create(s) \/ Update(s) \/ Snapshot(s) PROVE WritesAreActive
  BY <1>2 DEF Create, Update, Snapshot, GenerationInv, LockedIsChecked, WritesAreActive
<1>3. ASSUME NEW s \in Sessions, Work(s) PROVE WritesAreActive
  BY <1>3, WorkKeeps DEF Work, WritesAreActive, TypeOK
<1>4. CASE UNCHANGED <<committed, attempts>>
  BY <1>4 DEF WritesAreActive, TypeOK
<1> QED
  BY <1>1, <1>2, <1>3, <1>4, Kinds

\* Nothing is written into an archived case, for any number of sessions and revisions.
THEOREM ArchivedCaseStaysClosed == Spec => ArchivedCaseIsClosed
BY GenerationTyped, GenerationIsConsistent, ActiveStep, PTL DEF Spec, ArchivedCaseIsClosed

--------------------------------------------------------------------------------
(* The draft implements SharedRecord *)

base == [s \in Sessions |-> page[s].draft.revision]

\* A step changes the page of one session.
LEMMA OnePageAtATime ==
  ASSUME TypeOK, [Next]_vars
  PROVE  page' = page \/ \E s \in Sessions : \E x : page' = [page EXCEPT ![s] = x]
<1>1. ASSUME NEW s \in Sessions, Browse(s)
      PROVE  page' = page \/ \E u \in Sessions : \E x : page' = [page EXCEPT ![u] = x]
  <2>1. ASSUME Fill(s) PROVE \E x : page' = [page EXCEPT ![s] = x]
    <3>1. page' = [page EXCEPT ![s] = [page[s] EXCEPT !.draft = draft, !.active = FALSE]]
      BY <2>1 DEF Fill
    <3> QED
      BY <3>1
  <2> QED
    BY <1>1, <2>1 DEF Browse, OpenPage, Open, FillPage, OpenHistory, Resend
<1>2. ASSUME NEW s \in Sessions, Draft(s)
      PROVE  page' = page \/ \E x : page' = [page EXCEPT ![s] = x]
  BY <1>2 DEF Draft, Save, Lock, Write, Create, CreateTwice, Update, UpdateStale, Refuse,
              FailSave
<1>3. ASSUME NEW s \in Sessions, Generate(s)
      PROVE  page' = page \/ \E x : page' = [page EXCEPT ![s] = x]
  <2>1. ASSUME NEW v, page' = [page EXCEPT ![s].case = v] PROVE \E x : page' = [page EXCEPT ![s] = x]
    <3>1. page' = [page EXCEPT ![s] = [page[s] EXCEPT !.case = v]]
      BY <2>1
    <3> QED
      BY <3>1
  <2>2. ASSUME NEW v, page' = [page EXCEPT ![s].draft = v] PROVE \E x : page' = [page EXCEPT ![s] = x]
    <3>1. page' = [page EXCEPT ![s] = [page[s] EXCEPT !.draft = v]]
      BY <2>2
    <3> QED
      BY <3>1
  <2> QED
    BY <1>3, <2>1, <2>2 DEF Generate, Generating, Confirm, Retry, RetryCurrent, Reserve,
                            Snapshot,
                            Decline, Work, FailGeneration
<1>4. ASSUME ((EditCase \/ ShelveCase) /\ UNCHANGED gvars) \/ Withdraw \/ \E t \in Templates : Activate(t)
      PROVE page' = page
  BY <1>4 DEF EditCase, ShelveCase, Withdraw, Activate
<1>5. ASSUME UNCHANGED vars PROVE page' = page
  BY <1>5 DEF vars, dvars
<1> QED
  BY <1>1, <1>2, <1>3, <1>4, <1>5 DEF Next, Rest

LEMMA SeeStep ==
  ASSUME TypeOK, TypeOK', GenerationInv, GenerationInv', [Next]_vars, UNCHANGED trail
  PROVE  UNCHANGED <<trail, base>> \/ \E s \in Sessions : Record!See(s)
<1>1. CASE page' = page
  BY <1>1 DEF base
<1>2. ASSUME NEW s \in Sessions, NEW x, page' = [page EXCEPT ![s] = x]
      PROVE  Record!See(s)
  <2>1. page'[s].draft.revision \in 0..Len(trail)
    BY DEF GenerationInv, DraftsArePast, IsPast
  <2>2. base' = [base EXCEPT ![s] = page'[s].draft.revision]
    BY <1>2 DEF base, TypeOK
  <2> QED
    BY <2>1, <2>2 DEF Record!See, base
<1> QED
  BY <1>1, <1>2, OnePageAtATime

LEMMA RecordStep ==
  ASSUME TypeOK, TypeOK', GenerationInv, GenerationInv', [Next]_vars
  PROVE  [Record!ANext]_(Record!avars)
<1>1. ASSUME NEW s \in Sessions, Create(s) \/ Update(s) PROVE Record!Start \/ Record!Change(s)
  <2>1. base' = [base EXCEPT ![s] = 0]
    BY <1>1, Nothing DEF Create, Update, base, TypeOK
  <2>2. base[s] = Len(trail) /\ Len(trail) \in Nat /\ Len(trail') = Len(trail) + 1
    BY <1>1, WriteGrows, NowIsPast DEF base
  <2>3. trail'[Len(trail) + 1] \in DraftEvents
    BY <2>2 DEF TypeOK
  <2>4. CASE Create(s)
    <3>1. trail = <<>> /\ base' = base
      BY <2>1, <2>2, <2>4, NowIsPast DEF Create, TypeOK, base
    <3>2. trail' = <<trail'[1]>>
      BY <2>4 DEF Create
    <3>3. trail'[1] \in DraftEvents
      BY <2>3, <3>1
    <3> QED
      BY <3>1, <3>2, <3>3 DEF Record!Start, base
  <2>5. CASE Update(s)
    <3>1. trail # <<>>
      BY <2>2, <2>5, NowIsPast DEF Update, GenerationInv, DraftsArePast, IsPast, Version
    <3>2. PICK e : trail' = Append(trail, e)
      BY <2>5 DEF Update
    <3>3. e = trail'[Len(trail) + 1]
      BY <2>2, <3>2 DEF TypeOK
    <3> QED
      BY <2>1, <2>2, <2>3, <3>1, <3>2, <3>3 DEF Record!Change, base
  <2> QED
    BY <1>1, <2>4, <2>5
<1>2. ASSUME UNCHANGED trail PROVE [Record!ANext]_(Record!avars)
  <2>1. CASE UNCHANGED <<trail, base>>
    BY <2>1 DEF Record!avars, base
  <2> QED
    BY <1>2, <2>1, SeeStep DEF Record!ANext
<1>3. UNCHANGED trail \/ \E s \in Sessions : Create(s) \/ Update(s)
  BY Kinds DEF EditCase, ShelveCase, Snapshot, Work
<1> QED
  BY <1>1, <1>2, <1>3 DEF Record!ANext

\* The draft implements SharedRecord for any number of sessions and revisions: its history is
\* extended only by those who were shown all of it.
THEOREM DraftImplementsSharedRecord == Spec => ImplementsSharedRecord
<1>1. Init => Record!AInit
  BY Nothing DEF Init, DInit, Record!AInit
<1> QED
  BY <1>1, GenerationTyped, GenerationIsConsistent, RecordStep, PTL
     DEF Spec, ImplementsSharedRecord, Record!ASpec
=================================================================================
