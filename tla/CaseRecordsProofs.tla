---------------------------- MODULE CaseRecordsProofs ----------------------------
(* Proofs about CaseRecords. *)
EXTENDS CaseRecords, SequenceTheorems, TLAPS

USE DEF Go, Answer, committed, local

--------------------------------------------------------------------------------
(* Type correctness *)

LEMMA EventTyped ==
  ASSUME TypeOK, NEW s \in Sessions, NEW t \in Sessions, goal[s] \in Goals,
         audit' = Append(audit, Event(goal[s], s, loaded[t].core))
  PROVE  audit' \in Seq(Events)
<1>1. loaded[t].core \in Sessions \cup {Nobody}
  BY DEF TypeOK, Cases
<1>2. Event(goal[s], s, loaded[t].core) \in Events
  BY <1>1 DEF Event, Events
<1> QED
  BY <1>2 DEF TypeOK

LEMMA ChangedTyped ==
  ASSUME TypeOK, NEW s \in Sessions, goal[s] \in {"edit", "archive", "restore"}
  PROVE  /\ Changed(s) \in Cases
         /\ Changed(s).revision = case.revision + 1
         /\ Changed(s).relations = case.relations
         /\ goal[s] # "edit" => Changed(s).core = case.core
<1>1. /\ case.status \in {"none", "active", "archived"} /\ case.revision \in Nat
      /\ case.core \in Sessions \cup {Nobody} /\ case.relations \in Sessions \cup {Nobody}
  BY DEF TypeOK, Cases
<1> QED
  BY <1>1 DEF Changed, Cases

LEMMA SwapGoal ==
  ASSUME TypeOK, NEW s \in Sessions, pc[s] = "swap"
  PROVE  goal[s] \in {"edit", "archive", "restore"}
BY DEF TypeOK, Goals

LEMMA NoCaseTyped == NoCase \in Cases
BY DEF NoCase, Cases

LEMMA TypedStep == TypeOK /\ [Next]_vars => TypeOK'
<1> SUFFICES ASSUME TypeOK, [Next]_vars PROVE TypeOK'
  OBVIOUS
<1>1. CASE UNCHANGED vars
  BY <1>1 DEF TypeOK, vars
<1>2. CASE Create
  <2>1. case' \in Cases
    BY <1>2 DEF Create, NewCase, Cases
  <2>2. audit' \in Seq(Events)
    BY <1>2 DEF Create, Event, Events
  <2> QED
    BY <1>2, <2>1, <2>2 DEF Create, TypeOK
<1>3. ASSUME NEW s \in Sessions, NEW g \in Goals, View(s, g) PROVE TypeOK'
  <2>1. [case EXCEPT !.relations = Nobody] \in Cases
    BY DEF TypeOK, Cases
  <2> QED
    BY <1>3, <2>1 DEF View, TypeOK, PCs, Replies
<1>4. ASSUME NEW s \in Sessions, Show(s) PROVE TypeOK'
  <2>1. [page[s] EXCEPT !.relations = case.relations] \in Cases
    BY DEF TypeOK, Cases
  <2>2. page' = [page EXCEPT ![s] = [page[s] EXCEPT !.relations = case.relations]]
    BY <1>4 DEF Show
  <2> QED
    BY <1>4, <2>1, <2>2 DEF Show, TypeOK, PCs
<1>5. ASSUME NEW s \in Sessions, Post(s) PROVE TypeOK'
  BY <1>5 DEF Post, TypeOK, PCs, Replies
<1>6. ASSUME NEW s \in Sessions, Misfill(s) PROVE TypeOK'
  BY <1>6 DEF Misfill, TypeOK
<1>7. ASSUME NEW s \in Sessions, Load(s) PROVE TypeOK'
  BY <1>7 DEF Load, TypeOK, PCs, Replies
<1>8. ASSUME NEW s \in Sessions, Swap(s) PROVE TypeOK'
  <2>1. case' \in Cases
    BY <1>8, ChangedTyped, SwapGoal DEF Swap
  <2>2. audit' \in Seq(Events)
    BY <1>8, EventTyped, SwapGoal DEF Swap, Goals
  <2>3. /\ UNCHANGED <<failures, rowLock, goal, page, loaded>>
        /\ pc' = [pc EXCEPT ![s] = "done"]
        /\ \E x \in {"done", "error"} : reply' = [reply EXCEPT ![s] = x]
    BY <1>8 DEF Swap
  <2>4. pc' \in [Sessions -> PCs] /\ reply' \in [Sessions -> Replies]
    BY <2>3 DEF TypeOK, PCs, Replies
  <2>5. \A t \in Sessions : t # s => pc'[t] = pc[t]
    BY <2>3 DEF TypeOK
  <2>6. pc'[s] = "done" /\ goal[s] \in Goals
    BY <1>8, <2>3 DEF Swap, TypeOK
  <2>7. \A t \in Sessions : /\ pc'[t] # "idle" => goal'[t] \in Goals
                            /\ pc'[t] = "save" => goal'[t] = "relate"
                            /\ pc'[t] = "swap" => goal'[t] # "relate"
    BY <2>3, <2>5, <2>6 DEF TypeOK
  <2> QED
    BY <2>1, <2>2, <2>3, <2>4, <2>7 DEF TypeOK
<1>9. ASSUME NEW s \in Sessions, Mismatch(s) PROVE TypeOK'
  BY <1>9 DEF Mismatch, TypeOK, PCs
<1>10. ASSUME NEW s \in Sessions, Lock(s) PROVE TypeOK'
  BY <1>10 DEF Lock, TypeOK, PCs, Replies
<1>11. ASSUME NEW s \in Sessions, Save(s) PROVE TypeOK'
  <2>1. case' \in Cases
    BY <1>11 DEF Save, TypeOK, Cases
  <2>2. goal[s] = "relate"
    BY <1>11 DEF Save, TypeOK
  <2>3. audit' \in Seq(Events)
    BY <1>11, <2>2, EventTyped DEF Save, Goals
  <2> QED
    BY <1>11, <2>1, <2>3 DEF Save, TypeOK, PCs, Replies
<1>12. ASSUME NEW s \in Sessions, Reject(s) PROVE TypeOK'
  BY <1>12 DEF Reject, TypeOK, PCs
<1>13. ASSUME NEW s \in Sessions, Refuse(s) PROVE TypeOK'
  BY <1>13 DEF Refuse, TypeOK, PCs, Replies
<1>14. ASSUME NEW s \in Sessions, Fail(s) PROVE TypeOK'
  BY <1>14 DEF Fail, TypeOK, PCs, Replies
<1> QED
  BY <1>1, <1>2, <1>3, <1>4, <1>5, <1>6, <1>7, <1>8, <1>9, <1>10, <1>11, <1>12, <1>13, <1>14
     DEF Next, Browse, Serve, Rest

\* Every reachable state is well typed: the case row, its audit trail and the requests of the
\* edit pages (update_case, archive_case, restore_case, _update_case_relationships).
THEOREM Typed == Spec => []TypeOK
<1>1. Init => TypeOK
  BY NoCaseTyped DEF Init, TypeOK, PCs, Replies
<1> QED
  BY <1>1, TypedStep, PTL DEF Spec

--------------------------------------------------------------------------------
(* The inductive invariant: a session's page and loaded row are older or current *)

\* What a change of the case leaves of the invariant for a session that does not hold the row.
LEMMA StillOlder ==
  ASSUME TypeOK, TypeOK', NEW t \in Sessions, PageIsCaseOrOlder(t), LoadedIsCaseOrOlder(t),
         case'.revision = case.revision + 1, UNCHANGED <<page, loaded, goal>>,
         \/ pc'[t] = "done"
         \/ pc'[t] = pc[t] /\ reply'[t] = reply[t] /\ pc[t] # "save"
  PROVE  PageIsCaseOrOlder(t)' /\ LoadedIsCaseOrOlder(t)'
<1>1. /\ case.revision \in Nat /\ page[t].revision \in Nat /\ loaded[t].revision \in Nat
  BY DEF TypeOK, Cases
<1>2. case' # NoCase
  BY <1>1 DEF NoCase
<1> QED
  BY <1>1, <1>2 DEF PageIsCaseOrOlder, LoadedIsCaseOrOlder

\* The sessions that a step does not concern.
LEMMA Undisturbed ==
  ASSUME NEW t \in Sessions, PageIsCaseOrOlder(t), LoadedIsCaseOrOlder(t),
         case' = case, page'[t] = page[t], loaded'[t] = loaded[t], goal'[t] = goal[t],
         pc'[t] = pc[t], reply'[t] = reply[t]
  PROVE  PageIsCaseOrOlder(t)' /\ LoadedIsCaseOrOlder(t)'
BY DEF PageIsCaseOrOlder, LoadedIsCaseOrOlder

LEMMA ChangeStep ==
  ASSUME TypeOK, TypeOK', CaseInv, NEW s \in Sessions, Swap(s) \/ Save(s)
  PROVE  /\ CaseInv'
         /\ case'.revision = case.revision + 1
         /\ \E e \in Events : audit' = Append(audit, e)
<1> USE DEF CaseInv
<1>1. case.revision \in Nat
  BY DEF TypeOK, Cases
<1>2. case'.revision = case.revision + 1
  <2>1. CASE Swap(s)
    BY <2>1, ChangedTyped, SwapGoal DEF Swap
  <2>2. CASE Save(s)
    BY <2>2, <1>1 DEF Save, PagesAreCaseOrOlder, LoadedIsCaseOrOlder
  <2> QED
    BY <2>1, <2>2
<1>3. \E e \in Events : audit' = Append(audit, e)
  <2>1. loaded[s].core \in Sessions \cup {Nobody}
    BY DEF TypeOK, Cases
  <2>2. CASE Swap(s)
    BY <2>1, <2>2, SwapGoal DEF Swap, Event, Events, Goals
  <2>3. CASE Save(s)
    BY <2>1, <2>3 DEF Save, Event, Events, Goals
  <2> QED
    BY <2>2, <2>3
<1>4. RevisionsAreEvents'
  <2>1. PICK e \in Events : audit' = Append(audit, e)
    BY <1>3
  <2>2. Len(audit') = Len(audit) + 1
    BY <2>1 DEF TypeOK
  <2> QED
    BY <1>2, <2>2 DEF RevisionsAreEvents
<1>5. /\ UNCHANGED <<page, loaded, goal>> /\ rowLock' = Nobody
      /\ pc' = [pc EXCEPT ![s] = "done"]
      /\ \A t \in Sessions \ {s} : reply'[t] = reply[t]
  BY DEF Swap, Save, Unlocked, TypeOK
<1>6. \A t \in Sessions : t # s => pc[t] # "save"
  BY ConstantsAssumption DEF Swap, Save, Unlocked, LockIsHeld
<1>7. LockIsHeld'
  BY <1>5, <1>6, ConstantsAssumption DEF LockIsHeld, TypeOK
<1>8. \A t \in Sessions : PageIsCaseOrOlder(t)' /\ LoadedIsCaseOrOlder(t)'
  <2>1. SUFFICES ASSUME NEW t \in Sessions
                 PROVE  PageIsCaseOrOlder(t)' /\ LoadedIsCaseOrOlder(t)'
    OBVIOUS
  <2>2. PageIsCaseOrOlder(t) /\ LoadedIsCaseOrOlder(t)
    BY DEF PagesAreCaseOrOlder
  <2>3. pc'[t] = "done" \/ (pc'[t] = pc[t] /\ reply'[t] = reply[t] /\ pc[t] # "save")
    BY <1>5, <1>6 DEF TypeOK
  <2> QED
    BY <1>2, <1>5, <2>2, <2>3, StillOlder
<1>9. case'.revision # 0 /\ case' # NoCase
  BY <1>1, <1>2 DEF NoCase
<1> QED
  BY <1>2, <1>3, <1>4, <1>7, <1>8, <1>9 DEF PagesAreCaseOrOlder

\* A step that leaves the case and its events alone and concerns one session.
LEMMA LocalStep ==
  ASSUME CaseInv, NEW s \in Sessions, UNCHANGED <<case, audit>>, LockIsHeld',
         PageIsCaseOrOlder(s)', LoadedIsCaseOrOlder(s)',
         \A t \in Sessions \ {s} : /\ page'[t] = page[t] /\ loaded'[t] = loaded[t]
                                   /\ goal'[t] = goal[t] /\ pc'[t] = pc[t]
                                   /\ reply'[t] = reply[t]
  PROVE  CaseInv'
<1>1. ASSUME NEW t \in Sessions PROVE PageIsCaseOrOlder(t)' /\ LoadedIsCaseOrOlder(t)'
  <2>1. CASE t = s
    BY <2>1
  <2>2. CASE t # s
    BY <2>2, Undisturbed DEF CaseInv, PagesAreCaseOrOlder
  <2> QED
    BY <2>1, <2>2
<1> QED
  BY <1>1 DEF CaseInv, PagesAreCaseOrOlder, RevisionsAreEvents

LEMMA CaseInvStep == TypeOK /\ TypeOK' /\ CaseInv /\ [Next]_vars => CaseInv'
<1> SUFFICES ASSUME TypeOK, TypeOK', CaseInv, [Next]_vars PROVE CaseInv'
  OBVIOUS
<1>a. /\ \A s \in Sessions : /\ PageIsCaseOrOlder(s) /\ LoadedIsCaseOrOlder(s)
                             /\ rowLock = s <=> pc[s] = "save"
                             /\ page[s].revision \in Nat /\ loaded[s].revision \in Nat
      /\ case.revision \in Nat
  BY DEF CaseInv, PagesAreCaseOrOlder, LockIsHeld, TypeOK, Cases
<1>1. CASE UNCHANGED vars
  BY <1>1 DEF vars, CaseInv, LockIsHeld, PagesAreCaseOrOlder, PageIsCaseOrOlder,
              LoadedIsCaseOrOlder, RevisionsAreEvents
<1>2. CASE Create
  <2>1. case = NoCase /\ case'.revision = 1 /\ case.revision = 0
    BY <1>2 DEF Create, NewCase, NoCase
  <2>2. Len(audit') = 1
    BY <1>2 DEF Create
  <2>3. \A s \in Sessions : PageIsCaseOrOlder(s)' /\ LoadedIsCaseOrOlder(s)'
    <3>1. SUFFICES ASSUME NEW s \in Sessions
                   PROVE  PageIsCaseOrOlder(s)' /\ LoadedIsCaseOrOlder(s)'
      OBVIOUS
    <3>2. /\ pc[s] = "idle" /\ pc'[s] = "idle" /\ page'[s].revision = 0
          /\ reply'[s] # "denied"
      BY <1>2, <1>a, <2>1 DEF Create, PageIsCaseOrOlder
    <3> QED
      BY <2>1, <3>2 DEF PageIsCaseOrOlder, LoadedIsCaseOrOlder
  <2>4. LockIsHeld'
    BY <1>2, <1>a DEF Create, LockIsHeld
  <2>5. case' # NoCase
    BY <2>1 DEF NoCase
  <2> QED
    BY <2>1, <2>2, <2>3, <2>4, <2>5 DEF CaseInv, PagesAreCaseOrOlder, RevisionsAreEvents
<1>3. ASSUME NEW s \in Sessions, NEW g \in Goals, View(s, g) PROVE CaseInv'
  <2>1. /\ page'[s].revision = case.revision /\ page'[s].status = case.status
        /\ page'[s].core = case.core
    BY <1>3 DEF View, TypeOK, Cases
  <2>2. /\ goal'[s] = g /\ case' = case /\ case # NoCase
        /\ pc'[s] \in {"form", "viewed"} \/ (pc'[s] = "done" /\ reply'[s] = "denied")
        /\ g = "relate" => pc'[s] = "viewed" \/ reply'[s] = "denied"
        /\ reply'[s] = "denied" => pc'[s] = "done"
    BY <1>3, <1>a DEF View, TypeOK, PageIsCaseOrOlder
  <2>3. PageIsCaseOrOlder(s)' /\ LoadedIsCaseOrOlder(s)'
    BY <1>a, <2>1, <2>2 DEF PageIsCaseOrOlder, LoadedIsCaseOrOlder
  <2>4. LockIsHeld'
    BY <1>3, <1>a DEF View, LockIsHeld, TypeOK
  <2> QED
    BY <1>3, <2>3, <2>4, LocalStep DEF View, TypeOK
<1>4. ASSUME NEW s \in Sessions, Show(s) PROVE CaseInv'
  <2>1. /\ page'[s].revision = page[s].revision /\ page'[s].status = page[s].status
        /\ page'[s].core = page[s].core /\ page'[s].relations = case.relations
    BY <1>4 DEF Show, TypeOK, Cases
  <2>2. /\ pc[s] = "viewed" /\ pc'[s] = "form" /\ goal'[s] = goal[s] /\ case' = case
        /\ reply'[s] = reply[s]
    BY <1>4 DEF Show, TypeOK
  <2>3. PageIsCaseOrOlder(s)' /\ LoadedIsCaseOrOlder(s)'
    BY <1>a, <2>1, <2>2 DEF PageIsCaseOrOlder, LoadedIsCaseOrOlder
  <2>4. LockIsHeld'
    BY <1>4, <1>a DEF Show, LockIsHeld, TypeOK
  <2> QED
    BY <1>4, <2>3, <2>4, LocalStep DEF Show, TypeOK
<1>5. ASSUME NEW s \in Sessions, Post(s) PROVE CaseInv'
  <2>1. /\ pc[s] \in {"form", "done"} /\ pc'[s] = "post" /\ goal'[s] = goal[s] /\ case' = case
        /\ page'[s] = page[s] /\ reply'[s] # "denied"
        /\ pc[s] = "done" => reply[s] # "denied"
    BY <1>5 DEF Post, TypeOK
  <2>2. reply[s] # "denied"
    BY <1>a, <2>1 DEF PageIsCaseOrOlder
  <2>3. PageIsCaseOrOlder(s)' /\ LoadedIsCaseOrOlder(s)'
    BY <1>a, <2>1, <2>2 DEF PageIsCaseOrOlder, LoadedIsCaseOrOlder
  <2>4. LockIsHeld'
    BY <1>5, <1>a DEF Post, LockIsHeld, TypeOK
  <2> QED
    BY <1>5, <2>3, <2>4, LocalStep DEF Post, TypeOK
<1>6. ASSUME NEW s \in Sessions, Misfill(s) PROVE CaseInv'
  <2>1. PageIsCaseOrOlder(s)' /\ LoadedIsCaseOrOlder(s)' /\ LockIsHeld'
    BY <1>6, <1>a DEF Misfill, PageIsCaseOrOlder, LoadedIsCaseOrOlder, LockIsHeld
  <2> QED
    BY <1>6, <2>1, LocalStep DEF Misfill
<1>7. ASSUME NEW s \in Sessions, Load(s) PROVE CaseInv'
  <2>1. /\ pc[s] = "post" /\ goal[s] # "relate" /\ goal'[s] = goal[s] /\ case' = case
        /\ page'[s] = page[s] /\ loaded'[s] = case
        /\ \/ pc'[s] = "done"
           \/ /\ pc'[s] = "swap" /\ reply'[s] = reply[s]
              /\ goal[s] = "edit" => case.status = "active"
    BY <1>7 DEF Load, TypeOK
  <2>2. PageIsCaseOrOlder(s)' /\ LoadedIsCaseOrOlder(s)'
    BY <1>a, <2>1 DEF PageIsCaseOrOlder, LoadedIsCaseOrOlder
  <2>3. LockIsHeld'
    BY <1>7, <1>a, <2>1 DEF Load, LockIsHeld, TypeOK
  <2> QED
    BY <1>7, <2>2, <2>3, LocalStep DEF Load, TypeOK
<1>8. ASSUME NEW s \in Sessions, Swap(s) \/ Save(s) PROVE CaseInv'
  BY <1>8, ChangeStep
<1>9. ASSUME NEW s \in Sessions, Mismatch(s) PROVE CaseInv'
  <2>1. PageIsCaseOrOlder(s)' /\ LoadedIsCaseOrOlder(s)' /\ LockIsHeld'
    BY <1>9, <1>a DEF Mismatch, PageIsCaseOrOlder, LoadedIsCaseOrOlder, LockIsHeld, TypeOK
  <2> QED
    BY <1>9, <2>1, LocalStep DEF Mismatch, TypeOK
<1>10. ASSUME NEW s \in Sessions, Lock(s) PROVE CaseInv'
  <2>1. /\ pc[s] = "post" /\ goal[s] = "relate" /\ goal'[s] = goal[s] /\ case' = case
        /\ page'[s] = page[s] /\ loaded'[s] = case /\ rowLock = Nobody
        /\ \/ pc'[s] = "done" /\ rowLock' = Nobody
           \/ pc'[s] = "refuse" /\ reply'[s] = reply[s] /\ rowLock' = Nobody
           \/ /\ pc'[s] = "save" /\ reply'[s] = reply[s] /\ rowLock' = s
              /\ case.status = "active" /\ page[s].revision = case.revision
    BY <1>10 DEF Lock, Unlocked, TypeOK
  <2>2. PageIsCaseOrOlder(s)' /\ LoadedIsCaseOrOlder(s)'
    BY <1>a, <2>1 DEF PageIsCaseOrOlder, LoadedIsCaseOrOlder
  <2>3. \A t \in Sessions : /\ t # s => pc'[t] = pc[t]
                            /\ pc[t] # "save"
    BY <1>10, <1>a, <2>1, ConstantsAssumption DEF Lock, TypeOK
  <2>4. LockIsHeld'
    BY <2>1, <2>3, ConstantsAssumption DEF LockIsHeld
  <2> QED
    BY <1>10, <2>2, <2>4, LocalStep DEF Lock, TypeOK
<1>11. ASSUME NEW s \in Sessions, Reject(s) PROVE CaseInv'
  <2>1. PageIsCaseOrOlder(s)' /\ LoadedIsCaseOrOlder(s)'
    BY <1>11, <1>a DEF Reject, PageIsCaseOrOlder, LoadedIsCaseOrOlder, TypeOK
  <2>2. LockIsHeld'
    BY <1>11, <1>a, ConstantsAssumption DEF Reject, LockIsHeld, TypeOK
  <2> QED
    BY <1>11, <2>1, <2>2, LocalStep DEF Reject, TypeOK
<1>12. ASSUME NEW s \in Sessions, Refuse(s) PROVE CaseInv'
  <2>1. PageIsCaseOrOlder(s)' /\ LoadedIsCaseOrOlder(s)' /\ LockIsHeld'
    BY <1>12, <1>a DEF Refuse, PageIsCaseOrOlder, LoadedIsCaseOrOlder, LockIsHeld, TypeOK
  <2> QED
    BY <1>12, <2>1, LocalStep DEF Refuse, TypeOK
<1>13. ASSUME NEW s \in Sessions, Fail(s) PROVE CaseInv'
  <2>1. PageIsCaseOrOlder(s)' /\ LoadedIsCaseOrOlder(s)'
    BY <1>13, <1>a DEF Fail, PageIsCaseOrOlder, LoadedIsCaseOrOlder, TypeOK
  <2>2. LockIsHeld'
    BY <1>13, <1>a, ConstantsAssumption DEF Fail, LockIsHeld, TypeOK
  <2> QED
    BY <1>13, <2>1, <2>2, LocalStep DEF Fail, TypeOK
<1> QED
  BY <1>1, <1>2, <1>3, <1>4, <1>5, <1>6, <1>7, <1>8, <1>9, <1>10, <1>11, <1>12, <1>13
     DEF Next, Browse, Serve, Rest

LEMMA Invariant == Spec => [](TypeOK /\ CaseInv)
<1>1. Init => TypeOK /\ CaseInv
  <2>1. ASSUME Init PROVE TypeOK
    BY <2>1, NoCaseTyped DEF Init, TypeOK, PCs, Replies
  <2>2. ASSUME Init PROVE CaseInv
    BY <2>2, ConstantsAssumption
       DEF Init, CaseInv, LockIsHeld, PagesAreCaseOrOlder, PageIsCaseOrOlder,
           LoadedIsCaseOrOlder, RevisionsAreEvents, NoCase
  <2> QED
    BY <2>1, <2>2
<1> QED
  BY <1>1, TypedStep, CaseInvStep, PTL DEF Spec

\* The row lock is held exactly while the relationships are saved, every page and loaded row
\* is the case at its revision or older, and revisions count the audit events
\* (_update_case_relationships, update_case).
THEOREM CaseInvariant == Spec => []CaseInv
BY Invariant, PTL

--------------------------------------------------------------------------------
(* What follows for the steps *)

LEMMA LoadedMatches ==
  ASSUME TypeOK, CaseInv, NEW s \in Sessions, Swap(s)
  PROVE  page[s].revision = case.revision /\ loaded[s] = case
<1>1. page[s].revision = case.revision /\ pc[s] = "swap"
  BY DEF Swap, Matches
<1>2. loaded[s].revision \in Nat /\ case.revision \in Nat
  BY DEF TypeOK, Cases
<1>3. loaded[s].revision = case.revision
  BY <1>1, <1>2 DEF CaseInv, PagesAreCaseOrOlder, LoadedIsCaseOrOlder
<1> QED
  BY <1>1, <1>3 DEF CaseInv, PagesAreCaseOrOlder, LoadedIsCaseOrOlder

\* Only creation, a swap and a save touch the case or its events.
LEMMA ChangesOfTheCase ==
  ASSUME [Next]_vars
  PROVE  \/ UNCHANGED <<case, audit>>
         \/ Create
         \/ \E s \in Sessions : Swap(s) \/ Save(s)
BY DEF Next, vars, Browse, View, Show, Post, Misfill, Serve, Load, Mismatch, Lock, Reject,
       Refuse, Fail, Rest

LEMMA EditStep == TypeOK /\ CaseInv /\ [Next]_vars => NothingIsOverwritten
<1> SUFFICES ASSUME TypeOK, CaseInv, [Next]_vars, case' # case, case # NoCase
             PROVE  NothingIsOverwritten
  BY DEF NothingIsOverwritten
<1>1. PICK s \in Sessions : Swap(s) \/ Save(s)
  BY ChangesOfTheCase DEF Create
<1>2. page[s].revision = case.revision
  BY <1>1, LoadedMatches DEF Save, CaseInv, PagesAreCaseOrOlder, LoadedIsCaseOrOlder
<1>3. pc[s] \in {"swap", "save"} /\ pc'[s] = "done"
  BY <1>1 DEF Swap, Save, TypeOK
<1>4. /\ page[s].status = case.status /\ page[s].core = case.core
      /\ goal[s] = "relate" => page[s].relations = case.relations
  BY <1>2, <1>3 DEF CaseInv, PagesAreCaseOrOlder, PageIsCaseOrOlder
<1> QED
  BY <1>2, <1>3, <1>4 DEF NothingIsOverwritten

\* However many people work on a case, an edit, archive, restore or relationship update goes
\* through only from a page that showed what it replaces (AC-07: update_case, archive_case,
\* restore_case, _update_case_relationships).
THEOREM NothingOverwritten == Spec => EditsSawTheCase
BY Invariant, EditStep, PTL DEF Spec, EditsSawTheCase

LEMMA FrozenStep == TypeOK /\ CaseInv /\ [Next]_vars => ArchivedUnchanged
<1> SUFFICES ASSUME TypeOK, CaseInv, [Next]_vars, case.status = "archived", case' # case
             PROVE  case'.core = case.core /\ case'.relations = case.relations
  BY DEF ArchivedUnchanged
<1>1. case # NoCase
  BY DEF NoCase
<1>2. PICK s \in Sessions : Swap(s) \/ Save(s)
  BY <1>1, ChangesOfTheCase DEF Create
<1>3. CASE Swap(s)
  <2>1. goal[s] # "edit"
    BY <1>3, LoadedMatches DEF Swap, CaseInv, PagesAreCaseOrOlder, LoadedIsCaseOrOlder
  <2> QED
    BY <1>3, <2>1, ChangedTyped, SwapGoal DEF Swap
<1>4. CASE Save(s)
  BY <1>4 DEF Save, TypeOK, CaseInv, PagesAreCaseOrOlder, LoadedIsCaseOrOlder
<1> QED
  BY <1>2, <1>3, <1>4

\* An archived case keeps its fields and relationships although update_case looks at the status
\* of an unlocked row: the compare-and-swap of the revision stands in for the lock.
THEOREM ArchivedStaysFrozen == Spec => ArchivedIsFrozen
BY Invariant, FrozenStep, PTL DEF Spec, ArchivedIsFrozen

--------------------------------------------------------------------------------
(* The audit trail *)

\* The events of an action up to the n-th, the last one's author, and that there is a last.
Of(log, n, act)      == {i \in 1..n : log[i].action = act}
Top(S)               == CHOOSE i \in S : \A j \in S : j <= i
LastBy(log, n, act)  == IF Of(log, n, act) = {} THEN Nobody
                        ELSE log[Top(Of(log, n, act))].by
HasLast(log, n, act) == Of(log, n, act) # {} =>
                            \E i \in Of(log, n, act) : \A j \in Of(log, n, act) : j <= i

\* Archivings that no later transition undid.
Archivings(log) ==
    {i \in 1..Len(log) :
        /\ log[i].action = "archive"
        /\ \A j \in 1..Len(log) : log[j].action \in {"archive", "restore"} => j <= i}

\* AuditInv of a log and a case.
Tells(log, c) ==
    /\ c.revision = Len(log)
    /\ \A n \in 0..Len(log), act \in Goals : HasLast(log, n, act)
    /\ \A i \in 1..Len(log) : log[i].action = "edit" => log[i].basis = LastBy(log, i - 1, "edit")
    /\ c.core = LastBy(log, Len(log), "edit")
    /\ c.relations = LastBy(log, Len(log), "relate")
    /\ c.status = "archived" <=> Archivings(log) # {}

LEMMA AuditInvTells == AuditInv <=> Tells(audit, case)
<1>1. LastIsOnRecord <=> \A n \in 0..Len(audit), act \in Goals : HasLast(audit, n, act)
  BY DEF LastIsOnRecord, HasLast, Of
<1>2. \A n, act : Written(n, act) = LastBy(audit, n, act)
  BY DEF Written, LastBy, Top, Of
<1>3. (\E i \in Transitions(Len(audit)) : /\ audit[i].action = "archive"
                                          /\ \A j \in Transitions(Len(audit)) : j <= i)
         <=> Archivings(audit) # {}
  BY DEF Transitions, Archivings
<1> QED
  BY <1>1, <1>2, <1>3 DEF AuditInv, AuditTellsTheCase, RevisionsAreEvents, EditsNameTheirChange,
                          Tells

LEMMA Appended ==
  ASSUME NEW log \in Seq(Events), NEW e \in Events
  PROVE  /\ Len(log) \in Nat /\ Len(Append(log, e)) = Len(log) + 1
         /\ Append(log, e)[Len(log) + 1] = e
         /\ \A i \in 1..Len(log) : Append(log, e)[i] = log[i]
BY AppendProperties, LenProperties

\* An event leaves the past alone.
LEMMA PastStays ==
  ASSUME NEW log \in Seq(Events), NEW e \in Events, NEW n \in 0..Len(log), NEW act,
         HasLast(log, n, act)
  PROVE  /\ Of(Append(log, e), n, act) = Of(log, n, act)
         /\ HasLast(Append(log, e), n, act)
         /\ LastBy(Append(log, e), n, act) = LastBy(log, n, act)
<1> DEFINE by == Of(log, n, act)
<1>1. \A i \in 1..n : Append(log, e)[i] = log[i]
  BY Appended
<1>2. Of(Append(log, e), n, act) = by
  BY <1>1 DEF Of
<1>3. HasLast(Append(log, e), n, act)
  BY <1>2 DEF HasLast
<1>4. CASE by = {}
  BY <1>2, <1>3, <1>4 DEF LastBy
<1>5. CASE by # {}
  <2>1. Top(by) \in by
    BY <1>5 DEF HasLast, Top
  <2>2. Append(log, e)[Top(by)] = log[Top(by)]
    BY <1>1, <2>1 DEF Of
  <2>3. /\ LastBy(Append(log, e), n, act) = Append(log, e)[Top(by)].by
        /\ LastBy(log, n, act) = log[Top(by)].by
    BY <1>2, <1>5 DEF LastBy
  <2> QED
    BY <1>2, <1>3, <2>2, <2>3
<1> QED
  BY <1>2, <1>3, <1>4, <1>5

\* An event is the last of its action.
LEMMA PresentIsLast ==
  ASSUME NEW log \in Seq(Events), NEW e \in Events, NEW act, HasLast(log, Len(log), act)
  PROVE  /\ HasLast(Append(log, e), Len(log) + 1, act)
         /\ LastBy(Append(log, e), Len(log) + 1, act)
               = IF e.action = act THEN e.by ELSE LastBy(log, Len(log), act)
<1> DEFINE m  == Len(log) + 1
           by == Of(Append(log, e), m, act)
<1>1. Len(log) \in Nat /\ Len(log) \in 0..Len(log)
  BY Appended
<1>2. Of(Append(log, e), Len(log), act) = Of(log, Len(log), act)
  BY <1>1, PastStays
<1>3. 1..m = 1..Len(log) \cup {m}
  BY <1>1
<1>4. Append(log, e)[m] = e
  BY Appended
<1>5. CASE e.action = act
  <2>1. m \in by /\ \A j \in by : j <= m
    BY <1>1, <1>4, <1>5 DEF Of
  <2>2. \A i \in by : (\A j \in by : j <= i) => i = m
    BY <1>1, <2>1 DEF Of
  <2>3. Top(by) = m
    BY <2>1, <2>2 DEF Top
  <2> QED
    BY <1>4, <1>5, <2>1, <2>3 DEF HasLast, LastBy
<1>6. CASE e.action # act
  <2>1. by = Of(Append(log, e), Len(log), act)
    BY <1>3, <1>4, <1>6 DEF Of
  <2>2. by = Of(log, Len(log), act)
    BY <1>2, <2>1
  <2>3. LastBy(Append(log, e), m, act) = LastBy(Append(log, e), Len(log), act)
    BY <2>1 DEF LastBy
  <2>4. LastBy(Append(log, e), Len(log), act) = LastBy(log, Len(log), act)
    BY <1>1, PastStays
  <2> QED
    BY <1>6, <2>2, <2>3, <2>4 DEF HasLast
<1> QED
  BY <1>5, <1>6

LEMMA ArchivingsStep ==
  ASSUME NEW log \in Seq(Events), NEW e \in Events
  PROVE  /\ e.action = "archive" => Archivings(Append(log, e)) # {}
         /\ e.action = "restore" => Archivings(Append(log, e)) = {}
         /\ e.action \notin {"archive", "restore"} => Archivings(Append(log, e)) = Archivings(log)
<1> DEFINE m == Len(log) + 1
<1>1. /\ Len(log) \in Nat /\ Len(Append(log, e)) = m /\ Append(log, e)[m] = e
      /\ \A i \in 1..Len(log) : Append(log, e)[i] = log[i]
  BY Appended
<1>2. 1..m = 1..Len(log) \cup {m} /\ m \in 1..m
  BY <1>1
<1>3. ASSUME e.action = "archive" PROVE m \in Archivings(Append(log, e))
  BY <1>1, <1>2, <1>3 DEF Archivings
<1>4. ASSUME e.action = "restore", NEW i \in Archivings(Append(log, e)) PROVE FALSE
  <2>1. i \in 1..m /\ Append(log, e)[i].action = "archive" /\ m <= i
    BY <1>1, <1>2, <1>4 DEF Archivings
  <2>2. i = m
    BY <1>1, <2>1
  <2> QED
    BY <1>1, <1>4, <2>1, <2>2
<1>5. ASSUME e.action \notin {"archive", "restore"}
      PROVE  Archivings(Append(log, e)) = Archivings(log)
  BY <1>1, <1>2, <1>5 DEF Archivings
<1> QED
  BY <1>3, <1>4, <1>5

\* A change of the case and its event keep the trail true.
LEMMA TellsStep ==
  ASSUME NEW log \in Seq(Events), NEW e \in Events, NEW c, NEW d, Tells(log, c),
         d.revision = c.revision + 1,
         e.action = "edit" => e.basis = c.core,
         d.core = IF e.action = "edit" THEN e.by ELSE c.core,
         d.relations = IF e.action = "relate" THEN e.by ELSE c.relations,
         e.action = "archive" => d.status = "archived",
         e.action = "restore" => d.status # "archived",
         e.action \notin {"archive", "restore"} =>
             (d.status = "archived" <=> c.status = "archived")
  PROVE  Tells(Append(log, e), d)
<1> DEFINE m == Len(log) + 1
           new == Append(log, e)
<1>1. /\ Len(log) \in Nat /\ Len(new) = m /\ new[m] = e
      /\ \A i \in 1..Len(log) : new[i] = log[i]
  BY Appended
<1>2. \A n \in 0..Len(log), act \in Goals : HasLast(log, n, act)
  BY DEF Tells
<1>3. Len(log) \in 0..Len(log)
  BY <1>1
<1>4. \A n \in 0..Len(log), act \in Goals : /\ HasLast(new, n, act)
                                            /\ LastBy(new, n, act) = LastBy(log, n, act)
  BY <1>2, PastStays
<1>5. \A act \in Goals : /\ HasLast(new, m, act)
                         /\ LastBy(new, m, act)
                               = IF e.action = act THEN e.by ELSE LastBy(log, Len(log), act)
  BY <1>2, <1>3, PresentIsLast
<1>6. /\ "edit" \in Goals /\ "relate" \in Goals
      /\ c.core = LastBy(log, Len(log), "edit") /\ c.relations = LastBy(log, Len(log), "relate")
      /\ c.revision = Len(log)
  BY DEF Tells, Goals
<1> HIDE DEF new
<1>7. d.revision = Len(new)
  BY <1>1, <1>6
<1>8. \A n \in 0..Len(new), act \in Goals : HasLast(new, n, act)
  <2>1. 0..Len(new) = 0..Len(log) \cup {m}
    BY <1>1
  <2> QED
    BY <1>4, <1>5, <2>1
<1>9. ASSUME NEW i \in 1..Len(new), new[i].action = "edit"
      PROVE  new[i].basis = LastBy(new, i - 1, "edit")
  <2>1. i - 1 \in 0..Len(log)
    BY <1>1
  <2>2. LastBy(new, i - 1, "edit") = LastBy(log, i - 1, "edit")
    BY <1>4, <1>6, <2>1
  <2>3. CASE i = m
    <3>1. i - 1 = Len(log)
      BY <1>1, <2>3
    <3> QED
      BY <1>1, <1>6, <1>9, <2>2, <2>3, <3>1
  <2>4. CASE i # m
    <3>1. i \in 1..Len(log)
      BY <1>1, <2>4
    <3> QED
      BY <1>1, <1>9, <2>2, <3>1 DEF Tells
  <2> QED
    BY <2>3, <2>4
<1>10. d.core = LastBy(new, Len(new), "edit") /\ d.relations = LastBy(new, Len(new), "relate")
  BY <1>1, <1>5, <1>6
<1>11. d.status = "archived" <=> Archivings(new) # {}
  <2>1. c.status = "archived" <=> Archivings(log) # {}
    BY DEF Tells
  <2> QED
    BY <2>1, ArchivingsStep DEF new
<1>12. Tells(new, d)
  BY <1>7, <1>8, <1>9, <1>10, <1>11 DEF Tells
<1> QED
  BY <1>12 DEF new

\* What creation, a swap and a save write.
LEMMA EventOfTheStep ==
  ASSUME TypeOK, CaseInv, Create \/ \E s \in Sessions : Swap(s) \/ Save(s)
  PROVE  \E e \in Events :
            /\ audit' = Append(audit, e)
            /\ case'.revision = case.revision + 1
            /\ e.action = "edit" => e.basis = case.core
            /\ case'.core = IF e.action = "edit" THEN e.by ELSE case.core
            /\ case'.relations = IF e.action = "relate" THEN e.by ELSE case.relations
            /\ e.action = "archive" => case'.status = "archived"
            /\ e.action = "restore" => case'.status # "archived"
            /\ e.action \notin {"archive", "restore"} =>
                  (case'.status = "archived" <=> case.status = "archived")
<1>1. CASE Create
  <2>1. Len(audit) = 0
    BY <1>1 DEF Create, NoCase, CaseInv, RevisionsAreEvents
  <2>2. audit = <<>>
    BY <2>1 DEF TypeOK
  <2>3. Event("create", Nobody, Nobody) \in Events
    BY DEF Event, Events
  <2>4. audit' = Append(audit, Event("create", Nobody, Nobody))
    BY <1>1, <2>2 DEF Create
  <2>5. Event("create", Nobody, Nobody).action = "create"
    BY DEF Event
  <2>6. /\ case.revision = 0 /\ case.core = Nobody /\ case.relations = Nobody
        /\ case.status = "none"
        /\ case'.revision = 1 /\ case'.core = Nobody /\ case'.relations = Nobody
        /\ case'.status = "active"
    BY <1>1 DEF Create, NoCase, NewCase
  <2> QED
    BY <2>3, <2>4, <2>5, <2>6
<1>2. ASSUME NEW s \in Sessions, Swap(s)
      PROVE  LET e == Event(goal[s], s, loaded[s].core)
             IN  /\ e \in Events
                 /\ audit' = Append(audit, e)
                 /\ case'.revision = case.revision + 1
                 /\ e.basis = case.core
                 /\ case'.core = IF e.action = "edit" THEN e.by ELSE case.core
                 /\ e.action # "relate" /\ case'.relations = case.relations
                 /\ e.action = "archive" => case'.status = "archived"
                 /\ e.action = "restore" => case'.status # "archived"
                 /\ e.action \notin {"archive", "restore"} => case'.status = case.status
  <2>1. goal[s] \in {"edit", "archive", "restore"}
    BY <1>2, SwapGoal DEF Swap
  <2>2. loaded[s].core = case.core /\ case.core \in Sessions \cup {Nobody}
    BY <1>2, LoadedMatches DEF TypeOK, Cases
  <2>3. /\ case' = Changed(s)
        /\ audit' = Append(audit, Event(goal[s], s, loaded[s].core))
    BY <1>2 DEF Swap
  <2>4. /\ Event(goal[s], s, loaded[s].core) \in Events
        /\ Event(goal[s], s, loaded[s].core).action = goal[s]
        /\ Event(goal[s], s, loaded[s].core).by = s
        /\ Event(goal[s], s, loaded[s].core).basis = case.core
    BY <2>1, <2>2 DEF Event, Events, Goals
  <2>5. /\ Changed(s).revision = case.revision + 1 /\ Changed(s).relations = case.relations
        /\ Changed(s).core = IF goal[s] = "edit" THEN s ELSE case.core
        /\ goal[s] = "edit" => Changed(s).status = case.status
        /\ goal[s] = "archive" => Changed(s).status = "archived"
        /\ goal[s] = "restore" => Changed(s).status = "active"
    BY <2>1 DEF Changed
  <2> QED
    BY <2>1, <2>3, <2>4, <2>5
<1>3. ASSUME NEW s \in Sessions, Save(s)
      PROVE  LET e == Event("relate", s, loaded[s].core)
             IN  /\ e \in Events /\ e.action = "relate" /\ e.by = s
                 /\ audit' = Append(audit, e)
                 /\ case'.revision = case.revision + 1
                 /\ case'.core = case.core /\ case'.relations = s
                 /\ case'.status = case.status
  <2>1. loaded[s].core \in Sessions \cup {Nobody}
    BY DEF TypeOK, Cases
  <2>2. loaded[s].revision = case.revision
    BY <1>3 DEF Save, CaseInv, PagesAreCaseOrOlder, LoadedIsCaseOrOlder
  <2> QED
    BY <1>3, <2>1, <2>2 DEF Save, Event, Events, Goals
<1>4. CASE \E s \in Sessions : Swap(s)
  BY <1>2, <1>4
<1>5. CASE \E s \in Sessions : Save(s)
  BY <1>3, <1>5
<1> QED
  BY <1>1, <1>4, <1>5

LEMMA AuditStep ==
  ASSUME TypeOK, CaseInv, AuditInv, [Next]_vars PROVE AuditInv'
<1>1. Tells(audit, case)
  BY AuditInvTells
<1>2. Tells(audit', case')
  <2>1. CASE UNCHANGED <<case, audit>>
    BY <1>1, <2>1
  <2>2. CASE Create \/ \E s \in Sessions : Swap(s) \/ Save(s)
    <3>1. audit \in Seq(Events)
      BY DEF TypeOK
    <3>2. PICK e \in Events :
             /\ audit' = Append(audit, e)
             /\ case'.revision = case.revision + 1
             /\ e.action = "edit" => e.basis = case.core
             /\ case'.core = IF e.action = "edit" THEN e.by ELSE case.core
             /\ case'.relations = IF e.action = "relate" THEN e.by ELSE case.relations
             /\ e.action = "archive" => case'.status = "archived"
             /\ e.action = "restore" => case'.status # "archived"
             /\ e.action \notin {"archive", "restore"} =>
                   (case'.status = "archived" <=> case.status = "archived")
      BY <2>2, EventOfTheStep
    <3>3. Tells(Append(audit, e), case')
      BY <1>1, <3>1, <3>2, TellsStep
    <3> QED
      BY <3>2, <3>3
  <2> QED
    BY <2>1, <2>2, ChangesOfTheCase
<1>3. (AuditInv <=> Tells(audit, case))'
  BY AuditInvTells, PTL
<1> QED
  BY <1>2, <1>3

\* However many people work on a case, its audit trail is its history: one event per revision,
\* the last transition is the status, the last editors are those on record, and the
\* changed_fields of each edit are the difference to the edit before it (record_audit_event in
\* update_case, archive_case, restore_case and _update_case_relationships).
THEOREM AuditTells == Spec => []AuditTellsTheCase
<1>1. Init => Tells(audit, case)
  BY DEF Init, NoCase, Tells, HasLast, LastBy, Of, Archivings
<1>2. Init => AuditInv
  BY <1>1, AuditInvTells
<1>3. AuditInv => AuditTellsTheCase
  BY DEF AuditInv
<1> QED
  BY <1>2, <1>3, Invariant, AuditStep, PTL DEF Spec

--------------------------------------------------------------------------------
(* Replies *)

Mine(log, s) == {i \in 1..Len(log) : log[i].by = s}

\* RepliesInv, as one session at p with reply r and goal g sees it.
ToldTrue(log, s, p, r, g, failed) ==
    /\ p # "done" => r = "none" /\ Mine(log, s) = {}
    /\ r = "done" => \E i \in Mine(log, s) : Mine(log, s) = {i} /\ log[i].action = g
    /\ r \in {"denied", "conflict"} => Mine(log, s) = {}
    /\ r = "conflict" => failed

LEMMA RepliesInvTold ==
  RepliesInv <=> \A s \in Sessions : ToldTrue(audit, s, pc[s], reply[s], goal[s], s \in failures)
BY DEF RepliesInv, RecordsFollowSessions, RepliesAreTrue, ToldTrue, Mine

LEMMA MineStep ==
  ASSUME NEW log \in Seq(Events), NEW e \in Events, NEW s
  PROVE  /\ e.by # s => Mine(Append(log, e), s) = Mine(log, s)
         /\ e.by = s /\ Mine(log, s) = {} => Mine(Append(log, e), s) = {Len(log) + 1}
<1>1. /\ Len(log) \in Nat /\ Len(Append(log, e)) = Len(log) + 1
      /\ Append(log, e)[Len(log) + 1] = e
      /\ \A i \in 1..Len(log) : Append(log, e)[i] = log[i]
  BY Appended
<1>2. 1..(Len(log) + 1) = 1..Len(log) \cup {Len(log) + 1}
  BY <1>1
<1> QED
  BY <1>1, <1>2 DEF Mine

\* The event of another leaves a session's replies true.
LEMMA OthersEvent ==
  ASSUME NEW log \in Seq(Events), NEW e \in Events, NEW s, e.by # s,
         NEW p, NEW r, NEW g, NEW failed, ToldTrue(log, s, p, r, g, failed)
  PROVE  ToldTrue(Append(log, e), s, p, r, g, failed)
<1>1. Mine(Append(log, e), s) = Mine(log, s)
  BY MineStep
<1>2. \A i \in Mine(log, s) : Append(log, e)[i] = log[i]
  BY Appended DEF Mine
<1> QED
  BY <1>1, <1>2 DEF ToldTrue

\* A session's own event is its first, and its last step.
LEMMA OwnEvent ==
  ASSUME NEW log \in Seq(Events), NEW e \in Events, Mine(log, e.by) = {},
         NEW r \in {"done", "error"}, NEW failed
  PROVE  ToldTrue(Append(log, e), e.by, "done", r, e.action, failed)
<1>1. Mine(Append(log, e), e.by) = {Len(log) + 1}
  BY MineStep
<1>2. Append(log, e)[Len(log) + 1] = e
  BY Appended
<1> QED
  BY <1>1, <1>2 DEF ToldTrue

LEMMA OwnReply ==
  ASSUME TypeOK, NEW s \in Sessions, Browse(s) \/ Serve(s) \/ Fail(s), ~Swap(s), ~Save(s),
         ToldTrue(audit, s, pc[s], reply[s], goal[s], s \in failures)
  PROVE  ToldTrue(audit', s, pc'[s], reply'[s], goal'[s], s \in failures')
<1> USE DEF TypeOK, ToldTrue
<1>1. CASE \E g \in Goals : View(s, g)
  BY <1>1 DEF View
<1>2. CASE Show(s)
  BY <1>2 DEF Show
<1>3. CASE Post(s)
  BY <1>3 DEF Post
<1>4. CASE Misfill(s)
  BY <1>4 DEF Misfill
<1>5. CASE Load(s)
  BY <1>5 DEF Load
<1>6. CASE Mismatch(s)
  BY <1>6 DEF Mismatch
<1>7. CASE Lock(s)
  BY <1>7 DEF Lock
<1>8. CASE Reject(s)
  BY <1>8 DEF Reject
<1>9. CASE Refuse(s)
  BY <1>9 DEF Refuse
<1>10. CASE Fail(s)
  BY <1>10 DEF Fail
<1> QED
  BY <1>1, <1>2, <1>3, <1>4, <1>5, <1>6, <1>7, <1>8, <1>9, <1>10 DEF Browse, Serve

\* An event is written by the session it names, with the session's last step.
LEMMA Author ==
  ASSUME TypeOK, CaseInv, Create \/ \E s \in Sessions : Swap(s) \/ Save(s)
  PROVE  \E e \in Events :
            /\ audit' = Append(audit, e)
            /\ UNCHANGED <<failures, goal>>
            /\ \A t \in Sessions \ {e.by} : pc'[t] = pc[t] /\ reply'[t] = reply[t]
            /\ e.by \in Sessions => /\ pc[e.by] # "done" /\ pc'[e.by] = "done"
                                    /\ reply'[e.by] \in {"done", "error"}
                                    /\ e.action = goal[e.by]
<1>1. CASE Create
  <2>1. Event("create", Nobody, Nobody) \in Events /\ Event("create", Nobody, Nobody).by = Nobody
    BY DEF Event, Events
  <2>2. Len(audit) = 0
    BY <1>1 DEF Create, NoCase, CaseInv, RevisionsAreEvents
  <2>3. audit = <<>>
    BY <2>2 DEF TypeOK
  <2>4. audit' = Append(audit, Event("create", Nobody, Nobody))
    BY <1>1, <2>3 DEF Create
  <2>5. UNCHANGED <<failures, goal, pc, reply>>
    BY <1>1 DEF Create
  <2> QED
    BY <2>1, <2>4, <2>5, ConstantsAssumption
<1>2. ASSUME NEW s \in Sessions, Swap(s) \/ Save(s)
      PROVE  LET e == Event(goal[s], s, loaded[s].core)
             IN  e \in Events /\ e.by = s /\ e.action = goal[s] /\ audit' = Append(audit, e)
  <2>1. loaded[s].core \in Sessions \cup {Nobody} /\ goal[s] \in Goals
    BY <1>2 DEF TypeOK, Cases, Swap, Save
  <2>2. audit' = Append(audit, Event(goal[s], s, loaded[s].core))
    BY <1>2 DEF Swap, Save, TypeOK
  <2> QED
    BY <2>1, <2>2 DEF Event, Events
<1>3. ASSUME NEW s \in Sessions, Swap(s) \/ Save(s)
      PROVE  /\ UNCHANGED <<failures, goal>>
             /\ \A t \in Sessions \ {s} : pc'[t] = pc[t] /\ reply'[t] = reply[t]
             /\ pc[s] # "done" /\ pc'[s] = "done" /\ reply'[s] \in {"done", "error"}
  BY <1>3 DEF Swap, Save, TypeOK
<1>4. CASE \E s \in Sessions : Swap(s) \/ Save(s)
  BY <1>2, <1>3, <1>4
<1> QED
  BY <1>1, <1>4

LEMMA RepliesStep ==
  ASSUME TypeOK, CaseInv, RepliesInv, [Next]_vars PROVE RepliesInv'
<1>1. \A s \in Sessions : ToldTrue(audit, s, pc[s], reply[s], goal[s], s \in failures)
  BY RepliesInvTold
<1>2. ASSUME NEW s \in Sessions
      PROVE  ToldTrue(audit', s, pc'[s], reply'[s], goal'[s], s \in failures')
  <2>1. ToldTrue(audit, s, pc[s], reply[s], goal[s], s \in failures)
    BY <1>1
  <2>2. CASE Create \/ \E t \in Sessions : Swap(t) \/ Save(t)
    <3>1. PICK e \in Events :
             /\ audit' = Append(audit, e)
             /\ UNCHANGED <<failures, goal>>
             /\ \A t \in Sessions \ {e.by} : pc'[t] = pc[t] /\ reply'[t] = reply[t]
             /\ e.by \in Sessions => /\ pc[e.by] # "done" /\ pc'[e.by] = "done"
                                     /\ reply'[e.by] \in {"done", "error"}
                                     /\ e.action = goal[e.by]
      BY <2>2, Author
    <3>2. audit \in Seq(Events)
      BY DEF TypeOK
    <3>3. CASE e.by # s
      <4>1. ToldTrue(Append(audit, e), s, pc[s], reply[s], goal[s], s \in failures)
        BY <2>1, <3>2, <3>3, OthersEvent
      <4> QED
        BY <3>1, <3>3, <4>1
    <3>4. CASE e.by = s
      <4>1. Mine(audit, e.by) = {}
        BY <2>1, <3>1, <3>4 DEF ToldTrue
      <4>2. ToldTrue(Append(audit, e), e.by, "done", reply'[s], e.action, s \in failures)
        BY <3>1, <3>2, <3>4, <4>1, OwnEvent
      <4> QED
        BY <3>1, <3>4, <4>2
    <3> QED
      BY <3>3, <3>4
  <2>3. CASE ~(Create \/ \E t \in Sessions : Swap(t) \/ Save(t))
    <3>1. CASE Browse(s) \/ Serve(s) \/ Fail(s)
      BY <2>1, <2>3, <3>1, OwnReply
    <3>2. ASSUME NEW t \in Sessions \ {s}, Browse(t) \/ Serve(t) \/ Fail(t)
          PROVE  /\ audit' = audit /\ pc'[s] = pc[s] /\ reply'[s] = reply[s]
                 /\ goal'[s] = goal[s] /\ (s \in failures' <=> s \in failures)
      BY <2>3, <3>2 DEF Browse, View, Show, Post, Misfill, Serve, Load, Mismatch, Lock, Reject,
                        Refuse, Fail, TypeOK
    <3>3. CASE UNCHANGED vars
      BY <2>1, <3>3 DEF vars
    <3> QED
      BY <2>1, <2>3, <3>1, <3>2, <3>3 DEF Next, Rest, ToldTrue
  <2> QED
    BY <2>2, <2>3
<1>3. (RepliesInv <=>
          \A s \in Sessions : ToldTrue(audit, s, pc[s], reply[s], goal[s], s \in failures))'
  BY RepliesInvTold, PTL
<1> QED
  BY <1>2, <1>3

\* What a session was told stays true, whatever others do afterwards: a success is on record
\* once and under its name, a refusal changed nothing, and a conflict is on record as a failure
\* (CaseRevisionConflict and the failure events of update_case and _transition_conflict).
THEOREM RepliesStayTrue == Spec => []RepliesAreTrue
<1>1. Init => RepliesInv
  BY DEF Init, RepliesInv, RecordsFollowSessions, RepliesAreTrue
<1>2. RepliesInv => RepliesAreTrue
  BY DEF RepliesInv
<1> QED
  BY <1>1, <1>2, Invariant, RepliesStep, PTL DEF Spec

--------------------------------------------------------------------------------
(* Refinement *)

LEMMA RefinementStep == TypeOK /\ TypeOK' /\ CaseInv /\ [Next]_vars => [Record!ANext]_(Record!avars)
<1> SUFFICES ASSUME TypeOK, TypeOK', CaseInv, [Next]_vars
             PROVE  [Record!ANext]_(Record!avars)
  OBVIOUS
<1> DEFINE base == [s \in Sessions |-> page[s].revision]
<1>1. CASE Create
  <2>1. case.revision = 0 /\ Len(audit) = 0
    BY <1>1 DEF Create, NoCase, CaseInv, RevisionsAreEvents
  <2>2. audit = <<>>
    BY <2>1 DEF TypeOK
  <2>3. Event("create", Nobody, Nobody) \in Events
    BY DEF Event, Events
  <2>4. base' = base
    BY <1>1 DEF Create
  <2>5. Record!Start
    BY <1>1, <2>2, <2>3, <2>4 DEF Create, Record!Start
  <2> QED
    BY <2>5 DEF Record!ANext
<1>2. ASSUME NEW s \in Sessions, Swap(s) \/ Save(s) PROVE \E u \in Sessions : Record!Change(u)
  <2>1. PICK e \in Events : audit' = Append(audit, e)
    BY <1>2, ChangeStep
  <2>2. page[s].revision = case.revision
    BY <1>2, LoadedMatches DEF Save, CaseInv, PagesAreCaseOrOlder, LoadedIsCaseOrOlder
  <2>3. case # NoCase
    BY <1>2 DEF Swap, Save, CaseInv, PagesAreCaseOrOlder, PageIsCaseOrOlder
  <2>4. base[s] = Len(audit) /\ audit # <<>>
    BY <2>2, <2>3 DEF CaseInv, PagesAreCaseOrOlder, RevisionsAreEvents
  <2>5. base' = base
    BY <1>2 DEF Swap, Save
  <2>6. Record!Change(s)
    BY <2>1, <2>4, <2>5 DEF Record!Change
  <2> QED
    BY <2>6
<1>3. ASSUME NEW s \in Sessions, NEW g \in Goals, View(s, g)
      PROVE  \E u \in Sessions : Record!See(u)
  <2>1. page' = [page EXCEPT ![s] = [case EXCEPT !.relations = Nobody]] /\ audit' = audit
    BY <1>3 DEF View
  <2>2. [case EXCEPT !.relations = Nobody].revision = Len(audit)
    BY DEF CaseInv, RevisionsAreEvents, TypeOK, Cases
  <2>3. base' = [base EXCEPT ![s] = Len(audit)]
    BY <2>1, <2>2 DEF TypeOK
  <2>4. Len(audit) \in 0..Len(audit)
    BY DEF TypeOK
  <2>5. Record!See(s)
    BY <2>1, <2>3, <2>4 DEF Record!See
  <2> QED
    BY <2>5
<1>4. ASSUME NEW s \in Sessions, Show(s) PROVE UNCHANGED <<audit, base>>
  <2>1. \A t \in Sessions : page'[t].revision = page[t].revision
    BY <1>4 DEF Show, TypeOK, Cases
  <2> QED
    BY <1>4, <2>1 DEF Show
<1>5. \/ UNCHANGED <<audit, page>>
      \/ Create
      \/ \E s \in Sessions : Swap(s) \/ Save(s) \/ Show(s) \/ \E g \in Goals : View(s, g)
  BY DEF Next, vars, Browse, Post, Misfill, Serve, Load, Mismatch, Lock, Reject, Refuse, Fail,
         Rest
<1>6. CASE UNCHANGED <<audit, page>>
  BY <1>6 DEF Record!avars
<1> QED
  BY <1>1, <1>2, <1>3, <1>4, <1>5, <1>6 DEF Record!ANext, Record!avars

\* The case implements SharedRecord: its history only grows, and only by those whose page showed
\* all of it.
THEOREM CaseImplementsSharedRecord == Spec => ImplementsSharedRecord
<1>1. Init => Record!AInit
  BY DEF Init, NoCase, Record!AInit
<1> QED
  BY <1>1, Invariant, RefinementStep, PTL DEF Spec, ImplementsSharedRecord, Record!ASpec
=================================================================================
