------------------------- MODULE TemplateVersionsProofs -------------------------
(* Proofs about TemplateVersions. *)
EXTENDS TemplateVersions, SequenceTheorems, TLAPS

USE DEF To, End, Go, Answer, Release, versions, uploads, sessions

--------------------------------------------------------------------------------
(* Type correctness, one part of the state at a time *)

LEMMA RecordTyped ==
  ASSUME VersionsTyped, NEW u \in Uploads, NEW e \in Events, Record(u, e)
  PROVE  trail' \in [Uploads -> Seq(Events)]
<1>1. trail[u] \in Seq(Events)
  BY DEF VersionsTyped
<1>2. Append(trail[u], e) \in Seq(Events)
  BY <1>1
<1> QED
  BY <1>2 DEF VersionsTyped, Record

LEMMA VersionsStep == TypeOK /\ [Next]_vars => VersionsTyped'
<1> SUFFICES ASSUME TypeOK, [Next]_vars PROVE VersionsTyped'
  OBVIOUS
<1> USE DEF TypeOK
<1>1. CASE UNCHANGED versions
  BY <1>1 DEF VersionsTyped
<1>2. ASSUME NEW u \in Uploads, Insert(u) PROVE VersionsTyped'
  <2>1. CASE UNCHANGED <<status, trail>>
    BY <1>2, <2>1 DEF Insert, VersionsTyped
  <2>2. CASE status' = [status EXCEPT ![u] = "uploaded"] /\ Record(u, "uploaded")
    <3>1. trail' \in [Uploads -> Seq(Events)]
      BY <2>2, RecordTyped DEF Events
    <3>2. status' \in [Uploads -> Statuses]
      BY <2>2 DEF VersionsTyped, Statuses
    <3> QED
      BY <1>2, <3>1, <3>2 DEF Insert, VersionsTyped
  <2> QED
    BY <1>2, <2>1, <2>2 DEF Insert
<1>3. ASSUME NEW u \in Uploads, Settle(u) PROVE VersionsTyped'
  <2>1. CASE UNCHANGED <<status, trail>>
    BY <1>3, <2>1 DEF Settle, VersionsTyped
  <2>2. ASSUME NEW x \in {"valid", "invalid"},
               status' = [status EXCEPT ![u] = x], Record(u, x)
        PROVE VersionsTyped'
    <3>1. trail' \in [Uploads -> Seq(Events)]
      BY <2>2, RecordTyped DEF Events
    <3>2. status' \in [Uploads -> Statuses]
      BY <2>2 DEF VersionsTyped, Statuses
    <3> QED
      BY <1>3, <3>1, <3>2 DEF Settle, VersionsTyped
  <2> QED
    BY <1>3, <2>1, <2>2 DEF Settle
<1>4. ASSUME NEW s \in Sessions, Activate(s) PROVE VersionsTyped'
  <2>1. \A v \in Uploads : trail[v] \in Seq(Events)
    BY DEF VersionsTyped
  <2>2. \A v \in Uploads : /\ Append(trail[v], "activated") \in Seq(Events)
                           /\ Append(trail[v], "deactivated") \in Seq(Events)
    BY <2>1 DEF Events
  <2>3. trail' \in [Uploads -> Seq(Events)]
    BY <1>4, <2>1, <2>2 DEF Activate
  <2>4. status' \in [Uploads -> Statuses]
    BY <1>4 DEF Activate, VersionsTyped, Statuses
  <2>5. activatedBy' \in [Uploads -> Sessions \cup {Nobody}]
    BY <1>4 DEF Activate, VersionsTyped
  <2> QED
    BY <2>3, <2>4, <2>5 DEF VersionsTyped
<1>5. ASSUME NEW s \in Sessions, Deactivate(s) PROVE VersionsTyped'
  <2>1. status' \in [Uploads -> Statuses] /\ UNCHANGED activatedBy
    BY <1>5 DEF Deactivate, VersionsTyped, Statuses
  <2>2. CASE target[s] \in Uploads
    BY <1>5, <2>1, <2>2, RecordTyped DEF Deactivate, Events, VersionsTyped
  <2>3. CASE target[s] \notin Uploads
    BY <1>5, <2>1, <2>3 DEF Deactivate, Record, VersionsTyped
  <2> QED
    BY <2>2, <2>3
<1> QED
  BY <1>1, <1>2, <1>3, <1>4, <1>5
     DEF Next, vars, UploadStep, Propose, Store, Clean, Undo, Kill, Browse, View, Show,
         ViewGeneration, Submit, Misconfirm, Serve, Lock, Read, Decide, Reserve, Conflict,
         Refuse, Fail, Rest

LEMMA UploadsStep == TypeOK /\ [Next]_vars => UploadsTyped'
<1> SUFFICES ASSUME TypeOK, [Next]_vars PROVE UploadsTyped'
  OBVIOUS
<1> USE DEF TypeOK, UploadsTyped, Places, Uploading
<1>1. CASE UNCHANGED uploads
  BY <1>1
<1>2. ASSUME NEW u \in Uploads, Propose(u) PROVE UploadsTyped'
  BY <1>2 DEF Propose, Causes, Outcomes
<1>3. ASSUME NEW u \in Uploads, Store(u) PROVE UploadsTyped'
  BY <1>3 DEF Store, Causes, Outcomes
<1>4. ASSUME NEW u \in Uploads, Clean(u) PROVE UploadsTyped'
  BY <1>4 DEF Clean, Causes, Outcomes
<1>5. ASSUME NEW u \in Uploads, Insert(u) PROVE UploadsTyped'
  BY <1>5 DEF Insert, Causes, Outcomes
<1>6. ASSUME NEW u \in Uploads, Undo(u) PROVE UploadsTyped'
  BY <1>6 DEF Undo, Causes, Outcomes
<1>7. ASSUME NEW u \in Uploads, Settle(u) PROVE UploadsTyped'
  BY <1>7 DEF Settle, Causes, Outcomes
<1>8. ASSUME NEW u \in Uploads, Kill(u) PROVE UploadsTyped'
  BY <1>8 DEF Kill
<1> QED
  BY <1>1, <1>2, <1>3, <1>4, <1>5, <1>6, <1>7, <1>8
     DEF Next, vars, UploadStep, Browse, View, Show, ViewGeneration, Submit, Misconfirm, Serve,
         Lock, Read, Decide, Activate, Deactivate, Reserve, Conflict, Refuse, Fail, Rest

LEMMA SessionsStep == TypeOK /\ [Next]_vars => SessionsTyped'
<1> SUFFICES ASSUME TypeOK, [Next]_vars PROVE SessionsTyped'
  OBVIOUS
<1> USE DEF TypeOK, SessionsTyped
<1>1. CASE UNCHANGED sessions
  BY <1>1
<1>2. ASSUME NEW s \in Sessions, NEW g \in {"activate", "deactivate"}, NEW v \in Uploads,
             View(s, g, v)
      PROVE SessionsTyped'
  BY <1>2 DEF View, PCs, Goals, Replies
<1>3. ASSUME NEW s \in Sessions, Read(s) PROVE SessionsTyped'
  <2>1. PICK x \in ActiveIds :
           read' = [read EXCEPT ![s] = [status |-> status[target[s]], active |-> x]]
    BY <1>3 DEF Read
  <2>2. x \in Uploads \cup {NoVersion}
    BY DEF ActiveIds, ActiveSet
  <2>3. status[target[s]] \in Statuses /\ target[s] \in Uploads
    BY <1>3 DEF Read, VersionsTyped
  <2> QED
    BY <1>3, <2>1, <2>2, <2>3 DEF Read, PCs
<1>4. ASSUME NEW s \in Sessions, Show(s) PROVE SessionsTyped'
  BY <1>4 DEF Show, PCs, ActiveIds, ActiveSet
<1>5. ASSUME NEW s \in Sessions, ViewGeneration(s) PROVE SessionsTyped'
  BY <1>5 DEF ViewGeneration, PCs, Goals, ActiveSet
<1>6. ASSUME NEW s \in Sessions, Submit(s) PROVE SessionsTyped'
  BY <1>6 DEF Submit, PCs
<1>7. ASSUME NEW s \in Sessions, Misconfirm(s) PROVE SessionsTyped'
  BY <1>7 DEF Misconfirm, PCs, Replies
<1>8. ASSUME NEW s \in Sessions, Lock(s) PROVE SessionsTyped'
  BY <1>8 DEF Lock, PCs
<1>9. ASSUME NEW s \in Sessions, Activate(s) PROVE SessionsTyped'
  BY <1>9 DEF Activate, PCs, Replies
<1>10. ASSUME NEW s \in Sessions, Deactivate(s) PROVE SessionsTyped'
  BY <1>10 DEF Deactivate, PCs, Replies
<1>11. ASSUME NEW s \in Sessions, Reserve(s) PROVE SessionsTyped'
  BY <1>11 DEF Reserve, PCs, Replies
<1>12. ASSUME NEW s \in Sessions, Conflict(s) PROVE SessionsTyped'
  BY <1>12 DEF Conflict, PCs, Replies
<1>13. ASSUME NEW s \in Sessions, Refuse(s) PROVE SessionsTyped'
  BY <1>13 DEF Refuse, PCs, Replies
<1>14. ASSUME NEW s \in Sessions, Fail(s) PROVE SessionsTyped'
  BY <1>14 DEF Fail, PCs, Replies
<1> QED
  BY <1>1, <1>2, <1>3, <1>4, <1>5, <1>6, <1>7, <1>8, <1>9, <1>10,
     <1>11, <1>12, <1>13, <1>14
     DEF Next, vars, UploadStep, Propose, Store, Clean, Insert, Undo, Settle, Kill, Browse, Serve,
         Decide, Rest

\* Every reachable state is well typed; in particular every session inside a transaction
\* has the row it was asked about.
THEOREM Typed == Spec => []TypeOK
<1>1. Init => TypeOK
  <2> SUFFICES ASSUME Init PROVE TypeOK
    OBVIOUS
  <2>1. VersionsTyped
    BY DEF Init, VersionsTyped, Statuses
  <2>2. UploadsTyped
    BY DEF Init, UploadsTyped, Places, Causes, Outcomes
  <2>3. SessionsTyped
    BY DEF Init, SessionsTyped, PCs, Goals, Replies, Statuses
  <2> QED
    BY <2>1, <2>2, <2>3 DEF TypeOK
<1>2. TypeOK /\ [Next]_vars => TypeOK'
  BY VersionsStep, UploadsStep, SessionsStep DEF TypeOK
<1> QED
  BY <1>1, <1>2, PTL DEF Spec

--------------------------------------------------------------------------------
(* The inductive invariant, part by part *)

LEMMA LockStep == TypeOK /\ LockIsHeld /\ [Next]_vars => LockIsHeld'
<1> SUFFICES ASSUME TypeOK, LockIsHeld, [Next]_vars PROVE LockIsHeld'
  OBVIOUS
<1> USE ConstantsAssumption DEF TypeOK, SessionsTyped, LockIsHeld
<1>1. CASE UNCHANGED sessions
  BY <1>1
<1>2. ASSUME NEW s \in Sessions, NEW g \in {"activate", "deactivate"}, NEW v \in Uploads,
             View(s, g, v)
      PROVE LockIsHeld'
  BY <1>2 DEF View
<1>3. ASSUME NEW s \in Sessions, Show(s) PROVE LockIsHeld'
  BY <1>3 DEF Show
<1>4. ASSUME NEW s \in Sessions, ViewGeneration(s) PROVE LockIsHeld'
  BY <1>4 DEF ViewGeneration
<1>5. ASSUME NEW s \in Sessions, Submit(s) PROVE LockIsHeld'
  BY <1>5 DEF Submit
<1>6. ASSUME NEW s \in Sessions, Misconfirm(s) PROVE LockIsHeld'
  BY <1>6 DEF Misconfirm
<1>7. ASSUME NEW s \in Sessions, Lock(s) PROVE LockIsHeld'
  BY <1>7 DEF Lock
<1>8. ASSUME NEW s \in Sessions, Read(s) PROVE LockIsHeld'
  BY <1>8 DEF Read
<1>9. ASSUME NEW s \in Sessions, Activate(s) PROVE LockIsHeld'
  BY <1>9 DEF Activate
<1>10. ASSUME NEW s \in Sessions, Deactivate(s) PROVE LockIsHeld'
  BY <1>10 DEF Deactivate
<1>11. ASSUME NEW s \in Sessions, Reserve(s) PROVE LockIsHeld'
  BY <1>11 DEF Reserve
<1>12. ASSUME NEW s \in Sessions, Conflict(s) PROVE LockIsHeld'
  BY <1>12 DEF Conflict
<1>13. ASSUME NEW s \in Sessions, Refuse(s) PROVE LockIsHeld'
  BY <1>13 DEF Refuse
<1>14. ASSUME NEW s \in Sessions, Fail(s) PROVE LockIsHeld'
  BY <1>14 DEF Fail
<1> QED
  BY <1>1, <1>2, <1>3, <1>4, <1>5, <1>6, <1>7, <1>8, <1>9, <1>10, <1>11, <1>12, <1>13, <1>14
     DEF Next, vars, UploadStep, Propose, Store, Clean, Insert, Undo, Settle, Kill, Browse, Serve,
         Decide, Rest

LEMMA KnowStep == TypeOK /\ SessionsKnow /\ [Next]_vars => SessionsKnow'
<1> SUFFICES ASSUME TypeOK, SessionsKnow, [Next]_vars PROVE SessionsKnow'
  OBVIOUS
<1> USE DEF TypeOK, SessionsTyped, SessionsKnow, Goals
<1>1. CASE UNCHANGED sessions
  BY <1>1
<1>2. ASSUME NEW s \in Sessions, NEW g \in {"activate", "deactivate"}, NEW v \in Uploads,
             View(s, g, v)
      PROVE SessionsKnow'
  BY <1>2 DEF View
<1>3. ASSUME NEW s \in Sessions, Show(s) PROVE SessionsKnow'
  BY <1>3 DEF Show
<1>4. ASSUME NEW s \in Sessions, ViewGeneration(s) PROVE SessionsKnow'
  BY <1>4 DEF ViewGeneration
<1>5. ASSUME NEW s \in Sessions, Submit(s) PROVE SessionsKnow'
  BY <1>5 DEF Submit
<1>6. ASSUME NEW s \in Sessions, Misconfirm(s) PROVE SessionsKnow'
  BY <1>6 DEF Misconfirm
<1>7. ASSUME NEW s \in Sessions, Lock(s) PROVE SessionsKnow'
  BY <1>7 DEF Lock
<1>8. ASSUME NEW s \in Sessions, Read(s) PROVE SessionsKnow'
  BY <1>8 DEF Read
<1>9. ASSUME NEW s \in Sessions, Activate(s) PROVE SessionsKnow'
  BY <1>9 DEF Activate
<1>10. ASSUME NEW s \in Sessions, Deactivate(s) PROVE SessionsKnow'
  BY <1>10 DEF Deactivate
<1>11. ASSUME NEW s \in Sessions, Reserve(s) PROVE SessionsKnow'
  BY <1>11 DEF Reserve
<1>12. ASSUME NEW s \in Sessions, Conflict(s) PROVE SessionsKnow'
  BY <1>12 DEF Conflict
<1>13. ASSUME NEW s \in Sessions, Refuse(s) PROVE SessionsKnow'
  BY <1>13 DEF Refuse
<1>14. ASSUME NEW s \in Sessions, Fail(s) PROVE SessionsKnow'
  BY <1>14 DEF Fail
<1> QED
  BY <1>1, <1>2, <1>3, <1>4, <1>5, <1>6, <1>7, <1>8, <1>9, <1>10, <1>11, <1>12, <1>13, <1>14
     DEF Next, vars, UploadStep, Propose, Store, Clean, Insert, Undo, Settle, Kill, Browse, Serve,
         Decide, Rest

\* A session that decides to change the active version knows exactly which one it is, and
\* which row it moves: the heart of the argument.
LEMMA DeciderKnows ==
  ASSUME TypeOK, TemplateInv, NEW s \in Sessions, pc[s] = "decide", Current(s)
  PROVE  /\ ActiveSet = {read[s].active} \ {NoVersion}
         /\ target[s] \in Uploads
         /\ goal[s] # "generate" => status[target[s]] = ExpectedState(goal[s])
<1>1. read[s].active \in ActiveIds
  BY DEF TemplateInv, DecisionsAreCurrent
<1>2. ActiveSet = {read[s].active} \ {NoVersion}
  <2>1. CASE ActiveSet = {}
    BY <1>1, <2>1 DEF ActiveIds
  <2>2. CASE ActiveSet # {}
    <3>1. read[s].active \in ActiveSet /\ read[s].active # NoVersion
      BY <1>1, <2>2, ConstantsAssumption DEF ActiveIds, ActiveSet
    <3> QED
      BY <3>1 DEF TemplateInv, OneActive
  <2> QED
    BY <2>1, <2>2
<1>3. target[s] \in Uploads
  BY DEF TypeOK, SessionsTyped
<1>4. goal[s] # "generate" => status[target[s]] = ExpectedState(goal[s])
  BY DEF TemplateInv, DecisionsAreCurrent, Current, ExpectedState
<1> QED
  BY <1>2, <1>3, <1>4

LEMMA RowsStep == TypeOK /\ TemplateInv /\ [Next]_vars => RowsFollowUploads'
<1> SUFFICES ASSUME TypeOK, TemplateInv, [Next]_vars PROVE RowsFollowUploads'
  OBVIOUS
<1> USE DEF TypeOK, UploadsTyped, VersionsTyped, TemplateInv, RowsFollowUploads
<1>1. CASE UNCHANGED <<status, at>>
  BY <1>1
<1>2. ASSUME NEW u \in Uploads, Propose(u) PROVE RowsFollowUploads'
  BY <1>2 DEF Propose
<1>3. ASSUME NEW u \in Uploads, Store(u) PROVE RowsFollowUploads'
  BY <1>3 DEF Store
<1>4. ASSUME NEW u \in Uploads, Clean(u) PROVE RowsFollowUploads'
  BY <1>4 DEF Clean
<1>5. ASSUME NEW u \in Uploads, Insert(u) PROVE RowsFollowUploads'
  BY <1>5 DEF Insert
<1>6. ASSUME NEW u \in Uploads, Undo(u) PROVE RowsFollowUploads'
  BY <1>6 DEF Undo
<1>7. ASSUME NEW u \in Uploads, Settle(u) PROVE RowsFollowUploads'
  BY <1>7 DEF Settle
<1>8. ASSUME NEW u \in Uploads, Kill(u) PROVE RowsFollowUploads'
  BY <1>8 DEF Kill, Uploading
<1>9. ASSUME NEW s \in Sessions, Activate(s) PROVE RowsFollowUploads'
  <2>1. ActiveSet = {read[s].active} \ {NoVersion} /\ status[target[s]] = "valid"
    BY <1>9, DeciderKnows DEF Activate, ExpectedState
  <2>2. \A v \in Uploads : status[v] \in {"absent", "uploaded"} => status'[v] = status[v]
    BY <1>9, <2>1, ConstantsAssumption DEF Activate, ActiveSet
  <2> QED
    BY <1>9, <2>2 DEF Activate
<1>10. ASSUME NEW s \in Sessions, Deactivate(s) PROVE RowsFollowUploads'
  <2>1. status[target[s]] = "active"
    BY <1>10, DeciderKnows DEF Deactivate, ExpectedState
  <2> QED
    BY <1>10, <2>1 DEF Deactivate
<1> QED
  BY <1>1, <1>2, <1>3, <1>4, <1>5, <1>6, <1>7, <1>8, <1>9, <1>10
     DEF Next, vars, UploadStep, Browse, View, Show, ViewGeneration, Submit, Misconfirm, Serve,
         Lock, Read, Decide, Reserve, Conflict, Refuse, Fail, Rest

\* No step of an upload touches the active version or a row that was decided on.
LEMMA UploadsLeaveActive ==
  ASSUME TypeOK, TemplateInv, NEW u \in Uploads, UploadStep(u) \/ Kill(u)
  PROVE  /\ ActiveSet' = ActiveSet
         /\ \A v \in Uploads : status[v] \in {"valid", "active"} => status'[v] = status[v]
         /\ UNCHANGED sessions
<1>1. CASE UNCHANGED status /\ UNCHANGED sessions
  BY <1>1 DEF ActiveSet
<1>2. ASSUME Insert(u) \/ Settle(u), status' # status
      PROVE  /\ status[u] \in {"absent", "uploaded"} /\ UNCHANGED sessions
             /\ \E x \in {"uploaded", "valid", "invalid"} : status' = [status EXCEPT ![u] = x]
  BY <1>2 DEF Insert, Settle, TemplateInv, RowsFollowUploads
<1>3. CASE (Insert(u) \/ Settle(u)) /\ status' # status
  BY <1>2, <1>3 DEF ActiveSet, TypeOK, VersionsTyped
<1> QED
  BY <1>1, <1>3 DEF UploadStep, Propose, Store, Clean, Insert, Undo, Settle, Kill

\* An activation leaves exactly the selected version active, a deactivation none.
LEMMA ActivationReplaces ==
  ASSUME TypeOK, TemplateInv, NEW s \in Sessions, Activate(s)
  PROVE  /\ ActiveSet' = {target[s]}
         /\ target[s] \in Uploads /\ status[target[s]] = "valid"
         /\ \A v \in Uploads : status'[v] = "inactive" <=> status[v] \in {"inactive", "active"}
<1>1. /\ ActiveSet = {read[s].active} \ {NoVersion}
      /\ target[s] \in Uploads /\ status[target[s]] = "valid"
  BY DeciderKnows DEF Activate, ExpectedState
<1>2. \A v \in Uploads : v \in ActiveSet <=> v = read[s].active
  BY <1>1, ConstantsAssumption
<1>3. \A v \in Uploads :
         status'[v] = CASE v = target[s] -> "active"
                        [] v = read[s].active -> "inactive"
                        [] OTHER -> status[v]
  BY DEF Activate
<1> QED
  BY <1>1, <1>2, <1>3 DEF ActiveSet

LEMMA DeactivationEmpties ==
  ASSUME TypeOK, TemplateInv, NEW s \in Sessions, Deactivate(s)
  PROVE  /\ ActiveSet = {target[s]} /\ ActiveSet' = {}
         /\ \A v \in Uploads : status'[v] = "inactive" <=> status[v] \in {"inactive", "active"}
<1>1. target[s] \in Uploads /\ status[target[s]] = "active"
  BY DeciderKnows DEF Deactivate, ExpectedState
<1>2. ActiveSet = {target[s]}
  BY <1>1 DEF ActiveSet, TemplateInv, OneActive
<1>3. status' = [status EXCEPT ![target[s]] = "inactive"]
  BY DEF Deactivate
<1> QED
  BY <1>1, <1>2, <1>3 DEF ActiveSet, TypeOK, VersionsTyped

LEMMA CurrentStep == TypeOK /\ TemplateInv /\ [Next]_vars => OneActive' /\ DecisionsAreCurrent'
<1> DEFINE Good == OneActive /\ DecisionsAreCurrent
<1> SUFFICES ASSUME TypeOK, TemplateInv, [Next]_vars PROVE Good'
  OBVIOUS
<1>a. Good
  BY DEF TemplateInv
<1>1. ASSUME NEW u \in Uploads, UploadStep(u) \/ Kill(u) PROVE Good'
  <2>1. /\ ActiveSet' = ActiveSet /\ ActiveIds' = ActiveIds
        /\ \A v \in Uploads : status[v] \in {"valid", "active"} => status'[v] = status[v]
        /\ UNCHANGED sessions
    BY <1>1, UploadsLeaveActive DEF ActiveIds
  <2> QED
    BY <1>a, <2>1 DEF OneActive, DecisionsAreCurrent, TypeOK, SessionsTyped
<1>2. CASE /\ UNCHANGED <<status, read>>
           /\ \A s \in Sessions : pc'[s] = "decide" => pc[s] = "decide" /\ target'[s] = target[s]
  BY <1>a, <1>2 DEF OneActive, DecisionsAreCurrent, ActiveSet, ActiveIds
<1>3. ASSUME NEW s \in Sessions,
             \/ \E g \in {"activate", "deactivate"}, v \in Uploads : View(s, g, v)
             \/ Show(s) \/ ViewGeneration(s) \/ Submit(s) \/ Misconfirm(s) \/ Lock(s)
             \/ Reserve(s) \/ Conflict(s) \/ Refuse(s) \/ Fail(s)
      PROVE  /\ UNCHANGED <<status, read>>
             /\ \A t \in Sessions : pc'[t] = "decide" => pc[t] = "decide" /\ target'[t] = target[t]
  BY <1>3 DEF View, Show, ViewGeneration, Submit, Misconfirm, Lock, Reserve, Conflict, Refuse,
              Fail, TypeOK, SessionsTyped
<1>4. ASSUME NEW s \in Sessions, Read(s) PROVE Good'
  <2>1. ActiveSet' = ActiveSet /\ ActiveIds' = ActiveIds /\ UNCHANGED <<status, target>>
    BY <1>4 DEF Read, ActiveSet, ActiveIds
  <2>2. PICK v \in ActiveIds :
           read' = [read EXCEPT ![s] = [status |-> status[target[s]], active |-> v]]
    BY <1>4 DEF Read
  <2>3. \A t \in Sessions : t # s => pc'[t] = pc[t] /\ read'[t] = read[t]
    BY <1>4, <2>2 DEF Read, TypeOK, SessionsTyped
  <2>4. read'[s].active \in ActiveIds /\ read'[s].status = status[target[s]]
    BY <2>2 DEF TypeOK, SessionsTyped
  <2> QED
    BY <1>a, <2>1, <2>3, <2>4 DEF OneActive, DecisionsAreCurrent
<1>5. ASSUME NEW s \in Sessions, Activate(s) \/ Deactivate(s) PROVE Good'
  <2>1. /\ ActiveSet = {read[s].active} \ {NoVersion}
        /\ target[s] \in Uploads
        /\ status[target[s]] = ExpectedState(goal[s])
    BY <1>5, DeciderKnows DEF Activate, Deactivate
  <2>2. \A t \in Sessions : pc'[t] # "decide"
    BY <1>5 DEF Activate, Deactivate, TypeOK, SessionsTyped, TemplateInv, LockIsHeld
  <2>3. ActiveSet' \in {{target[s]}, {}}
    <3>1. CASE Activate(s)
      BY <2>1, <3>1, ActivationReplaces
    <3>2. CASE Deactivate(s)
      BY <2>1, <3>2, DeactivationEmpties
    <3> QED
      BY <1>5, <3>1, <3>2
  <2> QED
    BY <2>2, <2>3 DEF OneActive, DecisionsAreCurrent
<1> QED
  BY <1>1, <1>2, <1>3, <1>4, <1>5 DEF Next, vars, Browse, Serve, Decide, Rest

LEMMA InvStep == TypeOK /\ TemplateInv /\ [Next]_vars => TemplateInv'
  BY LockStep, KnowStep, RowsStep, CurrentStep DEF TemplateInv

LEMMA Invariant == Spec => [](TypeOK /\ TemplateInv)
<1>1. Init => TemplateInv
  BY ConstantsAssumption
     DEF Init, TemplateInv, OneActive, DecisionsAreCurrent, LockIsHeld, SessionsKnow,
         RowsFollowUploads, ActiveSet, ActiveIds, Goals
<1> QED
  BY <1>1, Typed, InvStep, PTL DEF Spec

\* At most one version of the type is active: the advisory lock suffices, without the
\* partial unique index.
THEOREM AtMostOneActive == Spec => []OneActive
<1>1. TypeOK /\ TemplateInv => OneActive
  BY DEF TemplateInv
<1> QED
  BY <1>1, Invariant, PTL

\* What a transaction read under the lock is still true when it decides.
THEOREM ReadsStayCurrent == Spec => []DecisionsAreCurrent
<1>1. TypeOK /\ TemplateInv => DecisionsAreCurrent
  BY DEF TemplateInv
<1> QED
  BY <1>1, Invariant, PTL

--------------------------------------------------------------------------------
(* Nobody replaces a version their page did not show *)

LEMMA OnlyTransitionsChangeActive ==
  ASSUME TypeOK, TemplateInv, [Next]_vars, ActiveSet' # ActiveSet
  PROVE  \E s \in Sessions : Activate(s) \/ Deactivate(s)
<1>1. ASSUME NEW u \in Uploads, UploadStep(u) \/ Kill(u) PROVE FALSE
  BY <1>1, UploadsLeaveActive
<1>2. status' # status
  BY DEF ActiveSet
<1> QED
  BY <1>1, <1>2 DEF Next, vars, Browse, View, Show, ViewGeneration, Submit, Misconfirm, Serve,
     Lock, Read, Decide, Reserve, Conflict, Refuse, Fail, Rest

\* Whatever changes the active version is the decision of a session whose page showed the
\* version active at that moment: no transition is based on a stale page.
THEOREM NoUnseenChange == Spec => ChangesWereSeen
<1>1. TypeOK /\ TemplateInv /\ [Next]_vars => [OnlySeenVersionsChange]_vars
  <2> SUFFICES ASSUME TypeOK, TemplateInv, [Next]_vars, ActiveSet' # ActiveSet
               PROVE  \E s \in Sessions : /\ pc[s] = "decide" /\ pc'[s] # "decide"
                                          /\ ActiveIds = {shown[s]}
    BY DEF OnlySeenVersionsChange
  <2>1. PICK s \in Sessions : Activate(s) \/ Deactivate(s)
    BY OnlyTransitionsChangeActive
  <2>2. pc[s] = "decide" /\ Current(s) /\ pc'[s] # "decide"
    BY <2>1 DEF Activate, Deactivate, TypeOK, SessionsTyped
  <2>3. ActiveSet = {shown[s]} \ {NoVersion}
    BY <2>2, DeciderKnows DEF Current
  <2>4. ActiveIds = {shown[s]}
    BY <2>3 DEF ActiveIds
  <2> QED
    BY <2>2, <2>4
<1> QED
  BY <1>1, Invariant, PTL DEF Spec, ChangesWereSeen

--------------------------------------------------------------------------------
(* The versions of a type implement ActiveTemplate *)

Withdrawn == {v \in Uploads : status[v] = "inactive"}
Takings   == [s \in Sessions |-> {reserved[s]} \ {NoVersion}]

LEMMA UploadsStutter ==
  ASSUME TypeOK, TemplateInv, NEW u \in Uploads, UploadStep(u) \/ Kill(u)
  PROVE  ActiveSet' = ActiveSet /\ Withdrawn' = Withdrawn /\ Takings' = Takings
<1>1. ActiveSet' = ActiveSet /\ UNCHANGED sessions
  BY UploadsLeaveActive
<1>2. CASE UNCHANGED status
  BY <1>1, <1>2 DEF Withdrawn, Takings
<1>3. CASE status' # status
  <2>1. /\ status[u] \in {"absent", "uploaded"}
        /\ \E x \in {"uploaded", "valid", "invalid"} : status' = [status EXCEPT ![u] = x]
    BY <1>3 DEF UploadStep, Propose, Store, Clean, Insert, Undo, Settle, Kill, TemplateInv,
                RowsFollowUploads
  <2>2. Withdrawn' = Withdrawn
    BY <2>1 DEF Withdrawn, TypeOK, VersionsTyped
  <2> QED
    BY <1>1, <2>2 DEF Takings
<1> QED
  BY <1>2, <1>3

\* The sessions see the template versions of the type behave like one current version that
\* is replaced or withdrawn for good, and reservations take it while it is current.
THEOREM VersionsImplementActiveTemplate == Spec => ImplementsActiveTemplate
<1>1. Init => Promise!AInit
  BY DEF Init, Promise!AInit, ActiveSet
<1>2. TypeOK /\ TemplateInv /\ [Next]_vars => [Promise!ANext]_(Promise!avars)
  <2> SUFFICES ASSUME TypeOK, TemplateInv, [Next]_vars
               PROVE  Promise!ANext \/ UNCHANGED Promise!avars
    OBVIOUS
  <2> USE DEF Withdrawn, Takings
  <2>1. ASSUME NEW u \in Uploads, UploadStep(u) \/ Kill(u) PROVE UNCHANGED Promise!avars
    BY <2>1, UploadsStutter DEF Promise!avars
  <2>2. CASE UNCHANGED <<status, reserved>>
    BY <2>2 DEF Promise!avars, ActiveSet
  <2>3. ASSUME NEW s \in Sessions, Activate(s)
        PROVE  \E v \in Uploads : Promise!Succeed(v)
    <3>1. /\ ActiveSet' = {target[s]} /\ Takings' = Takings
          /\ target[s] \in Uploads /\ status[target[s]] = "valid"
      BY <2>3, ActivationReplaces DEF Activate
    <3>2. Withdrawn' = Withdrawn \cup ActiveSet
      BY <2>3, ActivationReplaces DEF ActiveSet
    <3> QED
      BY <3>1, <3>2 DEF Promise!Succeed, ActiveSet
  <2>4. ASSUME NEW s \in Sessions, Deactivate(s) PROVE Promise!Withdraw
    <3>1. ActiveSet # {} /\ ActiveSet' = {} /\ Takings' = Takings
      BY <2>4, DeactivationEmpties DEF Deactivate
    <3>2. Withdrawn' = Withdrawn \cup ActiveSet
      BY <2>4, DeactivationEmpties DEF ActiveSet
    <3> QED
      BY <3>1, <3>2 DEF Promise!Withdraw
  <2>5. ASSUME NEW s \in Sessions, Reserve(s) PROVE Promise!Take(s)
    <3>1. /\ pc[s] = "decide" /\ Current(s) /\ reserved[s] = NoVersion
          /\ shown[s] = target[s] /\ target[s] \in Uploads
      BY <2>5 DEF Reserve, TemplateInv, SessionsKnow, TypeOK, SessionsTyped
    <3>2. ActiveSet = {read[s].active} /\ read[s].active # NoVersion
      BY <3>1, DeciderKnows, ConstantsAssumption DEF Current
    <3>3. Takings' = [Takings EXCEPT ![s] = ActiveSet]
      <4>1. reserved' = [reserved EXCEPT ![s] = read[s].active]
        BY <2>5 DEF Reserve
      <4>2. \A t \in Sessions : {reserved'[t]} \ {NoVersion}
                                  = IF t = s THEN ActiveSet ELSE {reserved[t]} \ {NoVersion}
        BY <3>2, <4>1 DEF TypeOK, SessionsTyped
      <4> QED
        BY <4>2
    <3>4. ActiveSet' = ActiveSet /\ Withdrawn' = Withdrawn
      BY <2>5 DEF Reserve, ActiveSet
    <3>5. Takings[s] = {}
      BY <3>1
    <3> QED
      BY <3>2, <3>3, <3>4, <3>5 DEF Promise!Take
  <2>6. ASSUME NEW s \in Sessions,
               Browse(s) \/ Lock(s) \/ Read(s) \/ Conflict(s) \/ Refuse(s) \/ Fail(s)
        PROVE  UNCHANGED <<status, reserved>>
    BY <2>6 DEF Browse, View, Show, ViewGeneration, Submit, Misconfirm, Lock, Read, Conflict,
                Refuse, Fail
  <2>7. UNCHANGED vars => UNCHANGED <<status, reserved>>
    BY DEF vars
  <2>8. CASE \E u \in Uploads : UploadStep(u) \/ Kill(u)
    BY <2>1, <2>8
  <2>9. CASE \E s \in Sessions : Browse(s) \/ Serve(s) \/ Fail(s)
    BY <2>2, <2>3, <2>4, <2>5, <2>6, <2>9 DEF Serve, Decide, Promise!ANext
  <2> QED
    BY <2>2, <2>7, <2>8, <2>9 DEF Next, Rest
<1> QED
  BY <1>1, <1>2, Invariant, PTL DEF Spec, ImplementsActiveTemplate, Promise!ASpec

--------------------------------------------------------------------------------
(* Rows have their files, and files their explanation *)

\* Rows are inserted by their own uploads and stay.
LEMMA RowsStay ==
  ASSUME TypeOK, TemplateInv, [Next]_vars, NEW u \in Uploads
  PROVE  /\ status[u] # "absent" => status'[u] # "absent"
         /\ status[u] = "absent" /\ status'[u] # "absent" => Insert(u)
<1>1. CASE UNCHANGED status
  BY <1>1
<1>2. ASSUME NEW v \in Uploads, Insert(v) \/ Settle(v), status' # status
      PROVE  /\ \E x \in {"uploaded", "valid", "invalid"} : status' = [status EXCEPT ![v] = x]
             /\ status[v] = "absent" => Insert(v)
  BY <1>2 DEF Insert, Settle, TemplateInv, RowsFollowUploads
<1>3. ASSUME NEW s \in Sessions, Activate(s) PROVE status'[u] = "absent" <=> status[u] = "absent"
  <2>1. /\ ActiveSet = {read[s].active} \ {NoVersion}
        /\ target[s] \in Uploads /\ status[target[s]] = "valid"
    BY <1>3, DeciderKnows DEF Activate, ExpectedState
  <2>2. u = read[s].active => status[u] = "active"
    BY <2>1, ConstantsAssumption DEF ActiveSet
  <2>3. status'[u] = CASE u = target[s] -> "active"
                       [] u = read[s].active -> "inactive"
                       [] OTHER -> status[u]
    BY <1>3 DEF Activate
  <2> QED
    BY <2>1, <2>2, <2>3
<1>4. ASSUME NEW s \in Sessions, Deactivate(s)
      PROVE  status'[u] = "absent" <=> status[u] = "absent"
  <2>1. status[target[s]] = "active" /\ target[s] \in Uploads
    BY <1>4, DeciderKnows DEF Deactivate, ExpectedState
  <2> QED
    BY <1>4, <2>1 DEF Deactivate, TypeOK, VersionsTyped
<1>5. CASE \E v \in Uploads : Insert(v) \/ Settle(v)
  BY <1>1, <1>2, <1>5 DEF TypeOK, VersionsTyped
<1> QED
  BY <1>1, <1>3, <1>4, <1>5
     DEF Next, vars, UploadStep, Propose, Store, Clean, Undo, Kill, Browse, View, Show,
         ViewGeneration, Submit, Misconfirm, Serve, Lock, Read, Decide, Reserve, Conflict,
         Refuse, Fail, Rest

\* The invariant of the files, as one upload sees it.
FilesOf(u) == /\ at[u] \in {"idle", "store"} => u \notin stored
              /\ at[u] \in {"clean", "insert", "settle"} => u \in stored
              /\ status[u] # "absent" => u \in stored
              /\ u \in stored => \/ status[u] # "absent"
                                 \/ at[u] \in {"clean", "insert", "undo", "killed"}
                                 \/ told[u] = "error"

LEMMA FilesUndisturbed ==
  ASSUME NEW u \in Uploads, FilesOf(u), at'[u] = at[u], told'[u] = told[u],
         u \in stored' <=> u \in stored, status'[u] = "absent" <=> status[u] = "absent"
  PROVE  FilesOf(u)'
BY DEF FilesOf

LEMMA OwnFiles ==
  ASSUME TypeOK, TemplateInv, NEW u \in Uploads, UploadStep(u) \/ Kill(u), FilesOf(u)
  PROVE  FilesOf(u)'
<1> USE DEF FilesOf, TypeOK, UploadsTyped, VersionsTyped
<1>1. /\ at[u] \in {"idle", "store", "clean", "insert", "undo"} => status[u] = "absent"
      /\ at[u] = "settle" => status[u] = "uploaded"
  BY DEF TemplateInv, RowsFollowUploads
<1>2. CASE Propose(u)
  BY <1>1, <1>2 DEF Propose
<1>3. CASE Store(u)
  BY <1>1, <1>3 DEF Store
<1>4. CASE Clean(u)
  BY <1>1, <1>4 DEF Clean
<1>5. CASE Insert(u)
  BY <1>1, <1>5 DEF Insert
<1>6. CASE Undo(u)
  BY <1>1, <1>6 DEF Undo
<1>7. CASE Settle(u)
  BY <1>1, <1>7 DEF Settle
<1>8. CASE Kill(u)
  BY <1>1, <1>8 DEF Kill, Uploading
<1> QED
  BY <1>2, <1>3, <1>4, <1>5, <1>6, <1>7, <1>8 DEF UploadStep

LEMMA OtherFiles ==
  ASSUME TypeOK, TemplateInv, NEW u \in Uploads, NEW v \in Uploads \ {u},
         UploadStep(v) \/ Kill(v)
  PROVE  /\ at'[u] = at[u] /\ told'[u] = told[u]
         /\ u \in stored' <=> u \in stored
         /\ status'[u] = status[u]
BY DEF UploadStep, Propose, Store, Clean, Insert, Undo, Settle, Kill, TypeOK, UploadsTyped,
       VersionsTyped

LEMMA FilesStep ==
  ASSUME TypeOK, TypeOK', TemplateInv, FilesInv, [Next]_vars PROVE FilesInv'
<1>1. SUFFICES ASSUME NEW u \in Uploads PROVE FilesOf(u)'
  BY DEF FilesInv, FilesOf, FilesFollowUploads, TemplateHasFile, OrphanUploadIsExplained,
         TypeOK, UploadsTyped
<1>2. FilesOf(u)
  BY DEF FilesInv, FilesOf, FilesFollowUploads, TemplateHasFile, OrphanUploadIsExplained
<1>3. ASSUME NEW v \in Uploads, UploadStep(v) \/ Kill(v) PROVE FilesOf(u)'
  <2>1. CASE v = u
    BY <1>2, <1>3, <2>1, OwnFiles
  <2>2. CASE v # u
    BY <1>2, <1>3, <2>2, OtherFiles, FilesUndisturbed
  <2> QED
    BY <2>1, <2>2
<1>4. CASE UNCHANGED uploads
  <2>1. ~Insert(u)
    BY <1>4 DEF Insert, TypeOK, UploadsTyped
  <2>2. status'[u] = "absent" <=> status[u] = "absent"
    BY <2>1, RowsStay
  <2> QED
    BY <1>2, <1>4, <2>2, FilesUndisturbed
<1> QED
  BY <1>3, <1>4
     DEF Next, vars, Browse, View, Show, ViewGeneration, Submit, Misconfirm, Serve, Lock, Read,
         Decide, Activate, Deactivate, Reserve, Conflict, Refuse, Fail, Rest

LEMMA FilesInvariant == Spec => []FilesInv
<1>1. Init => FilesInv
  BY DEF Init, FilesInv, FilesFollowUploads, TemplateHasFile, OrphanUploadIsExplained
<1> QED
  BY <1>1, Invariant, FilesStep, PTL DEF Spec

\* Whatever fails, in whatever order: the cleanup of an upload never takes the file of a
\* committed row (_store_template, _cleanup_upload).
THEOREM RowsHaveFiles == Spec => []TemplateHasFile
BY FilesInvariant, PTL DEF FilesInv

\* A file without a row belongs to an upload at work, to a killed one, or to one that ended
\* with an error.
THEOREM OrphansAreExplained == Spec => []OrphanUploadIsExplained
BY FilesInvariant, PTL DEF FilesInv

--------------------------------------------------------------------------------
(* The audit trail *)

\* A change of the status of u and its event, one at a time.
LEMMA StatusSteps ==
  ASSUME TypeOK, TemplateInv, [Next]_vars, NEW u \in Uploads
  PROVE  \/ status'[u] = status[u] /\ trail'[u] = trail[u] /\ activatedBy'[u] = activatedBy[u]
         \/ /\ status[u] = "absent" /\ status'[u] = "uploaded"
            /\ trail'[u] = Append(trail[u], "uploaded") /\ activatedBy'[u] = activatedBy[u]
         \/ \E x \in {"valid", "invalid"} :
               /\ status[u] = "uploaded" /\ status'[u] = x
               /\ trail'[u] = Append(trail[u], x) /\ activatedBy'[u] = activatedBy[u]
         \/ \E s \in Sessions :
               /\ Activate(s) /\ target[s] = u
               /\ status[u] = "valid" /\ status'[u] = "active"
               /\ trail'[u] = Append(trail[u], "activated") /\ activatedBy'[u] = s
         \/ /\ status[u] = "active" /\ status'[u] = "inactive"
            /\ trail'[u] = Append(trail[u], "deactivated") /\ activatedBy'[u] = activatedBy[u]
<1> USE DEF TypeOK, VersionsTyped
<1>1. CASE UNCHANGED versions
  BY <1>1
<1>2. ASSUME NEW v \in Uploads, Insert(v) \/ Settle(v), ~UNCHANGED versions
      PROVE  /\ activatedBy' = activatedBy
             /\ \/ /\ status[v] = "absent" /\ status' = [status EXCEPT ![v] = "uploaded"]
                   /\ Record(v, "uploaded")
                \/ \E x \in {"valid", "invalid"} :
                      /\ status[v] = "uploaded" /\ status' = [status EXCEPT ![v] = x]
                      /\ Record(v, x)
  BY <1>2 DEF Insert, Settle, TemplateInv, RowsFollowUploads
<1>3. CASE \E v \in Uploads : Insert(v) \/ Settle(v)
  BY <1>1, <1>2, <1>3 DEF Record
<1>4. ASSUME NEW s \in Sessions, Activate(s)
      PROVE  /\ u = target[s] => /\ status[u] = "valid" /\ status'[u] = "active"
                                 /\ trail'[u] = Append(trail[u], "activated")
                                 /\ activatedBy'[u] = s
             /\ u # target[s] => activatedBy'[u] = activatedBy[u]
             /\ u # target[s] /\ u = read[s].active =>
                   /\ status[u] = "active" /\ status'[u] = "inactive"
                   /\ trail'[u] = Append(trail[u], "deactivated")
             /\ u # target[s] /\ u # read[s].active =>
                   status'[u] = status[u] /\ trail'[u] = trail[u]
  <2>1. /\ ActiveSet = {read[s].active} \ {NoVersion}
        /\ target[s] \in Uploads /\ status[target[s]] = "valid"
    BY <1>4, DeciderKnows DEF Activate, ExpectedState
  <2>2. u = read[s].active => status[u] = "active"
    BY <2>1, ConstantsAssumption DEF ActiveSet
  <2>3. /\ status'[u] = CASE u = target[s] -> "active"
                          [] u = read[s].active -> "inactive"
                          [] OTHER -> status[u]
        /\ trail'[u] = CASE u = target[s] -> Append(trail[u], "activated")
                         [] u = read[s].active -> Append(trail[u], "deactivated")
                         [] OTHER -> trail[u]
        /\ activatedBy' = [activatedBy EXCEPT ![target[s]] = s]
    BY <1>4 DEF Activate
  <2> QED
    BY <2>1, <2>2, <2>3
<1>5. ASSUME NEW s \in Sessions, Deactivate(s)
      PROVE  /\ u = target[s] => /\ status[u] = "active" /\ status'[u] = "inactive"
                                 /\ trail'[u] = Append(trail[u], "deactivated")
             /\ u # target[s] => status'[u] = status[u] /\ trail'[u] = trail[u]
             /\ activatedBy' = activatedBy
  <2>1. status[target[s]] = "active" /\ target[s] \in Uploads
    BY <1>5, DeciderKnows DEF Deactivate, ExpectedState
  <2> QED
    BY <1>5, <2>1 DEF Deactivate, Record
<1>6. CASE \E s \in Sessions : Activate(s)
  BY <1>4, <1>6
<1>7. CASE \E s \in Sessions : Deactivate(s)
  BY <1>5, <1>7
<1> QED
  BY <1>1, <1>3, <1>6, <1>7
     DEF Next, vars, UploadStep, Propose, Store, Clean, Undo, Kill, Browse, View, Show,
         ViewGeneration, Submit, Misconfirm, Serve, Lock, Read, Decide, Reserve, Conflict,
         Refuse, Fail, Rest

LEMMA AppendIs ==
  ASSUME NEW s \in Seq(Events), NEW e \in Events, NEW t \in Seq(Events),
         Len(t) = Len(s) + 1, \A i \in 1..Len(s) : t[i] = s[i], t[Len(s) + 1] = e
  PROVE  Append(s, e) = t
<1>1. /\ Append(s, e) \in Seq(Events) /\ Len(Append(s, e)) = Len(s) + 1
      /\ Append(s, e)[Len(s) + 1] = e
      /\ \A i \in 1..Len(s) : Append(s, e)[i] = s[i]
  BY AppendProperties
<1>2. Len(s) \in Nat
  OBVIOUS
<1>3. \A i \in 1..Len(t) : Append(s, e)[i] = t[i]
  BY <1>1, <1>2
<1> QED
  BY <1>1, <1>3, SeqEqual

LEMMA Paths == /\ Append(PathTo("absent"), "uploaded") = PathTo("uploaded")
               /\ \A x \in {"valid", "invalid"} : Append(PathTo("uploaded"), x) = PathTo(x)
               /\ Append(PathTo("valid"), "activated") = PathTo("active")
               /\ Append(PathTo("active"), "deactivated") = PathTo("inactive")
<1>1. /\ PathTo("absent") = <<>>
      /\ PathTo("uploaded") = <<"uploaded">>
      /\ PathTo("valid") = <<"uploaded", "valid">>
      /\ PathTo("invalid") = <<"uploaded", "invalid">>
      /\ PathTo("active") = <<"uploaded", "valid", "activated">>
      /\ PathTo("inactive") = <<"uploaded", "valid", "activated", "deactivated">>
  BY DEF PathTo
<1>2. Append(<<>>, "uploaded") = <<"uploaded">>
  OBVIOUS
<1>3. ASSUME NEW x \in {"valid", "invalid"} PROVE Append(<<"uploaded">>, x) = <<"uploaded", x>>
  <2> DEFINE s == <<"uploaded">>
             t == <<"uploaded", x>>
  <2>1. s \in Seq(Events) /\ t \in Seq(Events) /\ x \in Events
    BY DEF Events
  <2>2. Len(s) = 1 /\ Len(t) = 2 /\ t[2] = x
    OBVIOUS
  <2>3. t[1] = s[1]
    OBVIOUS
  <2> HIDE DEF s, t
  <2>4. \A i \in 1..Len(s) : t[i] = s[i]
    BY <2>2, <2>3
  <2>5. Len(t) = Len(s) + 1 /\ t[Len(s) + 1] = x
    BY <2>2
  <2>6. Append(s, x) = t
    BY <2>1, <2>4, <2>5, AppendIs
  <2> QED
    BY <2>6 DEF s, t
<1>4. Append(<<"uploaded", "valid">>, "activated") = <<"uploaded", "valid", "activated">>
  <2> DEFINE s == <<"uploaded", "valid">>
             t == <<"uploaded", "valid", "activated">>
  <2>1. s \in Seq(Events) /\ t \in Seq(Events) /\ "activated" \in Events
    BY DEF Events
  <2>2. Len(s) = 2 /\ Len(t) = 3 /\ t[3] = "activated"
    OBVIOUS
  <2>3. t[1] = s[1] /\ t[2] = s[2]
    OBVIOUS
  <2> HIDE DEF s, t
  <2>4. \A i \in 1..Len(s) : t[i] = s[i]
    BY <2>2, <2>3
  <2>5. Len(t) = Len(s) + 1 /\ t[Len(s) + 1] = "activated"
    BY <2>2
  <2>6. Append(s, "activated") = t
    BY <2>1, <2>4, <2>5, AppendIs
  <2> QED
    BY <2>6 DEF s, t
<1>5. Append(<<"uploaded", "valid", "activated">>, "deactivated")
         = <<"uploaded", "valid", "activated", "deactivated">>
  <2> DEFINE s == <<"uploaded", "valid", "activated">>
             t == <<"uploaded", "valid", "activated", "deactivated">>
  <2>1. s \in Seq(Events) /\ t \in Seq(Events) /\ "deactivated" \in Events
    BY DEF Events
  <2>2. Len(s) = 3 /\ Len(t) = 4 /\ t[4] = "deactivated"
    OBVIOUS
  <2>3. t[1] = s[1] /\ t[2] = s[2] /\ t[3] = s[3]
    OBVIOUS
  <2> HIDE DEF s, t
  <2>4. \A i \in 1..Len(s) : t[i] = s[i]
    BY <2>2, <2>3
  <2>5. Len(t) = Len(s) + 1 /\ t[Len(s) + 1] = "deactivated"
    BY <2>2
  <2>6. Append(s, "deactivated") = t
    BY <2>1, <2>4, <2>5, AppendIs
  <2> QED
    BY <2>6 DEF s, t
<1> QED
  BY <1>1, <1>2, <1>3, <1>4, <1>5

LEMMA TrailStep ==
  ASSUME TypeOK, TemplateInv, TrailMatchesStatus, [Next]_vars PROVE TrailMatchesStatus'
<1>1. SUFFICES ASSUME NEW u \in Uploads
               PROVE  /\ trail'[u] = PathTo(status'[u])
                      /\ status'[u] \in {"active", "inactive"} <=> activatedBy'[u] # Nobody
  BY DEF TrailMatchesStatus
<1>2. /\ trail[u] = PathTo(status[u])
      /\ status[u] \in {"active", "inactive"} <=> activatedBy[u] # Nobody
  BY DEF TrailMatchesStatus
<1>3. trail'[u] = PathTo(status'[u])
  BY <1>2, StatusSteps, Paths
<1>4. status'[u] \in {"active", "inactive"} <=> activatedBy'[u] # Nobody
  BY <1>2, StatusSteps, ConstantsAssumption
<1> QED
  BY <1>3, <1>4

\* For any number of uploads and sessions the audit trail of a version is the path to its
\* status (record_audit_event inside every transition), and who activated it stays recorded.
THEOREM TrailsTell == Spec => []TrailMatchesStatus
<1>1. PathTo("absent") = <<>>
  BY DEF PathTo
<1>2. Init => TrailMatchesStatus
  <2> SUFFICES ASSUME Init, NEW u \in Uploads
               PROVE  /\ trail[u] = PathTo(status[u])
                      /\ status[u] \in {"active", "inactive"} <=> activatedBy[u] # Nobody
    BY DEF TrailMatchesStatus
  <2>1. trail[u] = <<>> /\ status[u] = "absent" /\ activatedBy[u] = Nobody
    BY DEF Init
  <2> QED
    BY <1>1, <2>1
<1> QED
  BY <1>2, Invariant, TrailStep, PTL DEF Spec

--------------------------------------------------------------------------------
(* Replies *)

\* The invariant of the replies, as one session sees it.
ReplyOf(s) ==
    /\ pc[s] # "done" => reply[s] = "none" /\ \A v \in Uploads : activatedBy[v] # s
    /\ reply[s] = "done" =>
          /\ goal[s] \in Goals /\ target[s] \in Uploads
          /\ goal[s] = "activate" => /\ status[target[s]] \in {"active", "inactive"}
                                     /\ activatedBy[target[s]] = s
          /\ goal[s] = "deactivate" => status[target[s]] = "inactive"
          /\ goal[s] = "generate" => reserved[s] = target[s]
    /\ reply[s] \in {"stale", "rejected", "conflict"} =>
          /\ \A v \in Uploads : activatedBy[v] # s
          /\ reserved[s] = NoVersion
          /\ reply[s] = "conflict" /\ goal[s] # "generate" => s \in denied

LEMMA RepliesPerSession == RepliesInv <=> \A s \in Sessions : ReplyOf(s)
BY DEF RepliesInv, AnswersFollowSessions, RepliesAreTrue, ReplyOf, Goals

\* Nobody else's step takes back what a session was told.
LEMMA ToldForGood ==
  ASSUME TypeOK, TemplateInv, [Next]_vars, NEW s \in Sessions, ReplyOf(s), ~Activate(s),
         pc'[s] = pc[s], reply'[s] = reply[s], goal'[s] = goal[s], target'[s] = target[s],
         reserved'[s] = reserved[s], denied \subseteq denied'
  PROVE  ReplyOf(s)'
<1>1. \A u \in Uploads : /\ activatedBy[u] # s => activatedBy'[u] # s
                         /\ status[u] \in {"active", "inactive"} =>
                               /\ status'[u] \in {"active", "inactive"}
                               /\ activatedBy'[u] = activatedBy[u]
                         /\ status[u] = "inactive" => status'[u] = "inactive"
  BY StatusSteps
<1> QED
  BY <1>1 DEF ReplyOf

LEMMA OwnReply ==
  ASSUME TypeOK, TemplateInv, NEW s \in Sessions, Browse(s) \/ Serve(s) \/ Fail(s), ReplyOf(s)
  PROVE  ReplyOf(s)'
<1> USE DEF TypeOK, SessionsTyped, ReplyOf
<1>1. pc[s] # "done" => reserved[s] = NoVersion
  BY DEF TemplateInv, SessionsKnow
<1>2. CASE \E g \in {"activate", "deactivate"}, v \in Uploads : View(s, g, v)
  BY <1>1, <1>2 DEF View
<1>3. CASE Show(s)
  BY <1>1, <1>3 DEF Show
<1>4. CASE ViewGeneration(s)
  BY <1>1, <1>4 DEF ViewGeneration
<1>5. CASE Submit(s)
  BY <1>1, <1>5 DEF Submit
<1>6. CASE Misconfirm(s)
  BY <1>1, <1>6 DEF Misconfirm
<1>7. CASE Lock(s)
  BY <1>1, <1>7 DEF Lock
<1>8. CASE Read(s)
  BY <1>1, <1>8 DEF Read
<1>9. CASE Activate(s)
  <2>1. target[s] \in Uploads
    BY <1>9 DEF Activate
  <2>2. status'[target[s]] = CASE target[s] = target[s] -> "active"
                                [] target[s] = read[s].active -> "inactive"
                                [] OTHER -> status[target[s]]
    BY <1>9, <2>1 DEF Activate
  <2>3. activatedBy'[target[s]] = s
    BY <1>9, <2>1 DEF Activate, VersionsTyped
  <2>4. /\ reply'[s] \in {"done", "error"} /\ pc'[s] = "done" /\ goal'[s] = "activate"
        /\ target'[s] = target[s]
    BY <1>9 DEF Activate
  <2> QED
    BY <2>1, <2>2, <2>3, <2>4 DEF Goals
<1>10. CASE Deactivate(s)
  <2>1. target[s] \in Uploads /\ status'[target[s]] = "inactive"
    BY <1>10, DeciderKnows DEF Deactivate, VersionsTyped
  <2>2. /\ reply'[s] \in {"done", "error"} /\ pc'[s] = "done" /\ goal'[s] = "deactivate"
        /\ target'[s] = target[s]
    BY <1>10 DEF Deactivate
  <2> QED
    BY <2>1, <2>2 DEF Goals
<1>11. CASE Reserve(s)
  <2>1. read[s].active = target[s] /\ target[s] \in Uploads
    BY <1>11 DEF Reserve, Current, TemplateInv, SessionsKnow
  <2>2. /\ reply'[s] \in {"done", "error"} /\ pc'[s] = "done" /\ goal'[s] = "generate"
        /\ target'[s] = target[s] /\ reserved'[s] = read[s].active
    BY <1>11 DEF Reserve
  <2> QED
    BY <2>1, <2>2 DEF Goals
<1>12. CASE Conflict(s)
  BY <1>1, <1>12 DEF Conflict
<1>13. CASE Refuse(s)
  BY <1>1, <1>13 DEF Refuse
<1>14. CASE Fail(s)
  BY <1>1, <1>14 DEF Fail
<1> QED
  BY <1>2, <1>3, <1>4, <1>5, <1>6, <1>7, <1>8, <1>9, <1>10, <1>11, <1>12, <1>13, <1>14
     DEF Browse, Serve, Decide

LEMMA RepliesStep ==
  ASSUME TypeOK, TemplateInv, RepliesInv, [Next]_vars PROVE RepliesInv'
<1>1. SUFFICES ASSUME NEW s \in Sessions PROVE ReplyOf(s)'
  BY DEF RepliesInv, AnswersFollowSessions, RepliesAreTrue, ReplyOf, Goals
<1>2. ReplyOf(s)
  BY RepliesPerSession
<1>3. CASE Browse(s) \/ Serve(s) \/ Fail(s)
  BY <1>2, <1>3, OwnReply
<1>4. CASE UNCHANGED sessions
  <2>1. ~Activate(s)
    BY <1>4 DEF Activate, TypeOK, SessionsTyped
  <2> QED
    BY <1>2, <1>4, <2>1, ToldForGood
<1>5. ASSUME NEW t \in Sessions \ {s}, Browse(t) \/ Serve(t) \/ Fail(t) PROVE ReplyOf(s)'
  <2>1. /\ pc'[s] = pc[s] /\ reply'[s] = reply[s] /\ goal'[s] = goal[s]
        /\ target'[s] = target[s] /\ reserved'[s] = reserved[s] /\ denied \subseteq denied'
    BY <1>5 DEF Browse, View, Show, ViewGeneration, Submit, Misconfirm, Serve, Lock, Read,
                Decide, Activate, Deactivate, Reserve, Conflict, Refuse, Fail, TypeOK,
                SessionsTyped
  <2>2. ~Activate(s)
    BY <2>1 DEF Activate, TypeOK, SessionsTyped
  <2> QED
    BY <1>2, <2>1, <2>2, ToldForGood
<1> QED
  BY <1>3, <1>4, <1>5
     DEF Next, vars, UploadStep, Propose, Store, Clean, Insert, Undo, Settle, Kill, Rest

\* What a session was told of its confirmation stays true, whatever others do afterwards: a
\* success took effect under its name, a refusal changed nothing and is on record.
THEOREM RepliesStayTrue == Spec => []RepliesAreTrue
<1>1. Init => RepliesInv
  BY ConstantsAssumption DEF Init, RepliesInv, AnswersFollowSessions, RepliesAreTrue
<1>2. RepliesInv => RepliesAreTrue
  BY DEF RepliesInv
<1> QED
  BY <1>1, <1>2, Invariant, RepliesStep, PTL DEF Spec
=================================================================================
