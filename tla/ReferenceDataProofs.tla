--------------------------- MODULE ReferenceDataProofs ---------------------------
(* Proofs about ReferenceData. *)
EXTENDS ReferenceData, TLAPS

USE DEF Go, Answer, committed, Target, Form

--------------------------------------------------------------------------------
(* Type correctness *)

LEMMA RowTyped ==
  ASSUME NEW st \in {"absent", "active", "inactive"}, NEW f \in Forms
  PROVE  /\ RowOf(st, f) \in Rows
         /\ RowOf(st, f).status = st /\ RowOf(st, f).links = f.links
BY DEF RowOf, Rows, Forms

LEMMA BlankTyped == Blank \in Forms /\ Absent \in Rows
BY DEF Blank, Absent, Forms, Rows, Kinds

LEMMA SavedTyped ==
  ASSUME TypeOK, NEW s \in Sessions, pc[s] # "idle"
  PROVE  /\ Saved(s) \in Rows
         /\ Saved(s).links = Form(s).links
         /\ ask[s].op = "create" => Saved(s).status = "active"
         /\ ask[s].op # "create" => Saved(s).status = loaded[s].status
<1>1. ask[s].form \in Forms /\ loaded[s].status \in {"absent", "active", "inactive"}
  BY DEF TypeOK, Asks, Rows
<1> DEFINE st == IF ask[s].op = "create" THEN "active" ELSE loaded[s].status
<1>2. st \in {"absent", "active", "inactive"}
  BY <1>1
<1>3. Saved(s) = RowOf(st, ask[s].form)
  BY DEF Saved
<1> QED
  BY <1>1, <1>2, <1>3, RowTyped

LEMMA EventTyped ==
  ASSUME TypeOK, NEW s \in Sessions, pc[s] # "idle"
  PROVE  /\ Event(s) \in Seq(Events) /\ Len(Event(s)) = 1 /\ Event(s)[1].by = s
         /\ audit \o Event(s) \in Seq(Events)
         /\ Len(audit \o Event(s)) = Len(audit) + 1
         /\ (audit \o Event(s))[Len(audit) + 1].by = s
<1> DEFINE e == [action |-> ask[s].op, target |-> Target(s), by |-> s]
<1>1. e \in Events
  BY DEF TypeOK, Events
<1>2. Event(s) = <<e>>
  BY DEF Event
<1>3. audit \in Seq(Events)
  BY DEF TypeOK
<1>4. e.by = s
  OBVIOUS
<1> HIDE DEF e
<1> QED
  BY <1>1, <1>2, <1>3, <1>4

LEMMA WrittenTyped ==
  ASSUME TypeOK, NEW s \in Sessions, pc[s] # "idle"
  PROVE  audit \o Written(s) \in Seq(Events)
<1>1. CASE Written(s) = Event(s)
  BY <1>1, EventTyped
<1>2. CASE Written(s) = <<>>
  BY <1>2 DEF TypeOK
<1> QED
  BY <1>1, <1>2 DEF Written

LEMMA TypedStep == TypeOK /\ [Next]_vars => TypeOK'
<1> SUFFICES ASSUME TypeOK, [Next]_vars PROVE TypeOK'
  OBVIOUS
<1>1. CASE UNCHANGED vars
  BY <1>1 DEF TypeOK, vars
<1>2. ASSUME NEW s \in Sessions, NEW op \in Ops, NEW r \in Records, NEW f \in Forms,
             Post(s, op, r, f)
      PROVE TypeOK'
  <2>1. [op |-> op, target |-> r, form |-> f] \in Asks
    BY DEF Asks
  <2> QED
    BY <1>2, <2>1 DEF Post, TypeOK, PCs
<1>3. ASSUME NEW s \in Sessions, Screen(s) PROVE TypeOK'
  BY <1>3 DEF Screen, TypeOK, PCs, Replies
<1>4. ASSUME NEW s \in Sessions, Load(s) PROVE TypeOK'
  BY <1>4 DEF Load, TypeOK, PCs
<1>5. ASSUME NEW s \in Sessions, Check(s) PROVE TypeOK'
  BY <1>5 DEF Check, TypeOK, PCs, Replies
<1>6. ASSUME NEW s \in Sessions, Write(s) PROVE TypeOK'
  <2>1. pc[s] # "idle" /\ Target(s) \in Records
    BY <1>6 DEF Write, TypeOK
  <2>2. [refs EXCEPT ![Target(s)] = Saved(s)] \in [Records -> Rows]
    BY <2>1, SavedTyped DEF TypeOK
  <2>3. refs' \in [Records -> Rows] /\ audit' \in Seq(Events) /\ overtaken' \subseteq Sessions
    BY <1>6, <2>1, <2>2, WrittenTyped DEF Write, Commit, TypeOK
  <2> QED
    BY <1>6, <2>1, <2>3 DEF Write, TypeOK, PCs, Replies
<1>7. ASSUME NEW s \in Sessions, Lock(s) PROVE TypeOK'
  BY <1>7 DEF Lock, TypeOK, PCs, Replies
<1>8. ASSUME NEW s \in Sessions, Deactivate(s) PROVE TypeOK'
  <2>1. pc[s] # "idle"
    BY <1>8 DEF Deactivate
  <2>2. \A q \in Records : Withdrawn(refs[q]) \in Rows
    BY DEF TypeOK, Rows, Withdrawn
  <2>3. refs' \in [Records -> Rows]
    BY <1>8, <2>2 DEF Deactivate, Commit, TypeOK
  <2>4. audit' \in Seq(Events) /\ overtaken' \subseteq Sessions
    BY <1>8, <2>1, EventTyped DEF Deactivate, Commit, TypeOK
  <2> QED
    BY <1>8, <2>3, <2>4 DEF Deactivate, TypeOK, PCs, Replies
<1>9. ASSUME NEW s \in Sessions, Fail(s) PROVE TypeOK'
  BY <1>9 DEF Fail, TypeOK, PCs, Replies
<1> QED
  BY <1>1, <1>2, <1>3, <1>4, <1>5, <1>6, <1>7, <1>8, <1>9 DEF Next, Request, Serve, Rest

LEMMA TypedInit == Init => TypeOK
<1> SUFFICES ASSUME Init PROVE TypeOK
  OBVIOUS
<1>1. ASSUME NEW r \in Records PROVE Earlier(r) \subseteq Rows
  BY RowTyped, BlankTyped DEF Earlier
<1>2. refs \in [Records -> Rows]
  BY <1>1 DEF Init
<1>3. [op |-> "none", target |-> Nobody, form |-> Blank] \in Asks
  BY BlankTyped DEF Asks
<1>4. audit \in Seq(Events)
  BY DEF Init
<1> QED
  BY <1>2, <1>3, <1>4, BlankTyped DEF Init, TypeOK, PCs, Replies

\* Every reachable state of the tables and their requests is well typed.
THEOREM Typed == Spec => []TypeOK
  BY TypedInit, TypedStep, PTL DEF Spec

--------------------------------------------------------------------------------
(* The inductive invariant *)

\* What a step of s leaves alone.
Aside(s) == /\ \A t \in Sessions \ {s} : /\ pc'[t] = pc[t] /\ ask'[t] = ask[t]
                                         /\ loaded'[t] = loaded[t]
            /\ \A t \in Sessions : pc[t] # "idle" => ask'[t] = ask[t]

LEMMA StepsAside ==
  ASSUME TypeOK, NEW s \in Sessions, Request(s) \/ Serve(s) \/ Fail(s)
  PROVE  Aside(s)
<1>1. ASSUME NEW op \in Ops, NEW r \in Records, NEW f \in Forms, Post(s, op, r, f)
      PROVE Aside(s)
  BY <1>1 DEF Post, TypeOK, Aside
<1>2. CASE Screen(s)
  BY <1>2 DEF Screen, TypeOK, Aside
<1>3. CASE Load(s)
  BY <1>3 DEF Load, TypeOK, Aside
<1>4. CASE Check(s)
  BY <1>4 DEF Check, TypeOK, Aside
<1>5. CASE Write(s)
  BY <1>5 DEF Write, TypeOK, Aside
<1>6. CASE Lock(s)
  BY <1>6 DEF Lock, TypeOK, Aside
<1>7. CASE Deactivate(s)
  BY <1>7 DEF Deactivate, TypeOK, Aside
<1>8. CASE Fail(s)
  BY <1>8 DEF Fail, TypeOK, Aside
<1> QED
  BY <1>1, <1>2, <1>3, <1>4, <1>5, <1>6, <1>7, <1>8 DEF Request, Serve

\* The tables after Write: one row, of a status that tells whether there is such a record.
LEMMA WriteChanges ==
  ASSUME TypeOK, RequestsFit, NEW s \in Sessions, Write(s)
  PROVE  /\ pc'[s] = "done" /\ Target(s) \in Records /\ ~Locked(Target(s))
         /\ ask[s].op # "deactivate" /\ Complete(Target(s), Form(s))
         /\ \/ UNCHANGED <<refs, audit, overtaken>>
            \/ /\ refs' = [refs EXCEPT ![Target(s)] = Saved(s)]
               /\ audit' = audit \o Written(s)
               /\ overtaken' = overtaken \cup (Sessions \ {s})
         /\ \A r \in Records : r # Target(s) => refs'[r] = refs[r]
         /\ \/ refs'[Target(s)] = refs[Target(s)]
            \/ refs'[Target(s)] = Saved(s) /\ Saved(s).status # "absent"
<1>1. /\ pc[s] = "write" /\ pc[s] # "idle"
  BY DEF Write
<1>2. /\ ask[s].op # "deactivate" /\ Complete(Target(s), Form(s)) /\ Target(s) \in Records
      /\ ask[s].op # "create" => loaded[s].status # "absent"
  BY <1>1 DEF RequestsFit, TypeOK
<1>3. Saved(s).status # "absent"
  BY <1>1, <1>2, SavedTyped
<1>4. ~Locked(Target(s)) /\ pc'[s] = "done"
  BY DEF Write, TypeOK
<1>5. \/ UNCHANGED <<refs, audit, overtaken>>
      \/ /\ refs' = [refs EXCEPT ![Target(s)] = Saved(s)]
         /\ audit' = audit \o Written(s)
         /\ overtaken' = overtaken \cup (Sessions \ {s})
  BY DEF Write, Commit
<1> QED
  BY <1>2, <1>3, <1>4, <1>5 DEF TypeOK

\* The tables after Deactivate.
LEMMA DeactivateChanges ==
  ASSUME TypeOK, NEW s \in Sessions, Deactivate(s)
  PROVE  /\ pc[s] = "locked" /\ pc'[s] = "done" /\ Target(s) \in Records
         /\ audit' = audit \o Event(s)
         /\ overtaken' = overtaken \cup (Sessions \ {s})
         /\ \A r \in Affected(Target(s)) \ {Target(s)} : ~Locked(r)
         /\ \A r \in Records : refs'[r].links = refs[r].links /\ refs'[r].kind = refs[r].kind
         /\ \A r \in Records : IF r \in Affected(Target(s)) THEN refs'[r].status = "inactive"
                                                            ELSE refs'[r] = refs[r]
<1>1. refs' = [q \in Records |-> IF q \in Affected(Target(s)) THEN Withdrawn(refs[q])
                                                              ELSE refs[q]]
  BY DEF Deactivate, Commit
<1>2. \A q \in Records : /\ Withdrawn(refs[q]).status = "inactive"
                         /\ Withdrawn(refs[q]).links = refs[q].links
                         /\ Withdrawn(refs[q]).kind = refs[q].kind
  BY DEF Withdrawn
<1> QED
  BY <1>1, <1>2 DEF Deactivate, Commit, TypeOK

LEMMA LocksStep ==
  ASSUME TypeOK, LocksHold, RequestsFit, NEW s \in Sessions, Request(s) \/ Serve(s) \/ Fail(s)
  PROVE  LocksHold'
<1>1. Aside(s)
  BY StepsAside
<1>2. CASE Write(s)
  <2>1. \A t \in Sessions : pc'[t] = "locked" =>
            t # s /\ pc[t] = "locked" /\ ask'[t] = ask[t] /\ Target(t) \in Records
    BY <1>1, <1>2, WriteChanges DEF Aside, TypeOK
  <2>2. \A t \in Sessions : pc'[t] = "locked" => refs'[Target(t)] = refs[Target(t)]
    BY <1>2, <2>1, WriteChanges DEF Locked
  <2> QED
    BY <2>1, <2>2 DEF LocksHold
<1>3. CASE Deactivate(s)
  <2>1. \A t \in Sessions : pc'[t] = "locked" =>
            t # s /\ pc[t] = "locked" /\ ask'[t] = ask[t] /\ Target(t) \in Records
    BY <1>1, <1>3, DeactivateChanges DEF Aside, TypeOK
  <2>2. \A t \in Sessions : pc'[t] = "locked" => Target(t) # Target(s)
    BY <1>3, <2>1, DeactivateChanges DEF LocksHold
  <2>3. \A t \in Sessions : pc'[t] = "locked" => Locked(Target(t))
    BY <2>1 DEF Locked
  <2>4. \A r \in Affected(Target(s)) \ {Target(s)} : ~Locked(r)
    BY <1>3, DeactivateChanges
  <2>5. \A t \in Sessions : pc'[t] = "locked" => Target(t) \notin Affected(Target(s))
    BY <2>2, <2>3, <2>4
  <2>6. \A r \in Records : r \notin Affected(Target(s)) => refs'[r] = refs[r]
    BY <1>3, DeactivateChanges
  <2>7. \A t \in Sessions : pc'[t] = "locked" => refs'[Target(t)] = refs[Target(t)]
    BY <2>1, <2>5, <2>6
  <2> QED
    BY <2>1, <2>7 DEF LocksHold
<1>4. CASE Lock(s)
  <2>1. refs' = refs /\ \A t \in Sessions : ask'[t] = ask[t]
    BY <1>4 DEF Lock
  <2>2. pc'[s] = "locked" => /\ ~Locked(Target(s)) /\ refs[Target(s)].status = "active"
                             /\ ask[s].op = "deactivate"
    BY <1>4 DEF Lock, TypeOK
  <2>3. \A t \in Sessions : t # s => pc'[t] = pc[t]
    BY <1>1 DEF Aside
  <2> QED
    BY <2>1, <2>2, <2>3 DEF LocksHold, Locked
<1>5. CASE Request(s) \/ Screen(s) \/ Load(s) \/ Check(s) \/ Fail(s)
  <2>1. refs' = refs /\ pc'[s] # "locked"
    BY <1>5 DEF Request, Post, Screen, Load, Check, Fail, TypeOK
  <2>2. \A t \in Sessions : pc'[t] = "locked" => t # s /\ pc[t] = "locked" /\ ask'[t] = ask[t]
    BY <1>1, <2>1 DEF Aside
  <2> QED
    BY <2>1, <2>2 DEF LocksHold
<1> QED
  BY <1>2, <1>3, <1>4, <1>5 DEF Serve

LEMMA CurrentStep ==
  ASSUME TypeOK, CurrentUnlessOvertaken, RequestsFit,
         NEW s \in Sessions, Request(s) \/ Serve(s) \/ Fail(s)
  PROVE  CurrentUnlessOvertaken'
<1>1. Aside(s)
  BY StepsAside
<1>2. CASE (Write(s) /\ refs' # refs) \/ Deactivate(s)
  <2>1. overtaken' = overtaken \cup (Sessions \ {s}) /\ pc'[s] = "done"
    BY <1>2, WriteChanges, DeactivateChanges
  <2> QED
    BY <2>1 DEF CurrentUnlessOvertaken
<1>3. ASSUME refs' = refs,
             \A t \in Sessions \ overtaken' : t # s => t \notin overtaken,
             s \notin overtaken' =>
                 /\ pc'[s] \in {"check", "write"} => loaded'[s] = refs[ask'[s].target]
                 /\ pc'[s] = "write" => Valid(ask'[s].target, ask'[s].form, loaded'[s])
      PROVE CurrentUnlessOvertaken'
  <2> SUFFICES ASSUME NEW t \in Sessions, t \notin overtaken'
               PROVE  /\ pc'[t] \in {"check", "write"} => loaded'[t] = refs'[ask'[t].target]
                      /\ pc'[t] = "write" =>
                             Valid(Target(t), Form(t), loaded[t])'
    BY DEF CurrentUnlessOvertaken
  <2>1. Valid(Target(t), Form(t), loaded[t])'
            <=> Valid(ask'[t].target, ask'[t].form, loaded'[t])
    BY <1>3 DEF Valid, Taken
  <2>2. CASE t = s
    BY <1>3, <2>1, <2>2
  <2>3. CASE t # s
    BY <1>1, <1>3, <2>1, <2>3 DEF Aside, CurrentUnlessOvertaken
  <2> QED
    BY <2>2, <2>3
<1>4. CASE Write(s) /\ refs' = refs
  <2>1. \A t \in Sessions \ overtaken' : t # s => t \notin overtaken
    BY <1>4, WriteChanges
  <2> QED
    BY <1>3, <1>4, <2>1, WriteChanges
<1>5. CASE Load(s)
  <2>1. /\ refs' = refs /\ overtaken' = overtaken \ {s} /\ pc'[s] = "check"
        /\ loaded'[s] = refs[Target(s)] /\ ask'[s] = ask[s]
    BY <1>5 DEF Load, TypeOK
  <2> QED
    BY <1>3, <2>1
<1>6. CASE Check(s)
  <2>1. /\ refs' = refs /\ overtaken' = overtaken /\ loaded' = loaded /\ ask' = ask
        /\ pc[s] = "check" /\ pc'[s] # "check"
        /\ pc'[s] = "write" => Valid(Target(s), Form(s), loaded[s])
    BY <1>6 DEF Check, TypeOK
  <2>2. s \notin overtaken => loaded[s] = refs[Target(s)]
    BY <2>1 DEF CurrentUnlessOvertaken
  <2> QED
    BY <1>3, <2>1, <2>2
<1>7. CASE Request(s) \/ Screen(s) \/ Lock(s) \/ Fail(s)
  <2>1. refs' = refs /\ overtaken' = overtaken /\ pc'[s] \notin {"check", "write"}
    BY <1>7 DEF Request, Post, Screen, Lock, Fail, TypeOK
  <2> QED
    BY <1>3, <2>1
<1> QED
  BY <1>2, <1>4, <1>5, <1>6, <1>7 DEF Serve

LEMMA FitStep ==
  ASSUME TypeOK, LocksHold, RequestsFit, NEW s \in Sessions, Request(s) \/ Serve(s) \/ Fail(s)
  PROVE  RequestsFit'
<1> DEFINE Busy == {"posted", "load", "check", "write", "locked"}
           Fits(t) == /\ ask[t].op # "deactivate" => Complete(Target(t), Form(t))
                      /\ ask[t].op = "create" <=> refs[Target(t)].status = "absent"
                      /\ pc[t] \in {"load", "check", "write"} => ask[t].op # "deactivate"
                      /\ pc[t] \in {"check", "write"} =>
                            (ask[t].op = "create" <=> loaded[t].status = "absent")
                      /\ \A u \in Sessions \ {t} : ask[t].op = "create" => Target(u) # Target(t)
<1>1. Aside(s)
  BY StepsAside
<1>2. ASSUME NEW op \in Ops, NEW r \in Records, NEW f \in Forms, Post(s, op, r, f)
      PROVE RequestsFit'
  <2>1. /\ refs' = refs /\ loaded' = loaded /\ pc'[s] = "posted"
        /\ ask'[s] = [op |-> op, target |-> r, form |-> f]
        /\ op # "deactivate" => Complete(r, f)
        /\ op = "create" <=> refs[r].status = "absent"
        /\ op = "create" => \A t \in Sessions : Target(t) # r
    BY <1>2 DEF Post, TypeOK
  <2>2. \A t \in Sessions \ {s} : pc'[t] = pc[t] /\ ask'[t] = ask[t]
    BY <1>1 DEF Aside
  <2>3. ASSUME NEW t \in Sessions \ {s}, pc'[t] \in Busy PROVE Fits(t)'
    BY <2>1, <2>2, <2>3 DEF RequestsFit
  <2>4. Fits(s)'
    BY <2>1, <2>2
  <2> QED
    BY <2>3, <2>4 DEF RequestsFit
<1>3. ASSUME ask' = ask,
             \A t \in Sessions : pc'[t] \in Busy => pc[t] \in Busy,
             \A t \in Sessions : pc[t] \in Busy /\ pc'[t] \in Busy =>
                 (refs'[Target(t)].status = "absent" <=> refs[Target(t)].status = "absent"),
             pc'[s] \in {"load", "check", "write"} => ask[s].op # "deactivate",
             pc'[s] \in {"check", "write"} =>
                 (ask[s].op = "create" <=> loaded'[s].status = "absent")
      PROVE RequestsFit'
  <2> SUFFICES ASSUME NEW t \in Sessions, pc'[t] \in Busy PROVE Fits(t)'
    BY DEF RequestsFit
  <2>1. pc[t] \in Busy /\ Fits(t)
    BY <1>3 DEF RequestsFit
  <2>2. t # s => pc'[t] = pc[t] /\ loaded'[t] = loaded[t]
    BY <1>1 DEF Aside
  <2> QED
    BY <1>3, <2>1, <2>2
<1>4. CASE Screen(s) \/ Load(s) \/ Check(s) \/ Lock(s) \/ Fail(s)
  <2>1. ask' = ask /\ refs' = refs /\ \A t \in Sessions : pc'[t] \in Busy => pc[t] \in Busy
    BY <1>4 DEF Screen, Load, Check, Lock, Fail, TypeOK
  <2>2. pc[s] \in Busy => Fits(s)
    BY DEF RequestsFit
  <2>3. pc'[s] \in {"load", "check", "write"} => ask[s].op # "deactivate"
    BY <1>4, <2>2 DEF Screen, Load, Check, Lock, Fail, TypeOK
  <2>4. pc'[s] \in {"check", "write"} =>
            (ask[s].op = "create" <=> loaded'[s].status = "absent")
    BY <1>4, <2>2 DEF Screen, Load, Check, Lock, Fail, TypeOK
  <2> QED
    BY <1>3, <2>1, <2>3, <2>4
<1>5. CASE Write(s)
  <2>1. ask' = ask /\ pc'[s] = "done" /\ pc[s] = "write"
    BY <1>5, WriteChanges DEF Write
  <2>2. \A t \in Sessions : pc'[t] \in Busy => t # s /\ pc[t] \in Busy
    BY <1>1, <2>1 DEF Aside
  <2>3. Fits(s) /\ \A t \in Sessions : pc[t] \in Busy => Fits(t)
    BY <2>1 DEF RequestsFit
  <2>4. \A t \in Sessions : pc[t] \in Busy => Target(t) \in Records
    BY DEF TypeOK
  <2>5. ASSUME NEW t \in Sessions, t # s, pc[t] \in Busy
        PROVE  refs'[Target(t)].status = "absent" <=> refs[Target(t)].status = "absent"
    <3>1. CASE Target(t) # Target(s)
      BY <1>5, <2>4, <2>5, <3>1, WriteChanges
    <3>2. CASE Target(t) = Target(s)
      <4>1. refs[Target(s)].status # "absent"
        BY <2>3, <2>5, <3>2
      <4> QED
        BY <1>5, <3>2, <4>1, WriteChanges
    <3> QED
      BY <3>1, <3>2
  <2> QED
    BY <1>3, <2>1, <2>2, <2>5
<1>6. CASE Deactivate(s)
  <2>1. ask' = ask /\ pc'[s] = "done" /\ pc[s] = "locked"
    BY <1>6, DeactivateChanges DEF Deactivate
  <2>2. \A t \in Sessions : pc'[t] \in Busy => t # s /\ pc[t] \in Busy
    BY <1>1, <2>1 DEF Aside
  <2>3. \A t \in Sessions : pc[t] \in Busy => Target(t) \in Records
    BY DEF TypeOK
  <2>4. \A r \in Affected(Target(s)) : refs[r].status = "active"
    BY <2>1 DEF LocksHold, Affected
  <2>5. \A r \in Records : refs'[r].status = "absent" <=> refs[r].status = "absent"
    BY <1>6, <2>4, DeactivateChanges
  <2> QED
    BY <1>3, <2>1, <2>2, <2>3, <2>5
<1> QED
  BY <1>2, <1>4, <1>5, <1>6 DEF Request, Serve

LEMMA AbsentStep ==
  ASSUME TypeOK, LocksHold, RequestsFit, AbsentRefersToNothing,
         NEW s \in Sessions, Request(s) \/ Serve(s) \/ Fail(s)
  PROVE  AbsentRefersToNothing'
<1>1. CASE Write(s)
  BY <1>1, WriteChanges DEF AbsentRefersToNothing
<1>2. CASE Deactivate(s)
  BY <1>2, DeactivateChanges DEF AbsentRefersToNothing
<1>3. CASE ~Write(s) /\ ~Deactivate(s)
  <2>1. refs' = refs
    BY <1>3 DEF Request, Serve, Post, Screen, Load, Check, Lock, Fail
  <2> QED
    BY <2>1 DEF AbsentRefersToNothing
<1> QED
  BY <1>1, <1>2, <1>3

LEMMA InvStep == TypeOK /\ ReferenceInv /\ [Next]_vars => ReferenceInv'
<1> SUFFICES ASSUME TypeOK, ReferenceInv, [Next]_vars PROVE ReferenceInv'
  OBVIOUS
<1>1. CASE UNCHANGED vars
  BY <1>1 DEF vars, ReferenceInv, LocksHold, CurrentUnlessOvertaken, RequestsFit,
              AbsentRefersToNothing, Valid, Taken
<1>2. ASSUME NEW s \in Sessions, Request(s) \/ Serve(s) \/ Fail(s) PROVE ReferenceInv'
  BY <1>2, LocksStep, CurrentStep, FitStep, AbsentStep DEF ReferenceInv
<1> QED
  BY <1>1, <1>2 DEF Next, Rest

LEMMA InvInit == Init => ReferenceInv
<1> SUFFICES ASSUME Init PROVE ReferenceInv
  OBVIOUS
<1>1. \A s \in Sessions : pc[s] = "idle"
  BY DEF Init
<1>2. ASSUME NEW r \in Records, refs[r].status = "absent" PROVE refs[r].links = {}
  <2>1. refs[r] \in Earlier(r)
    BY DEF Init
  <2>2. CASE refs[r] = Absent
    BY <2>2 DEF Absent
  <2>3. ASSUME NEW f \in Forms, refs[r] = RowOf("active", f) PROVE FALSE
    BY <1>2, <2>3, RowTyped
  <2> QED
    BY <2>1, <2>2, <2>3 DEF Earlier
<1> QED
  BY <1>1, <1>2 DEF ReferenceInv, LocksHold, CurrentUnlessOvertaken, RequestsFit,
                    AbsentRefersToNothing

\* Locks hold what they lock, and a request that nobody has overtaken since it loaded its
\* row knows the row and the rows it is validated against as they are.
THEOREM ReferenceInvariant == Spec => []ReferenceInv
<1>1. Spec => [](TypeOK /\ ReferenceInv)
  BY TypedInit, TypedStep, InvInit, InvStep, PTL DEF Spec
<1> QED
  BY <1>1, PTL

--------------------------------------------------------------------------------
(* Action properties *)

\* Rows are committed by Write and Deactivate only.
LEMMA Committers ==
  ASSUME [Next]_vars, refs' # refs \/ audit' # audit
  PROVE  \E s \in Sessions : Write(s) \/ Deactivate(s)
BY DEF Next, Request, Serve, Rest, vars, Post, Screen, Load, Check, Lock, Fail

\* What a request writes that nobody has overtaken.
LEMMA CurrentWrite ==
  ASSUME TypeOK, ReferenceInv, NEW s \in Sessions, s \notin overtaken, Write(s), refs' # refs
  PROVE  /\ refs' = [refs EXCEPT ![Target(s)] = Saved(s)]
         /\ audit' = audit \o Written(s)
         /\ loaded[s] = refs[Target(s)]
         /\ Valid(Target(s), Form(s), refs[Target(s)])
         /\ Saved(s).links = Form(s).links
         /\ IF ask[s].op = "create"
            THEN refs[Target(s)].status = "absent" /\ Saved(s).status = "active"
            ELSE Saved(s).status = refs[Target(s)].status /\ Saved(s).status # "absent"
<1>1. pc[s] = "write" /\ pc[s] # "idle"
  BY DEF Write
<1>2. loaded[s] = refs[Target(s)] /\ Valid(Target(s), Form(s), loaded[s])
  BY <1>1 DEF ReferenceInv, CurrentUnlessOvertaken
<1>3. ask[s].op = "create" <=> refs[Target(s)].status = "absent"
  BY <1>1 DEF ReferenceInv, RequestsFit
<1>4. refs' = [refs EXCEPT ![Target(s)] = Saved(s)] /\ audit' = audit \o Written(s)
  BY WriteChanges DEF ReferenceInv
<1> QED
  BY <1>1, <1>2, <1>3, <1>4, SavedTyped

LEMMA CurrentWriteBelongs ==
  ASSUME TypeOK, ReferenceInv, ActiveBelong,
         NEW s \in Sessions, s \notin overtaken, Write(s), refs' # refs
  PROVE  ActiveBelong'
<1> SUFFICES ASSUME NEW r \in Dependents, refs'[r].status = "active", NEW p \in refs'[r].links
             PROVE  refs'[p].status = "active"
  BY DEF ActiveBelong
<1> DEFINE x == Target(s)
<1>1. x \in Records /\ r \in Records /\ Complete(x, Form(s))
  BY WriteChanges DEF ReferenceInv, Records
<1>2. refs'[x] = Saved(s) /\ \A q \in Records : q # x => refs'[q] = refs[q]
  BY <1>1, CurrentWrite DEF TypeOK
<1>3. p \in Parents /\ p \in Records
  <2>1. pc[s] # "idle"
    BY DEF Write
  <2>2. refs'[r] \in Rows
    BY <1>1, <1>2, <2>1, SavedTyped DEF TypeOK
  <2> QED
    BY <2>2 DEF Rows, Records
<1>4. p # r
  BY <1>3, ConstantsAssumption
<1>5. CASE r = x
  <2>1. /\ refs'[p] = refs[p] /\ p \in Form(s).links
        /\ refs[x].status # "inactive"
    BY <1>2, <1>3, <1>4, <1>5, CurrentWrite
  <2>2. CASE r \in Officials
    BY <1>5, <2>1, <2>2, CurrentWrite DEF Valid
  <2>3. CASE p \notin refs[x].links
    BY <2>1, <2>3, CurrentWrite DEF Valid
  <2>4. CASE p \in refs[x].links
    <3>1. refs[x].status = "active"
      BY <1>1, <2>1, <2>4, CurrentWrite DEF TypeOK, Rows, ReferenceInv, AbsentRefersToNothing
    <3> QED
      BY <1>5, <2>1, <2>4, <3>1 DEF ActiveBelong
  <2> QED
    BY <2>2, <2>3, <2>4
<1>6. CASE r # x
  <2>1. refs'[r] = refs[r] /\ refs[p].status = "active"
    BY <1>1, <1>2, <1>6 DEF ActiveBelong
  <2>2. CASE p # x
    BY <1>2, <1>3, <2>1, <2>2
  <2>3. CASE p = x
    BY <1>2, <2>1, <2>3, CurrentWrite
  <2> QED
    BY <2>2, <2>3
<1> QED
  BY <1>5, <1>6

LEMMA DeactivateBelongs ==
  ASSUME TypeOK, ActiveBelong, NEW s \in Sessions, Deactivate(s)
  PROVE  ActiveBelong'
<1> SUFFICES ASSUME NEW r \in Dependents, refs'[r].status = "active", NEW p \in refs'[r].links
             PROVE  refs'[p].status = "active"
  BY DEF ActiveBelong
<1>1. r \in Records /\ r \notin Affected(Target(s)) /\ refs'[r] = refs[r]
  BY DeactivateChanges DEF Records
<1>2. p \in Parents /\ p \in Records /\ p \notin Dependents
  BY <1>1, ConstantsAssumption DEF TypeOK, Rows, Records
<1>3. refs[p].status = "active"
  BY <1>1 DEF ActiveBelong
<1>4. p # Target(s)
  BY <1>1 DEF Affected
<1>5. p \notin Affected(Target(s))
  BY <1>2, <1>4 DEF Affected
<1> QED
  BY <1>2, <1>3, <1>5, DeactivateChanges

\* An active address or official loses its active person or court only to a request that was
\* overtaken between the load of its row and its write.
THEOREM SeparatedByOvertaken == Spec => OnlyOvertakenSeparates
<1>1. ASSUME TypeOK, ReferenceInv, [Next]_vars, ActiveBelong, ~ActiveBelong'
      PROVE \E s \in overtaken : Writes(s)
  <2>1. refs' # refs
    BY <1>1 DEF ActiveBelong
  <2>2. PICK s \in Sessions : Write(s) \/ Deactivate(s)
    BY <1>1, <2>1, Committers
  <2>3. Write(s)
    BY <1>1, <2>2, DeactivateBelongs
  <2>4. s \in overtaken
    BY <1>1, <2>1, <2>3, CurrentWriteBelongs
  <2>5. Writes(s)
    BY <1>1, <2>1, <2>3, WriteChanges DEF Writes, ReferenceInv, Write
  <2> QED
    BY <2>4, <2>5
<1> QED
  BY <1>1, Typed, ReferenceInvariant, PTL DEF OnlyOvertakenSeparates, Spec

\* What was deactivated stays so but for a request that was overtaken.
THEOREM RevivedByOvertaken == Spec => OnlyOvertakenRevives
<1>1. ASSUME TypeOK, ReferenceInv, [Next]_vars, \E r \in Records : Revives(r)
      PROVE \E s \in overtaken : Writes(s)
  <2>1. PICK r \in Records : refs[r].status = "inactive" /\ refs'[r].status = "active"
    BY <1>1 DEF Revives
  <2>2. PICK s \in Sessions : Write(s) \/ Deactivate(s)
    BY <1>1, <2>1, Committers
  <2>3. Write(s)
    BY <1>1, <2>1, <2>2, DeactivateChanges
  <2>4. s \in overtaken
    <3> SUFFICES ASSUME s \notin overtaken PROVE FALSE
      OBVIOUS
    <3>1. refs' = [refs EXCEPT ![Target(s)] = Saved(s)]
      BY <1>1, <2>1, <2>3, CurrentWrite
    <3>2. r = Target(s)
      BY <2>1, <3>1 DEF TypeOK
    <3>3. refs'[r] = Saved(s)
      BY <1>1, <3>1, <3>2 DEF TypeOK
    <3> QED
      BY <1>1, <2>1, <2>3, <3>2, <3>3, CurrentWrite
  <2>5. Writes(s)
    BY <1>1, <2>1, <2>3, WriteChanges DEF Writes, ReferenceInv, Write
  <2> QED
    BY <2>4, <2>5
<1> QED
  BY <1>1, Typed, ReferenceInvariant, PTL DEF OnlyOvertakenRevives, Spec

\* Only a request that was overtaken changes a row without an event.
THEOREM SilencedByOvertaken == Spec => OnlyOvertakenIsSilent
<1>1. ASSUME TypeOK, ReferenceInv, [Next]_vars, refs' # refs, audit' = audit
      PROVE \E s \in overtaken : Writes(s)
  <2>1. PICK s \in Sessions : Write(s) \/ Deactivate(s)
    BY <1>1, Committers
  <2>2. pc[s] # "idle"
    BY <2>1 DEF Write, Deactivate
  <2>3. audit' # audit \o Event(s)
    BY <1>1, <2>2, EventTyped DEF TypeOK
  <2>4. Write(s)
    BY <1>1, <2>1, <2>3, DeactivateChanges
  <2>5. s \in overtaken
    <3> SUFFICES ASSUME s \notin overtaken PROVE FALSE
      OBVIOUS
    <3>1. /\ refs' = [refs EXCEPT ![Target(s)] = Saved(s)] /\ audit' = audit \o Written(s)
          /\ loaded[s] = refs[Target(s)]
      BY <1>1, <2>4, CurrentWrite
    <3>2. Saved(s) = loaded[s]
      BY <2>3, <3>1 DEF Written
    <3> QED
      BY <1>1, <3>1, <3>2 DEF TypeOK
  <2>6. Writes(s)
    BY <1>1, <2>4, WriteChanges DEF Writes, ReferenceInv, Write
  <2> QED
    BY <2>5, <2>6
<1> QED
  BY <1>1, Typed, ReferenceInvariant, PTL DEF OnlyOvertakenIsSilent, Spec

\* A deactivation on record took an active row and everything active that refers to it.
THEOREM WholeDeactivations == Spec => DeactivationsAreWhole
<1>1. ASSUME TypeOK, ReferenceInv, [Next]_vars, NEW s \in Sessions,
             pc[s] = "locked", audit' # audit, audit'[Len(audit')].by = s
      PROVE /\ refs[Target(s)].status = "active" /\ refs'[Target(s)].status = "inactive"
            /\ \A q \in Dependents :
                   Target(s) \in refs'[q].links => refs'[q].status # "active"
  <2>1. PICK t \in Sessions : Write(t) \/ Deactivate(t)
    BY <1>1, Committers
  <2>2. pc[t] # "idle" /\ (Write(t) => pc[t] = "write")
    BY <2>1 DEF Write, Deactivate
  <2>3. audit' = audit \o Event(t)
    <3>1. CASE Deactivate(t)
      BY <1>1, <3>1, DeactivateChanges
    <3>2. CASE Write(t)
      <4>1. audit' = audit \o Written(t)
        BY <1>1, <3>2, WriteChanges DEF ReferenceInv
      <4>2. Written(t) # <<>>
        BY <1>1, <4>1 DEF TypeOK
      <4> QED
        BY <4>1, <4>2 DEF Written
    <3> QED
      BY <2>1, <3>1, <3>2
  <2>4. t = s
    BY <1>1, <2>2, <2>3, EventTyped
  <2>5. Deactivate(s)
    BY <1>1, <2>1, <2>2, <2>4
  <2>6. Target(s) \in Affected(Target(s)) /\ Target(s) \in Records
    BY <1>1, <2>5, DeactivateChanges DEF Affected
  <2>7. ASSUME NEW q \in Dependents, Target(s) \in refs'[q].links
        PROVE  refs'[q].status # "active"
    <3>1. q \in Records /\ Target(s) \in refs[q].links
      BY <1>1, <2>5, <2>7, DeactivateChanges DEF Records
    <3> QED
      BY <1>1, <2>5, <2>7, <3>1, DeactivateChanges DEF Affected
  <2> QED
    BY <1>1, <2>5, <2>6, <2>7, DeactivateChanges DEF ReferenceInv, LocksHold
<1>2. ASSUME TypeOK, ReferenceInv, [Next]_vars PROVE \A s \in Sessions : Deactivates(s)
  BY <1>1, <1>2 DEF Deactivates
<1> QED
  BY <1>2, Typed, ReferenceInvariant, PTL DEF DeactivationsAreWhole, Spec
=================================================================================
