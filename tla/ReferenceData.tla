------------------------------ MODULE ReferenceData ------------------------------
(* Courts, entities, their addresses and the officials, and the administrators who *)
(* create, edit and deactivate them (apps/cases/services.py, forms.py, models.py,  *)
(* views.py).  An edit reads the row without a lock, validates against other rows  *)
(* it has not locked either, and then writes every column of the row.  A           *)
(* deactivation locks the row, reads it again and takes its dependents along.      *)
(*                                                                                 *)
(* Names, addresses and titles are abstracted to the session that wrote them last; *)
(* the foreign keys of a row are the set of the rows it refers to.                 *)
EXTENDS Naturals, Sequences

CONSTANTS Sessions, Nobody, Courts, Entities, Addresses, Officials

Parents    == Courts \cup Entities
Dependents == Addresses \cup Officials
Records    == Parents \cup Dependents

ASSUME ConstantsAssumption ==
    /\ Nobody \notin Sessions
    /\ Courts \cap Entities = {} /\ Addresses \cap Officials = {}
    /\ Parents \cap Dependents = {}

VARIABLES refs,     \* the committed rows of the four tables
          audit,    \* the committed success events, in order
          failures, \* sessions with a committed failure event
          pc,       \* where each session is
          ask,      \* what it asks for
          loaded,   \* the row as its request loaded it without a lock
          reply,    \* how its request ended
          overtaken \* sessions since whose load somebody else has committed (history)

committed == <<refs, audit, failures>>
vars      == <<refs, audit, failures, pc, ask, loaded, reply, overtaken>>

Ops   == {"create", "update", "deactivate"}
Kinds == {"none", "individual", "organization"}
Forms == [kind : Kinds, links : SUBSET Parents, text : Sessions \cup {Nobody}]
Rows  == [status : {"absent", "active", "inactive"}, kind : Kinds,
          links : SUBSET Parents, text : Sessions \cup {Nobody}]
Asks  == [op : Ops \cup {"none"}, target : Records \cup {Nobody}, form : Forms]

Blank  == [kind |-> "none", links |-> {}, text |-> Nobody]
Absent == [status |-> "absent", kind |-> "none", links |-> {}, text |-> Nobody]

\* The fields a form of the table has, filled in completely.
Complete(r, f) ==
    /\ r \in Entities <=> f.kind # "none"
    /\ r \in Courts => f.links = {} \/ \E c \in Courts \ {r} : f.links = {c}
    /\ r \in Entities => f.links = {}
    /\ r \in Addresses => \E e \in Entities : f.links = {e}
    /\ r \in Officials => \E e \in Entities, c \in Courts : f.links = {e, c}

RowOf(st, f) == [status |-> st, kind |-> f.kind, links |-> f.links, text |-> f.text]

Taken(t, r, e) == \E q \in Officials \ {r} : t[q].status # "absent" /\ e \in t[q].links

\* Rows that earlier requests have created.
Earlier(r) == {RowOf("active", f) : f \in {g \in Forms : /\ Complete(r, g)
                                                         /\ g.text = Nobody
                                                         /\ g.kind # "organization"
                                                         /\ r \in Courts => g.links = {}}}
              \cup (IF r \in Dependents THEN {Absent} ELSE {})

Init == /\ refs \in [Records -> UNION {Earlier(r) : r \in Records}]
        /\ \A r \in Records : refs[r] \in Earlier(r)
        /\ \A o \in Officials : \A e \in refs[o].links \cap Entities : ~Taken(refs, o, e)
        /\ audit = <<>>
        /\ failures = {}
        /\ pc = [s \in Sessions |-> "idle"]
        /\ ask = [s \in Sessions |-> [op |-> "none", target |-> Nobody, form |-> Blank]]
        /\ loaded = [s \in Sessions |-> Absent]
        /\ reply = [s \in Sessions |-> "none"]
        /\ overtaken = {}

--------------------------------------------------------------------------------
Target(s) == ask[s].target
Form(s)   == ask[s].form

Go(s, l)     == pc' = [pc EXCEPT ![s] = l] /\ UNCHANGED reply
Answer(s, x) == pc' = [pc EXCEPT ![s] = "done"] /\ reply' = [reply EXCEPT ![s] = x]

\* Every column is written; a reader of the row has it as it was before.
Commit(s, t, event) == /\ refs' = t
                       /\ audit' = audit \o event
                       /\ overtaken' = overtaken \cup (Sessions \ {s})

Event(s) == <<[action |-> ask[s].op, target |-> Target(s), by |-> s]>>

\* A deactivation holds its row FOR UPDATE from Lock to the end of its transaction.
Locked(r) == \E s \in Sessions : pc[s] = "locked" /\ Target(s) = r

\* A form post, or a confirmed deactivation, for a row that exists; a row that is created
\* gets a key of its own.
Post(s, op, r, f) ==
    /\ pc[s] = "idle"
    /\ IF op = "create" THEN /\ refs[r].status = "absent"
                             /\ \A t \in Sessions : Target(t) # r
                        ELSE refs[r].status # "absent"
    /\ IF op = "deactivate" THEN f = Blank
                            ELSE Complete(r, f) /\ f.text \in {s, Nobody}
    /\ ask' = [ask EXCEPT ![s] = [op |-> op, target |-> r, form |-> f]]
    /\ pc' = [pc EXCEPT ![s] = "posted"]
    /\ UNCHANGED <<committed, loaded, reply, overtaken>>

--------------------------------------------------------------------------------
(* Creation and update *)

\* The choices a form bound to row w offers, Official.clean, and its unique person.
Valid(r, f, w) ==
    /\ \A p \in f.links \ w.links : refs[p].status = "active"
    /\ r \in Officials =>
          /\ \A e \in f.links \cap Entities : refs[e].kind = "individual" /\ ~Taken(refs, r, e)
          /\ w.status # "inactive" => \A p \in f.links : refs[p].status = "active"

\* The view validates the form first and records a failure of its own.
Screen(s) == /\ pc[s] = "posted" /\ ask[s].op # "deactivate"
             /\ \/ /\ Valid(Target(s), Form(s), refs[Target(s)])
                   /\ Go(s, "load")
                   /\ UNCHANGED failures
                \/ /\ ~Valid(Target(s), Form(s), refs[Target(s)])
                   /\ Answer(s, "invalid")
                   /\ failures' = failures \cup {s}
             /\ UNCHANGED <<refs, audit, ask, loaded, overtaken>>

\* _get_reference reads the row without a lock.
Load(s) == /\ pc[s] = "load"
           /\ loaded' = [loaded EXCEPT ![s] = refs[Target(s)]]
           /\ overtaken' = overtaken \ {s}
           /\ Go(s, "check")
           /\ UNCHANGED <<committed, ask>>

\* Mutant: the service trusts the validation of the view.
CheckNothing(s) == /\ pc[s] = "check"
                   /\ Go(s, "write")
                   /\ UNCHANGED <<committed, ask, loaded, overtaken>>

\* The service validates again, bound to the row it has loaded.
Check(s) == /\ pc[s] = "check"
            /\ \/ Valid(Target(s), Form(s), loaded[s]) /\ Go(s, "write")
               \/ ~Valid(Target(s), Form(s), loaded[s]) /\ Answer(s, "error")
            /\ UNCHANGED <<committed, ask, loaded, overtaken>>

\* Mutant: is_active comes back with its default.
SavedActive(s) == RowOf("active", Form(s))

\* rebound.save() writes the form's fields and is_active as it was loaded.
Saved(s) == RowOf(IF ask[s].op = "create" THEN "active" ELSE loaded[s].status, Form(s))

\* Mutant: an update is on record if it is one of a name.
WrittenIfRenamed(s) == IF ask[s].op = "create" \/ Form(s).text # loaded[s].text
                       THEN Event(s) ELSE <<>>

\* An update whose form shows no change against the loaded row has no event.
Written(s) == IF ask[s].op = "create" \/ Saved(s) # loaded[s] THEN Event(s) ELSE <<>>

\* Write the row and commit, which waits for the row and for the rows it newly refers to.
Write(s) == /\ pc[s] = "write"
            /\ \A p \in {Target(s)} \cup (Form(s).links \ refs[Target(s)].links) : ~Locked(p)
            /\ \/ /\ Target(s) \in Officials
                  /\ \E e \in Form(s).links \cap Entities : Taken(refs, Target(s), e)
                  /\ Answer(s, "error")
                  /\ UNCHANGED <<refs, audit, overtaken>>
               \/ /\ Target(s) \in Officials =>
                        \A e \in Form(s).links \cap Entities : ~Taken(refs, Target(s), e)
                  /\ Commit(s, [refs EXCEPT ![Target(s)] = Saved(s)], Written(s))
                  /\ Answer(s, "done") \/ Answer(s, "error")
            /\ UNCHANGED <<failures, ask, loaded>>

--------------------------------------------------------------------------------
(* Deactivation *)

\* SELECT FOR UPDATE reads the row again; an inactive one is left alone.
Lock(s) == /\ pc[s] = "posted" /\ ask[s].op = "deactivate"
           /\ ~Locked(Target(s))
           /\ \/ refs[Target(s)].status = "inactive" /\ Answer(s, "done")
              \/ refs[Target(s)].status = "active" /\ Go(s, "locked")
           /\ UNCHANGED <<committed, ask, loaded, overtaken>>

Withdrawn(w) == [status |-> "inactive", kind |-> w.kind, links |-> w.links, text |-> w.text]

\* Mutant: only the dependents of an entity go with it.
WithAddresses(r) == {r} \cup {q \in Addresses : refs[q].status = "active" /\ r \in refs[q].links}

\* A row and the active addresses and officials that refer to it; a court leaves the
\* courts below it alone.
Affected(r) == {r} \cup {q \in Dependents : refs[q].status = "active" /\ r \in refs[q].links}

\* Deactivate the row and its dependents with one event; the updates wait for their rows.
Deactivate(s) ==
    /\ pc[s] = "locked"
    /\ \A q \in Affected(Target(s)) \ {Target(s)} : ~Locked(q)
    /\ Commit(s, [q \in Records |-> IF q \in Affected(Target(s))
                                    THEN Withdrawn(refs[q])
                                    ELSE refs[q]],
              Event(s))
    /\ Answer(s, "done") \/ Answer(s, "error")
    /\ UNCHANGED <<failures, ask, loaded>>

\* A database error or a kill rolls the transaction back and gives up its lock.
Fail(s) == /\ pc[s] \in {"posted", "load", "check", "write", "locked"}
           /\ Answer(s, "error")
           /\ UNCHANGED <<committed, ask, loaded, overtaken>>

Serve(s) == Screen(s) \/ Load(s) \/ Check(s) \/ Write(s) \/ Lock(s) \/ Deactivate(s)

Request(s) == \E op \in Ops, r \in Records, f \in Forms : Post(s, op, r, f)

\* Every request is over.
Rest == /\ \A s \in Sessions : pc[s] = "done"
        /\ UNCHANGED vars

Next == \/ \E s \in Sessions : Request(s) \/ Serve(s) \/ Fail(s)
        \/ Rest

Spec == Init /\ [][Next]_vars

--------------------------------------------------------------------------------
Events  == [action : Ops, target : Records, by : Sessions]
PCs     == {"idle", "posted", "load", "check", "write", "locked", "done"}
Replies == {"none", "invalid", "done", "error"}

TypeOK == /\ refs \in [Records -> Rows]
          /\ audit \in Seq(Events)
          /\ failures \subseteq Sessions
          /\ pc \in [Sessions -> PCs]
          /\ ask \in [Sessions -> Asks]
          /\ loaded \in [Sessions -> Rows]
          /\ reply \in [Sessions -> Replies]
          /\ overtaken \subseteq Sessions
          /\ \A s \in Sessions : pc[s] # "idle" => ask[s].op \in Ops /\ Target(s) \in Records

\* The step of s commits a row.
Writes(s) == pc[s] = "write" /\ refs' # refs /\ pc'[s] # pc[s]

\* An active address or official belongs to active rows (Official.clean and the choices of
\* EntityAddressForm, with the cascades of deactivate_court and deactivate_entity).
ActiveBelong == \A r \in Dependents : refs[r].status = "active" =>
                    \A p \in refs[r].links : refs[p].status = "active"

\* Without a lock, only a request that somebody has overtaken since it loaded its row can
\* leave an active address or official with an inactive person or court.
OnlyOvertakenSeparates ==
    [][ActiveBelong /\ ~ActiveBelong' => \E s \in overtaken : Writes(s)]_vars

Revives(r) == refs[r].status = "inactive" /\ refs'[r].status = "active"

\* Nothing that was deactivated comes back, but by a request that was overtaken.
OnlyOvertakenRevives ==
    [][(\E r \in Records : Revives(r)) => \E s \in overtaken : Writes(s)]_vars

\* A change without an event is made only by a request that was overtaken.
OnlyOvertakenIsSilent ==
    [][refs' # refs /\ audit' = audit => \E s \in overtaken : Writes(s)]_vars

\* A deactivation goes on record exactly when it takes an active row, and everything active
\* that refers to the row goes with it, whatever was read before the lock.
Deactivates(s) ==
    pc[s] = "locked" /\ audit' # audit /\ audit'[Len(audit')].by = s =>
        /\ refs[Target(s)].status = "active" /\ refs'[Target(s)].status = "inactive"
        /\ \A q \in Dependents : Target(s) \in refs'[q].links => refs'[q].status # "active"

DeactivationsAreWhole == [][\A s \in Sessions : Deactivates(s)]_vars

\* A locked row is active, has one holder, and stays as it is.
LocksHold == \A s \in Sessions : pc[s] = "locked" =>
                /\ ask[s].op = "deactivate"
                /\ refs[Target(s)].status = "active"
                /\ \A t \in Sessions : pc[t] = "locked" /\ Target(t) = Target(s) => t = s

\* What a request that nobody has overtaken knows is still so.
CurrentUnlessOvertaken ==
    \A s \in Sessions \ overtaken :
        /\ pc[s] \in {"check", "write"} => loaded[s] = refs[Target(s)]
        /\ pc[s] = "write" => Valid(Target(s), Form(s), loaded[s])

\* A request to create is the only one about its row, which does not exist yet.
RequestsFit == \A s \in Sessions :
    pc[s] \in {"posted", "load", "check", "write", "locked"} =>
        /\ ask[s].op # "deactivate" => Complete(Target(s), Form(s))
        /\ ask[s].op = "create" <=> refs[Target(s)].status = "absent"
        /\ pc[s] \in {"load", "check", "write"} => ask[s].op # "deactivate"
        /\ pc[s] \in {"check", "write"} =>
              (ask[s].op = "create" <=> loaded[s].status = "absent")
        /\ \A t \in Sessions \ {s} : ask[s].op = "create" => Target(t) # Target(s)

AbsentRefersToNothing == \A r \in Records : refs[r].status = "absent" => refs[r].links = {}

\* The inductive strengthening of the properties above.
ReferenceInv == LocksHold /\ CurrentUnlessOvertaken /\ RequestsFit /\ AbsentRefersToNothing

\* An official is an individual.
OfficialsAreIndividuals == \A o \in Officials : \A e \in refs[o].links \cap Entities :
                               refs[e].kind = "individual"

=================================================================================
