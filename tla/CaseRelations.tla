------------------------------ MODULE CaseRelations ------------------------------
(* The relationships of one case (apps/cases/forms.py, models.py, services.py): its *)
(* participants, their representations, the officials assigned to it and its        *)
(* hearings, as the formsets of one page validate and save them.                    *)
(*                                                                                  *)
(* A save holds the row of the case from the check of the revision to COMMIT (see   *)
(* CaseRecords), so it is one step, and it meets the rows that its page showed.     *)
(* Nothing holds the entities and officials that the rows refer to.                 *)
EXTENDS Naturals, Sequences, SequencesExt, FiniteSets, FiniteSetsExt

CONSTANTS Entities, Officials,
          ParticipantRoles,
          MaxRows,             \* bound: rows of the case, removed ones included
          MaxEdits             \* bound: rows that one post adds, changes or removes

VARIABLES rows,        \* the relationship rows of the case, in the order of creation
          selectable   \* the active entities, and the officials of the case's court that
                       \* are active with their entity

ASSUME RelationsAssumption == /\ IsFiniteSet(Entities) /\ IsFiniteSet(Officials)
                              /\ IsFiniteSet(ParticipantRoles)
                              /\ {MaxRows, MaxEdits} \subseteq Nat

relvars == <<rows, selectable>>

\* What a row says: who is related to the case, to which participant row, and as what.
Fact(c, who, party, as) == [category |-> c, who |-> who, party |-> party, role |-> as]

Participants    == {Fact("participants", e, 0, p) : e \in Entities, p \in ParticipantRoles}
Representations == {Fact("representations", e, i, "legal") : e \in Entities, i \in
                       {j \in DOMAIN rows : rows[j].fact.category = "participants"}}
Assignments     == {Fact("assignments", o, 0, "judge") : o \in Officials}
Hearings        == {Fact("hearings", "nobody", 0, "scheduled")}
Facts           == Participants \cup Representations \cup Assignments \cup Hearings

\* A page edits one category or all of them.
Sections == {{c} : c \in {"participants", "representations", "assignments", "hearings"}}
            \cup {{"participants", "representations", "assignments", "hearings"}}

--------------------------------------------------------------------------------
(* What the forms offer *)

Party(f) == f.category = "participants" => f.who \in selectable

\* The participant must be active with its entity, as the database has them.
Representative(f) ==
    f.category = "representations" =>
        /\ f.who \in selectable
        /\ rows[f.party].active /\ rows[f.party].fact.who \in selectable

Official(f) == f.category = "assignments" => f.who \in selectable

Offered(f) == Party(f) /\ Representative(f) /\ Official(f)

\* The querysets of the formsets: a hearing is left out once it is cancelled.
Shown(section) == {i \in DOMAIN rows : rows[i].active /\ rows[i].fact.category \in section}

--------------------------------------------------------------------------------
(* Posts *)

\* What a post asks of a row that it is to remove.
Removed == Fact("none", "nobody", 0, "none")

\* The posts of a page: what becomes of each row shown, and the rows that are new.
Posts(section) ==
    LET offer == {f \in Facts : f.category \in section}
        Rewrites(touched) ==
            {e \in [touched -> offer \cup {Removed}] :
                \A i \in touched : /\ e[i] # rows[i].fact
                                   /\ e[i].category \in {rows[i].fact.category, "none"}}
        Page(e) == [i \in Shown(section) |-> IF i \in DOMAIN e THEN e[i] ELSE rows[i].fact]
    IN  UNION {{[edits |-> Page(e), added |-> new] :
                   e \in Rewrites(touched),
                   new \in UNION {kSubset(k, offer) : k \in 0..(MaxEdits - Cardinality(touched))}}
               : touched \in {t \in SUBSET Shown(section) : Cardinality(t) <= MaxEdits}}

Kept(p) == {i \in DOMAIN p.edits : p.edits[i] # Removed}

\* Mutant: only the rows that the post changes or adds are compared.
UniqueChanges(p) ==
    \A i, j \in {k \in Kept(p) : p.edits[k] # rows[k].fact} : i # j => p.edits[i] # p.edits[j]

\* No two rows that stay are the same, save hearings.
UniqueRows(p) ==
    /\ \A i, j \in Kept(p) : i # j /\ p.edits[i].category # "hearings" =>
                                 p.edits[i] # p.edits[j]
    /\ \A i \in Kept(p) : p.edits[i].category # "hearings" => p.edits[i] \notin p.added

\* Mutant: a row that the post leaves as it is passes.
ValidIfChanged(p) == /\ \A i \in Kept(p) : p.edits[i] # rows[i].fact => Offered(p.edits[i])
                     /\ \A f \in p.added : Offered(f)
                     /\ UniqueRows(p)

\* Every row that stays is validated again; a row marked for removal is not looked at.
Valid(p) == /\ \A i \in Kept(p) : Offered(p.edits[i])
            /\ \A f \in p.added : Offered(f)
            /\ UniqueRows(p)

--------------------------------------------------------------------------------
(* Saving: one UPDATE or INSERT per row, under the constraints of the table *)

\* The partial unique constraints compare active rows.
Clashes(rs, i, f) == /\ f.category # "hearings"
                     /\ \E j \in DOMAIN rs \ {i} : rs[j].active /\ rs[j].fact = f

SaveRow(state, i, f) ==
    IF f = Removed THEN [state EXCEPT !.rows[i].active = FALSE]
    ELSE [rows   |-> [state.rows EXCEPT ![i].fact = f],
          failed |-> state.failed \/ Clashes(state.rows, i, f)]

AddRow(state, f) ==
    [rows   |-> Append(state.rows, [fact |-> f, active |-> TRUE]),
     failed |-> state.failed \/ Clashes(state.rows, 0, f)]

Changed(p) == {i \in DOMAIN p.edits : p.edits[i] # rows[i].fact}

SaveRows(state, edits, order) == FoldLeft(LAMBDA st, i : SaveRow(st, i, edits[i]), state, order)
AddRows(state, new)           == FoldLeft(AddRow, state, new)

\* The rows shown are saved in the order of the page, which the rows' ordering and id
\* decide, and the new ones after them.
Outcomes(p) == {AddRows(SaveRows([rows |-> rows, failed |-> FALSE], p.edits, order),
                        SetToSeq(p.added)) : order \in SetToSeqs(Changed(p))}

RelationsInit == rows = <<>> /\ selectable = Entities \cup Officials

\* A post that validates is saved, unless a constraint stops it and all is rolled back.
Save == /\ \E section \in Sections : \E p \in Posts(section) :
              /\ Valid(p)
              /\ \E o \in Outcomes(p) : /\ ~o.failed /\ Len(o.rows) <= MaxRows
                                        /\ rows' = o.rows
        /\ UNCHANGED selectable

\* Elsewhere an entity or an official is deactivated, or revived by an overtaken edit (see
\* ReferenceData), or the case moves to another court and its officials with it.
Elsewhere == /\ \E x \in Entities \cup Officials :
                   selectable' = IF x \in selectable THEN selectable \ {x}
                                 ELSE selectable \cup {x}
             /\ UNCHANGED rows

RelationsNext == Save \/ Elsewhere

RelationsSpec == RelationsInit /\ [][RelationsNext]_relvars

--------------------------------------------------------------------------------
(* Properties *)

\* Only those who exchange places can be stopped by a constraint after their post was found
\* valid: some row takes over what another row of the page was and no longer is.
OnlyExchangesCollide ==
    \A section \in Sections : \A p \in Posts(section) :
        Valid(p) /\ (\E o \in Outcomes(p) : o.failed) =>
            \E i, j \in DOMAIN p.edits : /\ p.edits[i] = rows[j].fact
                                         /\ p.edits[j] # rows[j].fact

\* The page as it is, without the rows that may no longer be selected.
Cleared(section) ==
    [edits |-> [i \in Shown(section) |-> IF Offered(rows[i].fact) THEN rows[i].fact ELSE Removed],
     added |-> {}]

\* A page is never stuck: whatever was deactivated or has moved since its rows were saved, the
\* page is accepted and saved once the rows that may no longer be selected are removed.
PagesCanBeCleared ==
    \A section \in Sections : /\ Valid(Cleared(section))
                              /\ \A o \in Outcomes(Cleared(section)) : ~o.failed

\* A save fails only for what its page can put right.
PagesCanBeSaved == OnlyExchangesCollide /\ PagesCanBeCleared

\* A row as a page of the section leaves it names who is active and of the right court.
NamesSelectable(row) ==
    \/ row.fact.category = "hearings"
    \/ /\ row.fact.who \in selectable
       /\ row.fact.category = "representations" =>
             /\ rows'[row.fact.party].fact.who \in selectable
             /\ rows[row.fact.party].active

SavesSelectable(section) ==
    /\ \A i \in DOMAIN rows : rows'[i] # rows[i] => rows[i].fact.category \in section
    /\ \A i \in DOMAIN rows' :
          rows'[i].active /\ rows'[i].fact.category \in section => NamesSelectable(rows'[i])

\* What was just saved may be selected: afterwards every active row of the section names who
\* is active and of the right court, whether the post changed it or not.  The one exception is
\* a representation whose participant the same post removes, since all formsets validate
\* before any is saved.
SavedRowsAreSelectable ==
    [][rows' # rows => \E section \in Sections : SavesSelectable(section)]_relvars
=================================================================================
