--------------------------- MODULE TemplateValidation ---------------------------
(* apps/documents/template_validation.py: validate_template, the check of a          *)
(* template's text parts against the placeholder contract of its document type.      *)
(* The visitor of the syntax tree is recursive; here its pending calls are a stack,  *)
(* and one action is one visit.                                                      *)
(*                                                                                   *)
(* A part is its paragraphs and the syntax tree of their text.  The tree maps each   *)
(* address, the child numbers on the way from the root, to a node: a name, a path    *)
(* (attributes of a name), a chain (attributes of anything else), a filter, a call,  *)
(* a loop, a node of a rejected kind, or any other node.  Its role is what it is to  *)
(* its parent.  Findings are their categories.                                       *)
EXTENDS Integers, Sequences, FiniteSets, SequencesExt

CONSTANTS Templates,           \* the templates that are submitted
          Kinds,               \* expected_kinds: the kind of each path of the contract
          Required,            \* required_names
          AllowedFilters, AllowedGlobals,
          MaxAstNodes, MaxAstDepth

VARIABLES template,            \* the template under validation
          step,                \* "inspect", then "visit", then "done"
          parsed,              \* how many of its parts were parsed
          visits,              \* the visitor's calls that are pending, the next one first
          facts,               \* what was found: findings, variables, filters and globals
          verdict              \* the result

tmplvars == <<template, step, parsed, visits, facts, verdict>>

(* What arrives: any text that Jinja parses, in any layout.                          *)

IsNode(node) ==
    /\ node.op \in {"name", "path", "chain", "filter", "call", "for", "rejected", "other"}
    /\ node.role \in {"iter", "body", "else", "test", "node", "child"}
    /\ node.arity \in Nat
    /\ node.op = "name" => node.name \in STRING /\ node.arity = 0
    /\ node.op = "path" => /\ node.path \in Seq(STRING) /\ Len(node.path) >= 2
                           /\ node.arity = 0
    /\ node.op = "for" => node.targets \subseteq STRING /\ node.arity >= 1

IsTree(tree) ==
    /\ IsFiniteSet(DOMAIN tree) /\ DOMAIN tree \subseteq Seq(Nat) /\ <<>> \in DOMAIN tree
    /\ \A a \in DOMAIN tree : /\ IsNode(tree[a])
                              /\ \A k \in 1..tree[a].arity : Append(a, k) \in DOMAIN tree
    /\ \A a \in DOMAIN tree \ {<<>>} :
          /\ Front(a) \in DOMAIN tree /\ Last(a) \in 1..tree[Front(a)].arity
          /\ tree[Front(a)].op = "for" => /\ tree[a].role \in {"iter", "body", "else", "test"}
                                          /\ tree[a].role = "iter" <=> Last(a) = 1

IsTextPart(part) ==
    /\ {part.outside, part.oversized, part.parses} \subseteq BOOLEAN
    /\ \A p \in part.paragraphs :
          /\ p.stray \in BOOLEAN
          /\ \A token \in p.tokens : /\ IsFiniteSet(token.runs) /\ token.runs # {}
                                     /\ {token.structural, token.alone} \subseteq BOOLEAN
    /\ part.parses => IsTree(part.ast)

IsTemplate(t) == /\ {t.packageValid, t.elsewhere} \subseteq BOOLEAN
                 /\ t.parts \in Seq(ToSet(t.parts))
                 /\ \A part \in ToSet(t.parts) : IsTextPart(part)

ASSUME TemplatesAssumption == \A t \in Templates : IsTemplate(t)

ASSUME AstLimitsAssumption == {MaxAstNodes, MaxAstDepth} \subseteq Nat

Pending == [pending |-> TRUE]

SafeFilterKinds == [f \in {"default", "length", "lower", "upper"} |->
                       IF f = "default" THEN {"text", "list", "mapping", "boolean"}
                       ELSE IF f = "length" THEN {"text", "list", "mapping"}
                       ELSE {"text"}]
SafeGlobals  == {"platform_flag"}
PrivateNames == {"_private"}

\* _PLACEHOLDER_NAME of the registry: names of two parts or more, none of them private.
ASSUME ContractAssumption ==
    \A path \in DOMAIN Kinds : /\ path \in Seq(STRING) /\ Len(path) >= 2
                               /\ ToSet(path) \cap PrivateNames = {}

Finding(category) == <<"finding", category>>
When(bad, fact) == IF bad THEN {fact} ELSE {}

--------------------------------------------------------------------------------
(* Layout.  A token has the runs it touches and, if it is structural, whether its  *)
(* row, cell, paragraph or run holds nothing else; "stray" is a delimiter outside  *)
(* of the paragraph's tokens, "outside" one outside of all paragraphs.             *)

InspectToken(paragraph, token) ==
    LET styles == {paragraph.styles[r] : r \in token.runs}
    IN  When(Cardinality(token.runs) > 1, Finding("split_token"))
        \cup When(Cardinality(token.runs) > 1 /\ Cardinality(styles) > 1,
                Finding("partial_style"))
        \cup When(token.structural /\ ~token.alone, Finding("unsupported_structure"))

InspectPart(part) ==
    When(part.outside, Finding("unsupported_structure"))
    \cup (UNION {When(p.stray, Finding("malformed_delimiter"))
                 \cup (UNION {InspectToken(p, t) : t \in p.tokens}) : p \in part.paragraphs})

\* The first loop of validate_template, over all parts of the package.
InspectParts ==
    /\ step = "inspect"
    /\ IF template.packageValid
       THEN /\ facts' = When(template.elsewhere, Finding("unsupported_part"))
                        \cup (UNION {InspectPart(p) : p \in ToSet(template.parts)})
            /\ step' = "visit" /\ UNCHANGED verdict
       ELSE /\ verdict' = [findings |-> {"package_invalid"}, variables |-> {}, filters |-> {}]
            /\ step' = "done" /\ UNCHANGED facts
    /\ UNCHANGED <<template, parsed, visits>>

--------------------------------------------------------------------------------
(* Syntax: the visits of _ContractVisitor.  Each gives facts, the variables, filters  *)
(* and globals that are used and findings, and makes calls for children.              *)

Tree == template.parts[parsed].ast

\* A call for the node at an address, with the names that are local there (_locals).
Call(at, locals) == [at |-> at, locals |-> locals]

Visiting(ops) == step = "visit" /\ visits # <<>> /\ Tree[Head(visits).at].op \in ops

Return(found, calls) == /\ facts' = facts \cup found
                        /\ visits' = calls \o Tail(visits)
                        /\ UNCHANGED <<template, step, parsed, verdict>>

\* generic_visit
ChildCalls(tree, call) ==
    [k \in 1..tree[call.at].arity |-> Call(Append(call.at, k), call.locals)]

\* _attribute_path; a name of the contract always has two parts or more.
AttributePath(node) == IF node.op = "path" THEN node.path
                       ELSE IF node.op = "name" THEN <<node.name>>
                       ELSE <<>>

InContract(path) == path \in DOMAIN Kinds

GetattrFacts(tree, call) ==
    LET path == AttributePath(tree[call.at])
    IN  IF path = <<>> \/ ToSet(path) \cap PrivateNames # {}
        THEN {Finding("unsafe_attribute")}
        ELSE IF InContract(path) THEN {<<"variable", path>>}
        ELSE IF Head(path) \in call.locals THEN {Finding("unsafe_attribute")}
        ELSE {Finding("unknown_variable")}

VisitGetattr == /\ Visiting({"path", "chain"})
                /\ Return(GetattrFacts(Tree, Head(visits)), <<>>)

NameFacts(tree, call) ==
    LET name == tree[call.at].name
    IN  IF name \in call.locals THEN {}
        ELSE IF name \in AllowedGlobals \cap SafeGlobals THEN {<<"global", name>>}
        ELSE {Finding("disallowed_global")}

VisitName == /\ Visiting({"name"})
             /\ Return(NameFacts(Tree, Head(visits)), <<>>)

\* What a filter is applied to; a filter block has no such node.
Operand(tree, at) ==
    IF Append(at, 1) \in DOMAIN tree /\ tree[Append(at, 1)].role = "node"
    THEN AttributePath(tree[Append(at, 1)]) ELSE <<>>

FilterFacts(tree, call) ==
    LET name == tree[call.at].name
        path == Operand(tree, call.at)
    IN  IF name \in AllowedFilters /\ name \in DOMAIN SafeFilterKinds
        THEN {<<"filter", name>>}
             \cup When(InContract(path) /\ Kinds[path] \notin SafeFilterKinds[name],
                     Finding("value_kind_mismatch"))
        ELSE {Finding("disallowed_filter")}

VisitFilter == /\ Visiting({"filter"})
               /\ Return(FilterFacts(Tree, Head(visits)), ChildCalls(Tree, Head(visits)))

VisitCall == /\ Visiting({"call"})
             /\ Return({Finding("disallowed_call")}, ChildCalls(Tree, Head(visits)))

RejectExpression == /\ Visiting({"rejected"})
                    /\ Return({Finding("disallowed_expression")},
                              ChildCalls(Tree, Head(visits)))

GenericVisit == /\ Visiting({"other"})
                /\ Return({}, ChildCalls(Tree, Head(visits)))

IterPath(tree, at) == AttributePath(tree[Append(at, 1)])

ForFacts(tree, call) ==
    LET path == IterPath(tree, call.at)
    IN  IF InContract(path)
        THEN {<<"variable", path>>}
             \cup When(Kinds[path] # "list", Finding("value_kind_mismatch"))
        ELSE {}

\* The names a loop binds are local to its body, its else branch and its test.  What it
\* goes over is visited unless it is of the contract.
ForCalls(tree, call) ==
    LET at    == call.at
        inner == call.locals \cup tree[at].targets
    IN  (IF InContract(IterPath(tree, at)) THEN <<>> ELSE <<Call(Append(at, 1), call.locals)>>)
        \o [k \in 1..(tree[at].arity - 1) |-> Call(Append(at, k + 1), inner)]

\* Mutant: the test of a loop is not visited.
VisitForUntested ==
    /\ Visiting({"for"})
    /\ Return(ForFacts(Tree, Head(visits)),
              SelectSeq(ForCalls(Tree, Head(visits)), LAMBDA c : Tree[c.at].role # "test"))

VisitFor == /\ Visiting({"for"})
            /\ Return(ForFacts(Tree, Head(visits)), ForCalls(Tree, Head(visits)))

--------------------------------------------------------------------------------
(* The second loop of validate_template, over the sources of the parts.               *)

AstExceedsLimits(tree) == \/ Cardinality(DOMAIN tree) > MaxAstNodes
                          \/ \E at \in DOMAIN tree : Len(at) + 1 > MaxAstDepth

\* The source of a part that is too long or nested too deeply is not parsed.
ParsePart ==
    /\ step = "visit" /\ visits = <<>> /\ parsed < Len(template.parts)
    /\ parsed' = parsed + 1
    /\ LET part == template.parts[parsed + 1]
           refused == IF part.oversized THEN {Finding("complexity_limit")}
                      ELSE IF ~part.parses THEN {Finding("malformed_jinja")}
                      ELSE IF AstExceedsLimits(part.ast) THEN {Finding("complexity_limit")}
                      ELSE {}
       IN  /\ facts' = facts \cup refused
           /\ visits' = IF refused = {} THEN <<Call(<<>>, {})>> ELSE <<>>
    /\ UNCHANGED <<template, step, verdict>>

Of(kind) == {f[2] : f \in {g \in facts : g[1] = kind}}

Conclude ==
    /\ step = "visit" /\ visits = <<>> /\ parsed = Len(template.parts)
    /\ verdict' = [findings |-> Of("finding") \cup When(Required \ Of("variable") # {},
                                                     "missing_required_variable"),
                   variables |-> Of("variable"),
                   filters |-> Of("filter")]
    /\ step' = "done"
    /\ UNCHANGED <<template, parsed, visits, facts>>

TemplateInit == /\ template \in Templates /\ step = "inspect" /\ parsed = 0
                /\ visits = <<>> /\ facts = {} /\ verdict = Pending

TemplateNext == \/ InspectParts \/ ParsePart \/ Conclude
                \/ VisitGetattr \/ VisitName \/ VisitFilter \/ VisitCall
                \/ RejectExpression \/ GenericVisit \/ VisitFor

TemplateSpec == TemplateInit /\ [][TemplateNext]_tmplvars

--------------------------------------------------------------------------------
(* Rendering, by the scopes of Jinja (an external library): the places that read a    *)
(* value, each with the loop names that are bound there.  The else branch of a loop   *)
(* runs when the loop had nothing to bind.                                            *)

Above(at, n) == SubSeq(at, 1, n)

\* The loops around a node that bind their names for it.
Binds(tree, at, n) == /\ tree[Above(at, n)].op = "for"
                      /\ tree[Above(at, n + 1)].role \in {"body", "test"}

Bound(tree, at) ==
    UNION {tree[Above(at, n)].targets : n \in {m \in 0..(Len(at) - 1) : Binds(tree, at, m)}}

TreesOf(t) == {p.ast : p \in {q \in ToSet(t.parts) : q.parses}}

\* Two uses of loop names that the visitor does not tell from others: a loop that takes
\* over the first name of the contract's paths, and its name in its else branch.
ReusesIn(tree) ==
    LET roots == {Head(path) : path \in DOMAIN Kinds}
        InElse(at, n) == tree[Above(at, n)].op = "for" /\ tree[Above(at, n + 1)].role = "else"
    IN  \/ \E at \in DOMAIN tree : tree[at].op = "for" /\ tree[at].targets \cap roots # {}
        \/ \E at \in DOMAIN tree : \E n \in 0..(Len(at) - 1) :
              InElse(at, n) /\ tree[at].op = "name" /\ tree[at].name \in tree[Above(at, n)].targets

Reuses(t) == \E tree \in TreesOf(t) : ReusesIn(tree)

\* A place where rendering gets what the contract promises.
Defined(tree, at) ==
    LET node == tree[at]
        Fits(path, kinds) == InContract(path) => Kinds[path] \in kinds
    IN  CASE node.op = "name"   -> \/ node.name \in Bound(tree, at)
                                   \/ node.name \in AllowedGlobals \cap SafeGlobals
          [] node.op = "path"   -> InContract(node.path) /\ Head(node.path) \notin Bound(tree, at)
          [] node.op = "for"    -> Fits(IterPath(tree, at), {"list"})
          [] node.op = "filter" -> /\ node.name \in AllowedFilters \cap DOMAIN SafeFilterKinds
                                   /\ Fits(Operand(tree, at), SafeFilterKinds[node.name])
          [] OTHER              -> node.op = "other"

\* What docxtpl needs of the layout: a token in one run, a structural one alone.
LaidOut(t) == /\ ~t.elsewhere
              /\ \A part \in ToSet(t.parts) :
                    /\ ~part.outside
                    /\ \A p \in part.paragraphs :
                          /\ ~p.stray
                          /\ \A k \in p.tokens : /\ Cardinality(k.runs) = 1
                                                 /\ k.structural => k.alone

Sound(t) == /\ t.packageValid /\ LaidOut(t)
            /\ \A p \in ToSet(t.parts) : p.parses /\ ~p.oversized
            /\ \A tree \in TreesOf(t) :
                  /\ Cardinality(DOMAIN tree) <= MaxAstNodes
                  /\ \A at \in DOMAIN tree : Len(at) < MaxAstDepth /\ Defined(tree, at)

ReadIn(tree) == {tree[at].path : at \in {b \in DOMAIN tree : /\ tree[b].op = "path"
                                          /\ Head(tree[b].path) \notin Bound(tree, b)}}

ReadPaths(t) == UNION {ReadIn(tree) : tree \in TreesOf(t)}

\* A template is accepted exactly if every value that rendering reads, under the scopes of
\* its loops, is one that the contract provides, in a kind that the place can use if the
\* contract declares one, and every required placeholder is read.  Templates that reuse a
\* loop name in the two ways above are left out (_ContractVisitor, validate_template).
AcceptsWhatRenders ==
    verdict # Pending /\ ~Reuses(template) =>
        (verdict.findings = {} <=> Sound(template) /\ Required \subseteq ReadPaths(template))
=================================================================================
