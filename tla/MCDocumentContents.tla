--------------------------- MODULE MCDocumentContents ---------------------------
(* Samples for the checks of what users hand in: packages, templates, values to    *)
(* format and the relationship pages of a case.  A behaviour takes one of them.     *)
EXTENDS PackageValidation, TemplateValidation, LegalFormatters, CaseRelations

Part(path, root) == [name |-> [spelled |-> "plain", path |-> path], size |-> 1, packed |-> 1,
                     encrypted |-> FALSE, corrupt |-> FALSE, magic |-> "none",
                     xml |-> "sound", depth |-> 1, root |-> root]

\* A part with one thing wrong that can be wrong with any part.
Damaged(part) == {[part EXCEPT !.corrupt = TRUE], [part EXCEPT !.encrypted = TRUE],
                  [part EXCEPT !.xml = "dtd"], [part EXCEPT !.xml = "malformed"],
                  [part EXCEPT !.depth = MaxXmlDepth + 1], [part EXCEPT !.magic = "zip"],
                  [part EXCEPT !.size = MaxEntrySize], [part EXCEPT !.name.spelled = "unsafe"],
                  [part EXCEPT !.name.spelled = "nul"], [part EXCEPT !.name.spelled = "escaped"],
                  [part EXCEPT !.name.path.upper = TRUE]}

Type(kind, key, type) == [kind |-> kind, key |-> key, type |-> type, extra |-> FALSE]
Types(children) == [tag |-> "Types", children |-> children]

Image  == Path(<<"word", "media">>, "image", "png")
Header == Path(<<"word">>, "header", "xml")

GoodTypes == <<Type("default", "rels", "relationships"), Type("default", "xml", "xml"),
               Type("override", MainDocument, "main")>>
PngType   == Type("default", "png", "image")

TypesParts ==
    LET good == Part(ContentTypes, Types(Append(GoodTypes, PngType)))
    IN  {good, [good EXCEPT !.root.tag = "other"]}
        \cup {[good EXCEPT !.root.children = c] : c \in
                 {GoodTypes, Tail(GoodTypes), <<GoodTypes[1], GoodTypes[2]>>,
                  Append(GoodTypes, Type("default", "png", "macroEnabled")),
                  GoodTypes \o <<Type("default", "png", "macroEnabled"), PngType>>,
                  Append(GoodTypes, Type("override", Image, "image")),
                  Append(GoodTypes, Type("other", "", "")),
                  Append(GoodTypes, [PngType EXCEPT !.extra = TRUE])}}

Relation(id, type, target) == [isRelationship |-> TRUE, id |-> id, type |-> type,
                               extra |-> FALSE, mode |-> "none", safe |-> TRUE,
                               target |-> target]
Relations(path, children) == Part(path, [tag |-> "Relationships", children |-> children])
ToMain == Relation("r1", "officeDocument", MainDocument)
ToImage == Relation("r2", "image", Image)

RootParts ==
    {Relations(RootRelationships, c) : c \in
        {<<ToMain>>, <<>>, <<ToMain, [ToMain EXCEPT !.id = "r2"]>>, <<ToMain, ToMain>>,
         <<ToMain, ToImage>>, <<[ToMain EXCEPT !.type = "image"]>>}
        \cup {<<r>> : r \in {[ToMain EXCEPT !.id = "bad"], [ToMain EXCEPT !.mode = "External"],
                             [ToMain EXCEPT !.mode = "Internal"],
                             [ToMain EXCEPT !.mode = "other"], [ToMain EXCEPT !.safe = FALSE],
                             [ToMain EXCEPT !.isRelationship = FALSE],
                             [ToMain EXCEPT !.extra = TRUE],
                             [ToMain EXCEPT !.type = "unknown"]}}}
    \cup {Part(RootRelationships, [tag |-> "other"])}

DocumentParts ==
    LET good == Part(MainDocument, [tag |-> "document", body |-> TRUE])
    IN  {good, [good EXCEPT !.root.tag = "other"], [good EXCEPT !.root.body = FALSE]}
        \cup Damaged(good)

ImagePart == Part(Image, [tag |-> "none"])
HeaderPart == Part(Header, [tag |-> "hdr"])
MainRelations(children) ==
    Relations(Path(<<"word", "_rels">>, "document.xml", "rels"), children)

OtherParts ==
    {ImagePart, HeaderPart,
     MainRelations(<<[ToImage EXCEPT !.target.folders = <<"media">>]>>),
     MainRelations(<<ToImage>>),
     MainRelations(<<Relation("r1", "header", [Header EXCEPT !.folders = <<>>])>>),
     [ImagePart EXCEPT !.magic = "program"], [ImagePart EXCEPT !.magic = "ole"],
     [ImagePart EXCEPT !.size = MaxEntrySize + 1],
     [ImagePart EXCEPT !.size = MaxRatio + 1, !.packed = 0],
     [HeaderPart EXCEPT !.size = MaxXmlSize + 1, !.packed = MaxXmlSize + 1],
     [HeaderPart EXCEPT !.xml = "undecodable"]}
    \cup {Part(p, [tag |-> "none"]) : p \in
             {Path(<<"other">>, "part", "xml"), Path(<<"docProps">>, "core", "xml"),
              Path(<<"word">>, "vbaProject", "bin"), Path(<<"word">>, "oleObject", "xml"),
              Path(<<"word", "activeX">>, "control", "xml"), Path(<<"word">>, "run", "exe"),
              Path(<<"word", "embeddings">>, "sheet", "xml"), Path(<<"word">>, "data", "bin")}}
    \cup Damaged(HeaderPart) \cup Damaged(Part(MainDocument, [tag |-> "document", body |-> TRUE]))

GoodRoot == Relations(RootRelationships, <<ToMain>>)
GoodMain == Part(MainDocument, [tag |-> "document", body |-> TRUE])
GoodTypesPart == Part(ContentTypes, Types(Append(GoodTypes, PngType)))

Contents == {<<t, r, d>> : t \in TypesParts, r \in RootParts, d \in DocumentParts}
            \cup {<<GoodTypesPart, GoodRoot, GoodMain, p, q>> : p, q \in OtherParts}
            \cup {<<t, GoodRoot, GoodMain, p>> : t \in TypesParts, p \in OtherParts}
            \cup {<<p, r, GoodTypesPart, GoodMain>> : p \in OtherParts, r \in RootParts}
            \cup {<<d, GoodRoot>> : d \in DocumentParts}
            \cup {<<GoodTypesPart, GoodRoot, GoodMain, ImagePart, HeaderPart, p>> :
                      p \in OtherParts}

Sent(parts) == [bytes |-> Len(parts), interrupted |-> FALSE, zip |-> TRUE,
                directory |-> "sound", parts |-> parts]

SamplePackages ==
    LET fine == Sent(<<GoodTypesPart, GoodRoot, GoodMain>>)
    IN  {Sent(c) : c \in Contents}
        \cup {[fine EXCEPT !.bytes = MaxCompressed + 1], [fine EXCEPT !.bytes = MaxCompressed],
              [fine EXCEPT !.interrupted = TRUE], [fine EXCEPT !.zip = FALSE],
              [fine EXCEPT !.directory = "odd"], [fine EXCEPT !.directory = "broken"],
              [fine EXCEPT !.directory = "odd",
                           !.parts = @ \o <<ImagePart, HeaderPart, ImagePart>>]}
        \cup {[Sent(<<GoodTypesPart, GoodRoot, GoodMain, [HeaderPart EXCEPT !.name.spelled = "nul"]>>)
                  EXCEPT !.directory = d] : d \in {"sound", "odd"}}

--------------------------------------------------------------------------------
(* Templates *)

Name(n) == [op |-> "name", name |-> n]
Read(path) == [op |-> "path", path |-> path]
Node(op, children) == [op |-> op, children |-> children]
Filter(name, child) == [op |-> "filter", name |-> name, children |-> <<child>>]
For(targets, iter, body, else, test) ==
    [op |-> "for", targets |-> targets, iter |-> iter, body |-> body, else |-> else,
     test |-> test]

Title == Read(<<"document", "title">>)
Items == Read(<<"document", "items">>)

SampleKinds == [p \in {Title.path, Items.path, <<"case", "name">>} |->
                   IF p = Items.path THEN "list" ELSE "text"]
SampleRequired == {Title.path}

Leaves == {Name("x"), Name("platform_flag"), Name("cycler"), Title, Items,
           Read(<<"document", "other">>), Read(<<"x", "a">>), Read(<<"x", "_private">>),
           Node("chain", <<Title>>)}
Filtered == {Filter(f, c) : f \in {"upper", "length", "default", "shout"},
                            c \in {Title, Items, Name("x"), Name("cycler")}}
Simple == Leaves \cup Filtered \cup {[op |-> "filter", name |-> "upper", children |-> <<>>]}
          \cup {Node(op, <<c>>) : op \in {"call", "rejected", "other"}, c \in Leaves}
Loops == {For(t, i, <<b>>, e, s) : t \in {{"x"}, {"x", "y"}, {"document"}},
              i \in {Items, Title, Name("platform_flag"), Name("x")},
              b \in Leaves \cup {Filter("upper", Name("x")), Filter("upper", Items)},
              e \in {<<>>, <<Name("x")>>, <<Title>>, <<Name("y")>>},
              s \in {<<>>, <<Name("x")>>, <<Node("rejected", <<Title>>)>>}}
         \cup {For({"x"}, Items, <<For({t}, i, <<b>>, <<>>, <<>>), a>>, <<>>, <<>>) :
                  t \in {"x", "y"}, i \in {Items, Name("x")}, b \in Leaves, a \in Leaves}

Root(children) == Node("other", children)

\* The children of a node with their roles, in the order of the syntax tree.
Fields(node) ==
    LET As(role, nodes) == [i \in 1..Len(nodes) |-> [role |-> role, node |-> nodes[i]]]
    IN  CASE node.op \in {"name", "path"} -> <<>>
          [] node.op = "for" -> As("iter", <<node.iter>>) \o As("body", node.body)
                                \o As("else", node.else) \o As("test", node.test)
          [] node.op = "filter" -> As("node", node.children)
          [] OTHER -> As("child", node.children)

\* A nested term as the tree that the specification works on.
RECURSIVE TreeOf(_, _)
TreeOf(node, role) ==
    LET fields == Fields(node)
        below  == [k \in 1..Len(fields) |-> TreeOf(fields[k].node, fields[k].role)]
        kept   == DOMAIN node \cap {"op", "name", "path", "targets"}
        label  == [f \in kept \cup {"role", "arity"} |->
                      CASE f = "role" -> role [] f = "arity" -> Len(fields) [] OTHER -> node[f]]
    IN  [at \in {<<>>} \cup UNION {{<<k>> \o a : a \in DOMAIN below[k]} : k \in 1..Len(fields)} |->
            IF at = <<>> THEN label ELSE below[Head(at)][Tail(at)]]
Trees == {Root(<<Title, s>>) : s \in Simple \cup Loops} \cup {Root(<<s>>) : s \in Simple \cup Loops}
         \cup {Root(<<For({"x"}, Items, <<Name("x")>>, <<>>, <<>>), s>>) : s \in Simple}
         \cup {Root(<<Title, Node("other", <<Node("other", <<Node("other", <<Title>>)>>)>>)>>)}

TextPart(ast) == [outside |-> FALSE, paragraphs |-> {}, oversized |-> FALSE, parses |-> TRUE,
                  ast |-> TreeOf(ast, "child")]
Paragraph(runs, structural, alone, stray) ==
    [styles |-> [r \in 1..3 |-> IF r = 3 THEN "bold" ELSE "plain"], stray |-> stray,
     tokens |-> {[runs |-> runs, structural |-> structural, alone |-> alone]}]

Whole(parts) == [packageValid |-> TRUE, elsewhere |-> FALSE, parts |-> parts]
SampleTemplates ==
    LET fine == TextPart(Root(<<Title>>))
    IN  {Whole(<<TextPart(t)>>) : t \in Trees}
        \cup {Whole(<<fine, TextPart(Root(<<s>>))>>) : s \in Simple}
        \cup {Whole(<<TextPart(Root(<<s>>)), fine>>) : s \in Simple}
        \cup {Whole(<<[fine EXCEPT !.paragraphs = {Paragraph(r, u, a, v)}]>>) :
                 r \in {{1}, {1, 2}, {2, 3}}, u, a, v \in BOOLEAN}
        \cup {Whole(<<[fine EXCEPT !.outside = TRUE]>>), Whole(<<[fine EXCEPT !.parses = FALSE]>>),
              Whole(<<[fine EXCEPT !.oversized = TRUE]>>), Whole(<<>>),
              [Whole(<<fine>>) EXCEPT !.elsewhere = TRUE],
              [Whole(<<fine>>) EXCEPT !.packageValid = FALSE]}

--------------------------------------------------------------------------------
(* Amounts and passages *)

Groups == {0, 1, 4, 5, 10, 11, 15, 20, 21, 24, 25, 100, 101, 105, 110, 115, 120, 121, 555}
SampleAmounts ==
    {<<>>} \cup {<<g>> : g \in 1..999}
    \cup {<<g, h>> : g \in Groups, h \in Groups \ {0}}
    \cup {<<a, b, c, d, e>> : a \in {0, 5, 101}, b \in {0, 1, 15}, c \in {0, 4},
                             d \in {0, 2, 10, 100}, e \in {1, 21, 105}}
    \cup {<<g, 0, 0, 0, 0, 1>> : g \in {0, 7}}
SamplePassages ==
    UNION {[1..n -> {"a", "&", "{", "b", "\n", "\r"}] : n \in 0..4}
    \cup {<<"a", "x">>, <<"a", "\n", "b", "\n", "b", "\n", "a">>}

--------------------------------------------------------------------------------

VARIABLE checked       \* what this behaviour checks

Blank == [parts |-> <<>>]

NoPackage   == /\ package = Blank /\ stage = "idle" /\ normalizedEntries = NoEntries
               /\ contents = {} /\ parsedXml = {} /\ findings = {}
NoTemplate  == /\ template = Pending /\ step = "idle" /\ parsed = 0 /\ visits = <<>>
               /\ facts = {} /\ verdict = Pending
NoValue     == given = Waiting /\ formatted = Waiting
NoRelations == rows = <<>> /\ selectable = {}

Init == \/ checked = "package" /\ PackageInit /\ NoTemplate /\ NoValue /\ NoRelations
        \/ checked = "template" /\ TemplateInit /\ NoPackage /\ NoValue /\ NoRelations
        \/ checked = "value" /\ FormatInit /\ NoPackage /\ NoTemplate /\ NoRelations
        \/ checked = "relations" /\ RelationsInit /\ NoPackage /\ NoTemplate /\ NoValue

Next == /\ \/ PackageNext /\ UNCHANGED <<tmplvars, given, formatted, relvars>>
           \/ TemplateNext /\ UNCHANGED <<pkgvars, given, formatted, relvars>>
           \/ /\ checked = "value" /\ FormatNext
              /\ UNCHANGED <<pkgvars, tmplvars, relvars>>
           \/ /\ checked = "relations" /\ RelationsNext
              /\ UNCHANGED <<pkgvars, tmplvars, given, formatted>>
        /\ UNCHANGED checked

Spec == Init /\ [][Next]_<<pkgvars, tmplvars, given, formatted, relvars, checked>>
=================================================================================
