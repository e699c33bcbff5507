---------------------------- MODULE PackageValidation ----------------------------
(* apps/documents/package_validation.py: validate_docx_package, which every          *)
(* template and every rendered document passes, one action per stage.                *)
(*                                                                                   *)
(* A package is how it arrives and the entries of its central directory.  A name is  *)
(* a path and how it is spelled in the archive; a path is its folders, its base, its *)
(* suffix and whether the base has letters of another case.  The root of an XML part *)
(* is its tag and its children.  Findings are their categories: locations, their     *)
(* order and the cut at fifty leave the verdict as it is.                            *)
EXTENDS Integers, Sequences, FiniteSets, SequencesExt

CONSTANTS Packages,             \* the packages that are submitted
          MaxCompressed, MaxEntries, MaxTotal, MaxEntrySize, MaxRatio,
          MaxXmlSize, MaxXmlDepth

VARIABLES package,              \* the package under validation
          stage,                \* the next stage, or "done"
          normalizedEntries,    \* the entries by normalized name
          contents,             \* the names whose bytes were unpacked
          parsedXml,            \* the names whose XML was parsed
          findings              \* categories found so far

(* What arrives: any bytes at all, seen as an archive.                              *)

\* A path as unquoting, NFKC and splitting leave it.
IsPath(path) == path \in [folders : Seq(STRING), base : STRING, suffix : STRING,
                          upper : BOOLEAN]

\* XML of any shape: what the validators read of it when its root has their tag.
IsType(child) ==
    /\ child.kind \in {"default", "override", "other"}
    /\ child.kind = "override" => IsPath(child.key)
    /\ child.kind = "default" => child.key \in STRING
    /\ child.type \in STRING /\ child.extra \in BOOLEAN

IsRelationship(child) ==
    /\ {child.isRelationship, child.extra, child.safe} \subseteq BOOLEAN
    /\ {child.id, child.type, child.mode} \subseteq STRING
    /\ IsPath(child.target)

IsRoot(root) ==
    /\ root.tag \in STRING
    /\ root.tag \in {"Types", "Relationships"} => root.children \in Seq(ToSet(root.children))
    /\ root.tag = "Types" => \A child \in ToSet(root.children) : IsType(child)
    /\ root.tag = "Relationships" =>
          \A child \in ToSet(root.children) : IsRelationship(child)
    /\ root.tag = "document" => root.body \in BOOLEAN

IsPart(part) ==
    /\ part.name.spelled \in {"plain", "escaped", "unsafe", "nul"}
    /\ IsPath(part.name.path)
    /\ {part.size, part.packed, part.depth} \subseteq Nat
    /\ {part.encrypted, part.corrupt} \subseteq BOOLEAN
    /\ part.magic \in {"none", "program", "ole", "zip"}
    /\ part.xml \in {"sound", "undecodable", "dtd", "malformed"}
    /\ IsRoot(part.root)

IsPackage(pkg) ==
    /\ pkg.bytes \in Nat /\ {pkg.interrupted, pkg.zip} \subseteq BOOLEAN
    /\ pkg.directory \in {"sound", "odd", "broken"}
    /\ pkg.parts \in Seq(ToSet(pkg.parts))
    /\ \A part \in ToSet(pkg.parts) : IsPart(part)

ASSUME PackagesAssumption == \A pkg \in Packages : IsPackage(pkg)

ASSUME LimitsAssumption == {MaxCompressed, MaxEntries, MaxTotal, MaxEntrySize, MaxRatio,
                            MaxXmlSize, MaxXmlDepth} \subseteq Nat

pkgvars == <<package, stage, normalizedEntries, contents, parsedXml, findings>>

Path(folders, base, suffix) == [folders |-> folders, base |-> base, suffix |-> suffix,
                                upper |-> FALSE]

ContentTypes      == Path(<<>>, "[Content_Types]", "xml")
RootRelationships == Path(<<"_rels">>, "", "rels")
MainDocument      == Path(<<"word">>, "document", "xml")
RequiredParts     == {ContentTypes, RootRelationships, MainDocument}

--------------------------------------------------------------------------------
(* Names *)

NoName == [noName |-> TRUE]

\* Unquoting and NFKC: several spellings give one path, an unsafe one gives none.
NormalizedEntryName(name) == IF name.spelled = "unsafe" THEN NoName ELSE name.path

Casefold(path) == [path EXCEPT !.upper = FALSE]

WordSuffixes == {"xml", "rels", "png", "jpg", "emf", "odttf"}

StructureIsAllowed(path) ==
    \/ path \in {ContentTypes, RootRelationships}
    \/ /\ path.folders # <<>>
       /\ \/ Head(path.folders) = "docProps" /\ path.suffix = "xml"
          \/ Head(path.folders) = "word" /\ path.suffix \in WordSuffixes

ProhibitedName(path) ==
    IF path.base = "vbaProject" THEN {"macro_content"}
    ELSE IF path.folders = <<"word", "activeX">> THEN {"activex_content"}
    ELSE IF path.base = "oleObject" THEN {"ole_content"}
    ELSE IF "embeddings" \in ToSet(path.folders) THEN {"embedded_content"}
    ELSE IF path.suffix \in {"exe", "js"} THEN {"executable_content"}
    ELSE IF path.suffix = "bin" THEN {"prohibited_binary"}
    ELSE {}

--------------------------------------------------------------------------------
(* The directory *)

Then(next, found) == /\ findings' = found
                     /\ stage' = IF found = {} THEN next ELSE "done"

ReadPackage ==
    /\ stage = "read"
    /\ Then("inspect",
            IF package.bytes > MaxCompressed THEN {"compressed_size_limit"}
            ELSE IF package.interrupted      THEN {"interrupted_read"}
            ELSE IF ~package.zip             THEN {"not_zip"}
            ELSE IF package.directory = "sound"
                    /\ \E part \in ToSet(package.parts) : part.name.spelled = "nul"
                 THEN {"unsafe_entry_name"}
            ELSE IF package.directory = "sound" /\ Len(package.parts) > MaxEntries
                 THEN {"entry_count_limit"}
            ELSE IF package.directory = "broken" THEN {"corrupt_zip"}
            ELSE {})
    /\ UNCHANGED <<package, normalizedEntries, contents, parsedXml>>

\* What the loop of _inspect_entry_metadata does with one entry: an entry whose name is
\* refused is passed over before its size is counted.
InspectEntry(seen, part) ==
    LET name  == NormalizedEntryName(part.name)
        total == seen.total + part.size
        If(bad, category) == IF bad THEN {category} ELSE {}
        refused == IF name = NoName THEN {"unsafe_entry_name"}
                   ELSE IF name \in DOMAIN seen.entries THEN {"duplicate_entry"}
                   ELSE IF \E other \in DOMAIN seen.entries : Casefold(other) = Casefold(name)
                        THEN {"case_collision"}
                   ELSE {}
    IN  IF refused # {} THEN [seen EXCEPT !.found = @ \cup refused]
        ELSE [entries |-> [n \in DOMAIN seen.entries \cup {name} |->
                              IF n = name THEN part ELSE seen.entries[n]],
              total |-> total,
              found |-> UNION {seen.found,
                  If(part.encrypted, "encrypted_entry"),
                  If(part.size > MaxEntrySize, "entry_size_limit"),
                  If(total > MaxTotal, "total_size_limit"),
                  If(part.size > MaxRatio * (IF part.packed = 0 THEN 1 ELSE part.packed),
                     "compression_ratio_limit"),
                  ProhibitedName(name),
                  If(ProhibitedName(name) = {} /\ ~StructureIsAllowed(name),
                     "unsupported_structure")}]

NoEntries == [n \in {} |-> n]

InspectEntryMetadata(parts) ==
    IF Len(parts) > MaxEntries
    THEN [entries |-> NoEntries, total |-> 0, found |-> {"entry_count_limit"}]
    ELSE FoldLeft(InspectEntry, [entries |-> NoEntries, total |-> 0, found |-> {}], parts)

\* Mutant: the archive is unpacked although the directory had findings.
InspectAndGoOn ==
    /\ stage = "inspect"
    /\ LET seen == InspectEntryMetadata(package.parts)
       IN  /\ normalizedEntries' = seen.entries
           /\ findings' = seen.found
           /\ stage' = "unpack"
    /\ UNCHANGED <<package, contents, parsedXml>>

Inspect ==
    /\ stage = "inspect"
    /\ LET seen == InspectEntryMetadata(package.parts)
           missing == IF RequiredParts \subseteq DOMAIN seen.entries THEN {}
                      ELSE {"missing_required_part"}
       IN  /\ normalizedEntries' = seen.entries
           /\ Then("unpack", seen.found \cup missing)
    /\ UNCHANGED <<package, contents, parsedXml>>

\* Entries that cannot be unpacked are findings; parsing goes on with the others.
ReadEntries ==
    /\ stage = "unpack"
    /\ LET opened == {n \in DOMAIN normalizedEntries :
                         normalizedEntries[n].size <= MaxEntrySize}
           sound  == {n \in opened : ~normalizedEntries[n].corrupt}
       IN  /\ contents' = sound
           /\ findings' = findings \cup IF sound = opened THEN {} ELSE {"corrupt_zip"}
    /\ stage' = "parse"
    /\ UNCHANGED <<package, normalizedEntries, parsedXml>>

--------------------------------------------------------------------------------
(* XML parts *)

DangerousMagic(part) == CASE part.magic = "program" -> {"executable_content"}
                          [] part.magic = "ole"     -> {"ole_content"}
                          [] part.magic = "zip"     -> {"embedded_content"}
                          [] OTHER                  -> {}

SafeXml(part) == IF part.size > MaxXmlSize THEN {"xml_size_limit"}
                 ELSE IF part.xml = "undecodable" THEN {"malformed_xml"}
                 ELSE IF part.xml = "dtd" THEN {"xml_dtd_prohibited"}
                 ELSE IF part.depth > MaxXmlDepth THEN {"xml_depth_limit"}
                 ELSE IF part.xml = "malformed" THEN {"malformed_xml"}
                 ELSE {}

IsXml(name) == name.suffix \in {"xml", "rels"}

ParseContents ==
    /\ stage = "parse"
    /\ LET part(n)  == normalizedEntries[n]
           clean    == {n \in contents : DangerousMagic(part(n)) = {}}
           readable == {n \in clean : IsXml(n)}
       IN  /\ parsedXml' = {n \in readable : SafeXml(part(n)) = {}}
           /\ Then("relate", findings \cup (UNION {DangerousMagic(part(n)) : n \in contents})
                                      \cup (UNION {SafeXml(part(n)) : n \in readable}))
    /\ UNCHANGED <<package, normalizedEntries, contents>>

--------------------------------------------------------------------------------
(* [Content_Types].xml: a child is a default for a suffix, an override for a part  *)
(* or something else; "extra" says that it has another attribute.                  *)

ProhibitedContentType(type) ==
    CASE type = "macroEnabled" -> {"macro_content"}
      [] type = "activeX"      -> {"activex_content"}
      [] OTHER                 -> {}

\* The declarations of a kind: the last one of a key counts.
Declared(children, kind) ==
    LET Is(i) == children[i].kind = kind
        keys  == {children[i].key : i \in {j \in 1..Len(children) : Is(j)}}
        LastOf(k) == CHOOSE i \in 1..Len(children) :
                        /\ Is(i) /\ children[i].key = k
                        /\ \A j \in (i + 1)..Len(children) : ~(Is(j) /\ children[j].key = k)
    IN  [k \in keys |-> children[LastOf(k)].type]

\* What the checks ask of the declarations, their maps and the names of the entries.
DeclarationsAreSound(children, defaults, overrides, names) ==
    LET Repeats(i) == \E j \in 1..(i - 1) : /\ children[j].kind = children[i].kind
                                            /\ children[j].key = children[i].key
        Gives(f, k, type) == k \in DOMAIN f /\ f[k] = type
    IN  /\ \A i \in 1..Len(children) : /\ children[i].kind # "other"
                                       /\ ~children[i].extra
                                       /\ ~Repeats(i)
        /\ Gives(defaults, "rels", "relationships")
        /\ Gives(defaults, "xml", "xml")
        /\ DOMAIN overrides \subseteq names
        /\ Gives(overrides, MainDocument, "main")
        /\ \A n \in names \ {ContentTypes} :
              n \in DOMAIN overrides \/ n.suffix \in DOMAIN defaults

ValidateContentTypes(root, names) ==
    LET defaults  == Declared(root.children, "default")
        overrides == Declared(root.children, "override")
        sound == DeclarationsAreSound(root.children, defaults, overrides, names)
    IN  IF root.tag # "Types" THEN {"invalid_content_types"}
        ELSE (IF sound THEN {} ELSE {"invalid_content_types"})
             \cup (UNION {ProhibitedContentType(defaults[k]) : k \in DOMAIN defaults})
             \cup (UNION {ProhibitedContentType(overrides[k]) : k \in DOMAIN overrides})

--------------------------------------------------------------------------------
(* Relationships *)

\* The folder of the part that a .rels part belongs to.
SourceDirectory(rels) == IF rels = RootRelationships THEN <<>> ELSE Front(rels.folders)

\* Mutant: a target is looked up from the root of the package.
ResolvedFromRoot(rels, target) == target

Resolved(rels, target) == [target EXCEPT !.folders = SourceDirectory(rels) \o @]

SafeTypes == {"officeDocument", "image", "styles", "header", "core-properties"}

\* What the loop of _validate_relationships does with one child.
ValidateRelationship(rels, names, seen, child) ==
    LET malformed == \/ ~child.isRelationship
                     \/ child.id = "bad" \/ child.id \in seen.ids
                     \/ child.type \notin SafeTypes
                     \/ child.extra
        internal  == child.mode \in {"none", "Internal"}
        toMain    == /\ rels = RootRelationships
                     /\ child.type = "officeDocument" /\ child.target = MainDocument
        found     == IF malformed THEN {"malformed_relationships"}
                     ELSE IF child.mode = "External" THEN {"external_relationship"}
                     ELSE IF ~internal THEN {"malformed_relationships"}
                     ELSE IF ~child.safe THEN {"unsafe_relationship_target"}
                     ELSE IF Resolved(rels, child.target) \notin names
                          THEN {"missing_relationship_target"}
                     ELSE {}
    IN  [ids   |-> IF malformed THEN seen.ids ELSE seen.ids \cup {child.id},
         main  |-> seen.main + IF ~malformed /\ internal /\ toMain THEN 1 ELSE 0,
         found |-> seen.found \cup found]

ValidateRelationships(root, rels, names) ==
    LET Step(seen, child) == ValidateRelationship(rels, names, seen, child)
        seen == FoldLeft(Step, [ids |-> {}, main |-> 0, found |-> {}], root.children)
    IN  IF root.tag # "Relationships" THEN {"malformed_relationships"}
        ELSE seen.found \cup IF rels = RootRelationships /\ seen.main # 1
                             THEN {"malformed_relationships"} ELSE {}

ValidateWordDocument(root) == IF root.tag = "document" /\ root.body THEN {}
                              ELSE {"invalid_word_document"}

Relate ==
    /\ stage = "relate"
    /\ LET root(n) == normalizedEntries[n].root
           names   == DOMAIN normalizedEntries
       IN  findings' = ValidateContentTypes(root(ContentTypes), names)
                       \cup ValidateWordDocument(root(MainDocument))
                       \cup UNION {ValidateRelationships(root(n), n, names) :
                                      n \in {m \in parsedXml : m.suffix = "rels"}}
    /\ stage' = "done"
    /\ UNCHANGED <<package, normalizedEntries, contents, parsedXml>>

--------------------------------------------------------------------------------

PackageInit == /\ package \in Packages
               /\ stage = "read"
               /\ normalizedEntries = NoEntries
               /\ contents = {} /\ parsedXml = {} /\ findings = {}

PackageNext == ReadPackage \/ Inspect \/ ReadEntries \/ ParseContents \/ Relate

PackageSpec == PackageInit /\ [][PackageNext]_pkgvars

IsValid == stage = "done" /\ findings = {}

--------------------------------------------------------------------------------
(* What a package has to be, said of all its entries at once. *)

Entries(pkg)   == ToSet(pkg.parts)
Names(pkg)     == {part.name.path : part \in Entries(pkg)}
TotalSize(pkg) == FoldLeft(LAMBDA sum, part : sum + part.size, 0, pkg.parts)
PartAt(pkg, n) == CHOOSE part \in Entries(pkg) : part.name.path = n

\* One entry for each name, whatever its spelling and letter case.
NamesAreUnique(pkg) ==
    /\ \A part \in Entries(pkg) : part.name.spelled # "unsafe"
    /\ \A i, j \in 1..Len(pkg.parts) :
          i # j => Casefold(pkg.parts[i].name.path) # Casefold(pkg.parts[j].name.path)

\* Only a directory that can be followed says which names were cut at a NUL.
NamesAreWhole(pkg) ==
    pkg.directory = "sound" => \A part \in Entries(pkg) : part.name.spelled # "nul"

WithinLimits(pkg) ==
    /\ pkg.bytes <= MaxCompressed
    /\ Len(pkg.parts) <= MaxEntries
    /\ TotalSize(pkg) <= MaxTotal
    /\ \A part \in Entries(pkg) :
          /\ part.size <= MaxEntrySize
          /\ part.size <= MaxRatio * part.packed \/ part.size <= MaxRatio
          /\ IsXml(part.name.path) => part.size <= MaxXmlSize /\ part.depth <= MaxXmlDepth

\* Word can open it: every entry can be read and is what its name says.
Readable(pkg) ==
    /\ ~pkg.interrupted /\ pkg.zip /\ pkg.directory # "broken"
    /\ \A part \in Entries(pkg) :
          /\ ~part.encrypted /\ ~part.corrupt /\ part.magic = "none"
          /\ IsXml(part.name.path) => part.xml = "sound"
          /\ StructureIsAllowed(part.name.path)
          /\ ProhibitedName(part.name.path) = {}

\* Each part has a type, and each typed part is there.
Typed(types, names) ==
    LET children == types.children
        Types(i, n) == \/ children[i].kind = "override" /\ children[i].key = n
                       \/ children[i].kind = "default" /\ children[i].key = n.suffix
        Says(kind, key, type) == \E i \in 1..Len(children) : /\ children[i].kind = kind
                                                            /\ children[i].key = key
                                                            /\ children[i].type = type
    IN  /\ types.tag = "Types"
        /\ \A n \in names \ {ContentTypes} : \E i \in 1..Len(children) : Types(i, n)
        /\ \A i \in 1..Len(children) :
              /\ children[i].kind \in {"default", "override"} /\ ~children[i].extra
              /\ children[i].kind = "override" => children[i].key \in names
              /\ children[i].type \notin {"macroEnabled", "activeX"}
        /\ \A i, j \in 1..Len(children) :
              i # j => <<children[i].kind, children[i].key>>
                       # <<children[j].kind, children[j].key>>
        /\ Says("default", "rels", "relationships") /\ Says("default", "xml", "xml")
        /\ Says("override", MainDocument, "main")

\* Every relationship of a part leads to a part of the package.
Leads(child, rels, names) ==
    /\ child.isRelationship /\ ~child.extra /\ child.safe
    /\ child.id # "bad" /\ child.type \in SafeTypes
    /\ child.mode \in {"none", "Internal"}
    /\ [child.target EXCEPT !.folders =
           (IF rels = RootRelationships THEN <<>> ELSE Front(rels.folders)) \o @] \in names

Connected(root, rels, names) ==
    /\ root.tag = "Relationships"
    /\ \A i \in 1..Len(root.children) : Leads(root.children[i], rels, names)
    /\ \A i, j \in 1..Len(root.children) :
          i # j => root.children[i].id # root.children[j].id

\* The root leads to the main document, and once.
LeadsToMain(root) ==
    Cardinality({i \in 1..Len(root.children) :
                    /\ root.children[i].type = "officeDocument"
                    /\ root.children[i].target = MainDocument}) = 1

IsWordDocument(root) == root.tag = "document" /\ root.body

Conforms(pkg) ==
    LET names == Names(pkg)
        Root(n) == PartAt(pkg, n).root
    IN  /\ NamesAreUnique(pkg) /\ NamesAreWhole(pkg) /\ WithinLimits(pkg) /\ Readable(pkg)
        /\ RequiredParts \subseteq names
        /\ Typed(Root(ContentTypes), names) /\ IsWordDocument(Root(MainDocument))
        /\ \A n \in names : n.suffix = "rels" => Connected(Root(n), n, names)
        /\ LeadsToMain(Root(RootRelationships))

\* Exactly the conforming packages are accepted: what one stage passes over (a refused
\* name is not counted, an unreadable part is not parsed) is not lost for the verdict,
\* and no sound package is refused because of another entry (validate_docx_package).
AcceptsWhatConforms == stage = "done" => (IsValid <=> Conforms(package))

\* Nothing is unpacked before the directory has been found in order, so what is unpacked
\* stays within the limits whatever the directory says (lines 588-598).
UnpackingIsBounded ==
    /\ contents \subseteq DOMAIN normalizedEntries
    /\ contents # {} => NamesAreUnique(package) /\ TotalSize(package) <= MaxTotal
=================================================================================
