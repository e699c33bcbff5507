------------------------- MODULE DocumentContentsProofs -------------------------
(* Proofs about what users hand in: packages, templates, the relationship pages of  *)
(* a case, amounts of money and passages.  All are gone over in loops, so first is  *)
(* what a fold over a sequence does, for sequences of any length: by the least      *)
(* place where a claim about the places passed would fail.                          *)
EXTENDS PackageValidation, TemplateValidation, CaseRelations, LegalFormatters,
        FiniteSetTheorems, SequenceTheorems, WellFoundedInduction, TLAPS

LEMMA Least ==
  ASSUME NEW T \in SUBSET Nat, T # {}
  PROVE  \E n \in T : \A m \in T : n <= m
<1> DEFINE R == {pair \in Nat \X Nat : pair[1] < pair[2]}
<1>1. R = OpToRel(<, Nat)
  BY DEF OpToRel
<1>2. IsWellFoundedOn(R, Nat)
  BY <1>1, NatLessThanWellFounded
<1>3. PICK n \in T : \A m \in T : <<m, n>> \notin R
  <2> HIDE DEF R
  <2> QED
    BY <1>2, WFMin
<1>4. ASSUME NEW m \in T PROVE n <= m
  <2>1. m \in Nat /\ n \in Nat /\ <<m, n>> \notin R
    BY <1>3
  <2> QED
    BY <2>1
<1> QED
  BY <1>4

LEMMA Climb ==
  ASSUME NEW n \in Nat, NEW S, 0 \in S, \A k \in 0..(n - 1) : k \in S => k + 1 \in S
  PROVE  \A k \in 0..n : k \in S
<1> SUFFICES ASSUME NEW k \in 0..n, k \notin S PROVE FALSE
  OBVIOUS
<1> DEFINE T == {m \in 0..n : m \notin S}
<1>1. T \in SUBSET Nat /\ T # {}
  OBVIOUS
<1>2. PICK m \in T : \A j \in T : m <= j
  <2> HIDE DEF T
  <2> QED
    BY <1>1, Least
<1>3. m # 0 /\ m - 1 \in 0..(n-1) /\ m - 1 \notin T
  BY <1>2
<1> QED
  BY <1>2, <1>3

\* greatest
LEMMA MaxIs ==
  ASSUME NEW n \in Nat, NEW s \in SUBSET (1..n), n \in s
  PROVE  Max(s) = n
<1>1. \A x \in s : x <= n
  OBVIOUS
<1>2. \A x \in s : (\A y \in s : x >= y) => x = n
  BY <1>1
<1> QED
  BY <1>1, <1>2 DEF Max

LEMMA MaxIn ==
  ASSUME NEW n \in Nat, NEW s \in SUBSET (1..n), s # {}
  PROVE  Max(s) \in s
<1> DEFINE T == {m \in 0..n : \A x \in s : x <= m}
<1>1. T \in SUBSET Nat /\ n \in T
  OBVIOUS
<1>2. PICK m \in T : \A j \in T : m <= j
  <2> HIDE DEF T
  <2> QED
    BY <1>1, Least
<1>3. m \in s
  <2> SUFFICES ASSUME m \notin s PROVE FALSE
    OBVIOUS
  <2>1. m # 0
    <3>1. PICK x \in s : x <= m /\ x \in 1..n
      BY <1>2
    <3> QED
      BY <3>1
  <2>2. m - 1 \in T
    BY <2>1, <1>2
  <2> QED
    BY <1>2, <2>2
<1>4. \A x \in s : m >= x
  BY <1>2
<1> QED
  BY <1>3, <1>4 DEF Max

\* F steps
IsFold(g, n, base, F) ==
  \A s \in SUBSET (1..n) : g[s] = IF s = {} THEN base ELSE F[<<g[s \ {Max(s)}], Max(s)>>]

LEMMA FoldExists ==
  ASSUME NEW n \in Nat, NEW D, NEW base \in D, NEW F \in [D \X (1..n) -> D]
  PROVE  \E g \in [SUBSET (1..n) -> D] : IsFold(g, n, base, F)
<1> DEFINE S == {k \in 0..n : \E g \in [SUBSET (1..k) -> D] : IsFold(g, k, base, F)}
<1>1. 0 \in S
  <2> DEFINE g0 == [s \in SUBSET (1..0) |-> base]
  <2>1. g0 \in [SUBSET (1..0) -> D]
    OBVIOUS
  <2>2. \A s \in SUBSET (1..0) : s = {}
    OBVIOUS
  <2>3. IsFold(g0, 0, base, F)
    BY <2>2 DEF IsFold
  <2> QED
    BY <2>1, <2>3
<1>2. ASSUME NEW k \in 0..(n - 1), k \in S PROVE k + 1 \in S
  <2>1. PICK g \in [SUBSET (1..k) -> D] : IsFold(g, k, base, F)
    BY <1>2
  <2> DEFINE h == [s \in SUBSET (1..(k+1)) |->
                     IF k + 1 \in s THEN F[<<g[s \ {k + 1}], k + 1>>] ELSE g[s]]
  <2>2. \A s \in SUBSET (1..(k + 1)) : s \ {k + 1} \in SUBSET (1..k)
    OBVIOUS
  <2>3. h \in [SUBSET (1..(k+1)) -> D]
    <3> SUFFICES ASSUME NEW s \in SUBSET (1..(k+1)) PROVE h[s] \in D
      OBVIOUS
    <3>1. CASE k + 1 \in s
      BY <2>2, <3>1
    <3>2. CASE k + 1 \notin s
      <4>1. s \in SUBSET (1..k)
        BY <2>2, <3>2
      <4> QED
        BY <3>2, <4>1
    <3> QED BY <3>1, <3>2
  <2>4. ASSUME NEW s \in SUBSET (1..(k + 1))
        PROVE h[s] = IF s = {} THEN base ELSE F[<<h[s \ {Max(s)}], Max(s)>>]
    <3>1. CASE k + 1 \in s
      <4>1. Max(s) = k + 1
        BY <3>1, MaxIs
      <4>2. s \ {k + 1} \in SUBSET (1..(k+1)) /\ k + 1 \notin s \ {k + 1}
        OBVIOUS
      <4>3. h[s \ {k + 1}] = g[s \ {k + 1}]
        BY <4>2
      <4> QED BY <3>1, <4>1, <4>3
    <3>2. CASE k + 1 \notin s
      <4>1. s \in SUBSET (1..k)
        BY <2>2, <3>2
      <4>2. h[s] = g[s]
        BY <3>2
      <4>3. CASE s = {}
        BY <2>1, <4>1, <4>2, <4>3 DEF IsFold
      <4>4. CASE s # {}
        <5>1. Max(s) \in s
          <6>1. k \in Nat
            OBVIOUS
          <6> QED
            BY <4>1, <4>4, <6>1, MaxIn
        <5>2. h[s \ {Max(s)}] = g[s \ {Max(s)}]
          BY <3>2
        <5>3. g[s] = F[<<g[s \ {Max(s)}], Max(s)>>]
          BY <2>1, <4>1, <4>4 DEF IsFold
        <5> QED BY <4>2, <4>4, <5>2, <5>3
      <4> QED BY <4>3, <4>4
    <3> QED BY <3>1, <3>2
  <2>5. IsFold(h, k + 1, base, F)
    <3> HIDE DEF h
    <3> QED
      BY <2>4 DEF IsFold
  <2>6. k + 1 \in 0..n
    OBVIOUS
  <2> HIDE DEF h
  <2> QED
    BY <2>3, <2>5, <2>6
<1>3. n \in S
  <2> HIDE DEF S
  <2>1. n \in 0..n
    OBVIOUS
  <2> QED
    BY <1>1, <1>2, <2>1, Climb
<1> QED
  BY <1>3

LEMMA FirstOnes ==
  ASSUME NEW n \in Nat
  PROVE  /\ 1..0 = {}
         /\ \A k \in 1..n : /\ 1..k \in SUBSET (1..n) /\ 1..k # {}
                            /\ Max(1..k) = k
                            /\ (1..k) \ {Max(1..k)} = 1..(k - 1)
<1>1. 1..0 = {}
  OBVIOUS
<1>2. ASSUME NEW k \in 1..n
      PROVE  /\ 1..k \in SUBSET (1..n) /\ 1..k # {}
             /\ Max(1..k) = k
             /\ (1..k) \ {Max(1..k)} = 1..(k - 1)
  <2>1. k \in Nat /\ k \in 1..k
    OBVIOUS
  <2>2. 1..k \in SUBSET (1..n)
    OBVIOUS
  <2>3. Max(1..k) = k
    <3>1. 1..k \in SUBSET (1..k) OBVIOUS
    <3> QED BY <2>1, <3>1, MaxIs
  <2>4. (1..k) \ {k} = 1..(k - 1)
    <3>1. \A x \in (1..k) \ {k} : x \in 1..(k - 1) OBVIOUS
    <3>2. \A x \in 1..(k - 1) : x \in (1..k) \ {k} OBVIOUS
    <3> QED BY <3>1, <3>2
  <2> QED BY <2>1, <2>2, <2>3, <2>4
<1> QED BY <1>1, <1>2


--------------------------------------------------------------------------------
(* Packages *)

\* The directory of a package is in order: what Inspect finds out entry by entry.
EntryInOrder(part) ==
    /\ part.name.spelled # "unsafe" /\ ~part.encrypted
    /\ part.size <= MaxEntrySize
    /\ part.size <= MaxRatio * (IF part.packed = 0 THEN 1 ELSE part.packed)
    /\ ProhibitedName(part.name.path) = {} /\ StructureIsAllowed(part.name.path)

DistinctNames(pkg) ==
    \A i, j \in 1..Len(pkg.parts) :
        i # j => Casefold(pkg.parts[i].name.path) # Casefold(pkg.parts[j].name.path)

DirectoryInOrder(pkg) == /\ Len(pkg.parts) <= MaxEntries /\ TotalSize(pkg) <= MaxTotal
                         /\ \A part \in Entries(pkg) : EntryInOrder(part)
                         /\ DistinctNames(pkg)

Inventory(pkg) == [n \in Names(pkg) |-> PartAt(pkg, n)]

Arrives(pkg) == /\ pkg.bytes <= MaxCompressed /\ ~pkg.interrupted /\ pkg.zip
                /\ pkg.directory # "broken" /\ NamesAreWhole(pkg)

Opens(pkg) == /\ Arrives(pkg) /\ DirectoryInOrder(pkg) /\ RequiredParts \subseteq Names(pkg)

\* What a part that was unpacked is made of.
Harmless(part) == /\ DangerousMagic(part) = {}
                  /\ IsXml(part.name.path) => SafeXml(part) = {}

--------------------------------------------------------------------------------
(* The directory *)

\* A package has its parts at 1, 2, ... and each of them is an entry with a name.
LEMMA PartsAre ==
  ASSUME NEW pkg \in Packages
  PROVE  /\ Len(pkg.parts) \in Nat /\ DOMAIN pkg.parts = 1..Len(pkg.parts)
         /\ \A i \in 1..Len(pkg.parts) : pkg.parts[i] \in Entries(pkg) /\ IsPart(pkg.parts[i])
         /\ \A part \in Entries(pkg) :
               /\ IsPart(part) /\ part.name.path \in Names(pkg)
               /\ \E i \in 1..Len(pkg.parts) : part = pkg.parts[i]
         /\ \A n \in Names(pkg) : \E part \in Entries(pkg) : part.name.path = n
<1> DEFINE T == ToSet(pkg.parts)
<1>1. pkg.parts \in Seq(T) /\ \A part \in T : IsPart(part)
  BY PackagesAssumption DEF IsPackage
<1>2. T = {pkg.parts[i] : i \in DOMAIN pkg.parts}
  BY DEF ToSet
<1> HIDE DEF T
<1>3. Len(pkg.parts) \in Nat /\ DOMAIN pkg.parts = 1..Len(pkg.parts)
  BY <1>1
<1>4. Entries(pkg) = T
  BY DEF Entries, T
<1> QED
  BY <1>1, <1>2, <1>3, <1>4 DEF Names

\* The total is reached entry by entry.
LEMMA TotalFold ==
  ASSUME NEW pkg \in Packages
  PROVE  \E t : /\ t[0] = 0
                /\ \A k \in 1..Len(pkg.parts) : t[k] = t[k - 1] + pkg.parts[k].size
                /\ TotalSize(pkg) = t[Len(pkg.parts)]
<1> DEFINE seq == pkg.parts
           n == Len(seq)
           F == [p \in Nat \X (1..n) |-> p[1] + seq[p[2]].size]
           Step(g) == [s \in SUBSET DOMAIN seq |->
                        IF s = {} THEN 0 ELSE g[s \ {Max(s)}] + seq[Max(s)].size]
           G == CHOOSE g : g = Step(g)
<1>1. TotalSize(pkg) = G[DOMAIN seq]
  BY DEF TotalSize, FoldLeft, MapThenFoldSet
<1>2. n \in Nat /\ DOMAIN seq = 1..n /\ \A i \in 1..n : seq[i].size \in Nat
  BY PartsAre DEF IsPart
<1>3. F \in [Nat \X (1..n) -> Nat]
  BY <1>2
<1>4. PICK g \in [SUBSET (1..n) -> Nat] : IsFold(g, n, 0, F)
  <2> HIDE DEF F, n, seq
  <2> QED
    BY <1>2, <1>3, FoldExists
<1>5. g = Step(g)
  <2>1. ASSUME NEW s \in SUBSET (1..n)
        PROVE  g[s] = IF s = {} THEN 0 ELSE g[s \ {Max(s)}] + seq[Max(s)].size
    <3>1. CASE s = {}
      BY <1>4, <3>1 DEF IsFold
    <3>2. CASE s # {}
      <4>1. Max(s) \in 1..n /\ s \ {Max(s)} \in SUBSET (1..n)
        BY <1>2, <3>2, MaxIn
      <4>2. g[s] = F[<<g[s \ {Max(s)}], Max(s)>>]
        BY <1>4, <3>2 DEF IsFold
      <4>3. <<g[s \ {Max(s)}], Max(s)>> \in Nat \X (1..n)
        BY <4>1
      <4> QED
        BY <3>2, <4>2, <4>3
    <3> QED
      BY <3>1, <3>2
  <2> QED
    BY <2>1, <1>2
<1>6. G = Step(G)
  <2> HIDE DEF Step
  <2> QED
    BY <1>5
<1>7. \A s \in SUBSET (1..n) :
         G[s] = IF s = {} THEN 0 ELSE G[s \ {Max(s)}] + seq[Max(s)].size
  <2> HIDE DEF G
  <2> QED
    BY <1>6, <1>2
<1> HIDE DEF G
<1> DEFINE t == [k \in 0..n |-> G[1..k]]
<1>8. t[0] = 0
  <2>1. t[0] = G[1..0] /\ {} \in SUBSET (1..n)
    BY <1>2
  <2> QED
    BY <1>7, <1>2, <2>1, FirstOnes
<1>9. ASSUME NEW k \in 1..n PROVE t[k] = t[k - 1] + seq[k].size
  <2>1. t[k] = G[1..k] /\ t[k - 1] = G[1..(k - 1)]
    BY <1>2
  <2> QED
    BY <1>7, <1>2, <2>1, FirstOnes
<1>10. TotalSize(pkg) = t[n]
  BY <1>1, <1>2
<1> QED
  <2> HIDE DEF t
  <2> QED
    BY <1>8, <1>9, <1>10

\* So it only grows on the way.
LEMMA TotalGrows ==
  ASSUME NEW n \in Nat, NEW t, NEW size \in [1..n -> Nat], t[0] = 0,
         \A k \in 1..n : t[k] = t[k - 1] + size[k]
  PROVE  \A k \in 0..n : t[k] \in Nat /\ t[k] <= t[n]
<1> DEFINE S == {k \in 0..n : t[k] \in Nat /\ \A j \in 0..k : t[j] \in Nat /\ t[j] <= t[k]}
<1>1. 0 \in S
  OBVIOUS
<1>2. ASSUME NEW k \in 0..(n - 1), k \in S PROVE k + 1 \in S
  <2>1. k + 1 \in 1..n /\ t[k + 1] = t[k] + size[k + 1] /\ size[k + 1] \in Nat
    OBVIOUS
  <2>2. t[k + 1] \in Nat /\ t[k] <= t[k + 1]
    BY <1>2, <2>1
  <2>3. ASSUME NEW j \in 0..(k + 1) PROVE t[j] \in Nat /\ t[j] <= t[k + 1]
    BY <1>2, <2>2
  <2> QED
    BY <2>1, <2>2, <2>3
<1>3. n \in S
  <2>1. n \in 0..n
    OBVIOUS
  <2> HIDE DEF S
  <2> QED
    BY <1>1, <1>2, <2>1, Climb
<1> QED
  BY <1>3

EntryCategories == {"unsafe_entry_name", "duplicate_entry", "case_collision", "encrypted_entry",
                    "entry_size_limit", "total_size_limit", "compression_ratio_limit",
                    "macro_content", "activex_content", "ole_content", "embedded_content",
                    "executable_content", "prohibited_binary", "unsupported_structure"}

Inspected(pkg) == [entries : UNION {[names -> Entries(pkg)] : names \in SUBSET Names(pkg)},
                   total : Nat, found : SUBSET EntryCategories]

LEMMA ProhibitedNameTyped ==
  ASSUME NEW path PROVE ProhibitedName(path) \in SUBSET EntryCategories
<1>1. ProhibitedName(path) \in {{"macro_content"}, {"activex_content"}, {"ole_content"},
                              {"embedded_content"}, {"executable_content"},
                              {"prohibited_binary"}, {}}
  BY DEF ProhibitedName
<1>2. ASSUME NEW x \in ProhibitedName(path) PROVE x \in EntryCategories
  BY <1>1 DEF EntryCategories
<1> QED
  BY <1>2

LEMMA InspectEntryTyped ==
  ASSUME NEW pkg \in Packages, NEW seen \in Inspected(pkg), NEW part \in Entries(pkg)
  PROVE  InspectEntry(seen, part) \in Inspected(pkg)
<1> DEFINE name == NormalizedEntryName(part.name)
           total == seen.total + part.size
           If(bad, category) == IF bad THEN {category} ELSE {}
           refused == IF name = NoName THEN {"unsafe_entry_name"}
                      ELSE IF name \in DOMAIN seen.entries THEN {"duplicate_entry"}
                      ELSE IF \E other \in DOMAIN seen.entries : Casefold(other) = Casefold(name)
                           THEN {"case_collision"}
                      ELSE {}
           entries == [n \in DOMAIN seen.entries \cup {name} |->
                          IF n = name THEN part ELSE seen.entries[n]]
           found == UNION {seen.found,
                  If(part.encrypted, "encrypted_entry"),
                  If(part.size > MaxEntrySize, "entry_size_limit"),
                  If(total > MaxTotal, "total_size_limit"),
                  If(part.size > MaxRatio * (IF part.packed = 0 THEN 1 ELSE part.packed),
                     "compression_ratio_limit"),
                  ProhibitedName(name),
                  If(ProhibitedName(name) = {} /\ ~StructureIsAllowed(name),
                     "unsupported_structure")}
<1>1. InspectEntry(seen, part) =
        IF refused # {} THEN [seen EXCEPT !.found = @ \cup refused]
        ELSE [entries |-> entries, total |-> total, found |-> found]
  BY DEF InspectEntry
<1>2. PICK names \in SUBSET Names(pkg) : seen.entries \in [names -> Entries(pkg)]
  BY DEF Inspected
<1>3. seen.total \in Nat /\ seen.found \in SUBSET EntryCategories
  BY DEF Inspected
<1>4. refused \in SUBSET EntryCategories
  <2>1. refused \in {{"unsafe_entry_name"}, {"duplicate_entry"}, {"case_collision"}, {}}
    OBVIOUS
  <2> HIDE DEF refused
  <2>2. ASSUME NEW x \in refused PROVE x \in EntryCategories
    BY <2>1 DEF EntryCategories
  <2> QED
    BY <2>2
<1>5. total \in Nat
  BY <1>3, PartsAre DEF IsPart
<1>6. found \in SUBSET EntryCategories
  <2>1. ProhibitedName(name) \in SUBSET EntryCategories
    BY ProhibitedNameTyped
  <2>2. \A bad, category : category \in EntryCategories => If(bad, category) \in SUBSET EntryCategories
    OBVIOUS
  <2> HIDE DEF If, name, total
  <2>3. /\ If(part.encrypted, "encrypted_entry") \in SUBSET EntryCategories
        /\ If(part.size > MaxEntrySize, "entry_size_limit") \in SUBSET EntryCategories
        /\ If(total > MaxTotal, "total_size_limit") \in SUBSET EntryCategories
        /\ If(part.size > MaxRatio * (IF part.packed = 0 THEN 1 ELSE part.packed),
              "compression_ratio_limit") \in SUBSET EntryCategories
        /\ If(ProhibitedName(name) = {} /\ ~StructureIsAllowed(name),
              "unsupported_structure") \in SUBSET EntryCategories
    BY <2>2 DEF EntryCategories
  <2> QED
    BY <1>3, <2>1, <2>3
<1>7. CASE refused # {}
  <2>1. InspectEntry(seen, part) = [seen EXCEPT !.found = @ \cup refused]
    BY <1>1, <1>7
  <2> HIDE DEF refused
  <2> QED
    BY <2>1, <1>4 DEF Inspected
<1>8. CASE refused = {}
  <2>1. name # NoName
    BY <1>8
  <2>2. name = part.name.path /\ name \in Names(pkg)
    BY <2>1, PartsAre DEF NormalizedEntryName
  <2> HIDE DEF name
  <2>3. entries \in [names \cup {name} -> Entries(pkg)] /\ names \cup {name} \in SUBSET Names(pkg)
    BY <1>2, <2>2
  <2>4. InspectEntry(seen, part) = [entries |-> entries, total |-> total, found |-> found]
    BY <1>1, <1>8
  <2> HIDE DEF entries, total, found
  <2> QED
    BY <2>3, <2>4, <1>5, <1>6 DEF Inspected
<1> QED
  BY <1>7, <1>8

Listing(entries, name, part) == [n \in DOMAIN entries \cup {name} |->
                                    IF n = name THEN part ELSE entries[n]]

\* One entry: no finding exactly when it is in order, the total stays within its limit
\* and no entry before it has its name in any letter case.
LEMMA InspectOne ==
  ASSUME NEW pkg \in Packages, NEW seen \in Inspected(pkg), NEW part \in Entries(pkg)
  PROVE  LET after == InspectEntry(seen, part)
             name  == part.name.path
         IN  /\ after.found = {} <=>
                   /\ seen.found = {} /\ EntryInOrder(part)
                   /\ seen.total + part.size <= MaxTotal
                   /\ \A other \in DOMAIN seen.entries : Casefold(other) # Casefold(name)
             /\ after.found = {} =>
                   /\ after.total = seen.total + part.size
                   /\ after.entries = Listing(seen.entries, name, part)
<1> DEFINE path == part.name.path
           name == NormalizedEntryName(part.name)
           total == seen.total + part.size
           If(bad, category) == IF bad THEN {category} ELSE {}
           refused == IF name = NoName THEN {"unsafe_entry_name"}
                      ELSE IF name \in DOMAIN seen.entries THEN {"duplicate_entry"}
                      ELSE IF \E other \in DOMAIN seen.entries : Casefold(other) = Casefold(name)
                           THEN {"case_collision"}
                      ELSE {}
           entries == [n \in DOMAIN seen.entries \cup {name} |->
                          IF n = name THEN part ELSE seen.entries[n]]
           steep == part.size > MaxRatio * (IF part.packed = 0 THEN 1 ELSE part.packed)
           found == UNION {seen.found,
                  If(part.encrypted, "encrypted_entry"),
                  If(part.size > MaxEntrySize, "entry_size_limit"),
                  If(total > MaxTotal, "total_size_limit"),
                  If(steep, "compression_ratio_limit"),
                  ProhibitedName(name),
                  If(ProhibitedName(name) = {} /\ ~StructureIsAllowed(name),
                     "unsupported_structure")}
           after == InspectEntry(seen, part)
<1>1. after = IF refused # {} THEN [seen EXCEPT !.found = @ \cup refused]
              ELSE [entries |-> entries, total |-> total, found |-> found]
  BY DEF InspectEntry
<1>2. /\ seen.total \in Nat
      /\ seen = [entries |-> seen.entries, total |-> seen.total, found |-> seen.found]
  BY DEF Inspected
<1>3. IsPart(part)
  BY PartsAre
<1>4. path # NoName
  <2>1. path \in [folders : Seq(STRING), base : STRING, suffix : STRING, upper : BOOLEAN]
    BY <1>3 DEF IsPart, IsPath
  <2>2. DOMAIN path = {"folders", "base", "suffix", "upper"} /\ DOMAIN NoName = {"noName"}
    BY <2>1 DEF NoName
  <2>3. "base" \in DOMAIN path /\ "base" \notin DOMAIN NoName
    BY <2>2
  <2> QED
    BY <2>3
<1>5. refused = {} <=>
        /\ part.name.spelled # "unsafe"
        /\ \A other \in DOMAIN seen.entries : Casefold(other) # Casefold(path)
  <2>1. CASE part.name.spelled = "unsafe"
    BY <2>1 DEF NormalizedEntryName
  <2>2. CASE part.name.spelled # "unsafe"
    <3>1. name = path /\ name # NoName
      BY <2>2, <1>4 DEF NormalizedEntryName
    <3> HIDE DEF name, path
    <3> QED
      BY <2>2, <3>1
  <2> QED
    BY <2>1, <2>2
<1>6. CASE refused # {}
  <2>1. after.found = seen.found \cup refused
    <3> HIDE DEF refused
    <3> QED
      BY <1>1, <1>2, <1>6
  <2>2. after.found # {}
    <3> HIDE DEF refused
    <3> QED
      BY <2>1, <1>6
  <2> HIDE DEF after, path, refused
  <2> QED
    BY <1>5, <1>6, <2>2 DEF EntryInOrder, path, after
<1>7. CASE refused = {}
  <2>1. after = [entries |-> entries, total |-> total, found |-> found]
    BY <1>1, <1>7
  <2>2. name = path
    BY <1>5, <1>7 DEF NormalizedEntryName
  <2>3. found = {} <=>
           /\ seen.found = {} /\ ~part.encrypted /\ ~(part.size > MaxEntrySize)
           /\ ~(total > MaxTotal) /\ ~steep
           /\ ProhibitedName(name) = {} /\ StructureIsAllowed(name)
    <3> DEFINE all == {seen.found,
                  If(part.encrypted, "encrypted_entry"),
                  If(part.size > MaxEntrySize, "entry_size_limit"),
                  If(total > MaxTotal, "total_size_limit"),
                  If(steep, "compression_ratio_limit"),
                  ProhibitedName(name),
                  If(ProhibitedName(name) = {} /\ ~StructureIsAllowed(name),
                     "unsupported_structure")}
    <3>1. found = {} <=> \A x \in all : x = {}
      <4>1. found = UNION all
        OBVIOUS
      <4> HIDE DEF all, found
      <4> QED
        BY <4>1
    <3>2. \A bad, category : If(bad, category) = {} <=> ~bad
      OBVIOUS
    <3> HIDE DEF If, found, name, total, steep
    <3> QED
      BY <3>1, <3>2
  <2>4. part.size \in Nat /\ total \in Nat /\ MaxTotal \in Nat /\ MaxEntrySize \in Nat
        /\ MaxRatio * (IF part.packed = 0 THEN 1 ELSE part.packed) \in Nat
    BY <1>2, <1>3, LimitsAssumption DEF IsPart
  <2>5. ~(part.size > MaxEntrySize) <=> part.size <= MaxEntrySize
    BY <2>4
  <2>6. ~(total > MaxTotal) <=> total <= MaxTotal
    BY <2>4
  <2>7. ~steep <=> part.size <= MaxRatio * (IF part.packed = 0 THEN 1 ELSE part.packed)
    BY <2>4
  <2>8. found = {} <=> /\ seen.found = {} /\ EntryInOrder(part) /\ total <= MaxTotal
                       /\ \A other \in DOMAIN seen.entries : Casefold(other) # Casefold(path)
    <3> HIDE DEF found, total, steep, name, refused
    <3> QED
      BY <1>5, <1>7, <2>2, <2>3, <2>5, <2>6, <2>7 DEF EntryInOrder
  <2>9. after.found = found /\ after.total = total /\ after.entries = entries
    <3> HIDE DEF found, total, entries, after
    <3> QED
      BY <2>1
  <2>10. entries = Listing(seen.entries, path, part)
    BY <2>2 DEF Listing
  <2> HIDE DEF found, entries, name, refused
  <2> QED
    BY <2>8, <2>9, <2>10
<1> QED
  BY <1>6, <1>7

LEMMA InspectFold ==
  ASSUME NEW pkg \in Packages
  PROVE  \E h : /\ h[0] = [entries |-> NoEntries, total |-> 0, found |-> {}]
                /\ \A k \in 1..Len(pkg.parts) : h[k] = InspectEntry(h[k - 1], pkg.parts[k])
                /\ \A k \in 0..Len(pkg.parts) : h[k] \in Inspected(pkg)
                /\ Len(pkg.parts) <= MaxEntries =>
                      InspectEntryMetadata(pkg.parts) = h[Len(pkg.parts)]
<1> DEFINE seq == pkg.parts
           n == Len(seq)
           D == Inspected(pkg)
           base == [entries |-> NoEntries, total |-> 0, found |-> {}]
           F == [p \in D \X (1..n) |-> InspectEntry(p[1], seq[p[2]])]
           Step(g) == [s \in SUBSET DOMAIN seq |->
                        IF s = {} THEN base ELSE InspectEntry(g[s \ {Max(s)}], seq[Max(s)])]
           G == CHOOSE g : g = Step(g)
<1>1. Len(seq) <= MaxEntries => InspectEntryMetadata(seq) = G[DOMAIN seq]
  <2>1. FoldLeft(InspectEntry, base, seq) = G[DOMAIN seq]
    BY DEF FoldLeft, MapThenFoldSet
  <2>2. n \in Nat /\ MaxEntries \in Nat
    BY PartsAre, LimitsAssumption
  <2> QED
    BY <2>1, <2>2 DEF InspectEntryMetadata
<1>2. n \in Nat /\ DOMAIN seq = 1..n /\ \A i \in 1..n : seq[i] \in Entries(pkg)
  BY PartsAre
<1>3. base \in D
  <2>1. NoEntries \in [{} -> Entries(pkg)] /\ {} \in SUBSET Names(pkg)
    BY DEF NoEntries
  <2> HIDE DEF D
  <2>2. base \in Inspected(pkg)
    BY <2>1 DEF Inspected
  <2> QED
    BY <2>2 DEF D
<1>4. F \in [D \X (1..n) -> D]
  <2> HIDE DEF D, n, seq
  <2>1. ASSUME NEW p \in D \X (1..n) PROVE InspectEntry(p[1], seq[p[2]]) \in D
    <3>1. p[1] \in D /\ seq[p[2]] \in Entries(pkg)
      BY <1>2
    <3> QED
      BY <3>1, InspectEntryTyped DEF D
  <2> QED
    BY <2>1
<1>5. PICK g \in [SUBSET (1..n) -> D] : IsFold(g, n, base, F)
  <2> HIDE DEF F, n, seq, D, base
  <2> QED
    BY <1>2, <1>3, <1>4, FoldExists
<1> HIDE DEF D, base
<1>6. g = Step(g)
  <2>1. ASSUME NEW s \in SUBSET (1..n)
        PROVE  g[s] = IF s = {} THEN base ELSE InspectEntry(g[s \ {Max(s)}], seq[Max(s)])
    <3>1. CASE s = {}
      BY <1>5, <3>1 DEF IsFold
    <3>2. CASE s # {}
      <4>1. Max(s) \in 1..n /\ s \ {Max(s)} \in SUBSET (1..n)
        BY <1>2, <3>2, MaxIn
      <4>2. g[s] = F[<<g[s \ {Max(s)}], Max(s)>>]
        BY <1>5, <3>2 DEF IsFold
      <4>3. <<g[s \ {Max(s)}], Max(s)>> \in D \X (1..n)
        BY <4>1
      <4> QED
        BY <3>2, <4>2, <4>3
    <3> QED
      BY <3>1, <3>2
  <2> QED
    BY <2>1, <1>2
<1>7. G = Step(G)
  <2> HIDE DEF Step
  <2> QED
    BY <1>6
<1>8. \A s \in SUBSET (1..n) :
         G[s] = IF s = {} THEN base ELSE InspectEntry(G[s \ {Max(s)}], seq[Max(s)])
  <2> HIDE DEF G
  <2> QED
    BY <1>7, <1>2
<1> HIDE DEF G
<1> DEFINE h == [k \in 0..n |-> G[1..k]]
<1>9. h[0] = base
  <2>1. h[0] = G[1..0] /\ {} \in SUBSET (1..n)
    BY <1>2
  <2> QED
    BY <1>8, <1>2, <2>1, FirstOnes
<1>10. ASSUME NEW k \in 1..n PROVE h[k] = InspectEntry(h[k - 1], seq[k])
  <2>1. h[k] = G[1..k] /\ h[k - 1] = G[1..(k - 1)]
    BY <1>2
  <2> QED
    BY <1>8, <1>2, <2>1, FirstOnes
<1>11. h[n] = G[DOMAIN seq]
  BY <1>2
<1> HIDE DEF h, F
<1>12. \A k \in 0..n : h[k] \in D
  <2> DEFINE S == {k \in 0..n : h[k] \in D}
  <2>1. 0 \in S
    BY <1>2, <1>3, <1>9
  <2>2. ASSUME NEW k \in 0..(n - 1), k \in S PROVE k + 1 \in S
    <3>1. k + 1 \in 1..n /\ k + 1 \in 0..n /\ (k + 1) - 1 = k
      BY <1>2
    <3>2. h[k + 1] = InspectEntry(h[k], seq[k + 1]) /\ seq[k + 1] \in Entries(pkg)
      BY <1>2, <1>10, <3>1
    <3>3. h[k + 1] \in D
      BY <2>2, <3>2, InspectEntryTyped DEF D
    <3> QED
      BY <3>1, <3>3
  <2> HIDE DEF S
  <2>3. \A k \in 0..n : k \in S
    BY <1>2, <2>1, <2>2, Climb
  <2> QED
    BY <2>3 DEF S
<1> QED
  BY <1>1, <1>9, <1>10, <1>11, <1>12 DEF D, base

\* Under a name there is an entry of that name, and no other one.
LEMMA PartAtIs ==
  ASSUME NEW pkg \in Packages
  PROVE  /\ \A n \in Names(pkg) : PartAt(pkg, n) \in Entries(pkg) /\ PartAt(pkg, n).name.path = n
         /\ DistinctNames(pkg) =>
               /\ \A i \in 1..Len(pkg.parts) : PartAt(pkg, pkg.parts[i].name.path) = pkg.parts[i]
               /\ \A part \in Entries(pkg) : PartAt(pkg, part.name.path) = part
<1>1. ASSUME NEW n \in Names(pkg)
      PROVE  PartAt(pkg, n) \in Entries(pkg) /\ PartAt(pkg, n).name.path = n
  <2>1. \E part \in Entries(pkg) : part.name.path = n
    BY PartsAre
  <2> QED
    BY <2>1 DEF PartAt
<1>2. ASSUME DistinctNames(pkg), NEW part \in Entries(pkg)
      PROVE  PartAt(pkg, part.name.path) = part
  <2> DEFINE other == PartAt(pkg, part.name.path)
  <2>1. other \in Entries(pkg) /\ other.name.path = part.name.path
    BY <1>1, PartsAre
  <2> HIDE DEF other
  <2>2. PICK i \in 1..Len(pkg.parts), j \in 1..Len(pkg.parts) :
           part = pkg.parts[i] /\ other = pkg.parts[j]
    BY <2>1, PartsAre
  <2>3. Casefold(pkg.parts[i].name.path) = Casefold(pkg.parts[j].name.path)
    BY <2>1, <2>2
  <2>4. i = j
    BY <1>2, <2>3 DEF DistinctNames
  <2> QED
    BY <2>2, <2>4 DEF other
<1> QED
  BY <1>1, <1>2, PartsAre

\* The first k entries are in order.
CleanUpTo(pkg, t, k) ==
    /\ \A i \in 1..k : EntryInOrder(pkg.parts[i]) /\ t[i] <= MaxTotal
    /\ \A i, j \in 1..k :
          i # j => Casefold(pkg.parts[i].name.path) # Casefold(pkg.parts[j].name.path)

ListedUpTo(pkg, k, entries) ==
    /\ entries \in [{pkg.parts[i].name.path : i \in 1..k} -> Entries(pkg)]
    /\ \A i \in 1..k : entries[pkg.parts[i].name.path] = pkg.parts[i]

\* The inspection of a directory has no finding exactly when the directory is in order,
\* and then it has listed every entry under its name.
LEMMA InspectVerdict ==
  ASSUME NEW pkg \in Packages
  PROVE  LET seen == InspectEntryMetadata(pkg.parts)
         IN  /\ seen.found = {} <=> DirectoryInOrder(pkg)
             /\ seen.found = {} => seen.entries = Inventory(pkg)
<1> DEFINE seq == pkg.parts
           n == Len(seq)
           path(i) == seq[i].name.path
           seen == InspectEntryMetadata(seq)
<1>1. n \in Nat /\ \A i \in 1..n : seq[i] \in Entries(pkg) /\ seq[i].size \in Nat
  BY PartsAre DEF IsPart
<1>2. PICK t : /\ t[0] = 0 /\ \A k \in 1..n : t[k] = t[k - 1] + seq[k].size
               /\ TotalSize(pkg) = t[n]
  BY TotalFold
<1>3. \A k \in 0..n : t[k] \in Nat /\ t[k] <= t[n]
  <2> DEFINE size == [k \in 1..n |-> seq[k].size]
  <2>1. size \in [1..n -> Nat] /\ \A k \in 1..n : t[k] = t[k - 1] + size[k]
    BY <1>1, <1>2
  <2> HIDE DEF size
  <2> QED
    BY <1>1, <1>2, <2>1, TotalGrows
<1>4. PICK h : /\ h[0] = [entries |-> NoEntries, total |-> 0, found |-> {}]
               /\ \A k \in 1..n : h[k] = InspectEntry(h[k - 1], seq[k])
               /\ \A k \in 0..n : h[k] \in Inspected(pkg)
               /\ n <= MaxEntries => seen = h[n]
  BY InspectFold
<1> HIDE DEF seen
<1> DEFINE Good(k) == /\ h[k].found = {} <=> CleanUpTo(pkg, t, k)
                      /\ h[k].found = {} => /\ h[k].total = t[k]
                                            /\ ListedUpTo(pkg, k, h[k].entries)
           S == {k \in 0..n : Good(k)}
<1>5. 0 \in S
  <2>1. h[0].found = {} /\ h[0].total = 0 /\ h[0].entries = NoEntries
    BY <1>4
  <2>2. 1..0 = {}
    OBVIOUS
  <2>3. CleanUpTo(pkg, t, 0)
    BY <2>2 DEF CleanUpTo
  <2>4. ListedUpTo(pkg, 0, NoEntries)
    BY <2>2 DEF ListedUpTo, NoEntries
  <2> QED
    BY <1>1, <1>2, <2>1, <2>3, <2>4
<1>6. ASSUME NEW k \in 0..(n - 1), k \in S PROVE k + 1 \in S
  <2>1. k \in 0..n /\ k + 1 \in 1..n /\ k + 1 \in 0..n /\ (k + 1) - 1 = k
        /\ 1..(k + 1) = (1..k) \cup {k + 1} /\ k + 1 \notin 1..k /\ k \in Nat
    BY <1>1
  <2> DEFINE part == seq[k + 1]
             before == h[k]
             after == h[k + 1]
  <2>2. after = InspectEntry(before, part) /\ before \in Inspected(pkg) /\ part \in Entries(pkg)
    BY <1>1, <1>4, <2>1
  <2>3. before.found = {} <=> CleanUpTo(pkg, t, k)
    BY <1>6
  <2>4. before.found = {} => before.total = t[k] /\ ListedUpTo(pkg, k, before.entries)
    BY <1>6
  <2>5. t[k + 1] = t[k] + part.size
    BY <1>2, <2>1
  <2> HIDE DEF before, after
  <2>6. /\ after.found = {} <=>
             /\ before.found = {} /\ EntryInOrder(part)
             /\ before.total + part.size <= MaxTotal
             /\ \A other \in DOMAIN before.entries : Casefold(other) # Casefold(path(k + 1))
        /\ after.found = {} =>
             /\ after.total = before.total + part.size
             /\ after.entries = Listing(before.entries, path(k + 1), part)
    BY <2>2, InspectOne
  <2>7. CASE before.found # {}
    <3>1. ~CleanUpTo(pkg, t, k + 1)
      BY <2>1, <2>3, <2>7 DEF CleanUpTo
    <3>2. after.found # {}
      BY <2>6, <2>7
    <3> QED
      BY <2>1, <3>1, <3>2 DEF after
  <2>8. CASE before.found = {}
    <3>1. CleanUpTo(pkg, t, k) /\ before.total = t[k] /\ ListedUpTo(pkg, k, before.entries)
      BY <2>3, <2>4, <2>8
    <3>2. DOMAIN before.entries = {path(i) : i \in 1..k}
      BY <3>1 DEF ListedUpTo
    <3>3. after.found = {} <=>
             /\ EntryInOrder(part) /\ t[k + 1] <= MaxTotal
             /\ \A i \in 1..k : Casefold(path(i)) # Casefold(path(k + 1))
      BY <2>5, <2>6, <2>8, <3>1, <3>2
    <3>4. after.found = {} <=> CleanUpTo(pkg, t, k + 1)
      <4>1. ASSUME after.found = {} PROVE CleanUpTo(pkg, t, k + 1)
        BY <2>1, <3>1, <3>3, <4>1 DEF CleanUpTo
      <4>2. ASSUME CleanUpTo(pkg, t, k + 1) PROVE after.found = {}
        BY <2>1, <3>3, <4>2 DEF CleanUpTo
      <4> QED
        BY <4>1, <4>2
    <3>5. ASSUME after.found = {}
          PROVE  after.total = t[k + 1] /\ ListedUpTo(pkg, k + 1, after.entries)
      <4>1. after.entries = [m \in {path(i) : i \in 1..k} \cup {path(k + 1)} |->
                                IF m = path(k + 1) THEN part ELSE before.entries[m]]
        BY <2>6, <3>2, <3>5 DEF Listing
      <4>2. {path(i) : i \in 1..(k + 1)} = {path(i) : i \in 1..k} \cup {path(k + 1)}
        BY <2>1
      <4>3. after.entries \in [{path(i) : i \in 1..(k + 1)} -> Entries(pkg)]
        BY <2>2, <3>1, <4>1, <4>2 DEF ListedUpTo
      <4>4. ASSUME NEW i \in 1..(k + 1) PROVE after.entries[path(i)] = seq[i]
        <5>1. CASE i = k + 1
          BY <4>1, <5>1
        <5>2. CASE i # k + 1
          <6>1. i \in 1..k /\ Casefold(path(i)) # Casefold(path(k + 1))
            BY <2>1, <3>3, <3>5, <5>2
          <6>2. path(i) # path(k + 1)
            BY <6>1
          <6>3. before.entries[path(i)] = seq[i]
            BY <3>1, <6>1 DEF ListedUpTo
          <6> QED
            BY <4>1, <6>1, <6>2, <6>3
        <5> QED
          BY <5>1, <5>2
      <4> QED
        BY <2>5, <2>6, <3>1, <3>5, <4>3, <4>4 DEF ListedUpTo
    <3> QED
      BY <2>1, <3>4, <3>5 DEF after
  <2> QED
    BY <2>7, <2>8
<1>7. Good(n)
  <2>1. n \in 0..n
    BY <1>1
  <2> HIDE DEF S, n, Good
  <2>2. \A k \in 0..n : k \in S
    BY <1>1, <1>5, <1>6, Climb
  <2> QED
    BY <2>1, <2>2 DEF S
<1>8. CleanUpTo(pkg, t, n) <=>
        /\ TotalSize(pkg) <= MaxTotal /\ DistinctNames(pkg)
        /\ \A part \in Entries(pkg) : EntryInOrder(part)
  <2>1. (\A i \in 1..n : t[i] <= MaxTotal) <=> TotalSize(pkg) <= MaxTotal
    <3>1. MaxTotal \in Nat /\ t[n] \in Nat /\ (n = 0 => t[n] = 0)
      BY <1>1, <1>2, <1>3, LimitsAssumption
    <3>2. ASSUME TotalSize(pkg) <= MaxTotal, NEW i \in 1..n PROVE t[i] <= MaxTotal
      <4>1. i \in 0..n
        BY <1>1
      <4>2. t[i] \in Nat /\ t[i] <= t[n] /\ t[n] <= MaxTotal
        BY <1>2, <1>3, <3>2, <4>1
      <4> QED
        BY <3>1, <4>2
    <3>3. ASSUME \A i \in 1..n : t[i] <= MaxTotal PROVE TotalSize(pkg) <= MaxTotal
      <4>1. CASE n = 0
        BY <1>2, <3>1, <4>1
      <4>2. CASE n # 0
        <5>1. n \in 1..n
          BY <1>1, <4>2
        <5> QED
          BY <1>2, <3>3, <5>1
      <4> QED
        BY <4>1, <4>2
    <3> QED
      BY <3>2, <3>3
  <2>2. (\A i \in 1..n : EntryInOrder(seq[i])) <=> \A part \in Entries(pkg) : EntryInOrder(part)
    BY PartsAre
  <2> QED
    BY <2>1, <2>2 DEF CleanUpTo, DistinctNames
<1>9. CASE n <= MaxEntries
  <2>1. seen = h[n]
    BY <1>4, <1>9
  <2>2. seen.found = {} <=> DirectoryInOrder(pkg)
    BY <1>7, <1>8, <1>9, <2>1 DEF DirectoryInOrder
  <2>3. ASSUME seen.found = {} PROVE seen.entries = Inventory(pkg)
    <3>1. ListedUpTo(pkg, n, seen.entries) /\ DistinctNames(pkg)
      BY <1>7, <1>8, <2>1, <2>3
    <3>2. Names(pkg) = {path(i) : i \in 1..n}
      BY PartsAre DEF Names
    <3>3. seen.entries \in [Names(pkg) -> Entries(pkg)]
      BY <3>1, <3>2 DEF ListedUpTo
    <3>4. \A m \in Names(pkg) : seen.entries[m] = PartAt(pkg, m)
      BY <3>1, <3>2, PartAtIs DEF ListedUpTo
    <3> QED
      BY <3>3, <3>4 DEF Inventory
  <2> QED
    BY <2>2, <2>3 DEF seen
<1>10. CASE ~(n <= MaxEntries)
  <2>1. n > MaxEntries
    BY <1>1, <1>10, LimitsAssumption
  <2>2. seen.found = {"entry_count_limit"}
    BY <2>1 DEF seen, InspectEntryMetadata
  <2> QED
    BY <1>10, <2>2 DEF DirectoryInOrder, seen
<1> QED
  BY <1>9, <1>10

--------------------------------------------------------------------------------
(* [Content_Types].xml *)

LEMMA ChildrenAre ==
  ASSUME NEW root, IsRoot(root), root.tag \in {"Types", "Relationships"}
  PROVE  LET children == root.children
         IN  /\ Len(children) \in Nat /\ DOMAIN children = 1..Len(children)
             /\ \A i \in 1..Len(children) :
                   /\ root.tag = "Types" => IsType(children[i])
                   /\ root.tag = "Relationships" => IsRelationship(children[i])
<1> DEFINE children == root.children
           T == ToSet(children)
<1>1. /\ children \in Seq(T)
      /\ root.tag = "Types" => \A child \in T : IsType(child)
      /\ root.tag = "Relationships" => \A child \in T : IsRelationship(child)
  BY DEF IsRoot
<1>2. T = {children[i] : i \in DOMAIN children}
  BY DEF ToSet
<1> HIDE DEF T
<1>3. Len(children) \in Nat /\ DOMAIN children = 1..Len(children)
  BY <1>1
<1> QED
  BY <1>1, <1>2, <1>3

\* No two declarations of a kind have one key.
DeclaredOnce(children) ==
    \A i, j \in 1..Len(children) :
        i # j => ~(children[i].kind = children[j].kind /\ children[i].key = children[j].key)

\* Then the map of a kind gives every key its one declaration.
LEMMA DeclaredIs ==
  ASSUME NEW children, Len(children) \in Nat, DeclaredOnce(children), NEW kind
  PROVE  LET of == Declared(children, kind)
         IN  /\ DOMAIN of = {children[i].key :
                               i \in {j \in 1..Len(children) : children[j].kind = kind}}
             /\ \A i \in 1..Len(children) :
                   children[i].kind = kind => of[children[i].key] = children[i].type
<1> DEFINE Is(i) == children[i].kind = kind
           keys == {children[i].key : i \in {j \in 1..Len(children) : Is(j)}}
           IsLast(k, i) == /\ Is(i) /\ children[i].key = k
                         /\ \A j \in (i + 1)..Len(children) : ~(Is(j) /\ children[j].key = k)
           LastOf(k) == CHOOSE i \in 1..Len(children) : IsLast(k, i)
<1>1. Declared(children, kind) = [k \in keys |-> children[LastOf(k)].type]
  BY DEF Declared
<1>2. ASSUME NEW i \in 1..Len(children), Is(i) PROVE LastOf(children[i].key) = i
  <2>1. ASSUME NEW j \in (i + 1)..Len(children)
        PROVE  ~(Is(j) /\ children[j].key = children[i].key)
    <3>1. j \in 1..Len(children) /\ j # i
      OBVIOUS
    <3> QED
      BY <1>2, <3>1 DEF DeclaredOnce
  <2>2. IsLast(children[i].key, i)
    BY <1>2, <2>1
  <2>3. ASSUME NEW j \in 1..Len(children), IsLast(children[i].key, j) PROVE j = i
    BY <1>2, <2>3 DEF DeclaredOnce
  <2> HIDE DEF IsLast
  <2> QED
    BY <2>2, <2>3
<1>3. ASSUME NEW i \in 1..Len(children), Is(i)
      PROVE  Declared(children, kind)[children[i].key] = children[i].type
  <2>1. children[i].key \in keys
    BY <1>3
  <2>2. LastOf(children[i].key) = i
    BY <1>2, <1>3
  <2> HIDE DEF LastOf, keys
  <2> QED
    BY <1>1, <2>1, <2>2
<1> QED
  BY <1>1, <1>3

LEMMA ProhibitedTypes ==
  ASSUME NEW type
  PROVE  ProhibitedContentType(type) = {} <=> type \notin {"macroEnabled", "activeX"}
BY DEF ProhibitedContentType

\* The declarations are found in order exactly when each part has a type and each typed
\* part is there.
LEMMA TypesVerdict ==
  ASSUME NEW root, IsRoot(root), NEW names
  PROVE  ValidateContentTypes(root, names) = {} <=> Typed(root, names)
<1>1. CASE root.tag # "Types"
  BY <1>1 DEF ValidateContentTypes, Typed
<1>2. CASE root.tag = "Types"
  <2> DEFINE children == root.children
             n == Len(children)
             defaults == Declared(children, "default")
             overrides == Declared(children, "override")
             Repeats(i) == \E j \in 1..(i - 1) : /\ children[j].kind = children[i].kind
                                                 /\ children[j].key = children[i].key
             Gives(f, k, type) == k \in DOMAIN f /\ f[k] = type
             basic == \A i \in 1..n : /\ children[i].kind # "other"
                                      /\ ~children[i].extra
                                      /\ ~Repeats(i)
             types == /\ Gives(defaults, "rels", "relationships")
                      /\ Gives(defaults, "xml", "xml")
                      /\ DOMAIN overrides \subseteq names
                      /\ Gives(overrides, MainDocument, "main")
                      /\ \A m \in names \ {ContentTypes} :
                            m \in DOMAIN overrides \/ m.suffix \in DOMAIN defaults
             Types(i, m) == \/ children[i].kind = "override" /\ children[i].key = m
                            \/ children[i].kind = "default" /\ children[i].key = m.suffix
             Says(kind, key, type) == \E i \in 1..n : /\ children[i].kind = kind
                                                      /\ children[i].key = key
                                                      /\ children[i].type = type
  <2>1. n \in Nat /\ \A i \in 1..n : IsType(children[i])
    BY <1>2, ChildrenAre
  <2>2. ValidateContentTypes(root, names) = {} <=>
           /\ basic /\ types
           /\ \A k \in DOMAIN defaults : ProhibitedContentType(defaults[k]) = {}
           /\ \A k \in DOMAIN overrides : ProhibitedContentType(overrides[k]) = {}
    <3> DEFINE sound == DeclarationsAreSound(children, defaults, overrides, names)
               A == IF sound THEN {} ELSE {"invalid_content_types"}
               B == UNION {ProhibitedContentType(defaults[k]) : k \in DOMAIN defaults}
               C == UNION {ProhibitedContentType(overrides[k]) : k \in DOMAIN overrides}
    <3>1. ValidateContentTypes(root, names) = A \cup B \cup C
      <4>1. ValidateContentTypes(root, names) =
              IF root.tag # "Types" THEN {"invalid_content_types"} ELSE A \cup B \cup C
        BY DEF ValidateContentTypes
      <4> HIDE DEF A, B, C
      <4> QED
        BY <1>2, <4>1
    <3>2. A = {} <=> basic /\ types
      <4>1. sound <=> basic /\ types
        <5> HIDE DEF children, defaults, overrides
        <5> QED
          BY DEF DeclarationsAreSound, n
      <4> HIDE DEF sound, basic, types
      <4> QED
        BY <4>1
    <3>3. B = {} <=> \A k \in DOMAIN defaults : ProhibitedContentType(defaults[k]) = {}
      OBVIOUS
    <3>4. C = {} <=> \A k \in DOMAIN overrides : ProhibitedContentType(overrides[k]) = {}
      OBVIOUS
    <3> HIDE DEF A, B, C
    <3> QED
      BY <3>1, <3>2, <3>3, <3>4
  <2>3. (\A i \in 1..n : ~Repeats(i)) <=> DeclaredOnce(children)
    <3>1. ASSUME \A i \in 1..n : ~Repeats(i), NEW i \in 1..n, NEW j \in 1..n, i # j,
                 children[i].kind = children[j].kind, children[i].key = children[j].key
          PROVE  FALSE
      <4>1. CASE i < j
        <5>1. i \in 1..(j - 1)
          BY <2>1, <4>1
        <5> QED
          BY <3>1, <5>1
      <4>2. CASE j < i
        <5>1. j \in 1..(i - 1)
          BY <2>1, <4>2
        <5> QED
          BY <3>1, <5>1
      <4> QED
        BY <2>1, <3>1, <4>1, <4>2
    <3>2. ASSUME DeclaredOnce(children), NEW i \in 1..n, NEW j \in 1..(i - 1)
          PROVE  ~(children[j].kind = children[i].kind /\ children[j].key = children[i].key)
      <4>1. j \in 1..n /\ j # i
        BY <2>1
      <4> QED
        BY <3>2, <4>1 DEF DeclaredOnce
    <3> QED
      BY <3>1, <3>2 DEF DeclaredOnce
  <2>4. Typed(root, names) <=>
           /\ \A m \in names \ {ContentTypes} : \E i \in 1..n : Types(i, m)
           /\ \A i \in 1..n :
                 /\ children[i].kind \in {"default", "override"} /\ ~children[i].extra
                 /\ children[i].kind = "override" => children[i].key \in names
                 /\ children[i].type \notin {"macroEnabled", "activeX"}
           /\ DeclaredOnce(children)
           /\ Says("default", "rels", "relationships") /\ Says("default", "xml", "xml")
           /\ Says("override", MainDocument, "main")
    BY <1>2 DEF Typed, DeclaredOnce
  <2>5. CASE ~DeclaredOnce(children)
    BY <2>2, <2>3, <2>4, <2>5
  <2>6. CASE DeclaredOnce(children)
    <3> DEFINE KeysOf(kind) == {children[i].key : i \in {j \in 1..n : children[j].kind = kind}}
    <3>1. /\ DOMAIN defaults = KeysOf("default")
          /\ \A i \in 1..n : children[i].kind = "default" =>
                               defaults[children[i].key] = children[i].type
      BY <2>1, <2>6, DeclaredIs
    <3>2. /\ DOMAIN overrides = KeysOf("override")
          /\ \A i \in 1..n : children[i].kind = "override" =>
                               overrides[children[i].key] = children[i].type
      BY <2>1, <2>6, DeclaredIs
    <3> HIDE DEF defaults, overrides
    <3>3. \A key, type : Gives(defaults, key, type) <=> Says("default", key, type)
      BY <3>1
    <3>4. \A key, type : Gives(overrides, key, type) <=> Says("override", key, type)
      BY <3>2
    <3>5. DOMAIN overrides \subseteq names <=>
             \A i \in 1..n : children[i].kind = "override" => children[i].key \in names
      BY <3>2
    <3>6. \A m : (m \in DOMAIN overrides \/ m.suffix \in DOMAIN defaults)
                    <=> \E i \in 1..n : Types(i, m)
      BY <3>1, <3>2
    <3>7. (\A k \in DOMAIN defaults : ProhibitedContentType(defaults[k]) = {}) <=>
             \A i \in 1..n : children[i].kind = "default" =>
                               children[i].type \notin {"macroEnabled", "activeX"}
      BY <3>1, ProhibitedTypes
    <3>8. (\A k \in DOMAIN overrides : ProhibitedContentType(overrides[k]) = {}) <=>
             \A i \in 1..n : children[i].kind = "override" =>
                               children[i].type \notin {"macroEnabled", "activeX"}
      BY <3>2, ProhibitedTypes
    <3>9. basic <=> \A i \in 1..n : children[i].kind # "other" /\ ~children[i].extra
      BY <2>3, <2>6
    <3>10. \A i \in 1..n : children[i].kind # "other" <=>
                             children[i].kind \in {"default", "override"}
      BY <2>1 DEF IsType
    <3>11. types <=> /\ Says("default", "rels", "relationships") /\ Says("default", "xml", "xml")
                     /\ \A i \in 1..n : children[i].kind = "override" => children[i].key \in names
                     /\ Says("override", MainDocument, "main")
                     /\ \A m \in names \ {ContentTypes} : \E i \in 1..n : Types(i, m)
      <4> HIDE DEF Gives, Says, Types
      <4> QED
        BY <3>3, <3>4, <3>5, <3>6
    <3> HIDE DEF types, basic, Says, Types
    <3> QED
      BY <2>2, <2>4, <2>6, <3>7, <3>8, <3>9, <3>10, <3>11
  <2> QED
    BY <2>5, <2>6
<1> QED
  BY <1>1, <1>2

--------------------------------------------------------------------------------
(* Relationships *)

RelationshipCategories == {"malformed_relationships", "external_relationship",
                           "unsafe_relationship_target", "missing_relationship_target"}

Related(root) == [ids : SUBSET {root.children[i].id : i \in 1..Len(root.children)},
                  main : Nat, found : SUBSET RelationshipCategories]

\* The root leads to the main document with this child.
IsToMain(child) == child.type = "officeDocument" /\ child.target = MainDocument

\* What one child does to what the loop has seen: no finding exactly when the child
\* leads to a part and its id is new.
OneChild(root, rels, names, seen, child, after) ==
    /\ after \in Related(root)
    /\ after.found = {} <=>
          seen.found = {} /\ Leads(child, rels, names) /\ child.id \notin seen.ids
    /\ after.found = {} =>
          /\ after.ids = seen.ids \cup {child.id}
          /\ after.main = IF rels = RootRelationships /\ IsToMain(child)
                          THEN seen.main + 1 ELSE seen.main

LEMMA RelateOne ==
  ASSUME NEW root, IsRoot(root), root.tag = "Relationships", NEW rels, NEW names,
         NEW seen \in Related(root), NEW i \in 1..Len(root.children)
  PROVE  OneChild(root, rels, names, seen, root.children[i],
                  ValidateRelationship(rels, names, seen, root.children[i]))
<1> DEFINE child == root.children[i]
           after == ValidateRelationship(rels, names, seen, child)
           malformed == \/ ~child.isRelationship
                        \/ child.id = "bad" \/ child.id \in seen.ids
                        \/ child.type \notin SafeTypes
                        \/ child.extra
           internal  == child.mode \in {"none", "Internal"}
           toMain    == /\ rels = RootRelationships
                        /\ child.type = "officeDocument" /\ child.target = MainDocument
           found     == IF malformed THEN {"malformed_relationships"}
                        ELSE IF child.mode = "External" THEN {"external_relationship"}
                        ELSE IF ~internal THEN {"malformed_relationships"}
                        ELSE IF ~child.safe THEN {"unsafe_relationship_target"}
                        ELSE IF Resolved(rels, child.target) \notin names
                             THEN {"missing_relationship_target"}
                        ELSE {}
           ids  == IF malformed THEN seen.ids ELSE seen.ids \cup {child.id}
           main == seen.main + IF ~malformed /\ internal /\ toMain THEN 1 ELSE 0
<1>1. after = [ids |-> ids, main |-> main, found |-> seen.found \cup found]
  BY DEF ValidateRelationship
<1>2. /\ seen.ids \in SUBSET {root.children[j].id : j \in 1..Len(root.children)}
      /\ seen.main \in Nat /\ seen.found \in SUBSET RelationshipCategories
  BY DEF Related
<1>3. found \in SUBSET RelationshipCategories
  <2>1. found \in {{"malformed_relationships"}, {"external_relationship"},
                   {"unsafe_relationship_target"}, {"missing_relationship_target"}, {}}
    BY Zenon
  <2> HIDE DEF found
  <2> QED
    BY <2>1 DEF RelationshipCategories
<1>4. main \in Nat
  BY <1>2
<1>5. ids \in SUBSET {root.children[j].id : j \in 1..Len(root.children)}
  BY <1>2
<1>6. after \in Related(root)
  <2> HIDE DEF ids, main, found, after
  <2> QED
    BY <1>1, <1>2, <1>3, <1>4, <1>5 DEF Related
<1>7. found = {} <=> Leads(child, rels, names) /\ child.id \notin seen.ids
  <2>1. Resolved(rels, child.target) =
          [child.target EXCEPT !.folders =
             (IF rels = RootRelationships THEN <<>> ELSE Front(rels.folders)) \o @]
    BY DEF Resolved, SourceDirectory
  <2>2. found = {} <=> /\ ~malformed /\ child.mode # "External" /\ internal /\ child.safe
                       /\ Resolved(rels, child.target) \in names
    <3> HIDE DEF malformed, internal, child
    <3> QED
      OBVIOUS
  <2>3. internal => child.mode # "External"
    OBVIOUS
  <2> HIDE DEF found, child
  <2> QED
    BY <2>1, <2>2, <2>3 DEF Leads
<1>8. after.found = {} <=> seen.found = {} /\ found = {}
  <2> HIDE DEF ids, main, found, after
  <2> QED
    BY <1>1
<1>9. ASSUME found = {}
      PROVE  /\ ids = seen.ids \cup {child.id}
             /\ main = IF rels = RootRelationships /\ IsToMain(child)
                       THEN seen.main + 1 ELSE seen.main
  <2>1. ~malformed /\ internal
    <3> HIDE DEF malformed, internal, child
    <3> QED
      BY <1>9
  <2>2. toMain <=> rels = RootRelationships /\ IsToMain(child)
    BY DEF IsToMain
  <2> HIDE DEF malformed, internal, toMain, child
  <2> QED
    BY <1>2, <2>1, <2>2
<1>10. after.ids = ids /\ after.main = main
  <2> HIDE DEF ids, main, found, after
  <2> QED
    BY <1>1
<1> HIDE DEF ids, main, found, child, after
<1> QED
  BY <1>6, <1>7, <1>8, <1>9, <1>10 DEF child, after, OneChild

LEMMA RelateFold ==
  ASSUME NEW root, IsRoot(root), root.tag = "Relationships", NEW rels, NEW names
  PROVE  \E h : /\ h[0] = [ids |-> {}, main |-> 0, found |-> {}]
                /\ \A k \in 1..Len(root.children) :
                      h[k] = ValidateRelationship(rels, names, h[k - 1], root.children[k])
                /\ \A k \in 0..Len(root.children) : h[k] \in Related(root)
                /\ LET end == h[Len(root.children)]
                   IN  ValidateRelationships(root, rels, names) =
                          end.found \cup IF rels = RootRelationships /\ end.main # 1
                                         THEN {"malformed_relationships"} ELSE {}
<1> DEFINE seq == root.children
           n == Len(seq)
           D == Related(root)
           base == [ids |-> {}, main |-> 0, found |-> {}]
           F == [p \in D \X (1..n) |-> ValidateRelationship(rels, names, p[1], seq[p[2]])]
           Step(g) == [s \in SUBSET DOMAIN seq |->
                        IF s = {} THEN base
                        ELSE ValidateRelationship(rels, names, g[s \ {Max(s)}], seq[Max(s)])]
           G == CHOOSE g : g = Step(g)
           Verdict(end) == end.found \cup IF rels = RootRelationships /\ end.main # 1
                                          THEN {"malformed_relationships"} ELSE {}
<1>1. ValidateRelationships(root, rels, names) = Verdict(G[DOMAIN seq])
  BY DEF ValidateRelationships, FoldLeft, MapThenFoldSet
<1>2. n \in Nat /\ DOMAIN seq = 1..n
  BY ChildrenAre
<1>3. base \in D
  BY DEF Related
<1>4. F \in [D \X (1..n) -> D]
  <2> HIDE DEF D
  <2>1. ASSUME NEW p \in D \X (1..n)
        PROVE  ValidateRelationship(rels, names, p[1], seq[p[2]]) \in D
    <3>1. p[1] \in Related(root) /\ p[2] \in 1..Len(root.children)
      BY DEF D
    <3> QED
      BY <3>1, RelateOne DEF D, OneChild
  <2> QED
    BY <2>1
<1>5. PICK g \in [SUBSET (1..n) -> D] : IsFold(g, n, base, F)
  <2> HIDE DEF F, n, seq, D, base
  <2> QED
    BY <1>2, <1>3, <1>4, FoldExists
<1> HIDE DEF D, base
<1>6. g = Step(g)
  <2>1. ASSUME NEW s \in SUBSET (1..n)
        PROVE  g[s] = IF s = {} THEN base
                      ELSE ValidateRelationship(rels, names, g[s \ {Max(s)}], seq[Max(s)])
    <3>1. CASE s = {}
      BY <1>5, <3>1 DEF IsFold
    <3>2. CASE s # {}
      <4>1. Max(s) \in 1..n /\ s \ {Max(s)} \in SUBSET (1..n)
        BY <1>2, <3>2, MaxIn
      <4>2. g[s] = F[<<g[s \ {Max(s)}], Max(s)>>]
        BY <1>5, <3>2 DEF IsFold
      <4>3. <<g[s \ {Max(s)}], Max(s)>> \in D \X (1..n)
        BY <4>1
      <4> QED
        BY <3>2, <4>2, <4>3
    <3> QED
      BY <3>1, <3>2
  <2> QED
    BY <2>1, <1>2
<1>7. G = Step(G)
  <2> HIDE DEF Step
  <2> QED
    BY <1>6
<1>8. \A s \in SUBSET (1..n) :
         G[s] = IF s = {} THEN base
                ELSE ValidateRelationship(rels, names, G[s \ {Max(s)}], seq[Max(s)])
  <2> HIDE DEF G
  <2> QED
    BY <1>7, <1>2
<1> HIDE DEF G
<1> DEFINE h == [k \in 0..n |-> G[1..k]]
<1>9. h[0] = base
  <2>1. h[0] = G[1..0] /\ {} \in SUBSET (1..n)
    BY <1>2
  <2> QED
    BY <1>8, <1>2, <2>1, FirstOnes
<1>10. ASSUME NEW k \in 1..n
       PROVE  h[k] = ValidateRelationship(rels, names, h[k - 1], seq[k])
  <2>1. h[k] = G[1..k] /\ h[k - 1] = G[1..(k - 1)]
    BY <1>2
  <2> QED
    BY <1>8, <1>2, <2>1, FirstOnes
<1>11. h[n] = G[DOMAIN seq]
  BY <1>2
<1> HIDE DEF h, F
<1>12. \A k \in 0..n : h[k] \in D
  <2> DEFINE S == {k \in 0..n : h[k] \in D}
  <2>1. 0 \in S
    BY <1>2, <1>3, <1>9
  <2>2. ASSUME NEW k \in 0..(n - 1), k \in S PROVE k + 1 \in S
    <3>1. k + 1 \in 1..n /\ k + 1 \in 0..n /\ (k + 1) - 1 = k
      BY <1>2
    <3>2. h[k + 1] = ValidateRelationship(rels, names, h[k], seq[k + 1])
      BY <1>10, <3>1
    <3>3. h[k] \in Related(root) /\ k + 1 \in 1..Len(root.children)
      BY <2>2, <3>1 DEF D
    <3>4. h[k + 1] \in D
      <4> HIDE DEF n, seq
      <4>1. ValidateRelationship(rels, names, h[k], root.children[k + 1]) \in Related(root)
        BY <3>3, RelateOne DEF OneChild
      <4> QED
        BY <3>2, <4>1 DEF D, seq
    <3> QED
      BY <3>1, <3>4
  <2> HIDE DEF S
  <2>3. \A k \in 0..n : k \in S
    BY <1>2, <2>1, <2>2, Climb
  <2> QED
    BY <2>3 DEF S
<1>13. ValidateRelationships(root, rels, names) = Verdict(h[n])
  BY <1>1, <1>11
<1> QED
  BY <1>9, <1>10, <1>12, <1>13 DEF D, base

LinkedUpTo(root, rels, names, k) ==
    /\ \A i \in 1..k : Leads(root.children[i], rels, names)
    /\ \A i, j \in 1..k : i # j => root.children[i].id # root.children[j].id

ToMainUpTo(root, k) == {i \in 1..k : IsToMain(root.children[i])}

LEMMA ToMainCounts ==
  ASSUME NEW root, NEW k \in Nat
  PROVE  /\ Cardinality(ToMainUpTo(root, 0)) = 0
         /\ Cardinality(ToMainUpTo(root, k)) \in Nat
         /\ Cardinality(ToMainUpTo(root, k + 1)) =
               IF IsToMain(root.children[k + 1]) THEN Cardinality(ToMainUpTo(root, k)) + 1
               ELSE Cardinality(ToMainUpTo(root, k))
<1>1. ToMainUpTo(root, 0) = {}
  BY DEF ToMainUpTo
<1>2. IsFiniteSet(ToMainUpTo(root, k))
  <2>1. IsFiniteSet(1..k)
    BY FS_Interval
  <2>2. ToMainUpTo(root, k) \subseteq 1..k
    BY DEF ToMainUpTo
  <2> QED
    BY <2>1, <2>2, FS_Subset
<1>3. k + 1 \notin ToMainUpTo(root, k) /\ 1..(k + 1) = (1..k) \cup {k + 1}
  BY DEF ToMainUpTo
<1>4. ToMainUpTo(root, k + 1) = IF IsToMain(root.children[k + 1])
                                THEN ToMainUpTo(root, k) \cup {k + 1} ELSE ToMainUpTo(root, k)
  BY <1>3 DEF ToMainUpTo
<1>5. Cardinality(ToMainUpTo(root, k) \cup {k + 1}) = Cardinality(ToMainUpTo(root, k)) + 1
  BY <1>2, <1>3, FS_AddElement
<1>6. Cardinality(ToMainUpTo(root, k)) \in Nat
  BY <1>2, FS_CardinalityType
<1> QED
  BY <1>1, <1>4, <1>5, <1>6, FS_EmptySet

\* The relationships of a part are found in order exactly when each of them leads to a
\* part under an id of its own, and from the root one and one only to the main document.
LEMMA RelationshipsVerdict ==
  ASSUME NEW root, IsRoot(root), NEW rels, NEW names
  PROVE  ValidateRelationships(root, rels, names) = {} <=>
           Connected(root, rels, names) /\ (rels = RootRelationships => LeadsToMain(root))
<1>1. CASE root.tag # "Relationships"
  <2>1. ValidateRelationships(root, rels, names) = {"malformed_relationships"}
    BY <1>1 DEF ValidateRelationships
  <2> QED
    BY <1>1, <2>1 DEF Connected
<1>2. CASE root.tag = "Relationships"
  <2> DEFINE seq == root.children
             n == Len(seq)
             Main(k) == IF rels = RootRelationships THEN Cardinality(ToMainUpTo(root, k)) ELSE 0
  <2>1. n \in Nat
    BY <1>2, ChildrenAre
  <2>2. PICK h : /\ h[0] = [ids |-> {}, main |-> 0, found |-> {}]
                 /\ \A k \in 1..n : h[k] = ValidateRelationship(rels, names, h[k - 1], seq[k])
                 /\ \A k \in 0..n : h[k] \in Related(root)
                 /\ ValidateRelationships(root, rels, names) =
                       h[n].found \cup IF rels = RootRelationships /\ h[n].main # 1
                                       THEN {"malformed_relationships"} ELSE {}
    BY <1>2, RelateFold
  <2> DEFINE Good(k) == /\ h[k].found = {} <=> LinkedUpTo(root, rels, names, k)
                        /\ h[k].found = {} => /\ h[k].ids = {seq[i].id : i \in 1..k}
                                              /\ h[k].main = Main(k)
             S == {k \in 0..n : Good(k)}
  <2>3. 0 \in S
    <3>1. 1..0 = {} /\ 0 \in 0..n /\ Cardinality(ToMainUpTo(root, 0)) = 0
      BY <2>1, ToMainCounts
    <3>2. LinkedUpTo(root, rels, names, 0)
      BY <3>1 DEF LinkedUpTo
    <3>3. h[0].found = {} /\ h[0].main = 0 /\ h[0].ids = {}
      BY <2>2
    <3> QED
      BY <3>1, <3>2, <3>3
  <2>4. ASSUME NEW k \in 0..(n - 1), k \in S PROVE k + 1 \in S
    <3>1. k \in Nat /\ k \in 0..n /\ k + 1 \in 1..n /\ k + 1 \in 0..n /\ (k + 1) - 1 = k
          /\ 1..(k + 1) = (1..k) \cup {k + 1} /\ k + 1 \notin 1..k
      BY <2>1
    <3> DEFINE child == seq[k + 1]
               before == h[k]
               after == h[k + 1]
    <3>2. after = ValidateRelationship(rels, names, before, child) /\ before \in Related(root)
      BY <2>2, <3>1
    <3>3. before.found = {} <=> LinkedUpTo(root, rels, names, k)
      BY <2>4
    <3>4. before.found = {} => before.ids = {seq[i].id : i \in 1..k} /\ before.main = Main(k)
      BY <2>4
    <3> HIDE DEF before, after
    <3>5. /\ after.found = {} <=>
               /\ before.found = {} /\ Leads(child, rels, names) /\ child.id \notin before.ids
          /\ after.found = {} =>
               /\ after.ids = before.ids \cup {child.id}
               /\ after.main = IF rels = RootRelationships /\ IsToMain(child)
                               THEN before.main + 1 ELSE before.main
      <4>1. k + 1 \in 1..Len(root.children)
        BY <3>1
      <4>2. OneChild(root, rels, names, before, child, after)
        BY <1>2, <3>2, <4>1, RelateOne
      <4> QED
        BY <4>2 DEF OneChild
    <3>6. CASE before.found # {}
      <4>1. ~LinkedUpTo(root, rels, names, k + 1)
        BY <3>1, <3>3, <3>6 DEF LinkedUpTo
      <4> QED
        BY <3>1, <3>5, <3>6, <4>1 DEF after
    <3>7. CASE before.found = {}
      <4>1. LinkedUpTo(root, rels, names, k) /\ before.main = Main(k)
            /\ before.ids = {seq[i].id : i \in 1..k}
        BY <3>3, <3>4, <3>7
      <4>2. after.found = {} <=>
              Leads(child, rels, names) /\ \A i \in 1..k : seq[i].id # child.id
        BY <3>5, <3>7, <4>1
      <4>3. after.found = {} <=> LinkedUpTo(root, rels, names, k + 1)
        <5>1. ASSUME after.found = {} PROVE LinkedUpTo(root, rels, names, k + 1)
          BY <3>1, <4>1, <4>2, <5>1 DEF LinkedUpTo
        <5>2. ASSUME LinkedUpTo(root, rels, names, k + 1) PROVE after.found = {}
          BY <3>1, <4>2, <5>2 DEF LinkedUpTo
        <5> QED
          BY <5>1, <5>2
      <4>4. ASSUME after.found = {} PROVE after.ids = {seq[i].id : i \in 1..(k + 1)}
        BY <3>1, <3>5, <4>1, <4>4
      <4>5. ASSUME after.found = {} PROVE after.main = Main(k + 1)
        <5>1. Cardinality(ToMainUpTo(root, k + 1)) =
                 IF IsToMain(child) THEN Cardinality(ToMainUpTo(root, k)) + 1
                 ELSE Cardinality(ToMainUpTo(root, k))
          BY <3>1, ToMainCounts
        <5> HIDE DEF child
        <5> QED
          BY <3>5, <4>1, <4>5, <5>1
      <4> QED
        BY <3>1, <4>3, <4>4, <4>5 DEF after
    <3> QED
      BY <3>6, <3>7
  <2>5. Good(n)
    <3>1. n \in 0..n
      BY <2>1
    <3> HIDE DEF S, n, Good
    <3>2. \A k \in 0..n : k \in S
      BY <2>1, <2>3, <2>4, Climb
    <3> QED
      BY <3>1, <3>2 DEF S
  <2>6. LinkedUpTo(root, rels, names, n) <=> Connected(root, rels, names)
    BY <1>2 DEF LinkedUpTo, Connected
  <2>7. Cardinality(ToMainUpTo(root, n)) = 1 <=> LeadsToMain(root)
    BY DEF LeadsToMain, ToMainUpTo, IsToMain
  <2>8. ValidateRelationships(root, rels, names) = {} <=>
           h[n].found = {} /\ (rels = RootRelationships => h[n].main = 1)
    BY <2>2
  <2> QED
    BY <2>5, <2>6, <2>7, <2>8
<1> QED
  BY <1>1, <1>2

--------------------------------------------------------------------------------
(* The stages *)

\* The two ways to bound the ratio: of an empty entry, the size is bounded.
LEMMA RatioBound ==
  ASSUME NEW part, IsPart(part)
  PROVE  part.size <= MaxRatio * (IF part.packed = 0 THEN 1 ELSE part.packed) <=>
           part.size <= MaxRatio * part.packed \/ part.size <= MaxRatio
<1> DEFINE size == part.size
           packed == part.packed
<1>1. size \in Nat /\ packed \in Nat /\ MaxRatio \in Nat
  BY LimitsAssumption DEF IsPart
<1> HIDE DEF size, packed
<1>2. CASE packed = 0
  <2>1. MaxRatio * packed = 0 /\ MaxRatio * 1 = MaxRatio
    BY <1>1, <1>2
  <2> QED
    BY <1>1, <1>2, <2>1 DEF size, packed
<1>3. CASE packed # 0
  <2>1. PICK more \in Nat : packed = more + 1
    BY <1>1, <1>3
  <2>2. MaxRatio * packed = MaxRatio * more + MaxRatio /\ MaxRatio * more >= 0
        /\ MaxRatio * more \in Int
    BY <1>1, <2>1
  <2>3. MaxRatio <= MaxRatio * packed /\ MaxRatio * packed \in Int
    BY <1>1, <2>2
  <2>4. size <= MaxRatio => size <= MaxRatio * packed
    BY <1>1, <2>3
  <2> QED
    BY <1>3, <2>4 DEF size, packed
<1> QED
  BY <1>2, <1>3

LEMMA SafeXmlIs ==
  ASSUME NEW part, IsPart(part)
  PROVE  SafeXml(part) = {} <=>
           part.size <= MaxXmlSize /\ part.depth <= MaxXmlDepth /\ part.xml = "sound"
<1>1. /\ part.size \in Nat /\ part.depth \in Nat /\ MaxXmlSize \in Nat /\ MaxXmlDepth \in Nat
      /\ part.xml \in {"sound", "undecodable", "dtd", "malformed"}
  BY LimitsAssumption DEF IsPart
<1> QED
  BY <1>1 DEF SafeXml

LEMMA MagicIs ==
  ASSUME NEW part, IsPart(part)
  PROVE  DangerousMagic(part) = {} <=> part.magic = "none"
BY DEF IsPart, DangerousMagic

\* What is left to be found out when the archive has opened and its parts are harmless.
Coheres(pkg) ==
    LET names == Names(pkg)
        Root(n) == PartAt(pkg, n).root
    IN  /\ Typed(Root(ContentTypes), names) /\ IsWordDocument(Root(MainDocument))
        /\ \A n \in names : n.suffix = "rels" => Connected(Root(n), n, names)
        /\ LeadsToMain(Root(RootRelationships))

LEMMA ConformsInStages ==
  ASSUME NEW pkg \in Packages
  PROVE  Conforms(pkg) <=> /\ Opens(pkg)
                           /\ \A part \in Entries(pkg) : ~part.corrupt /\ Harmless(part)
                           /\ Coheres(pkg)
<1> DEFINE EachPart(part) ==
             /\ part.name.spelled # "unsafe"
             /\ part.size <= MaxEntrySize
             /\ part.size <= MaxRatio * part.packed \/ part.size <= MaxRatio
             /\ IsXml(part.name.path) => part.size <= MaxXmlSize /\ part.depth <= MaxXmlDepth
             /\ ~part.encrypted /\ ~part.corrupt /\ part.magic = "none"
             /\ IsXml(part.name.path) => part.xml = "sound"
             /\ StructureIsAllowed(part.name.path)
             /\ ProhibitedName(part.name.path) = {}
<1>1. ASSUME NEW part \in Entries(pkg)
      PROVE  EachPart(part) <=> EntryInOrder(part) /\ ~part.corrupt /\ Harmless(part)
  <2>1. IsPart(part)
    BY PartsAre
  <2>2. part.size <= MaxRatio * (IF part.packed = 0 THEN 1 ELSE part.packed) <=>
           part.size <= MaxRatio * part.packed \/ part.size <= MaxRatio
    BY <2>1, RatioBound
  <2>3. SafeXml(part) = {} <=>
           part.size <= MaxXmlSize /\ part.depth <= MaxXmlDepth /\ part.xml = "sound"
    BY <2>1, SafeXmlIs
  <2>4. DangerousMagic(part) = {} <=> part.magic = "none"
    BY <2>1, MagicIs
  <2> QED
    BY <2>2, <2>3, <2>4, Zenon DEF EntryInOrder, Harmless
<1>2. Conforms(pkg) <=>
        /\ \A part \in Entries(pkg) : EachPart(part)
        /\ DistinctNames(pkg) /\ NamesAreWhole(pkg)
        /\ pkg.bytes <= MaxCompressed /\ Len(pkg.parts) <= MaxEntries /\ TotalSize(pkg) <= MaxTotal
        /\ ~pkg.interrupted /\ pkg.zip /\ pkg.directory # "broken"
        /\ RequiredParts \subseteq Names(pkg) /\ Coheres(pkg)
  <2>1. NamesAreUnique(pkg) <=> /\ \A part \in Entries(pkg) : part.name.spelled # "unsafe"
                                /\ DistinctNames(pkg)
    BY DEF NamesAreUnique, DistinctNames
  <2>2. Conforms(pkg) <=> /\ NamesAreUnique(pkg) /\ NamesAreWhole(pkg)
                          /\ WithinLimits(pkg) /\ Readable(pkg)
                          /\ RequiredParts \subseteq Names(pkg) /\ Coheres(pkg)
    BY DEF Conforms, Coheres
  <2> QED
    BY <2>1, <2>2 DEF WithinLimits, Readable
<1>3. (\A part \in Entries(pkg) : EachPart(part)) <=>
        /\ \A part \in Entries(pkg) : EntryInOrder(part)
        /\ \A part \in Entries(pkg) : ~part.corrupt /\ Harmless(part)
  BY <1>1
<1> HIDE DEF EachPart
<1> QED
  BY <1>2, <1>3 DEF Opens, Arrives, DirectoryInOrder

\* What may be said of each entry may be said of the entry under each name.
LEMMA InventoryIs ==
  ASSUME NEW pkg \in Packages, DistinctNames(pkg)
  PROVE  /\ DOMAIN Inventory(pkg) = Names(pkg)
         /\ \A n \in Names(pkg) : /\ Inventory(pkg)[n] = PartAt(pkg, n)
                                  /\ PartAt(pkg, n) \in Entries(pkg)
                                  /\ PartAt(pkg, n).name.path = n
                                  /\ IsPart(PartAt(pkg, n))
         /\ \A part \in Entries(pkg) : part.name.path \in Names(pkg)
                                       /\ part = PartAt(pkg, part.name.path)
<1>1. \A n \in Names(pkg) : PartAt(pkg, n) \in Entries(pkg) /\ PartAt(pkg, n).name.path = n
  BY PartAtIs
<1>2. \A part \in Entries(pkg) : part = PartAt(pkg, part.name.path)
  BY PartAtIs
<1>3. \A part \in Entries(pkg) : part.name.path \in Names(pkg) /\ IsPart(part)
  BY PartsAre
<1> QED
  BY <1>1, <1>2, <1>3 DEF Inventory

\* The last stage accepts a package exactly when its parts fit together.
LEMMA RelateVerdict ==
  ASSUME NEW pkg \in Packages, Opens(pkg),
         \A part \in Entries(pkg) : ~part.corrupt /\ Harmless(part)
  PROVE  LET root(n) == Inventory(pkg)[n].root
             names   == DOMAIN Inventory(pkg)
         IN  ValidateContentTypes(root(ContentTypes), names)
                \cup ValidateWordDocument(root(MainDocument))
                \cup (UNION {ValidateRelationships(root(n), n, names) :
                                n \in {m \in {o \in Names(pkg) : IsXml(o)} : m.suffix = "rels"}})
               = {}
             <=> Conforms(pkg)
<1> DEFINE names == Names(pkg)
           Root(n) == PartAt(pkg, n).root
           rels == {n \in names : n.suffix = "rels"}
<1>1. DistinctNames(pkg) /\ RequiredParts \subseteq names
  BY DEF Opens, DirectoryInOrder
<1>2. /\ DOMAIN Inventory(pkg) = names
      /\ \A n \in names : Inventory(pkg)[n] = PartAt(pkg, n) /\ IsRoot(Root(n))
  BY <1>1, InventoryIs DEF IsPart
<1>3. {m \in {o \in names : IsXml(o)} : m.suffix = "rels"} = rels
  BY DEF IsXml
<1>4. ContentTypes \in names /\ MainDocument \in names /\ RootRelationships \in rels
  BY <1>1 DEF RequiredParts, RootRelationships, Path
<1>5. ValidateContentTypes(Root(ContentTypes), names) = {} <=> Typed(Root(ContentTypes), names)
  BY <1>2, <1>4, TypesVerdict
<1>6. ValidateWordDocument(Root(MainDocument)) = {} <=> IsWordDocument(Root(MainDocument))
  BY DEF ValidateWordDocument, IsWordDocument
<1>7. \A n \in rels : ValidateRelationships(Root(n), n, names) = {} <=>
         Connected(Root(n), n, names) /\ (n = RootRelationships => LeadsToMain(Root(n)))
  BY <1>2, RelationshipsVerdict
<1>8. (\A n \in rels : ValidateRelationships(Root(n), n, names) = {}) <=>
         /\ \A n \in names : n.suffix = "rels" => Connected(Root(n), n, names)
         /\ LeadsToMain(Root(RootRelationships))
  <2> HIDE DEF Root
  <2> QED
    BY <1>4, <1>7
<1>9. Conforms(pkg) <=> Coheres(pkg)
  BY ConformsInStages
<1>10. Coheres(pkg) <=> /\ ValidateContentTypes(Root(ContentTypes), names) = {}
                        /\ ValidateWordDocument(Root(MainDocument)) = {}
                        /\ \A n \in rels : ValidateRelationships(Root(n), n, names) = {}
  BY <1>5, <1>6, <1>8 DEF Coheres
<1> DEFINE C == UNION {ValidateRelationships(Root(n), n, names) : n \in rels}
<1>11. C = {} <=> \A n \in rels : ValidateRelationships(Root(n), n, names) = {}
  OBVIOUS
<1>12. UNION {ValidateRelationships(Inventory(pkg)[n].root, n, DOMAIN Inventory(pkg)) :
                 n \in {m \in {o \in Names(pkg) : IsXml(o)} : m.suffix = "rels"}} = C
  BY <1>2, <1>3
<1>13. /\ Inventory(pkg)[ContentTypes].root = Root(ContentTypes)
       /\ Inventory(pkg)[MainDocument].root = Root(MainDocument)
  BY <1>2, <1>4
<1> HIDE DEF C, Root, names, rels
<1> QED
  BY <1>2, <1>9, <1>10, <1>11, <1>12, <1>13

\* What each stage may rely on.
PackageInv ==
    /\ package \in Packages
    /\ stage \in {"read", "inspect", "unpack", "parse", "relate", "done"}
    /\ stage = "read" => normalizedEntries = NoEntries /\ contents = {} /\ findings = {}
    /\ stage = "inspect" => Arrives(package) /\ contents = {} /\ findings = {}
    /\ stage \in {"unpack", "parse", "relate"} =>
          Opens(package) /\ normalizedEntries = Inventory(package)
    /\ stage = "unpack" => contents = {} /\ findings = {}
    /\ stage = "parse" =>
          /\ contents = {n \in Names(package) : ~PartAt(package, n).corrupt}
          /\ findings = {} <=> contents = Names(package)
    /\ stage = "relate" =>
          /\ findings = {} /\ contents = Names(package)
          /\ \A part \in Entries(package) : ~part.corrupt /\ Harmless(part)
          /\ parsedXml = {n \in Names(package) : IsXml(n)}
    /\ stage = "done" => (findings = {} <=> Conforms(package))
    /\ contents \subseteq DOMAIN normalizedEntries
    /\ contents # {} => Opens(package)

LEMMA PackageInitInv ==
  ASSUME PackageInit PROVE PackageInv
BY DEF PackageInit, PackageInv, NoEntries

\* A package that does not arrive does not conform.
LEMMA ReadPackageInv ==
  ASSUME PackageInv, ReadPackage PROVE PackageInv'
<1>1. /\ package \in Packages /\ package' = package /\ stage = "read"
      /\ contents' = {} /\ normalizedEntries' = normalizedEntries
  BY DEF PackageInv, ReadPackage
<1>2. findings' = {} => Arrives(package)
  <2>1. package.bytes \in Nat /\ MaxCompressed \in Nat
    BY <1>1, PackagesAssumption, LimitsAssumption DEF IsPackage
  <2>2. ASSUME findings' = {}
        PROVE  /\ ~(package.bytes > MaxCompressed)
               /\ ~package.interrupted /\ package.zip /\ package.directory # "broken"
               /\ ~(package.directory = "sound"
                     /\ \E part \in ToSet(package.parts) : part.name.spelled = "nul")
    BY <2>2 DEF ReadPackage, Then
  <2> QED
    BY <2>1, <2>2 DEF Arrives, NamesAreWhole, Entries
<1>3. findings' # {} => ~Conforms(package)
  <2>1. /\ package.bytes \in Nat /\ MaxCompressed \in Nat /\ MaxEntries \in Nat
        /\ Len(package.parts) \in Nat
    BY <1>1, PackagesAssumption, LimitsAssumption, PartsAre DEF IsPackage
  <2>2. SUFFICES ASSUME Conforms(package) PROVE findings' = {}
    OBVIOUS
  <2>3. Arrives(package) /\ Len(package.parts) <= MaxEntries
    BY <1>1, <2>2, ConformsInStages DEF Opens, DirectoryInOrder
  <2> QED
    BY <2>1, <2>3 DEF ReadPackage, Then, Arrives, NamesAreWhole, Entries
<1>4. stage' = IF findings' = {} THEN "inspect" ELSE "done"
  BY DEF ReadPackage, Then
<1> QED
  BY <1>1, <1>2, <1>3, <1>4 DEF PackageInv

\* Nothing is unpacked of an archive whose directory is not in order.
LEMMA InspectInv ==
  ASSUME PackageInv, Inspect PROVE PackageInv'
<1> DEFINE seen == InspectEntryMetadata(package.parts)
           missing == IF RequiredParts \subseteq DOMAIN seen.entries THEN {}
                      ELSE {"missing_required_part"}
<1>1. /\ package \in Packages /\ package' = package /\ stage = "inspect"
      /\ contents' = {} /\ Arrives(package)
  BY DEF PackageInv, Inspect
<1>2. /\ normalizedEntries' = seen.entries /\ findings' = seen.found \cup missing
      /\ stage' = IF findings' = {} THEN "unpack" ELSE "done"
  BY DEF Inspect, Then
<1>3. /\ seen.found = {} <=> DirectoryInOrder(package)
      /\ seen.found = {} => seen.entries = Inventory(package)
  BY <1>1, InspectVerdict
<1>4. DOMAIN Inventory(package) = Names(package)
  BY DEF Inventory
<1>5. findings' = {} <=> Opens(package)
  <2> HIDE DEF seen
  <2> QED
    BY <1>1, <1>2, <1>3, <1>4 DEF Opens
<1>6. findings' = {} => normalizedEntries' = Inventory(package)
  <2> HIDE DEF seen
  <2> QED
    BY <1>2, <1>3
<1>7. Conforms(package) => Opens(package)
  BY <1>1, ConformsInStages
<1> QED
  BY <1>1, <1>2, <1>5, <1>6, <1>7 DEF PackageInv

\* Every entry is unpacked, or there is a finding that stays.
LEMMA ReadEntriesInv ==
  ASSUME PackageInv, ReadEntries PROVE PackageInv'
<1> DEFINE names == Names(package)
           sound == {n \in names : ~PartAt(package, n).corrupt}
<1>1. /\ package \in Packages /\ package' = package /\ stage = "unpack" /\ stage' = "parse"
      /\ Opens(package) /\ normalizedEntries = Inventory(package) /\ findings = {}
      /\ normalizedEntries' = normalizedEntries
  BY DEF PackageInv, ReadEntries
<1>2. DistinctNames(package) /\ \A part \in Entries(package) : EntryInOrder(part)
  BY <1>1 DEF Opens, DirectoryInOrder
<1>3. /\ DOMAIN normalizedEntries = names
      /\ \A n \in names : /\ normalizedEntries[n] = PartAt(package, n)
                          /\ PartAt(package, n).size <= MaxEntrySize
  BY <1>1, <1>2, InventoryIs DEF EntryInOrder
<1>4. {n \in DOMAIN normalizedEntries : normalizedEntries[n].size <= MaxEntrySize} = names
  BY <1>3
<1>5. {n \in names : ~normalizedEntries[n].corrupt} = sound
  BY <1>3
<1>6. contents' = sound /\ findings' = IF sound = names THEN {} ELSE {"corrupt_zip"}
  BY <1>1, <1>4, <1>5 DEF ReadEntries
<1>7. findings' = {} <=> contents' = names
  BY <1>6
<1>8. contents' \subseteq DOMAIN normalizedEntries'
  BY <1>1, <1>3, <1>6
<1> QED
  BY <1>1, <1>6, <1>7, <1>8 DEF PackageInv

\* The parts are all harmless, or there is a finding.
LEMMA ParseContentsInv ==
  ASSUME PackageInv, ParseContents PROVE PackageInv'
<1> DEFINE names == Names(package)
           part(n) == normalizedEntries[n]
           clean == {n \in contents : DangerousMagic(part(n)) = {}}
           readable == {n \in clean : IsXml(n)}
<1>1. /\ package \in Packages /\ package' = package /\ stage = "parse"
      /\ Opens(package) /\ normalizedEntries = Inventory(package)
      /\ normalizedEntries' = normalizedEntries /\ contents' = contents
      /\ contents = {n \in names : ~PartAt(package, n).corrupt}
      /\ findings = {} <=> contents = names
  BY DEF PackageInv, ParseContents
<1>2. DistinctNames(package)
  BY <1>1 DEF Opens, DirectoryInOrder
<1>3. /\ DOMAIN normalizedEntries = names
      /\ \A n \in names : /\ part(n) = PartAt(package, n) /\ part(n) \in Entries(package)
                          /\ part(n).name.path = n
      /\ \A p \in Entries(package) : p.name.path \in names /\ p = PartAt(package, p.name.path)
  BY <1>1, <1>2, InventoryIs
<1>4. /\ findings' = findings \cup (UNION {DangerousMagic(part(n)) : n \in contents})
                              \cup (UNION {SafeXml(part(n)) : n \in readable})
      /\ stage' = IF findings' = {} THEN "relate" ELSE "done"
      /\ parsedXml' = {n \in readable : SafeXml(part(n)) = {}}
  BY DEF ParseContents, Then
<1>5. findings' = {} <=> /\ contents = names
                         /\ \A n \in contents : DangerousMagic(part(n)) = {}
                         /\ \A n \in readable : SafeXml(part(n)) = {}
  <2> DEFINE B == UNION {DangerousMagic(part(n)) : n \in contents}
             C == UNION {SafeXml(part(n)) : n \in readable}
  <2>1. B = {} <=> \A n \in contents : DangerousMagic(part(n)) = {}
    OBVIOUS
  <2>2. C = {} <=> \A n \in readable : SafeXml(part(n)) = {}
    <3> HIDE DEF readable
    <3> QED
      OBVIOUS
  <2>3. findings' = findings \cup B \cup C
    BY <1>4
  <2> HIDE DEF B, C, readable, part
  <2> QED
    BY <1>1, <2>1, <2>2, <2>3
<1>6. (contents = names) <=> \A p \in Entries(package) : ~p.corrupt
  BY <1>1, <1>3
<1>7. findings' = {} <=> \A p \in Entries(package) : ~p.corrupt /\ Harmless(p)
  <2>1. ASSUME findings' = {}, NEW p \in Entries(package) PROVE ~p.corrupt /\ Harmless(p)
    <3>1. p.name.path \in contents /\ p = part(p.name.path)
      BY <1>3, <1>5, <2>1
    <3>2. DangerousMagic(p) = {}
      BY <1>5, <2>1, <3>1
    <3>3. IsXml(p.name.path) => p.name.path \in readable
      BY <3>1, <3>2
    <3>4. IsXml(p.name.path) => SafeXml(p) = {}
      <4> HIDE DEF readable
      <4> QED
        BY <1>5, <2>1, <3>1, <3>3
    <3> QED
      BY <1>5, <1>6, <2>1, <3>2, <3>4 DEF Harmless
  <2>2. ASSUME \A p \in Entries(package) : ~p.corrupt /\ Harmless(p) PROVE findings' = {}
    <3>1. contents = names
      BY <1>6, <2>2
    <3>2. \A n \in names : /\ DangerousMagic(part(n)) = {}
                           /\ IsXml(n) => SafeXml(part(n)) = {}
      BY <1>3, <2>2 DEF Harmless
    <3> QED
      BY <1>5, <3>1, <3>2
  <2> QED
    BY <2>1, <2>2
<1>8. findings' = {} => parsedXml' = {n \in names : IsXml(n)}
  BY <1>4, <1>5
<1>9. Conforms(package) => findings' = {}
  BY <1>1, <1>7, ConformsInStages
<1>10. contents' \subseteq DOMAIN normalizedEntries'
  BY <1>1, <1>3
<1>11. findings' = {} => contents' = names
  BY <1>1, <1>5
<1> QED
  BY <1>1, <1>4, <1>7, <1>8, <1>9, <1>10, <1>11 DEF PackageInv

\* The last stage settles the verdict.
LEMMA RelateInv ==
  ASSUME PackageInv, Relate PROVE PackageInv'
<1>1. /\ package \in Packages /\ package' = package /\ stage = "relate" /\ stage' = "done"
      /\ Opens(package) /\ normalizedEntries = Inventory(package)
      /\ \A part \in Entries(package) : ~part.corrupt /\ Harmless(part)
      /\ parsedXml = {n \in Names(package) : IsXml(n)}
      /\ normalizedEntries' = normalizedEntries /\ contents' = contents
      /\ contents \subseteq DOMAIN normalizedEntries
  BY DEF PackageInv, Relate
<1>2. findings' = {} <=> Conforms(package)
  <2> DEFINE root(n) == Inventory(package)[n].root
             names == DOMAIN Inventory(package)
  <2>1. findings' = ValidateContentTypes(root(ContentTypes), names)
                      \cup ValidateWordDocument(root(MainDocument))
                      \cup (UNION {ValidateRelationships(root(n), n, names) :
                              n \in {m \in {o \in Names(package) : IsXml(o)} : m.suffix = "rels"}})
    BY <1>1 DEF Relate
  <2> QED
    BY <1>1, <2>1, RelateVerdict
<1> QED
  BY <1>1, <1>2 DEF PackageInv

LEMMA PackageNextInv ==
  ASSUME PackageInv, [PackageNext]_pkgvars PROVE PackageInv'
<1>1. CASE ReadPackage
  BY <1>1, ReadPackageInv
<1>2. CASE Inspect
  BY <1>2, InspectInv
<1>3. CASE ReadEntries
  BY <1>3, ReadEntriesInv
<1>4. CASE ParseContents
  BY <1>4, ParseContentsInv
<1>5. CASE Relate
  BY <1>5, RelateInv
<1>6. CASE UNCHANGED pkgvars
  BY <1>6 DEF pkgvars, PackageInv
<1> QED
  BY <1>1, <1>2, <1>3, <1>4, <1>5, <1>6 DEF PackageNext

\* What every stage of validate_docx_package may rely on.
THEOREM PackageStages == PackageSpec => []PackageInv
<1>1. PackageInit => PackageInv
  BY PackageInitInv
<1>2. PackageInv /\ [PackageNext]_pkgvars => PackageInv'
  BY PackageNextInv
<1> QED
  BY <1>1, <1>2, PTL DEF PackageSpec

\* validate_docx_package accepts exactly the packages that conform, of any size: what one
\* stage passes over is not lost for the verdict, and no sound package is refused.
THEOREM VerdictIsExact == PackageSpec => []AcceptsWhatConforms
<1>1. PackageInv => AcceptsWhatConforms
  BY DEF PackageInv, AcceptsWhatConforms, IsValid
<1> QED
  BY <1>1, PackageStages, PTL

\* Nothing is unpacked unless the names of the directory are unique and its total is
\* within the limit, whatever the directory says.
THEOREM UnpackingStaysBounded == PackageSpec => []UnpackingIsBounded
<1>1. PackageInv => UnpackingIsBounded
  BY DEF PackageInv, UnpackingIsBounded, Opens, DirectoryInOrder, EntryInOrder, NamesAreUnique,
         DistinctNames
<1> QED
  BY <1>1, PackageStages, PTL

--------------------------------------------------------------------------------
(* Templates.  The visitor hands its local names down, call by call; Locals reads   *)
(* them off the tree.  So what a node gives when it is visited does not depend on   *)
(* the visits before: it is clean or it is not.                                     *)

HasFinding(fs) == \E f \in fs : f[1] = "finding"

\* The names that the loops around a node have made local by the time it is visited.
Locals(tree, at) ==
    UNION {tree[Above(at, n)].targets : n \in {m \in 0..(Len(at) - 1) :
              tree[Above(at, m)].op = "for" /\ tree[Above(at, m + 1)].role # "iter"}}

\* What the visit of a node gives.
NodeFacts(tree, call) ==
    LET op == tree[call.at].op
    IN  IF op \in {"path", "chain"} THEN GetattrFacts(tree, call)
        ELSE IF op = "name" THEN NameFacts(tree, call)
        ELSE IF op = "filter" THEN FilterFacts(tree, call)
        ELSE IF op = "for" THEN ForFacts(tree, call)
        ELSE IF op = "call" THEN {Finding("disallowed_call")}
        ELSE IF op = "rejected" THEN {Finding("disallowed_expression")}
        ELSE {}

Clean(tree, at) == ~HasFinding(NodeFacts(tree, Call(at, Locals(tree, at))))

PathsOf(tree) == {tree[at].path : at \in {b \in DOMAIN tree : tree[b].op = "path"}}

LayoutFacts(t) == When(t.elsewhere, Finding("unsupported_part"))
                  \cup (UNION {InspectPart(p) : p \in ToSet(t.parts)})

IsParsed(part) == part.parses /\ ~part.oversized /\ ~AstExceedsLimits(part.ast)

AllIsClean(t) == /\ ~HasFinding(LayoutFacts(t))
                 /\ \A part \in ToSet(t.parts) :
                       IsParsed(part) /\ \A at \in DOMAIN part.ast : Clean(part.ast, at)

\* A node of which nothing is missing from the facts.
Settled(tree, at) == /\ Clean(tree, at)
                     /\ tree[at].op = "path" => <<"variable", tree[at].path>> \in facts

\* A node that a pending call will still come to.
IsPending(at) == \E call \in ToSet(visits) : IsPrefix(call.at, at)

\* Pending calls are for nodes of the tree, each with the names that are local there.
CallsAreScoped ==
    visits # <<>> =>
        /\ parsed > 0 /\ template.parts[parsed].parses
        /\ \A call \in ToSet(visits) :
              call.at \in DOMAIN Tree /\ call = Call(call.at, Locals(Tree, call.at))

\* As long as nothing was found, every node of what was parsed is settled or pending.
NothingIsMissed ==
    ~HasFinding(facts) =>
        /\ ~HasFinding(LayoutFacts(template))
        /\ \A i \in 1..parsed :
              /\ IsParsed(template.parts[i])
              /\ \A at \in DOMAIN template.parts[i].ast :
                    Settled(template.parts[i].ast, at) \/ (i = parsed /\ IsPending(at))

\* What is noted as a variable is a path of some tree.
VariablesAreRead ==
    \A f \in facts : f[1] = "variable" => \E tree \in TreesOf(template) : f[2] \in PathsOf(tree)

AllPaths(t) == UNION {PathsOf(tree) : tree \in TreesOf(t)}

\* A finding is one that the template deserves, and a fault is found in the end.
TemplateInv ==
    /\ template \in Templates /\ step \in {"inspect", "visit", "done"}
    /\ parsed \in 0..Len(template.parts) /\ visits \in Seq(ToSet(visits))
    /\ step = "inspect" => parsed = 0 /\ visits = <<>> /\ facts = {}
    /\ step # "done" => verdict = Pending
    /\ step = "visit" => /\ template.packageValid
                         /\ CallsAreScoped /\ NothingIsMissed /\ VariablesAreRead
                         /\ HasFinding(facts) => ~AllIsClean(template)
    /\ step = "done" => (verdict.findings = {} <=> /\ template.packageValid /\ AllIsClean(template)
                                                  /\ Required \subseteq AllPaths(template))

--------------------------------------------------------------------------------
(* The walk over a syntax tree *)

LEMMA AboveIs ==
  ASSUME NEW at \in Seq(Nat), NEW n \in 0..Len(at)
  PROVE  /\ Above(at, n) \in Seq(Nat) /\ Len(Above(at, n)) = n
         /\ \A i \in 1..n : Above(at, n)[i] = at[i]
BY DEF Above

LEMMA AboveAll ==
  ASSUME NEW at \in Seq(Nat) PROVE Above(at, Len(at)) = at
BY DEF Above

LEMMA AboveAppend ==
  ASSUME NEW at \in Seq(Nat), NEW k \in Nat
  PROVE  /\ Append(at, k) \in Seq(Nat) /\ Len(Append(at, k)) = Len(at) + 1
         /\ Above(Append(at, k), Len(at)) = at
         /\ Above(Append(at, k), Len(at) + 1) = Append(at, k)
         /\ \A n \in 0..Len(at) : Above(Append(at, k), n) = Above(at, n)
<1>1. Append(at, k) \in Seq(Nat) /\ Len(Append(at, k)) = Len(at) + 1
  OBVIOUS
<1>2. ASSUME NEW n \in 0..Len(at) PROVE Above(Append(at, k), n) = Above(at, n)
  BY DEF Above
<1>3. Above(Append(at, k), Len(at) + 1) = Append(at, k)
  BY <1>1, AboveAll
<1> QED
  BY <1>1, <1>2, <1>3, AboveAll

\* A step further down is what is above, and one more.
LEMMA AboveNext ==
  ASSUME NEW at \in Seq(Nat), NEW n \in 0..(Len(at) - 1)
  PROVE  Above(at, n + 1) = Append(Above(at, n), at[n + 1]) /\ at[n + 1] \in Nat
BY DEF Above

LEMMA NodesAre ==
  ASSUME NEW tree, IsTree(tree), NEW at \in DOMAIN tree
  PROVE  /\ at \in Seq(Nat) /\ IsNode(tree[at]) /\ tree[at].arity \in Nat
         /\ \A k \in 1..tree[at].arity : Append(at, k) \in DOMAIN tree
BY DEF IsTree, IsNode

LEMMA ParentIs ==
  ASSUME NEW tree, IsTree(tree), NEW at \in Seq(Nat), NEW k \in Nat,
         Append(at, k) \in DOMAIN tree
  PROVE  /\ at \in DOMAIN tree /\ k \in 1..tree[at].arity
         /\ tree[at].op = "for" => /\ tree[Append(at, k)].role \in {"iter", "body", "else", "test"}
                                   /\ tree[Append(at, k)].role = "iter" <=> k = 1
<1> DEFINE b == Append(at, k)
<1>1. b # <<>> /\ Front(b) = at /\ Last(b) = k
  BY DEF Front, Last
<1>2. b \in DOMAIN tree \ {<<>>}
  BY <1>1
<1> HIDE DEF b
<1> QED
  BY <1>1, <1>2 DEF IsTree, b

LEMMA AboveIn ==
  ASSUME NEW tree, IsTree(tree), NEW at \in DOMAIN tree, NEW n \in 0..Len(at)
  PROVE  Above(at, n) \in DOMAIN tree
<1>1. at \in Seq(Nat) /\ Len(at) \in Nat
  BY NodesAre
<1> DEFINE S == {k \in 0..Len(at) : Above(at, Len(at) - k) \in DOMAIN tree}
<1>2. 0 \in S
  BY <1>1, AboveAll
<1>3. ASSUME NEW k \in 0..(Len(at) - 1), k \in S PROVE k + 1 \in S
  <2> DEFINE m == Len(at) - (k + 1)
  <2>1. m \in 0..(Len(at) - 1) /\ m + 1 = Len(at) - k
    BY <1>1
  <2>2. Above(at, m + 1) = Append(Above(at, m), at[m + 1]) /\ at[m + 1] \in Nat
    BY <1>1, <2>1, AboveNext
  <2>3. Above(at, m) \in Seq(Nat)
    BY <1>1, <2>1, AboveIs
  <2>4. Append(Above(at, m), at[m + 1]) \in DOMAIN tree
    BY <1>3, <2>1, <2>2
  <2>5. Above(at, m) \in DOMAIN tree
    BY <2>2, <2>3, <2>4, ParentIs
  <2> QED
    BY <1>1, <1>3, <2>5
<1> HIDE DEF S
<1>4. Len(at) - n \in S
  <2>1. Len(at) - n \in 0..Len(at)
    BY <1>1
  <2> QED
    BY <1>1, <1>2, <1>3, <2>1, Climb
<1> QED
  BY <1>1, <1>4 DEF S

\* What is strictly below a node is at or below one of its children.
LEMMA UnderChild ==
  ASSUME NEW tree, IsTree(tree), NEW at \in DOMAIN tree, NEW a \in DOMAIN tree,
         IsPrefix(a, at), a # at
  PROVE  \E k \in 1..tree[a].arity : IsPrefix(Append(a, k), at)
<1>1. at \in Seq(Nat) /\ a \in Seq(Nat)
  BY NodesAre
<1>2. Len(a) \in 0..(Len(at) - 1) /\ Above(at, Len(a)) = a
  <2>1. Len(a) <= Len(at) /\ Above(at, Len(a)) = a
    BY <1>1 DEF IsPrefix, Above
  <2>2. Len(a) # Len(at)
    BY <1>1, <2>1, AboveAll
  <2> QED
    BY <1>1, <2>1, <2>2
<1> DEFINE k == at[Len(a) + 1]
<1>3. Above(at, Len(a) + 1) = Append(a, k) /\ k \in Nat
  BY <1>1, <1>2, AboveNext
<1>4. Append(a, k) \in DOMAIN tree
  <2>1. Len(a) + 1 \in 0..Len(at)
    BY <1>1, <1>2
  <2>2. Above(at, Len(a) + 1) \in DOMAIN tree
    BY <2>1, AboveIn
  <2> QED
    BY <1>3, <2>2
<1>5. k \in 1..tree[a].arity
  BY <1>1, <1>3, <1>4, ParentIs
<1>6. IsPrefix(Append(a, k), at)
  <2>1. Len(Append(a, k)) = Len(a) + 1 /\ Len(a) + 1 <= Len(at)
    BY <1>1, <1>2, <1>3
  <2>2. SubSeq(Append(a, k), 1, Len(Append(a, k))) = Append(a, k)
    BY <1>1, <1>3
  <2> QED
    BY <1>3, <2>1, <2>2 DEF IsPrefix, Above
<1> QED
  BY <1>5, <1>6

LEMMA LocalsOfChild ==
  ASSUME NEW tree, NEW at \in Seq(Nat), NEW k \in Nat
  PROVE  Locals(tree, Append(at, k)) =
            Locals(tree, at) \cup
            (IF tree[at].op = "for" /\ tree[Append(at, k)].role # "iter"
             THEN tree[at].targets ELSE {})
<1> DEFINE b == Append(at, k)
           M(c) == {m \in 0..(Len(c) - 1) :
                       tree[Above(c, m)].op = "for" /\ tree[Above(c, m + 1)].role # "iter"}
           scope(c, m) == tree[Above(c, m)].targets
<1>1. /\ Len(b) = Len(at) + 1 /\ Above(b, Len(at)) = at /\ Above(b, Len(at) + 1) = b
      /\ \A n \in 0..Len(at) : Above(b, n) = Above(at, n)
  BY AboveAppend
<1>2. Len(at) \in Nat
  OBVIOUS
<1> HIDE DEF b
<1>3. ASSUME NEW m \in 0..(Len(at) - 1)
      PROVE  Above(b, m) = Above(at, m) /\ Above(b, m + 1) = Above(at, m + 1)
  BY <1>1, <1>2
<1>4. ASSUME NEW x PROVE x \in Locals(tree, b) <=> \E m \in M(b) : x \in scope(b, m)
  BY DEF Locals
<1>5. ASSUME NEW x PROVE x \in Locals(tree, at) <=> \E m \in M(at) : x \in scope(at, m)
  BY DEF Locals
<1>6. \A m \in 0..(Len(at) - 1) : m \in M(b) <=> m \in M(at)
  BY <1>1, <1>2, <1>3
<1>7. Len(at) \in M(b) <=> tree[at].op = "for" /\ tree[b].role # "iter"
  BY <1>1, <1>2
<1>8. \A m \in M(b) : m \in 0..(Len(at) - 1) \/ m = Len(at)
  BY <1>1, <1>2
<1>9. \A m \in 0..(Len(at) - 1) : scope(b, m) = scope(at, m)
  BY <1>3
<1>10. scope(b, Len(at)) = tree[at].targets
  BY <1>1
<1>11. \A m \in M(at) : m \in 0..(Len(at) - 1)
  OBVIOUS
<1> HIDE DEF M, scope
<1> QED
  BY <1>4, <1>5, <1>6, <1>7, <1>8, <1>9, <1>10, <1>11 DEF b

\* The walk as it stands: what the visitor has been called for is scoped as the tree says.
LEMMA CallIs ==
  ASSUME NEW at, NEW locals
  PROVE  Call(at, locals).at = at /\ Call(at, locals).locals = locals
BY DEF Call

\* One visit: its facts are the node's, its calls are scoped, and if it finds nothing then
\* every child is called for or, as a path of the contract, settled at once.
Visits(call, found, calls) ==
    /\ found = NodeFacts(Tree, call)
    /\ \A c \in ToSet(calls) : c.at \in DOMAIN Tree /\ c = Call(c.at, Locals(Tree, c.at))
    /\ ~HasFinding(found) =>
          \A k \in 1..Tree[call.at].arity :
             \/ \E c \in ToSet(calls) : c.at = Append(call.at, k)
             \/ /\ Tree[Append(call.at, k)].op = "path"
                /\ Clean(Tree, Append(call.at, k))
                /\ <<"variable", Tree[Append(call.at, k)].path>> \in found
    /\ \A f \in found : f[1] = "variable" => f[2] \in PathsOf(Tree)

LEMMA FindingIs ==
  ASSUME NEW x PROVE HasFinding({Finding(x)})
BY DEF HasFinding, Finding

LEMMA HasFindingOf ==
  ASSUME NEW S, NEW T
  PROVE  HasFinding(S \cup T) <=> HasFinding(S) \/ HasFinding(T)
BY DEF HasFinding

LEMMA ConcatIs ==
  ASSUME NEW V, NEW s \in Seq(V), NEW t \in Seq(V)
  PROVE  /\ s \o t \in Seq(V) /\ Len(s \o t) = Len(s) + Len(t)
         /\ DOMAIN (s \o t) = 1..(Len(s) + Len(t))
         /\ \A i \in 1..Len(s) : (s \o t)[i] = s[i]
         /\ \A i \in 1..Len(t) : (s \o t)[Len(s) + i] = t[i]
OBVIOUS

LEMMA SeqOfItself ==
  ASSUME NEW V, NEW s \in Seq(V)
  PROVE  s \in Seq(ToSet(s))
<1>1. s = [i \in 1..Len(s) |-> s[i]] /\ Len(s) \in Nat /\ DOMAIN s = 1..Len(s)
  OBVIOUS
<1>2. \A i \in 1..Len(s) : s[i] \in ToSet(s)
  BY <1>1 DEF ToSet
<1> QED
  BY <1>1, <1>2

LEMMA CallsIn ==
  ASSUME NEW s, NEW t, s \in Seq(ToSet(s)), t \in Seq(ToSet(t)), t # <<>>
  PROVE  /\ s \o Tail(t) \in Seq(ToSet(s \o Tail(t)))
         /\ ToSet(s \o Tail(t)) \subseteq ToSet(s) \cup ToSet(t)
         /\ ToSet(s) \subseteq ToSet(s \o Tail(t))
         /\ \A c \in ToSet(t) : c = Head(t) \/ c \in ToSet(s \o Tail(t))
<1> DEFINE u == s \o Tail(t)
<1>1. /\ Len(s) \in Nat /\ Len(t) \in Nat /\ Len(t) >= 1
      /\ DOMAIN s = 1..Len(s) /\ DOMAIN t = 1..Len(t)
      /\ Len(u) = Len(s) + Len(t) - 1 /\ DOMAIN u = 1..Len(u)
      /\ \A i \in 1..Len(s) : u[i] = s[i]
      /\ \A i \in 1..(Len(t) - 1) : u[Len(s) + i] = t[i + 1]
      /\ Head(t) = t[1] /\ u \in Seq(ToSet(u))
  <2>1. /\ Len(s) \in Nat /\ Len(t) \in Nat /\ Len(t) >= 1
        /\ DOMAIN s = 1..Len(s) /\ DOMAIN t = 1..Len(t) /\ Head(t) = t[1]
    OBVIOUS
  <2>2. /\ Tail(t) \in Seq(ToSet(t)) /\ Len(Tail(t)) = Len(t) - 1
        /\ \A i \in 1..(Len(t) - 1) : Tail(t)[i] = t[i + 1]
    OBVIOUS
  <2> DEFINE V == ToSet(s) \cup ToSet(t)
  <2>3. s \in Seq(V) /\ Tail(t) \in Seq(V)
    BY <2>2
  <2> HIDE DEF V
  <2>4. /\ Len(u) = Len(s) + Len(Tail(t)) /\ DOMAIN u = 1..(Len(s) + Len(Tail(t)))
        /\ \A i \in 1..Len(s) : u[i] = s[i]
        /\ \A i \in 1..Len(Tail(t)) : u[Len(s) + i] = Tail(t)[i]
    BY <2>3, ConcatIs
  <2>5. u \in Seq(V)
    BY <2>3, ConcatIs
  <2>6. u \in Seq(ToSet(u))
    <3> HIDE DEF u
    <3> QED
      BY <2>5, SeqOfItself
  <2> HIDE DEF u
  <2>7. Len(Tail(t)) = Len(t) - 1 /\ Len(u) = Len(s) + Len(t) - 1
    BY <2>1, <2>2, <2>4
  <2>8. \A i \in 1..(Len(t) - 1) : u[Len(s) + i] = t[i + 1]
    BY <2>2, <2>4, <2>7
  <2> QED
    BY <2>1, <2>4, <2>6, <2>7, <2>8
<1> HIDE DEF u
<1>3. \A i \in DOMAIN u : u[i] \in ToSet(s) \cup ToSet(t)
  <2> TAKE i \in DOMAIN u
  <2>1. CASE i \in 1..Len(s)
    BY <1>1, <2>1 DEF ToSet
  <2>2. CASE i \notin 1..Len(s)
    <3>1. i - Len(s) \in 1..(Len(t) - 1) /\ i = Len(s) + (i - Len(s))
      BY <1>1, <2>2
    <3>2. u[i] = t[i - Len(s) + 1] /\ i - Len(s) + 1 \in DOMAIN t
      BY <1>1, <3>1
    <3> QED
      BY <3>2 DEF ToSet
  <2> QED
    BY <2>1, <2>2
<1>4. \A i \in DOMAIN s : s[i] \in ToSet(u)
  <2> TAKE i \in DOMAIN s
  <2>1. i \in DOMAIN u /\ u[i] = s[i]
    BY <1>1
  <2> QED
    BY <2>1 DEF ToSet
<1>5. \A i \in DOMAIN t : t[i] = Head(t) \/ t[i] \in ToSet(u)
  <2> TAKE i \in DOMAIN t
  <2>1. CASE i = 1
    BY <1>1, <2>1
  <2>2. CASE i # 1
    <3>0. i - 1 \in 1..(Len(t) - 1) /\ i = (i - 1) + 1
      BY <1>1, <2>2
    <3>1. PICK j \in 1..(Len(t) - 1) : i = j + 1
      BY <3>0
    <3>2. u[Len(s) + j] = t[j + 1] /\ Len(s) + j \in DOMAIN u
      BY <1>1, <3>1
    <3> QED
      BY <3>1, <3>2 DEF ToSet
  <2> QED
    BY <2>1, <2>2
<1> QED
  BY <1>1, <1>3, <1>4, <1>5 DEF ToSet, u

LEMMA PathFacts ==
  ASSUME NEW tree, NEW call, tree[call.at].op = "path", ~HasFinding(NodeFacts(tree, call))
  PROVE  <<"variable", tree[call.at].path>> \in NodeFacts(tree, call)
<1> DEFINE path == tree[call.at].path
<1>1. NodeFacts(tree, call) = GetattrFacts(tree, call)
  BY DEF NodeFacts
<1>2. AttributePath(tree[call.at]) = path
  BY DEF AttributePath
<1>3. \/ GetattrFacts(tree, call) = {Finding("unsafe_attribute")}
      \/ GetattrFacts(tree, call) = {<<"variable", path>>}
      \/ GetattrFacts(tree, call) = {Finding("unknown_variable")}
  BY <1>2 DEF GetattrFacts
<1> QED
  BY <1>1, <1>3, FindingIs

LEMMA PartsOf ==
  ASSUME template \in Templates, NEW i \in 1..Len(template.parts)
  PROVE  /\ template.parts[i] \in ToSet(template.parts)
         /\ IsTextPart(template.parts[i])
         /\ template.parts[i].parses => /\ IsTree(template.parts[i].ast)
                                        /\ template.parts[i].ast \in TreesOf(template)
<1>1. IsTemplate(template)
  BY TemplatesAssumption
<1>2. template.parts \in Seq(ToSet(template.parts))
  BY <1>1 DEF IsTemplate
<1>3. DOMAIN template.parts = 1..Len(template.parts)
  BY <1>2
<1>4. template.parts[i] \in ToSet(template.parts)
  BY <1>3 DEF ToSet
<1> QED
  BY <1>1, <1>4 DEF IsTemplate, IsTextPart, TreesOf

LEMMA VisitStep ==
  ASSUME TemplateInv, step = "visit", visits # <<>>,
         NEW found, NEW calls, calls \in Seq(ToSet(calls)),
         Visits(Head(visits), found, calls), Return(found, calls)
  PROVE  TemplateInv'
<1> DEFINE c == Head(visits)
<1>1. /\ template' = template /\ step' = step /\ parsed' = parsed /\ verdict' = verdict
      /\ facts' = facts \cup found /\ visits' = calls \o Tail(visits)
  BY DEF Return
<1>2. /\ template \in Templates /\ parsed \in 0..Len(template.parts)
      /\ visits \in Seq(ToSet(visits)) /\ verdict = Pending
      /\ template.packageValid /\ CallsAreScoped /\ NothingIsMissed /\ VariablesAreRead
      /\ HasFinding(facts) => ~AllIsClean(template)
  BY DEF TemplateInv
<1>3. /\ parsed > 0 /\ template.parts[parsed].parses
      /\ \A call \in ToSet(visits) :
            call.at \in DOMAIN Tree /\ call = Call(call.at, Locals(Tree, call.at))
  BY <1>2 DEF CallsAreScoped
<1>4. parsed \in 1..Len(template.parts) /\ Tree' = Tree
  BY <1>1, <1>2, <1>3 DEF Tree
<1>5. Tree = template.parts[parsed].ast /\ IsTree(Tree) /\ Tree \in TreesOf(template)
      /\ template.parts[parsed] \in ToSet(template.parts)
  BY <1>2, <1>3, <1>4, PartsOf DEF Tree
<1>6. c \in ToSet(visits)
  <2>1. 1 \in DOMAIN visits /\ Head(visits) = visits[1]
    BY <1>2
  <2> QED
    BY <2>1 DEF ToSet
<1>7. c.at \in DOMAIN Tree /\ c = Call(c.at, Locals(Tree, c.at))
  BY <1>3, <1>6
<1>8. /\ visits' \in Seq(ToSet(visits')) /\ ToSet(visits') \subseteq ToSet(calls) \cup ToSet(visits)
      /\ ToSet(calls) \subseteq ToSet(visits')
      /\ \A d \in ToSet(visits) : d = c \/ d \in ToSet(visits')
  <2>1. visits \in Seq(ToSet(visits))
    BY <1>2
  <2>2. /\ calls \o Tail(visits) \in Seq(ToSet(calls \o Tail(visits)))
        /\ ToSet(calls \o Tail(visits)) \subseteq ToSet(calls) \cup ToSet(visits)
        /\ ToSet(calls) \subseteq ToSet(calls \o Tail(visits))
        /\ \A d \in ToSet(visits) : d = Head(visits) \/ d \in ToSet(calls \o Tail(visits))
    BY <2>1, CallsIn
  <2> QED
    BY <1>1, <2>2
<1> HIDE DEF c
<1>9. Visits(c, found, calls)
  BY DEF c
<1>10. CallsAreScoped'
  <2>1. \A call \in ToSet(visits') :
            call.at \in DOMAIN Tree /\ call = Call(call.at, Locals(Tree, call.at))
    BY <1>3, <1>8, <1>9 DEF Visits
  <2> QED
    BY <1>1, <1>3, <1>4, <2>1 DEF CallsAreScoped
<1>11. VariablesAreRead'
  <2> SUFFICES ASSUME NEW f \in facts', f[1] = "variable"
               PROVE  \E tree \in TreesOf(template) : f[2] \in PathsOf(tree)
    BY <1>1 DEF VariablesAreRead
  <2>1. CASE f \in facts
    BY <1>2, <2>1 DEF VariablesAreRead
  <2>2. CASE f \in found
    BY <1>5, <1>9, <2>2 DEF Visits
  <2> QED
    BY <1>1, <2>1, <2>2
<1>12. HasFinding(found) <=> ~Clean(Tree, c.at)
  BY <1>7, <1>9 DEF Visits, Clean
<1>13. HasFinding(facts') <=> HasFinding(facts) \/ HasFinding(found)
  BY <1>1, HasFindingOf
<1>14. HasFinding(facts') => ~AllIsClean(template)
  <2>1. ASSUME HasFinding(found) PROVE ~AllIsClean(template)
    BY <1>5, <1>7, <1>12, <2>1 DEF AllIsClean
  <2> QED
    BY <1>2, <1>13, <2>1
<1>15. NothingIsMissed'
  <2>1. SUFFICES ASSUME ~HasFinding(facts')
        PROVE  /\ ~HasFinding(LayoutFacts(template))
               /\ \A i \in 1..parsed :
                     /\ IsParsed(template.parts[i])
                     /\ \A at \in DOMAIN template.parts[i].ast :
                           \/ Settled(template.parts[i].ast, at)'
                           \/ i = parsed /\ IsPending(at)'
    <3>1. \A i \in 1..parsed : \A at \in DOMAIN template.parts[i].ast :
             (Settled(template.parts[i].ast, at))' = Settled(template.parts[i].ast, at)'
      OBVIOUS
    <3> QED
      BY <1>1 DEF NothingIsMissed, Settled
  <2>2. /\ ~HasFinding(facts) /\ ~HasFinding(found)
        /\ ~HasFinding(LayoutFacts(template))
        /\ \A i \in 1..parsed :
              /\ IsParsed(template.parts[i])
              /\ \A at \in DOMAIN template.parts[i].ast :
                    Settled(template.parts[i].ast, at) \/ (i = parsed /\ IsPending(at))
    BY <1>2, <1>13, <2>1 DEF NothingIsMissed
  <2>3. SUFFICES ASSUME NEW i \in 1..parsed, NEW at \in DOMAIN template.parts[i].ast
                 PROVE  \/ Settled(template.parts[i].ast, at)'
                        \/ i = parsed /\ IsPending(at)'
    BY <2>2
  <2>4. CASE Settled(template.parts[i].ast, at)
    BY <1>1, <2>4 DEF Settled
  <2>5. CASE i = parsed /\ IsPending(at)
    <3>1. PICK d \in ToSet(visits) : IsPrefix(d.at, at)
      BY <2>5 DEF IsPending
    <3>2. CASE d \in ToSet(visits')
      BY <2>5, <3>1, <3>2 DEF IsPending
    <3>3. CASE d = c
      <4>0. at \in DOMAIN Tree /\ IsPrefix(c.at, at)
        BY <1>5, <2>3, <2>5, <3>1, <3>3
      <4>1. CASE at = c.at
        <5>1. Clean(Tree, at)
          BY <1>12, <2>2, <4>1
        <5>2. Tree[at].op = "path" => <<"variable", Tree[at].path>> \in found
          BY <1>9, <2>2, <4>1, PathFacts DEF Visits
        <5> QED
          BY <1>1, <1>5, <2>5, <5>1, <5>2 DEF Settled
      <4>2. CASE at # c.at
        <5>1. PICK k \in 1..Tree[c.at].arity : IsPrefix(Append(c.at, k), at)
          BY <1>5, <1>7, <4>0, <4>2, UnderChild
        <5>2. CASE \E e \in ToSet(calls) : e.at = Append(c.at, k)
          BY <1>8, <2>5, <5>1, <5>2 DEF IsPending
        <5>3. CASE /\ Tree[Append(c.at, k)].op = "path"
                   /\ Clean(Tree, Append(c.at, k))
                   /\ <<"variable", Tree[Append(c.at, k)].path>> \in found
          <6> DEFINE b == Append(c.at, k)
          <6>1. b \in DOMAIN Tree
            BY <1>5, <1>7, NodesAre
          <6> HIDE DEF b
          <6>2. Tree[b].arity = 0
            BY <1>5, <5>3, <6>1, NodesAre DEF IsNode, b
          <6>3. at = b
            <7> SUFFICES ASSUME at # b PROVE FALSE
              OBVIOUS
            <7>1. \E j \in 1..Tree[b].arity : IsPrefix(Append(b, j), at)
              BY <1>5, <4>0, <5>1, <6>1, UnderChild DEF b
            <7> QED
              BY <6>2, <7>1
          <6>4. Clean(Tree, at) /\ <<"variable", Tree[at].path>> \in found
            BY <5>3, <6>3 DEF b
          <6> QED
            BY <1>1, <1>5, <2>5, <6>4 DEF Settled
        <5> QED
          BY <1>9, <2>2, <5>1, <5>2, <5>3 DEF Visits
      <4> QED
        BY <4>1, <4>2
    <3> QED
      BY <1>8, <3>1, <3>2, <3>3
  <2> QED
    BY <2>2, <2>4, <2>5
<1> QED
  BY <1>1, <1>2, <1>8, <1>10, <1>11, <1>14, <1>15 DEF TemplateInv

\* What a node gives as a variable is a path that the tree reads.
LEMMA ContractPaths ==
  ASSUME NEW node, IsNode(node), InContract(AttributePath(node))
  PROVE  node.op = "path" /\ AttributePath(node) = node.path
<1>1. Len(AttributePath(node)) >= 2
  BY ContractAssumption DEF InContract
<1>2. CASE node.op = "name"
  <2>1. AttributePath(node) = <<node.name>>
    BY <1>2 DEF AttributePath
  <2>2. Len(<<node.name>>) = 1
    OBVIOUS
  <2> QED
    BY <1>1, <2>1, <2>2
<1>3. CASE node.op # "name" /\ node.op # "path"
  <2>1. AttributePath(node) = <<>>
    BY <1>3 DEF AttributePath
  <2>2. Len(<<>>) = 0
    OBVIOUS
  <2> QED
    BY <1>1, <2>1, <2>2
<1>4. CASE node.op = "path"
  BY <1>4 DEF AttributePath
<1> QED
  BY <1>2, <1>3, <1>4

LEMMA ContractIter ==
  ASSUME NEW tree, IsTree(tree), NEW at \in DOMAIN tree, tree[at].op = "for",
         InContract(IterPath(tree, at))
  PROVE  LET b == Append(at, 1)
         IN  /\ b \in DOMAIN tree /\ tree[b].op = "path"
             /\ tree[b].path = IterPath(tree, at) /\ Clean(tree, b)
<1> DEFINE b == Append(at, 1)
           path == tree[b].path
           call == Call(b, Locals(tree, b))
<1>1. tree[at].arity >= 1 /\ tree[at].arity \in Nat
  BY NodesAre DEF IsNode
<1>2. b \in DOMAIN tree
  BY <1>1, NodesAre
<1>3. IsNode(tree[b])
  BY <1>2, NodesAre
<1>4. tree[b].op = "path" /\ path = IterPath(tree, at)
  BY <1>3, ContractPaths DEF IterPath
<1>5. path \in DOMAIN Kinds /\ path # <<>> /\ ToSet(path) \cap PrivateNames = {}
  <2>1. path \in DOMAIN Kinds
    BY <1>4 DEF InContract
  <2>2. Len(path) >= 2 /\ ToSet(path) \cap PrivateNames = {}
    BY <2>1, ContractAssumption
  <2>3. path # <<>>
    BY <2>2
  <2> QED
    BY <2>1, <2>2, <2>3
<1>6. NodeFacts(tree, call) = GetattrFacts(tree, call) /\ call.at = b
  BY <1>4, CallIs DEF NodeFacts
<1>7. AttributePath(tree[b]) = path
  BY <1>4 DEF AttributePath
<1>8. GetattrFacts(tree, call) = {<<"variable", path>>}
  BY <1>5, <1>6, <1>7 DEF GetattrFacts, InContract
<1>9. ~HasFinding({<<"variable", path>>})
  BY DEF HasFinding
<1> QED
  BY <1>2, <1>4, <1>6, <1>8, <1>9 DEF Clean

LEMMA NodeVariables ==
  ASSUME NEW tree, IsTree(tree), NEW call, call.at \in DOMAIN tree,
         NEW f \in NodeFacts(tree, call), f[1] = "variable"
  PROVE  f[2] \in PathsOf(tree)
<1> DEFINE node == tree[call.at]
<1>1. IsNode(node)
  BY NodesAre
<1>2. CASE node.op \in {"path", "chain"}
  <2>1. f \in GetattrFacts(tree, call)
    BY <1>2 DEF NodeFacts
  <2>2. InContract(AttributePath(node)) /\ f[2] = AttributePath(node)
    BY <2>1 DEF GetattrFacts, Finding
  <2>3. node.op = "path" /\ f[2] = node.path
    BY <1>1, <2>2, ContractPaths
  <2> QED
    BY <2>3 DEF PathsOf
<1>3. CASE node.op = "for"
  <2>1. f \in ForFacts(tree, call)
    BY <1>3 DEF NodeFacts
  <2>2. InContract(IterPath(tree, call.at)) /\ f[2] = IterPath(tree, call.at)
    BY <2>1 DEF ForFacts, When, Finding
  <2>3. /\ Append(call.at, 1) \in DOMAIN tree /\ tree[Append(call.at, 1)].op = "path"
        /\ tree[Append(call.at, 1)].path = f[2]
    BY <1>3, <2>2, ContractIter
  <2> QED
    BY <2>3 DEF PathsOf
<1>4. CASE node.op = "name"
  BY <1>4 DEF NodeFacts, NameFacts, Finding
<1>5. CASE node.op = "filter"
  <2>1. f \in FilterFacts(tree, call)
    BY <1>5 DEF NodeFacts
  <2> QED
    BY <2>1 DEF FilterFacts, When, Finding
<1>6. CASE node.op \notin {"path", "chain", "for", "name", "filter"}
  BY <1>6 DEF NodeFacts, Finding
<1> QED
  BY <1>2, <1>3, <1>4, <1>5, <1>6

\* The calls for the children of a node, and which children they are for.
ScopedCalls(tree, at, calls, left) ==
    /\ calls \in Seq(ToSet(calls))
    /\ \A c \in ToSet(calls) : c.at \in DOMAIN tree /\ c = Call(c.at, Locals(tree, c.at))
    /\ \A k \in 1..tree[at].arity : k \in left \/ \E c \in ToSet(calls) : c.at = Append(at, k)

LEMMA NoCalls ==
  ASSUME NEW tree, NEW at
  PROVE  ScopedCalls(tree, at, <<>>, 1..tree[at].arity)
<1>1. <<>> \in Seq(ToSet(<<>>)) /\ ToSet(<<>>) = {}
  BY DEF ToSet
<1> QED
  BY <1>1 DEF ScopedCalls

LEMMA ChildCallsAre ==
  ASSUME NEW tree, IsTree(tree), NEW at \in DOMAIN tree, tree[at].op # "for"
  PROVE  ScopedCalls(tree, at, ChildCalls(tree, Call(at, Locals(tree, at))), {})
<1> DEFINE n == tree[at].arity
           of(k) == Call(Append(at, k), Locals(tree, at))
           calls == [k \in 1..n |-> of(k)]
<1>1. n \in Nat /\ at \in Seq(Nat) /\ \A k \in 1..n : Append(at, k) \in DOMAIN tree
  BY NodesAre
<1>2. ASSUME NEW k \in 1..n
      PROVE  of(k).at = Append(at, k) /\ of(k) = Call(Append(at, k), Locals(tree, Append(at, k)))
  <2>1. k \in Nat
    BY <1>1
  <2>2. Locals(tree, Append(at, k)) = Locals(tree, at)
    <3>1. Locals(tree, Append(at, k)) =
             Locals(tree, at) \cup
             (IF tree[at].op = "for" /\ tree[Append(at, k)].role # "iter"
              THEN tree[at].targets ELSE {})
      BY <1>1, <2>1, LocalsOfChild
    <3> QED
      BY <3>1
  <2> QED
    BY <2>2, CallIs
<1>3. ChildCalls(tree, Call(at, Locals(tree, at))) = calls
  BY CallIs DEF ChildCalls
<1> HIDE DEF of
<1>4. /\ DOMAIN calls = 1..n /\ ToSet(calls) = {of(k) : k \in 1..n}
      /\ calls \in Seq({of(k) : k \in 1..n})
  <2>1. ToSet(calls) = {of(k) : k \in 1..n}
    BY <1>1 DEF ToSet
  <2> QED
    BY <1>1, <2>1
<1> HIDE DEF calls, n
<1>5. ScopedCalls(tree, at, calls, {})
  BY <1>1, <1>2, <1>4 DEF ScopedCalls, n
<1> QED
  BY <1>3, <1>5

LEMMA ForCallsAre ==
  ASSUME NEW tree, IsTree(tree), NEW at \in DOMAIN tree, tree[at].op = "for"
  PROVE  ScopedCalls(tree, at, ForCalls(tree, Call(at, Locals(tree, at))),
                     IF InContract(IterPath(tree, at)) THEN {1} ELSE {})
<1> DEFINE n == tree[at].arity
           inner == Locals(tree, at) \cup tree[at].targets
           of(k) == Call(Append(at, k + 1), inner)
           iter == IF InContract(IterPath(tree, at)) THEN <<>>
                   ELSE <<Call(Append(at, 1), Locals(tree, at))>>
           rest == [k \in 1..(n - 1) |-> of(k)]
           left == IF InContract(IterPath(tree, at)) THEN {1} ELSE {}
           IsScoped(c) == c.at \in DOMAIN tree /\ c = Call(c.at, Locals(tree, c.at))
           V == {Call(Append(at, 1), Locals(tree, at))} \cup {of(k) : k \in 1..(n - 1)}
<1>1. /\ n \in Nat /\ n >= 1 /\ at \in Seq(Nat)
      /\ \A k \in 1..n : Append(at, k) \in DOMAIN tree
  BY NodesAre DEF IsNode
<1>2. ForCalls(tree, Call(at, Locals(tree, at))) = iter \o rest
  <2> DEFINE d == Call(at, Locals(tree, at))
  <2>1. d.at = at /\ d.locals = Locals(tree, at)
    BY CallIs
  <2> HIDE DEF d
  <2>2. [k \in 1..(tree[d.at].arity - 1) |->
            Call(Append(d.at, k + 1), d.locals \cup tree[d.at].targets)] = rest
    BY <2>1
  <2>3. (IF InContract(IterPath(tree, d.at)) THEN <<>>
         ELSE <<Call(Append(d.at, 1), d.locals)>>) = iter
    BY <2>1
  <2>4. ForCalls(tree, d) = iter \o rest
    <3> HIDE DEF iter, rest
    <3> QED
      BY <2>2, <2>3 DEF ForCalls
  <2> QED
    BY <2>4 DEF d
<1>3. ASSUME NEW k \in 1..n
      PROVE  Locals(tree, Append(at, k)) = IF k = 1 THEN Locals(tree, at) ELSE inner
  <2>1. k \in Nat /\ Append(at, k) \in DOMAIN tree
    BY <1>1
  <2>2. tree[Append(at, k)].role = "iter" <=> k = 1
    BY <1>1, <2>1, ParentIs
  <2>3. Locals(tree, Append(at, k)) =
           Locals(tree, at) \cup
            (IF tree[at].op = "for" /\ tree[Append(at, k)].role # "iter"
             THEN tree[at].targets ELSE {})
    BY <1>1, <2>1, LocalsOfChild
  <2> QED
    BY <2>2, <2>3
<1>4. ASSUME NEW k \in 1..(n - 1)
      PROVE  of(k).at = Append(at, k + 1) /\ IsScoped(of(k))
  <2>1. k + 1 \in 1..n /\ k + 1 # 1
    BY <1>1
  <2>2. Locals(tree, Append(at, k + 1)) = inner /\ Append(at, k + 1) \in DOMAIN tree
    BY <1>1, <1>3, <2>1
  <2> QED
    BY <2>2, CallIs
<1>5. /\ Call(Append(at, 1), Locals(tree, at)).at = Append(at, 1)
      /\ IsScoped(Call(Append(at, 1), Locals(tree, at)))
  <2>1. 1 \in 1..n
    BY <1>1
  <2>2. Locals(tree, Append(at, 1)) = Locals(tree, at) /\ Append(at, 1) \in DOMAIN tree
    BY <1>1, <1>3, <2>1
  <2> QED
    BY <2>2, CallIs
<1> HIDE DEF of, IsScoped
<1>6. iter \in Seq(V) /\ rest \in Seq(V) /\ Len(rest) = n - 1
  <2>1. Call(Append(at, 1), Locals(tree, at)) \in V /\ \A k \in 1..(n - 1) : of(k) \in V
    OBVIOUS
  <2> HIDE DEF V
  <2>2. iter \in Seq(V)
    BY <2>1
  <2>3. n - 1 \in Nat
    BY <1>1
  <2> HIDE DEF n
  <2>4. rest \in Seq(V) /\ Len(rest) = n - 1
    BY <2>1, <2>3
  <2> QED
    BY <2>2, <2>4
<1>7. \A v \in V : IsScoped(v)
  BY <1>4, <1>5
<1>8. \A k \in 1..(n - 1) : rest[k] = of(k)
  OBVIOUS
<1>9. ~InContract(IterPath(tree, at)) =>
         Len(iter) = 1 /\ iter[1] = Call(Append(at, 1), Locals(tree, at))
  OBVIOUS
<1> HIDE DEF V, iter, rest
<1> DEFINE calls == iter \o rest
<1>10. /\ calls \in Seq(V) /\ DOMAIN calls = 1..(Len(iter) + Len(rest))
       /\ \A i \in 1..Len(iter) : calls[i] = iter[i]
       /\ \A i \in 1..Len(rest) : calls[Len(iter) + i] = rest[i]
  BY <1>6, ConcatIs
<1> HIDE DEF calls
<1>11. calls \in Seq(ToSet(calls))
  BY <1>10, SeqOfItself
<1>12. \A c \in ToSet(calls) : IsScoped(c)
  <2>1. ToSet(calls) \subseteq V
    BY <1>10 DEF ToSet
  <2> QED
    BY <1>7, <2>1
<1>13. ASSUME NEW k \in 1..n PROVE k \in left \/ \E c \in ToSet(calls) : c.at = Append(at, k)
  <2>1. CASE k = 1 /\ InContract(IterPath(tree, at))
    BY <2>1
  <2>2. CASE k = 1 /\ ~InContract(IterPath(tree, at))
    <3>1. Len(rest) \in Nat /\ Len(iter) \in Nat
      BY <1>6
    <3>2. 1 \in DOMAIN calls /\ calls[1] = iter[1]
      <4>0. Len(iter) = 1
        BY <1>9, <2>2
      <4>1. 1 \in 1..Len(iter) /\ 1 \in 1..(Len(iter) + Len(rest))
        BY <3>1, <4>0
      <4> QED
        BY <1>10, <4>1
    <3>3. calls[1] \in ToSet(calls) /\ calls[1].at = Append(at, 1)
      BY <1>5, <1>9, <2>2, <3>2 DEF ToSet
    <3> QED
      BY <2>2, <3>3
  <2>3. CASE k # 1
    <3>1. k - 1 \in 1..(n - 1) /\ k = (k - 1) + 1
      BY <1>1, <2>3
    <3>2. PICK j \in 1..(n - 1) : k = j + 1
      BY <3>1
    <3>3. Len(iter) + j \in DOMAIN calls /\ calls[Len(iter) + j] = of(j)
      <4>1. Len(iter) \in Nat
        BY <1>6
      <4>2. Len(rest) \in Nat /\ j \in 1..Len(rest)
        BY <1>1, <1>6
      <4>3. Len(iter) + j \in 1..(Len(iter) + Len(rest))
        BY <4>1, <4>2
      <4> QED
        BY <1>8, <1>10, <4>2, <4>3
    <3>4. of(j) \in ToSet(calls) /\ of(j).at = Append(at, k)
      BY <1>4, <3>2, <3>3 DEF ToSet
    <3> QED
      BY <3>4
  <2> QED
    BY <2>1, <2>2, <2>3
<1> HIDE DEF left
<1>14. ScopedCalls(tree, at, calls, left)
  BY <1>11, <1>12, <1>13 DEF ScopedCalls, IsScoped, n
<1> QED
  BY <1>2, <1>14 DEF calls, left

\* A visit is for a node of the tree, with the names that the loops around it bind.
LEMMA VisitedIs ==
  ASSUME TemplateInv, step = "visit", visits # <<>>
  PROVE  LET c == Head(visits)
         IN  IsTree(Tree) /\ c.at \in DOMAIN Tree /\ c = Call(c.at, Locals(Tree, c.at))
<1>1. /\ template \in Templates /\ parsed \in 0..Len(template.parts)
      /\ visits \in Seq(ToSet(visits)) /\ CallsAreScoped
  BY DEF TemplateInv
<1>2. /\ parsed > 0 /\ template.parts[parsed].parses
      /\ \A call \in ToSet(visits) :
            call.at \in DOMAIN Tree /\ call = Call(call.at, Locals(Tree, call.at))
  BY <1>1 DEF CallsAreScoped
<1>3. parsed \in 1..Len(template.parts)
  BY <1>1, <1>2
<1>4. IsTree(Tree)
  BY <1>1, <1>2, <1>3, PartsOf DEF Tree
<1>5. Head(visits) \in ToSet(visits)
  <2>1. 1 \in DOMAIN visits /\ Head(visits) = visits[1]
    BY <1>1
  <2> QED
    BY <2>1 DEF ToSet
<1> QED
  BY <1>2, <1>4, <1>5

LEMMA ReturnStep ==
  ASSUME TemplateInv, step = "visit", visits # <<>>, NEW calls, NEW left,
         ScopedCalls(Tree, Head(visits).at, calls, left),
         ~HasFinding(NodeFacts(Tree, Head(visits))) =>
            \A k \in left \cap (1..Tree[Head(visits).at].arity) :
                /\ Tree[Append(Head(visits).at, k)].op = "path"
                /\ Clean(Tree, Append(Head(visits).at, k))
                /\ <<"variable", Tree[Append(Head(visits).at, k)].path>>
                      \in NodeFacts(Tree, Head(visits)),
         Return(NodeFacts(Tree, Head(visits)), calls)
  PROVE  TemplateInv'
<1> DEFINE c == Head(visits)
           found == NodeFacts(Tree, c)
<1>1. IsTree(Tree) /\ c.at \in DOMAIN Tree /\ c = Call(c.at, Locals(Tree, c.at))
  BY VisitedIs
<1>2. calls \in Seq(ToSet(calls))
  BY DEF ScopedCalls
<1>3. \A f \in found : f[1] = "variable" => f[2] \in PathsOf(Tree)
  BY <1>1, NodeVariables
<1>4. Visits(c, found, calls)
  BY <1>3 DEF Visits, ScopedCalls
<1>5. Return(found, calls)
  OBVIOUS
<1> HIDE DEF found
<1> QED
  BY <1>2, <1>4, <1>5, VisitStep

\* A node whose visit calls for nothing has no children, or was found wanting.
LEMMA LeafStep ==
  ASSUME TemplateInv, step = "visit", visits # <<>>,
         \/ Tree[Head(visits).at].arity = 0
         \/ HasFinding(NodeFacts(Tree, Head(visits))),
         Return(NodeFacts(Tree, Head(visits)), <<>>)
  PROVE  TemplateInv'
<1> DEFINE n == Tree[Head(visits).at].arity
<1>1. ScopedCalls(Tree, Head(visits).at, <<>>, 1..n)
  BY NoCalls
<1>2. ~HasFinding(NodeFacts(Tree, Head(visits))) => (1..n) \cap (1..n) = {}
  OBVIOUS
<1> QED
  BY <1>1, <1>2, ReturnStep

\* A node whose visit calls for all of its children.
LEMMA InnerStep ==
  ASSUME TemplateInv, step = "visit", visits # <<>>, Tree[Head(visits).at].op # "for",
         Return(NodeFacts(Tree, Head(visits)), ChildCalls(Tree, Head(visits)))
  PROVE  TemplateInv'
<1> DEFINE c == Head(visits)
<1>1. IsTree(Tree) /\ c.at \in DOMAIN Tree /\ c = Call(c.at, Locals(Tree, c.at))
  BY VisitedIs
<1>2. ScopedCalls(Tree, c.at, ChildCalls(Tree, Call(c.at, Locals(Tree, c.at))), {})
  BY <1>1, ChildCallsAre
<1>3. ScopedCalls(Tree, c.at, ChildCalls(Tree, c), {})
  BY <1>1, <1>2
<1> QED
  BY <1>3, ReturnStep

LEMMA GetattrStep ==
  ASSUME TemplateInv, VisitGetattr PROVE TemplateInv'
<1> DEFINE c == Head(visits)
<1>1. step = "visit" /\ visits # <<>> /\ Tree[c.at].op \in {"path", "chain"}
  BY DEF VisitGetattr, Visiting
<1>2. IsTree(Tree) /\ c.at \in DOMAIN Tree
  BY <1>1, VisitedIs
<1>3. NodeFacts(Tree, c) = GetattrFacts(Tree, c)
  BY <1>1 DEF NodeFacts
<1>4. CASE Tree[c.at].op = "path"
  <2>1. Tree[c.at].arity = 0
    BY <1>2, <1>4, NodesAre DEF IsNode
  <2> QED
    BY <1>1, <1>3, <2>1, LeafStep DEF VisitGetattr
<1>5. CASE Tree[c.at].op = "chain"
  <2>1. AttributePath(Tree[c.at]) = <<>>
    BY <1>5 DEF AttributePath
  <2>2. GetattrFacts(Tree, c) = {Finding("unsafe_attribute")}
    BY <2>1 DEF GetattrFacts
  <2>3. HasFinding(NodeFacts(Tree, c))
    BY <1>3, <2>2, FindingIs
  <2> QED
    BY <1>1, <1>3, <2>3, LeafStep DEF VisitGetattr
<1> QED
  BY <1>1, <1>4, <1>5

LEMMA NameStep ==
  ASSUME TemplateInv, VisitName PROVE TemplateInv'
<1> DEFINE c == Head(visits)
<1>1. step = "visit" /\ visits # <<>> /\ Tree[c.at].op = "name"
  BY DEF VisitName, Visiting
<1>2. IsTree(Tree) /\ c.at \in DOMAIN Tree
  BY <1>1, VisitedIs
<1>3. NodeFacts(Tree, c) = NameFacts(Tree, c)
  BY <1>1 DEF NodeFacts
<1>4. Tree[c.at].arity = 0
  BY <1>1, <1>2, NodesAre DEF IsNode
<1> QED
  BY <1>1, <1>3, <1>4, LeafStep DEF VisitName

LEMMA InnerSteps ==
  ASSUME TemplateInv, VisitFilter \/ VisitCall \/ RejectExpression \/ GenericVisit
  PROVE  TemplateInv'
<1> DEFINE c == Head(visits)
<1>1. CASE VisitFilter
  <2>1. step = "visit" /\ visits # <<>> /\ Tree[c.at].op = "filter"
    BY <1>1 DEF VisitFilter, Visiting
  <2>2. NodeFacts(Tree, c) = FilterFacts(Tree, c)
    BY <2>1 DEF NodeFacts
  <2> QED
    BY <1>1, <2>1, <2>2, InnerStep DEF VisitFilter
<1>2. CASE VisitCall
  <2>1. step = "visit" /\ visits # <<>> /\ Tree[c.at].op = "call"
    BY <1>2 DEF VisitCall, Visiting
  <2>2. NodeFacts(Tree, c) = {Finding("disallowed_call")}
    BY <2>1 DEF NodeFacts
  <2> QED
    BY <1>2, <2>1, <2>2, InnerStep DEF VisitCall
<1>3. CASE RejectExpression
  <2>1. step = "visit" /\ visits # <<>> /\ Tree[c.at].op = "rejected"
    BY <1>3 DEF RejectExpression, Visiting
  <2>2. NodeFacts(Tree, c) = {Finding("disallowed_expression")}
    BY <2>1 DEF NodeFacts
  <2> QED
    BY <1>3, <2>1, <2>2, InnerStep DEF RejectExpression
<1>4. CASE GenericVisit
  <2>1. step = "visit" /\ visits # <<>> /\ Tree[c.at].op = "other"
    BY <1>4 DEF GenericVisit, Visiting
  <2>2. NodeFacts(Tree, c) = {}
    BY <2>1 DEF NodeFacts
  <2> QED
    BY <1>4, <2>1, <2>2, InnerStep DEF GenericVisit
<1> QED
  BY <1>1, <1>2, <1>3, <1>4

LEMMA ForStep ==
  ASSUME TemplateInv, VisitFor PROVE TemplateInv'
<1> DEFINE c == Head(visits)
           at == c.at
           left == IF InContract(IterPath(Tree, at)) THEN {1} ELSE {}
<1>1. step = "visit" /\ visits # <<>> /\ Tree[at].op = "for"
  BY DEF VisitFor, Visiting
<1>2. IsTree(Tree) /\ at \in DOMAIN Tree /\ c = Call(at, Locals(Tree, at))
  BY <1>1, VisitedIs
<1>3. NodeFacts(Tree, c) = ForFacts(Tree, c)
  BY <1>1 DEF NodeFacts
<1>4. ScopedCalls(Tree, at, ForCalls(Tree, Call(at, Locals(Tree, at))), left)
  <2> HIDE DEF at
  <2> QED
    BY <1>1, <1>2, ForCallsAre
<1>5. ScopedCalls(Tree, at, ForCalls(Tree, c), left)
  BY <1>2, <1>4
<1>6. ASSUME NEW k \in left
      PROVE  /\ Tree[Append(at, k)].op = "path" /\ Clean(Tree, Append(at, k))
             /\ <<"variable", Tree[Append(at, k)].path>> \in NodeFacts(Tree, c)
  <2>1. k = 1 /\ InContract(IterPath(Tree, at))
    OBVIOUS
  <2>2. <<"variable", IterPath(Tree, at)>> \in ForFacts(Tree, c)
    BY <2>1 DEF ForFacts
  <2>3. /\ Tree[Append(at, 1)].op = "path" /\ Tree[Append(at, 1)].path = IterPath(Tree, at)
        /\ Clean(Tree, Append(at, 1))
    <3> HIDE DEF at
    <3> QED
      BY <1>1, <1>2, <2>1, ContractIter
  <2> QED
    BY <1>3, <2>1, <2>2, <2>3
<1> HIDE DEF left
<1> QED
  BY <1>1, <1>3, <1>5, <1>6, ReturnStep DEF VisitFor

\* What the layout gives, one cause at a time.
LEMMA LayoutCauses ==
  ASSUME NEW t, NEW f
  PROVE  f \in LayoutFacts(t) <=>
            \/ f \in When(t.elsewhere, Finding("unsupported_part"))
            \/ \E part \in ToSet(t.parts) :
                  \/ f \in When(part.outside, Finding("unsupported_structure"))
                  \/ \E p \in part.paragraphs :
                        \/ f \in When(p.stray, Finding("malformed_delimiter"))
                        \/ \E k \in p.tokens : f \in InspectToken(p, k)
<1> DEFINE In(p) == When(p.stray, Finding("malformed_delimiter"))
                    \cup (UNION {InspectToken(p, k) : k \in p.tokens})
<1>1. ASSUME NEW p
      PROVE  f \in In(p) <=> \/ f \in When(p.stray, Finding("malformed_delimiter"))
                             \/ \E k \in p.tokens : f \in InspectToken(p, k)
  OBVIOUS
<1>2. ASSUME NEW part
      PROVE  f \in InspectPart(part) <=>
                \/ f \in When(part.outside, Finding("unsupported_structure"))
                \/ \E p \in part.paragraphs : f \in In(p)
  BY DEF InspectPart
<1>3. f \in LayoutFacts(t) <=> \/ f \in When(t.elsewhere, Finding("unsupported_part"))
                               \/ \E part \in ToSet(t.parts) : f \in InspectPart(part)
  BY DEF LayoutFacts
<1> HIDE DEF In
<1> QED
  BY <1>1, <1>2, <1>3

LEMMA LayoutIsFindings ==
  ASSUME NEW t, NEW f \in LayoutFacts(t)
  PROVE  f[1] = "finding"
<1>1. \A bad, x : f \in When(bad, Finding(x)) => f[1] = "finding"
  BY DEF When, Finding
<1>2. \A p, k : f \in InspectToken(p, k) => f[1] = "finding"
  BY DEF InspectToken, When, Finding
<1> QED
  BY <1>1, <1>2, LayoutCauses

LEMMA InspectPartsStep ==
  ASSUME TemplateInv, InspectParts
  PROVE  TemplateInv'
<1>1. /\ template' = template /\ parsed' = parsed /\ visits' = visits /\ step = "inspect"
      /\ template \in Templates /\ parsed = 0 /\ visits = <<>> /\ verdict = Pending
      /\ parsed \in 0..Len(template.parts) /\ visits \in Seq(ToSet(visits))
  BY DEF InspectParts, TemplateInv
<1>2. CASE template.packageValid
  <2>1. facts' = LayoutFacts(template) /\ step' = "visit" /\ verdict' = verdict
    BY <1>2 DEF InspectParts, LayoutFacts
  <2>2. CallsAreScoped'
    BY <1>1 DEF CallsAreScoped
  <2>3. NothingIsMissed'
    BY <1>1, <2>1 DEF NothingIsMissed
  <2>4. VariablesAreRead'
    BY <2>1, LayoutIsFindings DEF VariablesAreRead
  <2>5. HasFinding(facts') => ~AllIsClean(template)
    BY <2>1 DEF AllIsClean
  <2> QED
    BY <1>1, <1>2, <2>1, <2>2, <2>3, <2>4, <2>5 DEF TemplateInv
<1>3. CASE ~template.packageValid
  <2>1. step' = "done" /\ verdict'.findings = {"package_invalid"}
    BY <1>3 DEF InspectParts
  <2>2. verdict'.findings # {}
    BY <2>1
  <2> QED
    BY <1>1, <1>3, <2>1, <2>2 DEF TemplateInv
<1> QED
  BY <1>2, <1>3

LEMMA SettledStays ==
  ASSUME facts \subseteq facts', NEW tree, NEW at, Settled(tree, at)
  PROVE  /\ Clean(tree, at)
         /\ tree[at].op = "path" => <<"variable", tree[at].path>> \in facts'
BY DEF Settled

LEMMA ParsePartStep ==
  ASSUME TemplateInv, ParsePart
  PROVE  TemplateInv'
<1> DEFINE i == parsed + 1
           part == template.parts[i]
           refused == IF part.oversized THEN {Finding("complexity_limit")}
                      ELSE IF ~part.parses THEN {Finding("malformed_jinja")}
                      ELSE IF AstExceedsLimits(part.ast) THEN {Finding("complexity_limit")}
                      ELSE {}
<1>1. /\ step = "visit" /\ visits = <<>> /\ parsed < Len(template.parts)
      /\ parsed' = i /\ facts' = facts \cup refused
      /\ visits' = (IF refused = {} THEN <<Call(<<>>, {})>> ELSE <<>>)
      /\ template' = template /\ step' = step /\ verdict' = verdict
  BY DEF ParsePart
<1>2. /\ template \in Templates /\ parsed \in 0..Len(template.parts) /\ verdict = Pending
      /\ template.packageValid /\ NothingIsMissed /\ VariablesAreRead
      /\ HasFinding(facts) => ~AllIsClean(template)
  BY <1>1 DEF TemplateInv
<1>3. i \in 1..Len(template.parts) /\ i = parsed + 1 /\ parsed \in Nat
  <2>1. Len(template.parts) \in Nat
    BY <1>2, TemplatesAssumption DEF IsTemplate
  <2> QED
    BY <1>1, <1>2, <2>1
<1>4. part \in ToSet(template.parts) /\ (part.parses => IsTree(part.ast))
  <2> HIDE DEF i
  <2> QED
    BY <1>2, <1>3, PartsOf
<1>5. IsParsed(part) <=> refused = {}
  BY DEF IsParsed
<1>6. refused = {} \/ HasFinding(refused)
  BY FindingIs
<1>7. \A f \in refused : f[1] = "finding"
  BY DEF Finding
<1> HIDE DEF refused
<1>8. visits' \in Seq(ToSet(visits'))
  <2>1. <<>> \in Seq(ToSet(<<>>))
    OBVIOUS
  <2>2. <<Call(<<>>, {})>> \in Seq({Call(<<>>, {})})
    OBVIOUS
  <2>3. <<Call(<<>>, {})>> \in Seq(ToSet(<<Call(<<>>, {})>>))
    BY <2>2, SeqOfItself
  <2> QED
    BY <1>1, <2>1, <2>3
<1>9. HasFinding(facts') <=> HasFinding(facts) \/ HasFinding(refused)
  BY <1>1, HasFindingOf
<1>10. CallsAreScoped'
  <2> SUFFICES ASSUME visits' # <<>> PROVE CallsAreScoped'
    BY DEF CallsAreScoped
  <2>1. refused = {} /\ visits' = <<Call(<<>>, {})>>
    BY <1>1
  <2>2. part.parses /\ IsTree(part.ast) /\ <<>> \in DOMAIN part.ast
    BY <1>4, <1>5, <2>1 DEF IsParsed, IsTree
  <2>3. Locals(part.ast, <<>>) = {}
    <3>1. 0..(Len(<<>>) - 1) = {}
      OBVIOUS
    <3> QED
      BY <3>1 DEF Locals
  <2>4. ToSet(visits') = {Call(<<>>, {})}
    BY <2>1 DEF ToSet
  <2>5. Tree' = part.ast /\ template'.parts[parsed'].parses /\ parsed' > 0
    BY <1>1, <1>3, <2>2 DEF Tree
  <2>6. \A call \in ToSet(visits') :
           call.at \in DOMAIN part.ast /\ call = Call(call.at, Locals(part.ast, call.at))
    <3>1. Call(<<>>, {}).at = <<>>
      BY CallIs
    <3> QED
      BY <2>2, <2>3, <2>4, <3>1
  <2> QED
    BY <2>5, <2>6 DEF CallsAreScoped
<1>11. VariablesAreRead'
  BY <1>1, <1>2, <1>7 DEF VariablesAreRead
<1>12. HasFinding(facts') => ~AllIsClean(template)
  <2>1. HasFinding(refused) => ~IsParsed(part)
    BY <1>5 DEF HasFinding
  <2> QED
    BY <1>2, <1>4, <1>9, <2>1 DEF AllIsClean
<1>13. NothingIsMissed'
  <2>1. SUFFICES ASSUME ~HasFinding(facts')
        PROVE  /\ ~HasFinding(LayoutFacts(template))
               /\ \A j \in 1..i :
                     /\ IsParsed(template.parts[j])
                     /\ \A at \in DOMAIN template.parts[j].ast :
                           \/ Settled(template.parts[j].ast, at)'
                           \/ j = i /\ IsPending(at)'
    BY <1>1 DEF NothingIsMissed, Settled
  <2>2. /\ ~HasFinding(facts) /\ refused = {}
        /\ ~HasFinding(LayoutFacts(template))
        /\ \A j \in 1..parsed :
              /\ IsParsed(template.parts[j])
              /\ \A at \in DOMAIN template.parts[j].ast :
                    Settled(template.parts[j].ast, at) \/ (j = parsed /\ IsPending(at))
    BY <1>2, <1>6, <1>9, <2>1 DEF NothingIsMissed
  <2>3. ASSUME NEW j \in 1..parsed, NEW at \in DOMAIN template.parts[j].ast
        PROVE  Settled(template.parts[j].ast, at)'
    <3>1. ~IsPending(at)
      BY <1>1 DEF IsPending, ToSet
    <3>2. Settled(template.parts[j].ast, at)
      BY <2>2, <2>3, <3>1
    <3>3. /\ Clean(template.parts[j].ast, at)
          /\ template.parts[j].ast[at].op = "path" =>
                <<"variable", template.parts[j].ast[at].path>> \in facts'
      BY <1>1, <3>2 DEF Settled
    <3> QED
      BY <1>1, <3>3 DEF Settled
  <2>4. IsParsed(part)
    BY <1>5, <2>2
  <2>5. ASSUME NEW at \in DOMAIN part.ast PROVE IsPending(at)'
    <3>1. IsTree(part.ast)
      BY <1>4, <2>4 DEF IsParsed
    <3>2. at \in Seq(Nat)
      BY <3>1, NodesAre
    <3>3. IsPrefix(<<>>, at)
      BY <3>2 DEF IsPrefix
    <3>4. Call(<<>>, {}) \in ToSet(visits') /\ Call(<<>>, {}).at = <<>>
      BY <1>1, <2>2, CallIs DEF ToSet
    <3> QED
      BY <3>3, <3>4 DEF IsPending
  <2>6. \A j \in 1..i : j \in 1..parsed \/ j = i
    BY <1>3
  <2> QED
    BY <2>2, <2>3, <2>4, <2>5, <2>6
<1>14. parsed' \in 0..Len(template.parts)
  BY <1>1, <1>3
<1> QED
  BY <1>1, <1>2, <1>8, <1>10, <1>11, <1>12, <1>13, <1>14 DEF TemplateInv

LEMMA ConcludeStep ==
  ASSUME TemplateInv, Conclude
  PROVE  TemplateInv'
<1>1. /\ step = "visit" /\ visits = <<>> /\ parsed = Len(template.parts)
      /\ verdict'.findings = Of("finding") \cup When(Required \ Of("variable") # {},
                                                  "missing_required_variable")
      /\ step' = "done" /\ template' = template /\ parsed' = parsed /\ visits' = visits
  BY DEF Conclude
<1>2. /\ template \in Templates /\ parsed \in 0..Len(template.parts)
      /\ visits \in Seq(ToSet(visits)) /\ template.packageValid
      /\ NothingIsMissed /\ VariablesAreRead
      /\ HasFinding(facts) => ~AllIsClean(template)
  BY <1>1 DEF TemplateInv
<1>3. Of("finding") = {} <=> ~HasFinding(facts)
  BY DEF Of, HasFinding
<1>4. verdict'.findings = {} <=> ~HasFinding(facts) /\ Required \subseteq Of("variable")
  BY <1>1, <1>3 DEF When
<1>5. \A at : ~IsPending(at)
  BY <1>1 DEF IsPending, ToSet
<1>6. /\ IsTemplate(template)
      /\ \A part \in ToSet(template.parts) :
            \E j \in 1..Len(template.parts) : part = template.parts[j]
  <2>1. IsTemplate(template)
    BY <1>2, TemplatesAssumption
  <2>2. template.parts \in Seq(ToSet(template.parts))
    BY <2>1 DEF IsTemplate
  <2>3. DOMAIN template.parts = 1..Len(template.parts)
    BY <2>2
  <2> QED
    BY <2>1, <2>3 DEF ToSet
<1>7. ASSUME ~HasFinding(facts)
      PROVE  AllIsClean(template) /\ Of("variable") = AllPaths(template)
  <2>1. ~HasFinding(LayoutFacts(template))
    BY <1>2, <1>7 DEF NothingIsMissed
  <2>2. ASSUME NEW part \in ToSet(template.parts)
        PROVE  IsParsed(part) /\ \A at \in DOMAIN part.ast : Settled(part.ast, at)
    BY <1>1, <1>2, <1>5, <1>6, <1>7 DEF NothingIsMissed
  <2>3. AllIsClean(template)
    BY <2>1, <2>2 DEF AllIsClean, Settled
  <2>4. Of("variable") \subseteq AllPaths(template)
    BY <1>2 DEF Of, VariablesAreRead, AllPaths
  <2>5. ASSUME NEW path \in AllPaths(template) PROVE path \in Of("variable")
    <3>1. PICK tree \in TreesOf(template) : path \in PathsOf(tree)
      BY DEF AllPaths
    <3>2. PICK at \in DOMAIN tree : tree[at].op = "path" /\ path = tree[at].path
      BY <3>1 DEF PathsOf
    <3>3. PICK part \in ToSet(template.parts) : tree = part.ast
      BY <3>1 DEF TreesOf
    <3>4. <<"variable", path>> \in facts
      BY <2>2, <3>2, <3>3 DEF Settled
    <3> QED
      BY <3>4 DEF Of
  <2> QED
    BY <2>3, <2>4, <2>5
<1>8. verdict'.findings = {} <=> /\ template.packageValid /\ AllIsClean(template)
                                 /\ Required \subseteq AllPaths(template)
  BY <1>2, <1>4, <1>7
<1> QED
  BY <1>1, <1>2, <1>8 DEF TemplateInv

LEMMA TemplateStart ==
  ASSUME TemplateInit PROVE TemplateInv
<1>1. <<>> \in Seq(ToSet(<<>>))
  OBVIOUS
<1>2. 0 \in 0..Len(template.parts)
  <2>1. Len(template.parts) \in Nat
    BY TemplatesAssumption DEF TemplateInit, IsTemplate
  <2> QED
    BY <2>1
<1> QED
  BY <1>1, <1>2 DEF TemplateInit, TemplateInv

\* An unfinished validation has found no fault that the parts do not have, and has a call
\* pending above every node of a parsed part that it has not cleared; a finished one has
\* no finding exactly if no part has a fault and all required paths are read
\* (validate_template and the visits of _ContractVisitor).
THEOREM TemplateWalk == TemplateSpec => []TemplateInv
<1>1. TemplateInit => TemplateInv
  BY TemplateStart
<1>2. TemplateInv /\ [TemplateNext]_tmplvars => TemplateInv'
  <2> SUFFICES ASSUME TemplateInv, [TemplateNext]_tmplvars PROVE TemplateInv'
    OBVIOUS
  <2>1. CASE InspectParts
    BY <2>1, InspectPartsStep
  <2>2. CASE ParsePart
    BY <2>2, ParsePartStep
  <2>3. CASE Conclude
    BY <2>3, ConcludeStep
  <2>4. CASE VisitGetattr
    BY <2>4, GetattrStep
  <2>5. CASE VisitName
    BY <2>5, NameStep
  <2>6. CASE VisitFilter \/ VisitCall \/ RejectExpression \/ GenericVisit
    BY <2>6, InnerSteps
  <2>7. CASE VisitFor
    BY <2>7, ForStep
  <2>8. CASE UNCHANGED tmplvars
    BY <2>8 DEF tmplvars, TemplateInv, CallsAreScoped, NothingIsMissed, VariablesAreRead,
                Settled, IsPending, Tree
  <2> QED
    BY <2>1, <2>2, <2>3, <2>4, <2>5, <2>6, <2>7, <2>8 DEF TemplateNext
<1> QED
  BY <1>1, <1>2, PTL DEF TemplateSpec

--------------------------------------------------------------------------------
(* What the visitor clears and what rendering needs *)

\* The names the visitor holds for local are those that are bound, but for else branches.
LEMMA LocalsAreBound ==
  ASSUME NEW tree, IsTree(tree), NEW at \in DOMAIN tree, NEW x
  PROVE  /\ x \in Bound(tree, at) => x \in Locals(tree, at)
         /\ x \in Locals(tree, at) =>
               \E n \in 0..(Len(at) - 1) :
                  /\ Above(at, n) \in DOMAIN tree /\ tree[Above(at, n)].op = "for"
                  /\ x \in tree[Above(at, n)].targets
                  /\ tree[Above(at, n + 1)].role = "else" \/ Binds(tree, at, n)
<1>1. at \in Seq(Nat) /\ Len(at) \in Nat
  BY NodesAre
<1>2. x \in Locals(tree, at) <=>
         \E n \in 0..(Len(at) - 1) : /\ tree[Above(at, n)].op = "for"
                                     /\ tree[Above(at, n + 1)].role # "iter"
                                     /\ x \in tree[Above(at, n)].targets
  BY DEF Locals
<1>3. x \in Bound(tree, at) <=>
         \E n \in 0..(Len(at) - 1) : Binds(tree, at, n) /\ x \in tree[Above(at, n)].targets
  BY DEF Bound
<1>4. ASSUME NEW n \in 0..(Len(at) - 1), tree[Above(at, n)].op = "for"
      PROVE  /\ Above(at, n) \in DOMAIN tree
             /\ tree[Above(at, n + 1)].role \in {"iter", "body", "else", "test"}
  <2>1. n \in 0..Len(at) /\ n + 1 \in 0..Len(at)
    BY <1>1
  <2>2. Above(at, n) \in DOMAIN tree /\ Above(at, n + 1) \in DOMAIN tree
    BY <2>1, AboveIn
  <2>3. Above(at, n) \in Seq(Nat)
    BY <2>2, NodesAre
  <2>4. Above(at, n + 1) = Append(Above(at, n), at[n + 1]) /\ at[n + 1] \in Nat
    BY <1>1, AboveNext
  <2>5. Append(Above(at, n), at[n + 1]) \in DOMAIN tree
    BY <2>2, <2>4
  <2>6. tree[Append(Above(at, n), at[n + 1])].role \in {"iter", "body", "else", "test"}
    BY <1>4, <2>3, <2>4, <2>5, ParentIs
  <2> QED
    BY <2>2, <2>4, <2>6
<1>5. x \in Bound(tree, at) => x \in Locals(tree, at)
  BY <1>2, <1>3 DEF Binds
<1>6. ASSUME x \in Locals(tree, at)
      PROVE  \E n \in 0..(Len(at) - 1) :
                  /\ Above(at, n) \in DOMAIN tree /\ tree[Above(at, n)].op = "for"
                  /\ x \in tree[Above(at, n)].targets
                  /\ tree[Above(at, n + 1)].role = "else" \/ Binds(tree, at, n)
  <2>1. PICK n \in 0..(Len(at) - 1) : /\ tree[Above(at, n)].op = "for"
                                      /\ tree[Above(at, n + 1)].role # "iter"
                                      /\ x \in tree[Above(at, n)].targets
    BY <1>2, <1>6
  <2>2. /\ Above(at, n) \in DOMAIN tree
        /\ tree[Above(at, n + 1)].role \in {"iter", "body", "else", "test"}
    BY <1>4, <2>1
  <2> QED
    BY <2>1, <2>2 DEF Binds
<1> QED
  BY <1>5, <1>6

\* A loop binds no first name of the contract's paths.
LEMMA RootsAreFree ==
  ASSUME NEW tree, IsTree(tree), ~ReusesIn(tree), NEW at \in DOMAIN tree,
         NEW path \in DOMAIN Kinds
  PROVE  Head(path) \notin Bound(tree, at)
<1> SUFFICES ASSUME Head(path) \in Bound(tree, at) PROVE FALSE
  OBVIOUS
<1>1. PICK n \in 0..(Len(at) - 1) :
         /\ Above(at, n) \in DOMAIN tree /\ tree[Above(at, n)].op = "for"
         /\ Head(path) \in tree[Above(at, n)].targets
  BY LocalsAreBound
<1> DEFINE a == Above(at, n)
           roots == {Head(q) : q \in DOMAIN Kinds}
<1>2. a \in DOMAIN tree /\ tree[a].op = "for" /\ Head(path) \in tree[a].targets
  BY <1>1
<1>3. Head(path) \in roots
  OBVIOUS
<1> HIDE DEF a
<1>4. \E b \in DOMAIN tree : tree[b].op = "for" /\ tree[b].targets \cap roots # {}
  BY <1>2, <1>3
<1> QED
  BY <1>4 DEF ReusesIn

\* A name that the visitor holds for local is bound.
LEMMA NamesAreBound ==
  ASSUME NEW tree, IsTree(tree), ~ReusesIn(tree), NEW at \in DOMAIN tree,
         tree[at].op = "name"
  PROVE  tree[at].name \in Locals(tree, at) <=> tree[at].name \in Bound(tree, at)
<1> DEFINE x == tree[at].name
<1> HIDE DEF x
<1>1. x \in Bound(tree, at) => x \in Locals(tree, at)
  BY LocalsAreBound
<1>2. ASSUME x \in Locals(tree, at) PROVE x \in Bound(tree, at)
  <2>1. PICK n \in 0..(Len(at) - 1) :
           /\ tree[Above(at, n)].op = "for" /\ x \in tree[Above(at, n)].targets
           /\ tree[Above(at, n + 1)].role = "else" \/ Binds(tree, at, n)
    BY <1>2, LocalsAreBound
  <2>2. ~(tree[Above(at, n)].op = "for" /\ tree[Above(at, n + 1)].role = "else"
          /\ x \in tree[Above(at, n)].targets)
    BY DEF ReusesIn, x
  <2>3. Binds(tree, at, n)
    BY <2>1, <2>2
  <2> QED
    BY <2>1, <2>3 DEF Bound
<1> QED
  BY <1>1, <1>2 DEF x

\* The visitor clears the nodes for which rendering gets what the contract promises.
LEMMA CleanIsDefined ==
  ASSUME NEW tree, IsTree(tree), ~ReusesIn(tree), NEW at \in DOMAIN tree
  PROVE  Clean(tree, at) <=> Defined(tree, at)
<1> DEFINE node == tree[at]
           c == Call(at, Locals(tree, at))
<1>1. IsNode(node) /\ c.at = at /\ c.locals = Locals(tree, at)
  BY NodesAre, CallIs
<1> HIDE DEF c
<1>2. Clean(tree, at) <=> ~HasFinding(NodeFacts(tree, c))
  BY DEF Clean, c
<1>3. ~HasFinding({})
  BY DEF HasFinding
<1>4. CASE node.op = "name"
  <2>1. NodeFacts(tree, c) = NameFacts(tree, c)
    BY <1>1, <1>4 DEF NodeFacts
  <2>2. \A x : ~HasFinding({<<"global", x>>})
    BY DEF HasFinding
  <2>3. ~HasFinding(NameFacts(tree, c)) <=> \/ node.name \in Locals(tree, at)
                                            \/ node.name \in AllowedGlobals \cap SafeGlobals
    BY <1>1, <1>3, <2>2, FindingIs DEF NameFacts
  <2>4. Defined(tree, at) <=> \/ node.name \in Bound(tree, at)
                              \/ node.name \in AllowedGlobals \cap SafeGlobals
    BY <1>4 DEF Defined
  <2> QED
    BY <1>2, <1>4, <2>1, <2>3, <2>4, NamesAreBound
<1>5. CASE node.op = "path"
  <2>1. NodeFacts(tree, c) = GetattrFacts(tree, c) /\ AttributePath(node) = node.path
    BY <1>1, <1>5 DEF NodeFacts, AttributePath
  <2>2. ~HasFinding({<<"variable", node.path>>})
    BY DEF HasFinding
  <2>3. CASE InContract(node.path)
    <3>1. node.path \in DOMAIN Kinds
      BY <2>3 DEF InContract
    <3>2. Len(node.path) >= 2 /\ ToSet(node.path) \cap PrivateNames = {}
      BY <3>1, ContractAssumption
    <3>3. node.path # <<>>
      BY <3>2
    <3>4. GetattrFacts(tree, c) = {<<"variable", node.path>>}
      BY <1>1, <2>1, <2>3, <3>2, <3>3 DEF GetattrFacts
    <3>5. Head(node.path) \notin Bound(tree, at)
      BY <3>1, RootsAreFree
    <3>6. Defined(tree, at)
      BY <1>5, <2>3, <3>5 DEF Defined
    <3> QED
      BY <1>2, <2>1, <2>2, <3>4, <3>6
  <2>4. CASE ~InContract(node.path)
    <3>1. \/ GetattrFacts(tree, c) = {Finding("unsafe_attribute")}
          \/ GetattrFacts(tree, c) = {Finding("unknown_variable")}
      BY <1>1, <2>1, <2>4 DEF GetattrFacts
    <3>2. ~Defined(tree, at)
      BY <1>5, <2>4 DEF Defined
    <3> QED
      BY <1>2, <2>1, <3>1, <3>2, FindingIs
  <2> QED
    BY <2>3, <2>4
<1>6. CASE node.op = "for"
  <2> DEFINE path == IterPath(tree, at)
  <2>1. NodeFacts(tree, c) = ForFacts(tree, c)
    BY <1>1, <1>6 DEF NodeFacts
  <2>2. HasFinding(ForFacts(tree, c)) <=> InContract(path) /\ Kinds[path] # "list"
    <3>1. \A x, S : HasFinding({<<"variable", x>>} \cup S) <=> HasFinding(S)
      BY DEF HasFinding
    <3>2. \A bad : HasFinding(When(bad, Finding("value_kind_mismatch"))) <=> bad
      BY <1>3, FindingIs DEF When
    <3> QED
      BY <1>1, <1>3, <3>1, <3>2 DEF ForFacts
  <2>3. Defined(tree, at) <=> (InContract(path) => Kinds[path] \in {"list"})
    BY <1>6 DEF Defined
  <2> QED
    BY <1>2, <2>1, <2>2, <2>3
<1>7. CASE node.op = "filter"
  <2> DEFINE name == node.name
             path == Operand(tree, at)
  <2>1. NodeFacts(tree, c) = FilterFacts(tree, c)
    BY <1>1, <1>7 DEF NodeFacts
  <2>2. ~HasFinding(FilterFacts(tree, c)) <=>
           /\ name \in AllowedFilters /\ name \in DOMAIN SafeFilterKinds
           /\ ~(InContract(path) /\ Kinds[path] \notin SafeFilterKinds[name])
    <3>1. \A x, S : HasFinding({<<"filter", x>>} \cup S) <=> HasFinding(S)
      BY DEF HasFinding
    <3>2. \A bad : HasFinding(When(bad, Finding("value_kind_mismatch"))) <=> bad
      BY <1>3, FindingIs DEF When
    <3> QED
      BY <1>1, <3>1, <3>2, FindingIs DEF FilterFacts
  <2>3. Defined(tree, at) <=>
           /\ name \in AllowedFilters \cap DOMAIN SafeFilterKinds
           /\ InContract(path) => Kinds[path] \in SafeFilterKinds[name]
    BY <1>7 DEF Defined
  <2> QED
    BY <1>2, <2>1, <2>2, <2>3
<1>8. CASE node.op = "chain"
  <2>1. NodeFacts(tree, c) = GetattrFacts(tree, c) /\ AttributePath(node) = <<>>
    BY <1>1, <1>8 DEF NodeFacts, AttributePath
  <2>2. GetattrFacts(tree, c) = {Finding("unsafe_attribute")}
    BY <1>1, <2>1 DEF GetattrFacts
  <2>3. ~Defined(tree, at)
    BY <1>8 DEF Defined
  <2> QED
    BY <1>2, <2>1, <2>2, <2>3, FindingIs
<1>9. CASE node.op \in {"call", "rejected"}
  <2>1. \/ NodeFacts(tree, c) = {Finding("disallowed_call")}
        \/ NodeFacts(tree, c) = {Finding("disallowed_expression")}
    BY <1>1, <1>9 DEF NodeFacts
  <2>2. ~Defined(tree, at)
    BY <1>9 DEF Defined
  <2> QED
    BY <1>2, <2>1, <2>2, FindingIs
<1>10. CASE node.op = "other"
  <2>1. NodeFacts(tree, c) = {} /\ Defined(tree, at)
    BY <1>1, <1>10 DEF NodeFacts, Defined
  <2> QED
    BY <1>2, <1>3, <2>1
<1> QED
  BY <1>1, <1>4, <1>5, <1>6, <1>7, <1>8, <1>9, <1>10 DEF IsNode

\* A token that touches some run touches one exactly if it does not touch several.
LEMMA TokensLaidOut ==
  ASSUME NEW p, NEW k, IsFiniteSet(k.runs), k.runs # {}
  PROVE  InspectToken(p, k) = {} <=> Cardinality(k.runs) = 1 /\ (k.structural => k.alone)
<1>1. Cardinality(k.runs) \in Nat /\ Cardinality(k.runs) # 0
  BY FS_CardinalityType, FS_EmptySet
<1>2. Cardinality(k.runs) > 1 <=> Cardinality(k.runs) # 1
  BY <1>1
<1>3. \A bad, x : When(bad, x) = {} <=> ~bad
  BY DEF When
<1>4. InspectToken(p, k) = {} <=> ~(Cardinality(k.runs) > 1) /\ ~(k.structural /\ ~k.alone)
  BY <1>3 DEF InspectToken
<1> QED
  BY <1>2, <1>4

LEMMA LayoutIsLaidOut ==
  ASSUME NEW t, IsTemplate(t)
  PROVE  ~HasFinding(LayoutFacts(t)) <=> LaidOut(t)
<1>1. ~HasFinding(LayoutFacts(t)) <=> \A f : f \notin LayoutFacts(t)
  BY LayoutIsFindings DEF HasFinding
<1>2. \A bad, x : When(bad, x) = {} <=> ~bad
  BY DEF When
<1>3. ASSUME NEW part \in ToSet(t.parts), NEW p \in part.paragraphs, NEW k \in p.tokens
      PROVE  InspectToken(p, k) = {} <=>
                Cardinality(k.runs) = 1 /\ (k.structural => k.alone)
  <2>1. IsFiniteSet(k.runs) /\ k.runs # {}
    BY DEF IsTemplate, IsTextPart
  <2> QED
    BY <2>1, TokensLaidOut
<1>4. (\A f : f \notin LayoutFacts(t)) <=>
         /\ When(t.elsewhere, Finding("unsupported_part")) = {}
         /\ \A part \in ToSet(t.parts) :
               /\ When(part.outside, Finding("unsupported_structure")) = {}
               /\ \A p \in part.paragraphs :
                     /\ When(p.stray, Finding("malformed_delimiter")) = {}
                     /\ \A k \in p.tokens : InspectToken(p, k) = {}
  <2>1. ASSUME \A f : f \notin LayoutFacts(t)
        PROVE  /\ When(t.elsewhere, Finding("unsupported_part")) = {}
               /\ \A part \in ToSet(t.parts) :
                     /\ When(part.outside, Finding("unsupported_structure")) = {}
                     /\ \A p \in part.paragraphs :
                           /\ When(p.stray, Finding("malformed_delimiter")) = {}
                           /\ \A k \in p.tokens : InspectToken(p, k) = {}
    BY <2>1, LayoutCauses
  <2>2. ASSUME /\ When(t.elsewhere, Finding("unsupported_part")) = {}
               /\ \A part \in ToSet(t.parts) :
                     /\ When(part.outside, Finding("unsupported_structure")) = {}
                     /\ \A p \in part.paragraphs :
                           /\ When(p.stray, Finding("malformed_delimiter")) = {}
                           /\ \A k \in p.tokens : InspectToken(p, k) = {},
               NEW f
        PROVE  f \notin LayoutFacts(t)
    BY <2>2, LayoutCauses
  <2> QED
    BY <2>1, <2>2
<1> QED
  BY <1>1, <1>2, <1>3, <1>4 DEF LaidOut

LEMMA LimitsAre ==
  ASSUME NEW tree, IsTree(tree)
  PROVE  ~AstExceedsLimits(tree) <=> /\ Cardinality(DOMAIN tree) <= MaxAstNodes
                                     /\ \A at \in DOMAIN tree : Len(at) < MaxAstDepth
<1>1. Cardinality(DOMAIN tree) \in Nat /\ MaxAstNodes \in Nat /\ MaxAstDepth \in Nat
  BY FS_CardinalityType, AstLimitsAssumption DEF IsTree
<1>2. Cardinality(DOMAIN tree) <= MaxAstNodes <=> ~(Cardinality(DOMAIN tree) > MaxAstNodes)
  BY <1>1
<1>3. ASSUME NEW at \in DOMAIN tree
      PROVE  Len(at) < MaxAstDepth <=> ~(Len(at) + 1 > MaxAstDepth)
  <2>1. Len(at) \in Nat
    BY NodesAre
  <2> QED
    BY <1>1, <2>1
<1> QED
  BY <1>2, <1>3 DEF AstExceedsLimits

\* What has no finding is sound, and reads every path it names.
LEMMA CleanIsSound ==
  ASSUME NEW t, IsTemplate(t), ~Reuses(t)
  PROVE  /\ Sound(t) <=> t.packageValid /\ AllIsClean(t)
         /\ AllIsClean(t) => ReadPaths(t) = AllPaths(t)
<1>1. ASSUME NEW part \in ToSet(t.parts), part.parses
      PROVE  part.ast \in TreesOf(t) /\ IsTree(part.ast) /\ ~ReusesIn(part.ast)
  <2>1. part.ast \in TreesOf(t)
    BY <1>1 DEF TreesOf
  <2>2. IsTree(part.ast)
    BY <1>1 DEF IsTemplate, IsTextPart
  <2> QED
    BY <2>1, <2>2 DEF Reuses
<1>2. ASSUME NEW tree \in TreesOf(t)
      PROVE  \E part \in ToSet(t.parts) : part.parses /\ tree = part.ast
  BY DEF TreesOf
<1>3. ASSUME NEW part \in ToSet(t.parts), part.parses
      PROVE  /\ ~AstExceedsLimits(part.ast) <=>
                    /\ Cardinality(DOMAIN part.ast) <= MaxAstNodes
                    /\ \A at \in DOMAIN part.ast : Len(at) < MaxAstDepth
             /\ \A at \in DOMAIN part.ast : Clean(part.ast, at) <=> Defined(part.ast, at)
  BY <1>1, <1>3, LimitsAre, CleanIsDefined
<1> DEFINE InLimits(tree) == Cardinality(DOMAIN tree) <= MaxAstNodes
<1>4. Sound(t) <=>
         /\ t.packageValid /\ LaidOut(t)
         /\ \A p \in ToSet(t.parts) : p.parses /\ ~p.oversized
         /\ \A part \in ToSet(t.parts) : part.parses =>
               /\ InLimits(part.ast)
               /\ \A at \in DOMAIN part.ast : Len(at) < MaxAstDepth /\ Defined(part.ast, at)
  BY <1>1, <1>2 DEF Sound
<1>5. AllIsClean(t) <=>
         /\ LaidOut(t)
         /\ \A p \in ToSet(t.parts) : p.parses /\ ~p.oversized
         /\ \A part \in ToSet(t.parts) : part.parses =>
               /\ ~AstExceedsLimits(part.ast)
               /\ \A at \in DOMAIN part.ast : Clean(part.ast, at)
  BY LayoutIsLaidOut DEF AllIsClean, IsParsed
<1>6. Sound(t) <=> t.packageValid /\ AllIsClean(t)
  BY <1>3, <1>4, <1>5
<1>7. ASSUME AllIsClean(t) PROVE ReadPaths(t) = AllPaths(t)
  <2>1. ASSUME NEW tree \in TreesOf(t) PROVE ReadIn(tree) = PathsOf(tree)
    <3>1. PICK part \in ToSet(t.parts) : part.parses /\ tree = part.ast
      BY <1>2
    <3>2. \A at \in DOMAIN tree : Defined(tree, at)
      BY <1>3, <1>5, <1>7, <3>1
    <3>3. \A at \in DOMAIN tree : tree[at].op = "path" =>
             Head(tree[at].path) \notin Bound(tree, at)
      BY <3>2 DEF Defined
    <3> QED
      BY <3>3 DEF ReadIn, PathsOf
  <2> QED
    BY <2>1 DEF ReadPaths, AllPaths
<1> QED
  BY <1>6, <1>7

\* A template that reuses no loop name is accepted exactly if its layout can be rendered,
\* every value that rendering reads is one that the contract provides, in a kind that the
\* place can use, and every required placeholder is read, for every contract and all
\* templates (validate_template, _ContractVisitor).
THEOREM AcceptsExactlyWhatRenders == TemplateSpec => []AcceptsWhatRenders
<1>1. TemplateInv => AcceptsWhatRenders
  <2> SUFFICES ASSUME TemplateInv, verdict # Pending, ~Reuses(template)
               PROVE  verdict.findings = {} <=>
                         Sound(template) /\ Required \subseteq ReadPaths(template)
    BY DEF AcceptsWhatRenders
  <2>1. /\ template \in Templates
        /\ verdict.findings = {} <=> /\ template.packageValid /\ AllIsClean(template)
                                     /\ Required \subseteq AllPaths(template)
    BY DEF TemplateInv
  <2>2. IsTemplate(template)
    BY <2>1, TemplatesAssumption
  <2>3. /\ Sound(template) <=> template.packageValid /\ AllIsClean(template)
        /\ AllIsClean(template) => ReadPaths(template) = AllPaths(template)
    BY <2>2, CleanIsSound
  <2> QED
    BY <2>1, <2>3
<1> QED
  BY <1>1, TemplateWalk, PTL

--------------------------------------------------------------------------------
(* Relationships of a case *)

UniqueActive(rs) ==
    \A i, j \in DOMAIN rs :
        i # j /\ rs[i].active /\ rs[j].active /\ rs[i].fact.category # "hearings" =>
            rs[i].fact # rs[j].fact

FactRows == [fact : Facts, active : BOOLEAN]

RowsAreSound == rows \in Seq(FactRows) /\ UniqueActive(rows)

\* What every post has in common, the page as it is cleared included.
IsPost(section, p) ==
    /\ section \in Sections /\ DOMAIN p.edits = Shown(section)
    /\ \A i \in Shown(section) : p.edits[i] # Removed =>
          p.edits[i] \in Facts /\ p.edits[i].category = rows[i].fact.category
    /\ p.added \in SUBSET Facts /\ \A f \in p.added : f.category \in section

\* What a post makes of a row it changes.
EditedRow(p, i) == IF p.edits[i] = Removed THEN [rows[i] EXCEPT !.active = FALSE]
                   ELSE [rows[i] EXCEPT !.fact = p.edits[i]]

EditedRows(p) == [i \in DOMAIN rows |-> IF i \in Changed(p) THEN EditedRow(p, i) ELSE rows[i]]

\* Some row takes over what another row of the page was and no longer is.
Exchange(p) == \E i, j \in DOMAIN p.edits : /\ p.edits[i] = rows[j].fact
                                            /\ p.edits[j] # rows[j].fact

LEMMA FactsAre ==
  ASSUME NEW f \in Facts
  PROVE  /\ f # Removed
         /\ f.category = "representations" =>
               f.party \in DOMAIN rows /\ rows[f.party].fact.category = "participants"
<1>1. CASE f \in Participants
  BY <1>1 DEF Participants, Fact, Removed
<1>2. CASE f \in Representations
  BY <1>2 DEF Representations, Fact, Removed
<1>3. CASE f \in Assignments
  BY <1>3 DEF Assignments, Fact, Removed
<1>4. CASE f \in Hearings
  BY <1>4 DEF Hearings, Fact, Removed
<1> QED
  BY <1>1, <1>2, <1>3, <1>4 DEF Facts

LEMMA RowsAre ==
  ASSUME RowsAreSound
  PROVE  /\ DOMAIN rows = 1..Len(rows) /\ Len(rows) \in Nat
         /\ \A i \in DOMAIN rows : /\ rows[i] \in FactRows
                                   /\ rows[i].fact \in Facts /\ rows[i].active \in BOOLEAN
<1>1. rows \in Seq(FactRows)
  BY DEF RowsAreSound
<1>2. /\ DOMAIN rows = 1..Len(rows) /\ Len(rows) \in Nat
      /\ \A i \in DOMAIN rows : rows[i] \in FactRows
  BY <1>1
<1> QED
  BY <1>2 DEF FactRows

LEMMA FactsAreFinite ==
  ASSUME RowsAreSound
  PROVE  IsFiniteSet(Facts)
<1> DEFINE Cats == {"participants", "representations", "assignments", "hearings"}
           Who == Entities \cup Officials \cup {"nobody"}
           Parties == {0} \cup DOMAIN rows
           Roles == ParticipantRoles \cup {"legal", "judge", "scheduled"}
           All == (Cats \X Who) \X (Parties \X Roles)
           code == [f \in Facts |-> <<<<f.category, f.who>>, <<f.party, f.role>>>>]
<1>1. IsFiniteSet(Cats) /\ IsFiniteSet(Who) /\ IsFiniteSet(Parties) /\ IsFiniteSet(Roles)
  <2>1. IsFiniteSet(Cats)
    <3>1. IsFiniteSet({"participants"})
      BY FS_Singleton
    <3>2. IsFiniteSet({"participants"} \cup {"representations"})
      BY <3>1, FS_AddElement
    <3>3. IsFiniteSet({"participants"} \cup {"representations"} \cup {"assignments"})
      BY <3>2, FS_AddElement
    <3>4. IsFiniteSet({"participants"} \cup {"representations"} \cup {"assignments"}
                      \cup {"hearings"})
      BY <3>3, FS_AddElement
    <3>5. Cats = {"participants"} \cup {"representations"} \cup {"assignments"}
                 \cup {"hearings"}
      OBVIOUS
    <3> QED
      BY <3>4, <3>5
  <2>2. IsFiniteSet(Who)
    BY RelationsAssumption, FS_Union, FS_Singleton, FS_AddElement
  <2>3. IsFiniteSet(Parties)
    <3>1. IsFiniteSet(1..Len(rows))
      BY RowsAre, FS_Interval
    <3> QED
      BY <3>1, RowsAre, FS_Singleton, FS_Union
  <2>4. IsFiniteSet(Roles)
    <3>1. Roles = ((ParticipantRoles \cup {"legal"}) \cup {"judge"}) \cup {"scheduled"}
      OBVIOUS
    <3>2. IsFiniteSet(ParticipantRoles)
      BY RelationsAssumption
    <3> QED
      BY <3>1, <3>2, FS_AddElement, Zenon
  <2> QED
    BY <2>1, <2>2, <2>3, <2>4
<1>2. IsFiniteSet(All)
  <2> HIDE DEF Cats, Who, Parties, Roles
  <2>1. IsFiniteSet(Cats \X Who) /\ IsFiniteSet(Parties \X Roles)
    BY <1>1, FS_Product
  <2> QED
    BY <2>1, FS_Product
<1>3. \A f \in Facts : /\ f = Fact(f.category, f.who, f.party, f.role)
                       /\ f.category \in Cats /\ f.who \in Who
                       /\ f.party \in Parties /\ f.role \in Roles
  <2> SUFFICES ASSUME NEW f \in Facts
               PROVE  /\ f = Fact(f.category, f.who, f.party, f.role)
                      /\ f.category \in Cats /\ f.who \in Who
                      /\ f.party \in Parties /\ f.role \in Roles
    OBVIOUS
  <2>1. CASE f \in Participants
    BY <2>1 DEF Participants, Fact
  <2>2. CASE f \in Representations
    BY <2>2 DEF Representations, Fact
  <2>3. CASE f \in Assignments
    BY <2>3 DEF Assignments, Fact
  <2>4. CASE f \in Hearings
    BY <2>4 DEF Hearings, Fact
  <2> QED
    BY <2>1, <2>2, <2>3, <2>4 DEF Facts
<1>4. code \in Injection(Facts, All)
  <2> HIDE DEF Cats, Who, Parties, Roles
  <2>1. code \in [Facts -> All]
    BY <1>3
  <2>2. ASSUME NEW f \in Facts, NEW g \in Facts, code[f] = code[g] PROVE f = g
    <3>1. /\ f.category = g.category /\ f.who = g.who
          /\ f.party = g.party /\ f.role = g.role
      BY <2>2
    <3> QED
      BY <1>3, <3>1
  <2> HIDE DEF code, All
  <2> QED
    BY <2>1, <2>2 DEF Injection, IsInjective
<1> HIDE DEF code, All
<1> QED
  BY <1>2, <1>4, FS_Injection

LEMMA PostsArePosts ==
  ASSUME RowsAreSound, NEW section \in Sections, NEW p \in Posts(section)
  PROVE  IsPost(section, p)
<1> DEFINE offer == {f \in Facts : f.category \in section}
           Page(e) == [i \in Shown(section) |-> IF i \in DOMAIN e THEN e[i] ELSE rows[i].fact]
           Rewrites(touched) ==
             {e \in [touched -> offer \cup {Removed}] :
                 \A i \in touched : /\ e[i] # rows[i].fact
                                    /\ e[i].category \in {rows[i].fact.category, "none"}}
           New(touched) == UNION {kSubset(k, offer) : k \in 0..(MaxEdits - Cardinality(touched))}
           Sent(touched) == {[edits |-> Page(e), added |-> new] :
                                e \in Rewrites(touched), new \in New(touched)}
<1>0. PICK touched \in SUBSET Shown(section) : p \in Sent(touched)
  <2>1. Posts(section) = UNION {Sent(touched) :
                            touched \in {t \in SUBSET Shown(section) : Cardinality(t) <= MaxEdits}}
    BY DEF Posts
  <2> HIDE DEF Sent
  <2> QED
    BY <2>1
<1>1. PICK e \in [touched -> offer \cup {Removed}] :
         /\ \A i \in touched : e[i].category \in {rows[i].fact.category, "none"}
         /\ p.edits = Page(e) /\ p.added \in SUBSET offer
  <2>1. New(touched) \subseteq SUBSET offer
    BY DEF kSubset
  <2>2. PICK e \in Rewrites(touched), new \in New(touched) :
           p = [edits |-> Page(e), added |-> new]
    <3> HIDE DEF Rewrites, New, Page
    <3> QED
      BY <1>0
  <2> QED
    BY <2>1, <2>2
<1>2. DOMAIN p.edits = Shown(section)
  BY <1>1
<1>3. ASSUME NEW i \in Shown(section), p.edits[i] # Removed
      PROVE  p.edits[i] \in Facts /\ p.edits[i].category = rows[i].fact.category
  <2>1. i \in DOMAIN rows
    BY DEF Shown
  <2>2. CASE i \in touched
    <3>1. p.edits[i] = e[i] /\ e[i] \in offer
      BY <1>1, <1>3, <2>2
    <3>2. e[i].category \in section /\ section \in Sections
      BY <3>1
    <3>3. e[i].category # "none"
      BY <3>2 DEF Sections
    <3> QED
      BY <1>1, <2>2, <3>1, <3>3
  <2>3. CASE i \notin touched
    <3>1. p.edits[i] = rows[i].fact
      BY <1>1, <2>3
    <3> QED
      BY <2>1, <3>1, RowsAre
  <2> QED
    BY <2>2, <2>3
<1> QED
  BY <1>1, <1>2, <1>3 DEF IsPost

\* What the rows and the verdict of the constraints may be while a page is saved.
EditsOf(p) == {st \in [rows : [DOMAIN rows -> FactRows], failed : BOOLEAN] :
                  /\ \A i \in DOMAIN rows : \/ st.rows[i] = rows[i]
                                            \/ i \in Changed(p) /\ st.rows[i] = EditedRow(p, i)
                  /\ ~st.failed => UniqueActive(st.rows)}

OneSave(p, st, i, after) ==
    /\ after \in EditsOf(p)
    /\ after.rows = [st.rows EXCEPT ![i] = EditedRow(p, i)]
    /\ Valid(p) /\ ~Exchange(p) /\ ~st.failed => ~after.failed

IsRow(r, fact, active) == r = [fact |-> fact, active |-> active]

LEMMA RowEdits ==
  ASSUME NEW r, NEW a, NEW b, NEW c, IsRow(r, a, b)
  PROVE  /\ IsRow([r EXCEPT !.fact = c], c, b)
         /\ IsRow([r EXCEPT !.active = c], a, c)
  BY DEF IsRow

LEMMA RowIs ==
  ASSUME NEW r, NEW a, NEW b, IsRow(r, a, b)
  PROVE  r.fact = a /\ r.active = b
  BY DEF IsRow

LEMMA RowTyped ==
  ASSUME NEW r, NEW a \in Facts, NEW b \in BOOLEAN, IsRow(r, a, b)
  PROVE  r \in FactRows
  BY DEF IsRow, FactRows

\* What there is to know of a row that a post of the section changes.
ChangedRow(section, p, i) ==
    LET f == p.edits[i]
        was == rows[i].fact
    IN  /\ i \in DOMAIN rows /\ i \in Shown(section) /\ i \in DOMAIN p.edits
        /\ IsRow(rows[i], was, TRUE)
        /\ was.category \in section
        /\ f = Removed => IsRow(EditedRow(p, i), was, FALSE)
        /\ f # Removed => /\ IsRow(EditedRow(p, i), f, TRUE)
                          /\ f \in Facts /\ f.category = was.category
        /\ EditedRow(p, i) \in FactRows

LEMMA EditedRowIs ==
  ASSUME RowsAreSound, NEW section, NEW p, IsPost(section, p), NEW i \in Changed(p)
  PROVE  ChangedRow(section, p, i)
<1>1. i \in DOMAIN p.edits /\ i \in Shown(section)
  BY DEF Changed, IsPost
<1>2. i \in DOMAIN rows /\ rows[i].active /\ rows[i].fact.category \in section
  BY <1>1 DEF Shown
<1>3. rows[i] \in FactRows /\ rows[i].active \in BOOLEAN /\ rows[i].fact \in Facts
  BY <1>2, RowsAre
<1>4. IsRow(rows[i], rows[i].fact, TRUE)
  BY <1>2, <1>3 DEF FactRows, IsRow
<1>5. p.edits[i] # Removed => p.edits[i] \in Facts /\ p.edits[i].category = rows[i].fact.category
  BY <1>1 DEF IsPost
<1>6. p.edits[i] = Removed => IsRow(EditedRow(p, i), rows[i].fact, FALSE)
  BY <1>4, RowEdits, Zenon DEF EditedRow
<1>7. p.edits[i] # Removed => IsRow(EditedRow(p, i), p.edits[i], TRUE)
  BY <1>4, RowEdits, Zenon DEF EditedRow
<1>8. EditedRow(p, i) \in FactRows
  BY <1>3, <1>5, <1>6, <1>7, RowTyped
<1> QED
  BY <1>1, <1>2, <1>3, <1>4, <1>5, <1>6, <1>7, <1>8, Zenon DEF ChangedRow

LEMMA SaveOne ==
  ASSUME RowsAreSound, NEW section, NEW p, IsPost(section, p),
         NEW st \in EditsOf(p), NEW i \in Changed(p)
  PROVE  OneSave(p, st, i, SaveRow(st, i, p.edits[i]))
<1> DEFINE f == p.edits[i]
           after == SaveRow(st, i, f)
<1>1. /\ st = [rows |-> st.rows, failed |-> st.failed]
      /\ st.rows \in [DOMAIN rows -> FactRows] /\ st.failed \in BOOLEAN
      /\ \A j \in DOMAIN rows : \/ st.rows[j] = rows[j]
                                \/ j \in Changed(p) /\ st.rows[j] = EditedRow(p, j)
      /\ ~st.failed => UniqueActive(st.rows)
  BY DEF EditsOf
<1>0. \A j \in Changed(p) : ChangedRow(section, p, j)
  BY EditedRowIs
<1>2. /\ i \in DOMAIN rows /\ i \in Shown(section)
      /\ IsRow(rows[i], rows[i].fact, TRUE)
      /\ EditedRow(p, i) \in FactRows
      /\ f = Removed => IsRow(EditedRow(p, i), rows[i].fact, FALSE)
      /\ f # Removed => IsRow(EditedRow(p, i), f, TRUE)
  BY <1>0, Zenon DEF ChangedRow
<1>3. st.rows[i] = rows[i] \/ st.rows[i] = EditedRow(p, i)
  BY <1>1, <1>2
<1>4. /\ after.rows = [st.rows EXCEPT ![i] = EditedRow(p, i)]
      /\ after.failed = IF f = Removed THEN st.failed ELSE st.failed \/ Clashes(st.rows, i, f)
      /\ after = [rows |-> after.rows, failed |-> after.failed]
  <2>1. CASE f = Removed
    <3>1. after = [st EXCEPT !.rows[i].active = FALSE]
      BY <2>1 DEF SaveRow
    <3>2. \E b : IsRow(st.rows[i], rows[i].fact, b)
      BY <1>2, <1>3, <2>1, Zenon
    <3>3. IsRow([st.rows[i] EXCEPT !.active = FALSE], rows[i].fact, FALSE)
      BY <3>2, RowEdits
    <3>4. [st.rows[i] EXCEPT !.active = FALSE] = EditedRow(p, i)
      BY <1>2, <2>1, <3>3 DEF IsRow
    <3>5. after = [rows |-> [st.rows EXCEPT ![i] = EditedRow(p, i)], failed |-> st.failed]
      BY <1>1, <3>1, <3>4
    <3> QED
      BY <2>1, <3>5
  <2>2. CASE f # Removed
    <3>1. after = [rows   |-> [st.rows EXCEPT ![i].fact = f],
                   failed |-> st.failed \/ Clashes(st.rows, i, f)]
      BY <2>2 DEF SaveRow
    <3>2. IsRow(st.rows[i], rows[i].fact, TRUE) \/ IsRow(st.rows[i], f, TRUE)
      BY <1>2, <1>3, <2>2, Zenon
    <3>3. IsRow([st.rows[i] EXCEPT !.fact = f], f, TRUE)
      BY <3>2, RowEdits
    <3>4. [st.rows[i] EXCEPT !.fact = f] = EditedRow(p, i)
      BY <1>2, <2>2, <3>3 DEF IsRow
    <3>5. after = [rows   |-> [st.rows EXCEPT ![i] = EditedRow(p, i)],
                   failed |-> st.failed \/ Clashes(st.rows, i, f)]
      BY <1>1, <3>1, <3>4
    <3> QED
      BY <2>2, <3>5
  <2> QED
    BY <2>1, <2>2
<1> HIDE DEF after
<1>5. after.failed \in BOOLEAN
  BY <1>1, <1>4 DEF Clashes
<1>6. \A j \in DOMAIN rows :
         after.rows[j] = IF j = i THEN EditedRow(p, i) ELSE st.rows[j]
  BY <1>1, <1>2, <1>4
<1>7. after.rows \in [DOMAIN rows -> FactRows]
  BY <1>1, <1>2, <1>4
<1>8. ASSUME ~after.failed PROVE UniqueActive(after.rows)
  <2>1. ~st.failed /\ (f # Removed => ~Clashes(st.rows, i, f))
    BY <1>4, <1>8
  <2>2. ASSUME NEW j \in DOMAIN rows, NEW k \in DOMAIN rows, j # k,
               after.rows[j].active, after.rows[k].active,
               after.rows[j].fact.category # "hearings"
        PROVE  after.rows[j].fact # after.rows[k].fact
    <3>1. CASE j # i /\ k # i
      <4>1. after.rows[j] = st.rows[j] /\ after.rows[k] = st.rows[k]
        BY <1>6, <3>1
      <4>2. UniqueActive(st.rows) /\ DOMAIN st.rows = DOMAIN rows
        BY <1>1, <2>1
      <4> QED
        BY <2>2, <4>1, <4>2 DEF UniqueActive
    <3>2. CASE j = i
      <4>1. after.rows[j] = EditedRow(p, i) /\ after.rows[k] = st.rows[k]
        BY <1>6, <2>2, <3>2
      <4>2. f # Removed /\ after.rows[j].fact = f
        <5>1. CASE f = Removed
          BY <1>2, <2>2, <4>1, <5>1, RowIs
        <5>2. CASE f # Removed
          BY <1>2, <4>1, <5>2, RowIs
        <5> QED
          BY <5>1, <5>2
      <4>3. k \in DOMAIN st.rows \ {i}
        BY <1>1, <2>2, <3>2
      <4> QED
        BY <2>1, <2>2, <4>1, <4>2, <4>3 DEF Clashes
    <3>3. CASE k = i
      <4>1. after.rows[k] = EditedRow(p, i) /\ after.rows[j] = st.rows[j]
        BY <1>6, <2>2, <3>3
      <4>2. f # Removed /\ after.rows[k].fact = f
        <5>1. CASE f = Removed
          BY <1>2, <2>2, <4>1, <5>1, RowIs
        <5>2. CASE f # Removed
          BY <1>2, <4>1, <5>2, RowIs
        <5> QED
          BY <5>1, <5>2
      <4>3. j \in DOMAIN st.rows \ {i}
        BY <1>1, <2>2, <3>3
      <4> QED
        BY <2>1, <2>2, <4>1, <4>2, <4>3 DEF Clashes
    <3> QED
      BY <3>1, <3>2, <3>3
  <2> QED
    BY <1>7, <2>2 DEF UniqueActive
<1>9. after \in EditsOf(p)
  <2>1. \A j \in DOMAIN rows : \/ after.rows[j] = rows[j]
                               \/ j \in Changed(p) /\ after.rows[j] = EditedRow(p, j)
    BY <1>1, <1>6
  <2> QED
    BY <1>4, <1>5, <1>7, <1>8, <2>1 DEF EditsOf
<1>10. ASSUME Valid(p), ~Exchange(p), ~st.failed PROVE ~after.failed
  <2> SUFFICES ASSUME f # Removed, Clashes(st.rows, i, f) PROVE FALSE
    BY <1>4, <1>10
  <2>1. f \in Facts /\ f.category = rows[i].fact.category /\ f.category \in section
    BY <1>0 DEF ChangedRow
  <2>2. PICK j \in DOMAIN rows : j # i /\ st.rows[j].active /\ st.rows[j].fact = f
    BY <1>1 DEF Clashes
  <2>3. f.category # "hearings"
    BY DEF Clashes
  <2>0. ASSUME j \in Changed(p)
        PROVE  /\ rows[j].active /\ rows[j].fact.category \in section
               /\ EditedRow(p, j).active => p.edits[j] # Removed /\ EditedRow(p, j).fact = p.edits[j]
    <3>1. ChangedRow(section, p, j)
      BY <1>0, <2>0
    <3>2. IsRow(rows[j], rows[j].fact, TRUE) /\ rows[j].fact.category \in section
      BY <3>1 DEF ChangedRow
    <3>3. p.edits[j] = Removed => IsRow(EditedRow(p, j), rows[j].fact, FALSE)
      BY <3>1 DEF ChangedRow
    <3>4. p.edits[j] # Removed => IsRow(EditedRow(p, j), p.edits[j], TRUE)
      BY <3>1 DEF ChangedRow
    <3>5. p.edits[j] = Removed => EditedRow(p, j).active = FALSE
      BY <3>3, RowIs
    <3>6. p.edits[j] # Removed => EditedRow(p, j).fact = p.edits[j]
      BY <3>4, RowIs
    <3> QED
      BY <3>2, <3>5, <3>6, RowIs
  <2>4. rows[j].active /\ rows[j].fact.category \in section
    <3>1. CASE st.rows[j] = rows[j]
      BY <2>1, <2>2, <3>1
    <3>2. CASE j \in Changed(p)
      BY <2>0, <3>2
    <3> QED
      BY <1>1, <3>1, <3>2
  <2>5. i \in DOMAIN p.edits /\ j \in DOMAIN p.edits
    <3>1. j \in Shown(section)
      BY <2>4 DEF Shown
    <3> QED
      BY <1>2, <3>1 DEF IsPost
  <2>6. p.edits[j] = f
    <3>1. CASE st.rows[j] = rows[j]
      BY <1>10, <2>2, <2>5, <3>1 DEF Exchange
    <3>2. CASE j \in Changed(p) /\ st.rows[j] = EditedRow(p, j)
      BY <2>2, <2>0, <3>2
    <3> QED
      BY <1>1, <3>1, <3>2
  <2>7. i \in Kept(p) /\ j \in Kept(p)
    BY <2>5, <2>6 DEF Kept
  <2> QED
    BY <1>10, <2>2, <2>3, <2>6, <2>7 DEF Valid, UniqueRows
<1> QED
  BY <1>4, <1>9, <1>10 DEF OneSave, after

\* One row after the other.
SaveHistory(h, base, edits, seq, n, end) ==
    /\ h[0] = base /\ h[n] = end
    /\ \A k \in 1..n : h[k] = SaveRow(h[k - 1], seq[k], edits[seq[k]])

AddHistory(h, base, seq, n, end) ==
    /\ h[0] = base /\ h[n] = end
    /\ \A k \in 1..n : h[k] = AddRow(h[k - 1], seq[k])

LEMMA SaveFold ==
  ASSUME NEW D, NEW base \in D, NEW n \in Nat, NEW S, NEW seq \in [1..n -> S], NEW edits,
         \A st \in D, x \in S : SaveRow(st, x, edits[x]) \in D
  PROVE  \E h \in [0..n -> D] : SaveHistory(h, base, edits, seq, n, SaveRows(base, edits, seq))
<1> DEFINE F == [q \in D \X (1..n) |-> SaveRow(q[1], seq[q[2]], edits[seq[q[2]]])]
           Step(g) == [s \in SUBSET DOMAIN seq |->
                        IF s = {} THEN base ELSE SaveRow(g[s \ {Max(s)}], seq[Max(s)], edits[seq[Max(s)]])]
           G == CHOOSE g : g = Step(g)
<1>1. SaveRows(base, edits, seq) = G[DOMAIN seq]
  BY DEF SaveRows, FoldLeft, MapThenFoldSet
<1>2. DOMAIN seq = 1..n
  OBVIOUS
<1>3. F \in [D \X (1..n) -> D]
  OBVIOUS
<1>4. PICK g \in [SUBSET (1..n) -> D] : IsFold(g, n, base, F)
  <2> HIDE DEF F
  <2> QED
    BY <1>3, FoldExists
<1>5. g = Step(g)
  <2>1. ASSUME NEW s \in SUBSET (1..n)
        PROVE  g[s] = IF s = {} THEN base ELSE SaveRow(g[s \ {Max(s)}], seq[Max(s)], edits[seq[Max(s)]])
    <3>1. CASE s = {}
      BY <1>4, <3>1 DEF IsFold
    <3>2. CASE s # {}
      <4>1. Max(s) \in 1..n /\ s \ {Max(s)} \in SUBSET (1..n)
        BY <3>2, MaxIn
      <4>2. g[s] = F[<<g[s \ {Max(s)}], Max(s)>>]
        BY <1>4, <3>2 DEF IsFold
      <4>3. <<g[s \ {Max(s)}], Max(s)>> \in D \X (1..n)
        BY <4>1
      <4> QED
        BY <3>2, <4>2, <4>3
    <3> QED
      BY <3>1, <3>2
  <2> QED
    BY <2>1, <1>2
<1>6. G = Step(G)
  <2> HIDE DEF Step
  <2> QED
    BY <1>5
<1>7. \A s \in SUBSET (1..n) :
         G[s] = IF s = {} THEN base
                ELSE SaveRow(G[s \ {Max(s)}], seq[Max(s)], edits[seq[Max(s)]])
  <2> HIDE DEF G
  <2> QED
    BY <1>6, <1>2
<1> HIDE DEF G
<1> DEFINE h == [k \in 0..n |-> G[1..k]]
<1>8. h[0] = base
  <2>1. h[0] = G[1..0] /\ {} \in SUBSET (1..n)
    OBVIOUS
  <2> QED
    BY <1>7, <2>1, FirstOnes
<1>9. ASSUME NEW k \in 1..n
      PROVE  h[k] = SaveRow(h[k - 1], seq[k], edits[seq[k]])
  <2>1. h[k] = G[1..k] /\ h[k - 1] = G[1..(k - 1)]
    OBVIOUS
  <2> QED
    BY <1>7, <2>1, FirstOnes
<1>10. h[n] = G[DOMAIN seq]
  BY <1>2
<1>11. DOMAIN h = 0..n /\ h = [k \in 0..n |-> h[k]]
  OBVIOUS
<1> HIDE DEF h, F
<1>12. \A k \in 0..n : h[k] \in D
  <2> DEFINE T == {k \in 0..n : h[k] \in D}
  <2>1. 0 \in T
    BY <1>8
  <2>2. ASSUME NEW k \in 0..(n - 1), k \in T PROVE k + 1 \in T
    <3>1. k + 1 \in 1..n /\ k + 1 \in 0..n /\ (k + 1) - 1 = k
      OBVIOUS
    <3>2. h[k + 1] = SaveRow(h[k], seq[k + 1], edits[seq[k + 1]])
      BY <1>9, <3>1
    <3>3. h[k] \in D /\ seq[k + 1] \in S
      BY <2>2, <3>1
    <3> QED
      BY <3>1, <3>2, <3>3
  <2> HIDE DEF T
  <2>3. \A k \in 0..n : k \in T
    BY <2>1, <2>2, Climb
  <2> QED
    BY <2>3 DEF T
<1>13. h \in [0..n -> D]
  BY <1>11, <1>12
<1>14. SaveRows(base, edits, seq) = h[n]
  BY <1>1, <1>10
<1> QED
  BY <1>8, <1>9, <1>13, <1>14 DEF SaveHistory

LEMMA AddFold ==
  ASSUME NEW D, NEW base \in D, NEW n \in Nat, NEW S, NEW seq \in [1..n -> S],
         \A st \in D, x \in S : AddRow(st, x) \in D
  PROVE  \E h \in [0..n -> D] : AddHistory(h, base, seq, n, AddRows(base, seq))
<1> DEFINE F == [q \in D \X (1..n) |-> AddRow(q[1], seq[q[2]])]
           Step(g) == [s \in SUBSET DOMAIN seq |->
                        IF s = {} THEN base ELSE AddRow(g[s \ {Max(s)}], seq[Max(s)])]
           G == CHOOSE g : g = Step(g)
<1>1. AddRows(base, seq) = G[DOMAIN seq]
  BY DEF AddRows, FoldLeft, MapThenFoldSet
<1>2. DOMAIN seq = 1..n
  OBVIOUS
<1>3. F \in [D \X (1..n) -> D]
  OBVIOUS
<1>4. PICK g \in [SUBSET (1..n) -> D] : IsFold(g, n, base, F)
  <2> HIDE DEF F
  <2> QED
    BY <1>3, FoldExists
<1>5. g = Step(g)
  <2>1. ASSUME NEW s \in SUBSET (1..n)
        PROVE  g[s] = IF s = {} THEN base ELSE AddRow(g[s \ {Max(s)}], seq[Max(s)])
    <3>1. CASE s = {}
      BY <1>4, <3>1 DEF IsFold
    <3>2. CASE s # {}
      <4>1. Max(s) \in 1..n /\ s \ {Max(s)} \in SUBSET (1..n)
        BY <3>2, MaxIn
      <4>2. g[s] = F[<<g[s \ {Max(s)}], Max(s)>>]
        BY <1>4, <3>2 DEF IsFold
      <4>3. <<g[s \ {Max(s)}], Max(s)>> \in D \X (1..n)
        BY <4>1
      <4> QED
        BY <3>2, <4>2, <4>3
    <3> QED
      BY <3>1, <3>2
  <2> QED
    BY <2>1, <1>2
<1>6. G = Step(G)
  <2> HIDE DEF Step
  <2> QED
    BY <1>5
<1>7. \A s \in SUBSET (1..n) :
         G[s] = IF s = {} THEN base
                ELSE AddRow(G[s \ {Max(s)}], seq[Max(s)])
  <2> HIDE DEF G
  <2> QED
    BY <1>6, <1>2
<1> HIDE DEF G
<1> DEFINE h == [k \in 0..n |-> G[1..k]]
<1>8. h[0] = base
  <2>1. h[0] = G[1..0] /\ {} \in SUBSET (1..n)
    OBVIOUS
  <2> QED
    BY <1>7, <2>1, FirstOnes
<1>9. ASSUME NEW k \in 1..n
      PROVE  h[k] = AddRow(h[k - 1], seq[k])
  <2>1. h[k] = G[1..k] /\ h[k - 1] = G[1..(k - 1)]
    OBVIOUS
  <2> QED
    BY <1>7, <2>1, FirstOnes
<1>10. h[n] = G[DOMAIN seq]
  BY <1>2
<1>11. DOMAIN h = 0..n /\ h = [k \in 0..n |-> h[k]]
  OBVIOUS
<1> HIDE DEF h, F
<1>12. \A k \in 0..n : h[k] \in D
  <2> DEFINE T == {k \in 0..n : h[k] \in D}
  <2>1. 0 \in T
    BY <1>8
  <2>2. ASSUME NEW k \in 0..(n - 1), k \in T PROVE k + 1 \in T
    <3>1. k + 1 \in 1..n /\ k + 1 \in 0..n /\ (k + 1) - 1 = k
      OBVIOUS
    <3>2. h[k + 1] = AddRow(h[k], seq[k + 1])
      BY <1>9, <3>1
    <3>3. h[k] \in D /\ seq[k + 1] \in S
      BY <2>2, <3>1
    <3> QED
      BY <3>1, <3>2, <3>3
  <2> HIDE DEF T
  <2>3. \A k \in 0..n : k \in T
    BY <2>1, <2>2, Climb
  <2> QED
    BY <2>3 DEF T
<1>13. h \in [0..n -> D]
  BY <1>11, <1>12
<1>14. AddRows(base, seq) = h[n]
  BY <1>1, <1>10
<1> QED
  BY <1>8, <1>9, <1>13, <1>14 DEF AddHistory

LEMMA OrderCovers ==
  ASSUME NEW T, IsFiniteSet(T), NEW order \in [1..Cardinality(T) -> T],
         \A k, l \in 1..Cardinality(T) : k # l => order[k] # order[l]
  PROVE  /\ Cardinality(T) \in Nat
         /\ \A x \in T : \E k \in 1..Cardinality(T) : order[k] = x
<1>1. Cardinality(T) \in Nat
  BY FS_CardinalityType
<1>2. order \in Injection(1..Cardinality(T), T)
  BY DEF Injection, IsInjective
<1>3. Cardinality(1..Cardinality(T)) = Cardinality(T)
  BY <1>1, FS_Interval
<1>4. order \in Surjection(1..Cardinality(T), T)
  BY <1>2, <1>3, FS_Injection
<1> QED
  BY <1>1, <1>4 DEF Surjection

LEMMA ChoiceCovers ==
  ASSUME NEW T, IsFiniteSet(T)
  PROVE  /\ Cardinality(T) \in Nat
         /\ SetToSeq(T) \in [1..Cardinality(T) -> T]
         /\ \A k, l \in 1..Cardinality(T) : k # l => SetToSeq(T)[k] # SetToSeq(T)[l]
<1>1. Cardinality(T) \in Nat /\ ExistsBijection(1..Cardinality(T), T)
  BY FS_CardinalityType
<1>2. PICK f : f \in Injection(1..Cardinality(T), T)
  BY <1>1 DEF ExistsBijection, Bijection
<1>3. f \in [1..Cardinality(T) -> T] /\ IsInjective(f)
  BY <1>2 DEF Injection
<1>4. SetToSeq(T) \in [1..Cardinality(T) -> T] /\ IsInjective(SetToSeq(T))
  BY <1>3 DEF SetToSeq
<1> QED
  BY <1>1, <1>4 DEF IsInjective

SavesTo(p, st) == /\ st \in EditsOf(p) /\ st.rows = EditedRows(p)
                  /\ Valid(p) /\ ~Exchange(p) => ~st.failed

LEMMA SavesEnd ==
  ASSUME RowsAreSound, NEW section, NEW p, IsPost(section, p),
         NEW order \in SetToSeqs(Changed(p))
  PROVE  SavesTo(p, SaveRows([rows |-> rows, failed |-> FALSE], p.edits, order))
<1> DEFINE n == Cardinality(Changed(p))
           base == [rows |-> rows, failed |-> FALSE]
           end == SaveRows(base, p.edits, order)
           Fine(st) == Valid(p) /\ ~Exchange(p) => ~st.failed
           D == {st \in EditsOf(p) : Fine(st)}
<1>1. IsFiniteSet(Changed(p))
  <2>1. Changed(p) \in SUBSET (1..Len(rows))
    BY RowsAre DEF Changed, IsPost, Shown
  <2>2. IsFiniteSet(1..Len(rows))
    BY RowsAre, FS_Interval
  <2> QED
    BY <2>1, <2>2, FS_Subset
<1>2. /\ order \in [1..n -> Changed(p)] /\ n \in Nat
      /\ \A x \in Changed(p) : \E k \in 1..n : order[k] = x
  <2>1. /\ order \in [1..n -> Changed(p)]
        /\ \A k, l \in 1..n : k # l => order[k] # order[l]
    BY DEF SetToSeqs
  <2> HIDE DEF n
  <2> QED
    BY <1>1, <2>1, OrderCovers DEF n
<1>3. base \in D
  <2>1. rows \in [DOMAIN rows -> FactRows]
    <3>1. rows \in Seq(FactRows)
      BY DEF RowsAreSound
    <3> QED
      BY <3>1
  <2> QED
    BY <2>1 DEF EditsOf, RowsAreSound
<1>4. \A st \in D, x \in Changed(p) : SaveRow(st, x, p.edits[x]) \in D
  BY SaveOne DEF OneSave
<1>5. PICK h \in [0..n -> D] : SaveHistory(h, base, p.edits, order, n, end)
  <2> HIDE DEF n, base, D
  <2> QED
    BY <1>2, <1>3, <1>4, SaveFold
<1> HIDE DEF n, base, end, D
<1> DEFINE Done(k) == \A j \in 1..k : h[k].rows[order[j]] = EditedRow(p, order[j])
           S == {k \in 0..n : Done(k)}
<1>6. 0 \in S
  BY <1>2
<1>7. ASSUME NEW k \in 0..(n - 1), k \in S PROVE k + 1 \in S
  <2>1. /\ k \in 0..n /\ k + 1 \in 0..n /\ k + 1 \in 1..n /\ (k + 1) - 1 = k
        /\ \A j \in 1..(k + 1) : j \in 1..n /\ (j \in 1..k \/ j = k + 1)
    BY <1>2
  <2>2. h[k] \in EditsOf(p) /\ order[k + 1] \in Changed(p)
    BY <1>2, <1>5, <2>1 DEF D
  <2>3. h[k + 1] = SaveRow(h[k], order[k + 1], p.edits[order[k + 1]])
    BY <1>5, <2>1 DEF SaveHistory
  <2>4. h[k + 1].rows = [h[k].rows EXCEPT ![order[k + 1]] = EditedRow(p, order[k + 1])]
    <3>1. OneSave(p, h[k], order[k + 1], SaveRow(h[k], order[k + 1], p.edits[order[k + 1]]))
      BY <2>2, SaveOne
    <3> QED
      BY <2>3, <3>1 DEF OneSave
  <2>5. DOMAIN h[k].rows = DOMAIN rows
    BY <2>2 DEF EditsOf
  <2>6. ASSUME NEW j \in 1..(k + 1)
        PROVE  h[k + 1].rows[order[j]] = EditedRow(p, order[j])
    <3>1. order[j] \in DOMAIN rows
      BY <1>2, <2>1, EditedRowIs DEF ChangedRow
    <3>2. CASE order[j] = order[k + 1]
      BY <2>4, <2>5, <3>1, <3>2
    <3>3. CASE order[j] # order[k + 1]
      <4>1. j \in 1..k
        BY <2>1, <3>3
      <4> QED
        BY <1>7, <2>4, <2>5, <3>1, <3>3, <4>1
    <3> QED
      BY <3>2, <3>3
  <2> QED
    BY <2>1, <2>6
<1>8. n \in S
  <2> HIDE DEF S
  <2>1. \A k \in 0..n : k \in S
    BY <1>2, <1>6, <1>7, Climb
  <2> QED
    BY <1>2, <2>1
<1>9. end = h[n] /\ end \in EditsOf(p) /\ Fine(end)
  <2>1. n \in 0..n
    BY <1>2
  <2> QED
    BY <1>5, <2>1 DEF SaveHistory, D
<1>10. \A i \in Changed(p) : end.rows[i] = EditedRow(p, i)
  BY <1>2, <1>8, <1>9
<1>11. end.rows = EditedRows(p)
  <2>1. end.rows \in [DOMAIN rows -> FactRows]
    BY <1>9 DEF EditsOf
  <2>2. \A i \in DOMAIN rows :
           end.rows[i] = IF i \in Changed(p) THEN EditedRow(p, i) ELSE rows[i]
    BY <1>9, <1>10 DEF EditsOf
  <2> QED
    BY <2>1, <2>2 DEF EditedRows
<1> QED
  BY <1>9, <1>11 DEF SavesTo, end, base

--------------------------------------------------------------------------------

\* What the rows and the verdict may be while new rows are inserted.
AddsOf(p) == {st \in [rows : Seq(FactRows), failed : BOOLEAN] :
                 ~st.failed => UniqueActive(st.rows)}

IsAdded(st, f, after) ==
    /\ after.rows = Append(st.rows, [fact |-> f, active |-> TRUE])
    /\ after.failed = (st.failed \/ Clashes(st.rows, 0, f))

LEMMA AddOne ==
  ASSUME NEW p, NEW st \in AddsOf(p), NEW f \in Facts
  PROVE  AddRow(st, f) \in AddsOf(p) /\ IsAdded(st, f, AddRow(st, f))
<1> DEFINE new == [fact |-> f, active |-> TRUE]
           after == AddRow(st, f)
<1>1. after = [rows |-> Append(st.rows, new), failed |-> st.failed \/ Clashes(st.rows, 0, f)]
  BY DEF AddRow
<1>2. /\ st.rows \in Seq(FactRows) /\ st.failed \in BOOLEAN
      /\ ~st.failed => UniqueActive(st.rows)
  BY DEF AddsOf
<1>3. new \in FactRows /\ IsRow(new, f, TRUE)
  BY DEF FactRows, IsRow
<1> HIDE DEF new
<1>4. after.rows \in Seq(FactRows) /\ after.failed \in BOOLEAN
  BY <1>1, <1>2, <1>3 DEF Clashes
<1>5. /\ DOMAIN after.rows = 1..(Len(st.rows) + 1) /\ DOMAIN st.rows = 1..Len(st.rows)
      /\ \A i \in DOMAIN after.rows :
            \/ i \in DOMAIN st.rows /\ after.rows[i] = st.rows[i]
            \/ i = Len(st.rows) + 1 /\ after.rows[i] = new
  BY <1>1, <1>2, <1>3
<1>6. ASSUME ~after.failed PROVE UniqueActive(after.rows)
  <2>1. UniqueActive(st.rows) /\ ~Clashes(st.rows, 0, f)
    <3>1. after.failed = (st.failed \/ Clashes(st.rows, 0, f))
      BY <1>1
    <3> HIDE DEF after
    <3>2. ~(st.failed \/ Clashes(st.rows, 0, f))
      BY <1>6, <3>1, Zenon
    <3> QED
      BY <1>2, <3>2
  <2>2. 0 \notin DOMAIN st.rows /\ new.fact = f
    <3>1. Len(st.rows) \in Nat
      BY <1>2
    <3>2. 0 \notin 1..Len(st.rows) /\ DOMAIN st.rows = 1..Len(st.rows)
      BY <1>5, <3>1
    <3>3. new.fact = f
      BY <1>3, RowIs
    <3> QED
      BY <3>2, <3>3
  <2>3. ASSUME NEW i \in DOMAIN after.rows, NEW j \in DOMAIN after.rows, i # j,
               after.rows[i].active, after.rows[j].active,
               after.rows[i].fact.category # "hearings"
        PROVE  after.rows[i].fact # after.rows[j].fact
    <3>1. CASE i \in DOMAIN st.rows /\ j \in DOMAIN st.rows
      <4>1. after.rows[i] = st.rows[i] /\ after.rows[j] = st.rows[j]
        BY <1>2, <1>5, <3>1
      <4> QED
        BY <2>1, <2>3, <3>1, <4>1 DEF UniqueActive
    <3>2. CASE i \notin DOMAIN st.rows
      <4>1. after.rows[i] = new /\ after.rows[j] = st.rows[j] /\ j \in DOMAIN st.rows \ {0}
        BY <1>5, <2>2, <2>3, <3>2
      <4> QED
        BY <2>1, <2>2, <2>3, <4>1 DEF Clashes
    <3>3. CASE j \notin DOMAIN st.rows
      <4>1. after.rows[j] = new /\ after.rows[i] = st.rows[i] /\ i \in DOMAIN st.rows \ {0}
        BY <1>5, <2>2, <2>3, <3>3
      <4> QED
        BY <2>1, <2>2, <2>3, <4>1 DEF Clashes
    <3> QED
      BY <3>1, <3>2, <3>3
  <2> HIDE DEF after
  <2> QED
    BY <2>3 DEF UniqueActive
<1>7. after \in AddsOf(p)
  <2> HIDE DEF after
  <2>1. after = [rows |-> after.rows, failed |-> after.failed]
    BY <1>1 DEF after
  <2> QED
    BY <1>4, <1>6, <2>1 DEF AddsOf
<1>8. IsAdded(st, f, after)
  BY <1>1 DEF IsAdded, new
<1> QED
  BY <1>7, <1>8

\* How a save comes out: the rows shown as the post wants them, and the new ones after them.
ComesOut(p, o) ==
    /\ o.rows \in Seq(FactRows) /\ Len(rows) <= Len(o.rows)
    /\ \A i \in DOMAIN rows : o.rows[i] = EditedRows(p)[i]
    /\ \A i \in DOMAIN o.rows : i \notin DOMAIN rows => o.rows[i].fact \in p.added
    /\ ~o.failed => UniqueActive(o.rows)
    /\ Valid(p) /\ ~Exchange(p) => ~o.failed

\* A row of the section that is active after a save is one that the post keeps.
LEMMA KeptRow ==
  ASSUME RowsAreSound, NEW section, NEW p, IsPost(section, p), NEW i \in DOMAIN rows,
         EditedRows(p)[i].active, EditedRows(p)[i].fact.category \in section
  PROVE  i \in Kept(p) /\ p.edits[i] = EditedRows(p)[i].fact
<1>1. CASE i \in Changed(p)
  <2>1. ChangedRow(section, p, i) /\ EditedRows(p)[i] = EditedRow(p, i)
    BY <1>1, EditedRowIs DEF EditedRows
  <2>2. p.edits[i] # Removed
    <3> SUFFICES ASSUME p.edits[i] = Removed PROVE FALSE
      OBVIOUS
    <3>1. IsRow(EditedRow(p, i), rows[i].fact, FALSE)
      BY <2>1 DEF ChangedRow
    <3> QED
      BY <2>1, <3>1, RowIs
  <2>3. IsRow(EditedRow(p, i), p.edits[i], TRUE)
    BY <2>1, <2>2 DEF ChangedRow
  <2> QED
    BY <2>1, <2>2, <2>3, RowIs DEF ChangedRow, Kept
<1>2. CASE i \notin Changed(p)
  <2>1. EditedRows(p)[i] = rows[i]
    BY <1>2 DEF EditedRows
  <2>2. i \in Shown(section)
    BY <2>1 DEF Shown
  <2>3. i \in DOMAIN p.edits /\ p.edits[i] = rows[i].fact
    BY <1>2, <2>2 DEF IsPost, Changed
  <2>4. rows[i].fact # Removed
    BY RowsAre, FactsAre
  <2> QED
    BY <2>1, <2>3, <2>4 DEF Kept
<1> QED
  BY <1>1, <1>2

\* A new row of a valid post meets no row as the post leaves it.
LEMMA NewOnesAreNew ==
  ASSUME RowsAreSound, NEW section, NEW p, IsPost(section, p), Valid(p),
         NEW f \in p.added, f.category # "hearings", NEW i \in DOMAIN rows,
         EditedRows(p)[i].active
  PROVE  EditedRows(p)[i].fact # f
<1> SUFFICES ASSUME EditedRows(p)[i].fact = f PROVE FALSE
  OBVIOUS
<1>1. f.category \in section
  BY DEF IsPost
<1>2. i \in Kept(p) /\ p.edits[i] = f
  BY <1>1, KeptRow
<1> QED
  BY <1>2 DEF Valid, UniqueRows

\* The history of the insertions: k rows after those of st, each as the post wants it.
AddedUpTo(p, st, seq, k, after) ==
    /\ Len(after.rows) = Len(st.rows) + k
    /\ \A i \in DOMAIN st.rows : after.rows[i] = st.rows[i]
    /\ \A j \in 1..k : after.rows[Len(st.rows) + j] = [fact |-> seq[j], active |-> TRUE]
    /\ Valid(p) /\ ~Exchange(p) => ~after.failed

LEMMA AddNext ==
  ASSUME RowsAreSound, NEW section, NEW p, IsPost(section, p),
         NEW st \in AddsOf(p), st.rows = EditedRows(p), DOMAIN st.rows = DOMAIN rows,
         NEW n \in Nat, NEW seq \in [1..n -> p.added],
         \A i, j \in 1..n : i # j => seq[i] # seq[j],
         NEW k \in 0..(n - 1), NEW s \in AddsOf(p), AddedUpTo(p, st, seq, k, s)
  PROVE  AddedUpTo(p, st, seq, k + 1, AddRow(s, seq[k + 1]))
<1> DEFINE m == Len(st.rows)
           f == seq[k + 1]
           new == [fact |-> f, active |-> TRUE]
           after == AddRow(s, f)
<1>1. k + 1 \in 1..n /\ f \in p.added /\ f \in Facts
  <2>1. k + 1 \in 1..n
    OBVIOUS
  <2> QED
    BY <2>1 DEF IsPost
<1>2. after.rows = Append(s.rows, new) /\ after.failed = (s.failed \/ Clashes(s.rows, 0, f))
  <2>1. IsAdded(s, f, after)
    BY <1>1, AddOne
  <2> QED
    BY <2>1 DEF IsAdded
<1>3. /\ s.rows \in Seq(FactRows) /\ st.rows \in Seq(FactRows) /\ s.failed \in BOOLEAN
      /\ m \in Nat /\ DOMAIN st.rows = 1..m /\ DOMAIN s.rows = 1..(m + k)
      /\ Len(s.rows) = m + k
  <2>1. s.rows \in Seq(FactRows) /\ st.rows \in Seq(FactRows) /\ s.failed \in BOOLEAN
    BY DEF AddsOf
  <2>2. Len(s.rows) = m + k
    BY DEF AddedUpTo
  <2> QED
    BY <2>1, <2>2
<1> HIDE DEF after, new
<1>4. /\ Len(after.rows) = m + (k + 1)
      /\ \A i \in 1..(m + k) : after.rows[i] = s.rows[i]
      /\ after.rows[m + (k + 1)] = new
  <2>1. new \in FactRows
    BY <1>1 DEF new, FactRows
  <2> HIDE DEF m
  <2> QED
    BY <1>2, <1>3, <2>1
<1>5. \A i \in DOMAIN st.rows : after.rows[i] = st.rows[i]
  <2>1. \A i \in DOMAIN st.rows : i \in 1..(m + k) /\ s.rows[i] = st.rows[i]
    BY <1>3 DEF AddedUpTo
  <2> QED
    BY <1>4, <2>1
<1>6. ASSUME NEW j \in 1..(k + 1)
      PROVE  after.rows[m + j] = [fact |-> seq[j], active |-> TRUE]
  <2>1. CASE j = k + 1
    BY <1>4, <2>1 DEF new
  <2>2. CASE j \in 1..k
    <3>1. m + j \in 1..(m + k)
      BY <1>3, <2>2
    <3>2. s.rows[m + j] = [fact |-> seq[j], active |-> TRUE]
      BY <2>2 DEF AddedUpTo
    <3> QED
      BY <1>4, <3>1, <3>2
  <2> QED
    BY <2>1, <2>2
<1>7. ASSUME Valid(p), ~Exchange(p) PROVE ~after.failed
  <2>1. ~s.failed
    BY <1>7 DEF AddedUpTo
  <2>2. ASSUME Clashes(s.rows, 0, f) PROVE FALSE
    <3>1. PICK i \in 1..(m + k) : s.rows[i].active /\ s.rows[i].fact = f
      BY <1>3, <2>2 DEF Clashes
    <3>2. f.category # "hearings"
      BY <2>2 DEF Clashes
    <3>3. CASE i \in 1..m
      <4>1. i \in DOMAIN rows /\ s.rows[i] = EditedRows(p)[i]
        BY <1>3, <3>3 DEF AddedUpTo
      <4> QED
        BY <1>1, <1>7, <3>1, <3>2, <4>1, NewOnesAreNew
    <3>4. CASE i \notin 1..m
      <4> DEFINE j == i - m
      <4>1. j \in 1..k /\ i = m + j /\ j \in 1..n /\ j # k + 1
        BY <1>3, <3>1, <3>4
      <4>2. s.rows[i] = [fact |-> seq[j], active |-> TRUE]
        <5> HIDE DEF j
        <5> QED
          BY <4>1 DEF AddedUpTo
      <4>3. seq[j] = f
        BY <3>1, <4>2
      <4> QED
        BY <1>1, <4>1, <4>3
    <3> QED
      BY <3>3, <3>4
  <2>3. Clashes(s.rows, 0, f) \in BOOLEAN
    BY DEF Clashes
  <2> QED
    BY <1>2, <2>1, <2>2, Zenon
<1> QED
  BY <1>4, <1>5, <1>6, <1>7 DEF AddedUpTo, after

LEMMA OutcomesComeOut ==
  ASSUME RowsAreSound, NEW section, NEW p, IsPost(section, p), NEW o \in Outcomes(p)
  PROVE  ComesOut(p, o)
<1>1. PICK order \in SetToSeqs(Changed(p)) :
         o = AddRows(SaveRows([rows |-> rows, failed |-> FALSE], p.edits, order),
                     SetToSeq(p.added))
  BY DEF Outcomes
<1> DEFINE st == SaveRows([rows |-> rows, failed |-> FALSE], p.edits, order)
           n == Cardinality(p.added)
           seq == SetToSeq(p.added)
           D == AddsOf(p)
<1>2. SavesTo(p, st)
  BY SavesEnd
<1> HIDE DEF st
<1>3. /\ st \in EditsOf(p) /\ st.rows = EditedRows(p)
      /\ Valid(p) /\ ~Exchange(p) => ~st.failed
  BY <1>2 DEF SavesTo
<1>4. /\ st = [rows |-> st.rows, failed |-> st.failed] /\ st.failed \in BOOLEAN
      /\ st.rows \in [DOMAIN rows -> FactRows] /\ (~st.failed => UniqueActive(st.rows))
  BY <1>3 DEF EditsOf
<1>5. Len(rows) \in Nat /\ DOMAIN rows = 1..Len(rows)
  BY RowsAre
<1>6. st.rows \in Seq(FactRows) /\ Len(st.rows) = Len(rows) /\ DOMAIN st.rows = DOMAIN rows
  <2>1. st.rows \in [1..Len(rows) -> FactRows]
    BY <1>4, <1>5
  <2> QED
    BY <1>5, <2>1
<1>7. st \in D
  BY <1>4, <1>6 DEF AddsOf
<1>8. n \in Nat /\ seq \in [1..n -> p.added] /\ \A i, j \in 1..n : i # j => seq[i] # seq[j]
  <2>1. IsFiniteSet(p.added)
    BY FactsAreFinite, FS_Subset DEF IsPost
  <2> QED
    BY <2>1, ChoiceCovers
<1>9. p.added \in SUBSET Facts
  BY DEF IsPost
<1>10. \A s \in D, f \in p.added : AddRow(s, f) \in D
  BY <1>9, AddOne
<1>11. PICK h \in [0..n -> D] : AddHistory(h, st, seq, n, AddRows(st, seq))
  <2> HIDE DEF n, seq, D
  <2> QED
    BY <1>7, <1>8, <1>10, AddFold
<1> HIDE DEF n, seq
<1> DEFINE S == {k \in 0..n : AddedUpTo(p, st, seq, k, h[k])}
<1>12. 0 \in S
  <2>1. AddedUpTo(p, st, seq, 0, st)
    BY <1>3, <1>5, <1>6 DEF AddedUpTo
  <2>2. h[0] = st /\ 0 \in 0..n
    BY <1>8, <1>11 DEF AddHistory
  <2> QED
    BY <2>1, <2>2
<1>13. ASSUME NEW k \in 0..(n - 1), k \in S PROVE k + 1 \in S
  <2>1. k \in 0..n /\ k + 1 \in 0..n /\ k + 1 \in 1..n /\ (k + 1) - 1 = k
    BY <1>8
  <2>2. h[k + 1] = AddRow(h[k], seq[k + 1])
    BY <1>11, <2>1 DEF AddHistory
  <2>3. h[k] \in AddsOf(p) /\ AddedUpTo(p, st, seq, k, h[k])
    BY <1>11, <1>13, <2>1
  <2>4. AddedUpTo(p, st, seq, k + 1, AddRow(h[k], seq[k + 1]))
    BY <1>3, <1>6, <1>7, <1>8, <2>3, AddNext
  <2> QED
    BY <2>1, <2>2, <2>4
<1>14. AddedUpTo(p, st, seq, n, h[n]) /\ h[n] \in D
  <2> HIDE DEF S, D
  <2>1. \A k \in 0..n : k \in S
    BY <1>8, <1>12, <1>13, Climb
  <2>2. n \in 0..n
    BY <1>8
  <2> QED
    BY <1>11, <2>1, <2>2 DEF S
<1>15. o = h[n]
  BY <1>1, <1>11 DEF AddHistory, st, seq
<1>16. /\ o.rows \in Seq(FactRows) /\ (~o.failed => UniqueActive(o.rows))
       /\ Len(o.rows) = Len(rows) + n
       /\ \A i \in DOMAIN rows : o.rows[i] = EditedRows(p)[i]
       /\ \A j \in 1..n : o.rows[Len(rows) + j] = [fact |-> seq[j], active |-> TRUE]
       /\ Valid(p) /\ ~Exchange(p) => ~o.failed
  <2>1. o.rows \in Seq(FactRows) /\ (~o.failed => UniqueActive(o.rows))
    BY <1>14, <1>15 DEF AddsOf
  <2> QED
    BY <1>3, <1>6, <1>14, <1>15, <2>1 DEF AddedUpTo
<1>17. ASSUME NEW i \in DOMAIN o.rows, i \notin DOMAIN rows PROVE o.rows[i].fact \in p.added
  <2> DEFINE j == i - Len(rows)
  <2>1. DOMAIN o.rows = 1..(Len(rows) + n)
    BY <1>16
  <2>2. j \in 1..n /\ i = Len(rows) + j
    BY <1>5, <1>8, <1>17, <2>1
  <2>3. o.rows[i].fact = seq[j]
    <3> HIDE DEF j
    <3>1. o.rows[i] = [fact |-> seq[j], active |-> TRUE]
      BY <1>16, <2>2
    <3> QED
      BY <3>1
  <2> QED
    BY <1>8, <2>2, <2>3
<1> QED
  BY <1>5, <1>8, <1>16, <1>17 DEF ComesOut

--------------------------------------------------------------------------------

\* A save changes neither the category of a row nor who is referred to.
LEMMA CategoriesStay ==
  ASSUME RowsAreSound, NEW section, NEW p, IsPost(section, p), NEW i \in DOMAIN rows
  PROVE  EditedRows(p)[i].fact.category = rows[i].fact.category
<1>1. CASE i \in Changed(p)
  <2>1. ChangedRow(section, p, i) /\ EditedRows(p)[i] = EditedRow(p, i)
    BY <1>1, EditedRowIs DEF EditedRows
  <2>2. CASE p.edits[i] = Removed
    <3>1. IsRow(EditedRow(p, i), rows[i].fact, FALSE)
      BY <2>1, <2>2 DEF ChangedRow
    <3> QED
      BY <2>1, <3>1, RowIs
  <2>3. CASE p.edits[i] # Removed
    <3>1. IsRow(EditedRow(p, i), p.edits[i], TRUE)
      BY <2>1, <2>3 DEF ChangedRow
    <3>2. p.edits[i].category = rows[i].fact.category
      BY <2>1, <2>3 DEF ChangedRow
    <3> QED
      BY <2>1, <3>1, <3>2, RowIs
  <2> QED
    BY <2>2, <2>3
<1>2. CASE i \notin Changed(p)
  BY <1>2 DEF EditedRows
<1> QED
  BY <1>1, <1>2

LEMMA SaveIs ==
  ASSUME RowsAreSound, Save
  PROVE  \E section \in Sections : \E p \in Posts(section) :
            Valid(p) /\ UniqueActive(rows') /\ \E o : rows' = o.rows /\ ComesOut(p, o)
<1>1. PICK section \in Sections : \E p \in Posts(section) :
         /\ Valid(p)
         /\ \E o \in Outcomes(p) : ~o.failed /\ rows' = o.rows
  BY DEF Save
<1>2. PICK p \in Posts(section) : /\ Valid(p)
                                 /\ \E o \in Outcomes(p) : ~o.failed /\ rows' = o.rows
  BY <1>1
<1>3. PICK o \in Outcomes(p) : ~o.failed /\ rows' = o.rows
  BY <1>2
<1>4. ComesOut(p, o)
  BY PostsArePosts, OutcomesComeOut
<1>5. UniqueActive(rows')
  BY <1>3, <1>4 DEF ComesOut
<1> QED
  BY <1>2, <1>3, <1>4, <1>5

LEMMA SaveKeepsRows ==
  ASSUME RowsAreSound, Save
  PROVE  RowsAreSound'
<1>1. PICK section \in Sections : \E p \in Posts(section) :
         Valid(p) /\ UniqueActive(rows') /\ \E o : rows' = o.rows /\ ComesOut(p, o)
  BY SaveIs
<1>2. PICK p \in Posts(section) : /\ UniqueActive(rows')
                                 /\ \E o : rows' = o.rows /\ ComesOut(p, o)
  BY <1>1
<1>3. PICK o : rows' = o.rows /\ ComesOut(p, o)
  BY <1>2
<1>4. IsPost(section, p)
  BY PostsArePosts
<1>5. /\ rows' \in Seq(FactRows) /\ Len(rows) <= Len(rows')
      /\ \A i \in DOMAIN rows : rows'[i] = EditedRows(p)[i]
  BY <1>3 DEF ComesOut
<1>6. \A i \in DOMAIN rows : /\ i \in DOMAIN rows'
                             /\ rows'[i].fact.category = rows[i].fact.category
  <2>1. DOMAIN rows \subseteq DOMAIN rows'
    <3>1. DOMAIN rows' = 1..Len(rows') /\ Len(rows') \in Nat
      BY <1>5
    <3> QED
      BY <1>5, <3>1, RowsAre
  <2> QED
    BY <1>4, <1>5, <2>1, CategoriesStay
<1>7. Facts \subseteq Facts'
  <2>1. Representations \subseteq Representations'
    BY <1>6 DEF Representations
  <2> QED
    BY <2>1 DEF Facts, Participants, Assignments, Hearings
<1>8. rows' \in Seq(FactRows')
  <2>1. FactRows \subseteq FactRows'
    BY <1>7 DEF FactRows
  <2>2. Seq(FactRows) \subseteq Seq(FactRows')
    <3> HIDE DEF FactRows
    <3> QED
      BY <2>1
  <2> QED
    BY <1>5, <2>2
<1> QED
  BY <1>2, <1>8 DEF RowsAreSound

LEMMA RelationsNextSound ==
  ASSUME RowsAreSound, [RelationsNext]_relvars
  PROVE  RowsAreSound'
<1>1. CASE Save
  BY <1>1, SaveKeepsRows
<1>2. CASE UNCHANGED rows
  BY <1>2 DEF RowsAreSound, FactRows, Facts, Participants, Representations, Assignments,
              Hearings
<1> QED
  BY <1>1, <1>2 DEF RelationsNext, Elsewhere, relvars

\* The rows of a case say what the forms let them say, and no two active ones the same:
\* the constraints of the table are not all that keeps them so (forms.py, models.py).
THEOREM RowsStaySound == RelationsSpec => []RowsAreSound
<1>1. RelationsInit => RowsAreSound
  BY DEF RelationsInit, RowsAreSound, UniqueActive
<1>2. RowsAreSound /\ [RelationsNext]_relvars => RowsAreSound'
  BY RelationsNextSound
<1> QED
  BY <1>1, <1>2, PTL DEF RelationsSpec

LEMMA ExchangesOnly ==
  ASSUME RowsAreSound
  PROVE  OnlyExchangesCollide
<1> SUFFICES ASSUME NEW section \in Sections, NEW p \in Posts(section), Valid(p),
                    NEW o \in Outcomes(p), o.failed
             PROVE  Exchange(p)
  BY DEF OnlyExchangesCollide, Exchange
<1>1. ComesOut(p, o)
  BY PostsArePosts, OutcomesComeOut
<1> QED
  BY <1>1 DEF ComesOut

LEMMA ClearedPagesPass ==
  ASSUME RowsAreSound
  PROVE  PagesCanBeCleared
<1> SUFFICES ASSUME NEW section \in Sections
             PROVE  /\ Valid(Cleared(section))
                    /\ \A o \in Outcomes(Cleared(section)) : ~o.failed
  BY DEF PagesCanBeCleared
<1> DEFINE p == Cleared(section)
<1>1. /\ p.added = {} /\ DOMAIN p.edits = Shown(section)
      /\ \A i \in Shown(section) :
            p.edits[i] = IF Offered(rows[i].fact) THEN rows[i].fact ELSE Removed
  BY DEF Cleared
<1>2. \A i \in Shown(section) : /\ i \in DOMAIN rows /\ rows[i].active
                                /\ rows[i].fact \in Facts /\ rows[i].fact # Removed
  BY RowsAre, FactsAre DEF Shown
<1> HIDE DEF p
<1>3. IsPost(section, p)
  BY <1>1, <1>2 DEF IsPost
<1>4. \A i \in Kept(p) : /\ i \in Shown(section) /\ p.edits[i] = rows[i].fact
                         /\ Offered(rows[i].fact)
  BY <1>1 DEF Kept
<1>5. \A i, j \in Shown(section) :
         i # j /\ rows[i].fact.category # "hearings" => rows[i].fact # rows[j].fact
  BY <1>2 DEF RowsAreSound, UniqueActive
<1>6. Valid(p)
  <2>1. UniqueRows(p)
    BY <1>1, <1>4, <1>5 DEF UniqueRows
  <2> QED
    BY <1>1, <1>4, <2>1 DEF Valid
<1>7. ~Exchange(p)
  <2> SUFFICES ASSUME NEW i \in Shown(section), NEW j \in Shown(section),
                      p.edits[i] = rows[j].fact, p.edits[j] # rows[j].fact
               PROVE  FALSE
    BY <1>1 DEF Exchange
  <2>1. p.edits[i] = rows[i].fact /\ ~Offered(rows[j].fact)
    BY <1>1, <1>2
  <2>2. i # j /\ rows[i].fact = rows[j].fact
    BY <2>1
  <2>3. rows[j].fact.category = "hearings"
    BY <1>5, <2>2
  <2>4. Offered(rows[j].fact)
    BY <2>3 DEF Offered, Party, Representative, Official
  <2> QED
    BY <2>1, <2>4
<1>8. \A o \in Outcomes(p) : ~o.failed
  BY <1>3, <1>6, <1>7, OutcomesComeOut DEF ComesOut
<1> QED
  BY <1>6, <1>8 DEF p

\* For any number of rows and of edits in a post: a constraint stops a valid post only if two
\* of its rows exchange places, and a page without what may no longer be selected is saved.
THEOREM PagesAreNeverStuck == RelationsSpec => []PagesCanBeSaved
<1>1. RowsAreSound => PagesCanBeSaved
  BY ExchangesOnly, ClearedPagesPass DEF PagesCanBeSaved
<1> QED
  BY <1>1, RowsStaySound, PTL

--------------------------------------------------------------------------------

LEMMA OfferedIsSelectable ==
  ASSUME RowsAreSound, NEW section, NEW p, IsPost(section, p), Valid(p),
         \A i \in DOMAIN rows : rows'[i] = EditedRows(p)[i],
         NEW row, row.fact \in Facts, Offered(row.fact)
  PROVE  NamesSelectable(row)
<1> DEFINE f == row.fact
           q == f.party
<1>1. f.category \in {"participants", "representations", "assignments", "hearings"}
  BY DEF Facts, Participants, Representations, Assignments, Hearings, Fact
<1>2. f.category # "hearings" => f.who \in selectable
  BY <1>1 DEF Offered, Party, Representative, Official
<1>3. ASSUME f.category = "representations"
      PROVE  rows'[q].fact.who \in selectable /\ rows[q].active
  <2>1. q \in DOMAIN rows /\ rows[q].fact.category = "participants"
    BY <1>3, FactsAre
  <2>2. rows[q].active /\ rows[q].fact.who \in selectable
    BY <1>3 DEF Offered, Representative
  <2>3. rows'[q] = EditedRows(p)[q]
    BY <2>1
  <2>4. CASE q \in Changed(p)
    <3>1. ChangedRow(section, p, q) /\ rows'[q] = EditedRow(p, q)
      BY <2>1, <2>3, <2>4, EditedRowIs DEF EditedRows
    <3>2. CASE p.edits[q] = Removed
      <4>1. IsRow(EditedRow(p, q), rows[q].fact, FALSE)
        BY <3>1, <3>2 DEF ChangedRow
      <4>2. EditedRow(p, q).fact = rows[q].fact
        BY <4>1, RowIs
      <4> QED
        BY <2>2, <3>1, <4>2
    <3>3. CASE p.edits[q] # Removed
      <4>1. /\ IsRow(EditedRow(p, q), p.edits[q], TRUE) /\ q \in DOMAIN p.edits
            /\ p.edits[q].category = rows[q].fact.category
        BY <3>1, <3>3 DEF ChangedRow
      <4>2. rows'[q].fact = p.edits[q]
        BY <3>1, <4>1, RowIs
      <4>3. Offered(p.edits[q])
        BY <3>3, <4>1 DEF Valid, Kept
      <4>4. p.edits[q].who \in selectable
        BY <2>1, <4>1, <4>3 DEF Offered, Party
      <4> QED
        BY <2>2, <4>2, <4>4
    <3> QED
      BY <3>2, <3>3
  <2>5. CASE q \notin Changed(p)
    <3>1. rows'[q] = rows[q]
      BY <2>1, <2>3, <2>5 DEF EditedRows
    <3> QED
      BY <2>2, <3>1
  <2> QED
    BY <2>4, <2>5
<1> QED
  BY <1>2, <1>3 DEF NamesSelectable

LEMMA SavesLeaveSelectable ==
  ASSUME RowsAreSound, Save
  PROVE  \E section \in Sections : SavesSelectable(section)
<1>1. PICK section \in Sections : \E p \in Posts(section) :
         Valid(p) /\ UniqueActive(rows') /\ \E o : rows' = o.rows /\ ComesOut(p, o)
  BY SaveIs
<1>2. PICK p \in Posts(section) : Valid(p) /\ \E o : rows' = o.rows /\ ComesOut(p, o)
  BY <1>1
<1>3. PICK o : rows' = o.rows /\ ComesOut(p, o)
  BY <1>2
<1>4. IsPost(section, p)
  BY PostsArePosts
<1>5. /\ rows' \in Seq(FactRows)
      /\ \A i \in DOMAIN rows : rows'[i] = EditedRows(p)[i]
      /\ \A i \in DOMAIN rows' : i \notin DOMAIN rows => rows'[i].fact \in p.added
  BY <1>3 DEF ComesOut
<1>6. ASSUME NEW i \in DOMAIN rows, rows'[i] # rows[i]
      PROVE  rows[i].fact.category \in section
  <2>1. i \in Changed(p)
    BY <1>5, <1>6 DEF EditedRows
  <2> QED
    BY <1>4, <2>1, EditedRowIs DEF ChangedRow
<1>7. ASSUME NEW i \in DOMAIN rows', rows'[i].active, rows'[i].fact.category \in section
      PROVE  NamesSelectable(rows'[i])
  <2>1. rows'[i].fact \in Facts
    <3>1. rows'[i] \in FactRows
      BY <1>5
    <3> QED
      BY <3>1 DEF FactRows
  <2>2. Offered(rows'[i].fact)
    <3>1. CASE i \in DOMAIN rows
      <4>1. i \in Kept(p) /\ p.edits[i] = rows'[i].fact
        BY <1>4, <1>5, <1>7, <3>1, KeptRow
      <4> QED
        BY <1>2, <4>1 DEF Valid
    <3>2. CASE i \notin DOMAIN rows
      BY <1>2, <1>5, <3>2 DEF Valid
    <3> QED
      BY <3>1, <3>2
  <2> QED
    BY <1>2, <1>4, <1>5, <2>1, <2>2, OfferedIsSelectable
<1> QED
  BY <1>6, <1>7 DEF SavesSelectable

\* For any number of rows, entities and officials: a save leaves in its section only rows that
\* name who may be selected, the rows its post did not touch included.
THEOREM SavedRowsStaySelectable == RelationsSpec => SavedRowsAreSelectable
<1>1. RowsAreSound /\ [RelationsNext]_relvars =>
         [rows' # rows => \E section \in Sections : SavesSelectable(section)]_relvars
  <2> SUFFICES ASSUME RowsAreSound, [RelationsNext]_relvars, rows' # rows
               PROVE  \E section \in Sections : SavesSelectable(section)
    OBVIOUS
  <2>1. Save
    BY DEF RelationsNext, Elsewhere, relvars
  <2> QED
    BY <2>1, SavesLeaveSelectable
<1> QED
  BY <1>1, RowsStaySound, PTL DEF RelationsSpec, SavedRowsAreSelectable

--------------------------------------------------------------------------------
(* Amounts in words.  An ear that has heard so much hears the next words; what it  *)
(* has in the end does not depend on how the words were put together (Hearing).   *)
(* The words of a group are worth that group, its scale puts it in its place, and *)
(* the words of an amount do so for one group after the other.                    *)

Spoken == {Digits[d] : d \in 1..10}
          \cup {"mot'", "tu", "lam", "tram", "muoi", "muoi'", "le", "nghin", "trieu", "ty"}

\* A listener who has heard so much.
Ear(groups, group, held, place, last) ==
    [groups |-> groups, group |-> group, held |-> held, place |-> place, last |-> last]

Ears == [groups : [1..MaxGroups -> Nat], group : Nat, held : 0..9, place : {1, 10, 100},
         last : 0..MaxGroups]

LEMMA DigitsAre ==
  /\ Digit(0) = "khong" /\ Digit(1) = "mot" /\ Digit(2) = "hai" /\ Digit(3) = "ba"
  /\ Digit(4) = "bon" /\ Digit(5) = "nam" /\ Digit(6) = "sau" /\ Digit(7) = "bay"
  /\ Digit(8) = "tam" /\ Digit(9) = "chin"
BY DEF Digit, Digits

LEMMA DigitsSpoken ==
  ASSUME NEW d \in 0..9
  PROVE  Digit(d) \in Spoken
BY DEF Digit, Spoken

LEMMA DigitsValue ==
  /\ \A d \in 0..9 : ValueOf[Digit(d)] = d
  /\ ValueOf["mot'"] = 1 /\ ValueOf["tu"] = 4 /\ ValueOf["lam"] = 5
<1>1. \A i, j \in 1..10 : Digits[i] = Digits[j] => i = j
  BY DEF Digits
<1>2. \A i \in 1..10 : Digits[i] \notin {"mot'", "tu", "lam"}
  BY DEF Digits
<1>3. ASSUME NEW d \in 0..9 PROVE ValueOf[Digit(d)] = d
  <2>1. d + 1 \in 1..10 /\ Digit(d) = Digits[d + 1]
    BY DEF Digit
  <2> DEFINE c == CHOOSE i \in 1..10 : Digits[i] = Digits[d + 1]
  <2>2. c \in 1..10 /\ Digits[c] = Digits[d + 1]
    BY <2>1
  <2>3. Digits[d + 1] \notin {"mot'", "tu", "lam"}
    BY <1>2, <2>1
  <2>4. ValueOf[Digits[d + 1]] = c - 1
    <3> DEFINE w == Digits[d + 1]
               number == (CHOOSE i \in 1..10 : Digits[i] = w) - 1
    <3>1. w \in {Digits[i] : i \in 1..10} \cup {"mot'", "tu", "lam"}
      BY <2>1
    <3>2. ValueOf[w] = CASE w = "mot'" -> 1 [] w = "tu" -> 4 [] w = "lam" -> 5
                         [] OTHER -> number
      BY <3>1, Zenon DEF ValueOf
    <3>3. w # "mot'" /\ w # "tu" /\ w # "lam"
      BY <2>3
    <3> HIDE DEF w, number, c
    <3>4. ValueOf[w] = number
      BY <3>2, <3>3
    <3> QED
      BY <3>4 DEF w, number, c
  <2> HIDE DEF c
  <2>5. c = d + 1
    BY <1>1, <2>1, <2>2
  <2> QED
    BY <2>1, <2>4, <2>5
<1>4. ValueOf["mot'"] = 1 /\ ValueOf["tu"] = 4 /\ ValueOf["lam"] = 5
  BY DEF ValueOf
<1> QED
  BY <1>3, <1>4

LEMMA DivTen ==
  ASSUME NEW x \in Nat
  PROVE  x = 10 * (x \div 10) + (x % 10) /\ x % 10 \in 0..9 /\ x \div 10 \in Int
OBVIOUS

LEMMA DivHundred ==
  ASSUME NEW x \in Nat
  PROVE  x = 100 * (x \div 100) + (x % 100) /\ x % 100 \in 0..99 /\ x \div 100 \in Int
OBVIOUS

LEMMA DivMod ==
  ASSUME NEW v \in 0..999
  PROVE  /\ v \div 100 \in 0..9 /\ (v % 100) \div 10 \in 0..9 /\ v % 10 \in 0..9
         /\ v = (v \div 100) * 100 + ((v % 100) \div 10) * 10 + (v % 10)
<1> DEFINE r == v % 100
<1>1. v = 100 * (v \div 100) + r /\ r \in 0..99 /\ v \div 100 \in Int
  BY DivHundred
<1> HIDE DEF r
<1>2. r = 10 * (r \div 10) + (r % 10) /\ r % 10 \in 0..9 /\ r \div 10 \in Int
  BY <1>1, DivTen
<1>3. v = 10 * (v \div 10) + (v % 10) /\ v % 10 \in 0..9 /\ v \div 10 \in Int
  BY DivTen
<1>4. /\ v \div 100 \in 0..9 /\ r \div 10 \in 0..9 /\ v % 10 \in 0..9
      /\ v = (v \div 100) * 100 + (r \div 10) * 10 + (v % 10)
  BY <1>1, <1>2, <1>3
<1> QED
  BY <1>4 DEF r

\* What is left of a listener of whom some fields change.
EarWith(e, g, r, h, p, l) ==
    /\ [e EXCEPT !.groups = g, !.group = r, !.held = h, !.place = p, !.last = l]
          = Ear(g, r, h, p, l)
    /\ [e EXCEPT !.group = r, !.held = h, !.place = p] = Ear(e.groups, r, h, p, e.last)
    /\ [e EXCEPT !.group = r, !.place = p] = Ear(e.groups, r, e.held, p, e.last)
    /\ [e EXCEPT !.groups = g, !.last = l] = Ear(g, e.group, e.held, e.place, l)
    /\ [e EXCEPT !.held = h] = Ear(e.groups, e.group, h, e.place, e.last)
    /\ [e EXCEPT !.place = p] = Ear(e.groups, e.group, e.held, p, e.last)

LEMMA EarsWith ==
  ASSUME NEW e \in Ears, NEW g, NEW r, NEW h, NEW p, NEW l
  PROVE  EarWith(e, g, r, h, p, l)
<1> DEFINE a == e.groups
           b == e.group
           c == e.held
           d == e.place
           f == e.last
<1>0. e = Ear(a, b, c, d, f)
  BY DEF Ear, Ears
<1> HIDE DEF a, b, c, d, f
<1>1. [e EXCEPT !.groups = g, !.group = r, !.held = h, !.place = p, !.last = l]
         = Ear(g, r, h, p, l)
  <2> DEFINE e1 == [e EXCEPT !.groups = g]
             e2 == [e1 EXCEPT !.group = r]
             e3 == [e2 EXCEPT !.held = h]
             e4 == [e3 EXCEPT !.place = p]
             e5 == [e4 EXCEPT !.last = l]
  <2>1. [e EXCEPT !.groups = g, !.group = r, !.held = h, !.place = p, !.last = l] = e5
    OBVIOUS
  <2> HIDE DEF e1, e2, e3, e4, e5
  <2>2. e1 = Ear(g, b, c, d, f)
    BY <1>0 DEF e1, Ear
  <2>3. e2 = Ear(g, r, c, d, f)
    BY <2>2 DEF e2, Ear
  <2>4. e3 = Ear(g, r, h, d, f)
    BY <2>3 DEF e3, Ear
  <2>5. e4 = Ear(g, r, h, p, f)
    BY <2>4 DEF e4, Ear
  <2>6. e5 = Ear(g, r, h, p, l)
    BY <2>5 DEF e5, Ear
  <2> QED
    BY <2>1, <2>6
<1>2. [e EXCEPT !.group = r, !.held = h, !.place = p]
         = Ear(a, r, h, p, f)
  <2> DEFINE e1 == [e EXCEPT !.group = r]
             e2 == [e1 EXCEPT !.held = h]
             e3 == [e2 EXCEPT !.place = p]
  <2>1. [e EXCEPT !.group = r, !.held = h, !.place = p] = e3
    OBVIOUS
  <2> HIDE DEF e1, e2, e3
  <2>2. e1 = Ear(a, r, c, d, f)
    BY <1>0 DEF e1, Ear
  <2>3. e2 = Ear(a, r, h, d, f)
    BY <2>2 DEF e2, Ear
  <2>4. e3 = Ear(a, r, h, p, f)
    BY <2>3 DEF e3, Ear
  <2> QED
    BY <2>1, <2>4
<1>3. [e EXCEPT !.group = r, !.place = p]
         = Ear(a, r, c, p, f)
  <2> DEFINE e1 == [e EXCEPT !.group = r]
             e2 == [e1 EXCEPT !.place = p]
  <2>1. [e EXCEPT !.group = r, !.place = p] = e2
    OBVIOUS
  <2> HIDE DEF e1, e2
  <2>2. e1 = Ear(a, r, c, d, f)
    BY <1>0 DEF e1, Ear
  <2>3. e2 = Ear(a, r, c, p, f)
    BY <2>2 DEF e2, Ear
  <2> QED
    BY <2>1, <2>3
<1>4. [e EXCEPT !.groups = g, !.last = l]
         = Ear(g, b, c, d, l)
  <2> DEFINE e1 == [e EXCEPT !.groups = g]
             e2 == [e1 EXCEPT !.last = l]
  <2>1. [e EXCEPT !.groups = g, !.last = l] = e2
    OBVIOUS
  <2> HIDE DEF e1, e2
  <2>2. e1 = Ear(g, b, c, d, f)
    BY <1>0 DEF e1, Ear
  <2>3. e2 = Ear(g, b, c, d, l)
    BY <2>2 DEF e2, Ear
  <2> QED
    BY <2>1, <2>3
<1>5. [e EXCEPT !.held = h]
         = Ear(a, b, h, d, f)
  BY <1>0 DEF Ear
<1>6. [e EXCEPT !.place = p]
         = Ear(a, b, c, p, f)
  BY <1>0 DEF Ear
<1> QED
  BY <1>1, <1>2, <1>3, <1>4, <1>5, <1>6 DEF EarWith, a, b, c, d, f

LEMMA WordsAre ==
  ASSUME NEW w \in Spoken,
         w \notin {"tram", "muoi", "muoi'", "le", "nghin", "trieu", "ty"}
  PROVE  ValueOf[w] \in 0..9
<1>1. CASE w \in {"mot'", "tu", "lam"}
  BY <1>1, DigitsValue
<1>2. CASE w \notin {"mot'", "tu", "lam"}
  <2>1. PICK d \in 1..10 : w = Digits[d]
    BY <1>2 DEF Spoken
  <2>2. d - 1 \in 0..9 /\ Digit(d - 1) = w
    BY <2>1 DEF Digit
  <2> QED
    BY <2>2, DigitsValue
<1> QED
  BY <1>1, <1>2

LEMMA EarTyped ==
  ASSUME NEW groups \in [1..MaxGroups -> Nat], NEW group \in Nat, NEW held \in 0..9,
         NEW place \in {1, 10, 100}, NEW last \in 0..MaxGroups
  PROVE  Ear(groups, group, held, place, last) \in Ears
BY DEF Ear, Ears

\* The listener at the end of a group.
Closed(e, i) == Ear([e.groups EXCEPT ![i] = e.group + e.held * e.place], 0, 0, 100, i)

LEMMA CloseIs ==
  ASSUME NEW e \in Ears, NEW i \in 1..MaxGroups
  PROVE  Close(e, i) = Closed(e, i)
<1> DEFINE new == [e.groups EXCEPT ![i] = e.group + e.held * e.place]
<1>1. Close(e, i) = [e EXCEPT !.groups = new, !.group = 0, !.held = 0, !.place = 100,
                              !.last = i]
  BY DEF Close
<1> HIDE DEF new
<1>2. EarWith(e, new, 0, 0, 100, i)
  BY EarsWith
<1>3. Close(e, i) = Ear(new, 0, 0, 100, i)
  BY <1>1, <1>2 DEF EarWith
<1> QED
  BY <1>3 DEF new, Closed

\* "nghin ty": the thousands just heard are thousands of billions.
Raised(e) == Ear([[e.groups EXCEPT ![5] = e.groups[2]] EXCEPT ![2] = 0], 0, 0, e.place, 5)

\* What the words do that are no digits.
Places(e) ==
    /\ Hear(e, "tram") = Ear(e.groups, e.held * 100, 0, 10, e.last)
    /\ Hear(e, "muoi") = Ear(e.groups, e.group + e.held * 10, 0, 1, e.last)
    /\ Hear(e, "muoi'") = Ear(e.groups, e.group + 10, e.held, 1, e.last)
    /\ Hear(e, "le") = Ear(e.groups, e.group, e.held, 1, e.last)
    /\ Hear(e, "nghin") = Closed(e, 2)
    /\ Hear(e, "trieu") = Closed(e, 3)
    /\ Hear(e, "ty") = IF e.last = 2 /\ e.group = 0 /\ e.held = 0 THEN Raised(e)
                       ELSE Closed(e, 4)

LEMMA PlacesAre ==
  ASSUME NEW e \in Ears
  PROVE  Places(e)
<1>1. Hear(e, "tram") = Ear(e.groups, e.held * 100, 0, 10, e.last)
  <2> DEFINE value == e.held * 100
  <2>1. Hear(e, "tram") = [e EXCEPT !.group = value, !.held = 0, !.place = 10]
    BY DEF Hear
  <2> HIDE DEF value
  <2>2. EarWith(e, 0, value, 0, 10, 0)
    BY EarsWith
  <2>3. Hear(e, "tram") = Ear(e.groups, value, 0, 10, e.last)
    BY <2>1, <2>2 DEF EarWith
  <2> QED
    BY <2>3 DEF value
<1>2. Hear(e, "muoi") = Ear(e.groups, e.group + e.held * 10, 0, 1, e.last)
  <2> DEFINE value == e.group + e.held * 10
  <2>1. Hear(e, "muoi") = [e EXCEPT !.group = value, !.held = 0, !.place = 1]
    BY DEF Hear
  <2> HIDE DEF value
  <2>2. EarWith(e, 0, value, 0, 1, 0)
    BY EarsWith
  <2>3. Hear(e, "muoi") = Ear(e.groups, value, 0, 1, e.last)
    BY <2>1, <2>2 DEF EarWith
  <2> QED
    BY <2>3 DEF value
<1>3. Hear(e, "muoi'") = Ear(e.groups, e.group + 10, e.held, 1, e.last)
  <2> DEFINE value == e.group + 10
  <2>1. Hear(e, "muoi'") = [e EXCEPT !.group = value, !.place = 1]
    BY DEF Hear
  <2> HIDE DEF value
  <2>2. EarWith(e, 0, value, 0, 1, 0)
    BY EarsWith
  <2>3. Hear(e, "muoi'") = Ear(e.groups, value, e.held, 1, e.last)
    BY <2>1, <2>2 DEF EarWith
  <2> QED
    BY <2>3 DEF value
<1>4. Hear(e, "le") = Ear(e.groups, e.group, e.held, 1, e.last)
  <2>1. Hear(e, "le") = [e EXCEPT !.place = 1]
    BY DEF Hear
  <2>2. EarWith(e, 0, 0, 0, 1, 0)
    BY EarsWith
  <2> QED
    BY <2>1, <2>2 DEF EarWith
<1>5. Hear(e, "nghin") = Closed(e, 2) /\ Hear(e, "trieu") = Closed(e, 3)
  <2>1. Hear(e, "nghin") = Close(e, 2) /\ Hear(e, "trieu") = Close(e, 3)
    BY DEF Hear
  <2>2. Close(e, 2) = Closed(e, 2) /\ Close(e, 3) = Closed(e, 3)
    BY CloseIs DEF MaxGroups
  <2> QED
    BY <2>1, <2>2
<1>6. Hear(e, "ty") = IF e.last = 2 /\ e.group = 0 /\ e.held = 0 THEN Raised(e)
                      ELSE Closed(e, 4)
  <2> DEFINE new == [[e.groups EXCEPT ![5] = e.groups[2]] EXCEPT ![2] = 0]
  <2>1. Hear(e, "ty") = IF e.last = 2 /\ e.group = 0 /\ e.held = 0
                        THEN [e EXCEPT !.groups[5] = e.groups[2], !.groups[2] = 0, !.last = 5]
                        ELSE Close(e, 4)
    BY DEF Hear
  <2>2. [e EXCEPT !.groups[5] = e.groups[2], !.groups[2] = 0, !.last = 5]
          = [e EXCEPT !.groups = new, !.last = 5]
    <3> DEFINE e1 == [e EXCEPT !.groups[5] = e.groups[2]]
               e2 == [e EXCEPT !.groups = [e.groups EXCEPT ![5] = e.groups[2]]]
    <3>1. e1 = e2
      OBVIOUS
    <3>2. e2.groups = [e.groups EXCEPT ![5] = e.groups[2]]
      BY DEF Ears
    <3>3. [e2 EXCEPT !.groups = new] = [e EXCEPT !.groups = new]
      BY DEF Ears
    <3>4. [e1 EXCEPT !.groups[2] = 0] = [e2 EXCEPT !.groups = new]
      BY <3>1, <3>2
    <3> QED
      BY <3>3, <3>4
  <2> HIDE DEF new
  <2>3. EarWith(e, new, 0, 0, e.place, 5)
    BY EarsWith
  <2>4. ASSUME e.group = 0, e.held = 0
        PROVE  [e EXCEPT !.groups = new, !.last = 5] = Ear(new, 0, 0, e.place, 5)
    BY <2>3, <2>4 DEF EarWith
  <2>5. Close(e, 4) = Closed(e, 4)
    BY CloseIs DEF MaxGroups
  <2>6. Raised(e) = Ear(new, 0, 0, e.place, 5)
    BY DEF Raised, new
  <2> QED
    BY <2>1, <2>2, <2>4, <2>5, <2>6
<1> QED
  BY <1>1, <1>2, <1>3, <1>4, <1>5, <1>6 DEF Places

PlaceWords == {"tram", "muoi", "muoi'", "le", "nghin", "trieu", "ty"}

LEMMA HearDigit ==
  ASSUME NEW e \in Ears, NEW w \in Spoken \ PlaceWords
  PROVE  Hear(e, w) = Ear(e.groups, e.group, ValueOf[w], e.place, e.last)
<1> DEFINE value == ValueOf[w]
<1>1. Hear(e, w) = [e EXCEPT !.held = value]
  BY DEF Hear, PlaceWords
<1> HIDE DEF value
<1>2. EarWith(e, 0, 0, value, 0, 0)
  BY EarsWith
<1>3. Hear(e, w) = Ear(e.groups, e.group, value, e.place, e.last)
  BY <1>1, <1>2 DEF EarWith
<1> QED
  BY <1>3 DEF value

LEMMA HearTyped ==
  ASSUME NEW e \in Ears, NEW w \in Spoken
  PROVE  Hear(e, w) \in Ears
<1>1. /\ e.groups \in [1..5 -> Nat] /\ e.group \in Nat /\ e.held \in 0..9
      /\ e.place \in {1, 10, 100} /\ e.last \in 0..5 /\ MaxGroups = 5
  BY DEF Ears, MaxGroups
<1>2. /\ e.held * 100 \in Nat /\ e.group + e.held * 10 \in Nat
      /\ e.group + 10 \in Nat /\ e.group + e.held * e.place \in Nat
  <2>1. e.held * 1 \in Nat /\ e.held * 10 \in Nat /\ e.held * 100 \in Nat
    BY <1>1
  <2> QED
    BY <1>1, <2>1
<1>3. ASSUME NEW i \in 1..5 PROVE Closed(e, i) \in Ears
  <2> DEFINE value == e.group + e.held * e.place
  <2>1. value \in Nat
    BY <1>2
  <2> HIDE DEF value
  <2>2. [e.groups EXCEPT ![i] = value] \in [1..5 -> Nat]
    BY <1>1, <2>1
  <2>3. Ear([e.groups EXCEPT ![i] = value], 0, 0, 100, i) \in Ears
    BY <1>1, <2>2 DEF Ear, Ears
  <2> QED
    BY <2>3 DEF Closed, value
<1>4. Raised(e) \in Ears
  <2> DEFINE new == [[e.groups EXCEPT ![5] = e.groups[2]] EXCEPT ![2] = 0]
  <2>1. new \in [1..5 -> Nat]
    BY <1>1
  <2> HIDE DEF new
  <2>2. Ear(new, 0, 0, e.place, 5) \in Ears
    BY <1>1, <2>1 DEF Ear, Ears
  <2> QED
    BY <2>2 DEF Raised, new
<1>5. CASE w \in {"tram", "muoi", "muoi'", "le"}
  <2>1. Hear(e, w) \in {Ear(e.groups, e.held * 100, 0, 10, e.last),
                        Ear(e.groups, e.group + e.held * 10, 0, 1, e.last),
                        Ear(e.groups, e.group + 10, e.held, 1, e.last),
                        Ear(e.groups, e.group, e.held, 1, e.last)}
    BY <1>5, PlacesAre DEF Places
  <2>2. Ear(e.groups, e.held * 100, 0, 10, e.last) \in Ears
    BY <1>1, <1>2, EarTyped
  <2>3. Ear(e.groups, e.group + e.held * 10, 0, 1, e.last) \in Ears
    BY <1>1, <1>2, EarTyped
  <2>4. Ear(e.groups, e.group + 10, e.held, 1, e.last) \in Ears
    BY <1>1, <1>2, EarTyped
  <2>5. Ear(e.groups, e.group, e.held, 1, e.last) \in Ears
    BY <1>1, <1>2, EarTyped
  <2> QED
    BY <2>1, <2>2, <2>3, <2>4, <2>5
<1>6. CASE w \in {"nghin", "trieu", "ty"}
  <2>1. Hear(e, w) \in {Closed(e, 2), Closed(e, 3), Closed(e, 4), Raised(e)}
    BY <1>6, PlacesAre DEF Places
  <2> QED
    BY <1>3, <1>4, <2>1
<1>7. CASE w \notin PlaceWords
  <2>1. ValueOf[w] \in 0..9
    BY <1>7, WordsAre DEF PlaceWords
  <2>2. Hear(e, w) = Ear(e.groups, e.group, ValueOf[w], e.place, e.last)
    BY <1>7, HearDigit
  <2> QED
    BY <1>1, <2>1, <2>2, EarTyped
<1> QED
  BY <1>5, <1>6, <1>7 DEF PlaceWords

\* One word after the other.
HearHistory(h, base, seq, n, end) ==
    /\ h[0] = base /\ h[n] = end
    /\ \A k \in 1..n : h[k] = Hear(h[k - 1], seq[k])

LEMMA HearFold ==
  ASSUME NEW D, NEW base \in D, NEW n \in Nat, NEW S, NEW seq \in [1..n -> S],
         \A st \in D, x \in S : Hear(st, x) \in D
  PROVE  \E h \in [0..n -> D] : HearHistory(h, base, seq, n, FoldLeft(Hear, base, seq))
<1> DEFINE F == [q \in D \X (1..n) |-> Hear(q[1], seq[q[2]])]
           Step(g) == [s \in SUBSET DOMAIN seq |->
                        IF s = {} THEN base ELSE Hear(g[s \ {Max(s)}], seq[Max(s)])]
           G == CHOOSE g : g = Step(g)
<1>1. FoldLeft(Hear, base, seq) = G[DOMAIN seq]
  BY DEF FoldLeft, MapThenFoldSet
<1>2. DOMAIN seq = 1..n
  OBVIOUS
<1>3. F \in [D \X (1..n) -> D]
  OBVIOUS
<1>4. PICK g \in [SUBSET (1..n) -> D] : IsFold(g, n, base, F)
  <2> HIDE DEF F
  <2> QED
    BY <1>3, FoldExists
<1>5. g = Step(g)
  <2>1. ASSUME NEW s \in SUBSET (1..n)
        PROVE  g[s] = IF s = {} THEN base ELSE Hear(g[s \ {Max(s)}], seq[Max(s)])
    <3>1. CASE s = {}
      BY <1>4, <3>1 DEF IsFold
    <3>2. CASE s # {}
      <4>1. Max(s) \in 1..n /\ s \ {Max(s)} \in SUBSET (1..n)
        BY <3>2, MaxIn
      <4>2. g[s] = F[<<g[s \ {Max(s)}], Max(s)>>]
        BY <1>4, <3>2 DEF IsFold
      <4>3. <<g[s \ {Max(s)}], Max(s)>> \in D \X (1..n)
        BY <4>1
      <4> QED
        BY <3>2, <4>2, <4>3
    <3> QED
      BY <3>1, <3>2
  <2> QED
    BY <2>1, <1>2
<1>6. G = Step(G)
  <2> HIDE DEF Step
  <2> QED
    BY <1>5
<1>7. \A s \in SUBSET (1..n) :
         G[s] = IF s = {} THEN base
                ELSE Hear(G[s \ {Max(s)}], seq[Max(s)])
  <2> HIDE DEF G
  <2> QED
    BY <1>6, <1>2
<1> HIDE DEF G
<1> DEFINE h == [k \in 0..n |-> G[1..k]]
<1>8. h[0] = base
  <2>1. h[0] = G[1..0] /\ {} \in SUBSET (1..n)
    OBVIOUS
  <2> QED
    BY <1>7, <2>1, FirstOnes
<1>9. ASSUME NEW k \in 1..n
      PROVE  h[k] = Hear(h[k - 1], seq[k])
  <2>1. h[k] = G[1..k] /\ h[k - 1] = G[1..(k - 1)]
    OBVIOUS
  <2> QED
    BY <1>7, <2>1, FirstOnes
<1>10. h[n] = G[DOMAIN seq]
  BY <1>2
<1>11. DOMAIN h = 0..n /\ h = [k \in 0..n |-> h[k]]
  OBVIOUS
<1> HIDE DEF h, F
<1>12. \A k \in 0..n : h[k] \in D
  <2> DEFINE T == {k \in 0..n : h[k] \in D}
  <2>1. 0 \in T
    BY <1>8
  <2>2. ASSUME NEW k \in 0..(n - 1), k \in T PROVE k + 1 \in T
    <3>1. k + 1 \in 1..n /\ k + 1 \in 0..n /\ (k + 1) - 1 = k
      OBVIOUS
    <3>2. h[k + 1] = Hear(h[k], seq[k + 1])
      BY <1>9, <3>1
    <3>3. h[k] \in D /\ seq[k + 1] \in S
      BY <2>2, <3>1
    <3> QED
      BY <3>1, <3>2, <3>3
  <2> HIDE DEF T
  <2>3. \A k \in 0..n : k \in T
    BY <2>1, <2>2, Climb
  <2> QED
    BY <2>3 DEF T
<1>13. h \in [0..n -> D]
  BY <1>11, <1>12
<1>14. FoldLeft(Hear, base, seq) = h[n]
  BY <1>1, <1>10
<1> QED
  BY <1>8, <1>9, <1>13, <1>14 DEF HearHistory

\* Who has heard e and then hears the words is left with end.
Hearing(e, words, end) ==
    /\ words \in Seq(Spoken)
    /\ \E h \in [0..Len(words) -> Ears] : HearHistory(h, e, words, Len(words), end)

LEMMA HearingNone ==
  ASSUME NEW e \in Ears
  PROVE  Hearing(e, <<>>, e)
<1> DEFINE h == [k \in 0..0 |-> e]
<1>1. h \in [0..0 -> Ears] /\ HearHistory(h, e, <<>>, 0, e)
  BY DEF HearHistory
<1>2. <<>> \in Seq(Spoken) /\ Len(<<>>) = 0
  OBVIOUS
<1> HIDE DEF h
<1> QED
  BY <1>1, <1>2 DEF Hearing

LEMMA HearingOne ==
  ASSUME NEW e \in Ears, NEW w \in Spoken
  PROVE  Hearing(e, <<w>>, Hear(e, w))
<1> DEFINE end == Hear(e, w)
           h == [k \in 0..1 |-> IF k = 0 THEN e ELSE end]
<1>1. end \in Ears
  BY HearTyped
<1>2. end = Hear(e, <<w>>[1])
  OBVIOUS
<1> HIDE DEF end
<1>3. h \in [0..1 -> Ears]
  BY <1>1
<1>4. h[0] = e /\ h[1] = end
  OBVIOUS
<1> HIDE DEF h
<1>5. HearHistory(h, e, <<w>>, 1, end)
  <2>1. ASSUME NEW k \in 1..1 PROVE h[k] = Hear(h[k - 1], <<w>>[k])
    <3>1. k = 1 /\ k - 1 = 0
      OBVIOUS
    <3> QED
      BY <1>2, <1>4, <3>1
  <2> QED
    BY <1>4, <2>1 DEF HearHistory
<1>6. <<w>> \in Seq(Spoken) /\ Len(<<w>>) = 1
  OBVIOUS
<1>7. Hearing(e, <<w>>, end)
  BY <1>3, <1>5, <1>6 DEF Hearing
<1> QED
  BY <1>7 DEF end

LEMMA HearingConcat ==
  ASSUME NEW e, NEW w, NEW m, NEW v, NEW end,
         Hearing(e, w, m), Hearing(m, v, end)
  PROVE  Hearing(e, w \o v, end)
<1> DEFINE a == Len(w)
           b == Len(v)
           u == w \o v
<1>1. w \in Seq(Spoken) /\ v \in Seq(Spoken) /\ a \in Nat /\ b \in Nat
  BY DEF Hearing
<1>2. /\ u \in Seq(Spoken) /\ Len(u) = a + b
      /\ \A k \in 1..a : u[k] = w[k]
      /\ \A k \in (a + 1)..(a + b) : u[k] = v[k - a]
  BY <1>1
<1>3. PICK f \in [0..a -> Ears] : HearHistory(f, e, w, a, m)
  BY DEF Hearing
<1>4. PICK g \in [0..b -> Ears] : HearHistory(g, m, v, b, end)
  BY DEF Hearing
<1> DEFINE h == [k \in 0..(a + b) |-> IF k <= a THEN f[k] ELSE g[k - a]]
<1> HIDE DEF a, b, u
<1>5. h \in [0..(a + b) -> Ears]
  BY <1>1
<1>6. ASSUME NEW k \in 1..(a + b) PROVE h[k] = Hear(h[k - 1], u[k])
  <2>1. CASE k <= a
    <3>1. h[k] = f[k] /\ h[k - 1] = f[k - 1] /\ k \in 1..a
      BY <1>1, <2>1
    <3>2. f[k] = Hear(f[k - 1], w[k])
      BY <1>3, <3>1 DEF HearHistory
    <3> QED
      BY <1>2, <3>1, <3>2
  <2>2. CASE ~ k <= a
    <3>1. k - a \in 1..b /\ h[k] = g[k - a] /\ k \in (a + 1)..(a + b)
          /\ k - a - 1 = k - 1 - a
      BY <1>1, <2>2
    <3>2. h[k - 1] = g[k - a - 1]
      <4>1. CASE k - 1 <= a
        <5>1. k - 1 = a /\ k - a - 1 = 0 /\ h[k - 1] = f[a]
          BY <1>1, <2>2, <4>1
        <5>2. f[a] = m /\ g[0] = m
          BY <1>3, <1>4 DEF HearHistory
        <5> QED
          BY <5>1, <5>2
      <4>2. CASE ~ k - 1 <= a
        BY <1>1, <3>1, <4>2
      <4> QED
        BY <4>1, <4>2
    <3>3. g[k - a] = Hear(g[k - a - 1], v[k - a])
      BY <1>4, <3>1 DEF HearHistory
    <3>4. u[k] = v[k - a]
      BY <1>2, <3>1
    <3> QED
      BY <3>1, <3>2, <3>3, <3>4
  <2> QED
    BY <2>1, <2>2
<1>7. h[0] = e
  <2>1. h[0] = f[0]
    BY <1>1
  <2> QED
    BY <1>3, <2>1 DEF HearHistory
<1>8. h[a + b] = end
  <2>1. CASE b = 0
    <3>1. h[a + b] = f[a]
      BY <1>1, <2>1
    <3> QED
      BY <1>3, <1>4, <2>1, <3>1 DEF HearHistory
  <2>2. CASE b # 0
    <3>1. h[a + b] = g[b]
      BY <1>1, <2>2
    <3> QED
      BY <1>4, <3>1 DEF HearHistory
  <2> QED
    BY <2>1, <2>2
<1> HIDE DEF h
<1>9. HearHistory(h, e, u, a + b, end)
  BY <1>6, <1>7, <1>8 DEF HearHistory
<1>10. Hearing(e, u, end)
  BY <1>2, <1>5, <1>9 DEF Hearing
<1> QED
  BY <1>10 DEF u

LEMMA HeardIs ==
  ASSUME NEW words, NEW end, Hearing(Silence, words, end)
  PROVE  FoldLeft(Hear, Silence, words) = end
<1> DEFINE n == Len(words)
<1>1. words \in [1..n -> Spoken] /\ n \in Nat
  BY DEF Hearing
<1>2. PICK h \in [0..n -> Ears] : HearHistory(h, Silence, words, n, end)
  BY DEF Hearing
<1>3. Silence \in Ears
  BY DEF Silence, Ears, MaxGroups
<1> HIDE DEF n
<1>4. PICK g \in [0..n -> Ears] :
         HearHistory(g, Silence, words, n, FoldLeft(Hear, Silence, words))
  BY <1>1, <1>3, HearTyped, HearFold
<1> DEFINE T == {k \in 0..n : h[k] = g[k]}
<1>5. 0 \in T
  BY <1>1, <1>2, <1>4 DEF HearHistory
<1>6. ASSUME NEW k \in 0..(n - 1), k \in T PROVE k + 1 \in T
  <2>1. k + 1 \in 1..n /\ k + 1 \in 0..n /\ (k + 1) - 1 = k
    BY <1>1
  <2>2. h[k + 1] = Hear(h[k], words[k + 1]) /\ g[k + 1] = Hear(g[k], words[k + 1])
    BY <1>2, <1>4, <2>1 DEF HearHistory
  <2> QED
    BY <1>6, <2>1, <2>2
<1> HIDE DEF T
<1>7. n \in 0..n
  BY <1>1
<1>8. n \in T
  BY <1>1, <1>5, <1>6, <1>7, Climb
<1>9. h[n] = g[n]
  BY <1>8 DEF T
<1> QED
  BY <1>2, <1>4, <1>9 DEF HearHistory

LEMMA DigitsArePlain ==
  /\ \A d \in 0..9 : Digit(d) \in Spoken \ PlaceWords
  /\ {"mot'", "tu", "lam"} \subseteq Spoken \ PlaceWords
<1>1. ASSUME NEW d \in 0..9 PROVE Digit(d) \notin PlaceWords
  <2>1. d \in {0, 1, 2, 3, 4, 5, 6, 7, 8, 9}
    OBVIOUS
  <2> QED
    BY <2>1, DigitsAre DEF PlaceWords
<1> QED
  BY <1>1, DigitsSpoken DEF PlaceWords, Spoken

LEMMA DigitHeard ==
  ASSUME NEW g \in [1..MaxGroups -> Nat], NEW r \in Nat, NEW p \in {1, 10, 100},
         NEW l \in 0..MaxGroups, NEW w \in Spoken \ PlaceWords, NEW u \in 0..9,
         ValueOf[w] = u
  PROVE  Hearing(Ear(g, r, 0, p, l), <<w>>, Ear(g, r, u, p, l))
<1> DEFINE e == Ear(g, r, 0, p, l)
<1>1. e \in Ears
  BY EarTyped
<1>2. e.groups = g /\ e.group = r /\ e.place = p /\ e.last = l
  BY DEF Ear
<1> HIDE DEF e
<1>3. Hear(e, w) = Ear(e.groups, e.group, ValueOf[w], e.place, e.last)
  BY <1>1, HearDigit
<1>4. Hearing(e, <<w>>, Hear(e, w))
  BY <1>1, HearingOne
<1>5. Hearing(e, <<w>>, Ear(g, r, u, p, l))
  BY <1>2, <1>3, <1>4
<1> QED
  BY <1>5 DEF e

LEMMA UnitsHeard ==
  ASSUME NEW g \in [1..MaxGroups -> Nat], NEW r \in Nat, NEW l \in 0..MaxGroups,
         NEW u \in 0..9
  PROVE  /\ Hearing(Ear(g, r, 0, 1, l), AfterTens(u), Ear(g, r, u, 1, l))
         /\ Hearing(Ear(g, r, 0, 1, l), AfterTen(u), Ear(g, r, u, 1, l))
<1>1. CASE u = 0
  <2>1. AfterTens(u) = <<>> /\ AfterTen(u) = <<>>
    BY <1>1 DEF AfterTens, AfterTen
  <2>2. Ear(g, r, 0, 1, l) \in Ears
    BY EarTyped
  <2>3. Hearing(Ear(g, r, 0, 1, l), <<>>, Ear(g, r, 0, 1, l))
    BY <2>2, HearingNone
  <2> QED
    BY <1>1, <2>1, <2>3
<1>2. CASE u # 0
  <2>1. \E w \in Spoken \ PlaceWords : AfterTens(u) = <<w>> /\ ValueOf[w] = u
    <3>1. CASE u = 1
      BY <3>1, DigitsArePlain, DigitsValue DEF AfterTens
    <3>2. CASE u = 4
      BY <3>2, DigitsArePlain, DigitsValue DEF AfterTens
    <3>3. CASE u = 5
      BY <3>3, DigitsArePlain, DigitsValue DEF AfterTens
    <3>4. CASE u \notin {1, 4, 5}
      <4>1. AfterTens(u) = <<Digit(u)>>
        BY <1>2, <3>4 DEF AfterTens
      <4> QED
        BY <4>1, DigitsArePlain, DigitsValue
    <3> QED
      BY <3>1, <3>2, <3>3, <3>4
  <2>2. \E w \in Spoken \ PlaceWords : AfterTen(u) = <<w>> /\ ValueOf[w] = u
    <3>1. CASE u = 5
      BY <3>1, DigitsArePlain, DigitsValue DEF AfterTen
    <3>2. CASE u # 5
      <4>1. AfterTen(u) = <<Digit(u)>>
        BY <1>2, <3>2 DEF AfterTen
      <4> QED
        BY <4>1, DigitsArePlain, DigitsValue
    <3> QED
      BY <3>1, <3>2
  <2>3. ASSUME NEW w \in Spoken \ PlaceWords, ValueOf[w] = u
        PROVE  Hearing(Ear(g, r, 0, 1, l), <<w>>, Ear(g, r, u, 1, l))
    BY <2>3, DigitHeard
  <2> QED
    BY <2>1, <2>2, <2>3
<1> QED
  BY <1>1, <1>2

LEMMA PairIs ==
  ASSUME NEW S, NEW s \in Seq(S), NEW t \in Seq(S), NEW c \in Seq(S),
         Len(s) = 1, Len(t) = 1, Len(c) = 2, c[1] = s[1], c[2] = t[1]
  PROVE  s \o t = c
<1> DEFINE d == s \o t
<1>1. d \in Seq(S) /\ Len(d) = Len(s) + Len(t)
      /\ (\A k \in 1..Len(s) : d[k] = s[k])
      /\ (\A k \in (Len(s) + 1)..(Len(s) + Len(t)) : d[k] = t[k - Len(s)])
  <2>1. Len(s) \in Nat /\ Len(t) \in Nat /\ s \in Seq(S) /\ t \in Seq(S)
    OBVIOUS
  <2> QED
    BY ONLY <2>1
<1> HIDE DEF d
<1>2. Len(d) = 2 /\ d[1] = c[1] /\ d[2] = c[2]
  BY <1>1
<1>3. d = c
  BY <1>1, <1>2
<1> QED
  BY <1>3 DEF d

LEMMA TwoHeard ==
  ASSUME NEW e, NEW m, NEW end, NEW v \in Spoken, NEW w \in Spoken,
         Hearing(e, <<v>>, m), Hearing(m, <<w>>, end)
  PROVE  Hearing(e, <<v, w>>, end)
<1>1. Hearing(e, <<v>> \o <<w>>, end)
  BY HearingConcat
<1>2. <<v>> \o <<w>> = <<v, w>>
  <2>1. /\ <<v>> \in Seq(Spoken) /\ <<w>> \in Seq(Spoken) /\ <<v, w>> \in Seq(Spoken)
        /\ Len(<<v>>) = 1 /\ Len(<<w>>) = 1 /\ Len(<<v, w>>) = 2
        /\ <<v, w>>[1] = <<v>>[1] /\ <<v, w>>[2] = <<w>>[1]
    OBVIOUS
  <2> QED
    BY <2>1, PairIs
<1> QED
  BY <1>1, <1>2

\* What is heard when a digit is followed by its place, and a ten by itself.
Placed(g, r, p, l, d) ==
    /\ Hearing(Ear(g, r, 0, p, l), <<Digit(d), "tram">>, Ear(g, d * 100, 0, 10, l))
    /\ Hearing(Ear(g, r, 0, p, l), <<Digit(d), "muoi">>, Ear(g, r + d * 10, 0, 1, l))
    /\ Hearing(Ear(g, r, 0, p, l), <<"muoi'">>, Ear(g, r + 10, 0, 1, l))
    /\ Hearing(Ear(g, r, 0, p, l), <<"le">>, Ear(g, r, 0, 1, l))

LEMMA PlacesHeard ==
  ASSUME NEW g \in [1..MaxGroups -> Nat], NEW r \in Nat, NEW p \in {1, 10, 100},
         NEW l \in 0..MaxGroups, NEW d \in 0..9
  PROVE  Placed(g, r, p, l, d)
<1>1. Hearing(Ear(g, r, 0, p, l), <<Digit(d)>>, Ear(g, r, d, p, l))
  BY DigitHeard, DigitsArePlain, DigitsValue
<1>2. {"tram", "muoi", "muoi'", "le"} \subseteq Spoken
  BY DEF Spoken
<1> DEFINE e == Ear(g, r, 0, p, l)
           m == Ear(g, r, d, p, l)
<1>3. e \in Ears /\ m \in Ears
  BY EarTyped
<1>4. /\ e.groups = g /\ e.group = r /\ e.held = 0 /\ e.place = p /\ e.last = l
      /\ m.groups = g /\ m.group = r /\ m.held = d /\ m.place = p /\ m.last = l
  BY DEF Ear
<1> HIDE DEF e, m
<1>5. Hearing(m, <<"tram">>, Ear(g, d * 100, 0, 10, l))
  <2>1. Hear(m, "tram") = Ear(m.groups, m.held * 100, 0, 10, m.last)
    BY <1>3, PlacesAre DEF Places
  <2>2. Hearing(m, <<"tram">>, Hear(m, "tram"))
    BY <1>2, <1>3, HearingOne
  <2> QED
    BY <1>4, <2>1, <2>2
<1>6. Hearing(m, <<"muoi">>, Ear(g, r + d * 10, 0, 1, l))
  <2>1. Hear(m, "muoi") = Ear(m.groups, m.group + m.held * 10, 0, 1, m.last)
    BY <1>3, PlacesAre DEF Places
  <2>2. Hearing(m, <<"muoi">>, Hear(m, "muoi"))
    BY <1>2, <1>3, HearingOne
  <2> QED
    BY <1>4, <2>1, <2>2
<1>7. Hearing(e, <<"muoi'">>, Ear(g, r + 10, 0, 1, l))
  <2>1. Hear(e, "muoi'") = Ear(e.groups, e.group + 10, e.held, 1, e.last)
    BY <1>3, PlacesAre DEF Places
  <2>2. Hearing(e, <<"muoi'">>, Hear(e, "muoi'"))
    BY <1>2, <1>3, HearingOne
  <2> QED
    BY <1>4, <2>1, <2>2
<1>8. Hearing(e, <<"le">>, Ear(g, r, 0, 1, l))
  <2>1. Hear(e, "le") = Ear(e.groups, e.group, e.held, 1, e.last)
    BY <1>3, PlacesAre DEF Places
  <2>2. Hearing(e, <<"le">>, Hear(e, "le"))
    BY <1>2, <1>3, HearingOne
  <2> QED
    BY <1>4, <2>1, <2>2
<1>9. Hearing(e, <<Digit(d)>>, m)
  BY <1>1 DEF e, m
<1>10. Hearing(e, <<Digit(d), "tram">>, Ear(g, d * 100, 0, 10, l))
  BY <1>2, <1>5, <1>9, DigitsSpoken, TwoHeard
<1>11. Hearing(e, <<Digit(d), "muoi">>, Ear(g, r + d * 10, 0, 1, l))
  BY <1>2, <1>6, <1>9, DigitsSpoken, TwoHeard
<1> QED
  BY <1>7, <1>8, <1>10, <1>11 DEF e, Placed

\* The words of a group are worth v, whatever is left of it in the ear.
GroupSays(g, p, l, v, words) ==
    \E r \in Nat, h \in 0..9, q \in {1, 10, 100} :
        r + h * q = v /\ Hearing(Ear(g, 0, 0, p, l), words, Ear(g, r, h, q, l))

\* A group is heard when nothing before it can lend its words another place: it is the
\* first one, it has hundreds, or its zero hundreds are said.
MayBeSaid(g, p, l, v, z) ==
    /\ g \in [1..MaxGroups -> Nat] /\ p \in {1, 10, 100} /\ l \in 0..MaxGroups
    /\ v \in 1..999 /\ z \in BOOLEAN /\ (v >= 100 \/ z \/ p = 1)

LEMMA GroupHeard ==
  ASSUME NEW g, NEW p, NEW l, NEW v, NEW z, MayBeSaid(g, p, l, v, z)
  PROVE  GroupSays(g, p, l, v, ReadUnderThousand(v, z))
<1> DEFINE hd == v \div 100
           t == (v % 100) \div 10
           u == v % 10
           said == hd > 0 \/ z
           first == IF said THEN <<Digit(hd), "tram">> ELSE <<>>
           tens == <<Digit(t), "muoi">> \o AfterTens(u)
           ten == <<"muoi'">> \o AfterTen(u)
           unit == IF u = 0 THEN <<>> ELSE (IF said THEN <<"le">> ELSE <<>>) \o <<Digit(u)>>
           then == CASE t > 1 -> tens [] t = 1 -> ten [] t = 0 -> unit
           e == Ear(g, 0, 0, p, l)
           place == IF said THEN 10 ELSE 1
           m == Ear(g, hd * 100, 0, place, l)
<1>0. /\ g \in [1..MaxGroups -> Nat] /\ p \in {1, 10, 100} /\ l \in 0..MaxGroups
      /\ v \in 1..999 /\ z \in BOOLEAN /\ (v >= 100 \/ z \/ p = 1)
  BY DEF MayBeSaid
<1>1. hd \in 0..9 /\ t \in 0..9 /\ u \in 0..9 /\ v = hd * 100 + t * 10 + u
  BY <1>0, DivMod
<1>2. ReadUnderThousand(v, z) = first \o then
  BY DEF ReadUnderThousand
<1> HIDE DEF hd, t, u
<1>3. hd * 100 \in Nat /\ hd * 100 + t * 10 \in Nat /\ place \in {1, 10, 100}
  BY <1>1
<1>4. e \in Ears /\ m \in Ears
  <2>1. 0 \in Nat /\ 0 \in 0..9
    OBVIOUS
  <2>2. e \in Ears
    BY <1>0, <2>1, EarTyped
  <2> DEFINE hundreds == hd * 100
  <2>3. hundreds \in Nat /\ m = Ear(g, hundreds, 0, place, l)
    BY <1>3
  <2> HIDE DEF place, hundreds, m
  <2>4. Ear(g, hundreds, 0, place, l) \in Ears
    <3>1. /\ g \in [1..MaxGroups -> Nat] /\ hundreds \in Nat /\ 0 \in 0..9
          /\ place \in {1, 10, 100} /\ l \in 0..MaxGroups
      BY <1>0, <1>3, <2>1, <2>3
    <3> QED
      BY ONLY <3>1, EarTyped
  <2> QED
    BY <2>2, <2>3, <2>4
<1>5. Hearing(e, first, m)
  <2>1. CASE said
    <3>1. Hearing(e, <<Digit(hd), "tram">>, Ear(g, hd * 100, 0, 10, l))
      <4>1. 0 \in Nat
        OBVIOUS
      <4>2. Placed(g, 0, p, l, hd)
        BY <1>0, <1>1, <4>1, PlacesHeard
      <4> QED
        BY <4>2 DEF Placed
    <3> QED
      BY <2>1, <3>1
  <2>2. CASE ~said
    <3>1. hd = 0 /\ hd * 100 = 0 /\ p = 1
      <4>1. hd = 0 /\ ~z
        BY <1>0, <1>1, <2>2
      <4>2. v < 100
        BY <1>0, <1>1, <4>1
      <4> QED
        BY <1>0, <4>1, <4>2
    <3>2. m = e /\ first = <<>>
      BY <2>2, <3>1
    <3> HIDE DEF first, m, e
    <3>3. Hearing(e, <<>>, e)
      BY <1>4, HearingNone
    <3> QED
      BY <3>2, <3>3
  <2> QED
    BY <2>1, <2>2
<1> DEFINE Left(r, h, q) == Ear(g, r, h, q, l)
<1>6. \E r \in Nat, h \in 0..9, q \in {1, 10, 100} :
         r + h * q = v /\ Hearing(m, then, Left(r, h, q))
  <2>1. CASE t > 1
    <3>1. then = <<Digit(t), "muoi">> \o AfterTens(u)
      <4> HIDE DEF tens, ten, unit
      <4>1. then = tens
        BY <1>1, <2>1
      <4> QED
        BY <4>1 DEF tens
    <3> HIDE DEF place, then, said
    <3>2. Hearing(m, <<Digit(t), "muoi">>, Ear(g, hd * 100 + t * 10, 0, 1, l))
      <4>1. Placed(g, hd * 100, place, l, t)
        BY <1>0, <1>1, <1>3, PlacesHeard
      <4> QED
        BY <4>1 DEF Placed
    <3>3. Hearing(Ear(g, hd * 100 + t * 10, 0, 1, l), AfterTens(u), Left(hd * 100 + t * 10, u, 1))
      BY <1>0, <1>1, <1>3, UnitsHeard
    <3> HIDE DEF m, Left
    <3>4. Hearing(m, then, Left(hd * 100 + t * 10, u, 1))
      BY <3>1, <3>2, <3>3, HearingConcat
    <3>5. hd * 100 + t * 10 + u * 1 = v
      BY <1>1
    <3> QED
      BY <1>1, <1>3, <3>4, <3>5
  <2>2. CASE t = 1
    <3>1. then = <<"muoi'">> \o AfterTen(u)
      <4> HIDE DEF tens, ten, unit
      <4>1. then = ten
        BY <1>1, <2>2
      <4> QED
        BY <4>1 DEF ten
    <3> HIDE DEF place, then, said
    <3>2. Hearing(m, <<"muoi'">>, Ear(g, hd * 100 + 10, 0, 1, l))
      <4>1. Placed(g, hd * 100, place, l, t)
        BY <1>0, <1>1, <1>3, PlacesHeard
      <4> QED
        BY <4>1 DEF Placed
    <3>3. hd * 100 + 10 \in Nat
      BY <1>1
    <3>4. Hearing(Ear(g, hd * 100 + 10, 0, 1, l), AfterTen(u), Left(hd * 100 + 10, u, 1))
      BY <1>0, <1>1, <3>3, UnitsHeard
    <3> HIDE DEF m, Left
    <3>5. Hearing(m, then, Left(hd * 100 + 10, u, 1))
      BY <3>1, <3>2, <3>4, HearingConcat
    <3>6. hd * 100 + 10 + u * 1 = v
      BY <1>1, <2>2
    <3> QED
      BY <1>1, <3>3, <3>5, <3>6
  <2>3. CASE t = 0 /\ u > 0
    <3> DEFINE le == IF said THEN <<"le">> ELSE <<>>
    <3>1. then = le \o <<Digit(u)>>
      BY <1>1, <2>3
    <3>2. Hearing(m, le, Left(hd * 100, 0, 1))
      <4>1. CASE said
        <5>1. Placed(g, hd * 100, 10, l, u)
          BY <1>0, <1>1, <1>3, PlacesHeard
        <5> QED
          BY <4>1, <5>1 DEF Placed
      <4>2. CASE ~said
        <5>1. m = Left(hd * 100, 0, 1) /\ le = <<>>
          BY <4>2
        <5> HIDE DEF m, le, Left
        <5>2. Hearing(m, <<>>, m)
          BY <1>4, HearingNone
        <5> QED
          BY <5>1, <5>2
      <4> QED
        BY <4>1, <4>2
    <3> HIDE DEF place, then, said, le
    <3>3. Hearing(Left(hd * 100, 0, 1), <<Digit(u)>>, Left(hd * 100, u, 1))
      BY <1>0, <1>1, <1>3, DigitHeard, DigitsArePlain, DigitsValue
    <3> HIDE DEF m, Left
    <3>4. Hearing(m, then, Left(hd * 100, u, 1))
      BY <3>1, <3>2, <3>3, HearingConcat
    <3>5. hd * 100 + u * 1 = v
      BY <1>1, <2>3
    <3> QED
      BY <1>1, <1>3, <3>4, <3>5
  <2>4. CASE t = 0 /\ u = 0
    <3>1. then = <<>>
      BY <1>1, <2>4
    <3>2. m = Left(hd * 100, 0, place)
      OBVIOUS
    <3> HIDE DEF place, then, said, m, Left
    <3>3. Hearing(m, then, Left(hd * 100, 0, place))
      BY <1>4, <3>1, <3>2, HearingNone
    <3>4. hd * 100 + 0 * place = v
      BY <1>1, <1>3, <2>4
    <3> QED
      BY <1>3, <3>3, <3>4
  <2>5. t > 1 \/ t = 1 \/ (t = 0 /\ u > 0) \/ (t = 0 /\ u = 0)
    BY <1>1
  <2> HIDE DEF first, then, e, m, Left
  <2> QED
    BY <2>1, <2>2, <2>3, <2>4, <2>5
<1> HIDE DEF first, then, e, m, Left
<1>7. PICK r \in Nat, h \in 0..9, q \in {1, 10, 100} :
         r + h * q = v /\ Hearing(m, then, Left(r, h, q))
  BY <1>6
<1>8. Hearing(e, ReadUnderThousand(v, z), Left(r, h, q))
  BY <1>2, <1>5, <1>7, HearingConcat
<1>9. Hearing(Ear(g, 0, 0, p, l), ReadUnderThousand(v, z), Ear(g, r, h, q, l))
  BY <1>8 DEF e, Left
<1> QED
  BY <1>7, <1>9 DEF GroupSays

Concatenates(f, n, seqs) ==
    /\ f[0] = <<>> /\ f[n] = FlattenSeq(seqs)
    /\ \A k \in 1..n : f[k] = f[k - 1] \o seqs[k]

\* The concatenation of a sequence of sequences is made one by one.
LEMMA FlattenIs ==
  ASSUME NEW S, NEW n \in Nat \ {0}, NEW seqs, seqs \in [1..n -> Seq(S)]
  PROVE  \E f \in [0..n -> Seq(S)] : Concatenates(f, n, seqs)
<1> DEFINE Built(f, k) == /\ f \in [0..k -> Seq(S)]
                          /\ f[0] = <<>>
                          /\ \A i \in 1..k : f[i] = f[i - 1] \o seqs[i]
           T == {k \in 0..n : \E f : Built(f, k)}
<1>1. 0 \in T
  <2> DEFINE f == [k \in 0..0 |-> <<>>]
  <2>1. Built(f, 0)
    <3>1. <<>> \in Seq(S)
      OBVIOUS
    <3> QED
      BY <3>1
  <2> HIDE DEF Built
  <2> QED
    BY <2>1
<1>2. ASSUME NEW k \in 0..(n - 1), k \in T PROVE k + 1 \in T
  <2>1. PICK f : Built(f, k)
    BY <1>2
  <2> DEFINE next == f[k] \o seqs[k + 1]
             h == [i \in 0..(k + 1) |-> IF i <= k THEN f[i] ELSE next]
  <2>2. next \in Seq(S)
    <3>1. f[k] \in Seq(S) /\ seqs[k + 1] \in Seq(S)
      BY <2>1
    <3> QED
      BY ONLY <3>1
  <2>3. h \in [0..(k + 1) -> Seq(S)] /\ h[0] = <<>>
    <3> HIDE DEF next
    <3> QED
      BY <2>1, <2>2
  <2>4. h[k + 1] = next /\ h[k] = f[k] /\ \A i \in 0..k : h[i] = f[i]
    <3>1. k + 1 \in 0..(k + 1) /\ ~ k + 1 <= k /\ k \in 0..(k + 1) /\ k <= k
      OBVIOUS
    <3> HIDE DEF next, Built
    <3> QED
      BY <3>1
  <2>5. ASSUME NEW i \in 1..(k + 1) PROVE h[i] = h[i - 1] \o seqs[i]
    <3> HIDE DEF h
    <3>1. CASE i <= k
      <4>1. i \in 1..k /\ i \in 0..k /\ i - 1 \in 0..k
        BY <3>1
      <4>2. f[i] = f[i - 1] \o seqs[i]
        BY <2>1, <4>1
      <4>3. h[i] = f[i] /\ h[i - 1] = f[i - 1]
        BY <2>4, <4>1
      <4> QED
        BY <4>2, <4>3
    <3>2. CASE i = k + 1
      <4>1. i - 1 = k
        BY <3>2
      <4>2. h[i] = next /\ h[i - 1] = f[k]
        BY <2>4, <3>2, <4>1
      <4> QED
        BY <3>2, <4>2
    <3>3. i <= k \/ i = k + 1
      OBVIOUS
    <3> QED
      BY ONLY <3>1, <3>2, <3>3
  <2> HIDE DEF h
  <2>6. Built(h, k + 1)
    BY <2>3, <2>5
  <2> HIDE DEF Built
  <2>7. k + 1 \in 0..n
    OBVIOUS
  <2> QED
    BY <2>6, <2>7
<1>3. n \in T
  <2> HIDE DEF T
  <2>1. n \in 0..n
    OBVIOUS
  <2> QED
    BY <1>1, <1>2, <2>1, Climb
<1>4. PICK f : Built(f, n)
  BY <1>3
<1> DEFINE Step(g) == [i \in 1..Len(seqs) |-> IF i = 1 THEN seqs[i] ELSE g[i - 1] \o seqs[i]]
           G == CHOOSE g : g = Step(g)
           f1 == [i \in 1..n |-> f[i]]
<1>5. Len(seqs) = n
  OBVIOUS
<1>6. FlattenSeq(seqs) = G[n]
  BY <1>5 DEF FlattenSeq
<1>7. f[1] = seqs[1]
  <2>1. 1 \in 1..n /\ 1 - 1 = 0
    OBVIOUS
  <2>2. f[1] = <<>> \o seqs[1] /\ seqs[1] \in Seq(S)
    BY <1>4, <2>1
  <2> HIDE DEF Built
  <2> QED
    BY <2>2
<1>8. f1 = Step(f1)
  <2>1. ASSUME NEW i \in 1..n
        PROVE  f1[i] = IF i = 1 THEN seqs[i] ELSE f1[i - 1] \o seqs[i]
    <3>1. CASE i = 1
      BY <1>7, <3>1
    <3>2. CASE i # 1
      <4>1. i - 1 \in 1..n /\ f1[i - 1] = f[i - 1] /\ f1[i] = f[i]
        BY <3>2
      <4>2. f[i] = f[i - 1] \o seqs[i]
        BY <1>4
      <4> QED
        BY <3>2, <4>1, <4>2
    <3> QED
      BY <3>1, <3>2
  <2>2. f1 = [i \in 1..n |-> f1[i]]
    OBVIOUS
  <2> HIDE DEF f1
  <2> QED
    BY <1>5, <2>1, <2>2
<1>9. G = Step(G)
  <2> HIDE DEF Step
  <2> QED
    BY <1>8
<1>10. \A i \in 1..n : G[i] = IF i = 1 THEN seqs[i] ELSE G[i - 1] \o seqs[i]
  <2> HIDE DEF G
  <2> QED
    BY <1>5, <1>9
<1> HIDE DEF G, Step
<1> DEFINE U == {k \in 0..(n - 1) : f[k + 1] = G[k + 1]}
<1>11. 0 \in U
  <2>1. G[1] = seqs[1]
    BY <1>10
  <2> QED
    BY <1>7, <2>1
<1>12. ASSUME NEW k \in 0..((n - 1) - 1), k \in U PROVE k + 1 \in U
  <2>1. k + 2 \in 1..n /\ k + 2 # 1 /\ (k + 2) - 1 = k + 1 /\ (k + 1) + 1 = k + 2
        /\ k + 1 \in 0..(n - 1)
    OBVIOUS
  <2>2. f[k + 2] = f[k + 1] \o seqs[k + 2] /\ G[k + 2] = G[k + 1] \o seqs[k + 2]
    BY <1>4, <1>10, <2>1
  <2>3. f[k + 1] = G[k + 1]
    BY <1>12
  <2> QED
    BY <2>1, <2>2, <2>3
<1>13. n - 1 \in U
  <2> HIDE DEF U
  <2>1. n - 1 \in Nat /\ n - 1 \in 0..(n - 1)
    OBVIOUS
  <2> QED
    BY <1>11, <1>12, <2>1, Climb
<1>14. f[n] = FlattenSeq(seqs)
  BY <1>6, <1>13
<1> QED
  BY <1>4, <1>14 DEF Concatenates

\* What the groups above k are, in the ear that has heard them.
HeardTo(groups, k) ==
    [i \in 1..MaxGroups |-> IF i > k /\ i <= Len(groups) THEN groups[i] ELSE 0]

IsAmount(groups) == /\ groups \in Seq(0..999)
                    /\ Len(groups) \in 1..MaxGroups
                    /\ groups[Len(groups)] # 0

\* The words of one group.
SaidGroup(groups, i) ==
    IF groups[i] = 0 THEN <<>>
    ELSE ReadUnderThousand(groups[i], i < Len(groups) /\ groups[i] < 100) \o GroupScales[i]

\* Somebody in whose ear is a group worth v, which has the scale i.
HoldsGroup(g, r, h, q, l, v, i) ==
    /\ g \in [1..MaxGroups -> Nat] /\ r \in Nat /\ h \in 0..9 /\ q \in {1, 10, 100}
    /\ l \in 0..MaxGroups /\ v \in 1..999 /\ r + h * q = v
    /\ i \in 2..MaxGroups /\ g[2] = 0

\* Who has heard a group and hears its scale.
ScaleSays(g, r, h, q, l, v, i) ==
    Hearing(Ear(g, r, h, q, l), GroupScales[i], Ear([g EXCEPT ![i] = v], 0, 0, 100, i))

LEMMA ScaleHeard ==
  ASSUME NEW g, NEW r, NEW h, NEW q, NEW l, NEW v, NEW i, HoldsGroup(g, r, h, q, l, v, i)
  PROVE  ScaleSays(g, r, h, q, l, v, i)
<1> DEFINE e == Ear(g, r, h, q, l)
<1>0. /\ g \in [1..MaxGroups -> Nat] /\ r \in Nat /\ h \in 0..9 /\ q \in {1, 10, 100}
      /\ l \in 0..MaxGroups /\ v \in 1..999 /\ i \in 2..MaxGroups /\ g[2] = 0
  BY DEF HoldsGroup
<1>1. e \in Ears
  BY <1>0, EarTyped
<1>2. e.groups = g /\ e.group = r /\ e.held = h /\ e.place = q /\ e.last = l
  BY DEF Ear
<1>3. ~ (r = 0 /\ h = 0)
  <2>1. r + h * q = v
    BY DEF HoldsGroup
  <2> QED
    BY <1>0, <2>1
<1>4. {"nghin", "trieu", "ty"} \subseteq Spoken /\ MaxGroups = 5
  BY DEF Spoken, MaxGroups
<1> DEFINE End(k) == Ear([g EXCEPT ![k] = v], 0, 0, 100, k)
<1> HIDE DEF e
<1>5. ASSUME NEW k \in 1..MaxGroups PROVE Closed(e, k) = End(k)
  <2>1. e.group + e.held * e.place = v
    <3>1. r + h * q = v
      BY DEF HoldsGroup
    <3> QED
      BY <1>2, <3>1
  <2> QED
    BY <1>2, <2>1 DEF Closed
<1>6. Places(e)
  BY <1>1, PlacesAre
<1>7. Hearing(e, <<"nghin">>, End(2))
  <2>1. Hearing(e, <<"nghin">>, Hear(e, "nghin"))
    BY <1>1, <1>4, HearingOne
  <2>2. Hear(e, "nghin") = Closed(e, 2) /\ Closed(e, 2) = End(2)
    BY <1>4, <1>5, <1>6 DEF Places
  <2> QED
    BY <2>1, <2>2
<1>8. Hearing(e, <<"trieu">>, End(3))
  <2>1. Hearing(e, <<"trieu">>, Hear(e, "trieu"))
    BY <1>1, <1>4, HearingOne
  <2>2. Hear(e, "trieu") = Closed(e, 3) /\ Closed(e, 3) = End(3)
    BY <1>4, <1>5, <1>6 DEF Places
  <2> QED
    BY <2>1, <2>2
<1>9. Hearing(e, <<"ty">>, End(4))
  <2>1. Hearing(e, <<"ty">>, Hear(e, "ty"))
    BY <1>1, <1>4, HearingOne
  <2>2. Hear(e, "ty") = Closed(e, 4) /\ Closed(e, 4) = End(4)
    BY <1>2, <1>3, <1>4, <1>5, <1>6 DEF Places
  <2> QED
    BY <2>1, <2>2
<1>10. Hearing(e, <<"nghin", "ty">>, End(5))
  <2> DEFINE g2 == [g EXCEPT ![2] = v]
             m == Ear(g2, 0, 0, 100, 2)
  <2>1. m = End(2)
    OBVIOUS
  <2>2. g2 \in [1..MaxGroups -> Nat] /\ g2[2] = v
    BY <1>0, <1>4
  <2>3. [[g2 EXCEPT ![5] = g2[2]] EXCEPT ![2] = 0] = [g EXCEPT ![5] = v]
    BY <1>0, <1>4
  <2> HIDE DEF g2
  <2>4. m \in Ears
    <3>1. 0 \in Nat /\ 0 \in 0..9 /\ 2 \in 0..MaxGroups
      BY <1>4
    <3> QED
      BY <2>2, <3>1, EarTyped
  <2>5. m.groups = g2 /\ m.group = 0 /\ m.held = 0 /\ m.place = 100 /\ m.last = 2
    BY DEF Ear
  <2> HIDE DEF m
  <2>6. Hear(m, "ty") = Raised(m)
    <3>1. Places(m)
      BY <2>4, PlacesAre
    <3> QED
      BY <2>5, <3>1 DEF Places
  <2>7. Raised(m) = End(5)
    BY <2>3, <2>5 DEF Raised
  <2>8. Hearing(m, <<"ty">>, Hear(m, "ty"))
    BY <1>4, <2>4, HearingOne
  <2>9. Hearing(e, <<"nghin">>, m) /\ Hearing(m, <<"ty">>, End(5))
    BY <1>7, <2>1, <2>6, <2>7, <2>8
  <2> HIDE DEF End
  <2> QED
    BY <1>4, <2>9, TwoHeard
<1>11. GroupScales[2] = <<"nghin">> /\ GroupScales[3] = <<"trieu">> /\ GroupScales[4] = <<"ty">>
       /\ GroupScales[5] = <<"nghin", "ty">>
  BY DEF GroupScales
<1>12. i \in {2, 3, 4, 5}
  BY <1>0, <1>4
<1>13. Hearing(e, GroupScales[i], End(i))
  <2> HIDE DEF End
  <2> QED
    BY <1>7, <1>8, <1>9, <1>10, <1>11, <1>12
<1> QED
  BY <1>13 DEF e, ScaleSays

HeardSoFar(groups) ==
    /\ Len(groups) \in 1..MaxGroups
    /\ \A k \in 1..Len(groups) : groups[k] \in 0..999
    /\ \A k \in 0..MaxGroups : HeardTo(groups, k) \in [1..MaxGroups -> Nat]
    /\ \A k \in 1..Len(groups) :
          HeardTo(groups, k - 1) = [HeardTo(groups, k) EXCEPT ![k] = groups[k]]
    /\ \A k \in 1..Len(groups) : groups[k] = 0 => HeardTo(groups, k - 1) = HeardTo(groups, k)
    /\ HeardTo(groups, Len(groups)) = [i \in 1..MaxGroups |-> 0]
    /\ HeardTo(groups, 0) = Padded(groups)
    /\ \A k \in 2..MaxGroups : HeardTo(groups, k)[2] = 0

LEMMA HeardToIs ==
  ASSUME NEW groups, IsAmount(groups)
  PROVE  HeardSoFar(groups)
<1>1. Len(groups) \in 1..MaxGroups /\ MaxGroups = 5 /\ Len(groups) \in Nat
      /\ \A k \in 1..Len(groups) : groups[k] \in 0..999
  <2>1. Len(groups) \in 1..MaxGroups /\ groups \in Seq(0..999)
    BY DEF IsAmount
  <2>2. \A k \in 1..Len(groups) : groups[k] \in 0..999
    <3> DEFINE D == 0..999
    <3>1. groups \in Seq(D)
      BY <2>1
    <3> HIDE DEF D
    <3>2. \A k \in 1..Len(groups) : groups[k] \in D
      BY <3>1
    <3> QED
      BY <3>2 DEF D
  <2> QED
    BY <2>1, <2>2 DEF MaxGroups
<1>2. ASSUME NEW k \in 0..MaxGroups PROVE HeardTo(groups, k) \in [1..MaxGroups -> Nat]
  <2>1. ASSUME NEW i \in 1..MaxGroups
        PROVE  (IF i > k /\ i <= Len(groups) THEN groups[i] ELSE 0) \in Nat
    <3>1. CASE i <= Len(groups)
      <4>1. i \in 1..Len(groups)
        BY <1>1, <3>1
      <4>2. groups[i] \in 0..999
        BY <1>1, <4>1
      <4>3. groups[i] \in Nat
        BY <4>2
      <4> QED
        BY <3>1, <4>3
    <3>2. CASE ~ i <= Len(groups)
      BY <3>2
    <3> QED
      BY <3>1, <3>2
  <2> QED
    BY <2>1 DEF HeardTo
<1>3. ASSUME NEW k \in 1..Len(groups)
      PROVE  HeardTo(groups, k - 1) = [HeardTo(groups, k) EXCEPT ![k] = groups[k]]
  <2>1. k \in 1..MaxGroups
    BY <1>1
  <2>2. ASSUME NEW i \in 1..MaxGroups
        PROVE  HeardTo(groups, k - 1)[i]
                 = IF i = k THEN groups[k] ELSE HeardTo(groups, k)[i]
    BY <1>1, <2>1 DEF HeardTo
  <2>3. HeardTo(groups, k - 1) = [i \in 1..MaxGroups |-> HeardTo(groups, k - 1)[i]]
        /\ HeardTo(groups, k) = [i \in 1..MaxGroups |-> HeardTo(groups, k)[i]]
    BY DEF HeardTo
  <2> DEFINE a == HeardTo(groups, k - 1)
             b == HeardTo(groups, k)
  <2> HIDE DEF a, b
  <2>4. a = [b EXCEPT ![k] = groups[k]]
    <3>1. DOMAIN a = 1..MaxGroups /\ DOMAIN b = 1..MaxGroups
          /\ a = [i \in 1..MaxGroups |-> a[i]]
      BY <2>3 DEF a, b
    <3>2. \A i \in 1..MaxGroups : a[i] = IF i = k THEN groups[k] ELSE b[i]
      BY <2>2 DEF a, b
    <3> QED
      BY <2>1, <3>1, <3>2
  <2> QED
    BY <2>4 DEF a, b
<1>4. ASSUME NEW k \in 1..Len(groups), groups[k] = 0
      PROVE  HeardTo(groups, k - 1) = HeardTo(groups, k)
  <2>1. ASSUME NEW i \in 1..MaxGroups
        PROVE  (IF i > k - 1 /\ i <= Len(groups) THEN groups[i] ELSE 0)
                 = (IF i > k /\ i <= Len(groups) THEN groups[i] ELSE 0)
    BY <1>1, <1>4
  <2> QED
    BY <2>1 DEF HeardTo
<1>5. HeardTo(groups, Len(groups)) = [i \in 1..MaxGroups |-> 0]
  <2>1. \A i \in 1..MaxGroups : ~(i > Len(groups) /\ i <= Len(groups))
    BY <1>1
  <2> QED
    BY <2>1 DEF HeardTo
<1>6. HeardTo(groups, 0) = Padded(groups)
  <2>1. \A i \in 1..MaxGroups : i > 0
    BY <1>1
  <2> QED
    BY <2>1 DEF HeardTo, Padded
<1>7. \A k \in 2..MaxGroups : HeardTo(groups, k)[2] = 0
  BY <1>1 DEF HeardTo
<1> QED
  BY <1>1, <1>2, <1>3, <1>4, <1>5, <1>6, <1>7 DEF HeardSoFar

LEMMA InRange ==
  ASSUME NEW n \in 1..MaxGroups
  PROVE  /\ n \in Nat /\ 1 \in 1..n /\ 1 \in 1..MaxGroups /\ 1 \in 0..MaxGroups /\ 1 - 1 = 0
         /\ \A i \in 1..n : i \in 0..MaxGroups /\ i \in 1..MaxGroups /\ (i < n \/ i = n)
         /\ \A i \in 2..n : i \in 1..n /\ i \in 2..MaxGroups /\ i \in 0..MaxGroups /\ i - 1 # n
BY DEF MaxGroups

\* Somebody who has heard the groups above k.
HasHeard(groups, words, k) ==
    \E p \in {1, 10, 100}, l \in 0..MaxGroups :
        /\ k = Len(groups) => p = 1
        /\ Hearing(Silence, words, Ear(HeardTo(groups, k), 0, 0, p, l))

\* The words of the next group, before its scale.
LEMMA WordsOfAGroup ==
  ASSUME NEW groups, IsAmount(groups), NEW i \in 1..Len(groups), groups[i] # 0,
         NEW p \in {1, 10, 100}, NEW l \in 0..MaxGroups, i = Len(groups) => p = 1
  PROVE  GroupSays(HeardTo(groups, i), p, l, groups[i],
                   ReadUnderThousand(groups[i], i < Len(groups) /\ groups[i] < 100))
<1>0. HeardSoFar(groups)
  BY HeardToIs
<1> DEFINE g == HeardTo(groups, i)
           v == groups[i]
           z == i < Len(groups) /\ groups[i] < 100
<1>1. v \in 1..999 /\ g \in [1..MaxGroups -> Nat]
  <2>1. Len(groups) \in 1..MaxGroups /\ v \in 0..999
    BY <1>0 DEF HeardSoFar
  <2>2. i \in 0..MaxGroups
    BY <2>1, InRange
  <2>3. v \in 1..999
    BY <2>1
  <2> QED
    BY <1>0, <2>2, <2>3 DEF HeardSoFar
<1>2. v >= 100 \/ z \/ p = 1
  <2>1. i < Len(groups) \/ i = Len(groups)
    <3>1. Len(groups) \in 1..MaxGroups
      BY <1>0 DEF HeardSoFar
    <3> QED
      BY <3>1, InRange
  <2>2. groups[i] < 100 \/ groups[i] >= 100
    <3> HIDE DEF v, g
    <3>1. v < 100 \/ v >= 100
      BY <1>1
    <3> QED
      BY <3>1 DEF v
  <2> QED
    BY <2>1, <2>2
<1>3. z \in BOOLEAN
  OBVIOUS
<1> HIDE DEF g, v, z
<1>4. MayBeSaid(g, p, l, v, z)
  BY <1>1, <1>2, <1>3 DEF MayBeSaid
<1>5. GroupSays(g, p, l, v, ReadUnderThousand(v, z))
  BY <1>4, GroupHeard
<1> QED
  BY <1>5 DEF g, v, z

LEMMA NextGroup ==
  ASSUME NEW groups, IsAmount(groups), NEW i \in 2..Len(groups), NEW words,
         HasHeard(groups, words, i)
  PROVE  HasHeard(groups, words \o SaidGroup(groups, i), i - 1)
<1>0. HeardSoFar(groups)
  BY HeardToIs
<1>1. PICK p \in {1, 10, 100}, l \in 0..MaxGroups :
         /\ i = Len(groups) => p = 1
         /\ Hearing(Silence, words, Ear(HeardTo(groups, i), 0, 0, p, l))
  BY DEF HasHeard
<1>2. i \in 1..Len(groups) /\ i \in 2..MaxGroups /\ i \in 0..MaxGroups
      /\ i - 1 # Len(groups) /\ Len(groups) \in Nat
  <2>1. Len(groups) \in 1..MaxGroups
    BY <1>0 DEF HeardSoFar
  <2> QED
    BY <2>1, InRange
<1> DEFINE g == HeardTo(groups, i)
           v == groups[i]
           e == Ear(g, 0, 0, p, l)
<1>3. g \in [1..MaxGroups -> Nat] /\ g[2] = 0
  BY <1>2, <1>0 DEF HeardSoFar
<1>4. e \in Ears
  <2>1. 0 \in Nat /\ 0 \in 0..9
    OBVIOUS
  <2> HIDE DEF g
  <2> QED
    BY <1>3, <2>1, EarTyped
<1>5. CASE groups[i] = 0
  <2>1. SaidGroup(groups, i) = <<>>
    BY <1>5 DEF SaidGroup
  <2>2. HeardTo(groups, i - 1) = g
    BY <1>2, <1>5, <1>0 DEF HeardSoFar
  <2>3. Hearing(Silence, words, e)
    BY <1>1
  <2> HIDE DEF g, e
  <2>4. Hearing(e, <<>>, e)
    BY <1>4, HearingNone
  <2>5. Hearing(Silence, words \o <<>>, e)
    BY <2>3, <2>4, HearingConcat
  <2>6. Hearing(Silence, words \o SaidGroup(groups, i), Ear(HeardTo(groups, i - 1), 0, 0, p, l))
    BY <2>1, <2>2, <2>5 DEF e
  <2> QED
    BY <1>2, <2>6 DEF HasHeard
<1>6. CASE groups[i] # 0
  <2> DEFINE read == ReadUnderThousand(groups[i], i < Len(groups) /\ groups[i] < 100)
             end == Ear([g EXCEPT ![i] = v], 0, 0, 100, i)
  <2>1. SaidGroup(groups, i) = read \o GroupScales[i]
    BY <1>6 DEF SaidGroup
  <2>2. PICK r \in Nat, h \in 0..9, q \in {1, 10, 100} :
           /\ r + h * q = groups[i]
           /\ Hearing(Ear(HeardTo(groups, i), 0, 0, p, l), read,
                      Ear(HeardTo(groups, i), r, h, q, l))
    <3> HIDE DEF g, v, e, end
    <3>4. GroupSays(HeardTo(groups, i), p, l, groups[i], read)
      BY <1>1, <1>2, <1>6, WordsOfAGroup
    <3> QED
      BY <3>4 DEF GroupSays
  <2>3. v \in 1..999
    <3>1. groups[i] \in 0..999
      BY <1>2, <1>0 DEF HeardSoFar
    <3> QED
      BY <1>6, <3>1
  <2>4. Hearing(Ear(g, r, h, q, l), GroupScales[i], end)
    <3>1. r + h * q = v
      BY <2>2
    <3> HIDE DEF g, v
    <3>2. HoldsGroup(g, r, h, q, l, v, i)
      BY <1>2, <1>3, <2>3, <3>1 DEF HoldsGroup
    <3>3. ScaleSays(g, r, h, q, l, v, i)
      BY <3>2, ScaleHeard
    <3> QED
      BY <3>3 DEF ScaleSays, end
  <2> HIDE DEF read
  <2>5. Hearing(e, read, Ear(g, r, h, q, l)) /\ Hearing(Silence, words, e)
    BY <1>1, <2>2
  <2> HIDE DEF e, end, g, v
  <2>6. Hearing(e, SaidGroup(groups, i), end)
    BY <2>1, <2>4, <2>5, HearingConcat
  <2>7. Hearing(Silence, words \o SaidGroup(groups, i), end)
    BY <2>5, <2>6, HearingConcat
  <2>8. end = Ear(HeardTo(groups, i - 1), 0, 0, 100, i)
    <3>1. HeardTo(groups, i - 1) = [HeardTo(groups, i) EXCEPT ![i] = groups[i]]
      BY <1>2, <1>0 DEF HeardSoFar
    <3> QED
      BY <3>1 DEF end, g, v
  <2> QED
    BY <1>2, <2>7, <2>8 DEF HasHeard
<1> QED
  BY <1>5, <1>6

LEMMA LastGroup ==
  ASSUME NEW groups, IsAmount(groups), NEW words, HasHeard(groups, words, 1)
  PROVE  \E end \in Ears : /\ Hearing(Silence, words \o SaidGroup(groups, 1), end)
                           /\ Close(end, 1).groups = Padded(groups)
<1>0. HeardSoFar(groups)
  BY HeardToIs
<1>1. PICK p \in {1, 10, 100}, l \in 0..MaxGroups :
         /\ 1 = Len(groups) => p = 1
         /\ Hearing(Silence, words, Ear(HeardTo(groups, 1), 0, 0, p, l))
  BY DEF HasHeard
<1>2. 1 \in 1..Len(groups) /\ 1 \in 1..MaxGroups /\ 1 \in 0..MaxGroups /\ 1 - 1 = 0
  <2>1. Len(groups) \in 1..MaxGroups
    BY <1>0 DEF HeardSoFar
  <2> QED
    BY <2>1, InRange
<1> DEFINE g == HeardTo(groups, 1)
           v == groups[1]
           e == Ear(g, 0, 0, p, l)
<1>3. g \in [1..MaxGroups -> Nat] /\ v \in 0..999
  BY <1>2, <1>0 DEF HeardSoFar
<1>4. [g EXCEPT ![1] = v] = Padded(groups)
  <2>1. HeardTo(groups, 1 - 1) = [HeardTo(groups, 1) EXCEPT ![1] = groups[1]]
    BY <1>2, <1>0 DEF HeardSoFar
  <2> QED
    BY <1>2, <2>1, <1>0 DEF HeardSoFar
<1>5. ASSUME NEW r \in Nat, NEW h \in 0..9, NEW q \in {1, 10, 100}, r + h * q = v
      PROVE  Ear(g, r, h, q, l) \in Ears /\ Close(Ear(g, r, h, q, l), 1).groups = Padded(groups)
  <2> DEFINE m == Ear(g, r, h, q, l)
  <2> HIDE DEF g, v
  <2>1. m \in Ears
    BY <1>3, EarTyped
  <2>2. m.groups = g /\ m.group = r /\ m.held = h /\ m.place = q
    BY DEF Ear
  <2> HIDE DEF m
  <2>3. Close(m, 1) = Closed(m, 1)
    BY <1>2, <2>1, CloseIs
  <2>4. Closed(m, 1).groups = [g EXCEPT ![1] = v]
    BY <1>5, <2>2 DEF Closed, Ear
  <2>5. m \in Ears /\ Close(m, 1).groups = Padded(groups)
    BY <1>4, <2>1, <2>3, <2>4
  <2> QED
    BY <2>5 DEF m
<1>6. CASE v = 0
  <2>1. SaidGroup(groups, 1) = <<>>
    BY <1>6 DEF SaidGroup
  <2>2. 0 \in Nat /\ 0 \in 0..9 /\ 0 + 0 * p = v
    BY <1>6
  <2>3. e \in Ears /\ Close(e, 1).groups = Padded(groups)
    <3> HIDE DEF g, v
    <3> QED
      BY <1>5, <2>2
  <2>4. Hearing(Silence, words, e)
    BY <1>1
  <2> HIDE DEF g, e, v
  <2>5. Hearing(e, <<>>, e)
    BY <2>3, HearingNone
  <2>6. Hearing(Silence, words \o SaidGroup(groups, 1), e)
    BY <2>1, <2>4, <2>5, HearingConcat
  <2> QED
    BY <2>3, <2>6
<1>7. CASE v # 0
  <2> DEFINE read == ReadUnderThousand(groups[1], 1 < Len(groups) /\ groups[1] < 100)
  <2>1. SaidGroup(groups, 1) = read \o <<>>
    <3>1. GroupScales[1] = <<>>
      BY DEF GroupScales
    <3> QED
      BY <1>7, <3>1 DEF SaidGroup
  <2>2. PICK r \in Nat, h \in 0..9, q \in {1, 10, 100} :
           /\ r + h * q = groups[1]
           /\ Hearing(Ear(HeardTo(groups, 1), 0, 0, p, l), read,
                      Ear(HeardTo(groups, 1), r, h, q, l))
    <3>1. groups[1] # 0
      BY <1>7
    <3> HIDE DEF g, v, e
    <3>4. GroupSays(HeardTo(groups, 1), p, l, groups[1], read)
      BY <1>1, <1>2, <3>1, WordsOfAGroup
    <3> QED
      BY <3>4 DEF GroupSays
  <2> DEFINE end == Ear(g, r, h, q, l)
  <2>3. end \in Ears /\ Close(end, 1).groups = Padded(groups)
    <3>1. r + h * q = v
      BY <2>2
    <3> HIDE DEF g, v
    <3> QED
      BY <1>5, <3>1
  <2> HIDE DEF read
  <2>4. Hearing(e, read, end) /\ Hearing(Silence, words, e)
    BY <1>1, <2>2
  <2> HIDE DEF e, end, g, v
  <2>5. Hearing(end, <<>>, end)
    BY <2>3, HearingNone
  <2>6. Hearing(e, SaidGroup(groups, 1), end)
    BY <2>1, <2>4, <2>5, HearingConcat
  <2>7. Hearing(Silence, words \o SaidGroup(groups, 1), end)
    BY <2>4, <2>6, HearingConcat
  <2> QED
    BY <2>3, <2>7
<1> QED
  BY <1>6, <1>7

LEMMA SilenceIs ==
  /\ Silence \in Ears
  /\ Silence = Ear([i \in 1..MaxGroups |-> 0], 0, 0, 1, 0)
BY DEF Silence, Ear, Ears, MaxGroups

LEMMA SaidTyped ==
  ASSUME NEW groups, IsAmount(groups), NEW i \in 1..Len(groups)
  PROVE  SaidGroup(groups, i) \in Seq(Spoken)
<1>0. HeardSoFar(groups)
  BY HeardToIs
<1>1. CASE groups[i] = 0
  <2>1. SaidGroup(groups, i) = <<>> /\ <<>> \in Seq(Spoken)
    BY <1>1 DEF SaidGroup
  <2> QED
    BY <2>1
<1>2. CASE groups[i] # 0
  <2> DEFINE read == ReadUnderThousand(groups[i], i < Len(groups) /\ groups[i] < 100)
  <2>1. Len(groups) \in 1..MaxGroups
    BY <1>0 DEF HeardSoFar
  <2>2. i \in 1..MaxGroups /\ i \in 0..MaxGroups
    BY <2>1, InRange
  <2>3. GroupSays(HeardTo(groups, i), 1, 0, groups[i], read)
    <3>1. 1 \in {1, 10, 100} /\ 0 \in 0..MaxGroups
      BY DEF MaxGroups
    <3> HIDE DEF read
    <3> QED
      BY <1>2, <3>1, WordsOfAGroup DEF read
  <2>4. read \in Seq(Spoken)
    <3> HIDE DEF read
    <3> QED
      BY <2>3 DEF GroupSays, Hearing
  <2>5. GroupScales[i] \in Seq(Spoken)
    <3>1. i \in {1, 2, 3, 4, 5}
      BY <2>2 DEF MaxGroups
    <3>2. /\ GroupScales[1] = <<>> /\ GroupScales[2] = <<"nghin">> /\ GroupScales[3] = <<"trieu">>
          /\ GroupScales[4] = <<"ty">> /\ GroupScales[5] = <<"nghin", "ty">>
      BY DEF GroupScales
    <3>3. "nghin" \in Spoken /\ "trieu" \in Spoken /\ "ty" \in Spoken
      BY DEF Spoken
    <3>4. /\ <<>> \in Seq(Spoken) /\ <<"nghin">> \in Seq(Spoken) /\ <<"trieu">> \in Seq(Spoken)
          /\ <<"ty">> \in Seq(Spoken) /\ <<"nghin", "ty">> \in Seq(Spoken)
      BY <3>3
    <3> QED
      BY <3>1, <3>2, <3>4
  <2>6. SaidGroup(groups, i) = read \o GroupScales[i]
    BY <1>2 DEF SaidGroup
  <2> HIDE DEF read
  <2>7. read \o GroupScales[i] \in Seq(Spoken)
    BY ONLY <2>4, <2>5
  <2> QED
    BY <2>6, <2>7
<1> QED
  BY <1>1, <1>2

LEMMA AmountsAre ==
  ASSUME NEW groups \in Amounts, groups # <<>>, ~(Len(groups) > MaxGroups)
  PROVE  IsAmount(groups)
<1>1. groups \in Seq(0..999) /\ groups[Len(groups)] # 0
  BY AmountsAssumption
<1>2. Len(groups) \in Nat /\ Len(groups) # 0
  <2> DEFINE D == 0..999
  <2>1. groups \in Seq(D) /\ groups # <<>>
    BY <1>1
  <2> HIDE DEF D
  <2> QED
    BY ONLY <2>1
<1>3. Len(groups) \in 1..MaxGroups
  <2>1. PICK m \in Nat : m = Len(groups)
    BY <1>2
  <2>2. m \in 1..MaxGroups
    BY <1>2, <2>1 DEF MaxGroups
  <2> QED
    BY <2>1, <2>2
<1> QED
  BY <1>1, <1>3 DEF IsAmount

\* An amount is heard as it was.
LEMMA AmountHeard ==
  ASSUME NEW groups, IsAmount(groups)
  PROVE  Heard(CurrencyWords(groups)) = Padded(groups)
<1> DEFINE n == Len(groups)
           seqs == [k \in 1..n |-> SaidGroup(groups, n + 1 - k)]
<1>0. HeardSoFar(groups)
  BY HeardToIs
<1>1. n \in 1..MaxGroups /\ n \in Nat \ {0}
  <2>1. Len(groups) \in 1..MaxGroups
    BY <1>0 DEF HeardSoFar
  <2> QED
    BY <2>1, InRange
<1>2. CurrencyWords(groups) = FlattenSeq(seqs)
  <2>1. groups # <<>>
    BY <1>1
  <2> QED
    BY <2>1 DEF CurrencyWords, SaidGroup
<1>3. seqs \in [1..n -> Seq(Spoken)]
  <2>1. ASSUME NEW k \in 1..n PROVE SaidGroup(groups, n + 1 - k) \in Seq(Spoken)
    <3> HIDE DEF n
    <3>1. n + 1 - k \in 1..n
      BY <1>1
    <3> QED
      BY <3>1, SaidTyped DEF n
  <2> HIDE DEF n
  <2> QED
    BY <2>1
<1>4. PICK f \in [0..n -> Seq(Spoken)] : Concatenates(f, n, seqs)
  <2> HIDE DEF n, seqs
  <2> QED
    BY <1>1, <1>3, FlattenIs
<1>5. \A k \in 1..n : seqs[k] = SaidGroup(groups, n + 1 - k)
  OBVIOUS
<1> DEFINE T == {k \in 0..(n - 1) : HasHeard(groups, f[k], n - k)}
<1>6. 0 \in T
  <2>1. Silence = Ear(HeardTo(groups, n - 0), 0, 0, 1, 0)
    <3>1. HeardTo(groups, n) = [i \in 1..MaxGroups |-> 0] /\ n - 0 = n
      BY <1>0, <1>1 DEF HeardSoFar
    <3> QED
      BY <3>1, SilenceIs
  <2>2. Hearing(Silence, f[0], Silence)
    BY <1>4, SilenceIs, HearingNone DEF Concatenates
  <2>3. 1 \in {1, 10, 100} /\ 0 \in 0..MaxGroups /\ 0 \in 0..(n - 1)
    BY <1>1 DEF MaxGroups
  <2> HIDE DEF n
  <2>4. HasHeard(groups, f[0], n - 0)
    BY <2>1, <2>2, <2>3 DEF HasHeard
  <2> QED
    BY <2>3, <2>4
<1>7. ASSUME NEW k \in 0..((n - 1) - 1), k \in T PROVE k + 1 \in T
  <2> HIDE DEF n, seqs
  <2>1. /\ k + 1 \in 1..n /\ k + 1 \in 0..(n - 1) /\ (k + 1) - 1 = k /\ n - k \in 2..n
        /\ n + 1 - (k + 1) = n - k /\ (n - k) - 1 = n - (k + 1)
    BY <1>1
  <2>2. HasHeard(groups, f[k], n - k)
    BY <1>7
  <2>3. f[k + 1] = f[k] \o SaidGroup(groups, n - k)
    BY <1>4, <1>5, <2>1 DEF Concatenates
  <2>4. HasHeard(groups, f[k] \o SaidGroup(groups, n - k), (n - k) - 1)
    BY <2>1, <2>2, NextGroup DEF n
  <2> QED
    BY <2>1, <2>3, <2>4
<1>8. n - 1 \in T
  <2> HIDE DEF T, n
  <2>1. n - 1 \in Nat /\ n - 1 \in 0..(n - 1)
    BY <1>1
  <2> QED
    BY <1>6, <1>7, <2>1, Climb
<1>9. HasHeard(groups, f[n - 1], 1)
  <2> HIDE DEF n
  <2>1. n - (n - 1) = 1
    BY <1>1
  <2> QED
    BY <1>8, <2>1
<1>10. f[n] = f[n - 1] \o SaidGroup(groups, 1)
  <2> HIDE DEF n, seqs
  <2>1. n \in 1..n /\ n + 1 - n = 1
    BY <1>1
  <2> QED
    BY <1>4, <1>5, <2>1 DEF Concatenates
<1>11. PICK end \in Ears : /\ Hearing(Silence, f[n], end)
                           /\ Close(end, 1).groups = Padded(groups)
  <2> HIDE DEF n, seqs
  <2> QED
    BY <1>9, <1>10, LastGroup
<1>12. FoldLeft(Hear, Silence, f[n]) = end
  BY <1>11, HeardIs
<1>13. CurrencyWords(groups) = f[n]
  BY <1>2, <1>4 DEF Concatenates
<1> HIDE DEF n, seqs
<1> QED
  BY <1>11, <1>12, <1>13 DEF Heard

LEMMA NothingHeard ==
  Heard(CurrencyWords(<<>>)) = Padded(<<>>)
<1>1. CurrencyWords(<<>>) = <<Digit(0)>>
  BY DEF CurrencyWords
<1> DEFINE none == [i \in 1..MaxGroups |-> 0]
           e == Ear(none, 0, 0, 1, 0)
<1>2. none \in [1..MaxGroups -> Nat] /\ 0 \in 0..MaxGroups /\ 1 \in 1..MaxGroups
      /\ 0 \in Nat /\ 0 \in 0..9 /\ 1 \in {1, 10, 100}
  BY DEF MaxGroups
<1>3. Padded(<<>>) = none
  BY DEF Padded
<1>4. [none EXCEPT ![1] = 0] = none
  BY <1>2
<1>5. Silence = e /\ e \in Ears
  BY SilenceIs
<1> HIDE DEF none
<1>6. Digit(0) \in Spoken \ PlaceWords /\ ValueOf[Digit(0)] = 0
  BY <1>2, DigitsArePlain, DigitsValue
<1>7. Hearing(Silence, <<Digit(0)>>, e)
  BY <1>2, <1>5, <1>6, DigitHeard
<1>8. FoldLeft(Hear, Silence, <<Digit(0)>>) = e
  <2> HIDE DEF e
  <2> QED
    BY <1>7, HeardIs
<1>9. e.groups = none /\ e.group = 0 /\ e.held = 0 /\ e.place = 1
  BY DEF Ear
<1> HIDE DEF e
<1>10. Close(e, 1) = Closed(e, 1)
  BY <1>2, <1>5, CloseIs
<1>11. Closed(e, 1).groups = [none EXCEPT ![1] = 0]
  BY <1>9 DEF Closed, Ear
<1> QED
  BY <1>1, <1>3, <1>4, <1>8, <1>10, <1>11 DEF Heard

Givens == [form: {"amount"}, groups: Amounts, whole: BOOLEAN, override: {"none", "blank", "words"}]
            \cup [form: {"passage"}, text: Passages, break: {"line", "paragraph"}]

\* Every supported amount is read back from its words as it was, and only what is no whole
\* number, is too large or has a blank review is refused (AmountsReadBack).
THEOREM AmountsAreReadBack == FormatSpec => []AmountsReadBack
<1> DEFINE Inv == given \in Givens /\ AmountsReadBack
<1>1. FormatInit => Inv
  BY DEF FormatInit, Givens, AmountsReadBack
<1>2. Inv /\ [FormatNext]_<<given, formatted>> => Inv'
  <2> SUFFICES ASSUME Inv, [FormatNext]_<<given, formatted>> PROVE Inv'
    OBVIOUS
  <2>1. CASE FormatCurrency
    <3>1. given' = given /\ given.form = "amount" /\ given.groups \in Amounts
      BY <2>1 DEF FormatCurrency, Givens
    <3> DEFINE refused == \/ ~given.whole
                          \/ Len(given.groups) > MaxGroups
                          \/ given.override = "blank"
               words == CurrencyWords(given.groups)
    <3>2. CASE refused
      <4>1. formatted' = Refused
        BY <2>1, <3>2 DEF FormatCurrency
      <4> QED
        BY <3>1, <3>2, <4>1 DEF AmountsReadBack
    <3>3. CASE ~refused
      <4>1. formatted' = [numeric |-> given.groups, generated |-> words,
                          reviewed |-> given.override]
        BY <2>1, <3>3 DEF FormatCurrency
      <4>2. formatted' # Refused /\ formatted'.generated = words
        <5> HIDE DEF words
        <5> QED
          BY <4>1 DEF Refused
      <4>3. Heard(words) = Padded(given.groups)
        <5>1. CASE given.groups = <<>>
          BY <5>1, NothingHeard
        <5>2. CASE given.groups # <<>>
          <6>1. given.groups \in Amounts /\ ~(Len(given.groups) > MaxGroups)
            BY <3>1, <3>3
          <6>2. IsAmount(given.groups)
            <7> HIDE DEF words, refused
            <7> QED
              BY <5>2, <6>1, AmountsAre
          <6> QED
            BY <6>2, AmountHeard
        <5> QED
          BY <5>1, <5>2
      <4> HIDE DEF words
      <4> QED
        BY <3>1, <4>2, <4>3 DEF AmountsReadBack
    <3> QED
      BY <3>2, <3>3
  <2>2. CASE FormatMultiline
    BY <2>2 DEF FormatMultiline, AmountsReadBack
  <2>3. CASE UNCHANGED <<given, formatted>>
    BY <2>3 DEF AmountsReadBack
  <2> QED
    BY <2>1, <2>2, <2>3 DEF FormatNext
<1> QED
  BY <1>1, <1>2, PTL DEF FormatSpec

--------------------------------------------------------------------------------
(* Passages.  A passage is read one character after the other, and after each of   *)
(* them the lines so far tell what was read so far.  First what is appended to.     *)

LEMMA AppendIs ==
  ASSUME NEW V, NEW s \in Seq(V), NEW x \in V
  PROVE  /\ Append(s, x) \in Seq(V) /\ Len(s) \in Nat /\ Len(Append(s, x)) = Len(s) + 1
         /\ Append(s, x) # <<>> /\ DOMAIN Append(s, x) = 1..(Len(s) + 1)
         /\ \A i \in 1..Len(s) : Append(s, x)[i] = s[i]
         /\ Append(s, x)[Len(s) + 1] = x
OBVIOUS

LEMMA FrontIs ==
  ASSUME NEW V, NEW s \in Seq(V), s # <<>>
  PROVE  /\ Len(s) \in Nat \ {0}
         /\ Front(s) \in Seq(V) /\ Len(Front(s)) = Len(s) - 1
         /\ \A i \in 1..(Len(s) - 1) : Front(s)[i] = s[i]
         /\ Last(s) \in V /\ Last(s) = s[Len(s)]
         /\ s = Append(Front(s), Last(s))
<1>1. Len(s) \in Nat \ {0} /\ DOMAIN s = 1..Len(s) /\ \A i \in 1..Len(s) : s[i] \in V
  OBVIOUS
<1>2. Front(s) = [i \in 1..(Len(s) - 1) |-> s[i]]
  BY <1>1 DEF Front
<1>3. Front(s) \in Seq(V) /\ Len(Front(s)) = Len(s) - 1
  BY <1>1, <1>2
<1>4. Last(s) \in V /\ Last(s) = s[Len(s)]
  BY <1>1 DEF Last
<1>5. s = Append(Front(s), Last(s))
  BY <1>1, <1>2, <1>3, <1>4
<1> QED
  BY <1>1, <1>2, <1>3, <1>4, <1>5

LEMMA FrontAppend ==
  ASSUME NEW V, NEW s \in Seq(V), NEW x \in V
  PROVE  Front(Append(s, x)) = s /\ Last(Append(s, x)) = x
<1> DEFINE t == Append(s, x)
<1>1. t \in Seq(V) /\ t # <<>> /\ Len(t) = Len(s) + 1 /\ t[Len(s) + 1] = x /\ Len(s) \in Nat
      /\ \A i \in 1..Len(s) : t[i] = s[i]
  BY AppendIs
<1> HIDE DEF t
<1>2. Front(t) \in Seq(V) /\ Len(Front(t)) = Len(s) /\ \A i \in 1..Len(s) : Front(t)[i] = s[i]
  BY <1>1, FrontIs
<1>3. Front(t) = s
  BY <1>2, SeqEqual
<1>4. Last(t) = x
  BY <1>1 DEF Last
<1> QED
  BY <1>3, <1>4 DEF t

\* One more sequence is concatenated at the end.
LEMMA FlatNext ==
  ASSUME NEW S, NEW n \in Nat, NEW f, NEW g, f \in [1..(n + 1) -> Seq(S)],
         g \in [1..n -> Seq(S)], \A i \in 1..n : g[i] = f[i]
  PROVE  /\ FlattenSeq(g) \in Seq(S) /\ f[n + 1] \in Seq(S)
         /\ FlattenSeq(f) = FlattenSeq(g) \o f[n + 1]
<1>1. n + 1 \in Nat \ {0} /\ n + 1 \in 1..(n + 1) /\ (n + 1) - 1 = n
  OBVIOUS
<1>2. PICK q \in [0..(n + 1) -> Seq(S)] : Concatenates(q, n + 1, f)
  <2> DEFINE m == n + 1
  <2>1. m \in Nat \ {0} /\ f \in [1..m -> Seq(S)]
    BY <1>1
  <2> HIDE DEF m
  <2>2. \E q \in [0..m -> Seq(S)] : Concatenates(q, m, f)
    BY <2>1, FlattenIs
  <2> QED
    BY <2>2 DEF m
<1>3. q[n + 1] = FlattenSeq(f) /\ q[n + 1] = q[n] \o f[n + 1]
  BY <1>1, <1>2 DEF Concatenates
<1>4. f[n + 1] \in Seq(S)
  BY <1>1
<1>5. CASE n = 0
  <2>1. g = <<>> /\ Len(g) = 0
    BY <1>5
  <2>2. FlattenSeq(g) = <<>> /\ <<>> \in Seq(S)
    BY <2>1 DEF FlattenSeq
  <2>3. q[n] = <<>>
    BY <1>2, <1>5 DEF Concatenates
  <2> QED
    BY <1>3, <1>4, <2>2, <2>3
<1>6. CASE n # 0
  <2>1. PICK p \in [0..n -> Seq(S)] : Concatenates(p, n, g)
    <3>1. n \in Nat \ {0}
      BY <1>6
    <3> QED
      BY <3>1, FlattenIs
  <2> DEFINE T == {k \in 0..n : p[k] = q[k]}
  <2>2. 0 \in T
    BY <1>2, <2>1 DEF Concatenates
  <2>3. ASSUME NEW k \in 0..(n - 1), k \in T PROVE k + 1 \in T
    <3>1. k + 1 \in 1..n /\ k + 1 \in 1..(n + 1) /\ k + 1 \in 0..n /\ (k + 1) - 1 = k
      OBVIOUS
    <3>2. p[k + 1] = p[k] \o g[k + 1]
      BY <2>1, <3>1 DEF Concatenates
    <3>3. q[k + 1] = q[k] \o f[k + 1]
      BY <1>2, <3>1 DEF Concatenates
    <3>4. p[k] = q[k] /\ g[k + 1] = f[k + 1]
      BY <2>3, <3>1
    <3> QED
      BY <3>1, <3>2, <3>3, <3>4
  <2>4. n \in T
    <3> HIDE DEF T
    <3>1. n \in 0..n
      OBVIOUS
    <3> QED
      BY <2>2, <2>3, <3>1, Climb
  <2>5. p[n] = FlattenSeq(g) /\ p[n] \in Seq(S) /\ p[n] = q[n]
    BY <2>1, <2>4 DEF Concatenates
  <2> QED
    BY <1>3, <1>4, <2>5
<1> QED
  BY <1>5, <1>6

LEMMA FlatNone ==
  ASSUME NEW g, g = <<>>
  PROVE  FlattenSeq(g) = <<>>
BY DEF FlattenSeq

\* A fold, step by step.

--------------------------------------------------------------------------------
(* Lines *)

Sheets(V) == {lines \in Seq(Seq(V)) : lines # <<>>}

LEMMA SheetsAre ==
  ASSUME NEW V, NEW lines \in Sheets(V)
  PROVE  /\ lines \in Seq(Seq(V)) /\ Len(lines) \in Nat \ {0}
         /\ Front(lines) \in Seq(Seq(V)) /\ Len(Front(lines)) = Len(lines) - 1
         /\ \A i \in 1..(Len(lines) - 1) : Front(lines)[i] = lines[i]
         /\ Last(lines) \in Seq(V) /\ Last(lines) = lines[Len(lines)]
<1> DEFINE W == Seq(V)
<1>1. lines \in Seq(W) /\ lines # <<>>
  BY DEF Sheets
<1> HIDE DEF W
<1>2. /\ Len(lines) \in Nat \ {0}
      /\ Front(lines) \in Seq(W) /\ Len(Front(lines)) = Len(lines) - 1
      /\ \A i \in 1..(Len(lines) - 1) : Front(lines)[i] = lines[i]
      /\ Last(lines) \in W /\ Last(lines) = lines[Len(lines)]
  BY <1>1, FrontIs
<1> QED
  BY <1>1, <1>2 DEF W

LEMMA SheetsGrow ==
  ASSUME NEW V, NEW lines, NEW line, lines \in Seq(Seq(V)), line \in Seq(V)
  PROVE  Append(lines, line) \in Sheets(V)
BY AppendIs DEF Sheets

\* What the next character does to the lines.
LEMMA SplitIs ==
  ASSUME NEW V, NEW lines \in Sheets(V), NEW c \in V
  PROVE  /\ Split(lines, c) \in Sheets(V)
         /\ c = "\n" => Split(lines, c) = Append(lines, <<>>)
         /\ c # "\n" => Split(lines, c) = Append(Front(lines), Append(Last(lines), c))
<1>1. CASE c = "\n"
  <2>1. Split(lines, c) = Append(lines, <<>>)
    BY <1>1 DEF Split
  <2>2. <<>> \in Seq(V) /\ lines \in Seq(Seq(V))
    BY SheetsAre
  <2>3. Append(lines, <<>>) \in Seq(Seq(V)) /\ Append(lines, <<>>) # <<>>
    BY <2>2, AppendIs
  <2> QED
    BY <1>1, <2>1, <2>3 DEF Sheets
<1>2. CASE c # "\n"
  <2>1. Split(lines, c) = Append(Front(lines), Append(Last(lines), c))
    BY <1>2 DEF Split
  <2>2. Append(Last(lines), c) \in Seq(V) /\ Front(lines) \in Seq(Seq(V))
    BY SheetsAre
  <2>3. Split(lines, c) \in Seq(Seq(V)) /\ Split(lines, c) # <<>>
    BY <2>1, <2>2, AppendIs
  <2> QED
    BY <1>2, <2>1, <2>3 DEF Sheets
<1> QED
  BY <1>1, <1>2

SplitHistory(h, n, seq) ==
    /\ h[0] = << <<>> >> /\ h[n] = Lines(seq)
    /\ \A k \in 1..n : h[k] = Split(h[k - 1], seq[k])

LEMMA SplitFold ==
  ASSUME NEW V, NEW n \in Nat, NEW seq, seq \in [1..n -> V]
  PROVE  \E h \in [0..n -> Sheets(V)] : SplitHistory(h, n, seq)
<1> DEFINE base == << <<>> >>
           D == Sheets(V)
           F == [q \in D \X (1..n) |-> Split(q[1], seq[q[2]])]
           Step(g) == [s \in SUBSET DOMAIN seq |->
                        IF s = {} THEN base ELSE Split(g[s \ {Max(s)}], seq[Max(s)])]
           G == CHOOSE g : g = Step(g)
<1>1. Lines(seq) = G[DOMAIN seq]
  BY DEF Lines, FoldLeft, MapThenFoldSet
<1>2. DOMAIN seq = 1..n
  OBVIOUS
<1>3. F \in [D \X (1..n) -> D]
  <2> SUFFICES ASSUME NEW q \in D \X (1..n) PROVE Split(q[1], seq[q[2]]) \in D
    OBVIOUS
  <2>1. q[1] \in D /\ seq[q[2]] \in V
    OBVIOUS
  <2> QED
    BY <2>1, SplitIs
<1>4. base \in D
  <2>1. <<>> \in Seq(V)
    OBVIOUS
  <2> DEFINE W == Seq(V)
  <2>2. << <<>> >> \in Seq(W) /\ << <<>> >> # <<>>
    BY <2>1
  <2> QED
    BY <2>2 DEF Sheets
<1>5. PICK g \in [SUBSET (1..n) -> D] : IsFold(g, n, base, F)
  <2> HIDE DEF F, D, base
  <2> QED
    BY <1>3, <1>4, FoldExists
<1>6. g = Step(g)
  <2> HIDE DEF D, base
  <2>1. ASSUME NEW s \in SUBSET (1..n)
        PROVE  g[s] = IF s = {} THEN base ELSE Split(g[s \ {Max(s)}], seq[Max(s)])
    <3>1. CASE s = {}
      BY <1>5, <3>1 DEF IsFold
    <3>2. CASE s # {}
      <4>1. Max(s) \in 1..n /\ s \ {Max(s)} \in SUBSET (1..n)
        BY <3>2, MaxIn
      <4>2. g[s] = F[<<g[s \ {Max(s)}], Max(s)>>]
        BY <1>5, <3>2 DEF IsFold
      <4>3. <<g[s \ {Max(s)}], Max(s)>> \in D \X (1..n)
        BY <4>1
      <4> QED
        BY <3>2, <4>2, <4>3
    <3> QED
      BY <3>1, <3>2
  <2> QED
    BY <2>1, <1>2
<1>7. G = Step(G)
  <2> HIDE DEF Step
  <2> QED
    BY <1>6
<1> HIDE DEF D, base
<1>8. ASSUME NEW s \in SUBSET (1..n)
      PROVE  G[s] = IF s = {} THEN base ELSE Split(G[s \ {Max(s)}], seq[Max(s)])
  <2> HIDE DEF G
  <2> QED
    BY <1>7, <1>2
<1> HIDE DEF G, Step
<1> DEFINE h == [k \in 0..n |-> G[1..k]]
<1>9. ASSUME NEW k \in 1..n PROVE h[k] = Split(h[k - 1], seq[k])
  <2>1. h[k] = G[1..k] /\ h[k - 1] = G[1..(k - 1)]
    OBVIOUS
  <2>2. 1..k \in SUBSET (1..n) /\ 1..k # {} /\ Max(1..k) = k /\ (1..k) \ {Max(1..k)} = 1..(k - 1)
    BY FirstOnes
  <2> QED
    BY <1>8, <2>1, <2>2
<1>10. h[0] = base /\ h[n] = Lines(seq)
  <2>1. 1..0 = {} /\ {} \in SUBSET (1..n) /\ h[0] = G[1..0] /\ h[n] = G[1..n]
    OBVIOUS
  <2> QED
    BY <1>1, <1>2, <1>8, <2>1
<1> DEFINE T == {k \in 0..n : h[k] \in D}
<1>11. DOMAIN h = 0..n /\ h = [k \in 0..n |-> h[k]]
  OBVIOUS
<1> HIDE DEF h
<1>12. 0 \in T
  BY <1>4, <1>10
<1>13. ASSUME NEW k \in 0..(n - 1), k \in T PROVE k + 1 \in T
  <2>1. k + 1 \in 1..n /\ k + 1 \in 0..n /\ (k + 1) - 1 = k
    OBVIOUS
  <2>2. h[k + 1] = Split(h[k], seq[k + 1]) /\ h[k] \in Sheets(V) /\ seq[k + 1] \in V
    BY <1>9, <1>13, <2>1 DEF D
  <2>3. h[k + 1] \in Sheets(V)
    BY <2>2, SplitIs
  <2> QED
    BY <2>1, <2>3 DEF D
<1>14. \A k \in 0..n : k \in T
  <2> HIDE DEF T
  <2> QED
    BY <1>12, <1>13, Climb
<1>15. h \in [0..n -> D]
  BY <1>11, <1>14
<1> QED
  BY <1>9, <1>10, <1>15 DEF SplitHistory, D, base

LEMMA LinesNext ==
  ASSUME NEW V, NEW text \in Seq(V), NEW c \in V
  PROVE  /\ Lines(text) \in Sheets(V)
         /\ Lines(Append(text, c)) = Split(Lines(text), c)
<1> DEFINE n == Len(text)
           longer == Append(text, c)
<1>1. n \in Nat /\ text \in [1..n -> V] /\ longer \in [1..(n + 1) -> V] /\ longer[n + 1] = c
      /\ \A i \in 1..n : longer[i] = text[i]
  <2>1. longer \in Seq(V) /\ Len(longer) = n + 1
    BY AppendIs
  <2>2. longer[n + 1] = c /\ \A i \in 1..n : longer[i] = text[i]
    BY AppendIs
  <2> HIDE DEF longer
  <2> QED
    BY <2>1, <2>2
<1> HIDE DEF n, longer
<1>2. PICK p \in [0..n -> Sheets(V)] : SplitHistory(p, n, text)
  BY <1>1, SplitFold
<1>3. PICK q \in [0..(n + 1) -> Sheets(V)] : SplitHistory(q, n + 1, longer)
  <2> DEFINE m == n + 1
  <2>1. m \in Nat /\ longer \in [1..m -> V]
    BY <1>1
  <2> HIDE DEF m
  <2>2. \E q \in [0..m -> Sheets(V)] : SplitHistory(q, m, longer)
    BY <2>1, SplitFold
  <2> QED
    BY <2>2 DEF m
<1> DEFINE T == {k \in 0..n : p[k] = q[k]}
<1>4. 0 \in T
  BY <1>1, <1>2, <1>3 DEF SplitHistory
<1>5. ASSUME NEW k \in 0..(n - 1), k \in T PROVE k + 1 \in T
  <2>1. k + 1 \in 1..n /\ k + 1 \in 1..(n + 1) /\ k + 1 \in 0..n /\ (k + 1) - 1 = k
    BY <1>1
  <2>2. p[k + 1] = Split(p[k], text[k + 1])
    BY <1>2, <2>1 DEF SplitHistory
  <2>3. q[k + 1] = Split(q[k], longer[k + 1])
    BY <1>3, <2>1 DEF SplitHistory
  <2>4. p[k] = q[k] /\ longer[k + 1] = text[k + 1]
    BY <1>1, <1>5, <2>1
  <2> QED
    BY <2>1, <2>2, <2>3, <2>4
<1>6. n \in T
  <2> HIDE DEF T
  <2>1. n \in 0..n
    BY <1>1
  <2> QED
    BY <1>1, <1>4, <1>5, <2>1, Climb
<1>7. p[n] = Lines(text) /\ p[n] = q[n] /\ p[n] \in Sheets(V)
  BY <1>1, <1>2, <1>6 DEF SplitHistory
<1>8. q[n + 1] = Lines(longer) /\ q[n + 1] = Split(q[n], longer[n + 1])
  <2>1. n + 1 \in 1..(n + 1) /\ (n + 1) - 1 = n
    BY <1>1
  <2> QED
    BY <1>3, <2>1 DEF SplitHistory
<1> QED
  BY <1>1, <1>7, <1>8 DEF longer

LEMMA LinesNone == Lines(<<>>) = << <<>> >>
<1> DEFINE seq == <<>>
<1>1. seq \in [1..0 -> {}] /\ 0 \in Nat
  OBVIOUS
<1> HIDE DEF seq
<1>2. PICK h : SplitHistory(h, 0, seq)
  BY <1>1, SplitFold
<1> QED
  BY <1>2 DEF SplitHistory, seq

LEMMA TwoOnes ==
  ASSUME NEW a, NEW c
  PROVE  <<a>> \o <<c>> = <<a, c>>
<1> DEFINE V == {a, c}
           left == <<a>> \o <<c>>
           right == <<a, c>>
<1>1. <<a>> \in Seq(V) /\ <<c>> \in Seq(V) /\ right \in Seq(V)
  OBVIOUS
<1>2. Len(<<a>>) = 1 /\ Len(<<c>>) = 1 /\ Len(right) = 2
  OBVIOUS
<1>3. left \in Seq(V) /\ Len(left) = 2 /\ left[1] = a /\ left[1 + 1] = c
  BY <1>1, <1>2, ConcatIs
<1>4. \A i \in 1..Len(left) : left[i] = right[i]
  BY <1>3
<1> HIDE DEF left, right
<1>5. left = right
  BY <1>1, <1>2, <1>3, <1>4, SeqEqual
<1> QED
  BY <1>5 DEF left, right

\* What holds of the empty sequence and goes on with one more element holds of every sequence.
LEMMA Grows ==
  ASSUME NEW V, NEW P, <<>> \in P, \A t \in Seq(V), c \in V : t \in P => Append(t, c) \in P,
         NEW s \in Seq(V)
  PROVE  s \in P
<1> DEFINE n == Len(s)
           S == {k \in 0..n : SubSeq(s, 1, k) \in P}
<1>1. n \in Nat /\ \A i \in 1..n : s[i] \in V
  OBVIOUS
<1>2. 0 \in S
  <2>1. SubSeq(s, 1, 0) = <<>> /\ 0 \in 0..n
    BY <1>1
  <2> QED
    BY <2>1
<1>3. ASSUME NEW k \in 0..(n - 1), k \in S PROVE k + 1 \in S
  <2>1. k + 1 \in 1..n /\ k + 1 \in 0..n /\ s[k + 1] \in V
    BY <1>1
  <2>2. SubSeq(s, 1, k) = [i \in 1..k |-> s[i]] /\ SubSeq(s, 1, k + 1) = [i \in 1..(k + 1) |-> s[i]]
    BY <1>1
  <2>3. SubSeq(s, 1, k) \in Seq(V) /\ Len(SubSeq(s, 1, k)) = k
    <3>1. \A i \in 1..k : s[i] \in V
      BY <1>1
    <3>2. k \in Nat
      OBVIOUS
    <3> QED
      BY <2>2, <3>1, <3>2
  <2>4. Append(SubSeq(s, 1, k), s[k + 1]) = SubSeq(s, 1, k + 1)
    BY <2>1, <2>2, <2>3
  <2>5. SubSeq(s, 1, k) \in P
    BY <1>3
  <2> HIDE DEF n
  <2> QED
    BY <2>1, <2>3, <2>4, <2>5
<1>4. n \in S
  <2> HIDE DEF S
  <2>1. n \in 0..n
    BY <1>1
  <2> QED
    BY <1>1, <1>2, <1>3, <2>1, Climb
<1>5. SubSeq(s, 1, n) = s
  OBVIOUS
<1> QED
  BY <1>4, <1>5

--------------------------------------------------------------------------------
(* Blanks *)

Chars == STRING \cup {"b", "\n", "/", "&", "<", "{", "amp;", "lt;", "#123;", "bare"}

\* What is left of a character of a line.
Squeezed(line, i) ==
    IF line[i] = "b" THEN <<>>
    ELSE IF i > 1 /\ line[i - 1] = "b" /\ \E j \in 1..(i - 1) : line[j] # "b"
         THEN <<"b", line[i]>> ELSE <<line[i]>>

\* The blank that is due when the line goes on.
Due(line) == IF ~IsBlank(line) /\ Last(line) = "b" THEN <<"b">> ELSE <<>>

LEMMA CharsAre ==
  /\ "b" \in Chars /\ "\n" \in Chars /\ "/" \in Chars /\ "&" \in Chars /\ "<" \in Chars
  /\ "{" \in Chars /\ "amp;" \in Chars /\ "lt;" \in Chars /\ "#123;" \in Chars
  /\ <<>> \in Seq(Chars) /\ <<"b">> \in Seq(Chars) /\ <<"/">> \in Seq(Chars)
  /\ STRING \subseteq Chars
<1>1. /\ "b" \in Chars /\ "\n" \in Chars /\ "/" \in Chars /\ "&" \in Chars /\ "<" \in Chars
      /\ "{" \in Chars /\ "amp;" \in Chars /\ "lt;" \in Chars /\ "#123;" \in Chars
      /\ STRING \subseteq Chars
  BY DEF Chars
<1>2. <<>> \in Seq(Chars)
  OBVIOUS
<1>3. \A c \in Chars : <<c>> \in Seq(Chars)
  OBVIOUS
<1> QED
  BY <1>1, <1>2, <1>3

LEMMA SqueezedTyped ==
  ASSUME NEW line \in Seq(Chars), NEW i \in 1..Len(line)
  PROVE  Squeezed(line, i) \in Seq(Chars)
<1>1. line[i] \in Chars
  OBVIOUS
<1>0. "b" \in Chars
  BY CharsAre
<1>2. <<>> \in Seq(Chars) /\ <<"b", line[i]>> \in Seq(Chars) /\ <<line[i]>> \in Seq(Chars)
  BY <1>0, <1>1
<1> QED
  BY <1>2 DEF Squeezed

LEMMA NormalizedNext ==
  ASSUME NEW line \in Seq(Chars), NEW c \in Chars
  PROVE  /\ Normalized(line) \in Seq(Chars)
         /\ c = "b" => Normalized(Append(line, c)) = Normalized(line)
         /\ c # "b" => Normalized(Append(line, c)) = Normalized(line) \o (Due(line) \o <<c>>)
<1> DEFINE n == Len(line)
           longer == Append(line, c)
           f == [i \in 1..(n + 1) |-> Squeezed(longer, i)]
           g == [i \in 1..n |-> Squeezed(line, i)]
<1>1. /\ n \in Nat /\ longer \in Seq(Chars) /\ Len(longer) = n + 1 /\ longer[n + 1] = c
      /\ \A i \in 1..n : longer[i] = line[i]
  BY AppendIs
<1>2. FlattenSeq(g) = Normalized(line)
  BY DEF Normalized, Squeezed
<1>3. FlattenSeq(f) = Normalized(longer)
  BY <1>1 DEF Normalized, Squeezed
<1> HIDE DEF n, longer
<1>4. \A i \in 1..n : g[i] = f[i]
  <2> SUFFICES ASSUME NEW i \in 1..n PROVE Squeezed(line, i) = Squeezed(longer, i)
    BY <1>1
  <2>1. line[i] = longer[i] /\ \A j \in 1..(i - 1) : line[j] = longer[j]
    BY <1>1
  <2>2. i > 1 => line[i - 1] = longer[i - 1]
    BY <1>1, <2>1
  <2> QED
    BY <2>1, <2>2 DEF Squeezed
<1>5. f \in [1..(n + 1) -> Seq(Chars)] /\ g \in [1..n -> Seq(Chars)]
  <2>1. \A i \in 1..(n + 1) : Squeezed(longer, i) \in Seq(Chars)
    BY <1>1, SqueezedTyped
  <2>2. \A i \in 1..n : Squeezed(line, i) \in Seq(Chars)
    BY <1>1, SqueezedTyped DEF n
  <2> QED
    BY <2>1, <2>2
<1>6. f[n + 1] = Squeezed(longer, n + 1)
  BY <1>1
<1> HIDE DEF f, g
<1>7. /\ Normalized(line) \in Seq(Chars) /\ f[n + 1] \in Seq(Chars)
      /\ Normalized(longer) = Normalized(line) \o f[n + 1]
  <2>1. /\ FlattenSeq(g) \in Seq(Chars) /\ f[n + 1] \in Seq(Chars)
        /\ FlattenSeq(f) = FlattenSeq(g) \o f[n + 1]
    BY <1>1, <1>4, <1>5, FlatNext
  <2> QED
    BY <1>2, <1>3, <2>1
<1>8. CASE c = "b"
  <2>1. Squeezed(longer, n + 1) = <<>>
    BY <1>1, <1>8 DEF Squeezed
  <2>2. Normalized(longer) = Normalized(line)
    BY <1>6, <1>7, <2>1
  <2> QED
    BY <1>7, <1>8, <2>2 DEF longer
<1>9. CASE c # "b"
  <2>1. n > 0 => Last(line) = longer[n]
    BY <1>1 DEF Last, n
  <2>2. (\E j \in 1..n : longer[j] # "b") <=> ~IsBlank(line)
    BY <1>1 DEF IsBlank, n
  <2>3. n + 1 > 1 <=> n > 0
    BY <1>1
  <2>4. (n + 1) - 1 = n
    BY <1>1
  <2>5. ~IsBlank(line) => n > 0
    BY <1>1, <2>2
  <2>6. Squeezed(longer, n + 1) = Due(line) \o <<c>>
    <3>1. CASE ~IsBlank(line) /\ Last(line) = "b"
      <4>1. Squeezed(longer, n + 1) = <<"b", c>>
        BY <1>1, <1>9, <2>1, <2>2, <2>3, <2>4, <2>5, <3>1 DEF Squeezed
      <4>2. Due(line) = <<"b">>
        BY <3>1 DEF Due
      <4>3. <<"b">> \o <<c>> = <<"b", c>>
        BY TwoOnes
      <4> QED
        BY <4>1, <4>2, <4>3
    <3>2. CASE ~(~IsBlank(line) /\ Last(line) = "b")
      <4>1. Squeezed(longer, n + 1) = <<c>>
        BY <1>1, <1>9, <2>1, <2>2, <2>3, <2>4, <2>5, <3>2 DEF Squeezed
      <4>2. Due(line) = <<>>
        BY <3>2 DEF Due
      <4>3. <<>> \o <<c>> = <<c>>
        OBVIOUS
      <4> QED
        BY <4>1, <4>2, <4>3
    <3> QED
      BY <3>1, <3>2
  <2>7. Normalized(longer) = Normalized(line) \o (Due(line) \o <<c>>)
    BY <1>6, <1>7, <2>6
  <2> QED
    BY <1>7, <1>9, <2>7 DEF longer
<1> QED
  BY <1>8, <1>9

LEMMA BlankNext ==
  ASSUME NEW line \in Seq(Chars), NEW c \in Chars
  PROVE  /\ IsBlank(Append(line, c)) <=> IsBlank(line) /\ c = "b"
         /\ Last(Append(line, c)) = c
         /\ IsBlank(<<>>) /\ Normalized(<<>>) = <<>>
<1> DEFINE n == Len(line)
           longer == Append(line, c)
<1>1. /\ n \in Nat /\ longer \in Seq(Chars) /\ Len(longer) = n + 1 /\ longer[n + 1] = c
      /\ \A i \in 1..n : longer[i] = line[i]
  BY AppendIs
<1> HIDE DEF longer
<1>2. IsBlank(longer) <=> IsBlank(line) /\ c = "b"
  <2>1. \A i \in 1..(n + 1) : i \in 1..n \/ i = n + 1
    BY <1>1
  <2> QED
    BY <1>1, <2>1 DEF IsBlank
<1>3. Last(longer) = c
  BY <1>1 DEF Last
<1>4. IsBlank(<<>>)
  BY DEF IsBlank
<1>5. Normalized(<<>>) = <<>>
  <2> DEFINE g == [i \in 1..Len(<<>>) |-> Squeezed(<<>>, i)]
  <2>1. Normalized(<<>>) = FlattenSeq(g)
    BY DEF Normalized, Squeezed
  <2>2. g = <<>>
    OBVIOUS
  <2> HIDE DEF g
  <2> QED
    BY <2>1, <2>2, FlatNone
<1> QED
  BY <1>2, <1>3, <1>4, <1>5 DEF longer

LEMMA NoneBesides ==
  ASSUME NEW V, NEW s \in Seq(V)
  PROVE  s \o <<>> = s /\ <<>> \o s = s /\ <<>> \in Seq(V)
BY ConcatEmptySeq, EmptySeq

Regroup(p, q, s, t) == p \o (q \o (s \o t)) = (p \o (q \o s)) \o t

LEMMA Regrouped ==
  ASSUME NEW V, NEW p \in Seq(V), NEW q \in Seq(V), NEW s \in Seq(V), NEW t \in Seq(V)
  PROVE  Regroup(p, q, s, t)
<1> DEFINE qs == q \o s
<1>1. qs \in Seq(V)
  BY ConcatIs
<1>2. q \o (s \o t) = qs \o t
  BY ConcatAssociative
<1> HIDE DEF qs
<1>3. (p \o qs) \o t = p \o (qs \o t)
  BY <1>1, ConcatAssociative
<1>4. p \o (q \o (s \o t)) = (p \o qs) \o t
  BY <1>2, <1>3
<1> QED
  BY <1>4 DEF qs, Regroup

LEMMA AppendAfter ==
  ASSUME NEW V, NEW s \in Seq(V), NEW t \in Seq(V), NEW c \in V
  PROVE  /\ s \o Append(t, c) = Append(s \o t, c)
         /\ Append(s, c) = s \o <<c>> /\ <<c>> \in Seq(V)
<1>1. <<c>> \in Seq(V)
  OBVIOUS
<1>2. \A q \in Seq(V) : Append(q, c) = q \o <<c>>
  OBVIOUS
<1>3. s \o t \in Seq(V) /\ (s \o t) \o <<c>> = s \o (t \o <<c>>)
  BY <1>1, ConcatIs, ConcatAssociative
<1> QED
  BY <1>1, <1>2, <1>3

LEMMA AppendOne ==
  ASSUME NEW V, NEW s \in Seq(V), NEW c \in V
  PROVE  Append(s, c) = s \o <<c>> /\ <<c>> \in Seq(V)
OBVIOUS

LEMMA BlankIs ==
  ASSUME NEW line \in Seq(Chars)
  PROVE  /\ Normalized(line) \in Seq(Chars)
         /\ Normalized(line) = <<>> <=> IsBlank(line)
         /\ IsBlank(line) /\ line # <<>> => Last(line) = "b"
<1> DEFINE P == {t \in Seq(Chars) : /\ Normalized(t) \in Seq(Chars)
                                    /\ Normalized(t) = <<>> <=> IsBlank(t)
                                    /\ IsBlank(t) /\ t # <<>> => Last(t) = "b"}
<1>0. <<>> \in Seq(Chars) /\ "b" \in Chars
  BY CharsAre
<1>1. <<>> \in P
  BY <1>0, BlankNext
<1>2. ASSUME NEW t \in Seq(Chars), NEW c \in Chars, t \in P PROVE Append(t, c) \in P
  <2>1. Append(t, c) \in Seq(Chars)
    BY AppendIs
  <2>2. CASE c = "b"
    <3>1. Normalized(Append(t, c)) = Normalized(t)
      BY <2>2, NormalizedNext
    <3>2. IsBlank(Append(t, c)) <=> IsBlank(t)
      BY <2>2, BlankNext
    <3>3. Last(Append(t, c)) = "b"
      BY <2>2, BlankNext
    <3> QED
      BY <1>2, <2>1, <3>1, <3>2, <3>3
  <2>3. CASE c # "b"
    <3>1. Normalized(Append(t, c)) = Normalized(t) \o (Due(t) \o <<c>>)
      BY <2>3, NormalizedNext
    <3>2. ~IsBlank(Append(t, c))
      BY <2>3, BlankNext
    <3>3. Due(t) \in Seq(Chars) /\ <<c>> \in Seq(Chars)
      BY <1>0, AppendAfter DEF Due
    <3>4. Due(t) \o <<c>> \in Seq(Chars) /\ Len(Due(t) \o <<c>>) = Len(Due(t)) + 1
      BY <3>3, ConcatIs
    <3>5. Len(Normalized(t)) \in Nat /\ Len(Due(t)) \in Nat /\ Normalized(t) \in Seq(Chars)
      BY <1>2, <3>3
    <3>6. /\ Normalized(Append(t, c)) \in Seq(Chars)
          /\ Len(Normalized(Append(t, c))) = Len(Normalized(t)) + Len(Due(t) \o <<c>>)
      BY <3>1, <3>4, <3>5, ConcatIs
    <3>7. Normalized(Append(t, c)) # <<>>
      BY <3>4, <3>5, <3>6
    <3> QED
      BY <2>1, <3>2, <3>6, <3>7
  <2> QED
    BY <2>2, <2>3
<1>3. line \in P
  <2> HIDE DEF P
  <2> QED
    BY <1>1, <1>2, Grows
<1> QED
  BY <1>3

\* What is between two lines of a paragraph.
Between(para, line) == IF ~IsBlank(para) /\ ~IsBlank(line) THEN <<"b">> ELSE <<>>

Joins(para, line) ==
    LET whole == Append(para, "b") \o line
    IN  /\ whole \in Seq(Chars)
        /\ IsBlank(whole) <=> IsBlank(para) /\ IsBlank(line)
        /\ Last(whole) = IF line = <<>> THEN "b" ELSE Last(line)
        /\ Normalized(whole) = Normalized(para) \o (Between(para, line) \o Normalized(line))

LEMMA JoinsNext ==
  ASSUME NEW para \in Seq(Chars), NEW t \in Seq(Chars), NEW c \in Chars, Joins(para, t)
  PROVE  Joins(para, Append(t, c))
<1> DEFINE whole == Append(para, "b") \o t
           longer == Append(t, c)
<1>0. <<>> \in Seq(Chars) /\ "b" \in Chars /\ <<c>> \in Seq(Chars)
  BY CharsAre, AppendAfter
<1>1. whole \in Seq(Chars) /\ (IsBlank(whole) <=> IsBlank(para) /\ IsBlank(t))
      /\ Last(whole) = (IF t = <<>> THEN "b" ELSE Last(t))
      /\ Normalized(whole) = Normalized(para) \o (Between(para, t) \o Normalized(t))
  BY DEF Joins
<1>2. Append(para, "b") \o longer = Append(whole, c)
  <2>1. Append(para, "b") \in Seq(Chars)
    BY <1>0, AppendIs
  <2> QED
    BY <2>1, AppendAfter
<1>3. longer \in Seq(Chars) /\ longer # <<>> /\ Append(whole, c) \in Seq(Chars)
  BY <1>1, AppendIs
<1>4. Normalized(para) \in Seq(Chars) /\ Normalized(t) \in Seq(Chars)
      /\ (Normalized(t) = <<>> <=> IsBlank(t))
      /\ (IsBlank(t) /\ t # <<>> => Last(t) = "b")
  BY BlankIs
<1>5. Between(para, t) \in Seq(Chars) /\ Between(para, longer) \in Seq(Chars)
      /\ Due(t) \in Seq(Chars)
  <2>1. <<"b">> \in Seq(Chars)
    BY <1>0, AppendAfter
  <2> QED
    BY <1>0, <2>1 DEF Between, Due
<1>6. /\ IsBlank(longer) <=> IsBlank(t) /\ c = "b"
      /\ Last(longer) = c
      /\ c = "b" => Normalized(longer) = Normalized(t)
      /\ c # "b" => Normalized(longer) = Normalized(t) \o (Due(t) \o <<c>>)
  BY BlankNext, NormalizedNext
<1> HIDE DEF longer, whole
<1>7. /\ IsBlank(Append(whole, c)) <=> IsBlank(whole) /\ c = "b"
      /\ Last(Append(whole, c)) = c
      /\ c = "b" => Normalized(Append(whole, c)) = Normalized(whole)
      /\ c # "b" => Normalized(Append(whole, c)) = Normalized(whole) \o (Due(whole) \o <<c>>)
  BY <1>1, BlankNext, NormalizedNext
<1>8. Normalized(Append(whole, c))
         = Normalized(para) \o (Between(para, longer) \o Normalized(longer))
  <2>1. CASE c = "b"
    <3>1. Between(para, longer) = Between(para, t)
      BY <1>6, <2>1 DEF Between
    <3> QED
      BY <1>1, <1>6, <1>7, <2>1, <3>1
  <2>2. CASE c # "b" /\ ~IsBlank(t)
    <3>1. Between(para, longer) = Between(para, t)
      BY <1>6, <2>2 DEF Between
    <3>2. t # <<>>
      BY <2>2, BlankNext
    <3>3. Due(whole) = Due(t)
      BY <1>1, <2>2, <3>2 DEF Due
    <3> DEFINE x == Due(t) \o <<c>>
               y == Between(para, t)
    <3>4. x \in Seq(Chars)
      BY <1>0, <1>5, ConcatIs
    <3>5. Normalized(Append(whole, c)) = (Normalized(para) \o (y \o Normalized(t))) \o x
      BY <1>1, <1>7, <2>2, <3>3
    <3>6. y \in Seq(Chars) /\ y \o Normalized(t) \in Seq(Chars)
      BY <1>4, <1>5, ConcatIs
    <3>7. Normalized(longer) = Normalized(t) \o x
      BY <1>6, <2>2
    <3> HIDE DEF x, y
    <3>8. (Normalized(para) \o (y \o Normalized(t))) \o x
             = Normalized(para) \o ((y \o Normalized(t)) \o x)
      <4> DEFINE z == y \o Normalized(t)
                 p == Normalized(para)
      <4>1. z \in Seq(Chars) /\ x \in Seq(Chars) /\ p \in Seq(Chars)
        BY <1>4, <3>4, <3>6
      <4> HIDE DEF z, p
      <4>2. (p \o z) \o x = p \o (z \o x)
        BY ONLY <4>1, ConcatAssociative
      <4> QED
        BY ONLY <4>2 DEF z, p
    <3>9. (y \o Normalized(t)) \o x = y \o (Normalized(t) \o x)
      BY <1>4, <3>4, <3>6, ConcatAssociative
    <3>10. y = Between(para, longer)
      BY <3>1 DEF y
    <3> QED
      BY <3>5, <3>7, <3>8, <3>9, <3>10
  <2>3. CASE c # "b" /\ IsBlank(t)
    <3>1. Between(para, t) = <<>> /\ Normalized(t) = <<>> /\ Due(t) = <<>>
      BY <1>4, <2>3 DEF Between, Due
    <3>2. Last(whole) = "b"
      BY <1>1, <1>4, <2>3
    <3>3. Due(whole) = Between(para, longer)
      BY <1>1, <1>6, <2>3, <3>2 DEF Due, Between
    <3>4. Normalized(longer) = <<c>>
      BY <1>0, <1>6, <2>3, <3>1, NoneBesides
    <3>5. Normalized(whole) = Normalized(para)
      BY <1>0, <1>1, <1>4, <3>1, NoneBesides
    <3> QED
      BY <1>7, <2>3, <3>3, <3>4, <3>5
  <2> QED
    BY <2>1, <2>2, <2>3
<1>9. /\ Append(para, "b") \o longer = Append(whole, c)
      /\ IsBlank(Append(whole, c)) <=> IsBlank(para) /\ IsBlank(longer)
      /\ Last(Append(whole, c)) = IF longer = <<>> THEN "b" ELSE Last(longer)
  BY <1>1, <1>2, <1>3, <1>6, <1>7
<1>10. Joins(para, longer)
  BY <1>3, <1>8, <1>9 DEF Joins
<1> QED
  BY <1>10 DEF longer

LEMMA JoinsAre ==
  ASSUME NEW para \in Seq(Chars), NEW line \in Seq(Chars)
  PROVE  Joins(para, line)
<1> DEFINE P == {t \in Seq(Chars) : Joins(para, t)}
<1>0. <<>> \in Seq(Chars) /\ "b" \in Chars
  BY CharsAre
<1>1. <<>> \in P
  <2>1. Append(para, "b") \in Seq(Chars)
    BY <1>0, AppendIs
  <2>2. Append(para, "b") \o <<>> = Append(para, "b")
    BY <2>1, NoneBesides
  <2>3. /\ IsBlank(Append(para, "b")) <=> IsBlank(para)
        /\ Last(Append(para, "b")) = "b"
        /\ Normalized(Append(para, "b")) = Normalized(para)
        /\ IsBlank(<<>>) /\ Normalized(<<>>) = <<>>
    BY <1>0, BlankNext, NormalizedNext
  <2>4. Between(para, <<>>) = <<>>
    BY <2>3 DEF Between
  <2>5. Normalized(para) \o (<<>> \o <<>>) = Normalized(para)
    BY <1>0, BlankIs, NoneBesides
  <2>6. Joins(para, <<>>)
    BY <2>1, <2>2, <2>3, <2>4, <2>5 DEF Joins
  <2> QED
    BY <1>0, <2>6
<1>2. ASSUME NEW t \in Seq(Chars), NEW c \in Chars, t \in P PROVE Append(t, c) \in P
  <2>1. Joins(para, Append(t, c))
    BY <1>2, JoinsNext
  <2> QED
    BY <2>1, AppendIs
<1>3. line \in P
  <2> HIDE DEF P
  <2> QED
    BY <1>1, <1>2, Grows
<1> QED
  BY <1>3

--------------------------------------------------------------------------------
(* What lines tell: their visible characters, and what is between two of them. *)

SomeVisible(lines) == \E m \in 1..Len(lines) : ~IsBlank(lines[m])

\* What comes before a line that follows others.
Lead(lines, break, line) ==
    IF IsBlank(line) \/ ~SomeVisible(lines) THEN <<>>
    ELSE IF break = "paragraph" /\ ~IsBlank(Last(lines)) THEN <<"b">> ELSE <<"/">>

LeadAt(lines, break, i) ==
    IF IsBlank(lines[i]) \/ \A m \in 1..(i - 1) : IsBlank(lines[m]) THEN <<>>
    ELSE IF break = "paragraph" /\ ~IsBlank(lines[i - 1]) THEN <<"b">> ELSE <<"/">>

Told(lines, break) ==
    FlattenSeq([i \in 1..Len(lines) |-> LeadAt(lines, break, i) \o Normalized(lines[i])])

LEMMA LeadTyped ==
  ASSUME NEW lines, NEW break, NEW line, NEW i
  PROVE  Lead(lines, break, line) \in Seq(Chars) /\ LeadAt(lines, break, i) \in Seq(Chars)
BY CharsAre DEF Lead, LeadAt

LEMMA LineTyped ==
  ASSUME NEW lines \in Seq(Seq(Chars)), NEW break, NEW i \in 1..Len(lines)
  PROVE  /\ lines[i] \in Seq(Chars) /\ Normalized(lines[i]) \in Seq(Chars)
         /\ LeadAt(lines, break, i) \o Normalized(lines[i]) \in Seq(Chars)
<1> DEFINE W == Seq(Chars)
<1>1. lines[i] \in W
  BY ElementOfSeq
<1>2. Normalized(lines[i]) \in W
  BY <1>1, BlankIs
<1> QED
  BY <1>1, <1>2, LeadTyped, ConcatIs

LEMMA VisibleNone ==
  ~SomeVisible(<<>>)
BY DEF SomeVisible

LEMMA VisibleNext ==
  ASSUME NEW lines \in Seq(Seq(Chars)), NEW line \in Seq(Chars)
  PROVE  SomeVisible(Append(lines, line)) <=> SomeVisible(lines) \/ ~IsBlank(line)
<1> DEFINE n == Len(lines)
           more == Append(lines, line)
<1>1. /\ n \in Nat /\ Len(more) = n + 1 /\ more[n + 1] = line
      /\ \A i \in 1..n : more[i] = lines[i]
  BY AppendIs
<1> HIDE DEF more
<1>2. SomeVisible(more) <=> SomeVisible(lines) \/ ~IsBlank(line)
  <2>1. ASSUME SomeVisible(more) PROVE SomeVisible(lines) \/ ~IsBlank(line)
    <3>1. PICK m \in 1..(n + 1) : ~IsBlank(more[m])
      BY <1>1, <2>1 DEF SomeVisible
    <3>2. m \in 1..n \/ m = n + 1
      BY <1>1
    <3> QED
      BY <1>1, <3>1, <3>2 DEF SomeVisible
  <2>2. ASSUME SomeVisible(lines) PROVE SomeVisible(more)
    <3>1. PICK m \in 1..n : ~IsBlank(lines[m])
      BY <2>2 DEF SomeVisible
    <3>2. m \in 1..(n + 1) /\ more[m] = lines[m]
      BY <1>1
    <3> QED
      BY <1>1, <3>1, <3>2 DEF SomeVisible
  <2>3. ASSUME ~IsBlank(line) PROVE SomeVisible(more)
    <3>1. n + 1 \in 1..(n + 1)
      BY <1>1
    <3> QED
      BY <1>1, <2>3, <3>1 DEF SomeVisible
  <2> QED
    BY <2>1, <2>2, <2>3
<1> QED
  BY <1>2 DEF more

LEMMA ToldNext ==
  ASSUME NEW lines \in Seq(Seq(Chars)), NEW line \in Seq(Chars), NEW break
  PROVE  /\ Told(lines, break) \in Seq(Chars)
         /\ Told(Append(lines, line), break)
               = Told(lines, break) \o (Lead(lines, break, line) \o Normalized(line))
<1> DEFINE n == Len(lines)
           more == Append(lines, line)
           f == [i \in 1..(n + 1) |-> LeadAt(more, break, i) \o Normalized(more[i])]
           g == [i \in 1..n |-> LeadAt(lines, break, i) \o Normalized(lines[i])]
<1>1. /\ n \in Nat /\ more \in Seq(Seq(Chars)) /\ Len(more) = n + 1 /\ more[n + 1] = line
      /\ \A i \in 1..n : more[i] = lines[i]
  BY AppendIs
<1>2. FlattenSeq(g) = Told(lines, break)
  BY DEF Told
<1>3. FlattenSeq(f) = Told(more, break)
  BY <1>1 DEF Told
<1> HIDE DEF more
<1>4. ASSUME NEW i \in 1..n PROVE LeadAt(lines, break, i) = LeadAt(more, break, i)
  <2>1. lines[i] = more[i] /\ \A j \in 1..(i - 1) : lines[j] = more[j]
    BY <1>1
  <2>2. CASE \A j \in 1..(i - 1) : IsBlank(lines[j])
    BY <2>1, <2>2 DEF LeadAt
  <2>3. CASE ~\A j \in 1..(i - 1) : IsBlank(lines[j])
    <3>1. i - 1 \in 1..(i - 1)
      <4> PICK j \in 1..(i - 1) : TRUE
        BY <2>3
      <4> QED
        OBVIOUS
    <3>2. lines[i - 1] = more[i - 1]
      BY <2>1, <3>1
    <3> QED
      BY <2>1, <2>3, <3>2 DEF LeadAt
  <2> QED
    BY <2>2, <2>3
<1>5. LeadAt(more, break, n + 1) = Lead(lines, break, line)
  <2>1. (n + 1) - 1 = n
    BY <1>1
  <2>2. (\A m \in 1..n : IsBlank(more[m])) <=> ~SomeVisible(lines)
    BY <1>1 DEF SomeVisible
  <2>3. ASSUME SomeVisible(lines) PROVE more[n] = Last(lines)
    <3>1. n \in 1..n
      BY <1>1, <2>3 DEF SomeVisible
    <3> QED
      BY <1>1, <3>1 DEF Last
  <2> QED
    BY <1>1, <2>1, <2>2, <2>3 DEF LeadAt, Lead
<1>6. f \in [1..(n + 1) -> Seq(Chars)] /\ g \in [1..n -> Seq(Chars)]
  <2>1. \A i \in 1..(n + 1) : LeadAt(more, break, i) \o Normalized(more[i]) \in Seq(Chars)
    BY <1>1, LineTyped
  <2>2. \A i \in 1..n : LeadAt(lines, break, i) \o Normalized(lines[i]) \in Seq(Chars)
    BY LineTyped
  <2>3. \A i \in 1..(n + 1) : f[i] \in Seq(Chars)
    BY <2>1
  <2>4. \A i \in 1..n : g[i] \in Seq(Chars)
    BY <2>2
  <2>5. f = [i \in 1..(n + 1) |-> f[i]] /\ g = [i \in 1..n |-> g[i]]
    OBVIOUS
  <2> HIDE DEF f, g
  <2> QED
    BY <2>3, <2>4, <2>5
<1>7. ASSUME NEW i \in 1..n PROVE g[i] = f[i]
  <2>1. i \in 1..(n + 1) /\ lines[i] = more[i]
    BY <1>1
  <2>2. f[i] = LeadAt(more, break, i) \o Normalized(more[i])
    BY <2>1
  <2>3. g[i] = LeadAt(lines, break, i) \o Normalized(lines[i])
    OBVIOUS
  <2> HIDE DEF f, g
  <2> QED
    BY <1>4, <2>1, <2>2, <2>3
<1>8. f[n + 1] = Lead(lines, break, line) \o Normalized(line)
  <2>1. n + 1 \in 1..(n + 1)
    BY <1>1
  <2>2. f[n + 1] = LeadAt(more, break, n + 1) \o Normalized(more[n + 1])
    BY <2>1
  <2> HIDE DEF f
  <2> QED
    BY <1>1, <1>5, <2>2
<1> HIDE DEF n, f, g
<1>9. /\ FlattenSeq(g) \in Seq(Chars)
      /\ FlattenSeq(f) = FlattenSeq(g) \o f[n + 1]
  BY <1>1, <1>6, <1>7, FlatNext
<1> QED
  BY <1>2, <1>3, <1>8, <1>9 DEF more

LEMMA ToldNone ==
  ASSUME NEW break
  PROVE  Told(<<>>, break) = <<>>
<1> DEFINE none == <<>>
           g == [i \in 1..Len(none) |-> LeadAt(none, break, i) \o Normalized(none[i])]
<1>1. g = <<>>
  OBVIOUS
<1>2. Told(none, break) = FlattenSeq(g)
  BY DEF Told
<1> HIDE DEF g
<1>3. FlattenSeq(g) = <<>>
  BY <1>1, FlatNone
<1> QED
  BY <1>2, <1>3

\* Segments are joined the way lines tell line by line.
LEMMA JoinedIs ==
  ASSUME NEW lines \in Seq(Seq(Chars))
  PROVE  Joined([n \in 1..Len(lines) |-> Normalized(lines[n])]) = Told(lines, "line")
<1> DEFINE k == Len(lines)
           segments == [n \in 1..k |-> Normalized(lines[n])]
           f == [n \in 1..k |-> IF segments[n] # <<>> /\ \E m \in 1..(n - 1) : segments[m] # <<>>
                                THEN <<"/">> \o segments[n] ELSE segments[n]]
           g == [i \in 1..k |-> LeadAt(lines, "line", i) \o Normalized(lines[i])]
<1>1. k \in Nat /\ Len(segments) = k
  OBVIOUS
<1>2. Joined(segments) = FlattenSeq(f)
  BY <1>1 DEF Joined
<1>3. Told(lines, "line") = FlattenSeq(g)
  BY DEF Told
<1>4. ASSUME NEW n \in 1..k PROVE f[n] = g[n]
  <2>1. \A m \in 1..n : /\ m \in 1..k /\ segments[m] = Normalized(lines[m])
                        /\ segments[m] # <<>> <=> ~IsBlank(lines[m])
    <3> SUFFICES ASSUME NEW m \in 1..n
                 PROVE  /\ m \in 1..k /\ segments[m] = Normalized(lines[m])
                        /\ segments[m] # <<>> <=> ~IsBlank(lines[m])
      OBVIOUS
    <3>1. m \in 1..k
      BY <1>1
    <3>2. lines[m] \in Seq(Chars)
      BY <3>1, LineTyped
    <3> QED
      BY <3>1, <3>2, BlankIs
  <2>2. n \in 1..n /\ \A m \in 1..(n - 1) : m \in 1..n
    BY <1>1
  <2>3. Normalized(lines[n]) \in Seq(Chars)
    BY LineTyped
  <2>4. <<>> \o Normalized(lines[n]) = Normalized(lines[n])
    BY <2>3, NoneBesides
  <2>5. f[n] = IF segments[n] # <<>> /\ \E m \in 1..(n - 1) : segments[m] # <<>>
               THEN <<"/">> \o segments[n] ELSE segments[n]
    OBVIOUS
  <2>6. g[n] = LeadAt(lines, "line", n) \o Normalized(lines[n])
    OBVIOUS
  <2> HIDE DEF f, g, segments
  <2> QED
    BY <2>1, <2>2, <2>4, <2>5, <2>6 DEF LeadAt
<1>5. f = g
  <2>1. f = [n \in 1..k |-> f[n]] /\ g = [n \in 1..k |-> g[n]]
    OBVIOUS
  <2> HIDE DEF f, g, k
  <2> QED
    BY <1>4, <2>1
<1> HIDE DEF f, g
<1> QED
  BY <1>2, <1>3, <1>5

--------------------------------------------------------------------------------
(* Paragraphs *)

JoinHistory(h, lines, paragraphs) ==
    /\ h[0] = <<>> /\ h[Len(lines)] = paragraphs
    /\ \A k \in 1..Len(lines) : h[k] = Join(lines, h[k - 1], k)

ParagraphsOf(lines) ==
    FoldLeftDomain(LAMBDA paragraphs, i : Join(lines, paragraphs, i), <<>>, lines)

LEMMA ParagraphsAre ==
  ASSUME NEW text
  PROVE  Paragraphs(text) = ParagraphsOf(Lines(text))
BY DEF Paragraphs, ParagraphsOf

\* Every line keeps what there is a sequence of sequences of characters.
LEMMA JoinTyped ==
  ASSUME NEW lines \in Sheets(Chars), NEW paragraphs \in Seq(Seq(Chars)), NEW i \in 1..Len(lines)
  PROVE  /\ Join(lines, paragraphs, i) \in Seq(Seq(Chars))
         /\ i \in Gaps(lines) => Join(lines, paragraphs, i) = paragraphs
         /\ i \notin Gaps(lines) /\ (paragraphs = <<>> \/ (i - 1) \in Gaps(lines)) =>
               Join(lines, paragraphs, i) = Append(paragraphs, lines[i])
         /\ i \notin Gaps(lines) /\ paragraphs # <<>> /\ (i - 1) \notin Gaps(lines) =>
               Join(lines, paragraphs, i)
                  = Append(Front(paragraphs), Append(Last(paragraphs), "b") \o lines[i])
<1>1. lines \in Seq(Seq(Chars)) /\ lines[i] \in Seq(Chars)
  BY SheetsAre, LineTyped
<1>2. CASE i \in Gaps(lines)
  <2>1. Join(lines, paragraphs, i) = paragraphs
    BY <1>2 DEF Join
  <2> QED
    BY <1>2, <2>1
<1>3. CASE i \notin Gaps(lines) /\ (paragraphs = <<>> \/ (i - 1) \in Gaps(lines))
  <2>1. Join(lines, paragraphs, i) = Append(paragraphs, lines[i])
    BY <1>3 DEF Join
  <2>2. Append(paragraphs, lines[i]) \in Seq(Seq(Chars))
    BY <1>1, AppendIs
  <2> QED
    BY <1>3, <2>1, <2>2
<1>4. CASE i \notin Gaps(lines) /\ paragraphs # <<>> /\ (i - 1) \notin Gaps(lines)
  <2>1. Front(paragraphs) \in Seq(Seq(Chars)) /\ Last(paragraphs) \in Seq(Chars)
    BY <1>4, FrontIs
  <2>2. Join(lines, paragraphs, i)
           = Append(Front(paragraphs), (Last(paragraphs) \o <<"b">>) \o lines[i])
    BY <1>4 DEF Join
  <2>3. Last(paragraphs) \o <<"b">> = Append(Last(paragraphs), "b")
    BY <2>1, CharsAre, AppendOne
  <2>4. Joins(Last(paragraphs), lines[i])
    BY <1>1, <2>1, JoinsAre
  <2>5. Append(Last(paragraphs), "b") \o lines[i] \in Seq(Chars)
    BY <2>4 DEF Joins
  <2>6. Append(Front(paragraphs), Append(Last(paragraphs), "b") \o lines[i]) \in Seq(Seq(Chars))
    BY <2>1, <2>5, AppendIs
  <2> QED
    BY <1>4, <2>2, <2>3, <2>6
<1> QED
  BY <1>2, <1>3, <1>4

\* The paragraphs that the first k lines have made.
Progress(lines, paragraphs, k) ==
    LET first == SubSeq(lines, 1, k)
    IN  /\ paragraphs \in Seq(Seq(Chars))
        /\ k = 0 <=> paragraphs = <<>>
        /\ Told(paragraphs, "line") = Told(first, "paragraph")
        /\ SomeVisible(paragraphs) <=> SomeVisible(first)
        /\ k \in 1..(Len(lines) - 1) \ Gaps(lines) =>
              (IsBlank(Last(paragraphs)) <=> IsBlank(lines[k]))

LEMMA FirstLines ==
  ASSUME NEW lines \in Sheets(Chars), NEW k \in 0..(Len(lines) - 1)
  PROVE  /\ SubSeq(lines, 1, k) \in Seq(Seq(Chars))
         /\ SubSeq(lines, 1, k + 1) = Append(SubSeq(lines, 1, k), lines[k + 1])
         /\ lines[k + 1] \in Seq(Chars) /\ k + 1 \in 1..Len(lines)
         /\ k > 0 => Last(SubSeq(lines, 1, k)) = lines[k]
<1> DEFINE W == Seq(Chars)
<1>1. lines \in Seq(W) /\ Len(lines) \in Nat \ {0}
  BY SheetsAre
<1> HIDE DEF W
<1>2. k \in Nat /\ k + 1 \in 1..Len(lines) /\ \A i \in 1..Len(lines) : lines[i] \in W
  BY <1>1
<1>3. SubSeq(lines, 1, k) = [i \in 1..k |-> lines[i]]
      /\ SubSeq(lines, 1, k + 1) = [i \in 1..(k + 1) |-> lines[i]]
  BY <1>1, <1>2
<1>4. SubSeq(lines, 1, k) \in Seq(W) /\ Len(SubSeq(lines, 1, k)) = k
  <2>1. \A i \in 1..k : lines[i] \in W
    BY <1>1, <1>2
  <2> QED
    BY <1>2, <1>3, <2>1
<1>5. SubSeq(lines, 1, k + 1) = Append(SubSeq(lines, 1, k), lines[k + 1])
  BY <1>2, <1>3, <1>4
<1>6. k > 0 => Last(SubSeq(lines, 1, k)) = lines[k]
  BY <1>2, <1>3, <1>4 DEF Last
<1>7. lines[k + 1] \in W
  BY <1>2
<1> QED
  BY <1>2, <1>4, <1>5, <1>6, <1>7 DEF W

\* A line of a gap.
LEMMA GapStep ==
  ASSUME NEW lines \in Sheets(Chars), NEW k \in 0..(Len(lines) - 1), NEW paragraphs,
         Progress(lines, paragraphs, k), k + 1 \in Gaps(lines)
  PROVE  Progress(lines, Join(lines, paragraphs, k + 1), k + 1)
<1> DEFINE first == SubSeq(lines, 1, k)
           line == lines[k + 1]
<1>1. /\ first \in Seq(Seq(Chars)) /\ line \in Seq(Chars) /\ k + 1 \in 1..Len(lines)
      /\ SubSeq(lines, 1, k + 1) = Append(first, line) /\ k \in Nat /\ Len(lines) \in Nat
  <2>1. k \in Nat /\ Len(lines) \in Nat
    BY SheetsAre
  <2> QED
    BY <2>1, FirstLines
<1>2. /\ paragraphs \in Seq(Seq(Chars)) /\ (k = 0 <=> paragraphs = <<>>)
      /\ Told(paragraphs, "line") = Told(first, "paragraph")
      /\ SomeVisible(paragraphs) <=> SomeVisible(first)
  BY DEF Progress
<1>3. k + 1 \in 2..(Len(lines) - 1) /\ IsBlank(line)
  BY DEF Gaps
<1>4. Join(lines, paragraphs, k + 1) = paragraphs
  BY DEF Join
<1> HIDE DEF first, line
<1>5. Lead(first, "paragraph", line) = <<>> /\ Normalized(line) = <<>>
  BY <1>1, <1>3, BlankIs DEF Lead
<1>6. Told(Append(first, line), "paragraph") = Told(first, "paragraph")
  <2>1. Told(first, "paragraph") \in Seq(Chars)
        /\ Told(Append(first, line), "paragraph") = Told(first, "paragraph") \o (<<>> \o <<>>)
    BY <1>1, <1>5, ToldNext
  <2>2. <<>> \o <<>> = <<>>
    BY CharsAre, NoneBesides
  <2> QED
    BY <2>1, <2>2, NoneBesides
<1>7. SomeVisible(Append(first, line)) <=> SomeVisible(first)
  BY <1>1, <1>3, VisibleNext
<1>8. k + 1 # 0 /\ paragraphs # <<>>
  BY <1>1, <1>2, <1>3
<1> QED
  BY <1>1, <1>2, <1>4, <1>6, <1>7, <1>8 DEF Progress

\* The first line of a paragraph.
LEMMA StartStep ==
  ASSUME NEW lines \in Sheets(Chars), NEW k \in 0..(Len(lines) - 1), NEW paragraphs,
         Progress(lines, paragraphs, k), k + 1 \notin Gaps(lines), k = 0 \/ k \in Gaps(lines)
  PROVE  Progress(lines, Join(lines, paragraphs, k + 1), k + 1)
<1> DEFINE first == SubSeq(lines, 1, k)
           line == lines[k + 1]
<1>1. /\ first \in Seq(Seq(Chars)) /\ line \in Seq(Chars) /\ k + 1 \in 1..Len(lines)
      /\ SubSeq(lines, 1, k + 1) = Append(first, line) /\ k \in Nat /\ Len(lines) \in Nat
      /\ (k > 0 => Last(first) = lines[k])
  <2>1. k \in Nat /\ Len(lines) \in Nat
    BY SheetsAre
  <2> QED
    BY <2>1, FirstLines
<1>2. /\ paragraphs \in Seq(Seq(Chars)) /\ (k = 0 <=> paragraphs = <<>>)
      /\ Told(paragraphs, "line") = Told(first, "paragraph")
      /\ SomeVisible(paragraphs) <=> SomeVisible(first)
  BY DEF Progress
<1>3. Join(lines, paragraphs, k + 1) = Append(paragraphs, line)
  <2>1. paragraphs = <<>> \/ (k + 1) - 1 \in Gaps(lines)
    BY <1>1, <1>2
  <2> QED
    BY <2>1 DEF Join
<1>4. k = 0 => ~SomeVisible(first)
  <2>1. k = 0 => Len(first) = 0
    BY <1>1
  <2> QED
    BY <2>1 DEF SomeVisible
<1>5. k > 0 => IsBlank(Last(first))
  BY <1>1 DEF Gaps
<1> HIDE DEF first, line
<1>6. Lead(paragraphs, "line", line) = Lead(first, "paragraph", line)
  BY <1>1, <1>2, <1>4, <1>5 DEF Lead
<1>7. Told(Append(paragraphs, line), "line") = Told(Append(first, line), "paragraph")
  <2>1. Told(Append(paragraphs, line), "line")
           = Told(paragraphs, "line") \o (Lead(paragraphs, "line", line) \o Normalized(line))
    BY <1>1, <1>2, ToldNext
  <2>2. Told(Append(first, line), "paragraph")
           = Told(first, "paragraph") \o (Lead(first, "paragraph", line) \o Normalized(line))
    BY <1>1, ToldNext
  <2> QED
    BY <1>2, <1>6, <2>1, <2>2
<1>8. SomeVisible(Append(paragraphs, line)) <=> SomeVisible(Append(first, line))
  BY <1>1, <1>2, VisibleNext
<1>9. /\ Append(paragraphs, line) \in Seq(Seq(Chars)) /\ Append(paragraphs, line) # <<>>
      /\ Last(Append(paragraphs, line)) = line
  BY <1>1, <1>2, AppendIs DEF Last
<1>10. line = lines[k + 1]
  BY DEF line
<1>11. k + 1 # 0
  BY <1>1
<1> QED
  BY <1>1, <1>3, <1>7, <1>8, <1>9, <1>10, <1>11 DEF Progress

\* Another line of a paragraph.
LEMMA ContinueStep ==
  ASSUME NEW lines \in Sheets(Chars), NEW k \in 0..(Len(lines) - 1), NEW paragraphs,
         Progress(lines, paragraphs, k), k + 1 \notin Gaps(lines), k # 0, k \notin Gaps(lines)
  PROVE  Progress(lines, Join(lines, paragraphs, k + 1), k + 1)
<1> DEFINE first == SubSeq(lines, 1, k)
           line == lines[k + 1]
           front == Front(paragraphs)
           para == Last(paragraphs)
           longer == Append(para, "b") \o line
<1>1. /\ first \in Seq(Seq(Chars)) /\ line \in Seq(Chars) /\ k + 1 \in 1..Len(lines)
      /\ SubSeq(lines, 1, k + 1) = Append(first, line) /\ k \in Nat /\ Len(lines) \in Nat
      /\ Last(first) = lines[k] /\ k \in 1..(Len(lines) - 1)
  <2>1. k \in Nat /\ Len(lines) \in Nat /\ k > 0
    BY SheetsAre
  <2> QED
    BY <2>1, FirstLines
<1>2. /\ paragraphs \in Seq(Seq(Chars)) /\ paragraphs # <<>>
      /\ Told(paragraphs, "line") = Told(first, "paragraph")
      /\ SomeVisible(paragraphs) <=> SomeVisible(first)
      /\ IsBlank(para) <=> IsBlank(lines[k])
  BY <1>1 DEF Progress
<1>3. /\ front \in Seq(Seq(Chars)) /\ para \in Seq(Chars)
      /\ paragraphs = Append(front, para)
  BY <1>2, FrontIs
<1>4. Join(lines, paragraphs, k + 1) = Append(front, longer)
  <2>1. (k + 1) - 1 = k
    BY <1>1
  <2> DEFINE m == k + 1
  <2>3. m \in 1..Len(lines) /\ m \notin Gaps(lines) /\ (m - 1) \notin Gaps(lines)
        /\ paragraphs # <<>> /\ paragraphs \in Seq(Seq(Chars))
    BY <1>1, <1>2, <2>1
  <2> HIDE DEF m
  <2>4. Join(lines, paragraphs, m)
           = Append(Front(paragraphs), Append(Last(paragraphs), "b") \o lines[m])
    BY <2>3, JoinTyped
  <2> QED
    BY <2>4 DEF m
<1>5. Joins(para, line)
  BY <1>1, <1>3, JoinsAre
<1>6. /\ longer \in Seq(Chars)
      /\ IsBlank(longer) <=> IsBlank(para) /\ IsBlank(line)
      /\ Normalized(longer) = Normalized(para) \o (Between(para, line) \o Normalized(line))
  BY <1>5 DEF Joins
<1>7. /\ Normalized(para) \in Seq(Chars) /\ Normalized(line) \in Seq(Chars)
      /\ Normalized(para) = <<>> <=> IsBlank(para)
      /\ Normalized(line) = <<>> <=> IsBlank(line)
  BY <1>1, <1>3, BlankIs
<1>8. line = lines[k + 1]
  OBVIOUS
<1> HIDE DEF first, line, front, para, longer
<1>9. Told(front, "line") \in Seq(Chars)
      /\ Told(paragraphs, "line")
            = Told(front, "line") \o (Lead(front, "line", para) \o Normalized(para))
  BY <1>3, ToldNext
<1>10. Told(Append(front, longer), "line")
          = Told(front, "line") \o (Lead(front, "line", longer) \o Normalized(longer))
  BY <1>3, <1>6, ToldNext
<1>11. Told(first, "paragraph") \in Seq(Chars)
       /\ Told(Append(first, line), "paragraph")
            = Told(first, "paragraph") \o (Lead(first, "paragraph", line) \o Normalized(line))
  BY <1>1, ToldNext
<1>12. /\ SomeVisible(paragraphs) <=> SomeVisible(front) \/ ~IsBlank(para)
       /\ SomeVisible(Append(front, longer)) <=> SomeVisible(front) \/ ~IsBlank(longer)
       /\ SomeVisible(Append(first, line)) <=> SomeVisible(first) \/ ~IsBlank(line)
  BY <1>1, <1>3, <1>6, VisibleNext
<1>13. Lead(front, "line", para) \in Seq(Chars) /\ Lead(front, "line", longer) \in Seq(Chars)
       /\ Lead(first, "paragraph", line) \in Seq(Chars)
  BY LeadTyped
<1>14. Told(Append(front, longer), "line") = Told(Append(first, line), "paragraph")
  <2>1. CASE IsBlank(line)
    <3>1. Normalized(longer) = Normalized(para)
      <4>1. Between(para, line) = <<>> /\ Normalized(line) = <<>>
        BY <1>7, <2>1 DEF Between
      <4> QED
        BY <1>6, <1>7, <4>1, NoneBesides
    <3>2. Lead(front, "line", longer) = Lead(front, "line", para)
      BY <1>6, <2>1 DEF Lead
    <3>3. Lead(first, "paragraph", line) = <<>> /\ Normalized(line) = <<>>
      BY <1>7, <2>1 DEF Lead
    <3>4. Told(Append(first, line), "paragraph") = Told(first, "paragraph")
      BY <1>11, <3>3, NoneBesides
    <3> QED
      BY <1>2, <1>9, <1>10, <3>1, <3>2, <3>4
  <2>2. CASE ~IsBlank(line) /\ IsBlank(para)
    <3>1. Between(para, line) = <<>> /\ Normalized(para) = <<>> /\ Lead(front, "line", para) = <<>>
      BY <1>7, <2>2 DEF Between, Lead
    <3>2. Normalized(longer) = Normalized(line)
      BY <1>6, <1>7, <3>1, NoneBesides
    <3>3. Lead(front, "line", longer) = Lead(first, "paragraph", line)
      <4>1. IsBlank(Last(first)) /\ ~IsBlank(longer) /\ (SomeVisible(front) <=> SomeVisible(first))
        BY <1>1, <1>2, <1>6, <1>12, <2>2
      <4> QED
        BY <2>2, <4>1 DEF Lead
    <3>4. Told(paragraphs, "line") = Told(front, "line")
      BY <1>9, <3>1, NoneBesides
    <3> QED
      BY <1>2, <1>10, <1>11, <3>2, <3>3, <3>4
  <2>3. CASE ~IsBlank(line) /\ ~IsBlank(para)
    <3>1. Lead(front, "line", longer) = Lead(front, "line", para)
      BY <1>6, <2>3 DEF Lead
    <3>2. Lead(first, "paragraph", line) = <<"b">> /\ Between(para, line) = <<"b">>
      <4>1. ~IsBlank(Last(first)) /\ SomeVisible(first)
        BY <1>1, <1>2, <1>12, <2>3
      <4> QED
        BY <2>3, <4>1 DEF Lead, Between
    <3> DEFINE x == <<"b">> \o Normalized(line)
               lead == Lead(front, "line", para)
               told == Told(front, "line")
               said == Normalized(para)
    <3>3. x \in Seq(Chars) /\ lead \in Seq(Chars) /\ told \in Seq(Chars) /\ said \in Seq(Chars)
      <4>1. <<"b">> \in Seq(Chars) /\ Normalized(line) \in Seq(Chars)
        BY <1>7, <1>13, CharsAre
      <4>2. x \in Seq(Chars)
        <5> HIDE DEF lead, told, said
        <5> QED
          BY ONLY <4>1
      <4> QED
        BY <1>7, <1>9, <1>13, <4>2
    <3>4. Told(Append(front, longer), "line") = told \o (lead \o (said \o x))
      BY <1>6, <1>10, <3>1, <3>2
    <3>5. Told(Append(first, line), "paragraph") = (told \o (lead \o said)) \o x
      BY <1>2, <1>9, <1>11, <3>2
    <3> HIDE DEF x, lead, told, said
    <3>6. Regroup(told, lead, said, x)
      BY <3>3, Regrouped
    <3>7. told \o (lead \o (said \o x)) = (told \o (lead \o said)) \o x
      BY <3>6 DEF Regroup
    <3> QED
      BY <3>4, <3>5, <3>7
  <2> QED
    BY <2>1, <2>2, <2>3
<1>15. SomeVisible(Append(front, longer)) <=> SomeVisible(Append(first, line))
  BY <1>2, <1>6, <1>12
<1>16. /\ Append(front, longer) \in Seq(Seq(Chars)) /\ Append(front, longer) # <<>>
       /\ Last(Append(front, longer)) = longer
  <2> DEFINE more == Append(front, longer)
  <2>1. /\ more \in Seq(Seq(Chars)) /\ more # <<>> /\ Len(more) = Len(front) + 1
        /\ more[Len(front) + 1] = longer
    <3> DEFINE W == Seq(Chars)
    <3>1. front \in Seq(W) /\ longer \in W
      BY <1>3, <1>6
    <3> HIDE DEF W
    <3>2. /\ more \in Seq(W) /\ more # <<>> /\ Len(more) = Len(front) + 1
          /\ more[Len(front) + 1] = longer
      BY <3>1, AppendIs
    <3> QED
      BY <3>2 DEF W
  <2> HIDE DEF more
  <2>2. Last(more) = longer
    BY <2>1 DEF Last
  <2> QED
    BY <2>1, <2>2 DEF more
<1>17. k + 1 \in 1..(Len(lines) - 1) => ~IsBlank(line)
  BY <1>1, <1>8 DEF Gaps
<1>18. k + 1 # 0
  BY <1>1
<1> QED
  BY <1>1, <1>4, <1>6, <1>8, <1>14, <1>15, <1>16, <1>17, <1>18 DEF Progress

LEMMA JoinFold ==
  ASSUME NEW lines \in Sheets(Chars)
  PROVE  \E h : JoinHistory(h, lines, ParagraphsOf(lines))
<1> DEFINE n == Len(lines)
           seq == [i \in DOMAIN lines |-> i]
           D == Seq(Seq(Chars))
           base == <<>>
           F == [q \in D \X (1..n) |-> Join(lines, q[1], q[2])]
           Step(g) == [s \in SUBSET DOMAIN seq |->
                        IF s = {} THEN base ELSE Join(lines, g[s \ {Max(s)}], seq[Max(s)])]
           G == CHOOSE g : g = Step(g)
<1>1. ParagraphsOf(lines) = G[DOMAIN seq]
  BY DEF ParagraphsOf, FoldLeftDomain, FoldLeft, MapThenFoldSet
<1>2. n \in Nat /\ DOMAIN seq = 1..n /\ \A i \in 1..n : seq[i] = i
  <2> DEFINE W == Seq(Chars)
  <2>1. lines \in Seq(W)
    BY SheetsAre
  <2> QED
    BY <2>1
<1>3. F \in [D \X (1..n) -> D]
  <2> SUFFICES ASSUME NEW q \in D \X (1..n) PROVE Join(lines, q[1], q[2]) \in D
    OBVIOUS
  <2>1. q[1] \in Seq(Seq(Chars)) /\ q[2] \in 1..Len(lines)
    OBVIOUS
  <2> QED
    BY <2>1, JoinTyped
<1>4. base \in D
  OBVIOUS
<1>5. PICK g \in [SUBSET (1..n) -> D] : IsFold(g, n, base, F)
  <2> HIDE DEF F, D, base, n
  <2> QED
    BY <1>2, <1>3, <1>4, FoldExists
<1> HIDE DEF D, base, n, seq
<1>6. g = Step(g)
  <2>1. ASSUME NEW s \in SUBSET (1..n)
        PROVE  g[s] = IF s = {} THEN base ELSE Join(lines, g[s \ {Max(s)}], seq[Max(s)])
    <3>1. CASE s = {}
      BY <1>5, <3>1 DEF IsFold
    <3>2. CASE s # {}
      <4>1. Max(s) \in 1..n /\ s \ {Max(s)} \in SUBSET (1..n)
        BY <1>2, <3>2, MaxIn
      <4>2. g[s] = F[<<g[s \ {Max(s)}], Max(s)>>]
        BY <1>5, <3>2 DEF IsFold
      <4>3. <<g[s \ {Max(s)}], Max(s)>> \in D \X (1..n)
        BY <4>1
      <4>4. seq[Max(s)] = Max(s)
        BY <1>2, <4>1
      <4> QED
        BY <3>2, <4>2, <4>3, <4>4
    <3> QED
      BY <3>1, <3>2
  <2> QED
    BY <2>1, <1>2
<1>7. G = Step(G)
  <2> HIDE DEF Step
  <2> QED
    BY <1>6
<1>8. ASSUME NEW s \in SUBSET (1..n)
      PROVE  G[s] = IF s = {} THEN base ELSE Join(lines, G[s \ {Max(s)}], seq[Max(s)])
  <2> HIDE DEF G
  <2> QED
    BY <1>7, <1>2
<1> HIDE DEF G, Step
<1> DEFINE h == [k \in 0..n |-> G[1..k]]
<1>9. ASSUME NEW k \in 1..n PROVE h[k] = Join(lines, h[k - 1], k)
  <2>1. h[k] = G[1..k] /\ h[k - 1] = G[1..(k - 1)] /\ seq[k] = k
    BY <1>2
  <2>2. 1..k \in SUBSET (1..n) /\ 1..k # {} /\ Max(1..k) = k /\ (1..k) \ {Max(1..k)} = 1..(k - 1)
    BY <1>2, FirstOnes
  <2> QED
    BY <1>8, <2>1, <2>2
<1>10. h[0] = base /\ h[n] = ParagraphsOf(lines)
  <2>1. 1..0 = {} /\ {} \in SUBSET (1..n) /\ h[0] = G[1..0] /\ h[n] = G[1..n]
    BY <1>2
  <2> QED
    BY <1>1, <1>2, <1>8, <2>1
<1> HIDE DEF h
<1>11. JoinHistory(h, lines, ParagraphsOf(lines))
  BY <1>9, <1>10 DEF JoinHistory, n, base
<1> QED
  BY <1>11

\* The paragraphs tell what the lines tell, when one break between lines counts as a blank.
LEMMA ParagraphsTell ==
  ASSUME NEW lines \in Sheets(Chars)
  PROVE  /\ ParagraphsOf(lines) \in Seq(Seq(Chars))
         /\ Told(ParagraphsOf(lines), "line") = Told(lines, "paragraph")
<1> DEFINE n == Len(lines)
<1>1. n \in Nat \ {0} /\ lines \in Seq(Seq(Chars))
  BY SheetsAre
<1>2. PICK h : JoinHistory(h, lines, ParagraphsOf(lines))
  BY JoinFold
<1> DEFINE S == {k \in 0..n : Progress(lines, h[k], k)}
<1>3. 0 \in S
  <2>1. h[0] = <<>>
    BY <1>2 DEF JoinHistory
  <2>2. SubSeq(lines, 1, 0) = <<>> /\ <<>> \in Seq(Seq(Chars)) /\ 0 \notin 1..(n - 1)
    BY <1>1
  <2>3. Told(<<>>, "line") = Told(<<>>, "paragraph")
    BY ToldNone
  <2>4. Progress(lines, h[0], 0)
    BY <2>1, <2>2, <2>3 DEF Progress
  <2> QED
    BY <1>1, <2>4
<1>4. ASSUME NEW k \in 0..(n - 1), k \in S PROVE k + 1 \in S
  <2>1. k + 1 \in 1..n /\ k + 1 \in 0..n /\ (k + 1) - 1 = k
    BY <1>1
  <2>2. h[k + 1] = Join(lines, h[k], k + 1)
    BY <1>2, <2>1 DEF JoinHistory
  <2>3. Progress(lines, h[k], k)
    BY <1>4
  <2>4. k \in 0..(Len(lines) - 1)
    OBVIOUS
  <2>5. Progress(lines, Join(lines, h[k], k + 1), k + 1)
    BY <2>3, <2>4, GapStep, StartStep, ContinueStep
  <2> QED
    BY <2>1, <2>2, <2>5
<1>5. n \in S
  <2> HIDE DEF S, n
  <2>1. n \in 0..n /\ n \in Nat
    BY <1>1
  <2> QED
    BY <1>3, <1>4, <2>1, Climb
<1>6. Progress(lines, ParagraphsOf(lines), n)
  BY <1>2, <1>5 DEF JoinHistory
<1>7. SubSeq(lines, 1, n) = lines
  BY <1>1, SubSeqFull
<1> QED
  BY <1>6, <1>7 DEF Progress

--------------------------------------------------------------------------------
(* A passage, one character after the other. *)

IsSwallowed(text, i) == text[i] = "\n" /\ i > 1 /\ text[i - 1] = "\r"

CanonicalAt(text, i) == IF IsSwallowed(text, i) THEN <<>>
                        ELSE IF text[i] = "\r" THEN <<"\n">> ELSE <<text[i]>>

ReadAt(text, break, i) ==
    IF IsVisible(text[i]) THEN Mark(text, break, i) \o <<text[i]>> ELSE <<>>

LinesTo(text, k) == Lines(FlattenSeq([i \in 1..k |-> CanonicalAt(text, i)]))

ReadTo(text, break, k) == FlattenSeq([i \in 1..k |-> ReadAt(text, break, i)])

LEMMA WholeText ==
  ASSUME NEW text, NEW break
  PROVE  /\ LinesTo(text, Len(text)) = Lines(Canonical(text))
         /\ ReadTo(text, break, Len(text)) = Reading(text, break)
<1>1. Canonical(text) = FlattenSeq([i \in 1..Len(text) |-> CanonicalAt(text, i)])
  BY DEF Canonical, CanonicalAt, IsSwallowed
<1>2. ReadTo(text, break, Len(text)) = Reading(text, break)
  BY DEF ReadTo, ReadAt, Reading
<1> QED
  BY <1>1, <1>2 DEF LinesTo

LEMMA NothingYet ==
  ASSUME NEW text, NEW break
  PROVE  LinesTo(text, 0) = << <<>> >> /\ ReadTo(text, break, 0) = <<>>
<1> DEFINE f == [i \in 1..0 |-> CanonicalAt(text, i)]
           g == [i \in 1..0 |-> ReadAt(text, break, i)]
<1>1. f = <<>> /\ g = <<>>
  OBVIOUS
<1>2. LinesTo(text, 0) = Lines(FlattenSeq(f)) /\ ReadTo(text, break, 0) = FlattenSeq(g)
  BY DEF LinesTo, ReadTo
<1> HIDE DEF f, g
<1>3. FlattenSeq(f) = <<>> /\ FlattenSeq(g) = <<>>
  BY <1>1, FlatNone
<1> QED
  BY <1>2, <1>3, LinesNone

LEMMA MarkTyped ==
  ASSUME NEW text, NEW break, NEW i
  PROVE  Mark(text, break, i) \in {<<>>, <<"/">>, <<"b">>}
BY DEF Mark

LEMMA PartsTyped ==
  ASSUME NEW text \in Seq(Chars), NEW break, NEW i \in 1..Len(text)
  PROVE  CanonicalAt(text, i) \in Seq(Chars) /\ ReadAt(text, break, i) \in Seq(Chars)
<1>1. text[i] \in Chars
  BY ElementOfSeq
<1>2. <<text[i]>> \in Seq(Chars) /\ <<"\n">> \in Seq(Chars) /\ <<>> \in Seq(Chars)
  BY <1>1, CharsAre, AppendOne
<1>3. Mark(text, break, i) \in Seq(Chars)
  BY MarkTyped, CharsAre
<1>4. Mark(text, break, i) \o <<text[i]>> \in Seq(Chars)
  BY <1>2, <1>3, ConcatIs
<1> QED
  BY <1>2, <1>4 DEF CanonicalAt, ReadAt

LEMMA ReadNext ==
  ASSUME NEW text \in Seq(Chars), NEW break, NEW k \in 0..(Len(text) - 1)
  PROVE  /\ ReadTo(text, break, k) \in Seq(Chars)
         /\ ReadTo(text, break, k + 1) = ReadTo(text, break, k) \o ReadAt(text, break, k + 1)
<1> DEFINE f == [i \in 1..(k + 1) |-> ReadAt(text, break, i)]
           g == [i \in 1..k |-> ReadAt(text, break, i)]
<1>1. k \in Nat /\ (\A i \in 1..(k + 1) : i \in 1..Len(text)) /\ k + 1 \in 1..(k + 1)
      /\ (\A i \in 1..k : i \in 1..(k + 1))
  OBVIOUS
<1>2. FlattenSeq(f) = ReadTo(text, break, k + 1) /\ FlattenSeq(g) = ReadTo(text, break, k)
  BY DEF ReadTo
<1>3. \A i \in 1..(k + 1) : ReadAt(text, break, i) \in Seq(Chars)
  BY <1>1, PartsTyped
<1>4. f \in [1..(k + 1) -> Seq(Chars)] /\ g \in [1..k -> Seq(Chars)]
  BY <1>1, <1>3
<1>5. (\A i \in 1..k : g[i] = f[i]) /\ f[k + 1] = ReadAt(text, break, k + 1)
  BY <1>1
<1> HIDE DEF f, g
<1>6. FlattenSeq(g) \in Seq(Chars) /\ FlattenSeq(f) = FlattenSeq(g) \o f[k + 1]
  BY <1>1, <1>4, <1>5, FlatNext
<1> QED
  BY <1>2, <1>5, <1>6

LEMMA LinesStep ==
  ASSUME NEW text \in Seq(Chars), NEW k \in 0..(Len(text) - 1)
  PROVE  /\ LinesTo(text, k) \in Sheets(Chars)
         /\ k + 1 \in Breaks(text) => LinesTo(text, k + 1) = Append(LinesTo(text, k), <<>>)
         /\ IsSwallowed(text, k + 1) => LinesTo(text, k + 1) = LinesTo(text, k)
         /\ text[k + 1] \notin NewLine =>
               LinesTo(text, k + 1) = Append(Front(LinesTo(text, k)),
                                             Append(Last(LinesTo(text, k)), text[k + 1]))
<1> DEFINE f == [i \in 1..(k + 1) |-> CanonicalAt(text, i)]
           g == [i \in 1..k |-> CanonicalAt(text, i)]
           so == FlattenSeq(g)
<1>1. k \in Nat /\ (\A i \in 1..(k + 1) : i \in 1..Len(text)) /\ k + 1 \in 1..(k + 1)
      /\ (\A i \in 1..k : i \in 1..(k + 1))
  OBVIOUS
<1>2. LinesTo(text, k + 1) = Lines(FlattenSeq(f)) /\ LinesTo(text, k) = Lines(so)
  BY DEF LinesTo
<1>3. \A i \in 1..(k + 1) : CanonicalAt(text, i) \in Seq(Chars)
  BY <1>1, PartsTyped
<1>4. f \in [1..(k + 1) -> Seq(Chars)] /\ g \in [1..k -> Seq(Chars)]
  BY <1>1, <1>3
<1>5. (\A i \in 1..k : g[i] = f[i]) /\ f[k + 1] = CanonicalAt(text, k + 1)
  BY <1>1
<1> HIDE DEF f, g
<1>6. so \in Seq(Chars) /\ FlattenSeq(f) = so \o f[k + 1]
  BY <1>1, <1>4, <1>5, FlatNext
<1> HIDE DEF so
<1>7. text[k + 1] \in Chars /\ "\n" \in Chars
  <2>1. text[k + 1] \in Chars
    BY <1>1, ElementOfSeq
  <2> QED
    BY <2>1, CharsAre
<1>8. Lines(so) \in Sheets(Chars)
  BY <1>6, <1>7, LinesNext
<1>9. CASE k + 1 \in Breaks(text)
  <2>1. CanonicalAt(text, k + 1) = <<"\n">> /\ ~IsSwallowed(text, k + 1)
        /\ text[k + 1] \in NewLine
    <3>1. (k + 1) - 1 = k /\ k + 1 > 1 <=> k + 1 # 1
      BY <1>1
    <3> QED
      BY <1>1, <1>9, <3>1 DEF Breaks, CanonicalAt, IsSwallowed, NewLine
  <2>2. FlattenSeq(f) = Append(so, "\n")
    BY <1>5, <1>6, <1>7, <2>1, AppendOne
  <2>3. Lines(Append(so, "\n")) = Append(Lines(so), <<>>)
    <3>1. Lines(Append(so, "\n")) = Split(Lines(so), "\n")
      BY <1>6, <1>7, LinesNext
    <3> QED
      BY <1>7, <1>8, <3>1, SplitIs
  <2> QED
    BY <1>2, <1>8, <2>1, <2>2, <2>3
<1>10. CASE IsSwallowed(text, k + 1)
  <2>1. CanonicalAt(text, k + 1) = <<>> /\ text[k + 1] \in NewLine
    BY <1>10 DEF CanonicalAt, IsSwallowed, NewLine
  <2>2. FlattenSeq(f) = so
    BY <1>5, <1>6, <2>1, NoneBesides
  <2>3. k + 1 \notin Breaks(text)
    <3>1. text[k + 1] = "\n" /\ text[(k + 1) - 1] = "\r" /\ k + 1 # 1
      BY <1>1, <1>10 DEF IsSwallowed
    <3> QED
      BY <3>1 DEF Breaks
  <2> QED
    BY <1>2, <1>8, <2>1, <2>2, <2>3
<1>11. CASE text[k + 1] \notin NewLine
  <2>1. CanonicalAt(text, k + 1) = <<text[k + 1]>> /\ text[k + 1] # "\n"
        /\ ~IsSwallowed(text, k + 1) /\ k + 1 \notin Breaks(text)
    BY <1>11 DEF CanonicalAt, IsSwallowed, NewLine, Breaks
  <2>2. FlattenSeq(f) = Append(so, text[k + 1])
    BY <1>5, <1>6, <1>7, <2>1, AppendOne
  <2>3. Lines(Append(so, text[k + 1])) = Append(Front(Lines(so)), Append(Last(Lines(so)), text[k + 1]))
    <3>1. Lines(Append(so, text[k + 1])) = Split(Lines(so), text[k + 1])
      BY <1>6, <1>7, LinesNext
    <3> QED
      BY <1>7, <1>8, <2>1, <3>1, SplitIs
  <2> QED
    BY <1>2, <1>8, <2>1, <2>2, <2>3
<1>12. k + 1 \in Breaks(text) \/ IsSwallowed(text, k + 1) \/ text[k + 1] \notin NewLine
  BY <1>1 DEF Breaks, IsSwallowed, NewLine
<1> QED
  BY <1>9, <1>10, <1>11, <1>12

\* The last character that was shown, and the breaks since then.
ShownTo(text, k) == Max(Before(text, k + 1))
BreaksTo(text, k) == {j \in Breaks(text) : j < k + 1}
SinceTo(text, k) == {j \in Breaks(text) : ShownTo(text, k) < j /\ j < k + 1}

LEMMA BeforeNext ==
  ASSUME NEW text \in Seq(Chars), NEW k \in 0..(Len(text) - 1)
  PROVE  /\ k \in Nat /\ k + 1 \in 1..Len(text) /\ (k + 1) - 1 = k
         /\ Before(text, k + 1) \in SUBSET (1..k)
         /\ ~IsVisible(text[k + 1]) => Before(text, (k + 1) + 1) = Before(text, k + 1)
         /\ IsVisible(text[k + 1]) => /\ Before(text, (k + 1) + 1) # {}
                                      /\ ShownTo(text, k + 1) = k + 1
         /\ Before(text, k + 1) # {} => ShownTo(text, k) \in 1..k /\ IsVisible(text[ShownTo(text, k)])
<1>1. k \in Nat /\ k + 1 \in 1..Len(text) /\ (k + 1) - 1 = k /\ ((k + 1) + 1) - 1 = k + 1
  OBVIOUS
<1>2. Before(text, k + 1) = {j \in 1..k : IsVisible(text[j])}
  BY <1>1 DEF Before
<1>3. Before(text, (k + 1) + 1) = {j \in 1..(k + 1) : IsVisible(text[j])}
  BY <1>1 DEF Before
<1>4. Before(text, k + 1) \in SUBSET (1..k)
  BY <1>2
<1>5. ASSUME ~IsVisible(text[k + 1]) PROVE Before(text, (k + 1) + 1) = Before(text, k + 1)
  <2>1. \A j \in 1..(k + 1) : j \in 1..k \/ j = k + 1
    BY <1>1
  <2>2. \A j \in 1..k : j \in 1..(k + 1)
    BY <1>1
  <2> QED
    BY <1>2, <1>3, <1>5, <2>1, <2>2
<1>6. ASSUME IsVisible(text[k + 1])
      PROVE  Before(text, (k + 1) + 1) # {} /\ ShownTo(text, k + 1) = k + 1
  <2> DEFINE m == k + 1
             seen == Before(text, m + 1)
  <2>1. m \in Nat /\ m \in 1..m
    BY <1>1
  <2>2. seen \in SUBSET (1..m) /\ m \in seen
    BY <1>3, <1>6, <2>1
  <2> HIDE DEF m, seen
  <2>3. Max(seen) = m
    BY <2>1, <2>2, MaxIs
  <2> QED
    BY <2>2, <2>3 DEF ShownTo, m, seen
<1>7. ASSUME Before(text, k + 1) # {}
      PROVE  ShownTo(text, k) \in 1..k /\ IsVisible(text[ShownTo(text, k)])
  <2>1. Max(Before(text, k + 1)) \in Before(text, k + 1)
    BY <1>1, <1>4, <1>7, MaxIn
  <2> QED
    BY <1>2, <2>1 DEF ShownTo
<1> QED
  BY <1>1, <1>4, <1>5, <1>6, <1>7

LEMMA BreaksNext ==
  ASSUME NEW text \in Seq(Chars), NEW k \in 0..(Len(text) - 1)
  PROVE  /\ k + 1 \in Breaks(text) => /\ BreaksTo(text, k + 1) = BreaksTo(text, k) \cup {k + 1}
                                      /\ ~IsVisible(text[k + 1])
         /\ k + 1 \notin Breaks(text) => BreaksTo(text, k + 1) = BreaksTo(text, k)
         /\ k + 1 \notin BreaksTo(text, k)
         /\ IsFiniteSet(BreaksTo(text, k))
         /\ IsFiniteSet(SinceTo(text, k)) /\ k + 1 \notin SinceTo(text, k)
<1>1. k \in Nat /\ k + 1 \in 1..Len(text)
  OBVIOUS
<1>2. \A j \in Breaks(text) : j \in 1..Len(text) /\ (j < (k + 1) + 1 <=> j < k + 1 \/ j = k + 1)
  BY <1>1 DEF Breaks
<1>3. k + 1 \in Breaks(text) => BreaksTo(text, k + 1) = BreaksTo(text, k) \cup {k + 1}
  BY <1>2 DEF BreaksTo
<1>4. k + 1 \in Breaks(text) => ~IsVisible(text[k + 1])
  BY DEF Breaks, IsVisible, NewLine
<1>5. k + 1 \notin Breaks(text) => BreaksTo(text, k + 1) = BreaksTo(text, k)
  BY <1>2 DEF BreaksTo
<1>6. k + 1 \notin BreaksTo(text, k) /\ k + 1 \notin SinceTo(text, k)
  BY <1>1 DEF BreaksTo, SinceTo
<1>7. IsFiniteSet(1..Len(text)) /\ BreaksTo(text, k) \subseteq 1..Len(text)
      /\ SinceTo(text, k) \subseteq 1..Len(text)
  <2>1. IsFiniteSet(1..Len(text))
    BY FS_Interval
  <2> QED
    BY <1>2, <2>1 DEF BreaksTo, SinceTo
<1>8. IsFiniteSet(BreaksTo(text, k)) /\ IsFiniteSet(SinceTo(text, k))
  BY <1>7, FS_Subset
<1> QED
  BY <1>3, <1>4, <1>5, <1>6, <1>8

\* What is shown stays shown until the next visible character.
LEMMA SinceNext ==
  ASSUME NEW text \in Seq(Chars), NEW k \in 0..(Len(text) - 1), ~IsVisible(text[k + 1]),
         Before(text, k + 1) # {}
  PROVE  /\ ShownTo(text, k + 1) = ShownTo(text, k) /\ ShownTo(text, k) \in 1..k
         /\ k + 1 \in Breaks(text) =>
               Cardinality(SinceTo(text, k + 1)) = Cardinality(SinceTo(text, k)) + 1
         /\ k + 1 \notin Breaks(text) => SinceTo(text, k + 1) = SinceTo(text, k)
         /\ IsSwallowed(text, k + 1) => SinceTo(text, k) # {}
<1>1. /\ k \in Nat /\ k + 1 \in 1..Len(text) /\ (k + 1) - 1 = k
      /\ ShownTo(text, k) \in 1..k /\ IsVisible(text[ShownTo(text, k)])
      /\ Before(text, (k + 1) + 1) = Before(text, k + 1)
  BY BeforeNext
<1>2. ShownTo(text, k + 1) = ShownTo(text, k)
  BY <1>1 DEF ShownTo
<1>3. \A j \in Breaks(text) : j \in 1..Len(text) /\ (j < (k + 1) + 1 <=> j < k + 1 \/ j = k + 1)
  BY <1>1 DEF Breaks
<1>4. ASSUME k + 1 \in Breaks(text)
      PROVE  Cardinality(SinceTo(text, k + 1)) = Cardinality(SinceTo(text, k)) + 1
  <2>1. SinceTo(text, k + 1) = SinceTo(text, k) \cup {k + 1}
    BY <1>1, <1>2, <1>3, <1>4 DEF SinceTo
  <2>2. IsFiniteSet(SinceTo(text, k)) /\ k + 1 \notin SinceTo(text, k)
    BY BreaksNext
  <2> QED
    BY <2>1, <2>2, FS_AddElement
<1>5. k + 1 \notin Breaks(text) => SinceTo(text, k + 1) = SinceTo(text, k)
  BY <1>2, <1>3 DEF SinceTo
<1>6. ASSUME IsSwallowed(text, k + 1) PROVE SinceTo(text, k) # {}
  <2>1. text[k] = "\r" /\ k \in 1..Len(text)
    BY <1>1, <1>6 DEF IsSwallowed
  <2>2. k \in Breaks(text) /\ ~IsVisible(text[k])
    BY <2>1 DEF Breaks, IsVisible, NewLine
  <2>3. ShownTo(text, k) # k
    BY <1>1, <2>2
  <2>4. ShownTo(text, k) < k /\ k < k + 1
    BY <1>1, <2>3
  <2>5. k \in SinceTo(text, k)
    BY <2>2, <2>4 DEF SinceTo
  <2> QED
    BY <2>5
<1> QED
  BY <1>1, <1>2, <1>4, <1>5, <1>6

\* What the lines so far know of the breaks since the last character that was shown.
Tracks(lines, count, atEnd) ==
    /\ count = 0 <=> ~IsBlank(Last(lines))
    /\ count = 1 <=> /\ IsBlank(Last(lines))
                     /\ Front(lines) # <<>> /\ ~IsBlank(Last(Front(lines)))
    /\ count = 0 => (atEnd <=> Last(Last(lines)) # "b")

Follows(text, break, k) ==
    LET lines == LinesTo(text, k)
    IN  /\ Len(lines) = 1 + Cardinality(BreaksTo(text, k))
        /\ Before(text, k + 1) # {} <=> SomeVisible(lines)
        /\ Before(text, k + 1) # {} =>
              Tracks(lines, Cardinality(SinceTo(text, k)), ShownTo(text, k) = k)
        /\ Told(lines, break) = ReadTo(text, break, k)

LEMMA FollowsStart ==
  ASSUME NEW text \in Seq(Chars), NEW break
  PROVE  Follows(text, break, 0)
<1> DEFINE none == <<>>
           lines == << none >>
<1>1. LinesTo(text, 0) = lines /\ ReadTo(text, break, 0) = <<>>
  BY NothingYet
<1>2. Before(text, 0 + 1) = {} /\ BreaksTo(text, 0) = {}
  BY DEF Before, BreaksTo, Breaks
<1>3. Cardinality(BreaksTo(text, 0)) = 0 /\ Len(lines) = 1
  BY <1>2, FS_EmptySet
<1>4. none \in Seq(Seq(Chars)) /\ none \in Seq(Chars) /\ lines = Append(none, none)
  <2>1. none \in Seq(Seq(Chars)) /\ none \in Seq(Chars)
    OBVIOUS
  <2>2. lines = Append(none, none)
    OBVIOUS
  <2> QED
    BY <2>1, <2>2
<1>5. IsBlank(none) /\ Normalized(none) = <<>>
  BY CharsAre, BlankNext
<1>6. ~SomeVisible(lines)
  <2>1. ~SomeVisible(none)
    BY VisibleNone
  <2> HIDE DEF none
  <2>2. SomeVisible(Append(none, none)) <=> SomeVisible(none) \/ ~IsBlank(none)
    BY <1>4, VisibleNext
  <2> QED
    BY <1>4, <1>5, <2>1, <2>2
<1>7. Told(lines, break) = <<>>
  <2>1. Told(none, break) = <<>> /\ Lead(none, break, none) = <<>>
    BY <1>5, ToldNone DEF Lead
  <2>2. Told(Append(none, none), break)
           = Told(none, break) \o (Lead(none, break, none) \o Normalized(none))
    BY <1>4, ToldNext
  <2>3. <<>> \o (<<>> \o <<>>) = <<>>
    BY CharsAre, NoneBesides
  <2> QED
    BY <1>4, <1>5, <2>1, <2>2, <2>3
<1> HIDE DEF lines, none
<1>8. Len(LinesTo(text, 0)) = 1 + Cardinality(BreaksTo(text, 0))
  <2>1. Len(LinesTo(text, 0)) = Len(lines)
    BY <1>1
  <2>2. 1 + Cardinality(BreaksTo(text, 0)) = 1
    BY <1>3
  <2> QED
    BY <1>3, <2>1, <2>2
<1>9. ~SomeVisible(LinesTo(text, 0)) /\ Told(LinesTo(text, 0), break) = ReadTo(text, break, 0)
  BY <1>1, <1>6, <1>7
<1> QED
  BY <1>2, <1>8, <1>9 DEF Follows

\* A break begins another line.
LEMMA BreakStep ==
  ASSUME NEW text \in Seq(Chars), NEW break, NEW k \in 0..(Len(text) - 1),
         Follows(text, break, k), k + 1 \in Breaks(text)
  PROVE  Follows(text, break, k + 1)
<1> DEFINE lines == LinesTo(text, k)
           more == LinesTo(text, k + 1)
           none == <<>>
           seen == Before(text, k + 1)
           count == Cardinality(SinceTo(text, k))
<1>1. lines \in Sheets(Chars) /\ more = Append(lines, none)
  BY LinesStep
<1>2. lines \in Seq(Seq(Chars)) /\ none \in Seq(Chars) /\ Len(lines) \in Nat \ {0} /\ lines # <<>>
  <2>1. none \in Seq(Chars)
    BY CharsAre
  <2>2. lines \in Seq(Seq(Chars)) /\ Len(lines) \in Nat \ {0} /\ lines # <<>>
    BY <1>1, SheetsAre DEF Sheets
  <2> QED
    BY <2>1, <2>2
<1>3. /\ Len(lines) = 1 + Cardinality(BreaksTo(text, k))
      /\ seen # {} <=> SomeVisible(lines)
      /\ seen # {} => Tracks(lines, count, ShownTo(text, k) = k)
      /\ Told(lines, break) = ReadTo(text, break, k)
  BY DEF Follows
<1>4. ~IsVisible(text[k + 1]) /\ Before(text, (k + 1) + 1) = seen
  BY BreaksNext, BeforeNext
<1>5. IsBlank(none) /\ Normalized(none) = <<>>
  BY CharsAre, BlankNext
<1>6. Len(more) = 1 + Cardinality(BreaksTo(text, k + 1))
  <2>1. Len(more) = Len(lines) + 1
    BY <1>1, <1>2
  <2>2. BreaksTo(text, k + 1) = BreaksTo(text, k) \cup {k + 1} /\ k + 1 \notin BreaksTo(text, k)
        /\ IsFiniteSet(BreaksTo(text, k))
    BY BreaksNext
  <2>3. Cardinality(BreaksTo(text, k + 1)) = Cardinality(BreaksTo(text, k)) + 1
        /\ Cardinality(BreaksTo(text, k)) \in Nat
    BY <2>2, FS_AddElement, FS_CardinalityType
  <2> QED
    BY <1>2, <1>3, <2>1, <2>3
<1>7. Front(more) = lines /\ Last(more) = none
  <2> DEFINE W == Seq(Chars)
  <2>1. lines \in Seq(W) /\ none \in W
    BY <1>2
  <2> HIDE DEF W, lines, none, more
  <2> QED
    BY <1>1, <2>1, FrontAppend
<1>8. SomeVisible(more) <=> SomeVisible(lines)
  BY <1>1, <1>2, <1>5, VisibleNext
<1>9. Told(more, break) = ReadTo(text, break, k + 1)
  <2>1. Told(lines, break) \in Seq(Chars)
        /\ Told(more, break) = Told(lines, break) \o (Lead(lines, break, none) \o Normalized(none))
    BY <1>1, <1>2, ToldNext
  <2>2. Lead(lines, break, none) = <<>>
    BY <1>5 DEF Lead
  <2>3. ReadTo(text, break, k + 1) = ReadTo(text, break, k) \o <<>>
    BY <1>4, ReadNext DEF ReadAt
  <2> QED
    BY <1>3, <1>5, <2>1, <2>2, <2>3, NoneBesides
<1>10. ASSUME seen # {}
       PROVE  Tracks(more, Cardinality(SinceTo(text, k + 1)), ShownTo(text, k + 1) = k + 1)
  <2>1. Cardinality(SinceTo(text, k + 1)) = count + 1
    BY <1>4, <1>10, SinceNext
  <2>2. count \in Nat
    BY BreaksNext, FS_CardinalityType
  <2>3. count = 0 <=> ~IsBlank(Last(lines))
    BY <1>3, <1>10 DEF Tracks
  <2> HIDE DEF count, lines, more, none
  <2>4. count + 1 # 0 /\ (count + 1 = 1 <=> count = 0)
    BY <2>2
  <2> QED
    BY <1>2, <1>5, <1>7, <2>1, <2>3, <2>4 DEF Tracks
<1> HIDE DEF seen
<1> QED
  BY <1>3, <1>4, <1>6, <1>8, <1>9, <1>10 DEF Follows

\* The "\n" after a "\r" is no break.
LEMMA SwallowStep ==
  ASSUME NEW text \in Seq(Chars), NEW break, NEW k \in 0..(Len(text) - 1),
         Follows(text, break, k), IsSwallowed(text, k + 1)
  PROVE  Follows(text, break, k + 1)
<1> DEFINE lines == LinesTo(text, k)
           seen == Before(text, k + 1)
           count == Cardinality(SinceTo(text, k))
<1>1. LinesTo(text, k + 1) = lines
  BY LinesStep
<1>2. k + 1 \notin Breaks(text) /\ ~IsVisible(text[k + 1])
  <2>1. text[k + 1] = "\n" /\ text[(k + 1) - 1] = "\r" /\ k + 1 # 1
    BY DEF IsSwallowed
  <2> QED
    BY <2>1 DEF Breaks, IsVisible, NewLine
<1>3. /\ Len(lines) = 1 + Cardinality(BreaksTo(text, k))
      /\ seen # {} <=> SomeVisible(lines)
      /\ seen # {} => Tracks(lines, count, ShownTo(text, k) = k)
      /\ Told(lines, break) = ReadTo(text, break, k)
  BY DEF Follows
<1>4. Before(text, (k + 1) + 1) = seen /\ BreaksTo(text, k + 1) = BreaksTo(text, k)
  BY <1>2, BreaksNext, BeforeNext
<1>5. ReadTo(text, break, k + 1) = ReadTo(text, break, k)
  <2>1. ReadTo(text, break, k + 1) = ReadTo(text, break, k) \o <<>>
        /\ ReadTo(text, break, k) \in Seq(Chars)
    BY <1>2, ReadNext DEF ReadAt
  <2> QED
    BY <2>1, NoneBesides
<1>6. ASSUME seen # {}
      PROVE  Tracks(lines, Cardinality(SinceTo(text, k + 1)), ShownTo(text, k + 1) = k + 1)
  <2>1. SinceTo(text, k + 1) = SinceTo(text, k) /\ SinceTo(text, k) # {}
    BY <1>2, <1>6, SinceNext
  <2>2. count # 0 /\ Cardinality(SinceTo(text, k + 1)) = count
    BY <2>1, BreaksNext, FS_EmptySet
  <2>3. Tracks(lines, count, ShownTo(text, k) = k)
    BY <1>3, <1>6
  <2> HIDE DEF count, lines
  <2> QED
    BY <2>2, <2>3 DEF Tracks
<1> HIDE DEF seen
<1> QED
  BY <1>1, <1>3, <1>4, <1>5, <1>6 DEF Follows

LEMMA MarkIs ==
  ASSUME NEW text \in Seq(Chars), NEW break, NEW k \in 0..(Len(text) - 1)
  PROVE  Mark(text, break, k + 1)
            = IF Before(text, k + 1) = {} \/ ShownTo(text, k) = k THEN <<>>
              ELSE IF Cardinality(SinceTo(text, k)) >= (IF break = "line" THEN 1 ELSE 2)
                   THEN <<"/">> ELSE <<"b">>
<1>1. (k + 1) - 1 = k
  OBVIOUS
<1> QED
  BY <1>1 DEF Mark, ShownTo, SinceTo

\* A character within a line: what the lines are before and after it.
LEMMA WithinLine ==
  ASSUME NEW text \in Seq(Chars), NEW break, NEW k \in 0..(Len(text) - 1),
         text[k + 1] \notin NewLine
  PROVE  LET lines == LinesTo(text, k)
             front == Front(lines)
             line  == Last(lines)
             c     == text[k + 1]
             more  == LinesTo(text, k + 1)
         IN  /\ front \in Seq(Seq(Chars)) /\ line \in Seq(Chars) /\ c \in Chars
             /\ Append(line, c) \in Seq(Chars)
             /\ lines = Append(front, line) /\ more = Append(front, Append(line, c))
             /\ Len(more) = Len(lines)
             /\ Front(more) = front /\ Last(more) = Append(line, c)
             /\ BreaksTo(text, k + 1) = BreaksTo(text, k) /\ k + 1 \notin Breaks(text)
<1> DEFINE W == Seq(Chars)
           lines == LinesTo(text, k)
           front == Front(lines)
           line  == Last(lines)
           c     == text[k + 1]
           more  == LinesTo(text, k + 1)
           longer == Append(line, c)
<1>1. lines \in Sheets(Chars) /\ more = Append(front, longer)
  BY LinesStep
<1>2. lines \in Seq(W) /\ lines # <<>>
  BY <1>1 DEF Sheets
<1>3. c \in Chars
  <2>1. k + 1 \in 1..Len(text)
    OBVIOUS
  <2> QED
    BY <2>1, ElementOfSeq
<1>4. BreaksTo(text, k + 1) = BreaksTo(text, k) /\ k + 1 \notin Breaks(text)
  <2>1. k + 1 \notin Breaks(text)
    BY DEF Breaks, NewLine
  <2> QED
    BY <2>1, BreaksNext
<1> HIDE DEF W, lines, c, more
<1>5. /\ Len(lines) \in Nat \ {0} /\ front \in Seq(W) /\ Len(front) = Len(lines) - 1
      /\ line \in W /\ lines = Append(front, line)
  BY <1>2, FrontIs
<1> HIDE DEF front, line
<1>6. longer \in W
  <2>1. line \in Seq(Chars)
    BY <1>5 DEF W
  <2>2. longer \in Seq(Chars)
    BY <1>3, <2>1, AppendIs
  <2> QED
    BY <2>2 DEF W
<1> HIDE DEF longer
<1>7. Len(Append(front, longer)) = Len(front) + 1
  BY <1>5, <1>6, AppendIs
<1>8. Front(Append(front, longer)) = front /\ Last(Append(front, longer)) = longer
  BY <1>5, <1>6, FrontAppend
<1>9. Len(more) = Len(lines)
  BY <1>1, <1>5, <1>7
<1> QED
  BY <1>1, <1>3, <1>4, <1>5, <1>6, <1>8, <1>9 DEF W, lines, front, line, c, more, longer

\* A tab or a space.
LEMMA SpaceStep ==
  ASSUME NEW text \in Seq(Chars), NEW break, NEW k \in 0..(Len(text) - 1),
         Follows(text, break, k), text[k + 1] = "b"
  PROVE  Follows(text, break, k + 1)
<1> DEFINE lines == LinesTo(text, k)
           front == Front(lines)
           line  == Last(lines)
           c     == text[k + 1]
           more  == LinesTo(text, k + 1)
           longer == Append(line, c)
           seen == Before(text, k + 1)
           count == Cardinality(SinceTo(text, k))
<1>1. c \notin NewLine /\ ~IsVisible(c)
  BY DEF NewLine, IsVisible
<1>2. /\ front \in Seq(Seq(Chars)) /\ line \in Seq(Chars) /\ c \in Chars /\ longer \in Seq(Chars)
      /\ lines = Append(front, line) /\ more = Append(front, longer)
      /\ Len(more) = Len(lines) /\ Front(more) = front /\ Last(more) = longer
      /\ BreaksTo(text, k + 1) = BreaksTo(text, k) /\ k + 1 \notin Breaks(text)
  BY <1>1, WithinLine
<1>3. /\ Len(lines) = 1 + Cardinality(BreaksTo(text, k))
      /\ seen # {} <=> SomeVisible(lines)
      /\ seen # {} => Tracks(lines, count, ShownTo(text, k) = k)
      /\ Told(lines, break) = ReadTo(text, break, k)
  BY DEF Follows
<1>4. Before(text, (k + 1) + 1) = seen
  BY <1>1, BeforeNext
<1>5. ReadTo(text, break, k + 1) = ReadTo(text, break, k)
  <2>1. ReadTo(text, break, k + 1) = ReadTo(text, break, k) \o <<>>
        /\ ReadTo(text, break, k) \in Seq(Chars)
    BY <1>1, ReadNext DEF ReadAt
  <2> QED
    BY <2>1, NoneBesides
<1>6. (IsBlank(longer) <=> IsBlank(line)) /\ Last(longer) = "b" /\ Normalized(longer) = Normalized(line)
  BY <1>2, BlankNext, NormalizedNext
<1>7. ASSUME seen # {}
      PROVE  /\ SinceTo(text, k + 1) = SinceTo(text, k)
             /\ ShownTo(text, k + 1) = ShownTo(text, k) /\ ShownTo(text, k) \in 1..k
  BY <1>1, <1>2, <1>7, SinceNext
<1> HIDE DEF lines, front, line, c, more, longer
<1>8. SomeVisible(more) <=> SomeVisible(lines)
  BY <1>2, <1>6, VisibleNext
<1>9. Told(more, break) = Told(lines, break)
  <2>1. Lead(front, break, longer) = Lead(front, break, line)
    BY <1>6 DEF Lead
  <2>2. Told(lines, break) = Told(front, break) \o (Lead(front, break, line) \o Normalized(line))
    BY <1>2, ToldNext
  <2>3. Told(more, break) = Told(front, break) \o (Lead(front, break, longer) \o Normalized(longer))
    BY <1>2, ToldNext
  <2> QED
    BY <1>6, <2>1, <2>2, <2>3
<1>10. ASSUME seen # {}
       PROVE  Tracks(more, Cardinality(SinceTo(text, k + 1)), ShownTo(text, k + 1) = k + 1)
  <2>1. Tracks(lines, count, ShownTo(text, k) = k)
    BY <1>3, <1>10
  <2>2. Cardinality(SinceTo(text, k + 1)) = count /\ ShownTo(text, k + 1) # k + 1
    BY <1>7, <1>10
  <2>3. Front(lines) = front /\ Last(lines) = line
    BY DEF front, line
  <2> HIDE DEF count, seen
  <2> QED
    BY <1>2, <1>6, <2>1, <2>2, <2>3 DEF Tracks
<1>11. /\ Len(more) = 1 + Cardinality(BreaksTo(text, k + 1))
       /\ Told(more, break) = ReadTo(text, break, k + 1)
       /\ seen # {} <=> SomeVisible(more)
  BY <1>2, <1>3, <1>5, <1>8, <1>9
<1> HIDE DEF seen
<1> QED
  BY <1>4, <1>10, <1>11 DEF Follows, more

\* What a character that follows front and line is told after.
MarkOf(front, line, break, c) ==
    IF IsBlank(line) THEN Lead(front, break, Append(line, c)) ELSE Due(line)

\* What a visible character adds to the lines is what it adds to the reading.
LEMMA SaidOnce ==
  ASSUME NEW front \in Seq(Seq(Chars)), NEW line \in Seq(Chars), NEW c \in Chars, c # "b",
         NEW break
  PROVE  Told(Append(front, Append(line, c)), break)
            = Told(Append(front, line), break) \o (MarkOf(front, line, break, c) \o <<c>>)
<1> DEFINE longer == Append(line, c)
           mark == MarkOf(front, line, break, c)
           told == Told(front, break)
           said == Normalized(line)
           lead == Lead(front, break, line)
<1>1. longer \in Seq(Chars) /\ ~IsBlank(longer) /\ Normalized(longer) = said \o (Due(line) \o <<c>>)
  BY AppendIs, BlankNext, NormalizedNext
<1>2. told \in Seq(Chars) /\ said \in Seq(Chars) /\ lead \in Seq(Chars) /\ <<c>> \in Seq(Chars)
  <2>1. told \in Seq(Chars)
    <3>1. line \in Seq(Chars)
      OBVIOUS
    <3> QED
      BY <3>1, ToldNext
  <2> QED
    BY <2>1, BlankIs, LeadTyped, AppendOne
<1>3. Told(Append(front, line), break) = told \o (lead \o said)
  BY ToldNext
<1>4. Told(Append(front, longer), break) = told \o (Lead(front, break, longer) \o Normalized(longer))
  BY <1>1, ToldNext
<1>5. CASE IsBlank(line)
  <2>1. lead = <<>> /\ said = <<>> /\ Due(line) = <<>> /\ mark = Lead(front, break, longer)
    BY <1>5, BlankIs DEF Lead, Due, MarkOf
  <2>2. Told(Append(front, line), break) = told
    BY <1>2, <1>3, <2>1, NoneBesides
  <2>3. Normalized(longer) = <<c>>
    BY <1>1, <1>2, <2>1, NoneBesides
  <2> HIDE DEF longer, told, mark
  <2> QED
    BY <1>4, <2>1, <2>2, <2>3 DEF longer, mark
<1>6. CASE ~IsBlank(line)
  <2>1. Lead(front, break, longer) = lead /\ mark = Due(line)
    BY <1>1, <1>6 DEF Lead, MarkOf
  <2> DEFINE more == mark \o <<c>>
  <2>2. Told(Append(front, longer), break) = told \o (lead \o (said \o more))
    BY <1>1, <1>4, <2>1
  <2>3. told \in Seq(Chars) /\ said \in Seq(Chars) /\ lead \in Seq(Chars) /\ more \in Seq(Chars)
    <3>1. mark \in Seq(Chars)
      BY <2>1, CharsAre DEF Due
    <3> QED
      BY <1>2, <3>1, ConcatIs
  <2> HIDE DEF told, said, lead, more
  <2>4. told \o (lead \o (said \o more)) = (told \o (lead \o said)) \o more
    BY ONLY <2>3
  <2> QED
    BY <1>3, <2>2, <2>4 DEF longer, more
<1> QED
  BY <1>5, <1>6

\* What is between a visible character and the one before is what the lines know of it.
LEMMA MarkFollows ==
  ASSUME NEW text \in Seq(Chars), NEW break \in {"line", "paragraph"},
         NEW k \in 0..(Len(text) - 1), Follows(text, break, k), IsVisible(text[k + 1])
  PROVE  LET front == Front(LinesTo(text, k))
             line  == Last(LinesTo(text, k))
         IN  Mark(text, break, k + 1) = MarkOf(front, line, break, text[k + 1])
<1> DEFINE lines == LinesTo(text, k)
           front == Front(lines)
           line  == Last(lines)
           c     == text[k + 1]
           seen == Before(text, k + 1)
           count == Cardinality(SinceTo(text, k))
           mark == Mark(text, break, k + 1)
<1>1. c \notin NewLine /\ c # "b"
  BY DEF IsVisible
<1>2. /\ front \in Seq(Seq(Chars)) /\ line \in Seq(Chars) /\ c \in Chars
      /\ lines = Append(front, line)
  BY <1>1, WithinLine
<1>3. /\ seen # {} <=> SomeVisible(lines)
      /\ seen # {} => Tracks(lines, count, ShownTo(text, k) = k)
  BY DEF Follows
<1>4. count \in Nat /\ (ShownTo(text, k) = k => count = 0)
  <2>1. count \in Nat
    BY BreaksNext, FS_CardinalityType
  <2>2. ASSUME ShownTo(text, k) = k PROVE SinceTo(text, k) = {}
    BY <2>2 DEF SinceTo, Breaks
  <2> QED
    BY <2>1, <2>2, FS_EmptySet
<1>5. mark = IF seen = {} \/ ShownTo(text, k) = k THEN <<>>
             ELSE IF count >= (IF break = "line" THEN 1 ELSE 2) THEN <<"/">> ELSE <<"b">>
  BY MarkIs
<1>6. ~IsBlank(Append(line, c))
  BY <1>1, <1>2, BlankNext
<1>7. seen # {} => /\ count = 0 <=> ~IsBlank(line)
                   /\ count = 1 <=> IsBlank(line) /\ front # <<>> /\ ~IsBlank(Last(front))
                   /\ count = 0 => (ShownTo(text, k) = k <=> Last(line) # "b")
  BY <1>3 DEF Tracks
<1> HIDE DEF lines, front, line, c, seen, count, mark
<1>8. SomeVisible(lines) <=> SomeVisible(front) \/ ~IsBlank(line)
  BY <1>2, VisibleNext
<1>9. SomeVisible(front) => front # <<>>
  BY VisibleNone
<1>10. CASE IsBlank(line)
  <2>1. CASE ~SomeVisible(front)
    <3>1. seen = {}
      BY <1>3, <1>8, <1>10, <2>1
    <3>2. mark = <<>> /\ Lead(front, break, Append(line, c)) = <<>>
      BY <1>5, <2>1, <3>1 DEF Lead
    <3> QED
      BY <1>10, <3>2 DEF mark, lines, front, line, c, MarkOf
  <2>2. CASE SomeVisible(front)
    <3>1. seen # {} /\ count # 0 /\ (count = 1 <=> ~IsBlank(Last(front)))
      BY <1>3, <1>7, <1>8, <1>9, <1>10, <2>2
    <3>2. mark = IF count >= (IF break = "line" THEN 1 ELSE 2) THEN <<"/">> ELSE <<"b">>
      BY <1>4, <1>5, <3>1
    <3>3. Lead(front, break, Append(line, c))
             = IF break = "paragraph" /\ ~IsBlank(Last(front)) THEN <<"b">> ELSE <<"/">>
      BY <1>6, <2>2 DEF Lead
    <3>4. mark = Lead(front, break, Append(line, c))
      <4>1. CASE break = "line"
        BY <1>4, <3>1, <3>2, <3>3, <4>1
      <4>2. CASE break = "paragraph"
        <5>1. count >= 2 <=> count # 1
          BY <1>4, <3>1
        <5> QED
          BY <3>1, <3>2, <3>3, <4>2, <5>1
      <4> QED
        BY <4>1, <4>2
    <3> QED
      BY <1>10, <3>4 DEF mark, lines, front, line, c, MarkOf
  <2> QED
    BY <2>1, <2>2
<1>11. CASE ~IsBlank(line)
  <2>1. seen # {} /\ count = 0 /\ (ShownTo(text, k) = k <=> Last(line) # "b")
    BY <1>3, <1>7, <1>8, <1>11
  <2>2. ~(0 >= (IF break = "line" THEN 1 ELSE 2))
    OBVIOUS
  <2>3. mark = IF Last(line) # "b" THEN <<>> ELSE <<"b">>
    BY <1>5, <2>1, <2>2
  <2>4. mark = Due(line)
    BY <1>11, <2>3 DEF Due
  <2> QED
    BY <1>11, <2>4 DEF mark, lines, front, line, c, MarkOf
<1> QED
  BY <1>10, <1>11

\* A visible character.
LEMMA VisibleStep ==
  ASSUME NEW text \in Seq(Chars), NEW break \in {"line", "paragraph"},
         NEW k \in 0..(Len(text) - 1), Follows(text, break, k), IsVisible(text[k + 1])
  PROVE  Follows(text, break, k + 1)
<1> DEFINE lines == LinesTo(text, k)
           front == Front(lines)
           line  == Last(lines)
           c     == text[k + 1]
           more  == LinesTo(text, k + 1)
           longer == Append(line, c)
           mark == Mark(text, break, k + 1)
<1>1. c \notin NewLine /\ c # "b"
  BY DEF IsVisible
<1>2. /\ front \in Seq(Seq(Chars)) /\ line \in Seq(Chars) /\ c \in Chars /\ longer \in Seq(Chars)
      /\ lines = Append(front, line) /\ more = Append(front, longer)
      /\ Len(more) = Len(lines) /\ Front(more) = front /\ Last(more) = longer
      /\ BreaksTo(text, k + 1) = BreaksTo(text, k) /\ k + 1 \notin Breaks(text)
  BY <1>1, WithinLine
<1>3. /\ Len(lines) = 1 + Cardinality(BreaksTo(text, k))
      /\ Told(lines, break) = ReadTo(text, break, k)
  BY DEF Follows
<1>4. Before(text, (k + 1) + 1) # {} /\ ShownTo(text, k + 1) = k + 1
  BY BeforeNext
<1>5. SinceTo(text, k + 1) = {} /\ Cardinality(SinceTo(text, k + 1)) = 0
  <2>1. \A j \in Breaks(text) : ~(k + 1 < j /\ j < (k + 1) + 1)
    BY DEF Breaks
  <2>2. SinceTo(text, k + 1) = {}
    BY <1>4, <2>1 DEF SinceTo
  <2> QED
    BY <2>2, FS_EmptySet
<1>6. ~IsBlank(longer) /\ Last(longer) # "b"
  BY <1>1, <1>2, BlankNext
<1>7. mark = MarkOf(front, line, break, c)
  BY MarkFollows
<1>8. ReadTo(text, break, k + 1) = ReadTo(text, break, k) \o (mark \o <<c>>)
  BY ReadNext DEF ReadAt
<1> HIDE DEF lines, front, line, c, more, mark
<1>9. Told(more, break) = Told(lines, break) \o (mark \o <<c>>)
  BY <1>1, <1>2, <1>7, SaidOnce
<1>10. SomeVisible(more)
  BY <1>2, <1>6, VisibleNext
<1> HIDE DEF longer
<1>11. Tracks(more, Cardinality(SinceTo(text, k + 1)), ShownTo(text, k + 1) = k + 1)
  BY <1>2, <1>4, <1>5, <1>6 DEF Tracks
<1>12. /\ Len(more) = 1 + Cardinality(BreaksTo(text, k + 1))
       /\ Told(more, break) = ReadTo(text, break, k + 1)
  BY <1>2, <1>3, <1>8, <1>9
<1> QED
  BY <1>4, <1>10, <1>11, <1>12 DEF Follows, more

\* The lines of a passage tell what it says, and are as many as its breaks and one more.
LEMMA LinesTell ==
  ASSUME NEW text \in Seq(Chars), NEW break \in {"line", "paragraph"}
  PROVE  /\ Lines(Canonical(text)) \in Sheets(Chars)
         /\ Told(Lines(Canonical(text)), break) = Reading(text, break)
         /\ Len(Lines(Canonical(text))) = Cardinality(Breaks(text)) + 1
<1> DEFINE n == Len(text)
           S == {k \in 0..n : Follows(text, break, k) /\ LinesTo(text, k) \in Sheets(Chars)}
<1>1. n \in Nat
  OBVIOUS
<1>2. 0 \in S
  <2>1. << <<>> >> \in Sheets(Chars)
    <3> DEFINE W == Seq(Chars)
    <3>1. <<>> \in W
      OBVIOUS
    <3> HIDE DEF W
    <3>2. << <<>> >> \in Seq(W) /\ << <<>> >> # <<>>
      BY <3>1
    <3> QED
      BY <3>2 DEF Sheets, W
  <2>2. Follows(text, break, 0) /\ LinesTo(text, 0) \in Sheets(Chars)
    BY <2>1, FollowsStart, NothingYet
  <2> QED
    BY <1>1, <2>2
<1>3. ASSUME NEW k \in 0..(n - 1), k \in S PROVE k + 1 \in S
  <2>1. Follows(text, break, k) /\ LinesTo(text, k) \in Sheets(Chars) /\ k \in 0..(Len(text) - 1)
    BY <1>3
  <2>2. \/ k + 1 \in Breaks(text) \/ IsSwallowed(text, k + 1) \/ text[k + 1] = "b"
        \/ IsVisible(text[k + 1])
    <3>1. k + 1 \in 1..Len(text) /\ (k + 1 > 1 <=> k + 1 # 1)
      BY <2>1
    <3> QED
      BY <3>1 DEF Breaks, IsSwallowed, IsVisible, NewLine
  <2>3. Follows(text, break, k + 1)
    BY <2>1, <2>2, BreakStep, SwallowStep, SpaceStep, VisibleStep
  <2>4. LinesTo(text, k + 1) \in Sheets(Chars)
    <3> DEFINE more == LinesTo(text, k + 1)
    <3>1. CASE k + 1 \in Breaks(text)
      <4>1. more = Append(LinesTo(text, k), <<>>)
        BY <2>1, <3>1, LinesStep
      <4> QED
        <5>1. LinesTo(text, k) \in Seq(Seq(Chars)) /\ <<>> \in Seq(Chars)
          BY <2>1, CharsAre DEF Sheets
        <5> QED
          BY <4>1, <5>1, SheetsGrow
    <3>2. CASE IsSwallowed(text, k + 1)
      BY <2>1, <3>2, LinesStep
    <3>3. CASE text[k + 1] \notin NewLine
      <4>1. /\ Front(LinesTo(text, k)) \in Seq(Seq(Chars))
            /\ Append(Last(LinesTo(text, k)), text[k + 1]) \in Seq(Chars)
            /\ more = Append(Front(LinesTo(text, k)), Append(Last(LinesTo(text, k)), text[k + 1]))
        BY <2>1, <3>3, WithinLine
      <4> QED
        BY <4>1, SheetsGrow
    <3>4. text[k + 1] = "b" \/ IsVisible(text[k + 1]) => text[k + 1] \notin NewLine
      BY DEF IsVisible, NewLine
    <3> QED
      BY <2>2, <3>1, <3>2, <3>3, <3>4
  <2>5. k + 1 \in 0..n
    BY <1>1
  <2> QED
    BY <2>3, <2>4, <2>5
<1>4. n \in S
  <2> HIDE DEF S, n
  <2>1. n \in 0..n
    BY <1>1
  <2> QED
    BY <1>1, <1>2, <1>3, <2>1, Climb
<1>5. BreaksTo(text, n) = Breaks(text)
  BY <1>1 DEF BreaksTo, Breaks
<1>6. Cardinality(Breaks(text)) \in Nat
  <2>1. IsFiniteSet(1..n) /\ Breaks(text) \subseteq 1..n
    BY <1>1, FS_Interval DEF Breaks
  <2> QED
    BY <2>1, FS_Subset, FS_CardinalityType
<1>7. LinesTo(text, n) = Lines(Canonical(text)) /\ ReadTo(text, break, n) = Reading(text, break)
  BY WholeText
<1>8. Follows(text, break, n) /\ LinesTo(text, n) \in Sheets(Chars)
  BY <1>4
<1> HIDE DEF n
<1> QED
  BY <1>5, <1>6, <1>7, <1>8 DEF Follows

--------------------------------------------------------------------------------
(* Escapes *)

LEMMA ReplaceNext ==
  ASSUME NEW text \in Seq(Chars), NEW c \in Chars, NEW old, NEW new \in Seq(Chars)
  PROVE  /\ Replace(text, old, new) \in Seq(Chars)
         /\ Replace(Append(text, c), old, new)
               = Replace(text, old, new) \o (IF c = old THEN new ELSE <<c>>)
         /\ c # old => Replace(Append(text, c), old, new) = Append(Replace(text, old, new), c)
<1> DEFINE At(t, i) == IF t[i] = old THEN new ELSE <<t[i]>>
           n == Len(text)
           longer == Append(text, c)
           f == [i \in 1..(n + 1) |-> At(longer, i)]
           g == [i \in 1..n |-> At(text, i)]
<1>1. /\ n \in Nat /\ longer \in Seq(Chars) /\ Len(longer) = n + 1 /\ longer[n + 1] = c
      /\ \A i \in 1..n : longer[i] = text[i]
  BY AppendIs
<1>2. FlattenSeq(g) = Replace(text, old, new) /\ FlattenSeq(f) = Replace(longer, old, new)
  BY <1>1 DEF Replace
<1> HIDE DEF n, longer
<1>3. \A x \in Chars : <<x>> \in Seq(Chars)
  OBVIOUS
<1>4. \A i \in 1..(n + 1) : At(longer, i) \in Seq(Chars)
  <2> SUFFICES ASSUME NEW i \in 1..(n + 1) PROVE At(longer, i) \in Seq(Chars)
    OBVIOUS
  <2>1. longer[i] \in Chars
    BY <1>1, ElementOfSeq
  <2> QED
    BY <1>3, <2>1
<1>5. \A i \in 1..n : At(text, i) = At(longer, i) /\ i \in 1..(n + 1)
  BY <1>1
<1>6. f \in [1..(n + 1) -> Seq(Chars)] /\ g \in [1..n -> Seq(Chars)] /\ \A i \in 1..n : g[i] = f[i]
  <2> HIDE DEF At
  <2> QED
    BY <1>4, <1>5
<1>7. f[n + 1] = IF c = old THEN new ELSE <<c>>
  <2>1. n + 1 \in 1..(n + 1)
    BY <1>1
  <2> QED
    BY <1>1, <2>1
<1> HIDE DEF f, g, At
<1>8. FlattenSeq(g) \in Seq(Chars) /\ FlattenSeq(f) = FlattenSeq(g) \o f[n + 1]
  BY <1>1, <1>6, FlatNext
<1>9. /\ Replace(text, old, new) \in Seq(Chars)
      /\ Replace(longer, old, new)
            = Replace(text, old, new) \o (IF c = old THEN new ELSE <<c>>)
  BY <1>2, <1>7, <1>8
<1>10. Append(Replace(text, old, new), c) = Replace(text, old, new) \o <<c>>
  BY <1>9, AppendOne
<1> QED
  BY <1>9, <1>10 DEF longer

LEMMA ReplaceTyped ==
  ASSUME NEW text \in Seq(Chars), NEW old, NEW new \in Seq(Chars)
  PROVE  Replace(text, old, new) \in Seq(Chars)
<1> PICK c \in Chars : TRUE
  BY CharsAre
<1> QED
  BY ReplaceNext

LEMMA ReplaceOther ==
  ASSUME NEW text \in Seq(Chars), NEW c \in Chars, NEW old, NEW new \in Seq(Chars), c # old
  PROVE  Replace(Append(text, c), old, new) = Append(Replace(text, old, new), c)
<1> DEFINE short == Replace(text, old, new)
<1>1. Replace(Append(text, c), old, new) = short \o (IF c = old THEN new ELSE <<c>>)
  BY ReplaceNext
<1>2. short \in Seq(Chars)
  BY ReplaceTyped
<1> HIDE DEF short
<1>3. Append(short, c) = short \o <<c>>
  BY <1>2, AppendOne
<1>4. Replace(Append(text, c), old, new) = Append(short, c)
  BY <1>1, <1>3
<1> QED
  BY <1>4 DEF short

LEMMA ReplaceThis ==
  ASSUME NEW text \in Seq(Chars), NEW c \in Chars, NEW new \in Seq(Chars)
  PROVE  Replace(Append(text, c), c, new) = Replace(text, c, new) \o new
<1> DEFINE old == c
<1>1. Replace(Append(text, c), old, new)
         = Replace(text, old, new) \o (IF c = old THEN new ELSE <<c>>)
  <2> HIDE DEF old
  <2> QED
    BY ReplaceNext
<1> QED
  BY <1>1

LEMMA AppendTwo ==
  ASSUME NEW V, NEW s \in Seq(V), NEW x \in V, NEW y \in V
  PROVE  s \o <<x, y>> = Append(Append(s, x), y)
<1>1. <<x>> \in Seq(V) /\ <<y>> \in Seq(V) /\ <<x>> \o <<y>> = <<x, y>>
  BY TwoOnes
<1>2. Append(s, x) = s \o <<x>> /\ Append(s, x) \in Seq(V)
  BY AppendOne, AppendIs
<1>3. Append(Append(s, x), y) = Append(s, x) \o <<y>>
  BY <1>2, AppendOne
<1>4. (s \o <<x>>) \o <<y>> = s \o (<<x>> \o <<y>>)
  BY <1>1, ConcatAssociative
<1> QED
  BY <1>1, <1>2, <1>3, <1>4

EscapedOf(c) == CASE c = "&" -> <<"&", "amp;">>
                  [] c = "<" -> <<"&", "lt;">>
                  [] c = "{" -> <<"&", "#123;">>
                  [] OTHER   -> <<c>>

\* A pair of characters that a replacement does not concern.
Untouched(text, x, y, old, new) ==
    Replace(text \o <<x, y>>, old, new) = Replace(text, old, new) \o <<x, y>>

LEMMA ReplaceUntouched ==
  ASSUME NEW text \in Seq(Chars), NEW x \in Chars, NEW y \in Chars, NEW old,
         NEW new \in Seq(Chars), x # old, y # old
  PROVE  Untouched(text, x, y, old, new)
<1> DEFINE one == Append(text, x)
           short == Replace(text, old, new)
<1>1. one \in Seq(Chars)
  BY AppendIs
<1>2. text \o <<x, y>> = Append(one, y)
  BY AppendTwo
<1>3. Replace(one, old, new) = Append(short, x)
  BY ReplaceOther
<1>4. short \in Seq(Chars)
  BY ReplaceTyped
<1> HIDE DEF one, short
<1>5. Replace(Append(one, y), old, new) = Append(Replace(one, old, new), y)
  BY <1>1, ReplaceOther
<1>6. short \o <<x, y>> = Append(Append(short, x), y)
  BY <1>4, AppendTwo
<1>7. Replace(text \o <<x, y>>, old, new) = short \o <<x, y>>
  BY <1>2, <1>3, <1>5, <1>6
<1> QED
  BY <1>7 DEF short, Untouched

LEMMA EscapeNext ==
  ASSUME NEW text \in Seq(Chars), NEW c \in Chars
  PROVE  /\ EscapeWordXmlText(text) \in Seq(Chars)
         /\ EscapeWordXmlText(Append(text, c)) = EscapeWordXmlText(text) \o EscapedOf(c)
<1>1. PICK a \in Chars, less \in Chars, brace \in Chars, e1 \in Chars, e2 \in Chars, e3 \in Chars :
             a = "&" /\ less = "<" /\ brace = "{" /\ e1 = "amp;" /\ e2 = "lt;" /\ e3 = "#123;"
  BY CharsAre
<1>0. <<a, e1>> \in Seq(Chars) /\ <<a, e2>> \in Seq(Chars) /\ <<a, e3>> \in Seq(Chars)
  OBVIOUS
<1>2. PICK amp \in Seq(Chars), lt \in Seq(Chars), bra \in Seq(Chars) :
             amp = <<a, e1>> /\ lt = <<a, e2>> /\ bra = <<a, e3>>
  BY <1>0
<1>3. PICK one \in Seq(Chars) : one = Replace(text, a, amp)
  BY ReplaceTyped
<1>4. PICK two \in Seq(Chars) : two = Replace(one, less, lt)
  BY ReplaceTyped
<1>5. PICK all \in Seq(Chars) : all = Replace(two, brace, bra)
  BY ReplaceTyped
<1>6. PICK longer \in Seq(Chars) : longer = Append(text, c)
  BY AppendIs
<1>7. PICK one2, two2, all2 : /\ one2 = Replace(longer, a, amp)
                              /\ two2 = Replace(one2, less, lt)
                              /\ all2 = Replace(two2, brace, bra)
  OBVIOUS
<1>8. EscapeWordXmlText(text) = all /\ EscapeWordXmlText(longer) = all2
  BY <1>1, <1>2, <1>3, <1>4, <1>5, <1>7 DEF EscapeWordXmlText
<1>9. all2 = all \o EscapedOf(c)
  <2>1. CASE c = a
    <3>1. one2 = one \o amp
      <4>1. Replace(Append(text, c), c, amp) = Replace(text, c, amp) \o amp
        BY ReplaceThis
      <4> QED
        BY <1>3, <1>6, <1>7, <2>1, <4>1
    <3>2. two2 = two \o amp
      <4>1. a # less /\ e1 # less
        BY <1>1
      <4>2. Untouched(one, a, e1, less, lt)
        BY <4>1, ReplaceUntouched
      <4>3. Replace(one \o <<a, e1>>, less, lt) = Replace(one, less, lt) \o <<a, e1>>
        BY <4>2 DEF Untouched
      <4> QED
        BY <1>2, <1>4, <1>7, <3>1, <4>3
    <3>3. all2 = all \o amp
      <4>1. a # brace /\ e1 # brace
        BY <1>1
      <4>2. Untouched(two, a, e1, brace, bra)
        BY <4>1, ReplaceUntouched
      <4>3. Replace(two \o <<a, e1>>, brace, bra) = Replace(two, brace, bra) \o <<a, e1>>
        BY <4>2 DEF Untouched
      <4> QED
        BY <1>2, <1>5, <1>7, <3>2, <4>3
    <3> QED
      BY <1>1, <1>2, <2>1, <3>3 DEF EscapedOf
  <2>2. CASE c # a
    <3>1. one2 = Append(one, c)
      <4>1. Replace(Append(text, c), a, amp) = Append(Replace(text, a, amp), c)
        BY <2>2, ReplaceOther
      <4> QED
        BY <1>3, <1>6, <1>7, <4>1
    <3>2. CASE c = less
      <4>1. two2 = two \o lt
        <5>1. Replace(Append(one, c), c, lt) = Replace(one, c, lt) \o lt
          BY ReplaceThis
        <5> QED
          BY <1>4, <1>7, <3>1, <3>2, <5>1
      <4>2. all2 = all \o lt
        <5>1. a # brace /\ e2 # brace
          BY <1>1
        <5>2. Untouched(two, a, e2, brace, bra)
          BY <5>1, ReplaceUntouched
        <5>3. Replace(two \o <<a, e2>>, brace, bra) = Replace(two, brace, bra) \o <<a, e2>>
          BY <5>2 DEF Untouched
        <5> QED
          BY <1>2, <1>5, <1>7, <4>1, <5>3
      <4> QED
        BY <1>1, <1>2, <3>2, <4>2 DEF EscapedOf
    <3>3. CASE c # less
      <4>1. two2 = Append(two, c)
        <5>1. Replace(Append(one, c), less, lt) = Append(Replace(one, less, lt), c)
          BY <3>3, ReplaceOther
        <5> QED
          BY <1>4, <1>7, <3>1, <5>1
      <4>2. CASE c = brace
        <5>1. Replace(Append(two, c), c, bra) = Replace(two, c, bra) \o bra
          BY ReplaceThis
        <5>2. all2 = all \o bra
          BY <1>5, <1>7, <4>1, <4>2, <5>1
        <5> QED
          BY <1>1, <1>2, <4>2, <5>2 DEF EscapedOf
      <4>3. CASE c # brace
        <5>1. Replace(Append(two, c), brace, bra) = Append(Replace(two, brace, bra), c)
          BY <4>3, ReplaceOther
        <5>2. all2 = Append(all, c)
          BY <1>5, <1>7, <4>1, <5>1
        <5>3. Append(all, c) = all \o <<c>>
          BY AppendOne
        <5>4. EscapedOf(c) = <<c>>
          BY <1>1, <2>2, <3>3, <4>3 DEF EscapedOf
        <5> QED
          BY <5>2, <5>3, <5>4
      <4> QED
        BY <4>2, <4>3
    <3> QED
      BY <3>2, <3>3
  <2> QED
    BY <2>1, <2>2
<1> QED
  BY <1>6, <1>8, <1>9

UnescapedAt(segment, i) ==
    IF i > 1 /\ segment[i - 1] = "&"
    THEN IF segment[i] \in DOMAIN Entity THEN <<Entity[segment[i]]>> ELSE <<"bare">>
    ELSE IF segment[i] = "&" THEN <<>> ELSE <<segment[i]>>

LEMMA EntitiesAre ==
  /\ "amp;" \in DOMAIN Entity /\ Entity["amp;"] = "&"
  /\ "lt;" \in DOMAIN Entity /\ Entity["lt;"] = "<"
  /\ "#123;" \in DOMAIN Entity /\ Entity["#123;"] = "{"
  /\ \A e \in DOMAIN Entity : Entity[e] \in Chars
<1>1. /\ "amp;" \in DOMAIN Entity /\ Entity["amp;"] = "&"
      /\ "lt;" \in DOMAIN Entity /\ Entity["lt;"] = "<"
      /\ "#123;" \in DOMAIN Entity /\ Entity["#123;"] = "{"
      /\ DOMAIN Entity = {"amp;", "lt;", "#123;"}
  BY DEF Entity
<1> QED
  BY <1>1, CharsAre

LEMMA UnescapedNext ==
  ASSUME NEW text \in Seq(Chars), NEW c \in Chars
  PROVE  /\ Unescaped(text) \in Seq(Chars)
         /\ ~(text # <<>> /\ Last(text) = "&") /\ c = "&" =>
               Unescaped(Append(text, c)) = Unescaped(text)
         /\ ~(text # <<>> /\ Last(text) = "&") /\ c # "&" =>
               Unescaped(Append(text, c)) = Append(Unescaped(text), c)
         /\ text # <<>> /\ Last(text) = "&" /\ c \in DOMAIN Entity =>
               Unescaped(Append(text, c)) = Append(Unescaped(text), Entity[c])
<1> DEFINE n == Len(text)
           longer == Append(text, c)
           f == [i \in 1..(n + 1) |-> UnescapedAt(longer, i)]
           g == [i \in 1..n |-> UnescapedAt(text, i)]
<1>1. /\ n \in Nat /\ longer \in Seq(Chars) /\ Len(longer) = n + 1 /\ longer[n + 1] = c
      /\ \A i \in 1..n : longer[i] = text[i]
  BY AppendIs
<1>2. FlattenSeq(g) = Unescaped(text) /\ FlattenSeq(f) = Unescaped(longer)
  BY <1>1 DEF Unescaped, UnescapedAt
<1>0. (text # <<>> <=> n > 0) /\ (n > 0 => Last(text) = longer[n])
  BY <1>1 DEF Last
<1> HIDE DEF n, longer
<1>3. (\A x \in Chars : <<x>> \in Seq(Chars)) /\ <<"bare">> \in Seq(Chars) /\ <<>> \in Seq(Chars)
  <2>1. "bare" \in Chars
    BY DEF Chars
  <2>2. \A x \in Chars : <<x>> \in Seq(Chars)
    OBVIOUS
  <2> QED
    BY <2>1, <2>2, CharsAre
<1>4. \A i \in 1..(n + 1) : UnescapedAt(longer, i) \in Seq(Chars)
  <2> SUFFICES ASSUME NEW i \in 1..(n + 1) PROVE UnescapedAt(longer, i) \in Seq(Chars)
    OBVIOUS
  <2>1. longer[i] \in Chars
    BY <1>1, ElementOfSeq
  <2> QED
    BY <1>3, <2>1, EntitiesAre DEF UnescapedAt
<1>5. ASSUME NEW i \in 1..n PROVE UnescapedAt(text, i) = UnescapedAt(longer, i) /\ i \in 1..(n + 1)
  <2>1. longer[i] = text[i] /\ (i > 1 => longer[i - 1] = text[i - 1])
    BY <1>1
  <2> QED
    BY <1>1, <2>1 DEF UnescapedAt
<1>6. f \in [1..(n + 1) -> Seq(Chars)] /\ g \in [1..n -> Seq(Chars)] /\ \A i \in 1..n : g[i] = f[i]
  BY <1>4, <1>5
<1>7. f[n + 1] = UnescapedAt(longer, n + 1) /\ (n + 1) - 1 = n /\ (n + 1 > 1 <=> n > 0)
  <2>1. n + 1 \in 1..(n + 1)
    BY <1>1
  <2> QED
    BY <1>1, <2>1
<1> HIDE DEF f, g
<1>8. FlattenSeq(g) \in Seq(Chars) /\ FlattenSeq(f) = FlattenSeq(g) \o f[n + 1]
  BY <1>1, <1>6, FlatNext
<1>9. f[n + 1] = IF text # <<>> /\ Last(text) = "&"
                 THEN IF c \in DOMAIN Entity THEN <<Entity[c]>> ELSE <<"bare">>
                 ELSE IF c = "&" THEN <<>> ELSE <<c>>
  BY <1>0, <1>1, <1>7 DEF UnescapedAt
<1>10. \A x \in Chars : Append(FlattenSeq(g), x) = FlattenSeq(g) \o <<x>>
  BY <1>8, AppendOne
<1>11. FlattenSeq(g) \o <<>> = FlattenSeq(g)
  BY <1>8, NoneBesides
<1>12. c \in DOMAIN Entity => Entity[c] \in Chars
  BY EntitiesAre
<1> QED
  BY <1>2, <1>8, <1>9, <1>10, <1>11, <1>12 DEF longer

\* What is escaped is read back, and opens no tag and no template expression.
ReadsBack(text) ==
    LET escaped == EscapeWordXmlText(text)
    IN  /\ escaped \in Seq(Chars)
        /\ escaped # <<>> => Last(escaped) # "&"
        /\ Unescaped(escaped) = text
        /\ \A i \in 1..Len(escaped) : escaped[i] \notin {"<", "{"}

LEMMA HarmlessNext ==
  ASSUME NEW s \in Seq(Chars), NEW c \in Chars, c \notin {"<", "{"},
         \A i \in 1..Len(s) : s[i] \notin {"<", "{"}
  PROVE  \A i \in 1..Len(Append(s, c)) : Append(s, c)[i] \notin {"<", "{"}
<1> DEFINE longer == Append(s, c)
           n == Len(s)
<1>0. s \in Seq(Chars) /\ c \in Chars
  OBVIOUS
<1>1. n \in Nat /\ Len(longer) = n + 1 /\ longer[n + 1] = c /\ \A i \in 1..n : longer[i] = s[i]
  BY ONLY <1>0, AppendIs
<1>2. \A i \in 1..n : s[i] \notin {"<", "{"}
  OBVIOUS
<1> HIDE DEF longer, n
<1>3. \A i \in 1..(n + 1) : i \in 1..n \/ i = n + 1
  BY ONLY <1>1
<1>4. \A i \in 1..Len(longer) : longer[i] \notin {"<", "{"}
  BY <1>1, <1>2, <1>3
<1> QED
  BY <1>4 DEF longer

LEMMA ReadsBackNext ==
  ASSUME NEW text \in Seq(Chars), NEW c \in Chars, ReadsBack(text)
  PROVE  ReadsBack(Append(text, c))
<1> DEFINE escaped == EscapeWordXmlText(text)
           more == EscapeWordXmlText(Append(text, c))
<1>0. ASSUME NEW s \in Seq(Chars), NEW x \in Chars, NEW y \in Chars
      PROVE  /\ s \o <<x, y>> = Append(Append(s, x), y)
             /\ Append(s, x) \in Seq(Chars) /\ Append(s, x) # <<>> /\ Last(Append(s, x)) = x
  <2>1. s \o <<x, y>> = Append(Append(s, x), y)
    BY AppendTwo
  <2>2. Append(s, x) \in Seq(Chars) /\ Append(s, x) # <<>>
    BY AppendIs
  <2>3. Last(Append(s, x)) = x
    BY FrontAppend
  <2> QED
    BY <2>1, <2>2, <2>3
<1>1. /\ escaped \in Seq(Chars) /\ ~(escaped # <<>> /\ Last(escaped) = "&")
      /\ Unescaped(escaped) = text /\ \A i \in 1..Len(escaped) : escaped[i] \notin {"<", "{"}
  BY DEF ReadsBack
<1>2. more = escaped \o EscapedOf(c)
  BY EscapeNext
<1> HIDE DEF escaped, more
<1>3. CASE c \notin {"&", "<", "{"}
  <2>1. EscapedOf(c) = <<c>>
    BY <1>3 DEF EscapedOf
  <2>2. more = Append(escaped, c)
    BY <1>1, <1>2, <2>1, AppendOne
  <2>3. more \in Seq(Chars) /\ Last(more) = c
    BY <1>1, <2>2, AppendIs, FrontAppend
  <2>4. Unescaped(more) = Append(text, c)
    BY <1>1, <1>3, <2>2, UnescapedNext
  <2>5. \A i \in 1..Len(more) : more[i] \notin {"<", "{"}
    BY <1>1, <1>3, <2>2, HarmlessNext
  <2> QED
    BY <1>3, <2>3, <2>4, <2>5 DEF ReadsBack, more
<1>4. ASSUME NEW e \in {"amp;", "lt;", "#123;"}, EscapedOf(c) = <<"&", e>>, Entity[e] = c
      PROVE  ReadsBack(Append(text, c))
  <2> PICK a \in Chars : a = "&"
    BY CharsAre
  <2> DEFINE opened == Append(escaped, a)
  <2>0. a \in Chars /\ a = "&" /\ e \in Chars /\ e \in DOMAIN Entity
    BY <1>4, CharsAre, EntitiesAre
  <2>1. more = Append(opened, e) /\ opened \in Seq(Chars)
        /\ opened # <<>> /\ Last(opened) = "&"
    <3>0. escaped \in Seq(Chars)
      BY <1>1
    <3>4. a \in Chars /\ e \in Chars
      BY <2>0
    <3>1. /\ escaped \o <<a, e>> = Append(Append(escaped, a), e)
          /\ opened \in Seq(Chars) /\ opened # <<>> /\ Last(opened) = a
      BY ONLY <3>0, <3>4, <1>0, Zenon
    <3> QED
      BY <1>2, <1>4, <2>0, <3>1
  <2>2. Unescaped(opened) = text
    BY <1>1, <2>0, UnescapedNext
  <2>3. \A i \in 1..Len(opened) : opened[i] \notin {"<", "{"}
    BY <1>1, <2>0, HarmlessNext
  <2> HIDE DEF opened
  <2>4. Unescaped(more) = Append(text, c)
    BY <1>4, <2>0, <2>1, <2>2, UnescapedNext
  <2>5. more \in Seq(Chars) /\ Last(more) = e /\ e # "&" /\ e \notin {"<", "{"}
    BY <1>4, <2>0, <2>1, AppendIs, FrontAppend
  <2>6. \A i \in 1..Len(more) : more[i] \notin {"<", "{"}
    BY <2>0, <2>1, <2>3, <2>5, HarmlessNext
  <2> QED
    BY <2>4, <2>5, <2>6 DEF ReadsBack, more
<1>5. CASE c \in {"&", "<", "{"}
  <2>1. \E e \in {"amp;", "lt;", "#123;"} : EscapedOf(c) = <<"&", e>> /\ Entity[e] = c
    BY <1>5, EntitiesAre DEF EscapedOf
  <2> QED
    BY <1>4, <2>1
<1> QED
  BY <1>3, <1>5

LEMMA EscapesReadBack ==
  ASSUME NEW text \in Seq(Chars)
  PROVE  ReadsBack(text)
<1> DEFINE P == {t \in Seq(Chars) : ReadsBack(t)}
<1>1. <<>> \in P
  <2> DEFINE none == <<>>
             g == [i \in 1..Len(none) |-> UnescapedAt(none, i)]
  <2>1. g = none
    OBVIOUS
  <2>2. Unescaped(none) = FlattenSeq(g)
    BY DEF Unescaped, UnescapedAt
  <2>3. \A old, new : Replace(none, old, new) = none
    <3> SUFFICES ASSUME NEW old, NEW new PROVE Replace(none, old, new) = none
      OBVIOUS
    <3> DEFINE r == [i \in 1..Len(none) |-> IF none[i] = old THEN new ELSE <<none[i]>>]
    <3>1. r = none
      OBVIOUS
    <3>2. Replace(none, old, new) = FlattenSeq(r)
      BY DEF Replace
    <3> HIDE DEF r
    <3> QED
      BY <3>1, <3>2, FlatNone
  <2> HIDE DEF g
  <2>4. Unescaped(none) = none
    BY <2>1, <2>2, FlatNone
  <2>5. EscapeWordXmlText(none) = none
    BY <2>3 DEF EscapeWordXmlText
  <2>6. none \in Seq(Chars) /\ Len(none) = 0
    BY CharsAre
  <2>7. ReadsBack(none)
    <3>1. \A i \in 1..Len(none) : FALSE
      BY ONLY <2>6
    <3> QED
      BY <2>4, <2>5, <2>6, <3>1 DEF ReadsBack
  <2> QED
    BY <2>6, <2>7
<1>2. ASSUME NEW t \in Seq(Chars), NEW c \in Chars, t \in P PROVE Append(t, c) \in P
  <2>1. ReadsBack(Append(t, c))
    BY <1>2, ReadsBackNext
  <2> QED
    BY <2>1, AppendIs
<1>3. text \in P
  <2> HIDE DEF P
  <2> QED
    BY <1>1, <1>2, Grows
<1> QED
  BY <1>3

LEMMA Widened ==
  ASSUME NEW V, NEW W, V \subseteq W, NEW s \in Seq(V)
  PROVE  s \in Seq(W)
OBVIOUS

LEMMA SegmentIs ==
  ASSUME NEW piece \in Seq(Chars)
  PROVE  /\ Unescaped(EscapeWordXmlText(Normalized(piece))) = Normalized(piece)
         /\ \A i \in 1..Len(EscapeWordXmlText(Normalized(piece))) :
               EscapeWordXmlText(Normalized(piece))[i] \notin {"<", "{"}
<1> DEFINE shown == Normalized(piece)
<1>1. shown \in Seq(Chars)
  BY BlankIs
<1> HIDE DEF shown
<1>2. ReadsBack(shown)
  BY <1>1, EscapesReadBack
<1> QED
  BY <1>2 DEF ReadsBack, shown

\* The segments of pieces that tell what the passage says.
LEMMA SegmentsTell ==
  ASSUME NEW pieces \in Seq(Seq(Chars)), NEW said, Told(pieces, "line") = said
  PROVE  LET segments == [n \in 1..Len(pieces) |-> EscapeWordXmlText(Normalized(pieces[n]))]
         IN  /\ Len(segments) = Len(pieces)
             /\ Joined([n \in 1..Len(segments) |-> Unescaped(segments[n])]) = said
             /\ \A n \in 1..Len(segments) : \A i \in 1..Len(segments[n]) :
                    segments[n][i] \notin {"<", "{"}
<1> DEFINE len == Len(pieces)
           Seen(n) == Normalized(pieces[n])
           segments == [n \in 1..len |-> EscapeWordXmlText(Seen(n))]
<1>1. len \in Nat /\ \A n \in 1..len : pieces[n] \in Seq(Chars)
  <2> DEFINE W == Seq(Chars)
  <2>1. pieces \in Seq(W)
    OBVIOUS
  <2> HIDE DEF W
  <2>2. len \in Nat /\ \A n \in 1..len : pieces[n] \in W
    BY <2>1
  <2> QED
    BY <2>2 DEF W
<1>2. Joined([n \in 1..len |-> Seen(n)]) = said
  BY JoinedIs
<1> HIDE DEF len
<1>3. Len(segments) = len /\ \A n \in 1..len : segments[n] = EscapeWordXmlText(Seen(n))
  <2> HIDE DEF Seen
  <2> QED
    BY <1>1
<1>4. ASSUME NEW n \in 1..len
      PROVE  /\ Unescaped(EscapeWordXmlText(Seen(n))) = Seen(n)
             /\ \A i \in 1..Len(EscapeWordXmlText(Seen(n))) :
                   EscapeWordXmlText(Seen(n))[i] \notin {"<", "{"}
  <2> DEFINE piece == pieces[n]
  <2>1. piece \in Seq(Chars)
    BY <1>1
  <2> HIDE DEF piece
  <2>2. /\ Unescaped(EscapeWordXmlText(Normalized(piece))) = Normalized(piece)
        /\ \A i \in 1..Len(EscapeWordXmlText(Normalized(piece))) :
              EscapeWordXmlText(Normalized(piece))[i] \notin {"<", "{"}
    BY <2>1, SegmentIs
  <2> QED
    BY <2>2 DEF piece
<1> HIDE DEF segments, Seen
<1>5. [n \in 1..Len(segments) |-> Unescaped(segments[n])] = [n \in 1..len |-> Seen(n)]
  BY <1>3, <1>4
<1>6. \A n \in 1..Len(segments) : \A i \in 1..Len(segments[n]) : segments[n][i] \notin {"<", "{"}
  BY <1>3, <1>4
<1>7. Joined([n \in 1..Len(segments) |-> Unescaped(segments[n])]) = said
  BY <1>2, <1>5
<1> QED
  BY <1>3, <1>6, <1>7 DEF segments, Seen, len

PiecesOf(text, break) == IF break = "line" THEN Lines(Canonical(text)) ELSE Paragraphs(Canonical(text))

LEMMA PiecesTell ==
  ASSUME NEW text \in Seq(Chars), NEW break \in {"line", "paragraph"}
  PROVE  /\ PiecesOf(text, break) \in Seq(Seq(Chars))
         /\ Told(PiecesOf(text, break), "line") = Reading(text, break)
         /\ break = "line" => Len(PiecesOf(text, break)) = Cardinality(Breaks(text)) + 1
<1> DEFINE lines == Lines(Canonical(text))
<1>1. /\ lines \in Sheets(Chars) /\ Told(lines, break) = Reading(text, break)
      /\ Len(lines) = Cardinality(Breaks(text)) + 1
  BY LinesTell
<1>2. Paragraphs(Canonical(text)) = ParagraphsOf(lines)
  BY ParagraphsAre
<1> HIDE DEF lines
<1>3. CASE break = "line"
  <2>1. PiecesOf(text, break) = lines
    BY <1>3 DEF PiecesOf, lines
  <2>2. lines \in Seq(Seq(Chars))
    BY <1>1, SheetsAre
  <2> QED
    BY <1>1, <1>3, <2>1, <2>2
<1>4. CASE break = "paragraph"
  <2>1. PiecesOf(text, break) = ParagraphsOf(lines)
    BY <1>2, <1>4 DEF PiecesOf
  <2>2. /\ ParagraphsOf(lines) \in Seq(Seq(Chars))
        /\ Told(ParagraphsOf(lines), "line") = Told(lines, "paragraph")
    BY <1>1, ParagraphsTell
  <2> QED
    BY <1>1, <1>4, <2>1, <2>2
<1> QED
  BY <1>3, <1>4

\* The segments of a passage say what it says: every visible character once and in its
\* place, two of them in different segments exactly when the chosen kind of break is
\* between them, and nothing that opens a tag or a template expression
\* (SegmentsKeepThePassage).
THEOREM SegmentsSayThePassage == FormatSpec => []SegmentsKeepThePassage
<1> DEFINE Inv == given \in Givens /\ SegmentsKeepThePassage
<1>1. FormatInit => Inv
  BY DEF FormatInit, Givens, SegmentsKeepThePassage
<1>2. Inv /\ [FormatNext]_<<given, formatted>> => Inv'
  <2> SUFFICES ASSUME Inv, [FormatNext]_<<given, formatted>> PROVE Inv'
    OBVIOUS
  <2>1. CASE FormatMultiline
    <3>1. given' = given /\ given.form = "passage" /\ given \in Givens
          /\ given.text \in Passages /\ given.break \in {"line", "paragraph"}
      BY <2>1 DEF FormatMultiline, Givens
    <3>2. CASE \E i \in 1..Len(given.text) : given.text[i] = "x"
      <4>1. formatted' = Refused
        BY <2>1, <3>2 DEF FormatMultiline
      <4> QED
        BY <3>1, <3>2, <4>1 DEF SegmentsKeepThePassage
    <3>3. CASE ~\E i \in 1..Len(given.text) : given.text[i] = "x"
      <4> DEFINE text == given.text
                 break == given.break
                 pieces == PiecesOf(text, break)
                 segments == [n \in 1..Len(pieces) |->
                                 EscapeWordXmlText(Normalized(pieces[n]))]
      <4>1. formatted' = [segments |-> segments]
        BY <2>1, <3>3 DEF FormatMultiline, PiecesOf
      <4>2. formatted' # Refused /\ formatted'.segments = segments
        <5> HIDE DEF segments
        <5> QED
          BY <4>1 DEF Refused
      <4>3. text \in Seq(Chars)
        <5>1. text \in Seq(STRING)
          BY <3>1, PassagesAssumption
        <5> HIDE DEF text
        <5> QED
          BY <5>1, CharsAre, Widened
      <4>4. break \in {"line", "paragraph"}
        BY <3>1
      <4> HIDE DEF text, break
      <4>5. /\ pieces \in Seq(Seq(Chars)) /\ Told(pieces, "line") = Reading(text, break)
            /\ break = "line" => Len(pieces) = Cardinality(Breaks(text)) + 1
        BY <4>3, <4>4, PiecesTell
      <4> HIDE DEF pieces
      <4>6. /\ Len(segments) = Len(pieces)
            /\ Joined([n \in 1..Len(segments) |-> Unescaped(segments[n])]) = Reading(text, break)
            /\ \A n \in 1..Len(segments) : \A i \in 1..Len(segments[n]) :
                   segments[n][i] \notin {"<", "{"}
        BY <4>5, SegmentsTell
      <4> HIDE DEF segments
      <4>7. break = "line" => Len(segments) = Cardinality(Breaks(text)) + 1
        BY <4>5, <4>6
      <4> QED
        BY <3>1, <4>2, <4>6, <4>7 DEF SegmentsKeepThePassage, text, break
    <3> QED
      BY <3>2, <3>3
  <2>2. CASE FormatCurrency
    BY <2>2 DEF FormatCurrency, SegmentsKeepThePassage
  <2>3. CASE UNCHANGED <<given, formatted>>
    BY <2>3 DEF SegmentsKeepThePassage
  <2> QED
    BY <2>1, <2>2, <2>3 DEF FormatNext
<1> QED
  BY <1>1, <1>2, PTL DEF FormatSpec
=================================================================================
