----------------------------- MODULE LegalFormatters ----------------------------
(* apps/core/legal_formatters.py: amounts of money in Vietnamese words, and       *)
(* passages of several lines as the escaped segments that go into a document.     *)
(*                                                                                *)
(* An amount is the sequence of its groups of three digits, lowest first, since   *)
(* the amounts exceed TLC's integers.  Words are written without diacritics;      *)
(* where that would merge two of them the tone is marked: mot is one, mot' the    *)
(* unit one after a ten.  A passage is a sequence of characters, of which "b"     *)
(* stands for a tab or a space and "x" for one that is not allowed.               *)
EXTENDS Integers, Sequences, SequencesExt

CONSTANTS Amounts,     \* sequences of groups, the highest one not zero
          Passages     \* sequences of characters

VARIABLES given,       \* what a mapper passes to the formatter
          formatted    \* what it gets back

ASSUME AmountsAssumption ==
    \A groups \in Amounts : /\ groups \in Seq(0..999)
                            /\ groups # <<>> => groups[Len(groups)] # 0

Refused == [refused |-> TRUE]
Waiting == [waiting |-> TRUE]

--------------------------------------------------------------------------------
(* Amounts *)

Digits == <<"khong", "mot", "hai", "ba", "bon", "nam", "sau", "bay", "tam", "chin">>
Digit(d) == Digits[d + 1]
GroupScales == << <<>>, <<"nghin">>, <<"trieu">>, <<"ty">>, <<"nghin", "ty">> >>
MaxGroups == 5         \* _MAX_CURRENCY_AMOUNT

AfterTens(units) == CASE units = 0 -> <<>>
                      [] units = 1 -> <<"mot'">>
                      [] units = 4 -> <<"tu">>
                      [] units = 5 -> <<"lam">>
                      [] OTHER     -> <<Digit(units)>>

AfterTen(units) == CASE units = 0 -> <<>>
                     [] units = 5 -> <<"lam">>
                     [] OTHER     -> <<Digit(units)>>

\* Mutant: a lone unit follows the hundreds without "le".
ReadWithoutLe(value, zeroHundreds) ==
    LET hundreds == value \div 100
        tens     == (value % 100) \div 10
        units    == value % 10
    IN  (IF hundreds > 0 \/ zeroHundreds THEN <<Digit(hundreds), "tram">> ELSE <<>>)
        \o CASE tens > 1  -> <<Digit(tens), "muoi">> \o AfterTens(units)
             [] tens = 1  -> <<"muoi'">> \o AfterTen(units)
             [] OTHER     -> IF units = 0 THEN <<>> ELSE <<Digit(units)>>

ReadUnderThousand(value, zeroHundreds) ==
    LET hundreds == value \div 100
        tens     == (value % 100) \div 10
        units    == value % 10
        said     == hundreds > 0 \/ zeroHundreds
    IN  (IF said THEN <<Digit(hundreds), "tram">> ELSE <<>>)
        \o CASE tens > 1  -> <<Digit(tens), "muoi">> \o AfterTens(units)
             [] tens = 1  -> <<"muoi'">> \o AfterTen(units)
             [] tens = 0 -> IF units = 0 THEN <<>>
                            ELSE (IF said THEN <<"le">> ELSE <<>>) \o <<Digit(units)>>

\* Groups of zero are passed over, with their scale.
CurrencyWords(groups) ==
    LET highest == Len(groups)
        Said(i) == IF groups[i] = 0 THEN <<>>
                   ELSE ReadUnderThousand(groups[i], i < highest /\ groups[i] < 100)
                        \o GroupScales[i]
    IN  IF groups = <<>> THEN <<Digit(0)>>
        ELSE FlattenSeq([k \in 1..highest |-> Said(highest + 1 - k)])

\* A reviewed wording, if there is one, takes the place of the generated words.
FormatCurrency == /\ formatted = Waiting
                  /\ given.form = "amount"
                  /\ formatted' = IF \/ ~given.whole
                                     \/ Len(given.groups) > MaxGroups
                                     \/ given.override = "blank"
                                  THEN Refused
                                  ELSE [numeric |-> given.groups,
                                        generated |-> CurrencyWords(given.groups),
                                        reviewed |-> given.override]
                  /\ UNCHANGED given

--------------------------------------------------------------------------------
(* Passages *)

NewLine == {"\n", "\r"}

\* "\r\n" and a lone "\r" become "\n".
Canonical(text) ==
    LET Kept(i) == ~(text[i] = "\n" /\ i > 1 /\ text[i - 1] = "\r")
    IN  FlattenSeq([i \in 1..Len(text) |-> IF ~Kept(i) THEN <<>>
                                           ELSE IF text[i] = "\r" THEN <<"\n">>
                                           ELSE <<text[i]>>])

\* str.split at "\n", one character after the other.
Split(lines, c) == IF c = "\n" THEN Append(lines, <<>>)
                   ELSE Append(Front(lines), Append(Last(lines), c))

Lines(text) == FoldLeft(Split, << <<>> >>, text)

IsBlank(line) == \A i \in 1..Len(line) : line[i] = "b"

\* _PARAGRAPH_BREAK: a run of blank lines that have a line on either side.
Gaps(lines) == {i \in 2..(Len(lines) - 1) : IsBlank(lines[i])}

\* The lines of a paragraph are joined by a blank.
Join(lines, paragraphs, i) ==
    IF i \in Gaps(lines) THEN paragraphs
    ELSE IF paragraphs = <<>> \/ (i - 1) \in Gaps(lines) THEN Append(paragraphs, lines[i])
    ELSE Append(Front(paragraphs), Last(paragraphs) \o <<"b">> \o lines[i])

Paragraphs(text) ==
    LET lines == Lines(text)
    IN  FoldLeftDomain(LAMBDA paragraphs, i : Join(lines, paragraphs, i), <<>>, lines)

\* _normalize_horizontal_whitespace: a run of blanks between two characters is one blank.
Normalized(line) ==
    FlattenSeq([i \in 1..Len(line) |->
        IF line[i] = "b" THEN <<>>
        ELSE IF i > 1 /\ line[i - 1] = "b" /\ \E j \in 1..(i - 1) : line[j] # "b"
             THEN <<"b", line[i]>> ELSE <<line[i]>>])

Replace(text, old, new) ==
    FlattenSeq([i \in 1..Len(text) |-> IF text[i] = old THEN new ELSE <<text[i]>>])

\* Mutant: the braces are escaped before the ampersands.
EscapeBracesFirst(value) ==
    Replace(Replace(Replace(value, "{", <<"&", "#123;">>), "&", <<"&", "amp;">>),
            "<", <<"&", "lt;">>)

\* html.escape, and then the braces that would open a template expression.
EscapeWordXmlText(value) ==
    Replace(Replace(Replace(value, "&", <<"&", "amp;">>), "<", <<"&", "lt;">>),
            "{", <<"&", "#123;">>)

FormatMultiline == /\ formatted = Waiting
                   /\ given.form = "passage"
                   /\ formatted' =
                        IF \E i \in 1..Len(given.text) : given.text[i] = "x" THEN Refused
                        ELSE LET canonical == Canonical(given.text)
                                 pieces == IF given.break = "line" THEN Lines(canonical)
                                           ELSE Paragraphs(canonical)
                             IN  [segments |-> [n \in 1..Len(pieces) |->
                                      EscapeWordXmlText(Normalized(pieces[n]))]]
                   /\ UNCHANGED given

--------------------------------------------------------------------------------

FormatInit == /\ given \in [form: {"amount"}, groups: Amounts, whole: BOOLEAN,
                            override: {"none", "blank", "words"}]
                        \cup [form: {"passage"}, text: Passages,
                              break: {"line", "paragraph"}]
              /\ formatted = Waiting

FormatNext == FormatCurrency \/ FormatMultiline

FormatSpec == FormatInit /\ [][FormatNext]_<<given, formatted>>

--------------------------------------------------------------------------------
(* How a reader hears an amount.  A digit is held until the next word says its    *)
(* place; at the end of a group a digit that no place was said for is a unit, but *)
(* right after "tram" it is heard as tens (hai tram nam, 250), and right after a  *)
(* scale as hundreds (mot nghin nam, 1500).  "nghin" right before "ty" counts     *)
(* thousands of billions.                                                         *)

Silence == [groups |-> [i \in 1..MaxGroups |-> 0], group |-> 0, held |-> 0,
            place |-> 1, last |-> 0]

ValueOf == [w \in {Digits[i] : i \in 1..10} \cup {"mot'", "tu", "lam"} |->
               CASE w = "mot'" -> 1 [] w = "tu" -> 4 [] w = "lam" -> 5
                 [] OTHER -> (CHOOSE i \in 1..10 : Digits[i] = w) - 1]

\* The group is complete and counts for scale i.
Close(ear, i) == [ear EXCEPT !.groups[i] = ear.group + ear.held * ear.place,
                             !.group = 0, !.held = 0, !.place = 100, !.last = i]

Hear(ear, word) ==
    CASE word = "tram"  -> [ear EXCEPT !.group = ear.held * 100, !.held = 0, !.place = 10]
      [] word = "muoi"  -> [ear EXCEPT !.group = @ + ear.held * 10, !.held = 0, !.place = 1]
      [] word = "muoi'" -> [ear EXCEPT !.group = @ + 10, !.place = 1]
      [] word = "le"    -> [ear EXCEPT !.place = 1]
      [] word = "nghin" -> Close(ear, 2)
      [] word = "trieu" -> Close(ear, 3)
      [] word = "ty"    -> IF ear.last = 2 /\ ear.group = 0 /\ ear.held = 0
                           THEN [ear EXCEPT !.groups[5] = ear.groups[2],
                                            !.groups[2] = 0, !.last = 5]
                           ELSE Close(ear, 4)
      [] OTHER          -> [ear EXCEPT !.held = ValueOf[word]]

Heard(words) == Close(FoldLeft(Hear, Silence, words), 1).groups

Padded(groups) == [i \in 1..MaxGroups |-> IF i <= Len(groups) THEN groups[i] ELSE 0]

\* The words of every supported amount, read the way they are spoken, are that amount
\* again: no zero group, zero hundreds, ten or "le" makes two amounts sound the same.
\* Amounts that are no whole number or too large, and blank reviews, are refused
\* (_currency_words, format_legal_currency).
AmountsReadBack ==
    formatted # Waiting /\ given.form = "amount" =>
        IF formatted = Refused
        THEN ~given.whole \/ given.override = "blank" \/ Len(given.groups) > MaxGroups
        ELSE Heard(formatted.generated) = Padded(given.groups)

--------------------------------------------------------------------------------
(* How a passage reads: its visible characters, and what is between two of them.  *)

Entity == [e \in {"amp;", "lt;", "#123;"} |->
              CASE e = "amp;" -> "&" [] e = "lt;" -> "<" [] OTHER -> "{"]

\* What a reader of the XML sees in a segment.
Unescaped(segment) ==
    FlattenSeq([i \in 1..Len(segment) |->
        IF i > 1 /\ segment[i - 1] = "&"
        THEN IF segment[i] \in DOMAIN Entity THEN <<Entity[segment[i]]>> ELSE <<"bare">>
        ELSE IF segment[i] = "&" THEN <<>> ELSE <<segment[i]>>])

ASSUME PassagesAssumption ==
    \A text \in Passages : text \in Seq(STRING)

Breaks(text) == {i \in 1..Len(text) : \/ text[i] = "\r"
                                      \/ text[i] = "\n" /\ (i = 1 \/ text[i - 1] # "\r")}

IsVisible(c) == c \notin NewLine \cup {"b"}

Before(text, i) == {j \in 1..(i - 1) : IsVisible(text[j])}

\* What is between a visible character and the one before.
Mark(text, break, i) ==
    LET shown == Max(Before(text, i))
        breaks == {j \in Breaks(text) : shown < j /\ j < i}
    IN  IF Before(text, i) = {} \/ shown = i - 1 THEN <<>>
        ELSE IF Cardinality(breaks) >= (IF break = "line" THEN 1 ELSE 2) THEN <<"/">>
        ELSE <<"b">>

\* The passage with one mark for what is between two visible characters.
Reading(text, break) ==
    FlattenSeq([i \in 1..Len(text) |->
        IF IsVisible(text[i]) THEN Mark(text, break, i) \o <<text[i]>> ELSE <<>>])

\* Segments with the same mark between two that are not empty.
Joined(segments) ==
    FlattenSeq([n \in 1..Len(segments) |->
        IF segments[n] # <<>> /\ \E m \in 1..(n - 1) : segments[m] # <<>>
        THEN <<"/">> \o segments[n] ELSE segments[n]])

\* The segments say what the passage says: every visible character is read back once and
\* in its place, two of them are in different segments exactly when the chosen kind of
\* break is between them, whatever the line ends and blanks are, lines are all counted,
\* and nothing that opens a tag or a template expression is left (format_legal_multiline).
SegmentsKeepThePassage ==
    formatted # Waiting /\ given.form = "passage" =>
        IF formatted = Refused THEN \E i \in 1..Len(given.text) : given.text[i] = "x"
        ELSE LET segments == formatted.segments
             IN  /\ Joined([n \in 1..Len(segments) |-> Unescaped(segments[n])])
                       = Reading(given.text, given.break)
                 /\ \A n \in 1..Len(segments) : \A i \in 1..Len(segments[n]) :
                        segments[n][i] \notin {"<", "{"}
                 /\ given.break = "line" =>
                        Len(segments) = Cardinality(Breaks(given.text)) + 1
=================================================================================
