--------------------------- MODULE MCDocumentParser ---------------------------
(* Records written in every layout, files that break off, and arbitrary short *)
(* documents.                                                                 *)
EXTENDS DocumentLayouts, SequencesExt

\* notes stands for the labels that identify nobody.
Fields == {"company", "contact", "email", "kamName", "notes"}

\* Labels, the values of records, and the n-th line of an arbitrary document.
Values == (0..5) \X (Fields \cup {"text"})

Label(f) == [alias |-> f, email |-> "no", id |-> <<<<0, f>>>>]

Text(n, f) == [alias |-> None, email |-> IF f = "email" THEN "whole" ELSE "no", id |-> <<<<n, f>>>>]

Plain(piece) == [by |-> "none", cells |-> <<piece>>]
Divided(by, cells) == [by |-> by, cells |-> cells]
Marked(by) == [by |-> by, cells |-> <<Text(0, "text")>>]

-----------------------------------------------------------------------------
(* Files.                                                                  *)

Tag(kind, name) == [kind |-> kind, name |-> name]

Element(name, tokens) == <<Tag("start", name)>> \o tokens \o <<Tag("end", name)>>

Paragraph(line) == Element("p", <<[kind |-> "text", line |-> line]>>)

CellOf(piece) ==
    Element("tc", IF piece = BlankPiece THEN Element("p", <<>>) ELSE Paragraph(Plain(piece)))

Table(table) ==
    Element("tbl", FlattenSeq([i \in DOMAIN table |->
        Element("tr", FlattenSeq([c \in DOMAIN table[i] |-> CellOf(table[i][c])]))]))

Lines(table) ==
    LET pieces == SelectSeq(FlattenSeq(table), LAMBDA piece : piece # BlankPiece)
    IN  [i \in DOMAIN pieces |-> Plain(pieces[i])]

DocxTable(table, records) ==
    [docx |-> TRUE, tokens |-> Table(table), lines |-> Lines(table), rows |-> table,
     records |-> records]

DocxText(text0, records) ==
    [docx |-> TRUE, tokens |-> FlattenSeq([i \in DOMAIN text0 |-> Paragraph(text0[i])]),
     lines |-> text0, rows |-> <<>>, records |-> records]

Pdf(text0, records) ==
    [docx |-> FALSE, tokens |-> <<>>, lines |-> text0, rows |-> <<>>, records |-> records]

Broken(file) ==
    {[file EXCEPT !.tokens = SubSeq(@, 1, n), !.records = None] : n \in 0..Len(file.tokens) - 1}

-----------------------------------------------------------------------------
(* Layouts of the values of n records under some labels, a blank one perhaps. *)

Of(labels, blanks, n) ==
    [i \in 1..n |-> [f \in Fields |->
        IF f \notin Range(labels) THEN None
        ELSE IF <<i, f>> \in blanks THEN BlankPiece ELSE Text(i, f)]]

Horizontal(labels, records) ==
    <<[c \in DOMAIN labels |-> Label(labels[c])]>>
        \o [i \in DOMAIN records |-> [c \in DOMAIN labels |-> records[i][labels[c]]]]

Vertical(labels, records) ==
    FlattenSeq([i \in DOMAIN records |->
        [c \in DOMAIN labels |-> <<Label(labels[c]), records[i][labels[c]]>>]])

By(d, table) == [i \in DOMAIN table |-> Divided(d, table[i])]

\* A label whose value is blank is a line of its own.
Pairs(labels, rec) ==
    [c \in DOMAIN labels |->
        IF rec[labels[c]] = BlankPiece THEN Plain(Label(labels[c]))
        ELSE Divided("colon", <<Label(labels[c]), rec[labels[c]]>>)]

Alternating(labels, rec) ==
    Lines([c \in DOMAIN labels |-> <<Label(labels[c]), rec[labels[c]]>>])

Each(Style(_, _), labels, records) ==
    FlattenSeq([i \in DOMAIN records |-> Style(labels, records[i])])

Numbered(Style(_, _), labels, records) ==
    FlattenSeq([i \in DOMAIN records |-> <<Marked("Lead 12")>> \o Style(labels, records[i])])

\* In a table of labels and values the first label has to be one of Identity; a tab at
\* an end of a line is trimmed away.
Written(labels, records) ==
    {DocxTable(Horizontal(labels, records), records),
     DocxText(Each(Pairs, labels, records), records),
     Pdf(By("|", Horizontal(labels, records)), records),
     Pdf(By(",", Horizontal(labels, records)), records),
     Pdf(Each(Alternating, labels, records), records),
     Pdf(Numbered(Pairs, labels, records), records),
     Pdf(Numbered(Alternating, labels, records), records)}
    \cup IF labels[1] \in Identity
         THEN {DocxTable(Vertical(labels, records), records),
               Pdf(By("|", Vertical(labels, records)), records)}
         ELSE {}
    \cup IF \A i \in DOMAIN records : \A c \in DOMAIN labels : records[i][labels[c]] # BlankPiece
         THEN {Pdf(By("tab", Horizontal(labels, records)), records)}
         ELSE {}

Labels ==
    {<<"company", "email">>, <<"notes", "contact">>, <<"contact", "notes", "email">>,
     <<"email", "kamName", "notes">>, <<"kamName", "notes">>}

Blanks(labels) == {{}} \cup {{<<1, labels[c]>>} : c \in DOMAIN labels} \cup {{<<2, labels[1]>>}}

WellFormed ==
    UNION {UNION {UNION {Written(labels, Of(labels, blanks, n)) : n \in 1..3} :
                     blanks \in Blanks(labels)} : labels \in Labels}

Damaged ==
    LET records == Of(<<"company", "email">>, {<<1, "email">>}, 2) IN
    Broken(DocxTable(Horizontal(<<"company", "email">>, records), records))
        \cup Broken(DocxTable(Vertical(<<"company", "email">>, records), records))

-----------------------------------------------------------------------------
(* Arbitrary documents.                                                    *)

LineOf(kind, n) ==
    CASE kind = "rule"     -> Marked("---")
      [] kind = "heading"  -> Marked("Lead 1")
      [] kind = "pair"     -> Divided("colon", <<Label("company"), Text(n, "text")>>)
      [] kind = "address"  -> Divided("colon", <<Label("notes"), [Text(n, "text") EXCEPT !.email = "inside"]>>)
      [] kind = "company"  -> Plain(Label("company"))
      [] kind = "email"    -> Plain(Label("email"))
      [] kind = "alone"    -> Plain(Text(n, "email"))
      [] kind = "text"     -> Plain(Text(n, "text"))

RowIn(kind, n) ==
    CASE kind = "company" -> <<Label("company"), Text(n, "text")>>
      [] kind = "email"   -> <<Label("email"), Text(n, "email")>>
      [] kind = "notes"   -> <<Label("notes"), BlankPiece, Text(n, "text")>>
      [] kind = "labels"  -> <<Label("contact"), Label("notes")>>
      [] kind = "text"    -> <<Text(n, "text"), Text(n, "text")>>

Messy ==
    {Pdf(<<>> \o [i \in DOMAIN kinds |-> LineOf(kinds[i], i)], None) : kinds \in
        UNION {[1..n -> {"rule", "heading", "pair", "address", "company", "email", "alone", "text"}] : n \in 1..5}}
    \cup
    {Pdf(<<>> \o [i \in DOMAIN kinds |-> Divided("|", RowIn(kinds[i], i))], None) : kinds \in
        UNION {[1..n -> {"company", "email", "notes", "labels", "text"}] : n \in 1..4}}

-----------------------------------------------------------------------------
(* The documents are laid out as DocumentLayouts says.                     *)

CountOf(tokens) ==
    LET begun(n, kind, name) ==
            {i \in 1..n : tokens[i].kind = kind /\ (kind # "text" => tokens[i].name = name)}
        since(n) == Max(begun(n, "start", "tr") \cup {0})
    IN  [n \in 0..Len(tokens) |->
            [open  |-> {name \in {"tbl", "tr", "tc", "p"} :
                           Cardinality(begun(n, "start", name)) > Cardinality(begun(n, "end", name))},
             rows  |-> Cardinality(begun(n, "start", "tr")),
             cells |-> Cardinality({i \in begun(n, "start", "tc") : i > since(n)}),
             lines |-> Cardinality(begun(n, "text", "")) ]]

PlaceOf(d, labels) ==
    LET labelled(n) == PairField(d.lines[n]) # None \/ LabelField(d.lines[n]) # None
        places == SelectSeq([n \in DOMAIN d.lines |-> n], labelled)
    IN  [i \in DOMAIN d.records |->
            [c \in DOMAIN labels |->
                IF Len(places) = Len(d.records) * Len(labels)
                THEN places[(i - 1) * Len(labels) + c] ELSE 0]]

ASSUME DocumentsAreLaidOut ==
    \A labels \in Labels, n \in 1..3 : \A blanks \in Blanks(labels) :
        \A d \in Written(labels, Of(labels, blanks, n)) :
            LaidOut(d, labels, CountOf(d.tokens), PlaceOf(d, labels))

ASSUME DamagedAreTagged == \A d \in Damaged : Tagged(d, CountOf(d.tokens))

SomeDocuments == WellFormed \cup Damaged \cup Messy
=============================================================================
