---------------------------- MODULE DocumentParser ----------------------------
(***************************************************************************)
(* services/document_parser.go: how ExtractLeadsFromDocument finds leads   *)
(* in a PDF or DOCX file.                                                  *)
(*                                                                         *)
(* A file becomes lines of text and, from DOCX, rows of tables.  These are *)
(* tried as a table with a header, as a table of labels and values, then   *)
(* the lines as a table of either kind with each of three delimiters, and  *)
(* at last as blocks of labels and values.  The first attempt that finds a *)
(* lead ends the search.                                                   *)
(*                                                                         *)
(* A piece of text is known by the label it reads as, by whether it has an *)
(* e-mail address in it, and by the values it was put together from.  The  *)
(* normalisation of numbers, dates and enumerations is left out, and so    *)
(* are .doc files, tables in tables, and lines with two delimiters.        *)
(***************************************************************************)
EXTENDS FiniteSets, Naturals, Sequences

CONSTANTS
    Field,      \* the keys of fieldAliases
    Value,      \* what can be told apart in a document
    None,
    Documents   \* the files to read

VARIABLES
    doc,        \* the file
    pc,         \* the loop that runs
    at,         \* its index
    in,         \* the XML elements that are open, as far as the flags know
    paragraph, cell, row,    \* what is being put together
    text,       \* the lines
    tables,     \* the rows of all tables
    source,     \* where the rows in hand come from
    rows,       \* the rows in hand
    header,     \* the row of the headers, or 0
    recognized, \* how many labels parseVerticalTable has recognised
    fields,     \* fieldMap; seenKeys holds the same keys
    lines,      \* history: the lines or rows that fieldMap was read from
    leads       \* the leads, each with the lines that it was read from

xml    == <<in, paragraph, cell, row, text, tables>>
record == <<fields, lines>>
vars   == <<doc, pc, at, xml, source, rows, header, recognized, record, leads>>

-----------------------------------------------------------------------------
(* Documents.                                                              *)

Identity == {"company", "contact", "email"}

Piece == [alias : Field \cup {None}, email : {"no", "inside", "whole"}, id : Seq(Value)]

BlankPiece == [alias |-> None, email |-> "no", id |-> <<>>]

\* How a line is divided, or that it is a rule or a heading.
Division == {"none", "colon", "|", "tab", ",", "---", "Lead 1", "Lead 12"}

Line == [by : Division, cells : Seq(Piece) \ {<<>>}]

Token ==
    [kind : {"start", "end"}, name : {"tbl", "tr", "tc", "p"}] \cup [kind : {"text"}, line : Line]

\* The tokens that can be read, and what the author has written: the lines, the rows and,
\* when there are, the records.
Document ==
    [docx : BOOLEAN, tokens : Seq(Token), lines : Seq(Line), rows : Seq(Seq(Piece)),
     records : Seq([Field -> Piece \cup {None}]) \cup {None}]

ASSUME ParserAssumption ==
    /\ Identity \cup {"kamName"} \subseteq Field
    /\ None \notin Field \cup Piece \cup Line
    /\ Documents \subseteq Document

\* leadBoundaryRegex: a digit has to follow the sign or the digits after the word, so
\* that "Lead 1", the example in the comment at line 662, is no boundary.
IsBoundary(line) == line.by \in {"---", "Lead 12"}

\* keyValRegex: the key ends at the first colon or tab.
IsPair(line) == line.by \in {"colon", "tab"} /\ Len(line.cells) >= 2

\* A text that is not one piece reads as no label; two of its pieces are remembered.
Opaque(pieces) ==
    [alias |-> None,
     email |-> IF \E i \in DOMAIN pieces : pieces[i].email # "no" THEN "inside" ELSE "no",
     id |-> pieces[1].id \o pieces[2].id]

\* The line as one text.
Whole(line) == IF Len(line.cells) = 1 THEN line.cells[1] ELSE Opaque(line.cells)

PairValue(line) == IF Len(line.cells) = 2 THEN line.cells[2] ELSE Opaque(Tail(line.cells))

PairField(line) == IF IsPair(line) THEN line.cells[1].alias ELSE None

LabelField(line) == IF line.by = "none" THEN Whole(line).alias ELSE None

-----------------------------------------------------------------------------
(* Leads.                                                                  *)

NoFields == [f \in Field |-> None]

Has(f) == fields[f] # None

\* The key account manager and the contact stand in for each other.
BuildLead(map) ==
    LET id(f)    == IF map[f] = None THEN <<>> ELSE map[f].id
        or(f, g) == IF id(f) # <<>> THEN id(f) ELSE id(g)
    IN  [f \in Field |-> CASE f = "contact" -> or("contact", "kamName")
                           [] f = "kamName" -> or("kamName", "contact")
                           [] OTHER         -> id(f)]

Identified(lead) == \E f \in Identity : lead[f] # <<>>

\* The lead is kept when it is identified.
Found(map, from) ==
    IF Identified(BuildLead(map))
    THEN Append(leads, [value |-> BuildLead(map), lines |-> from])
    ELSE leads

\* The fallback of parseLabelValueBlocks: the first address in any value, in the order in
\* which Go walks a map.
WithEmail(map) ==
    LET addresses == {f \in Field : map[f] # None /\ map[f].email # "no"} IN
    IF (map["email"] # None /\ map["email"].id # <<>>) \/ addresses = {}
    THEN {map}
    ELSE {[map EXCEPT !["email"] = map[f]] : f \in addresses}

-----------------------------------------------------------------------------
TypeOK ==
    /\ doc \in Document
    /\ pc \in {"xml", "source", "header", "rows", "vertical", "blocks", "done"}
    /\ at \in Nat /\ header \in Nat /\ recognized \in Nat
    /\ in \subseteq {"tbl", "tr", "tc", "p"}
    /\ paragraph \in Line \cup {None}
    /\ cell \in Piece
    /\ row \in Seq(Piece)
    /\ text \in Seq(Line)
    /\ tables \in Seq(Seq(Piece)) /\ rows \in Seq(Seq(Piece))
    /\ source \in {"docx", "|", "tab", ",", "blocks"}
    /\ fields \in [Field -> Piece \cup {None}]
    /\ lines \subseteq Nat
    /\ leads \in Seq([value : [Field -> Seq(Value)], lines : SUBSET Nat])

Init ==
    /\ doc \in Documents
    /\ pc = IF doc.docx THEN "xml" ELSE "source"
    /\ at = 1 /\ header = 0 /\ recognized = 0
    /\ in = {} /\ paragraph = None /\ cell = BlankPiece /\ row = <<>>
    /\ text = IF doc.docx THEN <<>> ELSE doc.lines
    /\ tables = <<>> /\ rows = <<>>
    /\ source = "docx"
    /\ fields = NoFields /\ lines = {}
    /\ leads = <<>>

-----------------------------------------------------------------------------
(* extractTextAndTablesFromDocxXML.                                        *)

\* Mutant: a cell goes on where the one before it has ended.
MutStartElement(name) ==
    /\ in' = in \cup {name}
    /\ row' = IF name = "tr" THEN <<>> ELSE row
    /\ paragraph' = IF name = "p" THEN None ELSE paragraph
    /\ UNCHANGED <<cell, text, tables>>

StartElement(name) ==
    /\ in' = in \cup {name}
    /\ row' = IF name = "tr" THEN <<>> ELSE row
    /\ cell' = IF name = "tc" THEN BlankPiece ELSE cell
    /\ paragraph' = IF name = "p" THEN None ELSE paragraph
    /\ UNCHANGED <<text, tables>>

EndParagraph ==
    LET here == IF paragraph = None THEN BlankPiece ELSE Whole(paragraph) IN
    /\ text' = IF paragraph = None THEN text ELSE Append(text, paragraph)
    /\ cell' = IF "tc" \notin in \/ here = BlankPiece THEN cell
               ELSE IF cell = BlankPiece THEN here
               ELSE Opaque(<<cell, here>>)
    /\ UNCHANGED <<paragraph, row, tables>>

\* Mutant: the last paragraph of a cell is put in its row.
MutEndCell ==
    /\ row' = IF "tr" \in in THEN Append(row, paragraph) ELSE row
    /\ UNCHANGED <<paragraph, cell, text, tables>>

EndCell ==
    /\ row' = IF "tr" \in in THEN Append(row, cell) ELSE row
    /\ UNCHANGED <<paragraph, cell, text, tables>>

EndRow ==
    /\ tables' = IF "tbl" \in in /\ row # <<>> THEN Append(tables, row) ELSE tables
    /\ UNCHANGED <<paragraph, cell, row, text>>

EndElement(name) ==
    /\ in' = in \ {name}
    /\ CASE name = "p"   -> EndParagraph
         [] name = "tc"  -> EndCell
         [] name = "tr"  -> EndRow
         [] name = "tbl" -> UNCHANGED <<paragraph, cell, row, text, tables>>

\* The runs of a paragraph are one token.
CharData(line) ==
    /\ paragraph' = IF "p" \in in THEN line ELSE paragraph
    /\ UNCHANGED <<in, cell, row, text, tables>>

ReadToken ==
    /\ pc = "xml" /\ at <= Len(doc.tokens)
    /\ LET token == doc.tokens[at] IN
       CASE token.kind = "start" -> StartElement(token.name)
         [] token.kind = "end"   -> EndElement(token.name)
         [] token.kind = "text"  -> CharData(token.line)
    /\ at' = at + 1
    /\ UNCHANGED <<doc, pc, source, rows, header, recognized, record, leads>>

\* The end of the file, or an error: what has been read counts.
EndOfTokens ==
    /\ pc = "xml" /\ at > Len(doc.tokens)
    /\ pc' = "source"
    /\ UNCHANGED <<doc, at, xml, source, rows, header, recognized, record, leads>>

-----------------------------------------------------------------------------
(* The attempts, one after the other.                                      *)

\* The elements of a sequence whose indices are chosen, of its first n elements.
Kept(seq, chosen) ==
    LET first[n \in 0..Len(seq)] ==
            IF n = 0 THEN <<>>
            ELSE IF n \in chosen THEN Append(first[n - 1], seq[n])
            ELSE first[n - 1]
    IN  first

\* parseTextTable: the lines that its delimiter divides.
RowsOf(src) ==
    IF src = "docx" THEN tables
    ELSE LET divided == {n \in DOMAIN text : text[n].by = src /\ Len(text[n].cells) >= 2}
         IN  Kept([n \in DOMAIN text |-> text[n].cells], divided)[Len(text)]

NextSource ==
    [src \in {"docx", "|", "tab", ","} |-> CASE src = "docx" -> "|"
                                           [] src = "|"    -> "tab"
                                           [] src = "tab"  -> ","
                                           [] src = ","    -> "blocks"]

StartOver(label, src) ==
    /\ pc' = label /\ source' = src /\ at' = 1
    /\ header' = 0 /\ recognized' = 0
    /\ fields' = NoFields /\ lines' = {}

\* On to the next attempt, unless there is no text.
GiveUp ==
    /\ StartOver(IF source = "docx" /\ text = <<>> THEN "done" ELSE "source", NextSource[source])
    /\ leads' = <<>>

OpenSource ==
    /\ pc = "source"
    /\ IF source = "blocks"
       THEN StartOver("blocks", source) /\ UNCHANGED <<rows, leads>>
       ELSE /\ rows' = RowsOf(source)
            /\ IF Len(rows') >= 2
               THEN StartOver("header", source) /\ UNCHANGED leads
               ELSE GiveUp
    /\ UNCHANGED <<doc, xml>>

-----------------------------------------------------------------------------
(* parseTableRows.                                                         *)

Matches(r) == Cardinality({c \in DOMAIN r : r[c].alias # None})

\* The header has two labels or more; a later row replaces it that has more labels than
\* the header has columns.
ScanHeader ==
    /\ pc = "header" /\ at <= Len(rows)
    /\ LET width == IF header = 0 THEN 0 ELSE Len(rows[header]) IN
       header' = IF Matches(rows[at]) >= 2 /\ Matches(rows[at]) > width THEN at ELSE header
    /\ at' = at + 1
    /\ UNCHANGED <<doc, pc, xml, source, rows, recognized, record, leads>>

EndOfHeader ==
    /\ pc = "header" /\ at > Len(rows)
    /\ IF header = 0 THEN pc' = "vertical" /\ at' = 1 ELSE pc' = "rows" /\ at' = header + 1
    /\ UNCHANGED <<doc, xml, source, rows, header, recognized, record, leads>>

\* The last of several columns with one label counts.
ByHeader(r) ==
    [f \in Field |->
        LET columns == {c \in DOMAIN r \cap DOMAIN rows[header] : rows[header][c].alias = f} IN
        IF columns = {} THEN None ELSE r[CHOOSE c \in columns : \A d \in columns : d <= c]]

ReadRow ==
    /\ pc = "rows" /\ at <= Len(rows)
    /\ leads' = IF \E c \in DOMAIN rows[at] : rows[at][c].id # <<>>
                THEN Found(ByHeader(rows[at]), {at})
                ELSE leads
    /\ at' = at + 1
    /\ UNCHANGED <<doc, pc, xml, source, rows, header, recognized, record>>

EndOfRows ==
    /\ pc = "rows" /\ at > Len(rows)
    /\ IF leads # <<>> THEN pc' = "done" /\ UNCHANGED at ELSE pc' = "vertical" /\ at' = 1
    /\ UNCHANGED <<doc, xml, source, rows, header, recognized, record, leads>>

-----------------------------------------------------------------------------
(* parseVerticalTable and parseLabelValueBlocks.                           *)

\* Mutant: two fields are not enough to end a record.
MutCrowded == Cardinality({f \in Field : Has(f)}) > 2

Crowded == Cardinality({f \in Field : Has(f)}) >= 2

\* fieldMap[f] = piece, read from the lines or rows "from".
Put(f, piece, from) ==
    /\ fields' = [fields EXCEPT ![f] = piece]
    /\ lines' = lines \cup from
    /\ UNCHANGED leads

\* Mutant: the map is not emptied.
MutFlushAndPut(maps, f, piece, from) ==
    /\ \E map \in maps : leads' = Found(map, lines)
    /\ fields' = [fields EXCEPT ![f] = piece]
    /\ lines' = lines \cup from

\* flushLead, and fieldMap[f] = piece in a new map.
FlushAndPut(maps, f, piece, from) ==
    /\ \E map \in maps : leads' = Found(map, lines)
    /\ fields' = [NoFields EXCEPT ![f] = piece]
    /\ lines' = from

Flush(maps) ==
    /\ IF fields = NoFields THEN UNCHANGED leads ELSE \E map \in maps : leads' = Found(map, lines)
    /\ fields' = NoFields
    /\ lines' = {}

\* The second cell, or the first of the others that is not blank.
RowValue(r) ==
    LET filled == {c \in 2..Len(r) : r[c].id # <<>>} IN
    IF filled = {} THEN r[2] ELSE r[CHOOSE c \in filled : \A d \in filled : c <= d]

ReadLabel ==
    /\ pc = "vertical" /\ at <= Len(rows)
    /\ LET r == rows[at]
           f == IF Len(r) < 2 THEN None ELSE r[1].alias
       IN
       IF f = None THEN UNCHANGED <<recognized, record, leads>>
       ELSE /\ recognized' = recognized + 1
            /\ IF f \in Identity /\ Has(f) /\ Crowded
               THEN FlushAndPut({fields}, f, RowValue(r), {at})
               ELSE Put(f, RowValue(r), {at})
    /\ at' = at + 1
    /\ UNCHANGED <<doc, pc, xml, source, rows, header>>

EndOfLabels ==
    /\ pc = "vertical" /\ at > Len(rows)
    /\ IF recognized >= 2 /\ (leads # <<>> \/ Identified(BuildLead(fields)))
       THEN Flush({fields}) /\ pc' = "done" /\ UNCHANGED <<at, source, header, recognized>>
       ELSE GiveUp
    /\ UNCHANGED <<doc, xml, rows>>

PutLine(f, piece, from) ==
    IF Has(f) /\ Crowded
    THEN FlushAndPut(WithEmail(fields), f, piece, from)
    ELSE Put(f, piece, from)

\* Mutant: boundaries are values as well.
MutTakesNext ==
    /\ at < Len(text)
    /\ LabelField(text[at + 1]) = None
    /\ PairField(text[at + 1]) = None

\* A label takes the next line as its value if that is neither a boundary nor a label.
TakesNext ==
    /\ at < Len(text)
    /\ ~IsBoundary(text[at + 1])
    /\ LabelField(text[at + 1]) = None
    /\ PairField(text[at + 1]) = None

\* A line that is an address goes to a record that has none.
Address(line) ==
    /\ line.by = "none" /\ Whole(line).email = "whole"
    /\ Has("email") => fields["email"].id = <<>>

ReadLine ==
    /\ pc = "blocks" /\ at <= Len(text)
    /\ LET line == text[at] IN
       IF IsBoundary(line)
       THEN Flush(WithEmail(fields)) /\ at' = at + 1
       ELSE IF PairField(line) # None
       THEN PutLine(PairField(line), PairValue(line), {at}) /\ at' = at + 1
       ELSE IF LabelField(line) # None
       THEN IF TakesNext
            THEN PutLine(LabelField(line), Whole(text[at + 1]), {at, at + 1}) /\ at' = at + 2
            ELSE PutLine(LabelField(line), BlankPiece, {at}) /\ at' = at + 1
       ELSE IF Address(line)
       THEN Put("email", Whole(line), {at}) /\ at' = at + 1
       ELSE UNCHANGED <<record, leads>> /\ at' = at + 1
    /\ UNCHANGED <<doc, pc, xml, source, rows, header, recognized>>

EndOfLines ==
    /\ pc = "blocks" /\ at > Len(text)
    /\ Flush(WithEmail(fields))
    /\ pc' = "done"
    /\ UNCHANGED <<doc, at, xml, source, rows, header, recognized>>

Answered == pc = "done" /\ UNCHANGED vars

Next ==
    \/ ReadToken \/ EndOfTokens \/ OpenSource
    \/ ScanHeader \/ EndOfHeader \/ ReadRow \/ EndOfRows
    \/ ReadLabel \/ EndOfLabels \/ ReadLine \/ EndOfLines
    \/ Answered

Spec == Init /\ [][Next]_vars

-----------------------------------------------------------------------------
(* Properties.                                                             *)

Starts(prefix, seq) == Len(prefix) <= Len(seq) /\ \A i \in DOMAIN prefix : prefix[i] = seq[i]

\* Whatever part of a DOCX file can be read, its rows and its lines are the first ones of
\* those that the author has written: the flags and buffers of the reader never mix two
\* cells, rows or paragraphs.
ReadAsWritten == Starts(tables, doc.rows) /\ Starts(text, doc.lines)

\* The first n of the records that an author has in mind, as leads.
MeantBy(records, n) ==
    Kept([i \in DOMAIN records |-> BuildLead(records[i])],
         {i \in DOMAIN records : Identified(BuildLead(records[i]))})[n]

Meant(records) == MeantBy(records, Len(records))

LeadValues == [i \in DOMAIN leads |-> leads[i].value]

\* Records that share their labels give one lead each, with its own values, in whichever
\* layout they are written, if any of them names somebody: no attempt that comes before
\* the right one takes part of them.
SameInEveryLayout ==
    (pc = "done" /\ doc.records # None) =>
        \/ Meant(doc.records) = <<>>
        \/ Meant(doc.records) = LeadValues

\* In every document, however messy, each lead is read from lines or rows that come after
\* those of the leads before it: what a record left behind does not reach another.
LeadsInOrder ==
    \A i, j \in DOMAIN leads : i < j =>
        \A a \in leads[i].lines, b \in leads[j].lines : a < b

\* A lead is never put together from both sides of a boundary, not even when a label has
\* lost its value or an address stands alone.
BoundariesHold ==
    source = "blocks" =>
        \A i \in DOMAIN leads : \A a, b \in leads[i].lines :
            \A k \in a..b : ~IsBoundary(text[k])
=============================================================================
