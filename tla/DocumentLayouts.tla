---------------------------- MODULE DocumentLayouts ----------------------------
(* How authors lay records out in documents, for DocumentParser: what the XML  *)
(* elements of a DOCX file stand for, tables with a header, tables of labels   *)
(* and values, and blocks of labels and values.                                *)
EXTENDS DocumentParser

-----------------------------------------------------------------------------
(* DOCX files.                                                             *)

Opens(token, name)  == token.kind = "start" /\ token.name = name
Closes(token, name) == token.kind = "end" /\ token.name = name

\* What the first n tokens have opened and not closed, and how many rows, cells of the
\* last row, and lines they have begun: count[n].
Counts(tokens, count) ==
    /\ count[0] = [open |-> {}, rows |-> 0, cells |-> 0, lines |-> 0]
    /\ \A n \in DOMAIN tokens :
          LET token  == tokens[n]
              before == count[n - 1]
          IN  count[n] =
                [open  |-> IF token.kind = "start" THEN before.open \cup {token.name}
                           ELSE IF token.kind = "end" THEN before.open \ {token.name}
                           ELSE before.open,
                 rows  |-> IF Opens(token, "tr") THEN before.rows + 1 ELSE before.rows,
                 cells |-> IF Opens(token, "tr") THEN 0
                           ELSE IF Opens(token, "tc") THEN before.cells + 1
                           ELSE before.cells,
                 lines |-> IF token.kind = "text" THEN before.lines + 1 ELSE before.lines]

\* Paragraphs stand alone or, one at most, in the cells of the rows of tables, and a
\* paragraph has one text at most.
Nested(tokens, count) ==
    \A n \in DOMAIN tokens :
        LET token == tokens[n]
            open  == count[n - 1].open
            After(name) == n > 1 /\ Opens(tokens[n - 1], name)
        IN  /\ Opens(token, "tbl") => open = {}
            /\ Opens(token, "tr")  => open = {"tbl"}
            /\ Opens(token, "tc")  => open = {"tbl", "tr"}
            /\ Opens(token, "p")   => open = {} \/ (open = {"tbl", "tr", "tc"} /\ After("tc"))
            /\ token.kind = "text" => "p" \in open /\ After("p")
            /\ Closes(token, "p")   => "p" \in open
            /\ Closes(token, "tc")  => open = {"tbl", "tr", "tc"}
            /\ Closes(token, "tr")  => open = {"tbl", "tr"}
            /\ Closes(token, "tbl") => open = {"tbl"}

\* The text before the end of a paragraph is a line, the one before the end of a cell the
\* content of the cell, and the cells are those of the rows.
Holds(d, count) ==
    \A n \in DOMAIN d.tokens :
        LET token == d.tokens[n]
            i == count[n].rows
            c == count[n].cells
            k == count[n].lines
        IN  /\ token.kind = "text" => k \in DOMAIN d.lines /\ d.lines[k] = token.line
            /\ Closes(token, "tc") =>
                  /\ i \in DOMAIN d.rows /\ c \in DOMAIN d.rows[i]
                  /\ d.rows[i][c] = IF n > 2 /\ d.tokens[n - 2].kind = "text"
                                    THEN Whole(d.tokens[n - 2].line) ELSE BlankPiece
            /\ Closes(token, "tr") => i \in DOMAIN d.rows /\ Len(d.rows[i]) = c /\ c > 0

\* A DOCX file, or the first part of one, of these lines and rows.
Tagged(d, count) ==
    Counts(d.tokens, count) /\ Nested(d.tokens, count) /\ Holds(d, count)

\* Nothing is missing.
Complete(d, count) ==
    LET last == count[Len(d.tokens)] IN
    last.open = {} /\ last.rows = Len(d.rows) /\ last.lines = Len(d.lines)

-----------------------------------------------------------------------------
(* Records.                                                                *)

\* Records have a value, or a blank, for each of two or more labels, no value reads as a
\* label, and an address is the value of the label "email".
RecordsOf(labels, records) ==
    /\ labels \in Seq(Field) /\ Len(labels) >= 2
    /\ \A b, c \in DOMAIN labels : labels[b] = labels[c] => b = c
    /\ Len(records) >= 1
    /\ \A i \in DOMAIN records : \A f \in Field :
          LET value == records[i][f] IN
          /\ (\A c \in DOMAIN labels : labels[c] # f) => value = None
          /\ (\E c \in DOMAIN labels : labels[c] = f) =>
                /\ value \in Piece /\ value.alias = None
                /\ (value = BlankPiece \/ value.id # <<>>)
                /\ value.email # "no" => f = "email"

\* A row of labels, and a row of values for each record.
HeaderTable(table, labels, records) ==
    /\ Len(table) = Len(records) + 1
    /\ DOMAIN table[1] = DOMAIN labels
    /\ \A c \in DOMAIN labels : table[1][c].alias = labels[c]
    /\ \A i \in DOMAIN records :
          /\ DOMAIN table[i + 1] = DOMAIN labels
          /\ \A c \in DOMAIN labels : table[i + 1][c] = records[i][labels[c]]

\* The row of the c-th label of the i-th record.
RowOf(labels, i, c) == (i - 1) * Len(labels) + c

\* A row for each label, with the value, the first label being one that identifies.
LabelTable(table, labels, records) ==
    /\ labels[1] \in Identity
    /\ Len(table) = Len(records) * Len(labels)
    /\ \A n \in DOMAIN table :
          Len(table[n]) >= 2 /\ \A c \in DOMAIN table[n] : table[n][c].alias # None => c = 1
    /\ \A i \in DOMAIN records, c \in DOMAIN labels :
          LET r == table[RowOf(labels, i, c)] IN
          r[1].alias = labels[c] /\ RowValue(r) = records[i][labels[c]]

\* The line of the value after the c-th one of the i-th record, or the end.
Following(d, labels, records, place, i, c) ==
    IF c < Len(labels) THEN place[i][c + 1]
    ELSE IF i < Len(records) THEN place[i + 1][1]
    ELSE Len(d.lines) + 1

\* What comes after the c-th value of the i-th record begins with this line: the next
\* value or, after the last one of a record, boundaries and then the next value.
GoesOn(d, labels, records, place, i, c, line) ==
    LET next == Following(d, labels, records, place, i, c) IN
    /\ line <= next /\ (c < Len(labels) => line = next)
    /\ \A n \in line..(next - 1) : IsBoundary(d.lines[n])

\* The c-th value of the i-th record stands with its label in the line place[i][c], or in
\* the line after it, or is blank and not there.
Block(d, labels, records, place, i, c) ==
    LET start == place[i][c]
        label == d.lines[start]
        value == records[i][labels[c]]
    IN  \/ /\ PairField(label) = labels[c] /\ PairValue(label) = value
           /\ GoesOn(d, labels, records, place, i, c, start + 1)
        \/ /\ ~IsPair(label) /\ LabelField(label) = labels[c]
           /\ start < Len(d.lines) /\ d.lines[start + 1].by = "none"
           /\ Whole(d.lines[start + 1]) = value
           /\ GoesOn(d, labels, records, place, i, c, start + 2)
        \/ /\ ~IsPair(label) /\ LabelField(label) = labels[c] /\ value = BlankPiece
           /\ GoesOn(d, labels, records, place, i, c, start + 1)

Blocks(d, labels, records, place) ==
    /\ \A n \in DOMAIN d.lines : d.lines[n].by \in {"none", "colon", "---", "Lead 12"}
    /\ \A i \in DOMAIN records, c \in DOMAIN labels :
          place[i][c] \in DOMAIN d.lines /\ Block(d, labels, records, place, i, c)
    /\ \A n \in 1..(place[1][1] - 1) : IsBoundary(d.lines[n])

-----------------------------------------------------------------------------
(* Documents.                                                              *)

IsTable(table, labels, records) ==
    HeaderTable(table, labels, records) \/ LabelTable(table, labels, records)

\* The records as a table, as lines divided by a delimiter, or as blocks.
Layout(d, labels, place) ==
    \/ IsTable(d.rows, labels, d.records)
    \/ /\ d.rows = <<>>
       /\ \E by \in {"|", "tab", ","} : \A n \in DOMAIN d.lines : d.lines[n].by = by
       /\ IsTable([n \in DOMAIN d.lines |-> d.lines[n].cells], labels, d.records)
    \/ d.rows = <<>> /\ Blocks(d, labels, d.records, place)

\* Lines are trimmed: what a colon or a tab divides has no blank at its ends.
Trimmed(line) ==
    line.by \in {"none", "colon", "tab"} =>
        line.cells[1] # BlankPiece /\ line.cells[Len(line.cells)] # BlankPiece

LaidOut(d, labels, count, place) ==
    /\ RecordsOf(labels, d.records)
    /\ \A n \in DOMAIN d.lines : Trimmed(d.lines[n])
    /\ IF d.docx THEN Tagged(d, count) /\ Complete(d, count) ELSE d.rows = <<>>
    /\ Layout(d, labels, place)
=============================================================================
