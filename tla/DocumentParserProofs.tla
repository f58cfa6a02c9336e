------------------------- MODULE DocumentParserProofs -------------------------
(* Theorems about DocumentParser.  For every document: the types; leads are  *)
(* read one after the other, and never across a boundary.  For documents that *)
(* are laid out as DocumentLayouts says: a file is read as it was written, and *)
(* records give the same leads in every layout.                              *)
EXTENDS DocumentLayouts, FiniteSetTheorems, WellFoundedInduction, TLAPS

-----------------------------------------------------------------------------
(* The invariant.                                                          *)

\* The loops that run on the way to the first lead: the table of the rows in hand is
\* scanned in three of them, and the lines come last.
Control ==
    /\ pc \in {"xml", "source", "header", "rows", "vertical", "blocks", "done"}
    /\ source \in {"docx", "|", "tab", ",", "blocks"}
    /\ at \in Nat /\ header \in Nat
    /\ pc = "xml" => source = "docx"
    /\ source = "blocks" => pc \in {"source", "blocks", "done"}
    /\ pc = "blocks" => source = "blocks"

\* The leads are a sequence, each with the lines that it was read from.
Sequenced ==
    /\ lines \subseteq Nat
    /\ Len(leads) \in Nat /\ DOMAIN leads = 1..Len(leads)
    /\ \A i \in DOMAIN leads : leads[i].lines \subseteq Nat

\* An attempt starts with nothing, and a table with a header fills no map.
Fresh ==
    /\ pc \in {"xml", "source", "header", "rows"} => lines = {}
    /\ pc \in {"xml", "source", "header"} => leads = <<>>

\* What has been read is behind, and the record in hand behind the leads.
Behind ==
    /\ pc # "done" => \A a \in lines : a < at
    /\ pc # "done" => \A i \in DOMAIN leads : \A a \in leads[i].lines : a < at
    /\ \A i \in DOMAIN leads : \A a \in leads[i].lines, b \in lines : a < b

\* No boundary has been passed since the record in hand was begun.
Unbroken ==
    pc = "blocks" => \A a \in lines : \A k \in a..(at - 1) : ~IsBoundary(text[k])

ParserInv ==
    /\ Control /\ Sequenced /\ Fresh /\ Behind /\ Unbroken
    /\ LeadsInOrder /\ BoundariesHold

-----------------------------------------------------------------------------
(* The operators.                                                          *)

LEMMA EmptyList == DOMAIN <<>> = {} /\ Len(<<>>) = 0 /\ 1..0 = {}
  OBVIOUS

LEMMA Between ==
    \A i, j \in Nat : \A k \in i..(j - 1) : k \in Nat /\ i <= k /\ k < j
  OBVIOUS

LEMMA InBetween ==
    \A i, j, k \in Nat : i <= k /\ k < j => k \in i..(j - 1)
  OBVIOUS

\* A sequence whose elements have no type is longer by one.
LEMMA Appended ==
    ASSUME NEW s, NEW x, Len(s) \in Nat, DOMAIN s = 1..Len(s), NEW t, t = Append(s, x)
    PROVE  /\ Len(t) = Len(s) + 1 /\ DOMAIN t = 1..Len(t)
           /\ t[Len(t)] = x /\ \A i \in DOMAIN s : t[i] = s[i]
  OBVIOUS

\* A lead that is found comes last, with the lines that it was read from.
LEMMA FoundLast ==
    ASSUME Sequenced, LeadsInOrder, NEW map, NEW from \in SUBSET Nat, leads' = Found(map, from),
           \A i \in DOMAIN leads : \A a \in leads[i].lines, b \in from : a < b
    PROVE  /\ Len(leads') \in Nat /\ DOMAIN leads' = 1..Len(leads')
           /\ \A i \in DOMAIN leads' : leads'[i].lines \subseteq Nat
           /\ \A i \in DOMAIN leads' :
                 \/ i \in DOMAIN leads /\ leads'[i] = leads[i]
                 \/ leads'[i].lines = from
           /\ LeadsInOrder'
  <1>1. CASE leads' = leads
    BY <1>1 DEF Sequenced, LeadsInOrder
  <1>2. CASE leads' = Append(leads, [value |-> BuildLead(map), lines |-> from])
    <2> DEFINE lead == [value |-> BuildLead(map), lines |-> from]
    <2>1. lead.lines = from
      OBVIOUS
    <2> HIDE DEF lead
    <2>2. leads' = Append(leads, lead)
      BY <1>2 DEF lead
    <2>3. /\ Len(leads') = Len(leads) + 1 /\ DOMAIN leads' = 1..Len(leads')
          /\ leads'[Len(leads')] = lead /\ \A i \in DOMAIN leads : leads'[i] = leads[i]
      BY <2>2, Appended DEF Sequenced
    <2>4. \A i \in DOMAIN leads' : i \in DOMAIN leads \/ i = Len(leads')
      BY <2>3 DEF Sequenced
    <2>5. LeadsInOrder'
      <3> SUFFICES ASSUME NEW i \in DOMAIN leads', NEW j \in DOMAIN leads', i < j,
                          NEW a \in leads'[i].lines, NEW b \in leads'[j].lines
                   PROVE  a < b
        BY DEF LeadsInOrder
      <3>1. i \in DOMAIN leads /\ leads'[i] = leads[i]
        BY <2>3, <2>4 DEF Sequenced
      <3>2. CASE j \in DOMAIN leads
        BY <2>3, <3>1, <3>2 DEF LeadsInOrder
      <3>3. CASE j = Len(leads')
        BY <2>1, <2>3, <3>1, <3>3
      <3> QED  BY <2>4, <3>2, <3>3
    <2>6. ASSUME NEW i \in DOMAIN leads' PROVE leads'[i].lines \subseteq Nat
      <3>1. CASE i \in DOMAIN leads
        BY <2>3, <3>1 DEF Sequenced
      <3>2. CASE i = Len(leads')
        BY <2>1, <2>3, <3>2
      <3> QED  BY <2>4, <3>1, <3>2
    <2>7. ASSUME NEW i \in DOMAIN leads'
          PROVE  (i \in DOMAIN leads /\ leads'[i] = leads[i]) \/ leads'[i].lines = from
      BY <2>1, <2>3, <2>4
    <2>8. Len(leads') \in Nat
      BY <2>3 DEF Sequenced
    <2> QED  BY <2>3, <2>5, <2>6, <2>7, <2>8
  <1> QED  BY <1>1, <1>2 DEF Found

\* A loop over rows of labels, or over lines, that reads a step further: the record in
\* hand takes up what is read, or it becomes a lead and what is read begins the next.
LEMMA RecordStep ==
    ASSUME ParserInv, text' = text, source' = source, pc \in {"vertical", "blocks"},
           pc' \in {pc, "done"}, at' \in Nat, at <= at', NEW from \in SUBSET Nat,
           \A b \in from : at <= b /\ b < at',
           \/ leads' = leads /\ lines' \subseteq lines \cup from
           \/ (\E map : leads' = Found(map, lines)) /\ lines' \subseteq from,
           \/ pc = "vertical" \/ lines' = {}
           \/ \A k \in at..(at' - 1) : ~IsBoundary(text[k])
    PROVE  Sequenced' /\ Behind' /\ Unbroken' /\ LeadsInOrder' /\ BoundariesHold'
  <1>0. /\ Sequenced /\ Behind /\ Unbroken /\ LeadsInOrder /\ BoundariesHold /\ at \in Nat
        /\ \A a \in lines : a \in Nat /\ a < at
        /\ source = "blocks" <=> pc = "blocks"
    BY DEF ParserInv, Control, Sequenced, Behind
  <1>1. ASSUME NEW b \in from PROVE b \in Nat /\ at <= b /\ b < at'
    BY <1>0
  <1>2. /\ Len(leads') \in Nat /\ DOMAIN leads' = 1..Len(leads')
        /\ \A i \in DOMAIN leads' : leads'[i].lines \subseteq Nat
        /\ \A i \in DOMAIN leads' :
              \/ i \in DOMAIN leads /\ leads'[i] = leads[i]
              \/ leads'[i].lines = lines /\ lines' \subseteq from
        /\ LeadsInOrder'
    <2>1. CASE leads' = leads
      BY <1>0, <2>1 DEF Sequenced, LeadsInOrder
    <2>2. CASE (\E map : leads' = Found(map, lines)) /\ lines' \subseteq from
      <3>1. PICK map : leads' = Found(map, lines)
        BY <2>2
      <3>2. lines \in SUBSET Nat /\ \A i \in DOMAIN leads : \A a \in leads[i].lines, b \in lines : a < b
        BY <1>0 DEF Behind, Sequenced
      <3> QED  BY <1>0, <2>2, <3>1, <3>2, FoundLast
    <2> QED  BY <2>1, <2>2
  <1>3. lines' \subseteq lines \cup from
    OBVIOUS
  <1>4. Sequenced'
    BY <1>0, <1>1, <1>2, <1>3 DEF Sequenced
  <1>8. ASSUME NEW a \in lines' PROVE a \in Nat /\ a < at'
    <2>1. CASE a \in from
      BY <1>1, <2>1
    <2>2. CASE a \in lines
      <3>1. a \in Nat /\ a < at
        BY <1>0, <2>2
      <3> QED  BY <1>0, <3>1
    <2> QED  BY <1>3, <2>1, <2>2
  <1>5. ASSUME NEW i \in DOMAIN leads', NEW a \in leads'[i].lines
        PROVE  a \in Nat /\ a < at
    BY <1>0, <1>2 DEF Behind
  <1>6. Behind'
    <2>1. \A a \in lines' : a < at'
      BY <1>8
    <2>2. \A i \in DOMAIN leads' : \A a \in leads'[i].lines : a < at'
      BY <1>0, <1>5
    <2>3. ASSUME NEW i \in DOMAIN leads', NEW a \in leads'[i].lines, NEW b \in lines'
          PROVE  a < b
      <3>1. CASE b \in from
        BY <1>0, <1>1, <1>5, <3>1
      <3>2. CASE b \notin from
        <4>1. b \in lines /\ i \in DOMAIN leads /\ leads'[i] = leads[i]
          BY <1>2, <1>3, <3>2
        <4> QED  BY <1>0, <4>1 DEF Behind
      <3> QED  BY <3>1, <3>2
    <2> QED  BY <2>1, <2>2, <2>3 DEF Behind
  <1>7. Unbroken'
    <2> SUFFICES ASSUME pc' = "blocks", NEW a \in lines', NEW k \in a..(at' - 1)
                 PROVE  ~IsBoundary(text[k])
      BY DEF Unbroken, IsBoundary
    <2>1. a \in Nat /\ k \in Nat /\ a <= k /\ k < at'
      <3>1. a \in Nat
        BY <1>8
      <3> QED  BY <3>1, Between
    <2>2. CASE k >= at
      <3>1. k \in at..(at' - 1)
        BY <1>0, <2>1, <2>2, InBetween
      <3> QED  BY <1>0, <3>1
    <2>3. CASE k < at
      <3>1. a \in lines
        BY <1>0, <1>1, <1>3, <2>1, <2>3
      <3>2. k \in a..(at - 1)
        BY <1>0, <2>1, <2>3
      <3> QED  BY <1>0, <3>1, <3>2 DEF Unbroken
    <2> QED  BY <1>0, <2>1, <2>2, <2>3
  <1>9. BoundariesHold'
    <2> SUFFICES ASSUME source = "blocks", NEW i \in DOMAIN leads', NEW a \in leads'[i].lines,
                        NEW b \in leads'[i].lines, NEW k \in a..b
                 PROVE  ~IsBoundary(text[k])
      BY DEF BoundariesHold, IsBoundary
    <2>1. CASE i \in DOMAIN leads /\ leads'[i] = leads[i]
      BY <1>0, <2>1 DEF BoundariesHold
    <2>2. CASE leads'[i].lines = lines
      <3>1. a \in lines /\ b \in lines /\ k \in a..(at - 1)
        BY <1>0, <2>2
      <3> QED  BY <1>0, <3>1 DEF Unbroken
    <2> QED  BY <1>2, <2>1, <2>2
  <1> QED  BY <1>2, <1>4, <1>6, <1>7, <1>9

\* Before a lead and a line of one, only the control matters.
LEMMA NothingYet ==
    ASSUME Control', leads' = <<>>, lines' = {}
    PROVE  ParserInv'
  <1>1. DOMAIN leads' = {} /\ Len(leads') = 0
    BY EmptyList
  <1>2. Sequenced'
    BY <1>1, EmptyList DEF Sequenced
  <1>3. Fresh'
    BY DEF Fresh
  <1>4. Behind' /\ Unbroken' /\ LeadsInOrder' /\ BoundariesHold'
    BY <1>1 DEF Behind, Unbroken, LeadsInOrder, BoundariesHold
  <1> QED  BY <1>2, <1>3, <1>4 DEF ParserInv

\* The next attempt, or the end when there is no text.
LEMMA GivesUp ==
    ASSUME ParserInv, pc # "xml", source # "blocks", GiveUp
    PROVE  ParserInv'
  <1>1. source \in {"docx", "|", "tab", ","}
    BY DEF ParserInv, Control
  <1>2. NextSource[source] \in {"|", "tab", ",", "blocks"}
    BY <1>1 DEF NextSource
  <1>3. /\ pc' \in {"source", "done"} /\ source' = NextSource[source] /\ at' = 1 /\ header' = 0
        /\ lines' = {} /\ leads' = <<>>
    BY DEF GiveUp, StartOver
  <1>4. Control'
    BY <1>2, <1>3 DEF Control
  <1> QED  BY <1>3, <1>4, NothingYet

-----------------------------------------------------------------------------
(* The steps.                                                              *)

\* What a loop does with a piece: it takes it up, or flushes the record before it.
LEMMA Taken ==
    ASSUME NEW f, NEW piece, NEW from, NEW maps,
           Put(f, piece, from) \/ FlushAndPut(maps, f, piece, from) \/ PutLine(f, piece, from)
    PROVE  \/ leads' = leads /\ lines' \subseteq lines \cup from
           \/ (\E map : leads' = Found(map, lines)) /\ lines' \subseteq from
  BY DEF PutLine, Put, FlushAndPut

LEMMA Flushed ==
    ASSUME NEW maps, Flush(maps)
    PROVE  /\ lines' = {}
           /\ leads' = leads \/ \E map : leads' = Found(map, lines)
  BY DEF Flush

LEMMA ParserStep == ParserInv /\ [Next]_vars => ParserInv'
  <1> SUFFICES ASSUME ParserInv, [Next]_vars PROVE ParserInv'
    OBVIOUS
  <1>c. /\ Control /\ at \in Nat /\ header \in Nat
        /\ at + 1 \in Nat /\ at + 2 \in Nat /\ header + 1 \in Nat
    <2>1. Control
      BY DEF ParserInv
    <2>2. at \in Nat /\ header \in Nat
      BY <2>1 DEF Control
    <2> QED  BY <2>1, <2>2
  <1>f. Fresh
    BY DEF ParserInv
  \* The loops that fill a map: they stay, or end the search.
  <1>r. ASSUME pc \in {"vertical", "blocks"}, pc' \in {pc, "done"}, source' = source,
               header' = header, at' \in Nat,
               Sequenced' /\ Behind' /\ Unbroken' /\ LeadsInOrder' /\ BoundariesHold'
        PROVE  ParserInv'
    <2>1. Control'
      BY <1>c, <1>r DEF Control
    <2>2. Fresh'
      BY <1>r DEF Fresh
    <2> QED  BY <1>r, <2>1, <2>2 DEF ParserInv
  <1>1. CASE ReadToken \/ EndOfTokens
    <2>1. /\ pc = "xml" /\ pc' \in {"xml", "source"} /\ source' = source /\ header' = header
          /\ at' \in {at, at + 1} /\ lines' = lines /\ leads' = leads
      BY <1>1 DEF ReadToken, EndOfTokens, record
    <2>2. Control'
      BY <1>c, <2>1 DEF Control
    <2> QED  BY <1>f, <2>1, <2>2, NothingYet DEF Fresh
  <1>2. CASE OpenSource
    <2>0. pc = "source" /\ lines = {} /\ leads = <<>>
      BY <1>2, <1>f DEF OpenSource, Fresh
    <2>1. CASE source # "blocks" /\ GiveUp
      BY <2>0, <2>1, GivesUp
    <2>2. CASE source = "blocks" /\ StartOver("blocks", source) /\ leads' = leads
      <3>1. Control'
        BY <1>c, <2>2 DEF StartOver, Control
      <3> QED  BY <2>0, <2>2, <3>1, NothingYet DEF StartOver
    <2>3. CASE source # "blocks" /\ StartOver("header", source) /\ leads' = leads
      <3>1. Control'
        BY <1>c, <2>3 DEF StartOver, Control
      <3> QED  BY <2>0, <2>3, <3>1, NothingYet DEF StartOver
    <2> QED  BY <1>2, <2>1, <2>2, <2>3 DEF OpenSource
  <1>3. CASE ScanHeader \/ EndOfHeader
    <2>0. pc = "header" /\ lines = {} /\ leads = <<>> /\ source # "blocks"
      BY <1>3, <1>c, <1>f DEF ScanHeader, EndOfHeader, Fresh, Control
    <2>1. /\ pc' \in {"header", "vertical", "rows"} /\ source' = source
          /\ header' \in {0, at, header} /\ at' \in {1, at + 1, header + 1}
          /\ lines' = lines /\ leads' = leads
      BY <1>3, <2>0 DEF ScanHeader, EndOfHeader, record
    <2>2. Control'
      <3>1. at' \in Nat /\ header' \in Nat
        BY <1>c, <2>1
      <3> QED  BY <1>c, <2>0, <2>1, <3>1 DEF Control
    <2> QED  BY <2>0, <2>1, <2>2, NothingYet
  <1>4. CASE ReadRow
    <2>0. /\ pc = "rows" /\ lines = {} /\ source # "blocks"
          /\ pc' = pc /\ source' = source /\ header' = header /\ lines' = lines /\ at' = at + 1
      BY <1>4, <1>c, <1>f DEF ReadRow, Fresh, Control, record
    <2>1. Control'
      BY <1>c, <2>0 DEF Control
    <2>2. Fresh'
      BY <2>0 DEF Fresh
    <2>3. /\ \A i \in DOMAIN leads : \A a \in leads[i].lines : a \in Nat /\ a < at
          /\ Sequenced /\ LeadsInOrder
      BY <2>0 DEF ParserInv, Behind, Sequenced
    <2>4. /\ Len(leads') \in Nat /\ DOMAIN leads' = 1..Len(leads')
          /\ \A i \in DOMAIN leads' : leads'[i].lines \subseteq Nat
          /\ \A i \in DOMAIN leads' : \/ i \in DOMAIN leads /\ leads'[i] = leads[i]
                                      \/ leads'[i].lines = {at}
          /\ LeadsInOrder'
      <3>1. CASE leads' = leads
        BY <2>3, <3>1 DEF Sequenced, LeadsInOrder
      <3>2. CASE leads' = Found(ByHeader(rows[at]), {at})
        <4>1. {at} \in SUBSET Nat
              /\ \A i \in DOMAIN leads : \A a \in leads[i].lines, b \in {at} : a < b
          BY <1>c, <2>3
        <4> QED  BY <2>3, <3>2, <4>1, FoundLast
      <3> QED  BY <1>4, <3>1, <3>2 DEF ReadRow
    <2>5. Sequenced'
      BY <2>0, <2>4 DEF Sequenced
    <2>6. Behind'
      <3>1. ASSUME NEW i \in DOMAIN leads', NEW a \in leads'[i].lines PROVE a < at'
        <4>1. a \in Nat /\ a <= at
          BY <1>c, <2>3, <2>4
        <4> QED  BY <1>c, <2>0, <4>1
      <3> QED  BY <2>0, <3>1 DEF Behind
    <2>7. Unbroken' /\ BoundariesHold'
      BY <2>0 DEF Unbroken, BoundariesHold
    <2> QED  BY <2>1, <2>2, <2>4, <2>5, <2>6, <2>7 DEF ParserInv
  <1>5. CASE EndOfRows
    <2>0. /\ pc = "rows" /\ lines = {} /\ source # "blocks"
          /\ source' = source /\ header' = header /\ lines' = lines /\ leads' = leads
      BY <1>5, <1>c, <1>f DEF EndOfRows, Fresh, Control, record
    <2>1. CASE leads = <<>> /\ pc' = "vertical" /\ at' = 1
      <3>1. Control'
        BY <1>c, <2>0, <2>1 DEF Control
      <3> QED  BY <2>0, <2>1, <3>1, NothingYet
    <2>2. CASE pc' = "done" /\ at' = at
      <3>1. Control' /\ Fresh'
        BY <1>c, <2>0, <2>2 DEF Control, Fresh
      <3>2. Sequenced' /\ LeadsInOrder'
        BY <2>0 DEF ParserInv, Sequenced, LeadsInOrder
      <3>3. Behind' /\ Unbroken' /\ BoundariesHold'
        BY <2>0, <2>2 DEF Behind, Unbroken, BoundariesHold
      <3> QED  BY <3>1, <3>2, <3>3 DEF ParserInv
    <2> QED  BY <1>5, <2>1, <2>2 DEF EndOfRows
  <1>6. CASE ReadLabel
    <2>0. /\ pc = "vertical" /\ pc' = pc /\ source' = source /\ header' = header /\ text' = text
          /\ at' = at + 1
      BY <1>6 DEF ReadLabel, xml
    <2>1. \/ leads' = leads /\ lines' \subseteq lines \cup {at}
          \/ (\E map : leads' = Found(map, lines)) /\ lines' \subseteq {at}
      <3>1. CASE UNCHANGED <<record, leads>>
        BY <3>1 DEF record
      <3>2. CASE \E f, piece : Put(f, piece, {at}) \/ FlushAndPut({fields}, f, piece, {at})
        BY <3>2, Taken
      <3> QED  BY <1>6, <3>1, <3>2, Zenon DEF ReadLabel
    <2>2. {at} \in SUBSET Nat /\ (\A b \in {at} : at <= b /\ b < at') /\ at <= at' /\ at' \in Nat
      BY <1>c, <2>0
    <2>3. Sequenced' /\ Behind' /\ Unbroken' /\ LeadsInOrder' /\ BoundariesHold'
      BY <2>0, <2>1, <2>2, RecordStep
    <2> QED  BY <1>r, <2>0, <2>2, <2>3
  <1>7. ASSUME NEW maps, Flush(maps), pc \in {"vertical", "blocks"}, pc' \in {pc, "done"},
               UNCHANGED <<xml, source, header>>, at' \in {at, at + 1}
        PROVE  ParserInv'
    <2>1. text' = text /\ source' = source /\ header' = header
      BY <1>7 DEF xml
    <2>2. lines' = {} /\ (leads' = leads \/ \E map : leads' = Found(map, lines))
      BY <1>7, Flushed
    <2>3. {} \in SUBSET Nat /\ at <= at' /\ at' \in Nat
      BY <1>c, <1>7
    <2>4. Sequenced' /\ Behind' /\ Unbroken' /\ LeadsInOrder' /\ BoundariesHold'
      BY <1>7, <2>1, <2>2, <2>3, RecordStep
    <2> QED  BY <1>r, <1>7, <2>1, <2>3, <2>4
  <1>8. CASE EndOfLabels
    <2>0. pc = "vertical" /\ source # "blocks"
      BY <1>8, <1>c DEF EndOfLabels, Control
    <2>1. CASE GiveUp
      BY <2>0, <2>1, GivesUp
    <2>2. CASE Flush({fields}) /\ pc' = "done" /\ UNCHANGED <<at, source, header, recognized>>
      BY <1>7, <1>8, <2>0, <2>2 DEF EndOfLabels
    <2> QED  BY <1>8, <2>1, <2>2 DEF EndOfLabels
  <1>9. CASE EndOfLines
    <2>1. Flush(WithEmail(fields)) /\ pc = "blocks" /\ pc' = "done" /\ at' = at
          /\ UNCHANGED <<xml, source, header>>
      BY <1>9 DEF EndOfLines
    <2> QED  BY <1>7, <2>1
  <1>10. CASE ReadLine
    <2>0. /\ pc = "blocks" /\ pc' = pc /\ source' = source /\ header' = header /\ text' = text
          /\ UNCHANGED xml
      BY <1>10 DEF ReadLine, xml
    <2>1. CASE IsBoundary(text[at])
      <3>1. Flush(WithEmail(fields)) /\ at' = at + 1
        BY <1>10, <2>1 DEF ReadLine
      <3> QED  BY <1>7, <2>0, <3>1
    \* A line, or two, that are no boundary.
    <2>2. ASSUME NEW from \in SUBSET Nat, \A b \in from : at <= b /\ b < at',
                 at' \in {at + 1, at + 2}, \A k \in at..(at' - 1) : ~IsBoundary(text[k]),
                 \/ leads' = leads /\ lines' \subseteq lines \cup from
                 \/ (\E map : leads' = Found(map, lines)) /\ lines' \subseteq from
          PROVE  ParserInv'
      <3>1. at <= at' /\ at' \in Nat
        BY <1>c, <2>2
      <3>2. Sequenced' /\ Behind' /\ Unbroken' /\ LeadsInOrder' /\ BoundariesHold'
        BY <2>0, <2>2, <3>1, RecordStep
      <3> QED  BY <1>r, <2>0, <3>1, <3>2
    <2>3. CASE ~IsBoundary(text[at])
      <3>1. CASE /\ at' = at + 1
                 /\ \/ UNCHANGED <<record, leads>>
                    \/ \E f, piece : PutLine(f, piece, {at}) \/ Put(f, piece, {at})
        <4>1. \/ leads' = leads /\ lines' \subseteq lines \cup {at}
              \/ (\E map : leads' = Found(map, lines)) /\ lines' \subseteq {at}
          BY <3>1, Taken DEF record
        <4>2. {at} \in SUBSET Nat /\ (\A b \in {at} : at <= b /\ b < at')
              /\ \A k \in at..(at' - 1) : k = at
          BY <1>c, <3>1
        <4> QED  BY <2>2, <2>3, <3>1, <4>1, <4>2
      <3>2. CASE /\ at' = at + 2 /\ TakesNext
                 /\ \E f, piece : PutLine(f, piece, {at, at + 1})
        <4>1. \/ leads' = leads /\ lines' \subseteq lines \cup {at, at + 1}
              \/ (\E map : leads' = Found(map, lines)) /\ lines' \subseteq {at, at + 1}
          BY <3>2, Taken
        <4>2. {at, at + 1} \in SUBSET Nat /\ (\A b \in {at, at + 1} : at <= b /\ b < at')
              /\ \A k \in at..(at' - 1) : k = at \/ k = at + 1
          BY <1>c, <3>2
        <4>3. ~IsBoundary(text[at + 1])
          BY <3>2 DEF TakesNext
        <4> QED  BY <2>2, <2>3, <3>2, <4>1, <4>2, <4>3
      <3> QED  BY <1>10, <2>3, <3>1, <3>2, Zenon DEF ReadLine
    <2> QED  BY <2>1, <2>3
  <1>11. CASE Answered \/ UNCHANGED vars
    BY <1>11 DEF Answered, vars, xml, record, ParserInv, Control, Sequenced, Fresh, Behind,
                 Unbroken, LeadsInOrder, BoundariesHold, IsBoundary
  <1> QED  BY <1>1, <1>2, <1>3, <1>4, <1>5, <1>6, <1>8, <1>9, <1>10, <1>11 DEF Next

LEMMA ParserInit == Init => ParserInv
  <1> SUFFICES ASSUME Init PROVE ParserInv
    OBVIOUS
  <1>1. Control /\ Fresh
    BY DEF Init, Control, Fresh
  <1>2. DOMAIN leads = {} /\ Len(leads) = 0 /\ lines = {}
    BY EmptyList DEF Init
  <1>3. Sequenced
    BY <1>2, EmptyList DEF Sequenced
  <1>4. Behind /\ Unbroken /\ LeadsInOrder /\ BoundariesHold
    BY <1>2 DEF Behind, Unbroken, LeadsInOrder, BoundariesHold
  <1> QED  BY <1>1, <1>3, <1>4 DEF ParserInv

\* The conjuncts of the invariant hold in every state.
LEMMA ParserInvariant == Spec => []ParserInv
  BY ParserInit, ParserStep, PTL DEF Spec

-----------------------------------------------------------------------------
(* What is read, and what it is read as.                                   *)

\* A set of numbers has a least one.
LEMMA Least ==
    ASSUME NEW S \in SUBSET Nat, S # {}
    PROVE  \E n \in S : \A m \in S : n <= m
  <1> DEFINE R == OpToRel(<, Nat)
  <1>1. IsWellFoundedOn(R, Nat)
    BY NatLessThanWellFounded
  <1>2. \A m, n \in Nat : <<m, n>> \in R <=> m < n
    BY DEF OpToRel
  <1> HIDE DEF R
  <1>3. PICK n \in S : \A m \in S : <<m, n>> \notin R
    BY <1>1, WFMin
  <1>4. \A m \in S : ~(m < n)
    BY <1>2, <1>3
  <1> QED  BY <1>3, <1>4

\* A set of numbers up to b has a least and a greatest one.
LEMMA Extremes ==
    ASSUME NEW b \in Nat, NEW S \in SUBSET (1..b), S # {}
    PROVE  /\ \E n \in S : \A m \in S : n <= m
           /\ \E n \in S : \A m \in S : m <= n
  <1>1. S \in SUBSET Nat
    OBVIOUS
  <1>2. \E n \in S : \A m \in S : n <= m
    BY <1>1, Least
  <1>3. \E n \in S : \A m \in S : m <= n
    <2> DEFINE T == {b - n : n \in S}
    <2>1. T \in SUBSET Nat /\ T # {}
      <3>1. \A n \in S : b - n \in Nat
        OBVIOUS
      <3> QED  BY <3>1
    <2>2. PICK t \in T : \A u \in T : t <= u
      <3> HIDE DEF T
      <3> QED  BY <2>1, Least
    <2>3. PICK n \in S : t = b - n
      OBVIOUS
    <2>4. ASSUME NEW m \in S PROVE m <= n
      <3>1. b - n <= b - m
        BY <2>2, <2>3
      <3> QED  BY <3>1
    <2> QED  BY <2>4
  <1> QED  BY <1>2, <1>3

\* What has been kept of a sequence, by the definition of Kept: that there is such a function
\* holds of the least length that it could fail of, and so of all.
LEMMA KeptDef ==
    ASSUME NEW seq, NEW chosen, Len(seq) \in Nat
    PROVE  /\ Kept(seq, chosen)[0] = <<>>
           /\ \A n \in 1..Len(seq) :
                 Kept(seq, chosen)[n] = IF n \in chosen THEN Append(Kept(seq, chosen)[n - 1], seq[n])
                                        ELSE Kept(seq, chosen)[n - 1]
  <1> DEFINE N == Len(seq)
             Reads(g, b) ==
                 g = [n \in 0..b |->
                        IF n = 0 THEN <<>>
                        ELSE IF n \in chosen THEN Append(g[n - 1], seq[n])
                        ELSE g[n - 1]]
  <1>1. N \in Nat
    OBVIOUS
  <1>2. \E g : Reads(g, N)
    <2> DEFINE B == {b \in Nat : ~\E g : Reads(g, b)}
    <2> SUFFICES ASSUME B # {} PROVE FALSE
      BY <1>1
    <2>1. PICK b \in B : \A c \in B : b <= c
      <3>1. B \in SUBSET Nat
        OBVIOUS
      <3> HIDE DEF B
      <3> QED  BY <3>1, Least
    <2>2. CASE b = 0
      <3>1. Reads([n \in 0..0 |-> <<>>], 0)
        OBVIOUS
      <3> QED  BY <2>1, <2>2, <3>1
    <2>3. CASE b # 0
      <3>1. b - 1 \in Nat /\ b - 1 \notin B
        <4>1. b \in Nat
          BY <2>1
        <4>2. b - 1 \in Nat /\ ~(b <= b - 1)
          BY <2>3, <4>1
        <4> QED  BY <2>1, <4>2, Zenon
      <3>2. PICK h : Reads(h, b - 1)
        BY <3>1
      <3> DEFINE g == [n \in 0..b |->
                        IF n = 0 THEN <<>>
                        ELSE IF n \in chosen THEN Append(h[n - 1], seq[n])
                        ELSE h[n - 1]]
      <3>3. ASSUME NEW n \in 0..b, n # 0 PROVE g[n - 1] = h[n - 1]
        <4>1. n - 1 \in 0..b /\ n - 1 \in 0..(b - 1) /\ (n - 1 # 0 => n - 1 - 1 \in 0..(b - 1))
          BY <2>1, <2>3, <3>3
        <4> QED  BY <3>2, <4>1
      <3>4. Reads(g, b)
        BY <3>3
      <3> QED  BY <2>1, <3>4
    <2> QED  BY <2>2, <2>3
  <1> DEFINE first == CHOOSE g : Reads(g, N)
  <1>3. Reads(first, N)
    <2> HIDE DEF Reads
    <2> QED  BY <1>2
  <1>4. Kept(seq, chosen) = first
    BY DEF Kept
  <1> HIDE DEF first
  <1>5. first[0] = <<>>
    BY <1>1, <1>3
  <1>6. ASSUME NEW n \in 1..N
        PROVE  first[n] = IF n \in chosen THEN Append(first[n - 1], seq[n]) ELSE first[n - 1]
    <2>1. n \in 0..N /\ n # 0
      BY <1>1
    <2> QED  BY <1>3, <2>1
  <1> QED  BY <1>4, <1>5, <1>6

\* What holds of nothing and of all that is kept next holds of what is kept.
LEMMA KeptIn ==
    ASSUME NEW seq, NEW chosen, NEW E, Len(seq) \in Nat,
           \A n \in 1..Len(seq) : n \in chosen => seq[n] \in E,
           NEW m \in 0..Len(seq)
    PROVE  Kept(seq, chosen)[m] \in Seq(E)
  <1> DEFINE kept == Kept(seq, chosen)
             N == Len(seq)
             B == {k \in 0..N : kept[k] \notin Seq(E)}
  <1>1. /\ kept[0] = <<>>
        /\ \A n \in 1..N : kept[n] = IF n \in chosen THEN Append(kept[n - 1], seq[n]) ELSE kept[n - 1]
        /\ N \in Nat
    BY KeptDef
  <1> HIDE DEF kept
  <1> SUFFICES ASSUME B # {} PROVE FALSE
    BY DEF kept
  <1>2. PICK b \in B : \A c \in B : b <= c
    <2>1. B \in SUBSET Nat
      BY <1>1
    <2> HIDE DEF B
    <2> QED  BY <2>1, Least
  <1>3. b # 0
    <2>1. <<>> \in Seq(E)
      OBVIOUS
    <2> QED  BY <1>1, <1>2, <2>1
  <1>4. b \in 1..N /\ b - 1 \in 0..N
    BY <1>1, <1>2, <1>3
  <1>5. kept[b - 1] \in Seq(E)
    BY <1>1, <1>2, <1>4
  <1>6. \A v \in Seq(E), x \in E : Append(v, x) \in Seq(E)
    OBVIOUS
  <1>7. kept[b] \in Seq(E)
    BY <1>1, <1>4, <1>5, <1>6
  <1> QED  BY <1>2, <1>7

\* The rows of a delimiter are rows.
LEMMA RowsType ==
    ASSUME NEW src, text \in Seq(Line), tables \in Seq(Seq(Piece))
    PROVE  RowsOf(src) \in Seq(Seq(Piece))
  <1> DEFINE seq == [n \in DOMAIN text |-> text[n].cells]
             divided == {n \in DOMAIN text : text[n].by = src /\ Len(text[n].cells) >= 2}
  <1>1. Len(text) \in Nat /\ DOMAIN text = 1..Len(text) /\ \A n \in 1..Len(text) : text[n] \in Line
    OBVIOUS
  <1>2. Len(seq) = Len(text) /\ Len(seq) \in Nat
    BY <1>1
  <1>3. \A n \in 1..Len(seq) : seq[n] \in Seq(Piece)
    BY <1>1, <1>2 DEF Line
  <1>4. src # "docx" => RowsOf(src) = Kept(seq, divided)[Len(text)]
    BY DEF RowsOf
  <1>5. Len(text) \in 0..Len(seq)
    BY <1>2
  <1> HIDE DEF seq, divided
  <1>6. Kept(seq, divided)[Len(text)] \in Seq(Seq(Piece))
    BY <1>2, <1>3, <1>5, KeptIn
  <1> QED  BY <1>4, <1>6 DEF RowsOf

\* What fieldMap may be, and the rows of what is found.
Maps == [Field -> Piece \cup {None}]
LeadRow == [value : [Field -> Seq(Value)], lines : SUBSET Nat]

\* Pieces.
LEMMA BlankType == BlankPiece \in Piece
  <1>1. <<>> \in Seq(Value)
    OBVIOUS
  <1> QED  BY <1>1 DEF BlankPiece, Piece

LEMMA OpaqueType ==
    ASSUME NEW p \in Seq(Piece), Len(p) >= 2
    PROVE  Opaque(p) \in Piece
  <1>1. p[1] \in Piece /\ p[2] \in Piece
    OBVIOUS
  <1>2. p[1].id \in Seq(Value) /\ p[2].id \in Seq(Value)
    BY <1>1 DEF Piece
  <1>3. p[1].id \o p[2].id \in Seq(Value)
    BY <1>2
  <1> QED  BY <1>3 DEF Opaque, Piece

\* What a line is read as.
LEMMA LineTypes ==
    ASSUME NEW line \in Line
    PROVE  /\ Whole(line) \in Piece
           /\ IsPair(line) => PairValue(line) \in Piece
           /\ PairField(line) \in Field \cup {None}
           /\ LabelField(line) \in Field \cup {None}
  <1>1. line.cells \in Seq(Piece) /\ line.cells # <<>>
    BY DEF Line
  <1>2. Len(line.cells) \in Nat \ {0}
    BY <1>1
  <1>3. Whole(line) \in Piece
    <2>1. CASE Len(line.cells) = 1
      BY <1>1, <2>1 DEF Whole
    <2>2. CASE Len(line.cells) # 1
      <3>1. Len(line.cells) >= 2
        <4> DEFINE n == Len(line.cells)
        <4>1. n \in Nat /\ n # 0 /\ n # 1
          BY <1>2, <2>2
        <4> HIDE DEF n
        <4>2. n >= 2
          BY <4>1
        <4> QED  BY <4>2 DEF n
      <3> QED  BY <1>1, <2>2, <3>1, OpaqueType DEF Whole
    <2> QED  BY <2>1, <2>2
  <1>4. ASSUME IsPair(line) PROVE PairValue(line) \in Piece /\ line.cells[1] \in Piece
    <2>1. Len(line.cells) >= 2
      BY <1>4 DEF IsPair
    <2>2. line.cells[1] \in Piece /\ line.cells[2] \in Piece
      BY <1>1, <2>1
    <2>3. CASE Len(line.cells) = 2
      BY <2>2, <2>3 DEF PairValue
    <2>4. CASE Len(line.cells) # 2
      <3>1. Tail(line.cells) \in Seq(Piece) /\ Len(Tail(line.cells)) >= 2
        <4> DEFINE c == line.cells
        <4>1. c \in Seq(Piece) /\ Len(c) >= 2 /\ Len(c) # 2
          BY <1>1, <2>1, <2>4
        <4> HIDE DEF c
        <4>2. Tail(c) \in Seq(Piece) /\ Len(Tail(c)) >= 2
          BY <4>1
        <4> QED  BY <4>2 DEF c
      <3> QED  BY <2>2, <2>4, <3>1, OpaqueType DEF PairValue
    <2> QED  BY <2>2, <2>3, <2>4
  <1>5. \A q \in Piece : q.alias \in Field \cup {None}
    BY DEF Piece
  <1>6. PairField(line) \in Field \cup {None}
    BY <1>4, <1>5 DEF PairField
  <1>7. LabelField(line) \in Field \cup {None}
    BY <1>3, <1>5 DEF LabelField
  <1> QED  BY <1>3, <1>4, <1>6, <1>7

\* What fieldMap becomes.
LEMMA NoFieldsType == NoFields \in Maps
  BY DEF NoFields, Maps

LEMMA WithEmailType ==
    ASSUME NEW map \in Maps
    PROVE  WithEmail(map) \subseteq Maps
  BY ParserAssumption DEF WithEmail, Maps, Identity

\* What is found is a lead.
LEMMA BuildLeadType ==
    ASSUME NEW map \in Maps
    PROVE  BuildLead(map) \in [Field -> Seq(Value)]
  <1> DEFINE id(f)    == IF map[f] = None THEN <<>> ELSE map[f].id
             or(f, g) == IF id(f) # <<>> THEN id(f) ELSE id(g)
  <1>1. "contact" \in Field /\ "kamName" \in Field
    BY ParserAssumption DEF Identity
  <1>2. ASSUME NEW f \in Field PROVE id(f) \in Seq(Value)
    <2>1. <<>> \in Seq(Value)
      OBVIOUS
    <2>2. map[f] # None => map[f].id \in Seq(Value)
      BY DEF Maps, Piece
    <2> QED  BY <2>1, <2>2
  <1>3. BuildLead(map) = [f \in Field |-> CASE f = "contact" -> or("contact", "kamName")
                                            [] f = "kamName" -> or("kamName", "contact")
                                            [] OTHER         -> id(f)]
    BY DEF BuildLead
  <1> HIDE DEF id
  <1>4. \A f \in Field : (CASE f = "contact" -> or("contact", "kamName")
                            [] f = "kamName" -> or("kamName", "contact")
                            [] OTHER         -> id(f)) \in Seq(Value)
    BY <1>1, <1>2
  <1> QED  BY <1>3, <1>4

LEMMA FoundType ==
    ASSUME leads \in Seq(LeadRow), NEW map \in Maps, NEW from \in SUBSET Nat
    PROVE  Found(map, from) \in Seq(LeadRow)
  <1> DEFINE lead == [value |-> BuildLead(map), lines |-> from]
  <1>1. lead \in LeadRow
    BY BuildLeadType DEF LeadRow
  <1> HIDE DEF lead
  <1>2. Append(leads, lead) \in Seq(LeadRow)
    BY <1>1
  <1> QED  BY <1>2 DEF Found, lead

\* What a row is read as: the column that counts is the last of a label, the cell that
\* counts the first that is not blank.
LEMMA ValueTypes ==
    ASSUME NEW r \in Seq(Piece)
    PROVE  /\ Len(r) >= 2 => RowValue(r) \in Piece
           /\ rows \in Seq(Seq(Piece)) => ByHeader(r) \in Maps
  <1>0. Len(r) \in Nat /\ DOMAIN r = 1..Len(r) /\ \A c \in 1..Len(r) : r[c] \in Piece
    OBVIOUS
  <1>1. ASSUME Len(r) >= 2 PROVE RowValue(r) \in Piece
    <2> DEFINE filled == {c \in 2..Len(r) : r[c].id # <<>>}
    <2>1. CASE filled = {}
      BY <1>0, <1>1, <2>1 DEF RowValue
    <2>2. CASE filled # {}
      <3>1. filled \in SUBSET (1..Len(r))
        BY <1>0
      <3> DEFINE n == CHOOSE c \in filled : \A d \in filled : c <= d
      <3> HIDE DEF filled
      <3>2. \E c \in filled : \A d \in filled : c <= d
        BY <1>0, <2>2, <3>1, Extremes
      <3>3. n \in filled
        BY <3>2
      <3>4. r[n] \in Piece
        BY <1>0, <3>1, <3>3
      <3> QED  BY <2>2, <3>4 DEF RowValue, filled
    <2> QED  BY <2>1, <2>2
  <1>2. ASSUME rows \in Seq(Seq(Piece)) PROVE ByHeader(r) \in Maps
    <2> DEFINE columns(f) == {c \in DOMAIN r \cap DOMAIN rows[header] : rows[header][c].alias = f}
               v(f) == IF columns(f) = {} THEN None
                       ELSE r[CHOOSE c \in columns(f) : \A d \in columns(f) : d <= c]
    <2>1. ASSUME NEW f \in Field PROVE v(f) \in Piece \cup {None}
      <3>1. columns(f) \in SUBSET (1..Len(r))
        BY <1>0
      <3> DEFINE n == CHOOSE c \in columns(f) : \A d \in columns(f) : d <= c
      <3> HIDE DEF columns
      <3>2. columns(f) # {} => \E c \in columns(f) : \A d \in columns(f) : d <= c
        BY <1>0, <3>1, Extremes
      <3>3. columns(f) # {} => n \in columns(f)
        BY <3>2
      <3>4. columns(f) # {} => r[n] \in Piece
        BY <1>0, <3>1, <3>3
      <3> QED  BY <3>4
    <2>2. ByHeader(r) = [f \in Field |-> v(f)]
      BY DEF ByHeader
    <2> HIDE DEF v
    <2> QED  BY <2>1, <2>2 DEF Maps
  <1> QED  BY <1>1, <1>2

-----------------------------------------------------------------------------
(* The types.                                                              *)

\* Indices start at 1.
TypeInv == TypeOK /\ ParserInv /\ at # 0

LEMMA TypeInit == Init => TypeInv
  <1> SUFFICES ASSUME Init PROVE TypeInv
    OBVIOUS
  <1>1. doc \in Document
    BY ParserAssumption DEF Init
  <1>2. text \in Seq(Line)
    BY <1>1 DEF Init, Document
  <1>3. BlankPiece \in Piece /\ NoFields \in [Field -> Piece \cup {None}]
    BY BlankType, NoFieldsType DEF Maps
  <1>4. <<>> \in Seq(Piece) /\ <<>> \in Seq(Seq(Piece))
        /\ <<>> \in Seq([value : [Field -> Seq(Value)], lines : SUBSET Nat])
    OBVIOUS
  <1>5. TypeOK
    BY <1>1, <1>2, <1>3, <1>4 DEF Init, TypeOK
  <1> QED  BY <1>5, ParserInit DEF TypeInv, Init

\* What an XML token does to the buffers.
LEMMA TokenType ==
    ASSUME TypeInv, ReadToken
    PROVE  /\ in' \subseteq {"tbl", "tr", "tc", "p"} /\ paragraph' \in Line \cup {None}
           /\ cell' \in Piece /\ row' \in Seq(Piece)
           /\ text' \in Seq(Line) /\ tables' \in Seq(Seq(Piece))
  <1> DEFINE token == doc.tokens[at]
             Name == {"tbl", "tr", "tc", "p"}
  <1>0. /\ in \subseteq Name /\ paragraph \in Line \cup {None} /\ cell \in Piece
        /\ row \in Seq(Piece) /\ text \in Seq(Line) /\ tables \in Seq(Seq(Piece))
    BY DEF TypeInv, TypeOK
  <1>1. token \in Token
    <2>1. doc.tokens \in Seq(Token) /\ at \in Nat \ {0} /\ at <= Len(doc.tokens)
      BY DEF TypeInv, TypeOK, ReadToken, Document
    <2>2. at \in 1..Len(doc.tokens)
      BY <2>1
    <2> QED  BY <2>1, <2>2
  <1>2. \/ token.kind = "start" /\ token.name \in Name /\ StartElement(token.name)
        \/ token.kind = "end" /\ token.name \in Name /\ EndElement(token.name)
        \/ token.kind = "text" /\ token.line \in Line /\ CharData(token.line)
    BY <1>1 DEF ReadToken, Token
  <1> HIDE DEF token
  <1>3. CASE StartElement(token.name) /\ token.name \in Name
    <2>1. <<>> \in Seq(Piece)
      OBVIOUS
    <2> QED  BY <1>0, <1>3, <2>1, BlankType DEF StartElement
  <1>4. CASE CharData(token.line) /\ token.line \in Line
    BY <1>0, <1>4 DEF CharData
  <1>5. CASE EndElement(token.name) /\ token.name \in Name
    <2>1. in' \subseteq Name
      BY <1>0, <1>5 DEF EndElement
    <2>2. CASE EndParagraph
      <3> DEFINE here == IF paragraph = None THEN BlankPiece ELSE Whole(paragraph)
      <3>1. here \in Piece
        BY <1>0, BlankType, LineTypes
      <3>2. text' \in Seq(Line)
        BY <1>0, <2>2 DEF EndParagraph
      <3> HIDE DEF here
      <3>3. Opaque(<<cell, here>>) \in Piece
        <4>1. <<cell, here>> \in Seq(Piece) /\ Len(<<cell, here>>) >= 2
          BY <1>0, <3>1
        <4> QED  BY <4>1, OpaqueType
      <3>4. cell' \in {cell, here, Opaque(<<cell, here>>)}
        BY <2>2 DEF EndParagraph, here
      <3> QED  BY <1>0, <2>1, <2>2, <3>1, <3>2, <3>3, <3>4 DEF EndParagraph
    <2>3. CASE EndCell
      <3>1. Append(row, cell) \in Seq(Piece)
        BY <1>0
      <3> QED  BY <1>0, <2>1, <2>3, <3>1 DEF EndCell
    <2>4. CASE EndRow
      <3>1. Append(tables, row) \in Seq(Seq(Piece))
        BY <1>0
      <3> QED  BY <1>0, <2>1, <2>4, <3>1 DEF EndRow
    <2>5. CASE UNCHANGED <<paragraph, cell, row, text, tables>>
      BY <1>0, <2>1, <2>5
    <2> QED  BY <1>5, <2>2, <2>3, <2>4, <2>5 DEF EndElement
  <1> QED  BY <1>2, <1>3, <1>4, <1>5

\* What a loop does to the record in hand and to the leads.
LEMMA RecordType ==
    ASSUME TypeOK, NEW f \in Field, NEW piece \in Piece, NEW from \in SUBSET Nat,
           NEW maps \in SUBSET Maps,
           Put(f, piece, from) \/ FlushAndPut(maps, f, piece, from) \/ PutLine(f, piece, from)
    PROVE  fields' \in Maps /\ lines' \subseteq Nat /\ leads' \in Seq(LeadRow)
  <1>0. fields \in Maps /\ lines \in SUBSET Nat /\ leads \in Seq(LeadRow)
    BY DEF TypeOK, Maps, LeadRow
  <1>1. WithEmail(fields) \subseteq Maps
    BY <1>0, WithEmailType
  <1>2. CASE Put(f, piece, from)
    BY <1>0, <1>2 DEF Put, Maps
  <1>3. ASSUME NEW m \in SUBSET Maps, FlushAndPut(m, f, piece, from)
        PROVE  fields' \in Maps /\ lines' \subseteq Nat /\ leads' \in Seq(LeadRow)
    <2>1. leads' \in Seq(LeadRow)
      BY <1>0, <1>3, FoundType DEF FlushAndPut
    <2>2. fields' \in Maps
      BY <1>3, NoFieldsType DEF FlushAndPut, Maps
    <2> QED  BY <1>3, <2>1, <2>2 DEF FlushAndPut
  <1> QED  BY <1>1, <1>2, <1>3 DEF PutLine

LEMMA FlushType ==
    ASSUME TypeOK, NEW maps \in SUBSET Maps, Flush(maps)
    PROVE  fields' \in Maps /\ lines' \subseteq Nat /\ leads' \in Seq(LeadRow)
  <1>0. fields \in Maps /\ lines \in SUBSET Nat /\ leads \in Seq(LeadRow)
    BY DEF TypeOK, Maps, LeadRow
  <1>1. leads' \in Seq(LeadRow)
    BY <1>0, FoundType DEF Flush
  <1> QED  BY <1>1, NoFieldsType DEF Flush
LEMMA TypeStep == TypeInv /\ [Next]_vars => TypeInv'
  <1> SUFFICES ASSUME TypeInv, [Next]_vars PROVE TypeInv'
    OBVIOUS
  <1>p. ParserInv'
    BY ParserStep DEF TypeInv
  <1>t. TypeOK /\ Control /\ at \in Nat /\ at # 0 /\ header \in Nat /\ recognized \in Nat
    BY DEF TypeInv, TypeOK, ParserInv
  <1>k. pc' \in {"xml", "source", "header", "rows", "vertical", "blocks", "done"}
        /\ source' \in {"docx", "|", "tab", ",", "blocks"} /\ header' \in Nat /\ at' \in Nat
    BY <1>p DEF ParserInv, Control
  <1>x. ASSUME UNCHANGED xml
        PROVE  /\ in' \subseteq {"tbl", "tr", "tc", "p"} /\ paragraph' \in Line \cup {None}
               /\ cell' \in Piece /\ row' \in Seq(Piece)
               /\ text' \in Seq(Line) /\ tables' \in Seq(Seq(Piece))
    BY <1>x, <1>t DEF xml, TypeOK
  <1>r. ASSUME UNCHANGED <<record, leads>>
        PROVE  fields' \in Maps /\ lines' \subseteq Nat /\ leads' \in Seq(LeadRow)
    BY <1>r, <1>t DEF record, TypeOK, Maps, LeadRow
  <1>e. <<>> \in Seq(LeadRow)
    OBVIOUS
  \* A step of an attempt, by what it does to its index, its rows and its records.
  <1>a. ASSUME UNCHANGED <<doc, xml>>, at' # 0, rows' \in Seq(Seq(Piece)), recognized' \in Nat,
               fields' \in Maps /\ lines' \subseteq Nat /\ leads' \in Seq(LeadRow)
        PROVE  TypeInv'
    <2>1. TypeOK'
      BY <1>a, <1>k, <1>t, <1>x DEF TypeOK, Maps, LeadRow
    <2> QED  BY <1>a, <1>p, <2>1 DEF TypeInv
  <1>n. at + 1 # 0 /\ at + 2 # 0 /\ header + 1 # 0 /\ recognized + 1 \in Nat
    BY <1>t
  <1>s. ASSUME NEW label, NEW src, StartOver(label, src), leads' \in Seq(LeadRow)
        PROVE  /\ at' # 0 /\ recognized' \in Nat
               /\ fields' \in Maps /\ lines' \subseteq Nat /\ leads' \in Seq(LeadRow)
    BY <1>s, NoFieldsType DEF StartOver
  <1>w. rows \in Seq(Seq(Piece)) /\ text \in Seq(Line) /\ tables \in Seq(Seq(Piece))
        /\ fields \in Maps /\ leads \in Seq(LeadRow)
    BY <1>t DEF TypeOK, Maps, LeadRow
  <1>y. ASSUME at <= Len(rows)
        PROVE  rows[at] \in Seq(Piece)
    <2>1. at \in 1..Len(rows)
      BY <1>t, <1>w, <1>y
    <2> QED  BY <1>w, <2>1
  <1>1. CASE ReadToken
    <2>1. TypeOK'
      BY <1>1, <1>k, <1>r, <1>t, TokenType
         DEF TypeInv, TypeOK, ReadToken, record, Maps, LeadRow
    <2> QED  BY <1>1, <1>n, <1>p, <2>1 DEF TypeInv, ReadToken
  <1>2. CASE EndOfTokens
    <2>1. /\ pc' = "source"
          /\ UNCHANGED <<doc, at, in, paragraph, cell, row, text, tables, source, rows, header,
                         recognized, fields, lines, leads>>
      BY <1>2 DEF EndOfTokens, xml, record
    <2> QED  BY <1>p, <1>t, <2>1 DEF TypeInv, TypeOK
  <1>3. CASE OpenSource
    <2>0. UNCHANGED <<doc, xml>>
      BY <1>3 DEF OpenSource
    <2>1. rows' \in Seq(Seq(Piece))
      BY <1>3, <1>w, RowsType DEF OpenSource
    <2>2. (\E label, src : StartOver(label, src)) /\ leads' \in Seq(LeadRow)
      BY <1>3, <1>e, <1>w DEF OpenSource, GiveUp
    <2> QED  BY <1>a, <1>s, <2>0, <2>1, <2>2
  <1>4. CASE ScanHeader \/ EndOfHeader \/ EndOfRows
    <2>1. /\ UNCHANGED <<doc, xml, rows, recognized, record, leads>>
          /\ at' \in {at, at + 1, 1, header + 1}
      BY <1>4 DEF ScanHeader, EndOfHeader, EndOfRows
    <2>2. rows' \in Seq(Seq(Piece)) /\ recognized' \in Nat
      BY <1>t, <1>w, <2>1
    <2>3. at' # 0
      BY <1>n, <1>t, <2>1
    <2> QED  BY <1>a, <1>r, <2>1, <2>2, <2>3
  <1>5. CASE ReadRow
    <2>1. UNCHANGED <<doc, xml, rows, recognized, record>> /\ at' = at + 1
      BY <1>5 DEF ReadRow
    <2>2. ByHeader(rows[at]) \in Maps /\ {at} \in SUBSET Nat
      BY <1>5, <1>t, <1>w, <1>y, ValueTypes DEF ReadRow
    <2>3. leads' \in Seq(LeadRow)
      BY <1>5, <1>w, <2>2, FoundType DEF ReadRow
    <2>4. fields' \in Maps /\ lines' \subseteq Nat
      BY <1>t, <2>1 DEF record, TypeOK, Maps
    <2> QED  BY <1>a, <1>n, <1>t, <1>w, <2>1, <2>3, <2>4
  <1>6. CASE ReadLabel
    <2> DEFINE r == rows[at]
               f == IF Len(r) < 2 THEN None ELSE r[1].alias
    <2>1. UNCHANGED <<doc, xml, rows>> /\ at' = at + 1
      BY <1>6 DEF ReadLabel
    <2>2. r \in Seq(Piece)
      BY <1>6, <1>y DEF ReadLabel
    <2>3. f # None => f \in Field /\ RowValue(r) \in Piece
      <3> HIDE DEF r
      <3> SUFFICES ASSUME f # None PROVE f \in Field /\ RowValue(r) \in Piece
        OBVIOUS
      <3>1. Len(r) >= 2 /\ Len(r) \in Nat
        BY <2>2
      <3>2. r[1] \in Piece
        BY <2>2, <3>1
      <3>3. r[1].alias \in Field \cup {None}
        BY <3>2 DEF Piece
      <3> QED  BY <2>2, <3>1, <3>3, ValueTypes
    <2>4. \/ recognized' = recognized /\ UNCHANGED <<record, leads>>
          \/ /\ recognized' = recognized + 1 /\ f # None
             /\ FlushAndPut({fields}, f, RowValue(r), {at}) \/ Put(f, RowValue(r), {at})
      BY <1>6 DEF ReadLabel
    <2> HIDE DEF f, r
    <2>5. recognized' \in Nat
      BY <1>n, <1>t, <2>4
    <2>6. fields' \in Maps /\ lines' \subseteq Nat /\ leads' \in Seq(LeadRow)
      <3>1. {at} \in SUBSET Nat /\ {fields} \in SUBSET Maps
        BY <1>t, <1>w
      <3> QED  BY <1>r, <1>t, <2>3, <2>4, <3>1, RecordType
    <2> QED  BY <1>a, <1>n, <1>w, <2>1, <2>5, <2>6
  <1>7. CASE EndOfLabels
    <2>1. UNCHANGED <<doc, xml, rows>>
      BY <1>7 DEF EndOfLabels
    <2>2. CASE GiveUp
      <3>1. (\E label, src : StartOver(label, src)) /\ leads' \in Seq(LeadRow)
        BY <1>e, <2>2 DEF GiveUp
      <3> QED  BY <1>a, <1>s, <1>w, <2>1, <3>1
    <2>3. CASE Flush({fields}) /\ UNCHANGED <<at, recognized>>
      <3>1. {fields} \in SUBSET Maps
        BY <1>w
      <3>2. fields' \in Maps /\ lines' \subseteq Nat /\ leads' \in Seq(LeadRow)
        BY <1>t, <2>3, <3>1, FlushType
      <3> QED  BY <1>a, <1>t, <1>w, <2>1, <2>3, <3>2
    <2> QED  BY <1>7, <2>2, <2>3 DEF EndOfLabels
  <1>8. CASE EndOfLines
    <2>1. fields' \in Maps /\ lines' \subseteq Nat /\ leads' \in Seq(LeadRow)
      BY <1>8, <1>t, <1>w, WithEmailType, FlushType DEF EndOfLines
    <2> QED  BY <1>8, <1>a, <1>t, <1>w, <2>1 DEF EndOfLines
  <1>9. CASE ReadLine
    <2> DEFINE line == text[at]
    <2>1. UNCHANGED <<doc, xml, rows, recognized>> /\ at' \in {at + 1, at + 2}
      BY <1>9 DEF ReadLine
    <2>2. line \in Line /\ (at < Len(text) => text[at + 1] \in Line)
      <3>1. at \in 1..Len(text) /\ (at < Len(text) => at + 1 \in 1..Len(text))
        BY <1>9, <1>t, <1>w DEF ReadLine
      <3> QED  BY <1>w, <3>1
    <2>3. /\ {at} \in SUBSET Nat /\ {at, at + 1} \in SUBSET Nat
          /\ WithEmail(fields) \in SUBSET Maps /\ "email" \in Field /\ BlankPiece \in Piece
      BY <1>t, <1>w, WithEmailType, BlankType, ParserAssumption DEF Identity
    <2>4. \/ Flush(WithEmail(fields))
          \/ UNCHANGED <<record, leads>>
          \/ \E f \in Field, piece \in Piece, from \in {{at}, {at, at + 1}} :
                Put(f, piece, from) \/ PutLine(f, piece, from)
      <3>1. /\ Whole(line) \in Piece
            /\ IsPair(line) => PairValue(line) \in Piece
            /\ PairField(line) # None => IsPair(line) /\ PairField(line) \in Field
            /\ LabelField(line) # None => LabelField(line) \in Field
            /\ TakesNext => Whole(text[at + 1]) \in Piece
        BY <2>2, LineTypes DEF PairField, TakesNext
      <3> HIDE DEF line
      <3>2. \/ Flush(WithEmail(fields))
            \/ UNCHANGED <<record, leads>>
            \/ PairField(line) # None /\ PutLine(PairField(line), PairValue(line), {at})
            \/ /\ LabelField(line) # None /\ TakesNext
               /\ PutLine(LabelField(line), Whole(text[at + 1]), {at, at + 1})
            \/ LabelField(line) # None /\ PutLine(LabelField(line), BlankPiece, {at})
            \/ Put("email", Whole(line), {at})
        BY <1>9, Zenon DEF ReadLine, line
      <3> QED  BY <2>3, <3>1, <3>2, Zenon
    <2>5. fields' \in Maps /\ lines' \subseteq Nat /\ leads' \in Seq(LeadRow)
      <3>1. \A from \in {{at}, {at, at + 1}} : from \in SUBSET Nat
        BY <2>3
      <3> QED  BY <1>r, <1>t, <2>3, <2>4, <3>1, RecordType, FlushType
    <2> QED  BY <1>a, <1>n, <1>t, <1>w, <2>1, <2>5
  <1>10. CASE Answered \/ UNCHANGED vars
    BY <1>10, <1>p, <1>t DEF Answered, vars, xml, record, TypeInv, TypeOK
  <1> QED  BY <1>1, <1>2, <1>3, <1>4, <1>5, <1>6, <1>7, <1>8, <1>9, <1>10 DEF Next

-----------------------------------------------------------------------------
(* What is read of a DOCX file.                                            *)

IsText(n) == n # 0 /\ doc.tokens[n].kind = "text"

\* The lines that have ended are in the text, and the one that has not is the paragraph.
LinesRead(count) ==
    /\ Starts(text, doc.lines)
    /\ IF IsText(at - 1)
       THEN /\ "p" \in in
            /\ count[at - 1].lines = Len(text) + 1
            /\ paragraph = doc.tokens[at - 1].line
       ELSE /\ count[at - 1].lines = Len(text)
            /\ "p" \in in => paragraph = None

\* So are the rows and the cells.
RowsRead(count) ==
    LET i == count[at - 1].rows IN
    /\ Starts(tables, doc.rows)
    /\ i = IF "tr" \in in THEN Len(tables) + 1 ELSE Len(tables)
    /\ "tr" \in in =>
          /\ count[at - 1].cells = IF "tc" \in in THEN Len(row) + 1 ELSE Len(row)
          /\ \A c \in DOMAIN row :
                i \in DOMAIN doc.rows /\ c \in DOMAIN doc.rows[i] /\ doc.rows[i][c] = row[c]

\* The cell has what its paragraph had, when that has ended.
CellRead ==
    "tc" \in in =>
        \/ Opens(doc.tokens[at - 1], "tc") /\ ~IsText(at - 2) /\ cell = BlankPiece
        \/ "p" \in in /\ cell = BlankPiece
        \/ /\ Closes(doc.tokens[at - 1], "p") /\ "p" \notin in
           /\ cell = IF IsText(at - 2) THEN Whole(doc.tokens[at - 2].line) ELSE BlankPiece

BeingRead(count) ==
    /\ at <= Len(doc.tokens) + 1
    /\ in = count[at - 1].open
    /\ LinesRead(count) /\ RowsRead(count) /\ CellRead

\* When it has been read, with nothing missing, nothing is missing.
HasBeenRead(count) ==
    /\ ReadAsWritten
    /\ Complete(doc, count) => tables = doc.rows /\ text = doc.lines

FileInv ==
    /\ doc.docx => \A count : Tagged(doc, count) =>
          IF pc = "xml" THEN BeingRead(count) ELSE HasBeenRead(count)
    /\ ~doc.docx => pc # "xml" /\ tables = <<>> /\ text = doc.lines

\* One more of what is there.
LEMMA StartsOn ==
    ASSUME NEW E, NEW s \in Seq(E), NEW t \in Seq(E), NEW x \in E,
           Starts(s, t), Len(s) + 1 \in DOMAIN t, t[Len(s) + 1] = x
    PROVE  Starts(Append(s, x), t)
  <1> DEFINE n == Len(s)
             u == Append(s, x)
  <1>1. /\ n \in Nat /\ DOMAIN s = 1..n /\ Len(t) \in Nat /\ DOMAIN t = 1..Len(t)
        /\ Len(u) = n + 1 /\ DOMAIN u = 1..(n + 1) /\ u[n + 1] = x
        /\ \A i \in 1..n : u[i] = s[i]
    OBVIOUS
  <1>2. n + 1 <= Len(t) /\ t[n + 1] = x /\ \A i \in 1..n : s[i] = t[i]
    BY <1>1 DEF Starts
  <1> HIDE DEF n, u
  <1>3. ASSUME NEW i \in 1..(n + 1) PROVE u[i] = t[i]
    <2>1. i \in 1..n \/ i = n + 1
      BY <1>1
    <2> QED  BY <1>1, <1>2, <2>1
  <1>4. Starts(u, t)
    BY <1>1, <1>2, <1>3 DEF Starts
  <1> QED  BY <1>4 DEF u

\* All of what is there.
LEMMA StartsAll ==
    ASSUME NEW E, NEW s \in Seq(E), NEW t \in Seq(E), Starts(s, t), Len(s) = Len(t)
    PROVE  s = t
  <1>1. \A i \in 1..Len(s) : s[i] = t[i]
    BY DEF Starts
  <1> QED  BY <1>1

\* Nothing and everything are first parts.
LEMMA StartsNone ==
    ASSUME NEW E, NEW t \in Seq(E)
    PROVE  Starts(<<>>, t) /\ Starts(t, t)
  BY DEF Starts

\* What a token counts for.
LEMMA CountStep ==
    ASSUME NEW tokens, NEW count, Counts(tokens, count), NEW n \in DOMAIN tokens
    PROVE  /\ count[n].open = IF tokens[n].kind = "start" THEN count[n - 1].open \cup {tokens[n].name}
                              ELSE IF tokens[n].kind = "end" THEN count[n - 1].open \ {tokens[n].name}
                              ELSE count[n - 1].open
           /\ count[n].rows = IF Opens(tokens[n], "tr") THEN count[n - 1].rows + 1
                              ELSE count[n - 1].rows
           /\ count[n].cells = IF Opens(tokens[n], "tr") THEN 0
                               ELSE IF Opens(tokens[n], "tc") THEN count[n - 1].cells + 1
                               ELSE count[n - 1].cells
           /\ count[n].lines = IF tokens[n].kind = "text" THEN count[n - 1].lines + 1
                               ELSE count[n - 1].lines
  <1> HIDE DEF Opens
  <1>1. count[n] =
          [open  |-> IF tokens[n].kind = "start" THEN count[n - 1].open \cup {tokens[n].name}
                     ELSE IF tokens[n].kind = "end" THEN count[n - 1].open \ {tokens[n].name}
                     ELSE count[n - 1].open,
           rows  |-> IF Opens(tokens[n], "tr") THEN count[n - 1].rows + 1 ELSE count[n - 1].rows,
           cells |-> IF Opens(tokens[n], "tr") THEN 0
                     ELSE IF Opens(tokens[n], "tc") THEN count[n - 1].cells + 1
                     ELSE count[n - 1].cells,
           lines |-> IF tokens[n].kind = "text" THEN count[n - 1].lines + 1
                     ELSE count[n - 1].lines]
    BY Zenon DEF Counts
  <1> QED  BY <1>1

\* The token that is read.
LEMMA TokenRead ==
    ASSUME TypeInv, ReadToken, NEW count, Tagged(doc, count), BeingRead(count)
    PROVE  /\ at \in 1..Len(doc.tokens) /\ at \in DOMAIN doc.tokens /\ doc.tokens[at] \in Token
           /\ doc' = doc /\ at' = at + 1 /\ at' - 1 = at /\ at' - 2 = at - 1
           /\ at' <= Len(doc.tokens) + 1
           /\ doc.lines \in Seq(Line) /\ doc.rows \in Seq(Seq(Piece))
           /\ row \in Seq(Piece) /\ text \in Seq(Line) /\ tables \in Seq(Seq(Piece))
           /\ cell \in Piece
           /\ in' = count'[at' - 1].open
  <1>1. /\ doc.tokens \in Seq(Token) /\ at \in Nat \ {0} /\ at <= Len(doc.tokens)
        /\ doc.lines \in Seq(Line) /\ doc.rows \in Seq(Seq(Piece))
        /\ row \in Seq(Piece) /\ text \in Seq(Line) /\ tables \in Seq(Seq(Piece)) /\ cell \in Piece
    BY DEF TypeInv, TypeOK, ReadToken, Document
  <1>2. at \in 1..Len(doc.tokens) /\ at \in DOMAIN doc.tokens /\ doc.tokens[at] \in Token
    BY <1>1
  <1>3. doc' = doc /\ at' = at + 1
    BY DEF ReadToken
  <1>4. at' - 1 = at /\ at' - 2 = at - 1 /\ at' <= Len(doc.tokens) + 1
    BY <1>1, <1>3
  <1>5. in' = count[at].open
    <2> DEFINE token == doc.tokens[at]
    <2>1. \/ token.kind = "start" /\ in' = in \cup {token.name}
          \/ token.kind = "end" /\ in' = in \ {token.name}
          \/ token.kind = "text" /\ in' = in
      BY <1>2 DEF ReadToken, Token, StartElement, EndElement, CharData
    <2>2. count[at].open = IF token.kind = "start" THEN count[at - 1].open \cup {token.name}
                           ELSE IF token.kind = "end" THEN count[at - 1].open \ {token.name}
                           ELSE count[at - 1].open
      BY <1>2, CountStep DEF Tagged
    <2> QED  BY <2>1, <2>2 DEF BeingRead
  <1> QED  BY <1>1, <1>2, <1>3, <1>4, <1>5

\* What reading a token does where elements are nested.
TokenStep ==
    LET token == doc.tokens[at] IN
    \/ /\ Opens(token, "tbl") /\ in = {} /\ in' = {"tbl"}
       /\ UNCHANGED <<paragraph, cell, row, text, tables>>
    \/ /\ Opens(token, "tr") /\ in = {"tbl"} /\ in' = {"tbl", "tr"}
       /\ row' = <<>> /\ UNCHANGED <<paragraph, cell, text, tables>>
    \/ /\ Opens(token, "tc") /\ in = {"tbl", "tr"} /\ in' = {"tbl", "tr", "tc"}
       /\ cell' = BlankPiece /\ UNCHANGED <<paragraph, row, text, tables>>
    \/ /\ Opens(token, "p") /\ in' = in \cup {"p"}
       /\ in = {} \/ (in = {"tbl", "tr", "tc"} /\ Opens(doc.tokens[at - 1], "tc"))
       /\ paragraph' = None /\ UNCHANGED <<cell, row, text, tables>>
    \/ /\ token.kind = "text" /\ "p" \in in /\ in' = in
       /\ Opens(doc.tokens[at - 1], "p")
       /\ paragraph' = token.line /\ UNCHANGED <<cell, row, text, tables>>
    \/ /\ Closes(token, "p") /\ "p" \in in /\ in' = in \ {"p"} /\ EndParagraph
    \/ /\ Closes(token, "tc") /\ in = {"tbl", "tr", "tc"} /\ in' = {"tbl", "tr"}
       /\ row' = Append(row, cell) /\ UNCHANGED <<paragraph, cell, text, tables>>
    \/ /\ Closes(token, "tr") /\ in = {"tbl", "tr"} /\ in' = {"tbl"}
       /\ tables' = IF row # <<>> THEN Append(tables, row) ELSE tables
       /\ UNCHANGED <<paragraph, cell, row, text>>
    \/ /\ Closes(token, "tbl") /\ in = {"tbl"} /\ in' = {}
       /\ UNCHANGED <<paragraph, cell, row, text, tables>>

\* In a file whose elements are nested, a token does one of these.
LEMMA TokenSteps ==
    ASSUME TypeInv, ReadToken, NEW count, Tagged(doc, count), BeingRead(count)
    PROVE  TokenStep
  <1> DEFINE token == doc.tokens[at]
             Name  == {"tbl", "tr", "tc", "p"}
  <1>1. at \in DOMAIN doc.tokens /\ token \in Token
    BY TokenRead
  <1>2. /\ Opens(token, "tbl") => in = {}
        /\ Opens(token, "tr")  => in = {"tbl"}
        /\ Opens(token, "tc")  => in = {"tbl", "tr"}
        /\ Opens(token, "p")   => in = {} \/ (in = {"tbl", "tr", "tc"} /\ Opens(doc.tokens[at - 1], "tc"))
        /\ token.kind = "text" => "p" \in in /\ Opens(doc.tokens[at - 1], "p")
        /\ Closes(token, "p")   => "p" \in in
        /\ Closes(token, "tc")  => in = {"tbl", "tr", "tc"}
        /\ Closes(token, "tr")  => in = {"tbl", "tr"}
        /\ Closes(token, "tbl") => in = {"tbl"}
    BY <1>1, Zenon DEF Tagged, Nested, BeingRead
  <1>3. \/ token.kind = "start" /\ token.name \in Name /\ StartElement(token.name)
        \/ token.kind = "end" /\ token.name \in Name /\ EndElement(token.name)
        \/ token.kind = "text" /\ token.line \in Line /\ CharData(token.line)
    BY <1>1 DEF ReadToken, Token
  <1> HIDE DEF token
  <1>4. CASE token.kind = "start" /\ token.name \in Name /\ StartElement(token.name)
    BY <1>2, <1>4 DEF StartElement, Opens, TokenStep, token
  <1>5. CASE token.kind = "end" /\ token.name \in Name /\ EndElement(token.name)
    <2>1. CASE token.name = "p"
      BY <1>2, <1>5, <2>1 DEF EndElement, Closes, TokenStep, token
    <2>2. CASE token.name = "tc"
      BY <1>2, <1>5, <2>2 DEF EndElement, EndCell, Closes, TokenStep, token
    <2>3. CASE token.name = "tr"
      BY <1>2, <1>5, <2>3 DEF EndElement, EndRow, Closes, TokenStep, token
    <2>4. CASE token.name = "tbl"
      BY <1>2, <1>5, <2>4 DEF EndElement, Closes, TokenStep, token
    <2> QED  BY <1>5, <2>1, <2>2, <2>3, <2>4
  <1>6. CASE token.kind = "text" /\ token.line \in Line /\ CharData(token.line)
    BY <1>2, <1>6 DEF CharData, TokenStep, token
  <1> QED  BY <1>3, <1>4, <1>5, <1>6

\* The lines go on as they are written.
LEMMA LinesStep ==
    ASSUME TypeInv, ReadToken, NEW count, Tagged(doc, count), BeingRead(count)
    PROVE  LinesRead(count)'
  <1> DEFINE token == doc.tokens[at]
  <1>0. /\ at \in DOMAIN doc.tokens /\ at' - 1 = at /\ at # 0 /\ doc' = doc
        /\ doc.lines \in Seq(Line) /\ text \in Seq(Line) /\ token \in Token
    <2>1. at # 0
      BY DEF TypeInv
    <2> QED  BY <2>1, TokenRead
  <1>1. count[at].lines = IF token.kind = "text" THEN count[at - 1].lines + 1 ELSE count[at - 1].lines
    <2>1. Counts(doc.tokens, count)
      BY DEF Tagged
    <2>2. at \in DOMAIN doc.tokens
      BY <1>0
    <2> HIDE DEF token
    <2>3. count[at].lines = IF doc.tokens[at].kind = "text" THEN count[at - 1].lines + 1
                            ELSE count[at - 1].lines
      BY <2>1, <2>2, CountStep
    <2> QED  BY <2>3 DEF token
  <1>2. token.kind = "text" =>
           count[at].lines \in DOMAIN doc.lines /\ doc.lines[count[at].lines] = token.line
    BY <1>0, Zenon DEF Tagged, Holds
  <1>3. IsText(at - 1) => at - 1 \in DOMAIN doc.tokens
    <2>1. doc.tokens \in Seq(Token) /\ at \in Nat
      BY DEF TypeInv, TypeOK, Document
    <2> QED  BY <1>0, <2>1 DEF IsText
  <1>5. LinesRead(count) /\ TokenStep
    BY TokenSteps DEF BeingRead
  <1>6. SUFFICES /\ Starts(text', doc.lines)
                 /\ IF token.kind = "text"
                    THEN "p" \in in' /\ count[at].lines = Len(text') + 1 /\ paragraph' = token.line
                    ELSE count[at].lines = Len(text') /\ ("p" \in in' => paragraph' = None)
    <2>1. IsText(at - 1)' <=> token.kind = "text"
      BY <1>0 DEF IsText
    <2> QED  BY <1>0, <1>6, <2>1 DEF LinesRead, Starts
  <1> HIDE DEF token
  <1>7. CASE token.kind = "text"
    <2>1. Opens(doc.tokens[at - 1], "p") /\ text' = text /\ paragraph' = token.line /\ in' = in /\ "p" \in in
      BY <1>5, <1>7 DEF TokenStep, Opens, Closes, token
    <2>2. ~IsText(at - 1)
      BY <2>1 DEF IsText, Opens
    <2> QED  BY <1>1, <1>5, <1>7, <2>1, <2>2 DEF LinesRead
  <1>8. CASE Closes(token, "p")
    <2>1. "p" \in in /\ in' = in \ {"p"} /\ EndParagraph /\ token.kind # "text"
      BY <1>5, <1>8 DEF TokenStep, Opens, Closes, token
    <2>2. CASE IsText(at - 1)
      <3>1. paragraph = doc.tokens[at - 1].line /\ count[at - 1].lines = Len(text) + 1 /\ Starts(text, doc.lines)
        BY <1>5, <2>2 DEF LinesRead
      <3>2. /\ Len(text) + 1 \in DOMAIN doc.lines /\ doc.lines[Len(text) + 1] = paragraph
        BY <1>3, <2>2, <3>1, Zenon DEF Tagged, Holds, IsText
      <3>3. paragraph \in Line
        BY <1>0, <3>2
      <3>4. paragraph # None
        BY <3>3, ParserAssumption
      <3>5. text' = Append(text, paragraph)
        BY <2>1, <3>4 DEF EndParagraph
      <3>6. Starts(text', doc.lines) /\ Len(text') = Len(text) + 1
        BY <1>0, <3>1, <3>2, <3>3, <3>5, StartsOn
      <3> QED  BY <1>1, <2>1, <3>1, <3>6
    <2>3. CASE ~IsText(at - 1)
      <3>1. paragraph = None /\ text' = text
        BY <1>5, <2>1, <2>3 DEF LinesRead, EndParagraph
      <3> QED  BY <1>1, <1>5, <2>1, <2>3, <3>1 DEF LinesRead
    <2> QED  BY <2>2, <2>3
  <1>9. CASE token.kind # "text" /\ ~Closes(token, "p")
    <2>1. /\ text' = text
          /\ \/ "p" \notin in /\ "p" \notin in'
             \/ "p" \notin in /\ paragraph' = None
      BY <1>5, <1>9 DEF TokenStep, token
    <2>2. ~IsText(at - 1)
      BY <1>5, <2>1 DEF LinesRead
    <2> QED  BY <1>1, <1>5, <1>9, <2>1, <2>2 DEF LinesRead
  <1> QED  BY <1>7, <1>8, <1>9

\* The cell has what is written in it.
LEMMA CellStep ==
    ASSUME TypeInv, ReadToken, NEW count, Tagged(doc, count), BeingRead(count)
    PROVE  CellRead'
  <1> DEFINE token == doc.tokens[at]
  <1>0. /\ at \in DOMAIN doc.tokens /\ at' - 1 = at /\ at' - 2 = at - 1 /\ doc' = doc
    BY TokenRead
  <1>1. LinesRead(count) /\ CellRead /\ TokenStep
    BY TokenSteps DEF BeingRead
  <1>2. SUFFICES ASSUME "tc" \in in'
                 PROVE  \/ Opens(token, "tc") /\ ~IsText(at - 1) /\ cell' = BlankPiece
                        \/ "p" \in in' /\ cell' = BlankPiece
                        \/ /\ Closes(token, "p") /\ "p" \notin in'
                           /\ cell' = IF IsText(at - 1) THEN Whole(doc.tokens[at - 1].line) ELSE BlankPiece
    <2>1. IsText(at - 2)' <=> IsText(at - 1)
      BY <1>0 DEF IsText
    <2>2. doc.tokens[at' - 2] = doc.tokens[at - 1] /\ doc.tokens[at' - 1] = token
      BY <1>0
    <2>3. Whole(doc'.tokens[at' - 2].line) = Whole(doc.tokens[at - 1].line)
      BY <1>0, <2>2
    <2> HIDE DEF token
    <2> QED  BY <1>0, <1>2, <2>1, <2>2, <2>3 DEF CellRead, Opens, Closes, BlankPiece, Whole, Opaque
  <1> HIDE DEF token
  <1>3. CASE Opens(token, "tc")
    <2>1. "p" \notin in /\ cell' = BlankPiece
      BY <1>1, <1>3 DEF TokenStep, Opens, Closes, token
    <2> QED  BY <1>1, <1>3, <2>1 DEF LinesRead
  <1>4. CASE Opens(token, "p")
    <2>1. in = {"tbl", "tr", "tc"} /\ cell' = cell /\ in' = in \cup {"p"} /\ Opens(doc.tokens[at - 1], "tc")
      BY <1>1, <1>2, <1>4 DEF TokenStep, Opens, Closes, token
    <2>2. ~Closes(doc.tokens[at - 1], "p")
      BY <2>1 DEF Opens, Closes
    <2> QED  BY <1>1, <2>1, <2>2 DEF CellRead
  <1>5. CASE token.kind = "text"
    <2>1. "tc" \in in /\ "p" \in in /\ in' = in /\ cell' = cell /\ Opens(doc.tokens[at - 1], "p")
      BY <1>1, <1>2, <1>5 DEF TokenStep, Opens, Closes, token
    <2>2. ~Closes(doc.tokens[at - 1], "p")
      BY <2>1 DEF Opens, Closes
    <2> QED  BY <1>1, <2>1, <2>2 DEF CellRead
  <1>6. CASE Closes(token, "p")
    <2>1. "p" \in in /\ in' = in \ {"p"} /\ EndParagraph
      BY <1>1, <1>6 DEF TokenStep, Opens, Closes, token
    <2>2. "tc" \in in
      BY <1>2, <2>1
    <2>3. IsText(at - 1) => "p" \in in /\ paragraph = doc.tokens[at - 1].line
      BY <1>1 DEF LinesRead
    <2>4. ~IsText(at - 1) => paragraph = None
      BY <1>1, <2>1 DEF LinesRead
    <2>5. cell = BlankPiece
      BY <1>1, <2>1, <2>2 DEF CellRead, Opens
    <2>6. CASE IsText(at - 1)
      <3>1. paragraph # None
        <4>1. at - 1 \in DOMAIN doc.tokens /\ doc.tokens \in Seq(Token)
          <5>1. doc.tokens \in Seq(Token) /\ at \in Nat
            BY DEF TypeInv, TypeOK, Document
          <5> QED  BY <1>0, <2>6, <5>1 DEF IsText
        <4>2. doc.tokens[at - 1] \in Token
          BY <4>1
        <4>3. doc.tokens[at - 1].line \in Line
          BY <2>6, <4>2 DEF Token, IsText
        <4> QED  BY <2>3, <2>6, <4>3, ParserAssumption
      <3>2. cell' = Whole(paragraph)
        BY <2>1, <2>2, <2>5, <3>1 DEF EndParagraph
      <3> QED  BY <1>6, <2>1, <2>3, <2>6, <3>2
    <2>7. CASE ~IsText(at - 1)
      <3>1. cell' = BlankPiece
        BY <2>1, <2>4, <2>5, <2>7 DEF EndParagraph
      <3> QED  BY <1>6, <2>1, <2>7, <3>1
    <2> QED  BY <2>6, <2>7
  <1>7. CASE ~Opens(token, "tc") /\ ~Opens(token, "p") /\ token.kind # "text" /\ ~Closes(token, "p")
    <2>1. "tc" \notin in'
      BY <1>1, <1>7 DEF TokenStep, token
    <2> QED  BY <1>2, <2>1
  <1> QED  BY <1>3, <1>4, <1>5, <1>6, <1>7

\* The rows go on as they are written.
LEMMA RowsStep ==
    ASSUME TypeInv, ReadToken, NEW count, Tagged(doc, count), BeingRead(count)
    PROVE  RowsRead(count)'
  <1> DEFINE token == doc.tokens[at]
             old == count[at - 1]
             new == count[at]
             Agrees(r, i) == \A c \in DOMAIN r :
                 i \in DOMAIN doc.rows /\ c \in DOMAIN doc.rows[i] /\ doc.rows[i][c] = r[c]
  <1>0. /\ at \in DOMAIN doc.tokens /\ at' - 1 = at /\ doc' = doc
        /\ row \in Seq(Piece) /\ tables \in Seq(Seq(Piece)) /\ cell \in Piece
        /\ doc.rows \in Seq(Seq(Piece))
    BY TokenRead
  <1>1. /\ new.rows = IF Opens(token, "tr") THEN old.rows + 1 ELSE old.rows
        /\ new.cells = IF Opens(token, "tr") THEN 0
                       ELSE IF Opens(token, "tc") THEN old.cells + 1 ELSE old.cells
    <2>1. Counts(doc.tokens, count) /\ at \in DOMAIN doc.tokens
      BY <1>0 DEF Tagged
    <2> HIDE DEF token, old, new
    <2>2. count[at].rows = IF Opens(doc.tokens[at], "tr") THEN count[at - 1].rows + 1
                           ELSE count[at - 1].rows
      BY <2>1, CountStep, Zenon
    <2>3. count[at].cells = IF Opens(doc.tokens[at], "tr") THEN 0
                            ELSE IF Opens(doc.tokens[at], "tc") THEN count[at - 1].cells + 1
                            ELSE count[at - 1].cells
      BY <2>1, CountStep, Zenon
    <2> QED  BY <2>2, <2>3 DEF token, old, new
  <1>2. TokenStep
    BY TokenSteps
  <1>3. /\ Starts(tables, doc.rows)
        /\ old.rows = IF "tr" \in in THEN Len(tables) + 1 ELSE Len(tables)
        /\ "tr" \in in => /\ old.cells = IF "tc" \in in THEN Len(row) + 1 ELSE Len(row)
                          /\ Agrees(row, old.rows)
    BY DEF BeingRead, RowsRead
  <1>4. SUFFICES /\ Starts(tables', doc.rows)
                 /\ new.rows = IF "tr" \in in' THEN Len(tables') + 1 ELSE Len(tables')
                 /\ "tr" \in in' => /\ new.cells = IF "tc" \in in' THEN Len(row') + 1 ELSE Len(row')
                                    /\ Agrees(row', new.rows)
    BY <1>0, <1>4 DEF RowsRead, Starts
  <1>5. /\ Closes(token, "tc") =>
              /\ new.rows \in DOMAIN doc.rows /\ new.cells \in DOMAIN doc.rows[new.rows]
              /\ doc.rows[new.rows][new.cells] =
                    IF at > 2 /\ doc.tokens[at - 2].kind = "text"
                    THEN Whole(doc.tokens[at - 2].line) ELSE BlankPiece
        /\ Closes(token, "tr") =>
              new.rows \in DOMAIN doc.rows /\ Len(doc.rows[new.rows]) = new.cells /\ new.cells > 0
    BY <1>0, Zenon DEF Tagged, Holds
  <1>6. CASE Opens(token, "tr")
    <2>1. in = {"tbl"} /\ in' = {"tbl", "tr"} /\ row' = <<>> /\ tables' = tables
      BY <1>2, <1>6 DEF TokenStep, Opens, Closes
    <2> QED  BY <1>1, <1>3, <1>6, <2>1
  <1>7. CASE Opens(token, "tc")
    <2>1. in = {"tbl", "tr"} /\ in' = {"tbl", "tr", "tc"} /\ row' = row /\ tables' = tables
          /\ ~Opens(token, "tr")
      BY <1>2, <1>7 DEF TokenStep, Opens, Closes
    <2> QED  BY <1>1, <1>3, <1>7, <2>1
  <1>8. CASE Closes(token, "tc")
    <2>1. in = {"tbl", "tr", "tc"} /\ in' = {"tbl", "tr"} /\ row' = Append(row, cell) /\ tables' = tables
          /\ ~Opens(token, "tr") /\ ~Opens(token, "tc")
      BY <1>2, <1>8 DEF TokenStep, Opens, Closes
    <2>2. cell = IF at > 2 /\ doc.tokens[at - 2].kind = "text"
                 THEN Whole(doc.tokens[at - 2].line) ELSE BlankPiece
      <3>1. CellRead /\ LinesRead(count) /\ at \in Nat
        BY DEF BeingRead, TypeInv, TypeOK
      <3>2. "tc" \in in /\ "p" \notin in
        BY <2>1
      <3>3. cell = IF IsText(at - 2) THEN Whole(doc.tokens[at - 2].line) ELSE BlankPiece
        BY <3>1, <3>2 DEF CellRead, Opens
      <3>4. at # 1 /\ at # 0
        <4>1. (in = count[at - 1].open) /\ count[0].open = {} /\ at # 0
          BY DEF BeingRead, Tagged, Counts, TypeInv
        <4>2. "tbl" \in count[at - 1].open /\ "tbl" \notin count[0].open
          BY <2>1, <4>1
        <4>3. at = 1 => at - 1 = 0
          OBVIOUS
        <4> QED  BY <4>1, <4>2, <4>3
      <3>5. at > 2 <=> at - 2 # 0
        BY <3>1, <3>4
      <3> QED  BY <3>3, <3>5 DEF IsText
    <2>3. new.cells = Len(row) + 1 /\ new.rows = old.rows
      BY <1>1, <1>3, <2>1
    <2>4. Agrees(row, new.rows) /\ new.rows = Len(tables) + 1
      BY <1>3, <2>1, <2>3
    <2>5. /\ Len(row') = Len(row) + 1 /\ row'[Len(row) + 1] = cell
          /\ \A c \in DOMAIN row' : c = Len(row) + 1 \/ (c \in DOMAIN row /\ row'[c] = row[c])
      BY <1>0, <2>1
    <2>6. Agrees(row', new.rows)
      BY <1>5, <1>8, <2>2, <2>3, <2>4, <2>5
    <2> QED  BY <1>3, <2>1, <2>3, <2>4, <2>5, <2>6
  <1>9. CASE Closes(token, "tr")
    <2>1. in = {"tbl", "tr"} /\ in' = {"tbl"} /\ (tables' = IF row # <<>> THEN Append(tables, row) ELSE tables)
          /\ ~Opens(token, "tr") /\ ~Opens(token, "tc")
      BY <1>2, <1>9 DEF TokenStep, Opens, Closes
    <2>2. new.cells = Len(row) /\ new.rows = old.rows /\ old.rows = Len(tables) + 1 /\ Agrees(row, new.rows)
      BY <1>1, <1>3, <2>1
    <2>3. new.rows \in DOMAIN doc.rows /\ Len(doc.rows[new.rows]) = Len(row) /\ Len(row) > 0
      BY <1>5, <1>9, <2>2
    <2>4. doc.rows[new.rows] \in Seq(Piece)
      BY <1>0, <2>3
    <2>5. doc.rows[new.rows] = row
      <3> DEFINE s == doc.rows[new.rows]
      <3>1. s \in Seq(Piece) /\ Len(s) = Len(row) /\ \A c \in DOMAIN row : s[c] = row[c]
        BY <2>2, <2>3, <2>4
      <3> HIDE DEF s
      <3> DEFINE r == row
      <3>3. r \in Seq(Piece) /\ Len(s) = Len(r) /\ \A c \in DOMAIN r : s[c] = r[c]
        BY <1>0, <3>1
      <3> HIDE DEF r
      <3>2. s = r
        BY <3>1, <3>3
      <3> QED  BY <3>2 DEF s, r
    <2>6. tables' = Append(tables, row)
      BY <1>0, <2>1, <2>3
    <2>7. Starts(tables', doc.rows)
      <3>1. Len(tables) + 1 \in DOMAIN doc.rows /\ doc.rows[Len(tables) + 1] = row
        BY <2>2, <2>3, <2>5
      <3> QED  BY <1>0, <1>3, <2>6, <3>1, StartsOn
    <2>8. Len(tables') = Len(tables) + 1
      BY <1>0, <2>6
    <2> QED  BY <2>1, <2>2, <2>7, <2>8
  <1>10. CASE ~Opens(token, "tr") /\ ~Opens(token, "tc") /\ ~Closes(token, "tc") /\ ~Closes(token, "tr")
    <2>1. row' = row /\ tables' = tables
          /\ ("tr" \in in' <=> "tr" \in in) /\ ("tc" \in in' <=> "tc" \in in)
      BY <1>2, <1>10 DEF TokenStep, EndParagraph
    <2> QED  BY <1>1, <1>3, <1>10, <2>1
  <1> QED  BY <1>6, <1>7, <1>8, <1>9, <1>10

\* The reader starts with nothing read.
LEMMA FileInit == Init => FileInv
  <1> SUFFICES ASSUME Init PROVE FileInv
    OBVIOUS
  <1>0. doc \in Document
    BY ParserAssumption DEF Init
  <1>1. doc.rows \in Seq(Seq(Piece)) /\ doc.lines \in Seq(Line) /\ doc.tokens \in Seq(Token)
    BY <1>0 DEF Document
  <1>2. ASSUME doc.docx, NEW count, Tagged(doc, count) PROVE pc = "xml" /\ BeingRead(count)
    <2>1. /\ at - 1 = 0 /\ at = 1 /\ in = {} /\ text = <<>> /\ tables = <<>> /\ paragraph = None
          /\ pc = "xml"
      BY <1>2 DEF Init
    <2>2. count[0].open = {} /\ count[0].rows = 0 /\ count[0].lines = 0
      BY <1>2 DEF Tagged, Counts
    <2>3. ~IsText(at - 1) /\ Len(text) = 0 /\ Len(tables) = 0
      BY <2>1 DEF IsText
    <2>4. Starts(text, doc.lines) /\ Starts(tables, doc.rows)
      BY <1>1, <2>1, StartsNone
    <2>5. at <= Len(doc.tokens) + 1
      BY <1>1, <2>1
    <2> QED  BY <2>1, <2>2, <2>3, <2>4, <2>5 DEF BeingRead, LinesRead, RowsRead, CellRead
  <1>3. ASSUME ~doc.docx PROVE pc # "xml" /\ tables = <<>> /\ text = doc.lines
    BY <1>3 DEF Init
  <1> QED  BY <1>2, <1>3 DEF FileInv

\* No step undoes what has been read.
LEMMA FileStep == TypeInv /\ FileInv /\ [Next]_vars => FileInv'
  <1> SUFFICES ASSUME TypeInv, FileInv, [Next]_vars PROVE FileInv'
    OBVIOUS
  <1>1. CASE ReadToken
    <2>1. pc = "xml" /\ pc' = "xml" /\ doc' = doc
      BY <1>1 DEF ReadToken
    <2>2. ASSUME NEW count, Tagged(doc, count), doc.docx PROVE BeingRead(count)'
      <3>1. BeingRead(count)
        BY <2>1, <2>2 DEF FileInv
      <3>2. at' <= Len(doc.tokens) + 1 /\ in' = count[at' - 1].open
        BY <1>1, <2>2, <3>1, TokenRead
      <3>3. LinesRead(count)' /\ RowsRead(count)' /\ CellRead'
        BY <1>1, <2>2, <3>1, LinesStep, RowsStep, CellStep
      <3> QED  BY <2>1, <3>2, <3>3 DEF BeingRead
    <2>3. doc.docx
      BY <2>1 DEF FileInv
    <2>4. \A count : Tagged(doc, count)' <=> Tagged(doc, count)
      BY <2>1 DEF Tagged, Counts, Nested, Holds, Opens, Closes, Whole, Opaque, BlankPiece
    <2> QED  BY <2>1, <2>2, <2>3, <2>4 DEF FileInv
  <1>2. CASE EndOfTokens
    <2>1. pc = "xml" /\ pc' = "source" /\ at > Len(doc.tokens)
          /\ doc' = doc /\ text' = text /\ tables' = tables
      BY <1>2 DEF EndOfTokens, xml
    <2>2. /\ doc.tokens \in Seq(Token) /\ at \in Nat /\ text \in Seq(Line) /\ tables \in Seq(Seq(Piece))
          /\ doc.lines \in Seq(Line) /\ doc.rows \in Seq(Seq(Piece))
      BY DEF TypeInv, TypeOK, Document
    <2>3. ASSUME NEW count, Tagged(doc, count), doc.docx PROVE HasBeenRead(count)
      <3>1. BeingRead(count)
        BY <2>1, <2>3 DEF FileInv
      <3>2. at - 1 = Len(doc.tokens)
        BY <2>1, <2>2, <3>1 DEF BeingRead
      <3>3. ReadAsWritten
        BY <3>1 DEF BeingRead, LinesRead, RowsRead, ReadAsWritten
      <3>4. ASSUME Complete(doc, count) PROVE tables = doc.rows /\ text = doc.lines
        <4>1. /\ in = {} /\ count[at - 1].rows = Len(doc.rows)
              /\ count[at - 1].lines = Len(doc.lines)
          BY <3>1, <3>2, <3>4 DEF Complete, BeingRead
        <4>2. Len(text) = Len(doc.lines) /\ Starts(text, doc.lines)
          BY <3>1, <4>1 DEF BeingRead, LinesRead
        <4>3. Len(tables) = Len(doc.rows) /\ Starts(tables, doc.rows)
          BY <3>1, <4>1 DEF BeingRead, RowsRead
        <4> QED  BY <2>2, <4>2, <4>3, StartsAll
      <3> QED  BY <3>3, <3>4 DEF HasBeenRead
    <2>4. \A count : Tagged(doc, count)' <=> Tagged(doc, count)
      BY <2>1 DEF Tagged, Counts, Nested, Holds, Opens, Closes, Whole, Opaque, BlankPiece
    <2>5. \A count : HasBeenRead(count) => HasBeenRead(count)'
      BY <2>1 DEF HasBeenRead, ReadAsWritten, Starts, Complete
    <2> QED  BY <2>1, <2>3, <2>4, <2>5 DEF FileInv
  <1>3. ASSUME doc' = doc, text' = text, tables' = tables, pc # "xml", pc' # "xml"
        PROVE  FileInv'
    <2>1. \A count : Tagged(doc, count)' <=> Tagged(doc, count)
      BY <1>3 DEF Tagged, Counts, Nested, Holds, Opens, Closes, Whole, Opaque, BlankPiece
    <2>2. \A count : HasBeenRead(count) => HasBeenRead(count)'
      BY <1>3 DEF HasBeenRead, ReadAsWritten, Starts, Complete
    <2> QED  BY <1>3, <2>1, <2>2 DEF FileInv
  <1>4. CASE OpenSource \/ ScanHeader \/ EndOfHeader \/ ReadRow \/ EndOfRows
    <2>1. doc' = doc /\ text' = text /\ tables' = tables /\ pc # "xml" /\ pc' # "xml"
      BY <1>4 DEF OpenSource, StartOver, GiveUp, ScanHeader, EndOfHeader, ReadRow, EndOfRows, xml
    <2> QED  BY <1>3, <2>1
  <1>5. CASE ReadLabel \/ EndOfLabels \/ ReadLine \/ EndOfLines
    <2>1. doc' = doc /\ text' = text /\ tables' = tables /\ pc # "xml" /\ pc' # "xml"
      BY <1>5 DEF StartOver, GiveUp, ReadLabel, EndOfLabels, ReadLine, EndOfLines, xml
    <2> QED  BY <1>3, <2>1
  <1>6. CASE Answered \/ UNCHANGED vars
    <2>1. UNCHANGED <<doc, pc, at, in, paragraph, cell, row, text, tables>>
      BY <1>6 DEF Answered, vars, xml
    <2>2. \A count : Tagged(doc, count)' <=> Tagged(doc, count)
      BY <2>1 DEF Tagged, Counts, Nested, Holds, Opens, Closes, Whole, Opaque, BlankPiece
    <2>3. \A count : HasBeenRead(count) => HasBeenRead(count)'
      BY <2>1 DEF HasBeenRead, ReadAsWritten, Starts, Complete
    <2>4. \A count : BeingRead(count) => BeingRead(count)'
      BY <2>1 DEF BeingRead, LinesRead, RowsRead, CellRead, IsText, Starts, Opens, Closes, Whole, Opaque, BlankPiece
    <2> QED  BY <2>1, <2>2, <2>3, <2>4 DEF FileInv
  <1> QED  BY <1>1, <1>2, <1>4, <1>5, <1>6 DEF Next

\* FileInv holds in every file.
LEMMA FileInvariant == Spec => [](TypeInv /\ FileInv)
  BY TypeInit, TypeStep, FileInit, FileStep, PTL DEF Spec

\* Which of the files is read.
LEMMA SameFile == Spec => [](doc \in Documents)
  <1>1. Init => doc \in Documents
    BY DEF Init
  <1>2. doc \in Documents /\ [Next]_vars => (doc \in Documents)'
    <2> SUFFICES ASSUME [Next]_vars PROVE doc' = doc
      OBVIOUS
    <2> QED  BY DEF Next, ReadToken, EndOfTokens, OpenSource, ScanHeader, EndOfHeader, ReadRow,
         EndOfRows, ReadLabel, EndOfLabels, ReadLine, EndOfLines, Answered, vars
  <1> QED  BY <1>1, <1>2, PTL DEF Spec

-----------------------------------------------------------------------------
(* What is kept, and what is meant.                                        *)

\* When nothing is chosen, nothing is kept.
LEMMA KeptNone ==
    ASSUME NEW seq, NEW chosen, Len(seq) \in Nat, \A n \in 1..Len(seq) : n \notin chosen,
           NEW m \in 0..Len(seq)
    PROVE  Kept(seq, chosen)[m] = <<>>
  <1>1. Kept(seq, chosen)[m] \in Seq({})
    <2>1. \A n \in 1..Len(seq) : n \in chosen => seq[n] \in {}
      OBVIOUS
    <2> QED  BY <2>1, KeptIn
  <1>2. \A s \in Seq({}) : s = <<>>
    <2> SUFFICES ASSUME NEW s \in Seq({}) PROVE s = <<>>
      OBVIOUS
    <2>1. Len(s) \in Nat /\ \A i \in 1..Len(s) : s[i] \in {}
      OBVIOUS
    <2>2. Len(s) = 0
      BY <2>1
    <2> QED  BY <2>2
  <1> QED  BY <1>1, <1>2

\* When everything is chosen, everything is kept.
LEMMA KeptAll ==
    ASSUME NEW E, NEW seq \in Seq(E), NEW chosen, \A n \in 1..Len(seq) : n \in chosen
    PROVE  Kept(seq, chosen)[Len(seq)] = seq
  <1> DEFINE kept == Kept(seq, chosen)
             N == Len(seq)
             Same(m) == Len(kept[m]) = m /\ \A i \in 1..m : kept[m][i] = seq[i]
  <1>1. /\ kept[0] = <<>> /\ N \in Nat
        /\ \A n \in 1..N : kept[n] = Append(kept[n - 1], seq[n])
    <2>1. N \in Nat
      OBVIOUS
    <2> QED  BY <2>1, KeptDef
  <1>2. \A m \in 0..N : kept[m] \in Seq(E)
    <2>1. \A n \in 1..Len(seq) : n \in chosen => seq[n] \in E
      OBVIOUS
    <2> HIDE DEF kept
    <2> QED  BY <1>1, <2>1, KeptIn DEF kept
  <1> HIDE DEF kept
  <1>3. ASSUME NEW m \in 0..N, ~Same(m) PROVE FALSE
    <2> DEFINE B == {k \in 0..N : ~Same(k)}
    <2>1. PICK b \in B : \A c \in B : b <= c
      <3> HIDE DEF Same
      <3>1. m \in B /\ B \in SUBSET Nat
        BY <1>1, <1>3
      <3> HIDE DEF B
      <3> QED  BY <3>1, Least
    <2>2. b # 0
      <3>1. Same(0)
        BY <1>1
      <3> QED  BY <2>1, <3>1
    <2>3. b \in 1..N /\ b - 1 \in 0..N /\ ~(b <= b - 1)
      BY <1>1, <2>1, <2>2
    <2>4. Same(b - 1)
      BY <2>1, <2>3
    <2> DEFINE s == kept[b - 1]
               a == b - 1
    <2>5. s \in Seq(E) /\ Len(s) = a /\ a \in Nat /\ kept[b] = Append(s, seq[b]) /\ b = a + 1
          /\ \A i \in 1..a : s[i] = seq[i]
      BY <1>1, <1>2, <2>3, <2>4
    <2> HIDE DEF s, a, Same
    <2>6. Len(kept[b]) = a + 1 /\ kept[b][a + 1] = seq[b] /\ \A i \in 1..a : kept[b][i] = s[i]
      BY <2>5
    <2>7. Same(b)
      <3>1. \A i \in 1..b : i \in 1..a \/ i = a + 1
        BY <2>5
      <3> QED  BY <2>5, <2>6, <3>1 DEF Same
    <2> QED  BY <2>1, <2>7
  <1>4. Same(N) /\ kept[N] \in Seq(E)
    BY <1>1, <1>2, <1>3
  <1>5. kept[N] = seq
    <2> DEFINE s == kept[N]
    <2>1. s \in Seq(E) /\ Len(s) = Len(seq) /\ \A i \in 1..Len(seq) : s[i] = seq[i]
      BY <1>4
    <2> HIDE DEF s
    <2>2. s = seq
      BY <2>1
    <2> QED  BY <2>2 DEF s
  <1> QED  BY <1>5 DEF kept

\* One record more.
LEMMA MeantStep ==
    ASSUME NEW records, Len(records) \in Nat, DOMAIN records = 1..Len(records)
    PROVE  /\ MeantBy(records, 0) = <<>>
           /\ \A i \in DOMAIN records :
                 MeantBy(records, i) = IF Identified(BuildLead(records[i]))
                                       THEN Append(MeantBy(records, i - 1), BuildLead(records[i]))
                                       ELSE MeantBy(records, i - 1)
  <1> DEFINE seq == [i \in DOMAIN records |-> BuildLead(records[i])]
             chosen == {i \in DOMAIN records : Identified(BuildLead(records[i]))}
  <1>1. Len(seq) = Len(records) /\ Len(seq) \in Nat
    OBVIOUS
  <1>2. \A n : MeantBy(records, n) = Kept(seq, chosen)[n]
    BY DEF MeantBy
  <1>3. \A i \in DOMAIN records :
           /\ seq[i] = BuildLead(records[i])
           /\ i \in chosen <=> Identified(BuildLead(records[i]))
    OBVIOUS
  <1> HIDE DEF seq, chosen
  <1>4. /\ Kept(seq, chosen)[0] = <<>>
        /\ \A n \in 1..Len(seq) :
                 Kept(seq, chosen)[n] = IF n \in chosen THEN Append(Kept(seq, chosen)[n - 1], seq[n])
                                        ELSE Kept(seq, chosen)[n - 1]
    BY <1>1, KeptDef
  <1> QED  BY <1>1, <1>2, <1>3, <1>4

\* What is found of the next record is what is meant by it.
LEMMA FoundMeant ==
    ASSUME leads \in Seq(LeadRow), NEW records, Len(records) \in Nat,
           DOMAIN records = 1..Len(records), NEW i \in DOMAIN records,
           LeadValues = MeantBy(records, i - 1), NEW from, leads' = Found(records[i], from)
    PROVE  LeadValues' = MeantBy(records, i)
  <1> DEFINE value == BuildLead(records[i])
             lead == [value |-> value, lines |-> from]
  <1>1. MeantBy(records, i) = IF Identified(value) THEN Append(LeadValues, value) ELSE LeadValues
    BY MeantStep
  <1>2. leads' = IF Identified(value) THEN Append(leads, lead) ELSE leads
    BY DEF Found
  <1>3. lead.value = value
    OBVIOUS
  <1> HIDE DEF value, lead
  <1>4. CASE ~Identified(value)
    BY <1>1, <1>2, <1>4 DEF LeadValues
  <1>5. CASE Identified(value)
    <2> DEFINE n == Len(leads)
               v == [j \in 1..n |-> leads[j].value]
    <2>1. n \in Nat /\ DOMAIN leads = 1..n /\ LeadValues = v
      BY DEF LeadValues
    <2>2. Len(leads') = n + 1 /\ DOMAIN leads' = 1..(n + 1) /\ leads'[n + 1] = lead
          /\ \A j \in 1..n : leads'[j] = leads[j]
      BY <1>2, <1>5
    <2> HIDE DEF n
    <2>3. Len(v) = n /\ Append(v, value) = [j \in 1..(n + 1) |-> IF j = n + 1 THEN value ELSE v[j]]
      BY <2>1
    <2>4. \A j \in 1..(n + 1) : leads'[j].value = IF j = n + 1 THEN value ELSE v[j]
      BY <1>3, <2>1, <2>2
    <2> HIDE DEF v
    <2>5. LeadValues' = [j \in 1..(n + 1) |-> leads'[j].value]
      BY <2>2 DEF LeadValues
    <2> QED  BY <1>1, <1>5, <2>1, <2>3, <2>4, <2>5
  <1> QED  BY <1>4, <1>5

-----------------------------------------------------------------------------
(* Records under labels.                                                   *)

\* What has been read of a record after c of its labels.
Part(labels, map, c) ==
    [f \in Field |-> IF \E b \in 1..c : labels[b] = f THEN map[f] ELSE None]

\* How many labels and records there are.
LEMMA RecordSizes ==
    ASSUME NEW labels, NEW records \in Seq(Maps), RecordsOf(labels, records)
    PROVE  /\ Len(labels) \in Nat /\ Len(labels) >= 2 /\ DOMAIN labels = 1..Len(labels)
           /\ \A c \in 1..Len(labels) : labels[c] \in Field /\ labels[c] # None
           /\ Len(records) \in Nat /\ Len(records) >= 1 /\ DOMAIN records = 1..Len(records)
           /\ \A i \in 1..Len(records) : records[i] \in Maps
  <1>1. labels \in Seq(Field) /\ Len(labels) >= 2 /\ Len(records) >= 1
    BY DEF RecordsOf
  <1>2. \A c \in 1..Len(labels) : labels[c] \in Field
    BY <1>1
  <1>3. None \notin Field
    BY ParserAssumption
  <1>4. \A i \in 1..Len(records) : records[i] \in Maps
    OBVIOUS
  <1>5. \A c \in 1..Len(labels) : labels[c] # None
    BY <1>2, <1>3
  <1> QED  BY <1>1, <1>2, <1>4, <1>5

\* The values of a record.
LEMMA RecordValues ==
    ASSUME NEW labels, NEW records \in Seq(Maps), RecordsOf(labels, records), NEW i \in DOMAIN records
    PROVE  /\ \A c \in 1..Len(labels) :
                 LET value == records[i][labels[c]] IN
                 value \in Piece /\ value # None /\ value.alias = None
           /\ \A f \in Field : records[i][f] # None <=> \E c \in 1..Len(labels) : labels[c] = f
           /\ \A f \in Field :
                 LET value == records[i][f] IN
                 value # None => /\ value = BlankPiece \/ value.id # <<>>
                                 /\ value.email # "no" => f = "email"
  <1>0. DOMAIN labels = 1..Len(labels) /\ \A c \in 1..Len(labels) : labels[c] \in Field
    BY RecordSizes
  <1>1. None \notin Piece
    BY ParserAssumption
  <1>2. \A f \in Field :
           /\ (\A c \in DOMAIN labels : labels[c] # f) => records[i][f] = None
           /\ (\E c \in DOMAIN labels : labels[c] = f) =>
                /\ records[i][f] \in Piece /\ records[i][f].alias = None
                /\ records[i][f] = BlankPiece \/ records[i][f].id # <<>>
                /\ records[i][f].email # "no" => f = "email"
    BY DEF RecordsOf
  <1> QED  BY <1>0, <1>1, <1>2

\* Reading a record label after label.
LEMMA PartStep ==
    ASSUME NEW labels, NEW records \in Seq(Maps), RecordsOf(labels, records), NEW i \in DOMAIN records
    PROVE  /\ Part(labels, records[i], 0) = NoFields
           /\ Part(labels, records[i], Len(labels)) = records[i]
           /\ \A c \in 0..(Len(labels) - 1) :
                 LET part == Part(labels, records[i], c)
                     f    == labels[c + 1]
                 IN  /\ part[f] = None
                     /\ [part EXCEPT ![f] = records[i][f]] = Part(labels, records[i], c + 1)
           /\ \A c \in 1..Len(labels) : Part(labels, records[i], c) # NoFields
           /\ records[i] # NoFields
  <1> DEFINE k == Len(labels)
             map == records[i]
  <1>0. /\ k \in Nat /\ k >= 2 /\ DOMAIN labels = 1..k /\ \A c \in 1..k : labels[c] \in Field
        /\ map \in Maps
    BY RecordSizes
  <1>1. /\ \A c \in 1..k : map[labels[c]] # None
        /\ \A f \in Field : map[f] # None <=> \E c \in 1..k : labels[c] = f
    BY RecordValues
  <1>2. \A b, c \in 1..k : labels[b] = labels[c] => b = c
    BY <1>0 DEF RecordsOf
  <1> HIDE DEF k, map
  <1>3. Part(labels, map, 0) = NoFields
    BY DEF Part, NoFields
  <1>4. Part(labels, map, k) = map
    BY <1>0, <1>1 DEF Part, Maps
  <1>5. ASSUME NEW c \in 0..(k - 1)
        PROVE  /\ Part(labels, map, c)[labels[c + 1]] = None
               /\ [Part(labels, map, c) EXCEPT ![labels[c + 1]] = map[labels[c + 1]]]
                    = Part(labels, map, c + 1)
    <2>1. c \in Nat /\ c + 1 \in 1..k /\ \A b \in 1..c : b \in 1..k /\ b # c + 1
      BY <1>0
    <2>2. \A b \in 1..(c + 1) : b \in 1..c \/ b = c + 1
      BY <2>1
    <2>3. \A b \in 1..c : b \in 1..(c + 1)
      BY <2>1
    <2>4. c + 1 \in 1..(c + 1)
      BY <2>1
    <2>5. \A b \in 1..c : labels[b] # labels[c + 1]
      BY <1>2, <2>1
    <2>6. labels[c + 1] \in Field
      BY <1>0, <2>1
    <2>7. \A f \in Field : (\E b \in 1..(c + 1) : labels[b] = f)
                              <=> (f = labels[c + 1] \/ \E b \in 1..c : labels[b] = f)
      BY <2>2, <2>3, <2>4
    <2> DEFINE g == labels[c + 1]
               part == Part(labels, map, c)
               next == Part(labels, map, c + 1)
    <2>8. part[g] = None
      BY <2>5, <2>6 DEF Part
    <2>9. \A f \in Field : next[f] = IF f = g THEN map[g] ELSE part[f]
      BY <2>7 DEF Part
    <2>10. DOMAIN part = Field /\ part = [f \in Field |-> part[f]] /\ next = [f \in Field |-> next[f]]
      BY DEF Part
    <2> HIDE DEF g, part, next
    <2>11. [part EXCEPT ![g] = map[g]] = next
      BY <2>9, <2>10
    <2> QED  BY <2>8, <2>11 DEF g, part, next
  <1>6. ASSUME NEW c \in 1..k PROVE Part(labels, map, c) # NoFields
    <2>1. 1 \in 1..c /\ labels[1] \in Field /\ map[labels[1]] # None
      BY <1>0, <1>1
    <2>2. Part(labels, map, c)[labels[1]] = map[labels[1]] /\ NoFields[labels[1]] = None
      BY <2>1 DEF Part, NoFields
    <2> QED  BY <2>1, <2>2
  <1>7. map # NoFields
    <2>1. k \in 1..k
      BY <1>0
    <2> QED  BY <1>4, <1>6, <2>1
  <1> QED  BY <1>3, <1>4, <1>5, <1>6, <1>7 DEF k, map

\* A record has enough fields to end where the next one begins.
LEMMA RecordCrowded ==
    ASSUME NEW labels, NEW records \in Seq(Maps), RecordsOf(labels, records), NEW i \in DOMAIN records,
           fields = records[i]
    PROVE  Crowded /\ Has(labels[1])
  <1> DEFINE k == Len(labels)
             S == {f \in Field : Has(f)}
  <1>0. /\ k \in Nat /\ k >= 2 /\ DOMAIN labels = 1..k /\ \A c \in 1..k : labels[c] \in Field
    BY RecordSizes
  <1>1. /\ \A c \in 1..k : Has(labels[c])
        /\ \A f \in Field : Has(f) <=> \E c \in 1..k : labels[c] = f
    BY RecordValues DEF Has
  <1>2. \A b, c \in 1..k : labels[b] = labels[c] => b = c
    BY <1>0 DEF RecordsOf
  <1>3. labels \in Bijection(1..k, S)
    <2>1. labels \in [1..k -> S]
      <3>1. labels \in Seq(Field)
        BY DEF RecordsOf
      <3>2. labels = [c \in 1..k |-> labels[c]]
        BY <3>1
      <3>3. \A c \in 1..k : labels[c] \in S
        BY <1>0, <1>1
      <3> HIDE DEF S, k
      <3> QED  BY <3>2, <3>3
    <2>2. \A f \in S : \E c \in 1..k : labels[c] = f
      BY <1>1
    <2> HIDE DEF S, k
    <2> QED  BY <1>2, <2>1, <2>2 DEF Bijection, Injection, Surjection, IsInjective
  <1>4. Cardinality(S) = k
    <2>1. ExistsBijection(1..k, S)
      BY <1>3 DEF ExistsBijection
    <2> HIDE DEF S, k
    <2> QED  BY <1>0, <2>1, FS_CountingElements
  <1>5. Has(labels[1])
    BY <1>0, <1>1
  <1> QED  BY <1>0, <1>4, <1>5 DEF Crowded

\* The address of a record is in its own field.
LEMMA RecordEmail ==
    ASSUME NEW labels, NEW records \in Seq(Maps), RecordsOf(labels, records), NEW i \in DOMAIN records
    PROVE  WithEmail(records[i]) = {records[i]}
  <1> DEFINE map == records[i]
             addresses == {f \in Field : map[f] # None /\ map[f].email # "no"}
  <1>1. \A f \in Field : map[f] # None =>
           (map[f] = BlankPiece \/ map[f].id # <<>>) /\ (map[f].email # "no" => f = "email")
    BY RecordValues
  <1>2. BlankPiece.email = "no"
    BY DEF BlankPiece
  <1>3. addresses = {} \/ (map["email"] # None /\ map["email"].id # <<>>)
    BY <1>1, <1>2
  <1> QED  BY <1>3 DEF WithEmail

-----------------------------------------------------------------------------
(* The way to the right attempt.                                           *)

Sources == {"docx", "|", "tab", ",", "blocks"}

\* The attempts up to one.
UpTo(src) ==
    CASE src = "docx"   -> {"docx"}
      [] src = "|"      -> {"docx", "|"}
      [] src = "tab"    -> {"docx", "|", "tab"}
      [] src = ","      -> {"docx", "|", "tab", ","}
      [] src = "blocks" -> {"docx", "|", "tab", ",", "blocks"}

\* The rows of a table, and the attempt that finds them.
TableOf(src, table) ==
    \/ src = "docx" /\ table = doc.rows
    \/ /\ src \in {"|", "tab", ","} /\ doc.rows = <<>>
       /\ \A n \in DOMAIN doc.lines : doc.lines[n].by = src
       /\ table = [n \in DOMAIN doc.lines |-> doc.lines[n].cells]

FileRead == pc # "xml" => tables = doc.rows /\ text = doc.lines

\* The attempt after one that is not the right one is on the way to it.
LEMMA NextUp ==
    ASSUME NEW src \in Sources
    PROVE  /\ "docx" \in UpTo(src) /\ src \in UpTo(src)
           /\ \A s \in UpTo(src) : s # src => s # "blocks" /\ NextSource[s] \in UpTo(src)
  BY Zenon DEF UpTo, NextSource, Sources

\* What a delimiter does not divide gives no rows.
LEMMA NoRows ==
    ASSUME NEW src, src # "docx", text \in Seq(Line), \A n \in DOMAIN text : text[n].by # src
    PROVE  RowsOf(src) = <<>>
  <1> DEFINE seq == [n \in DOMAIN text |-> text[n].cells]
             divided == {n \in DOMAIN text : text[n].by = src /\ Len(text[n].cells) >= 2}
  <1>1. Len(text) \in Nat /\ DOMAIN text = 1..Len(text)
    OBVIOUS
  <1>2. Len(seq) = Len(text) /\ Len(seq) \in Nat /\ Len(text) \in 0..Len(seq)
    BY <1>1
  <1>3. \A n \in 1..Len(seq) : n \notin divided
    BY <1>1, <1>2
  <1>4. RowsOf(src) = Kept(seq, divided)[Len(text)]
    BY DEF RowsOf
  <1> HIDE DEF seq, divided
  <1> QED  BY <1>2, <1>3, <1>4, KeptNone

\* What it divides gives all the rows.
LEMMA AllRows ==
    ASSUME NEW src, src # "docx", text \in Seq(Line),
           \A n \in DOMAIN text : text[n].by = src /\ Len(text[n].cells) >= 2
    PROVE  RowsOf(src) = [n \in DOMAIN text |-> text[n].cells]
  <1> DEFINE seq == [n \in DOMAIN text |-> text[n].cells]
             divided == {n \in DOMAIN text : text[n].by = src /\ Len(text[n].cells) >= 2}
  <1>1. Len(text) \in Nat /\ DOMAIN text = 1..Len(text) /\ \A n \in 1..Len(text) : text[n] \in Line
    OBVIOUS
  <1>2. Len(seq) = Len(text)
    BY <1>1
  <1>3. \A n \in 1..Len(seq) : n \in divided
    BY <1>1, <1>2
  <1>4. RowsOf(src) = Kept(seq, divided)[Len(text)]
    BY DEF RowsOf
  <1>5. seq \in Seq(Seq(Piece))
    <2>1. \A n \in 1..Len(text) : text[n].cells \in Seq(Piece)
      BY <1>1 DEF Line
    <2> QED  BY <1>1, <2>1
  <1> HIDE DEF seq, divided
  <1>6. Kept(seq, divided)[Len(seq)] = seq
    BY <1>3, <1>5, KeptAll
  <1> QED  BY <1>2, <1>4, <1>6 DEF seq

\* No attempt before the right one finds any rows.
LEMMA Opened ==
    ASSUME NEW src \in Sources, source \in UpTo(src), source # src,
           OpenSource, \A s \in UpTo(src) : s # src => RowsOf(s) = <<>>,
           text # <<>>
    PROVE  pc' = "source" /\ source' \in UpTo(src)
  <1>1. source # "blocks" /\ NextSource[source] \in UpTo(src)
    BY NextUp
  <1>2. rows' = <<>>
    BY <1>1 DEF OpenSource
  <1>3. ~(Len(rows') >= 2)
    BY <1>2
  <1>4. GiveUp
    BY <1>1, <1>3 DEF OpenSource
  <1> QED  BY <1>1, <1>4 DEF GiveUp, StartOver

\* The table is found.
LEMMA TableOpened ==
    ASSUME text \in Seq(Line), text = doc.lines, tables = doc.rows,
           NEW src, NEW table, TableOf(src, table), Len(table) >= 2,
           \A n \in DOMAIN table : Len(table[n]) >= 2,
           OpenSource, source \in UpTo(src)
    PROVE  \/ pc' = "source" /\ source' \in UpTo(src)
           \/ source = src /\ rows' = table /\ StartOver("header", src) /\ leads' = leads
  <1>1. src \in Sources /\ src # "blocks"
    BY DEF TableOf, Sources
  <1>2. CASE source = src
    <2>1. RowsOf(src) = table
      <3>1. CASE src = "docx"
        BY <3>1 DEF TableOf, RowsOf
      <3>2. CASE src # "docx"
        <4>1. \A n \in DOMAIN text : table[n] = text[n].cells
          BY <3>2 DEF TableOf
        <4>2. DOMAIN table = DOMAIN text /\ table = [n \in DOMAIN text |-> text[n].cells]
              /\ \A n \in DOMAIN text : text[n].by = src
          BY <3>2 DEF TableOf
        <4>3. \A n \in DOMAIN text : Len(text[n].cells) >= 2
          BY <4>1, <4>2
        <4> QED  BY <3>2, <4>2, <4>3, AllRows
      <3> QED  BY <3>1, <3>2
    <2> QED  BY <1>1, <1>2, <2>1 DEF OpenSource
  <1>3. CASE source # src
    <2>1. src # "docx"
      BY <1>3 DEF UpTo
    <2>2. \A n \in DOMAIN text : text[n].by = src
      BY <2>1 DEF TableOf
    <2>3. doc.rows = <<>>
      BY <2>1 DEF TableOf
    <2>4. text # <<>>
      <3>1. CASE text = <<>>
        <4>1. DOMAIN text = {} /\ table = [n \in DOMAIN text |-> text[n].cells]
          BY <2>1, <3>1, EmptyList DEF TableOf
        <4>2. table = <<>>
          BY <4>1
        <4>3. Len(table) = 0
          BY <4>2
        <4> QED  BY <4>3
      <3> QED  BY <3>1
    <2>5. ASSUME NEW s \in UpTo(src), s # src PROVE RowsOf(s) = <<>>
      <3>1. CASE s = "docx"
        BY <2>3, <3>1 DEF RowsOf
      <3>2. CASE s # "docx"
        BY <2>2, <2>5, <3>2, NoRows
      <3> QED  BY <3>1, <3>2
    <2> QED  BY <1>1, <1>3, <2>4, <2>5, Opened
  <1> QED  BY <1>2, <1>3

-----------------------------------------------------------------------------
(* A table with a header.                                                  *)

\* A table is a sequence of rows.
LEMMA TableRows ==
    ASSUME doc \in Document, NEW src, NEW table, TableOf(src, table)
    PROVE  /\ Len(table) \in Nat /\ DOMAIN table = 1..Len(table)
           /\ \A n \in 1..Len(table) : table[n] \in Seq(Piece)
  <1>1. doc.rows \in Seq(Seq(Piece)) /\ doc.lines \in Seq(Line)
    BY DEF Document
  <1>2. CASE table = doc.rows
    BY <1>1, <1>2
  <1>3. CASE table = [n \in DOMAIN doc.lines |-> doc.lines[n].cells]
    <2>1. Len(doc.lines) \in Nat /\ DOMAIN doc.lines = 1..Len(doc.lines)
          /\ \A n \in 1..Len(doc.lines) : doc.lines[n] \in Line
      BY <1>1
    <2>2. Len(table) = Len(doc.lines) /\ DOMAIN table = 1..Len(doc.lines)
      BY <1>3, <2>1
    <2>3. \A n \in 1..Len(doc.lines) : table[n] \in Seq(Piece)
      BY <1>3, <2>1 DEF Line
    <2> QED  BY <2>1, <2>2, <2>3
  <1>4. table = doc.rows \/ table = [n \in DOMAIN doc.lines |-> doc.lines[n].cells]
    BY Zenon DEF TableOf
  <1> QED  BY <1>2, <1>3, <1>4

\* A record of blanks names nobody.
LEMMA BlankLead ==
    ASSUME NEW map, \A f \in Field : map[f] = None \/ map[f].id = <<>>
    PROVE  ~Identified(BuildLead(map))
  <1> DEFINE id(f)    == IF map[f] = None THEN <<>> ELSE map[f].id
             or(f, g) == IF id(f) # <<>> THEN id(f) ELSE id(g)
  <1>1. "contact" \in Field /\ "kamName" \in Field /\ Identity \subseteq Field
    BY ParserAssumption DEF Identity
  <1>2. \A f \in Field : id(f) = <<>>
    OBVIOUS
  <1>3. BuildLead(map) = [f \in Field |-> CASE f = "contact" -> or("contact", "kamName")
                                            [] f = "kamName" -> or("kamName", "contact")
                                            [] OTHER         -> id(f)]
    BY DEF BuildLead
  <1> HIDE DEF id
  <1>4. \A f \in Field : (CASE f = "contact" -> or("contact", "kamName")
                            [] f = "kamName" -> or("kamName", "contact")
                            [] OTHER         -> id(f)) = <<>>
    BY <1>1, <1>2
  <1>5. \A f \in Field : BuildLead(map)[f] = <<>>
    BY <1>3, <1>4
  <1> QED  BY <1>1, <1>5 DEF Identified

\* The rows of a table with a header.
LEMMA HeaderRows ==
    ASSUME doc \in Document, NEW src, NEW table, TableOf(src, table), NEW labels,
           NEW records \in Seq(Maps), RecordsOf(labels, records), HeaderTable(table, labels, records)
    PROVE  /\ Len(table) = Len(records) + 1 /\ DOMAIN table = 1..(Len(records) + 1)
           /\ \A m \in DOMAIN table : Len(table[m]) = Len(labels) /\ DOMAIN table[m] = 1..Len(labels)
           /\ Matches(table[1]) = Len(labels)
           /\ \A i \in 1..Len(records) : Matches(table[i + 1]) = 0
  <1> DEFINE k == Len(labels)
             n == Len(records)
  <1>0. /\ k \in Nat /\ k >= 2 /\ DOMAIN labels = 1..k
        /\ n \in Nat /\ n >= 1 /\ DOMAIN records = 1..n
        /\ \A c \in 1..k : labels[c] # None
    BY RecordSizes
  <1>1. Len(table) = n + 1 /\ DOMAIN table = 1..(n + 1)
        /\ \A m \in 1..(n + 1) : table[m] \in Seq(Piece)
    BY <1>0, TableRows DEF HeaderTable
  <1>2. /\ DOMAIN table[1] = 1..k
        /\ \A c \in 1..k : table[1][c].alias = labels[c]
        /\ \A i \in 1..n : DOMAIN table[i + 1] = 1..k
                           /\ \A c \in 1..k : table[i + 1][c] = records[i][labels[c]]
    BY <1>0 DEF HeaderTable
  <1>3. ASSUME NEW m \in 1..(n + 1) PROVE Len(table[m]) = k /\ DOMAIN table[m] = 1..k
    <2>1. DOMAIN table[m] = 1..k
      <3>1. CASE m = 1
        BY <1>2, <3>1
      <3>2. CASE m # 1
        <4>1. m - 1 \in 1..n /\ m = (m - 1) + 1
          BY <1>0, <3>2
        <4> QED  BY <1>2, <4>1
      <3> QED  BY <3>1, <3>2
    <2> DEFINE s == table[m]
    <2>2. s \in Seq(Piece) /\ DOMAIN s = 1..k
      BY <1>1, <2>1
    <2> HIDE DEF s, k
    <2>3. Len(s) = k
      <3>1. Len(s) \in Nat /\ DOMAIN s = 1..Len(s)
        BY <2>2
      <3>2. 1 \in 1..k /\ k \in 1..k
        BY <1>0
      <3>3. Len(s) >= k
        BY <1>0, <2>2, <3>1, <3>2
      <3>4. Len(s) \in 1..Len(s)
        BY <1>0, <3>1, <3>3
      <3>5. Len(s) <= k
        BY <1>0, <2>2, <3>1, <3>4
      <3> DEFINE l == Len(s)
      <3>6. l \in Nat /\ k \in Nat /\ l >= k /\ l <= k
        BY <1>0, <3>1, <3>3, <3>5
      <3> HIDE DEF l
      <3>7. l = k
        BY <3>6
      <3> QED  BY <3>7 DEF l
    <2> QED  BY <2>1, <2>3 DEF s
  <1>4. Matches(table[1]) = k
    <2>1. {c \in DOMAIN table[1] : table[1][c].alias # None} = 1..k
      BY <1>0, <1>2
    <2> HIDE DEF k
    <2>2. Cardinality(1..k) = k
      BY <1>0, FS_Interval
    <2> QED  BY <2>1, <2>2 DEF Matches
  <1>5. ASSUME NEW i \in 1..n PROVE Matches(table[i + 1]) = 0
    <2>1. \A c \in 1..k : records[i][labels[c]].alias = None
      BY <1>0, RecordValues
    <2>2. {c \in DOMAIN table[i + 1] : table[i + 1][c].alias # None} = {}
      <3>1. ASSUME NEW c \in 1..k PROVE table[i + 1][c].alias = None
        <4>1. table[i + 1][c] = records[i][labels[c]]
          BY <1>2
        <4> QED  BY <2>1, <4>1, Zenon
      <3>2. DOMAIN table[i + 1] = 1..k
        BY <1>2
      <3> QED  BY <3>1, <3>2, Zenon
    <2> QED  BY <2>2, FS_EmptySet DEF Matches
  <1> QED  BY <1>1, <1>3, <1>4, <1>5

\* A row under the header is its record.
LEMMA HeaderRecord ==
    ASSUME doc \in Document, NEW src, NEW table, TableOf(src, table), NEW labels,
           NEW records \in Seq(Maps), RecordsOf(labels, records), HeaderTable(table, labels, records),
           rows = table, header = 1, NEW i \in 1..Len(records)
    PROVE  /\ ByHeader(table[i + 1]) = records[i]
           /\ (\A c \in DOMAIN table[i + 1] : table[i + 1][c].id = <<>>)
                 => ~Identified(BuildLead(records[i]))
  <1> DEFINE k == Len(labels)
             map == records[i]
             r == table[i + 1]
  <1>0. /\ k \in Nat /\ k >= 2 /\ DOMAIN labels = 1..k /\ i \in DOMAIN records
        /\ map \in Maps
    BY RecordSizes
  <1>1. /\ DOMAIN rows[1] = 1..k /\ DOMAIN r = 1..k
        /\ \A c \in 1..k : rows[1][c].alias = labels[c] /\ r[c] = map[labels[c]]
    BY <1>0 DEF HeaderTable
  <1>2. \A f \in Field : map[f] # None <=> \E c \in 1..k : labels[c] = f
    BY <1>0, RecordValues
  <1>3. \A b, c \in 1..k : labels[b] = labels[c] => b = c
    BY <1>0 DEF RecordsOf
  <1> DEFINE columns(f) == {c \in DOMAIN r \cap DOMAIN rows[header] : rows[header][c].alias = f}
             v(f) == IF columns(f) = {} THEN None
                     ELSE r[CHOOSE c \in columns(f) : \A d \in columns(f) : d <= c]
  <1>4. ByHeader(r) = [f \in Field |-> v(f)]
    BY DEF ByHeader
  <1> HIDE DEF r, map, k
  <1>5. ASSUME NEW f \in Field PROVE v(f) = map[f]
    <2>1. columns(f) = {c \in 1..k : labels[c] = f}
      BY <1>1
    <2> HIDE DEF columns
    <2>2. CASE \E c \in 1..k : labels[c] = f
      <3>1. PICK b \in 1..k : labels[b] = f
        BY <2>2
      <3>2. columns(f) = {b}
        BY <1>3, <2>1, <3>1
      <3>3. b <= b
        OBVIOUS
      <3>4. (CHOOSE c \in columns(f) : \A d \in columns(f) : d <= c) = b
        BY <3>2, <3>3
      <3> QED  BY <1>1, <3>1, <3>2, <3>4
    <2>3. CASE ~\E c \in 1..k : labels[c] = f
      BY <1>2, <2>1, <2>3
    <2> QED  BY <2>2, <2>3
  <1>6. ByHeader(r) = map
    <2>1. map = [f \in Field |-> map[f]]
      BY <1>0 DEF Maps
    <2> HIDE DEF v
    <2> QED  BY <1>4, <1>5, <2>1
  <1>7. ASSUME \A c \in DOMAIN r : r[c].id = <<>> PROVE ~Identified(BuildLead(map))
    <2>1. \A f \in Field : map[f] = None \/ map[f].id = <<>>
      BY <1>1, <1>2, <1>7
    <2> QED  BY <2>1, BlankLead
  <1> QED  BY <1>6, <1>7 DEF r, map

\* How far a search for a table with a header has come.
HeaderSearch(src, table) ==
    \/ pc \in {"xml", "source"} /\ source \in UpTo(src)
    \/ /\ pc = "header" /\ rows = table /\ leads = <<>>
       /\ at <= Len(table) + 1 /\ header = IF at = 1 THEN 0 ELSE 1
    \/ /\ pc = "rows" /\ rows = table /\ header = 1
       /\ at >= 2 /\ at <= Len(table) + 1 /\ LeadValues = MeantBy(doc.records, at - 2)
    \/ pc = "done" /\ LeadValues = Meant(doc.records)

\* Where there are no leads, there are no values of leads.
LEMMA NoLeads == leads = <<>> => LeadValues = <<>>
  BY DEF LeadValues

\* No step leaves the way from a table with a header to what is meant by it.
LEMMA HeaderStep ==
    ASSUME TypeInv, FileRead, [Next]_vars, NEW labels, NEW src, NEW table, doc.records \in Seq(Maps),
           RecordsOf(labels, doc.records), TableOf(src, table), HeaderTable(table, labels, doc.records),
           Meant(doc.records) # <<>>, HeaderSearch(src, table)
    PROVE  HeaderSearch(src, table)'
  <1> DEFINE n == Len(doc.records)
             k == Len(labels)
  <1>0. /\ TypeOK /\ at \in Nat /\ at # 0 /\ doc \in Document /\ header \in Nat
        /\ text \in Seq(Line) /\ leads \in Seq(LeadRow)
    BY DEF TypeInv, TypeOK, LeadRow
  <1>1. /\ k \in Nat /\ k >= 2 /\ n \in Nat /\ n >= 1 /\ DOMAIN doc.records = 1..n
    BY RecordSizes
  <1>2. /\ Len(table) = n + 1 /\ DOMAIN table = 1..(n + 1)
        /\ \A m \in 1..(n + 1) : Len(table[m]) = k
        /\ Matches(table[1]) = k
        /\ \A i \in 1..n : Matches(table[i + 1]) = 0
    BY <1>0, HeaderRows
  <1>3. src \in Sources
    BY Zenon DEF TableOf, Sources
  <1>4. MeantBy(doc.records, 0) = <<>> /\ Meant(doc.records) = MeantBy(doc.records, n)
    BY <1>1, MeantStep DEF Meant
  <1> HIDE DEF n, k
  <1>d. doc' = doc
    BY DEF Next, ReadToken, EndOfTokens, OpenSource, ScanHeader, EndOfHeader, ReadRow,
           EndOfRows, ReadLabel, EndOfLabels, ReadLine, EndOfLines, Answered, vars
  <1>e. /\ Meant(doc.records)' = Meant(doc.records)
        /\ \A m : MeantBy(doc.records, m)' = MeantBy(doc.records, m)
    BY <1>d
  <1>5. CASE ReadToken \/ EndOfTokens
    <2>1. pc \in {"xml"} /\ pc' \in {"xml", "source"} /\ source' = source
      BY <1>5 DEF ReadToken, EndOfTokens
    <2> QED  BY <2>1 DEF HeaderSearch, UpTo
  <1>6. CASE OpenSource
    <2>0. pc = "source"
      BY <1>6 DEF OpenSource
    <2>1. source \in UpTo(src) /\ tables = doc.rows /\ text = doc.lines
      BY <2>0 DEF HeaderSearch, FileRead
    <2>2. Len(table) >= 2 /\ \A m \in DOMAIN table : Len(table[m]) >= 2
      BY <1>1, <1>2
    <2>3. \/ pc' = "source" /\ source' \in UpTo(src)
          \/ source = src /\ rows' = table /\ StartOver("header", src) /\ leads' = leads
      BY <1>0, <1>6, <2>1, <2>2, TableOpened
    <2>4. CASE pc' = "source" /\ source' \in UpTo(src)
      BY <2>4 DEF HeaderSearch, UpTo
    <2>5. CASE rows' = table /\ StartOver("header", src) /\ leads' = leads
      <3>1. leads = <<>>
        BY <2>0 DEF TypeInv, ParserInv, Fresh
      <3>2. pc' = "header" /\ at' = 1 /\ header' = 0 /\ 1 <= Len(table) + 1
        BY <1>1, <1>2, <2>5 DEF StartOver
      <3> QED  BY <2>5, <3>1, <3>2 DEF HeaderSearch
    <2> QED  BY <2>3, <2>4, <2>5
  <1>7. CASE ScanHeader
    <2>1. /\ pc = "header" /\ pc' = pc /\ rows = table /\ rows' = rows /\ leads = <<>> /\ leads' = leads
          /\ header = IF at = 1 THEN 0 ELSE 1
          /\ at <= n + 1 /\ at' = at + 1
      BY <1>2, <1>7 DEF ScanHeader, HeaderSearch, record
    <2>2. header' = IF Matches(rows[at]) >= 2
                       /\ Matches(rows[at]) > (IF header = 0 THEN 0 ELSE Len(rows[header]))
                    THEN at ELSE header
      BY <1>7 DEF ScanHeader
    <2>3. header' = 1
      <3>1. CASE at = 1
        <4>1. header = 0 /\ Matches(rows[at]) = k
          BY <1>2, <2>1, <3>1
        <4> QED  BY <1>1, <2>2, <3>1, <4>1
      <3>2. CASE at # 1
        <4>1. at - 1 \in 1..n /\ at = (at - 1) + 1
          BY <1>0, <1>1, <2>1, <3>2
        <4>2. header = 1 /\ Matches(rows[at]) = 0
          BY <1>2, <2>1, <3>2, <4>1
        <4> QED  BY <2>2, <4>2
      <3> QED  BY <3>1, <3>2
    <2>4. at' # 1 /\ at' <= Len(table) + 1
      BY <1>0, <1>1, <1>2, <2>1
    <2> QED  BY <2>1, <2>3, <2>4 DEF HeaderSearch
  <1>8. CASE EndOfHeader
    <2>1. pc = "header" /\ rows = table /\ leads = <<>> /\ header = IF at = 1 THEN 0 ELSE 1
      BY <1>8 DEF EndOfHeader, HeaderSearch
    <2>2. at > n + 1
      BY <1>2, <1>8, <2>1 DEF EndOfHeader
    <2>3. header = 1
      BY <1>0, <1>1, <2>1, <2>2
    <2>4. /\ pc' = "rows" /\ rows' = table /\ header' = 1 /\ at' = 2 /\ leads' = <<>>
      BY <1>8, <2>1, <2>3 DEF EndOfHeader, record
    <2>5. LeadValues' = <<>>
      BY <2>4 DEF LeadValues
    <2>6. at' >= 2 /\ at' <= Len(table) + 1 /\ at' - 2 = 0
      BY <1>1, <1>2, <2>4
    <2> QED  BY <1>4, <1>e, <2>4, <2>5, <2>6 DEF HeaderSearch
  <1>9. CASE ReadRow
    <2>1. /\ pc = "rows" /\ pc' = pc /\ rows = table /\ rows' = rows /\ header = 1 /\ header' = header
          /\ at >= 2 /\ at <= n + 1 /\ at' = at + 1
          /\ LeadValues = MeantBy(doc.records, at - 2)
      BY <1>2, <1>9 DEF ReadRow, HeaderSearch
    <2> DEFINE i == at - 1
    <2>2. i \in 1..n /\ i + 1 = at /\ at - 2 = i - 1 /\ at' - 2 = i /\ i \in DOMAIN doc.records
      BY <1>0, <1>1, <2>1
    <2>3. leads' = IF \E c \in DOMAIN table[i + 1] : table[i + 1][c].id # <<>>
                   THEN Found(ByHeader(table[i + 1]), {at})
                   ELSE leads
      BY <1>9, <2>1, <2>2 DEF ReadRow
    <2> HIDE DEF i
    <2>4. /\ ByHeader(table[i + 1]) = doc.records[i]
          /\ (\A c \in DOMAIN table[i + 1] : table[i + 1][c].id = <<>>)
                 => ~Identified(BuildLead(doc.records[i]))
      BY <1>0, <2>1, <2>2, HeaderRecord DEF n
    <2>5. LeadValues' = MeantBy(doc.records, i)
      <3>1. CASE \E c \in DOMAIN table[i + 1] : table[i + 1][c].id # <<>>
        <4>1. leads' = Found(doc.records[i], {at})
          BY <2>3, <2>4, <3>1
        <4>2. Len(doc.records) \in Nat /\ DOMAIN doc.records = 1..Len(doc.records)
          BY <1>1 DEF n
        <4>3. LeadValues = MeantBy(doc.records, i - 1)
          BY <2>1, <2>2
        <4> QED  BY <1>0, <2>2, <4>1, <4>2, <4>3, FoundMeant
      <3>2. CASE \A c \in DOMAIN table[i + 1] : table[i + 1][c].id = <<>>
        <4>1. leads' = leads /\ ~Identified(BuildLead(doc.records[i]))
          BY <2>3, <2>4, <3>2
        <4>2. MeantBy(doc.records, i) = MeantBy(doc.records, i - 1)
          BY <1>1, <2>2, <4>1, MeantStep DEF n
        <4> QED  BY <2>1, <2>2, <4>1, <4>2 DEF LeadValues
      <3> QED  BY <3>1, <3>2
    <2>6. at' >= 2 /\ at' <= Len(table) + 1
      BY <1>0, <1>1, <1>2, <2>1
    <2> QED  BY <1>e, <2>1, <2>2, <2>5, <2>6 DEF HeaderSearch
  <1>10. CASE EndOfRows
    <2>1. /\ pc = "rows" /\ rows = table /\ at > n + 1 /\ at <= Len(table) + 1
          /\ LeadValues = MeantBy(doc.records, at - 2) /\ leads' = leads
      BY <1>2, <1>10 DEF EndOfRows, HeaderSearch, record
    <2>2. at - 2 = n
      BY <1>0, <1>1, <1>2, <2>1
    <2>3. LeadValues = Meant(doc.records)
      BY <1>4, <2>1, <2>2
    <2>4. leads # <<>>
      BY <2>3, NoLeads
    <2>5. pc' = "done"
      BY <1>10, <2>4 DEF EndOfRows
    <2> QED  BY <1>e, <2>1, <2>3, <2>5 DEF HeaderSearch, LeadValues
  <1>11. CASE ReadLabel \/ EndOfLabels \/ ReadLine \/ EndOfLines
    <2>1. pc \in {"vertical", "blocks"}
      BY <1>11 DEF ReadLabel, EndOfLabels, ReadLine, EndOfLines
    <2> QED  BY <2>1 DEF HeaderSearch
  <1>12. CASE Answered \/ UNCHANGED vars
    <2>1. UNCHANGED <<pc, at, source, rows, header, leads>>
      BY <1>12 DEF Answered, vars
    <2> QED  BY <1>e, <2>1 DEF HeaderSearch, LeadValues, UpTo
  <1> QED  BY <1>5, <1>6, <1>7, <1>8, <1>9, <1>10, <1>11, <1>12 DEF Next

-----------------------------------------------------------------------------
(* A table of labels and values.                                           *)

\* Where the rows of the labels are.
LEMMA LabelPlaces ==
    ASSUME NEW k \in Nat, k >= 2, NEW n \in Nat, NEW i \in 1..n, NEW c \in 0..k
    PROVE  /\ (i - 1) * k + c \in Nat /\ n * k \in Nat /\ n * k >= 2
           /\ c < k => (i - 1) * k + (c + 1) <= n * k
           /\ c = k => (i - 1) * k + c + 1 = i * k + 1
           /\ (i - 1) * k + c + 1 <= n * k /\ c = k => i + 1 \in 1..n
           /\ (i - 1) * k + c + 1 > n * k => i = n /\ c = k
  <1> DEFINE p == (i - 1) * k
             s == (n - i) * k
  <1>1. i - 1 \in Nat /\ n - i \in Nat /\ i \in Nat /\ i <= n
    OBVIOUS
  <1>2. p \in Nat /\ s \in Nat
    <2>1. \A a, b \in Nat : a * b \in Nat
      OBVIOUS
    <2> QED  BY <1>1, <2>1
  <1>3. i * k = p + k /\ n * k = p + k + s
    <2>1. n = (i - 1) + 1 + (n - i) /\ i = (i - 1) + 1
      BY <1>1
    <2>2. \A a, b \in Nat : (a + 1) * k = a * k + k /\ (a + 1 + b) * k = a * k + k + b * k
      OBVIOUS
    <2> QED  BY <1>1, <2>1, <2>2
  <1>4. i # n => s >= k
    <2> SUFFICES ASSUME i # n PROVE s >= k
      OBVIOUS
    <2>1. n - i - 1 \in Nat /\ n - i = (n - i - 1) + 1
      BY <1>1
    <2>2. \A a \in Nat : (a + 1) * k = a * k + k /\ a * k \in Nat
      OBVIOUS
    <2>3. (n - i) * k = (n - i - 1) * k + k /\ (n - i - 1) * k \in Nat
      BY <2>1, <2>2
    <2> QED  BY <2>3
  <1>5. i = n => s = 0
    <2>1. 0 * k = 0 /\ (i = n => n - i = 0)
      BY <1>1
    <2> QED  BY <2>1
  <1> HIDE DEF p, s
  <1>6. /\ p + c \in Nat /\ c \in Nat /\ c <= k
        /\ c < k => p + (c + 1) <= p + k + s
        /\ c = k => p + c + 1 = p + k + 1
        /\ p + c + 1 <= p + k + s /\ c = k => i # n
        /\ p + c + 1 > p + k + s => i = n /\ c = k
    BY <1>2, <1>4, <1>5
  <1>7. i # n => i + 1 \in 1..n
    BY <1>1
  <1>8. p + k + s \in Nat /\ p + k + s >= 2
    BY <1>2
  <1> QED  BY <1>3, <1>6, <1>7, <1>8 DEF p

\* Where a table of labels and values has been read up to the c-th label of the i-th record.
AtLabel(labels, i, c) ==
    /\ at = RowOf(labels, i, c) + 1
    /\ recognized = RowOf(labels, i, c)
    /\ fields = Part(labels, doc.records[i], c)
    /\ LeadValues = MeantBy(doc.records, i - 1)

\* How far a search for one has come.
LabelSearch(labels, src, table) ==
    \/ pc \in {"xml", "source"} /\ source \in UpTo(src)
    \/ /\ pc = "header" /\ rows = table /\ leads = <<>> /\ header = 0
       /\ fields = NoFields /\ recognized = 0
    \/ /\ pc = "vertical" /\ rows = table
       /\ \E i \in 1..Len(doc.records), c \in 0..Len(labels) : AtLabel(labels, i, c)
    \/ pc = "done" /\ LeadValues = Meant(doc.records)

\* One label in a row is no header.
LEMMA NoHeader ==
    ASSUME NEW r, Len(r) \in Nat, DOMAIN r = 1..Len(r), \A c \in DOMAIN r : r[c].alias # None => c = 1
    PROVE  ~(Matches(r) >= 2)
  <1> DEFINE S == {c \in DOMAIN r : r[c].alias # None}
  <1>1. S \in SUBSET {1}
    OBVIOUS
  <1> HIDE DEF S
  <1>2. IsFiniteSet({1}) /\ Cardinality({1}) = 1
    BY FS_Singleton
  <1>3. IsFiniteSet(S) /\ Cardinality(S) <= 1
    BY <1>1, <1>2, FS_Subset
  <1>4. Cardinality(S) \in Nat
    BY <1>3, FS_CardinalityType
  <1> QED  BY <1>3, <1>4 DEF Matches, S

\* A record that is complete, as a lead.
LEMMA LastMeant ==
    ASSUME NEW records \in Seq(Maps), Len(records) >= 1, Meant(records) # <<>>,
           LeadValues = MeantBy(records, Len(records) - 1)
    PROVE  leads # <<>> \/ Identified(BuildLead(records[Len(records)]))
  <1> DEFINE n == Len(records)
  <1>1. n \in Nat /\ n >= 1 /\ DOMAIN records = 1..n /\ n \in DOMAIN records
    OBVIOUS
  <1>2. Meant(records) = IF Identified(BuildLead(records[n]))
                         THEN Append(MeantBy(records, n - 1), BuildLead(records[n]))
                         ELSE MeantBy(records, n - 1)
    BY <1>1, MeantStep DEF Meant
  <1> QED  BY <1>2, NoLeads

\* Nor that from a table of labels and values.
LEMMA LabelStep ==
    ASSUME TypeInv, FileRead, [Next]_vars, NEW labels, NEW src, NEW table, doc.records \in Seq(Maps),
           RecordsOf(labels, doc.records), TableOf(src, table), LabelTable(table, labels, doc.records),
           Meant(doc.records) # <<>>, LabelSearch(labels, src, table)
    PROVE  LabelSearch(labels, src, table)'
  <1> DEFINE n == Len(doc.records)
             k == Len(labels)
  <1>0. /\ TypeOK /\ at \in Nat /\ at # 0 /\ doc \in Document /\ header \in Nat
        /\ text \in Seq(Line) /\ leads \in Seq(LeadRow)
    BY DEF TypeInv, TypeOK, LeadRow
  <1>1. /\ k \in Nat /\ k >= 2 /\ n \in Nat /\ n >= 1 /\ DOMAIN doc.records = 1..n /\ DOMAIN labels = 1..k
        /\ \A c \in 1..k : labels[c] \in Field /\ labels[c] # None
        /\ 1 \in 1..n /\ n \in 1..n /\ 0 \in 0..k /\ 1 \in 1..k /\ 1 \in 0..k /\ k \in 0..k
    BY RecordSizes
  <1>2. /\ Len(table) \in Nat /\ Len(table) = n * k /\ DOMAIN table = 1..(n * k)
        /\ \A m \in 1..(n * k) : table[m] \in Seq(Piece)
        /\ \A m \in 1..(n * k) : Len(table[m]) >= 2
        /\ \A m \in 1..(n * k) : \A c \in DOMAIN table[m] : table[m][c].alias # None => c = 1
        /\ \A i \in 1..n, c \in 1..k :
              /\ table[RowOf(labels, i, c)][1].alias = labels[c]
              /\ RowValue(table[RowOf(labels, i, c)]) = doc.records[i][labels[c]]
    <2>1. Len(table) \in Nat /\ DOMAIN table = 1..Len(table) /\ \A m \in 1..Len(table) : table[m] \in Seq(Piece)
      BY <1>0, TableRows
    <2>2. Len(table) = n * k
      BY DEF LabelTable
    <2> HIDE DEF n, k
    <2> QED  BY <1>1, <2>1, <2>2 DEF LabelTable
  <1>3. src \in Sources
    BY Zenon DEF TableOf, Sources
  <1>4. MeantBy(doc.records, 0) = <<>> /\ Meant(doc.records) = MeantBy(doc.records, n)
    BY <1>1, MeantStep DEF Meant
  <1>5. labels[1] \in Identity
    BY DEF LabelTable
  <1>6. \A i, c : RowOf(labels, i, c) = (i - 1) * k + c
    BY DEF RowOf
  <1> HIDE DEF n, k
  <1>d. doc' = doc
    BY DEF Next, ReadToken, EndOfTokens, OpenSource, ScanHeader, EndOfHeader, ReadRow,
           EndOfRows, ReadLabel, EndOfLabels, ReadLine, EndOfLines, Answered, vars
  <1>e. /\ Meant(doc.records)' = Meant(doc.records)
        /\ \A m : MeantBy(doc.records, m)' = MeantBy(doc.records, m)
    BY <1>d
  <1>p. \A i, c : Part(labels, doc.records[i], c)' = Part(labels, doc.records[i], c)
    BY <1>d
  <1>7. CASE ReadToken \/ EndOfTokens
    <2>1. pc \in {"xml"} /\ pc' \in {"xml", "source"} /\ source' = source
      BY <1>7 DEF ReadToken, EndOfTokens
    <2> QED  BY <2>1 DEF LabelSearch, UpTo
  <1>8. CASE OpenSource
    <2>0. pc = "source"
      BY <1>8 DEF OpenSource
    <2>1. source \in UpTo(src) /\ tables = doc.rows /\ text = doc.lines
      BY <2>0 DEF LabelSearch, FileRead
    <2>2. Len(table) >= 2 /\ \A m \in DOMAIN table : Len(table[m]) >= 2
      <3>1. n * k >= 2
        BY <1>1, LabelPlaces
      <3> QED  BY <1>2, <3>1
    <2>3. \/ pc' = "source" /\ source' \in UpTo(src)
          \/ source = src /\ rows' = table /\ StartOver("header", src) /\ leads' = leads
      BY <1>0, <1>8, <2>1, <2>2, TableOpened
    <2>4. CASE pc' = "source" /\ source' \in UpTo(src)
      BY <2>4 DEF LabelSearch, UpTo
    <2>5. CASE rows' = table /\ StartOver("header", src) /\ leads' = leads
      <3>1. leads = <<>>
        BY <2>0 DEF TypeInv, ParserInv, Fresh
      <3> QED  BY <2>5, <3>1 DEF LabelSearch, StartOver, NoFields
    <2> QED  BY <2>3, <2>4, <2>5
  <1>9. CASE ScanHeader
    <2>1. /\ pc = "header" /\ rows = table /\ leads = <<>> /\ header = 0
          /\ fields = NoFields /\ recognized = 0 /\ at <= n * k
      BY <1>2, <1>9 DEF ScanHeader, LabelSearch
    <2>2. ~(Matches(rows[at]) >= 2)
      <3>1. at \in 1..(n * k)
        BY <1>0, <1>2, <2>1
      <3> DEFINE r == table[at]
      <3>2. r \in Seq(Piece) /\ \A c \in DOMAIN r : r[c].alias # None => c = 1
        BY <1>2, <3>1
      <3> HIDE DEF r
      <3>3. Len(r) \in Nat /\ DOMAIN r = 1..Len(r)
        BY <3>2
      <3>4. ~(Matches(r) >= 2)
        BY <3>2, <3>3, NoHeader
      <3> QED  BY <2>1, <3>4 DEF r
    <2>3. header' = header /\ UNCHANGED <<pc, rows, leads, fields, recognized>>
      BY <1>9, <2>2 DEF ScanHeader, record
    <2> QED  BY <2>1, <2>3 DEF LabelSearch, NoFields
  <1>10. CASE EndOfHeader
    <2>1. /\ pc = "header" /\ rows = table /\ leads = <<>> /\ header = 0
          /\ fields = NoFields /\ recognized = 0
      BY <1>10 DEF EndOfHeader, LabelSearch
    <2>2. pc' = "vertical" /\ at' = 1 /\ UNCHANGED <<rows, leads, fields, recognized>>
      BY <1>10, <2>1 DEF EndOfHeader, record
    <2>3. RowOf(labels, 1, 0) = 0 /\ 1 - 1 = 0
      BY <1>1, <1>6
    <2>4. LeadValues' = <<>>
      BY <2>1, <2>2 DEF LeadValues
    <2>5. Part(labels, doc.records[1], 0) = fields
      BY <1>1, <2>1, PartStep
    <2>6. AtLabel(labels, 1, 0)'
      BY <1>4, <1>d, <2>1, <2>2, <2>3, <2>4, <2>5 DEF AtLabel, RowOf, Part
    <2>7. rows' = table
      BY <2>1, <2>2
    <2> QED  BY <1>1, <1>d, <2>2, <2>6, <2>7 DEF LabelSearch, n, k
  <1>11. CASE ReadRow \/ EndOfRows \/ ReadLine \/ EndOfLines
    <2>1. pc \in {"rows", "blocks"}
      BY <1>11 DEF ReadRow, EndOfRows, ReadLine, EndOfLines
    <2> QED  BY <2>1 DEF LabelSearch
  <1>12. CASE ReadLabel
    <2>1. pc = "vertical" /\ pc' = pc /\ rows = table /\ rows' = rows /\ at' = at + 1 /\ at <= n * k
      BY <1>2, <1>12 DEF ReadLabel, LabelSearch
    <2>2. PICK i \in 1..n, c \in 0..k : AtLabel(labels, i, c)
      BY <2>1 DEF LabelSearch, n, k
    <2>3. /\ at = (i - 1) * k + c + 1 /\ recognized = (i - 1) * k + c
          /\ fields = Part(labels, doc.records[i], c)
          /\ LeadValues = MeantBy(doc.records, i - 1)
      BY <1>6, <2>2 DEF AtLabel
    <2>4. at \in 1..(n * k)
      BY <1>0, <1>2, <2>1
    <2> DEFINE r == table[at]
    <2>5. ASSUME NEW f, f # None, r[1].alias = f
          PROVE  /\ recognized' = recognized + 1
                 /\ IF f \in Identity /\ Has(f) /\ Crowded
                    THEN FlushAndPut({fields}, f, RowValue(r), {at})
                    ELSE Put(f, RowValue(r), {at})
      <3>1. ~(Len(r) < 2)
        <4>1. r \in Seq(Piece) /\ Len(r) >= 2
          BY <1>2, <2>4
        <4> HIDE DEF r
        <4>2. ~(Len(r) < 2)
          BY <4>1
        <4> QED  BY <4>2
      <3> QED  BY <1>12, <2>1, <2>5, <3>1 DEF ReadLabel
    <2> HIDE DEF r
    <2>6. CASE c < k
      <3>1. c + 1 \in 1..k /\ c + 1 \in 0..k /\ c \in 0..(k - 1) /\ c \in Nat
        BY <1>1, <2>6
      <3>2. at = RowOf(labels, i, c + 1)
        <4>1. (i - 1) * k + c \in Nat /\ i - 1 \in Nat /\ i \in Nat
          BY <1>1, LabelPlaces
        <4> DEFINE q == (i - 1) * k
        <4>2. q \in Nat
          <5>1. \A a, b \in Nat : a * b \in Nat
            OBVIOUS
          <5> QED  BY <1>1, <4>1, <5>1
        <4>3. at = q + c + 1 /\ RowOf(labels, i, c + 1) = q + (c + 1)
          BY <1>6, <2>3
        <4> HIDE DEF q
        <4> QED  BY <3>1, <4>2, <4>3
      <3> DEFINE f == labels[c + 1]
      <3>3. f # None /\ r[1].alias = f /\ RowValue(r) = doc.records[i][f]
        BY <1>1, <1>2, <3>1, <3>2 DEF r
      <3>4. fields[f] = None /\ [fields EXCEPT ![f] = doc.records[i][f]] = Part(labels, doc.records[i], c + 1)
        <4>1. i \in DOMAIN doc.records
          BY <1>1
        <4>2. /\ Part(labels, doc.records[i], c)[labels[c + 1]] = None
              /\ [Part(labels, doc.records[i], c) EXCEPT ![labels[c + 1]] = doc.records[i][labels[c + 1]]]
                    = Part(labels, doc.records[i], c + 1)
          BY <3>1, <4>1, PartStep DEF k
        <4> QED  BY <2>3, <4>2, Zenon
      <3> HIDE DEF f
      <3>5. recognized' = recognized + 1 /\ Put(f, RowValue(r), {at})
        BY <2>5, <3>3, <3>4 DEF Has
      <3>6. fields' = Part(labels, doc.records[i], c + 1) /\ leads' = leads
        BY <3>3, <3>4, <3>5 DEF Put
      <3>7. at' = RowOf(labels, i, c + 1) + 1 /\ recognized' = RowOf(labels, i, c + 1)
        BY <1>0, <2>1, <2>3, <3>2, <3>5
      <3>8. AtLabel(labels, i, c + 1)'
        BY <1>d, <1>p, <1>e, <2>3, <3>6, <3>7 DEF AtLabel, RowOf, LeadValues
      <3> QED  BY <1>d, <2>1, <3>1, <3>8 DEF LabelSearch, n, k
    <2>7. CASE c = k
      <3>1. i + 1 \in 1..n /\ at = i * k + 1 /\ i \in DOMAIN doc.records /\ i + 1 \in DOMAIN doc.records
            /\ (i + 1) - 1 = i
        <4>1. i + 1 \in 1..n /\ at = i * k + 1
          BY <1>1, <2>1, <2>3, <2>7, LabelPlaces
        <4> QED  BY <1>1, <4>1
      <3>2. at = RowOf(labels, i + 1, 1)
        BY <1>6, <3>1
      <3> DEFINE f == labels[1]
      <3>3. f # None /\ r[1].alias = f /\ RowValue(r) = doc.records[i + 1][f] /\ f \in Identity
        <4>1. /\ table[RowOf(labels, i + 1, 1)][1].alias = labels[1]
              /\ RowValue(table[RowOf(labels, i + 1, 1)]) = doc.records[i + 1][labels[1]]
          BY <1>1, <1>2, <3>1
        <4> QED  BY <1>1, <1>5, <3>2, <4>1, Zenon DEF r
      <3>4. fields = doc.records[i]
        BY <2>3, <2>7, <3>1, PartStep DEF k
      <3>5. Has(f) /\ Crowded
        BY <3>1, <3>4, RecordCrowded
      <3>6. [NoFields EXCEPT ![f] = doc.records[i + 1][f]] = Part(labels, doc.records[i + 1], 1)
        <4>1. 0 \in 0..(k - 1) /\ 0 + 1 = 1
          BY <1>1
        <4>2. /\ Part(labels, doc.records[i + 1], 0) = NoFields
              /\ [Part(labels, doc.records[i + 1], 0) EXCEPT ![labels[0 + 1]] = doc.records[i + 1][labels[0 + 1]]]
                    = Part(labels, doc.records[i + 1], 0 + 1)
          BY <3>1, <4>1, PartStep DEF k
        <4> QED  BY <4>1, <4>2
      <3> HIDE DEF f
      <3>7. recognized' = recognized + 1 /\ FlushAndPut({fields}, f, RowValue(r), {at})
        BY <2>5, <3>3, <3>5
      <3>8. leads' = Found(doc.records[i], lines) /\ fields' = Part(labels, doc.records[i + 1], 1)
        BY <3>3, <3>4, <3>6, <3>7 DEF FlushAndPut
      <3>9. LeadValues' = MeantBy(doc.records, i)
        <4>1. Len(doc.records) \in Nat /\ DOMAIN doc.records = 1..Len(doc.records)
          BY <1>1 DEF n
        <4> QED  BY <1>0, <2>3, <3>1, <3>8, <4>1, FoundMeant
      <3>10. at' = RowOf(labels, i + 1, 1) + 1 /\ recognized' = RowOf(labels, i + 1, 1)
        <4>1. recognized' = at
          BY <2>3, <3>7
        <4> QED  BY <2>1, <3>2, <4>1
      <3>11. AtLabel(labels, i + 1, 1)'
        BY <1>d, <1>p, <1>e, <3>1, <3>8, <3>9, <3>10 DEF AtLabel, RowOf
      <3> QED  BY <1>1, <1>d, <2>1, <3>1, <3>11 DEF LabelSearch, n, k
    <2>8. c < k \/ c = k
      BY <1>1
    <2> QED  BY <2>6, <2>7, <2>8
  <1>13. CASE EndOfLabels
    <2>1. pc = "vertical" /\ rows = table /\ at > n * k
      BY <1>2, <1>13 DEF EndOfLabels, LabelSearch
    <2>2. PICK i \in 1..n, c \in 0..k : AtLabel(labels, i, c)
      BY <2>1 DEF LabelSearch, n, k
    <2>3. /\ at = (i - 1) * k + c + 1 /\ recognized = (i - 1) * k + c
          /\ fields = Part(labels, doc.records[i], c)
          /\ LeadValues = MeantBy(doc.records, i - 1)
      BY <1>6, <2>2 DEF AtLabel
    <2>4. i = n /\ c = k
      BY <1>1, <2>1, <2>3, LabelPlaces
    <2>5. fields = doc.records[n] /\ fields # NoFields /\ LeadValues = MeantBy(doc.records, n - 1)
      BY <1>1, <2>3, <2>4, PartStep DEF k
    <2>6. recognized >= 2
      <3>1. n * k >= 2 /\ n * k \in Nat
        BY <1>1, LabelPlaces
      <3>2. recognized \in Nat /\ at = recognized + 1
        BY <2>3 DEF TypeInv, TypeOK
      <3> DEFINE q == n * k
      <3>3. q \in Nat /\ q >= 2 /\ at > q
        BY <2>1, <3>1
      <3> HIDE DEF q
      <3> QED  BY <3>2, <3>3
    <2>7. leads # <<>> \/ Identified(BuildLead(fields))
      BY <1>1, <2>5, LastMeant DEF n
    <2>8. Flush({fields}) /\ pc' = "done"
      BY <1>13, <2>6, <2>7 DEF EndOfLabels
    <2>9. leads' = Found(doc.records[n], lines)
      BY <2>5, <2>8 DEF Flush
    <2>10. LeadValues' = MeantBy(doc.records, n)
      <3>1. Len(doc.records) \in Nat /\ DOMAIN doc.records = 1..Len(doc.records) /\ n \in DOMAIN doc.records
        BY <1>1 DEF n
      <3> QED  BY <1>0, <2>5, <2>9, <3>1, FoundMeant
    <2> QED  BY <1>4, <1>e, <2>8, <2>10 DEF LabelSearch
  <1>14. CASE Answered \/ UNCHANGED vars
    <2>1. UNCHANGED <<pc, at, source, rows, header, leads, fields, recognized>>
      BY <1>14 DEF Answered, vars, record
    <2>2. \A i, c : AtLabel(labels, i, c) => AtLabel(labels, i, c)'
      BY <1>d, <2>1 DEF AtLabel, LeadValues, RowOf, Part
    <2>3. LeadValues' = LeadValues /\ UpTo(src)' = UpTo(src) /\ NoFields' = NoFields
      BY <2>1 DEF LeadValues
    <2> QED  BY <1>d, <1>e, <2>1, <2>2, <2>3 DEF LabelSearch
  <1> QED  BY <1>7, <1>8, <1>9, <1>10, <1>11, <1>12, <1>13, <1>14 DEF Next

-----------------------------------------------------------------------------
(* Blocks of labels and values.                                            *)

\* Where blocks are read.
LEMMA BlockPlaces ==
    ASSUME doc \in Document, NEW labels, NEW place, NEW records \in Seq(Maps),
           RecordsOf(labels, records), Blocks(doc, labels, records, place),
           NEW i \in 0..Len(records), NEW c \in 1..Len(labels), i = 0 => c = Len(labels)
    PROVE  LET next == Following(doc, labels, records, place, i, c) IN
           /\ next \in Nat /\ next >= 1 /\ next <= Len(doc.lines) + 1
           /\ next <= Len(doc.lines) =>
                 \/ c < Len(labels) /\ i \in 1..Len(records) /\ next = place[i][c + 1]
                 \/ c = Len(labels) /\ i + 1 \in 1..Len(records) /\ next = place[i + 1][1]
           /\ next > Len(doc.lines) => i = Len(records) /\ c = Len(labels)
  <1> DEFINE k == Len(labels)
             n == Len(records)
             l == Len(doc.lines)
  <1>1. /\ k \in Nat /\ k >= 2 /\ n \in Nat /\ n >= 1 /\ DOMAIN records = 1..n /\ DOMAIN labels = 1..k
    BY RecordSizes
  <1>2. doc.lines \in Seq(Line)
    BY DEF Document
  <1>3. l \in Nat /\ DOMAIN doc.lines = 1..l
    BY <1>2
  <1>4. \A j \in 1..n, b \in 1..k : place[j][b] \in 1..l
    BY <1>1, <1>3 DEF Blocks
  <1>0. i \in 0..n /\ c \in 1..k /\ (i = 0 => c = k)
    OBVIOUS
  <1> HIDE DEF k, n, l
  <1>5. CASE c < k
    <2>1. i \in 1..n /\ c + 1 \in 1..k
      BY <1>0, <1>1, <1>5
    <2>2. Following(doc, labels, records, place, i, c) = place[i][c + 1]
      BY <1>5 DEF Following, k
    <2>3. place[i][c + 1] \in 1..l
      BY <1>4, <2>1
    <2> QED  BY <1>3, <1>5, <2>1, <2>2, <2>3 DEF k, n, l
  <1>6. CASE c = k /\ i < n
    <2>1. i + 1 \in 1..n /\ 1 \in 1..k
      BY <1>1, <1>6 DEF n
    <2>2. Following(doc, labels, records, place, i, c) = place[i + 1][1]
      BY <1>1, <1>6 DEF Following, k, n
    <2>3. place[i + 1][1] \in 1..l
      BY <1>4, <2>1
    <2> QED  BY <1>3, <1>6, <2>1, <2>2, <2>3 DEF k, n, l
  <1>7. CASE c = k /\ i = n
    <2>1. Following(doc, labels, records, place, i, c) = l + 1
      BY <1>1, <1>7 DEF Following, k, n, l
    <2>2. l + 1 \in Nat /\ l + 1 >= 1 /\ ~(l + 1 <= l)
      BY <1>3
    <2> QED  BY <1>3, <1>7, <2>1, <2>2 DEF k, n, l
  <1>8. c < k \/ (c = k /\ i < n) \/ (c = k /\ i = n)
    BY <1>0, <1>1
  <1> QED  BY <1>5, <1>6, <1>7, <1>8

\* A line of a label has one.
LEMMA BlockLabel ==
    ASSUME NEW labels, NEW place, NEW records \in Seq(Maps), RecordsOf(labels, records),
           Blocks(doc, labels, records, place), NEW i \in 1..Len(records), NEW c \in 1..Len(labels)
    PROVE  LET line == doc.lines[place[i][c]] IN
           (PairField(line) # None \/ LabelField(line) # None) /\ ~IsBoundary(line)
  <1> DEFINE line == doc.lines[place[i][c]]
  <1>1. DOMAIN labels = 1..Len(labels) /\ DOMAIN records = 1..Len(records) /\ labels[c] # None
    BY RecordSizes
  <1>2. Block(doc, labels, records, place, i, c)
    BY <1>1 DEF Blocks
  <1>3. PairField(line) = labels[c] \/ LabelField(line) = labels[c]
    BY <1>2, Zenon DEF Block
  <1> HIDE DEF line
  <1>4. PairField(line) # None \/ LabelField(line) # None
    BY <1>1, <1>3
  <1>5. ~IsBoundary(line)
    BY <1>4 DEF PairField, IsPair, LabelField, IsBoundary
  <1> QED  BY <1>4, <1>5 DEF line

\* Where a label is read, its value is.
LEMMA BlockRead ==
    ASSUME doc \in Document, text = doc.lines, NEW labels, NEW place, NEW records \in Seq(Maps),
           RecordsOf(labels, records), Blocks(doc, labels, records, place),
           NEW i \in 1..Len(records), NEW c \in 1..Len(labels), at = place[i][c], ReadLine
    PROVE  /\ \E from : PutLine(labels[c], records[i][labels[c]], from)
           /\ GoesOn(doc, labels, records, place, i, c, at')
  <1> DEFINE f == labels[c]
             value == records[i][f]
             line == text[at]
             On(m) == GoesOn(doc, labels, records, place, i, c, m)
             next == Following(doc, labels, records, place, i, c)
  <1>1. DOMAIN labels = 1..Len(labels) /\ DOMAIN records = 1..Len(records) /\ f # None
        /\ i \in 0..Len(records) /\ i # 0
    BY RecordSizes
  <1>2. value.alias = None
    BY <1>1, RecordValues
  <1>3. at \in Nat /\ at \in 1..Len(text) /\ Len(text) \in Nat
    <2>1. doc.lines \in Seq(Line)
      BY DEF Document
    <2>2. place[i][c] \in DOMAIN doc.lines
      BY <1>1 DEF Blocks
    <2> QED  BY <2>1, <2>2
  <1>4. Block(doc, labels, records, place, i, c)
    BY <1>1 DEF Blocks
  <1>5. ~IsBoundary(line)
    BY BlockLabel
  <1>6. \/ PairField(line) = f /\ PairValue(line) = value /\ On(at + 1)
        \/ /\ ~IsPair(line) /\ LabelField(line) = f /\ at < Len(text)
           /\ text[at + 1].by = "none" /\ Whole(text[at + 1]) = value /\ On(at + 2)
        \/ /\ ~IsPair(line) /\ LabelField(line) = f /\ value = BlankPiece /\ On(at + 1)
    BY <1>4, Zenon DEF Block
  <1>7. IF PairField(line) # None
        THEN PutLine(PairField(line), PairValue(line), {at}) /\ at' = at + 1
        ELSE LabelField(line) # None =>
             IF TakesNext
             THEN PutLine(LabelField(line), Whole(text[at + 1]), {at, at + 1}) /\ at' = at + 2
             ELSE PutLine(LabelField(line), BlankPiece, {at}) /\ at' = at + 1
    BY <1>5, Zenon DEF ReadLine
  <1>8. /\ next \in Nat
        /\ next <= Len(text) =>
                 \/ c < Len(labels) /\ i \in 1..Len(records) /\ next = place[i][c + 1]
                 \/ c = Len(labels) /\ i + 1 \in 1..Len(records) /\ next = place[i + 1][1]
    <2> HIDE DEF f, value, line, On
    <2>0. i \in 0..Len(records) /\ (i = 0 => c = Len(labels))
      BY <1>1
    <2>1. next \in Nat
      BY <2>0, BlockPlaces, Zenon
    <2>2. next <= Len(doc.lines) =>
                 \/ c < Len(labels) /\ i \in 1..Len(records) /\ next = place[i][c + 1]
                 \/ c = Len(labels) /\ i + 1 \in 1..Len(records) /\ next = place[i + 1][1]
      BY <2>0, BlockPlaces, SMTT(30)
    <2> QED  BY <2>1, <2>2, Zenon
  <1> HIDE DEF f, value, line, On, next
  <1>9. CASE PairField(line) = f /\ PairValue(line) = value /\ On(at + 1)
    <2>1. PutLine(f, value, {at}) /\ at' = at + 1
      BY <1>1, <1>7, <1>9
    <2> QED  BY <1>9, <2>1 DEF f, value, On
  <1>10. CASE /\ ~IsPair(line) /\ LabelField(line) = f /\ at < Len(text)
              /\ text[at + 1].by = "none" /\ Whole(text[at + 1]) = value /\ On(at + 2)
    <2>1. PairField(line) = None
      BY <1>10 DEF PairField
    <2>2. TakesNext
      BY <1>2, <1>10 DEF TakesNext, IsBoundary, LabelField, PairField, IsPair
    <2>3. PutLine(f, value, {at, at + 1}) /\ at' = at + 2
      BY <1>1, <1>7, <1>10, <2>1, <2>2
    <2> QED  BY <1>10, <2>3 DEF f, value, On
  <1>11. CASE ~IsPair(line) /\ LabelField(line) = f /\ value = BlankPiece /\ On(at + 1)
    <2>1. PairField(line) = None
      BY <1>11 DEF PairField
    <2>2. ~TakesNext
      <3> SUFFICES ASSUME TakesNext PROVE FALSE
        OBVIOUS
      <3>1. at + 1 <= Len(text) /\ at + 1 \in Nat
        BY <1>3 DEF TakesNext
      <3>2. /\ ~IsBoundary(text[at + 1])
            /\ LabelField(text[at + 1]) = None /\ PairField(text[at + 1]) = None
        BY DEF TakesNext
      <3>3. at + 1 <= next /\ \A m \in (at + 1)..(next - 1) : IsBoundary(text[m])
        BY <1>11 DEF On, next, GoesOn
      <3>4. at + 1 = next
        <4>1. CASE at + 1 < next
          <5>1. at + 1 \in (at + 1)..(next - 1)
            BY <1>8, <3>1, <4>1
          <5> QED  BY <3>2, <3>3, <5>1
        <4> QED  BY <1>8, <3>1, <3>3, <4>1
      <3>5. CASE c < Len(labels) /\ next = place[i][c + 1]
        <4>1. c + 1 \in 1..Len(labels)
          <5>1. Len(labels) \in Nat
            BY RecordSizes
          <5> QED  BY <3>5, <5>1
        <4>2. PairField(text[next]) # None \/ LabelField(text[next]) # None
          BY <3>5, <4>1, BlockLabel
        <4> QED  BY <3>2, <3>4, <4>2
      <3>6. CASE i + 1 \in 1..Len(records) /\ next = place[i + 1][1]
        <4>1. 1 \in 1..Len(labels)
          <5>1. Len(labels) \in Nat /\ Len(labels) >= 2
            BY RecordSizes
          <5> QED  BY <5>1
        <4>2. PairField(text[next]) # None \/ LabelField(text[next]) # None
          BY <3>6, <4>1, BlockLabel
        <4> QED  BY <3>2, <3>4, <4>2
      <3> QED  BY <1>8, <3>1, <3>4, <3>5, <3>6
    <2>3. PutLine(f, value, {at}) /\ at' = at + 1
      BY <1>1, <1>7, <1>11, <2>1, <2>2
    <2> QED  BY <1>11, <2>3 DEF f, value, On
  <1> QED  BY <1>6, <1>9, <1>10, <1>11

\* Where blocks have been read up to the c-th label of the i-th record, or up to the end of
\* the i-th record and a boundary.
AtBlock(labels, place, i, c) ==
    /\ GoesOn(doc, labels, doc.records, place, i, c, at)
    /\ \/ i # 0 /\ fields = Part(labels, doc.records[i], c) /\ LeadValues = MeantBy(doc.records, i - 1)
       \/ c = Len(labels) /\ fields = NoFields /\ LeadValues = MeantBy(doc.records, i)

\* How far a search for blocks has come.
BlockSearch(labels, place) ==
    \/ pc \in {"xml", "source"} /\ source \in UpTo("blocks")
    \/ /\ pc = "blocks"
       /\ \E i \in 0..Len(doc.records), c \in 1..Len(labels) :
             (i = 0 => c = Len(labels)) /\ AtBlock(labels, place, i, c)
    \/ pc = "done" /\ LeadValues = Meant(doc.records)

\* A record in hand that is flushed becomes a lead.
LEMMA BlockFlushed ==
    ASSUME leads \in Seq(LeadRow), NEW labels, NEW records \in Seq(Maps), RecordsOf(labels, records),
           NEW i \in 0..Len(records), Flush(WithEmail(fields)),
           \/ i # 0 /\ fields = records[i] /\ LeadValues = MeantBy(records, i - 1)
           \/ fields = NoFields /\ LeadValues = MeantBy(records, i)
    PROVE  fields' = NoFields /\ LeadValues' = MeantBy(records, i)
  <1>1. fields' = NoFields
    BY DEF Flush
  <1>2. CASE fields = NoFields /\ LeadValues = MeantBy(records, i)
    BY <1>1, <1>2 DEF Flush, LeadValues
  <1>3. CASE i # 0 /\ fields = records[i] /\ LeadValues = MeantBy(records, i - 1)
    <2>1. i \in DOMAIN records /\ Len(records) \in Nat /\ DOMAIN records = 1..Len(records)
      BY <1>3, RecordSizes
    <2>2. fields # NoFields /\ WithEmail(fields) = {fields}
      BY <1>3, <2>1, PartStep, RecordEmail
    <2>3. leads' = Found(records[i], lines)
      BY <1>3, <2>2 DEF Flush
    <2>4. LeadValues' = MeantBy(records, i)
      BY <1>3, <2>1, <2>3, FoundMeant
    <2> QED  BY <1>1, <2>4
  <1> QED  BY <1>2, <1>3

\* The label that is read next belongs to the record in hand or begins the next one.
LEMMA BlockPut ==
    ASSUME TypeInv, NEW labels, NEW place, doc.records \in Seq(Maps), RecordsOf(labels, doc.records),
           Blocks(doc, labels, doc.records, place), text = doc.lines, pc = "blocks", ReadLine,
           NEW i \in 0..Len(doc.records), NEW c \in 1..Len(labels), i = 0 => c = Len(labels),
           AtBlock(labels, place, i, c), at = Following(doc, labels, doc.records, place, i, c)
    PROVE  \E j \in 1..Len(doc.records), b \in 1..Len(labels) :
              /\ GoesOn(doc, labels, doc.records, place, j, b, at')
              /\ fields' = Part(labels, doc.records[j], b) /\ LeadValues' = MeantBy(doc.records, j - 1)
  <1> DEFINE n == Len(doc.records)
             k == Len(labels)
             Take(f, piece) == [NoFields EXCEPT ![f] = piece]
  <1>0. /\ doc \in Document /\ leads \in Seq(LeadRow) /\ fields \in Maps
        /\ k \in Nat /\ k >= 2 /\ n \in Nat /\ DOMAIN doc.records = 1..n /\ DOMAIN labels = 1..k
        /\ 0 \in 0..(k - 1) /\ 1 \in 1..k /\ 0 + 1 = 1
    <2>1. /\ k \in Nat /\ k >= 2 /\ n \in Nat /\ DOMAIN doc.records = 1..n /\ DOMAIN labels = 1..k
      BY RecordSizes
    <2> HIDE DEF n, k
    <2>2. 0 \in 0..(k - 1) /\ 1 \in 1..k /\ 0 + 1 = 1
      BY <2>1
    <2> QED  BY <2>1, <2>2 DEF TypeInv, TypeOK, LeadRow, Maps
  <1>1. \/ c < k /\ i \in 1..n /\ at = place[i][c + 1]
        \/ c = k /\ i + 1 \in 1..n /\ at = place[i + 1][1]
    <2>1. at <= Len(doc.lines)
      BY DEF ReadLine
    <2> DEFINE next == Following(doc, labels, doc.records, place, i, c)
    <2>2. doc \in Document
      BY <1>0
    <2>3. next <= Len(doc.lines) =>
             \/ c < Len(labels) /\ i \in 1..Len(doc.records) /\ next = place[i][c + 1]
             \/ c = Len(labels) /\ i + 1 \in 1..Len(doc.records) /\ next = place[i + 1][1]
      BY <2>2, BlockPlaces, SMTT(30)
    <2>4. at = next
      OBVIOUS
    <2> QED  BY <2>1, <2>3, <2>4, Zenon
  <1>r. c \in 1..k /\ i \in 0..n
    OBVIOUS
  <1>2. \/ i # 0 /\ fields = Part(labels, doc.records[i], c) /\ LeadValues = MeantBy(doc.records, i - 1)
        \/ c = k /\ fields = NoFields /\ LeadValues = MeantBy(doc.records, i)
    BY DEF AtBlock
  <1> HIDE DEF n, k
  \* The next label of the record in hand.
  <1>3. CASE c < k /\ i \in 1..n /\ at = place[i][c + 1]
    <2>1. c + 1 \in 1..k /\ c \in 0..(k - 1) /\ c # k /\ i \in DOMAIN doc.records
      BY <1>0, <1>r, <1>3
    <2> DEFINE f == labels[c + 1]
               value == doc.records[i][f]
    <2>2. /\ \E from : PutLine(f, value, from)
          /\ GoesOn(doc, labels, doc.records, place, i, c + 1, at')
      BY <1>0, <1>3, <2>1, BlockRead DEF n, k
    <2>3. fields = Part(labels, doc.records[i], c) /\ LeadValues = MeantBy(doc.records, i - 1)
      BY <1>2, <2>1
    <2>4. /\ Part(labels, doc.records[i], c)[f] = None
          /\ [Part(labels, doc.records[i], c) EXCEPT ![f] = value] = Part(labels, doc.records[i], c + 1)
      BY <2>1, PartStep DEF k
    <2> HIDE DEF f, value
    <2>5. ~Has(f)
      BY <2>3, <2>4 DEF Has
    <2>6. \E from : Put(f, value, from)
      BY <2>2, <2>5 DEF PutLine
    <2>7. fields' = Part(labels, doc.records[i], c + 1) /\ leads' = leads
      BY <2>3, <2>4, <2>6 DEF Put
    <2>8. LeadValues' = MeantBy(doc.records, i - 1)
      BY <2>3, <2>7 DEF LeadValues
    <2> QED  BY <1>3, <2>1, <2>2, <2>7, <2>8 DEF n, k
  \* The first label of the next record.
  <1>4. CASE c = k /\ i + 1 \in 1..n /\ at = place[i + 1][1]
    <2> DEFINE f == labels[1]
               value == doc.records[i + 1][f]
    <2>1. i + 1 \in DOMAIN doc.records /\ (i + 1) - 1 = i
      BY <1>0, <1>4
    <2>2. /\ \E from : PutLine(f, value, from)
          /\ GoesOn(doc, labels, doc.records, place, i + 1, 1, at')
      BY <1>0, <1>4, BlockRead DEF n, k
    <2>3. Take(f, value) = Part(labels, doc.records[i + 1], 1)
      <3>1. /\ Part(labels, doc.records[i + 1], 0) = NoFields
            /\ [Part(labels, doc.records[i + 1], 0) EXCEPT ![labels[0 + 1]] = doc.records[i + 1][labels[0 + 1]]]
                    = Part(labels, doc.records[i + 1], 0 + 1)
        <4>1. 0 \in 0..(k - 1)
          BY <1>0
        <4> QED  BY <2>1, <4>1, PartStep DEF k
      <3> QED  BY <1>0, <3>1
    <2> HIDE DEF f, value
    <2>4. CASE fields = NoFields /\ LeadValues = MeantBy(doc.records, i)
      <3>1. ~Has(f)
        <4>1. f \in Field
          BY <1>0, RecordSizes DEF f, k
        <4> QED  BY <2>4, <4>1 DEF Has, NoFields
      <3>2. \E from : Put(f, value, from)
        BY <2>2, <3>1 DEF PutLine
      <3>3. fields' = Part(labels, doc.records[i + 1], 1) /\ leads' = leads
        BY <2>3, <2>4, <3>2 DEF Put
      <3>4. LeadValues' = MeantBy(doc.records, (i + 1) - 1)
        BY <2>1, <2>4, <3>3 DEF LeadValues
      <3> QED  BY <1>0, <1>4, <2>2, <3>3, <3>4 DEF n, k
    <2>5. CASE i # 0 /\ fields = Part(labels, doc.records[i], c) /\ LeadValues = MeantBy(doc.records, i - 1)
      <3>1. i \in DOMAIN doc.records
        BY <1>0, <2>5 DEF n
      <3>2. fields = doc.records[i]
        BY <1>4, <2>5, <3>1, PartStep DEF k
      <3>3. Has(f) /\ Crowded
        BY <3>1, <3>2, RecordCrowded DEF f
      <3>4. WithEmail(fields) = {doc.records[i]}
        BY <3>1, <3>2, RecordEmail
      <3>5. PICK from : FlushAndPut({doc.records[i]}, f, value, from)
        BY <2>2, <3>3, <3>4 DEF PutLine
      <3>6. leads' = Found(doc.records[i], lines) /\ fields' = Part(labels, doc.records[i + 1], 1)
        BY <2>3, <3>5 DEF FlushAndPut
      <3>7. LeadValues' = MeantBy(doc.records, i)
        <4>1. Len(doc.records) \in Nat /\ DOMAIN doc.records = 1..Len(doc.records)
          BY <1>0 DEF n
        <4> QED  BY <1>0, <2>5, <3>1, <3>6, <4>1, FoundMeant
      <3> QED  BY <1>0, <1>4, <2>1, <2>2, <3>6, <3>7 DEF n, k
    <2> QED  BY <1>2, <2>4, <2>5
  <1> QED  BY <1>1, <1>3, <1>4

\* In lines that are blocks, no attempt before that for blocks finds any rows.
LEMMA BlockOpened ==
    ASSUME doc \in Document, text \in Seq(Line), text = doc.lines, tables = doc.rows, doc.rows = <<>>,
           text # <<>>, NEW labels, NEW place, Blocks(doc, labels, doc.records, place),
           source \in UpTo("blocks"), source # "blocks", OpenSource
    PROVE  pc' = "source" /\ source' \in UpTo("blocks")
  <1>1. "blocks" \in Sources
    BY Zenon DEF Sources
  <1>2. \A n \in DOMAIN text : text[n].by \in {"none", "colon", "---", "Lead 12"}
    BY DEF Blocks
  <1>3. ASSUME NEW s \in UpTo("blocks"), s # "blocks" PROVE RowsOf(s) = <<>>
    <2>1. CASE s = "docx"
      BY <2>1 DEF RowsOf
    <2>2. CASE s # "docx"
      <3>1. s \notin {"none", "colon", "---", "Lead 12"}
        <4>1. s \in {"docx", "|", "tab", ",", "blocks"}
          BY Zenon DEF UpTo
        <4> QED  BY <4>1, <2>2, <1>3, Zenon
      <3>2. \A n \in DOMAIN text : text[n].by # s
        BY <1>2, <3>1
      <3> QED  BY <2>2, <3>2, NoRows
    <2> QED  BY <2>1, <2>2
  <1> QED  BY <1>1, <1>3, Opened

\* Nor that from blocks.
LEMMA BlockStep ==
    ASSUME TypeInv, FileRead, [Next]_vars, NEW labels, NEW place, doc.records \in Seq(Maps),
           RecordsOf(labels, doc.records), doc.rows = <<>>, Blocks(doc, labels, doc.records, place),
           BlockSearch(labels, place)
    PROVE  BlockSearch(labels, place)'
  <1> DEFINE n == Len(doc.records)
             k == Len(labels)
             l == Len(doc.lines)
             next(i, c) == Following(doc, labels, doc.records, place, i, c)
             On(i, c, m) == GoesOn(doc, labels, doc.records, place, i, c, m)
  <1>0. /\ TypeOK /\ at \in Nat /\ at # 0 /\ doc \in Document
        /\ text \in Seq(Line) /\ leads \in Seq(LeadRow)
    BY DEF TypeInv, TypeOK, LeadRow
  <1>1. /\ k \in Nat /\ k >= 2 /\ n \in Nat /\ n >= 1 /\ DOMAIN doc.records = 1..n /\ DOMAIN labels = 1..k
        /\ 0 \in 0..n /\ 1 \in 1..n /\ 1 \in 1..k /\ k \in 1..k
    BY RecordSizes
  <1>l. doc.lines \in Seq(Line) /\ l \in Nat /\ DOMAIN doc.lines = 1..l
    BY <1>0 DEF Document
  <1>2. MeantBy(doc.records, 0) = <<>> /\ Meant(doc.records) = MeantBy(doc.records, n)
    BY <1>1, MeantStep DEF Meant
  <1>3. \A i \in 0..n, c \in 1..k : (i = 0 => c = k) =>
           /\ next(i, c) \in Nat /\ next(i, c) <= l + 1
           /\ next(i, c) > l => i = n /\ c = k
    <2> SUFFICES ASSUME NEW i \in 0..n, NEW c \in 1..k, i = 0 => c = k
                 PROVE  /\ next(i, c) \in Nat /\ next(i, c) <= l + 1
                        /\ next(i, c) > l => i = n /\ c = k
      OBVIOUS
    <2> USE <1>0
    <2>1. next(i, c) \in Nat
      BY BlockPlaces, Zenon
    <2>2. next(i, c) <= l + 1
      BY BlockPlaces, SMTT(30)
    <2>3. next(i, c) > l => i = n /\ c = k
      BY BlockPlaces, SMTT(30)
    <2> QED  BY <2>1, <2>2, <2>3
  <1>4. \A i \in 1..n : Part(labels, doc.records[i], k) = doc.records[i]
    BY <1>1, PartStep
  <1>5. place[1][1] \in 1..l /\ next(0, k) = place[1][1]
        /\ \A m \in 1..(place[1][1] - 1) : IsBoundary(doc.lines[m])
    <2>1. place[1][1] \in 1..l /\ \A m \in 1..(place[1][1] - 1) : IsBoundary(doc.lines[m])
      BY <1>1, <1>l DEF Blocks
    <2>2. next(0, k) = place[1][1]
      <3>1. ~(k < k) /\ 0 < n /\ 0 + 1 = 1
        BY <1>1
      <3> QED  BY <3>1 DEF Following
    <2> QED  BY <2>1, <2>2
  <1> HIDE DEF n, k, l
  <1>d. doc' = doc
    BY DEF Next, ReadToken, EndOfTokens, OpenSource, ScanHeader, EndOfHeader, ReadRow,
           EndOfRows, ReadLabel, EndOfLabels, ReadLine, EndOfLines, Answered, vars
  <1>e. /\ Meant(doc.records)' = Meant(doc.records)
        /\ \A m : MeantBy(doc.records, m)' = MeantBy(doc.records, m)
    BY <1>d
  <1>g. /\ \A i, c : Part(labels, doc.records[i], c)' = Part(labels, doc.records[i], c)
        /\ \A i, c, m : On(i, c, m)' <=> GoesOn(doc, labels, doc.records, place, i, c, m')
    BY <1>d
  <1>a. \A i, c : AtBlock(labels, place, i, c)' <=>
           /\ On(i, c, at')
           /\ \/ i # 0 /\ fields' = Part(labels, doc.records[i], c) /\ LeadValues' = MeantBy(doc.records, i - 1)
              \/ c = k /\ fields' = NoFields /\ LeadValues' = MeantBy(doc.records, i)
    BY <1>d DEF AtBlock, k, NoFields, GoesOn, Following, Part
  <1>6. CASE ReadToken \/ EndOfTokens
    <2>1. pc \in {"xml"} /\ pc' \in {"xml", "source"} /\ source' = source
      BY <1>6 DEF ReadToken, EndOfTokens
    <2> QED  BY <2>1 DEF BlockSearch, UpTo
  <1>7. CASE OpenSource
    <2>0. pc = "source"
      BY <1>7 DEF OpenSource
    <2>1. source \in UpTo("blocks") /\ tables = doc.rows /\ text = doc.lines
      BY <2>0 DEF BlockSearch, FileRead
    <2>2. CASE source # "blocks"
      <3>1. text # <<>>
        BY <1>5, <1>l, <2>1 DEF l
      <3>2. pc' = "source" /\ source' \in UpTo("blocks")
        BY <1>0, <1>7, <2>1, <2>2, <3>1, BlockOpened
      <3> QED  BY <3>2 DEF BlockSearch, UpTo
    <2>3. CASE source = "blocks"
      <3>1. StartOver("blocks", source) /\ leads' = leads
        BY <1>7, <2>3 DEF OpenSource
      <3>2. leads = <<>>
        BY <2>0 DEF TypeInv, ParserInv, Fresh
      <3>3. pc' = "blocks" /\ at' = 1 /\ fields' = NoFields
        BY <3>1 DEF StartOver
      <3>4. LeadValues' = <<>>
        BY <3>1, <3>2 DEF LeadValues
      <3>5. On(0, k, 1)
        <4>1. 1 <= place[1][1]
          BY <1>5
        <4> QED  BY <1>1, <1>5, <4>1 DEF GoesOn, k
      <3>6. AtBlock(labels, place, 0, k)'
        BY <1>2, <1>a, <3>3, <3>4, <3>5
      <3> QED  BY <1>1, <1>d, <3>3, <3>6 DEF BlockSearch, n, k
    <2> QED  BY <2>2, <2>3
  <1>8. CASE ScanHeader \/ EndOfHeader \/ ReadRow \/ EndOfRows \/ ReadLabel \/ EndOfLabels
    <2>1. pc \in {"header", "rows", "vertical"}
      BY <1>8 DEF ScanHeader, EndOfHeader, ReadRow, EndOfRows, ReadLabel, EndOfLabels
    <2> QED  BY <2>1 DEF BlockSearch
  <1>9. ASSUME pc = "blocks"
        PROVE  \E i \in 0..n, c \in 1..k :
                  /\ i = 0 => c = k
                  /\ AtBlock(labels, place, i, c)
                  /\ On(i, c, at) /\ at <= next(i, c) /\ (c < k => at = next(i, c))
                  /\ c = k => \/ i # 0 /\ fields = doc.records[i] /\ LeadValues = MeantBy(doc.records, i - 1)
                              \/ fields = NoFields /\ LeadValues = MeantBy(doc.records, i)
    <2>1. PICK i \in 0..n, c \in 1..k : (i = 0 => c = k) /\ AtBlock(labels, place, i, c)
      BY <1>9 DEF BlockSearch, n, k
    <2>2. On(i, c, at) /\ at <= next(i, c) /\ (c < k => at = next(i, c))
      BY <2>1 DEF AtBlock, GoesOn, k
    <2>3. c = k => \/ i # 0 /\ fields = doc.records[i] /\ LeadValues = MeantBy(doc.records, i - 1)
                   \/ fields = NoFields /\ LeadValues = MeantBy(doc.records, i)
      <3>1. i # 0 => i \in 1..n
        BY <1>1
      <3> QED  BY <1>4, <2>1, <3>1 DEF AtBlock
    <2> QED  BY <2>1, <2>2, <2>3
  <1>10. CASE ReadLine
    <2>1. pc = "blocks" /\ pc' = pc /\ text = doc.lines /\ at <= l
      BY <1>10 DEF ReadLine, FileRead, l
    <2>2. PICK i \in 0..n, c \in 1..k :
                  /\ i = 0 => c = k
                  /\ AtBlock(labels, place, i, c)
                  /\ On(i, c, at) /\ at <= next(i, c) /\ (c < k => at = next(i, c))
                  /\ c = k => \/ i # 0 /\ fields = doc.records[i] /\ LeadValues = MeantBy(doc.records, i - 1)
                              \/ fields = NoFields /\ LeadValues = MeantBy(doc.records, i)
      BY <1>9, <2>1
    <2>3. next(i, c) \in Nat
      BY <1>3, <2>2
    \* A boundary.
    <2>4. CASE at < next(i, c)
      <3>1. c = k
        BY <1>1, <2>2, <2>3, <2>4
      <3>2. IsBoundary(text[at]) /\ On(i, c, at + 1)
        <4> DEFINE m == next(i, c)
        <4>1. \A j \in at..(m - 1) : IsBoundary(doc.lines[j])
          BY <2>2 DEF GoesOn
        <4>2. m \in Nat /\ at < m
          BY <2>3, <2>4
        <4> HIDE DEF m
        <4>3. at \in at..(m - 1) /\ at + 1 <= m /\ \A j \in (at + 1)..(m - 1) : j \in at..(m - 1)
          BY <1>0, <4>2
        <4>4. IsBoundary(text[at])
          BY <2>1, <4>1, <4>3
        <4>5. ~(c < k)
          BY <1>1, <3>1
        <4> QED  BY <4>1, <4>3, <4>4, <4>5 DEF GoesOn, m, k
      <3>3. Flush(WithEmail(fields)) /\ at' = at + 1
        BY <1>10, <3>2, Zenon DEF ReadLine
      <3>4. fields' = NoFields /\ LeadValues' = MeantBy(doc.records, i)
        BY <1>0, <2>2, <3>1, <3>3, BlockFlushed DEF n
      <3>5. AtBlock(labels, place, i, c)'
        BY <1>a, <3>1, <3>2, <3>3, <3>4
      <3> QED  BY <1>d, <2>1, <2>2, <3>5 DEF BlockSearch, n, k
    \* A label.
    <2>5. CASE at = next(i, c)
      <3>1. \E j \in 1..n, b \in 1..k :
              /\ On(j, b, at')
              /\ fields' = Part(labels, doc.records[j], b) /\ LeadValues' = MeantBy(doc.records, j - 1)
        BY <1>10, <2>1, <2>2, <2>5, BlockPut DEF n, k
      <3>2. PICK j \in 1..n, b \in 1..k :
              /\ On(j, b, at')
              /\ fields' = Part(labels, doc.records[j], b) /\ LeadValues' = MeantBy(doc.records, j - 1)
        BY <3>1
      <3>3. j # 0 /\ j \in 0..n
        BY <1>1
      <3>4. AtBlock(labels, place, j, b)'
        BY <1>a, <3>2, <3>3
      <3> QED  BY <1>d, <2>1, <3>3, <3>4 DEF BlockSearch, n, k
    <2> QED  BY <1>0, <2>2, <2>3, <2>4, <2>5
  <1>11. CASE EndOfLines
    <2>1. pc = "blocks" /\ pc' = "done" /\ at > l /\ Flush(WithEmail(fields))
      BY <1>11 DEF EndOfLines, FileRead, l
    <2>2. PICK i \in 0..n, c \in 1..k :
                  /\ i = 0 => c = k
                  /\ AtBlock(labels, place, i, c)
                  /\ On(i, c, at) /\ at <= next(i, c) /\ (c < k => at = next(i, c))
                  /\ c = k => \/ i # 0 /\ fields = doc.records[i] /\ LeadValues = MeantBy(doc.records, i - 1)
                              \/ fields = NoFields /\ LeadValues = MeantBy(doc.records, i)
      BY <1>9, <2>1
    <2>3. i = n /\ c = k
      <3> DEFINE m == next(i, c)
      <3>1. m \in Nat /\ (m > l => i = n /\ c = k) /\ at <= m
        BY <1>3, <2>2
      <3> HIDE DEF m
      <3> QED  BY <1>0, <1>l, <2>1, <3>1
    <2>4. LeadValues' = MeantBy(doc.records, n)
      BY <1>0, <1>1, <2>1, <2>2, <2>3, BlockFlushed DEF n
    <2> QED  BY <1>2, <1>e, <2>1, <2>4 DEF BlockSearch
  <1>12. CASE Answered \/ UNCHANGED vars
    <2>1. UNCHANGED <<pc, at, source, leads, fields>>
      BY <1>12 DEF Answered, vars, record
    <2>2. LeadValues' = LeadValues /\ UpTo("blocks")' = UpTo("blocks")
      BY <2>1 DEF LeadValues
    <2>3. \A i, c : AtBlock(labels, place, i, c) => AtBlock(labels, place, i, c)'
      BY <1>a, <2>1, <2>2 DEF AtBlock, k
    <2> QED  BY <1>d, <1>e, <2>1, <2>2, <2>3 DEF BlockSearch
  <1> QED  BY <1>6, <1>7, <1>8, <1>10, <1>11, <1>12 DEF Next

-----------------------------------------------------------------------------
(* Every layout.                                                           *)

\* How far the search has come in a document that is laid out.
Search(labels, place) ==
    /\ \A src, table : TableOf(src, table) /\ HeaderTable(table, labels, doc.records)
                          => HeaderSearch(src, table)
    /\ \A src, table : TableOf(src, table) /\ LabelTable(table, labels, doc.records)
                          => LabelSearch(labels, src, table)
    /\ doc.rows = <<>> /\ Blocks(doc, labels, doc.records, place) => BlockSearch(labels, place)

LayoutInv ==
    \A labels, count, place :
        doc.records # None /\ Meant(doc.records) # <<>> /\ LaidOut(doc, labels, count, place)
            => Search(labels, place)

\* A file that is complete is read as it was written.
LEMMA LaidOutRead ==
    ASSUME FileInv, NEW labels, NEW count, NEW place, LaidOut(doc, labels, count, place)
    PROVE  FileRead
  BY DEF FileInv, LaidOut, FileRead, HasBeenRead

\* Every search starts with the first attempt.
LEMMA LayoutInit == Init => LayoutInv
  <1> SUFFICES ASSUME Init PROVE LayoutInv
    OBVIOUS
  <1>1. pc \in {"xml", "source"} /\ source = "docx"
    BY DEF Init
  <1>2. \A src \in Sources : source \in UpTo(src)
    BY <1>1, NextUp
  <1>3. \A src, table : TableOf(src, table) => src \in Sources
    BY Zenon DEF TableOf, Sources
  <1>4. "blocks" \in Sources
    BY Zenon DEF Sources
  <1> QED  BY <1>1, <1>2, <1>3, <1>4 DEF LayoutInv, Search, HeaderSearch, LabelSearch, BlockSearch

\* Every step goes on with the search of the layout that the document has.
LEMMA LayoutStep == TypeInv /\ FileInv /\ LayoutInv /\ [Next]_vars => LayoutInv'
  <1> SUFFICES ASSUME TypeInv, FileInv, LayoutInv, [Next]_vars,
                      NEW labels, NEW count, NEW place, doc'.records # None,
                      Meant(doc'.records) # <<>>, LaidOut(doc', labels, count, place)
               PROVE  Search(labels, place)'
    BY DEF LayoutInv
  <1>1. doc' = doc
    BY DEF Next, ReadToken, EndOfTokens, OpenSource, ScanHeader, EndOfHeader, ReadRow,
           EndOfRows, ReadLabel, EndOfLabels, ReadLine, EndOfLines, Answered, vars
  <1>2. /\ doc.records # None /\ Meant(doc.records) # <<>> /\ LaidOut(doc, labels, count, place)
    BY <1>1
  <1>3. Search(labels, place) /\ FileRead /\ RecordsOf(labels, doc.records)
    BY <1>2, LaidOutRead DEF LayoutInv, LaidOut
  <1>4. doc.records \in Seq(Maps)
    BY <1>2 DEF TypeInv, TypeOK, Document, Maps
  <1>5. ASSUME NEW src, NEW table, TableOf(src, table)', HeaderTable(table, labels, doc.records)'
        PROVE  HeaderSearch(src, table)'
    <2>1. TableOf(src, table) /\ HeaderTable(table, labels, doc.records)
      BY <1>1, <1>5, Zenon DEF TableOf, HeaderTable
    <2>2. HeaderSearch(src, table)
      BY <1>3, <2>1 DEF Search
    <2> QED  BY <1>2, <1>3, <1>4, <2>1, <2>2, HeaderStep
  <1>6. ASSUME NEW src, NEW table, TableOf(src, table)', LabelTable(table, labels, doc.records)'
        PROVE  LabelSearch(labels, src, table)'
    <2>1. TableOf(src, table) /\ LabelTable(table, labels, doc.records)
      BY <1>1, <1>6, Zenon DEF TableOf, LabelTable
    <2>2. LabelSearch(labels, src, table)
      BY <1>3, <2>1 DEF Search
    <2> QED  BY <1>2, <1>3, <1>4, <2>1, <2>2, LabelStep
  <1>7. ASSUME doc'.rows = <<>>, Blocks(doc', labels, doc'.records, place)
        PROVE  BlockSearch(labels, place)'
    <2>1. doc.rows = <<>> /\ Blocks(doc, labels, doc.records, place)
      BY <1>1, <1>7
    <2>2. BlockSearch(labels, place)
      BY <1>3, <2>1 DEF Search
    <2> QED  BY <1>3, <1>4, <2>1, <2>2, BlockStep
  <1> QED  BY <1>5, <1>6, <1>7 DEF Search

\* The layout is one of those that are searched for.
LEMMA LayoutFound ==
    ASSUME TypeInv, LayoutInv, pc = "done", doc.records # None, Meant(doc.records) # <<>>,
           NEW labels, NEW count, NEW place, LaidOut(doc, labels, count, place)
    PROVE  Meant(doc.records) = LeadValues
  <1>1. Search(labels, place) /\ Layout(doc, labels, place)
    BY DEF LayoutInv, LaidOut
  <1>2. ASSUME NEW src, NEW table, TableOf(src, table), IsTable(table, labels, doc.records)
        PROVE  Meant(doc.records) = LeadValues
    <2>1. HeaderSearch(src, table) \/ LabelSearch(labels, src, table)
      BY <1>1, <1>2 DEF Search, IsTable
    <2> QED  BY <2>1 DEF HeaderSearch, LabelSearch
  <1>3. CASE IsTable(doc.rows, labels, doc.records)
    <2>1. TableOf("docx", doc.rows)
      BY Zenon DEF TableOf
    <2> QED  BY <1>2, <1>3, <2>1
  <1>4. ASSUME doc.rows = <<>>,
               \E by \in {"|", "tab", ","} : \A n \in DOMAIN doc.lines : doc.lines[n].by = by,
               IsTable([n \in DOMAIN doc.lines |-> doc.lines[n].cells], labels, doc.records)
        PROVE  Meant(doc.records) = LeadValues
    <2> DEFINE table == [n \in DOMAIN doc.lines |-> doc.lines[n].cells]
    <2>1. \E src : TableOf(src, table)
      BY <1>4, Zenon DEF TableOf
    <2> HIDE DEF table
    <2>2. IsTable(table, labels, doc.records)
      BY <1>4 DEF table
    <2> QED  BY <1>2, <2>1, <2>2
  <1>5. CASE doc.rows = <<>> /\ Blocks(doc, labels, doc.records, place)
    <2>1. BlockSearch(labels, place)
      BY <1>1, <1>5 DEF Search
    <2> QED  BY <2>1 DEF BlockSearch
  <1> QED  BY <1>1, <1>3, <1>4, <1>5, Zenon DEF Layout

-----------------------------------------------------------------------------
(* Theorems.                                                               *)

\* In every document, the variables of the parser keep their types.
THEOREM TypeCorrect == Spec => []TypeOK
  <1>1. TypeInv => TypeOK
    BY DEF TypeInv
  <1> QED  BY <1>1, TypeInit, TypeStep, PTL DEF Spec

\* In every document, each lead is read from lines or rows that come after those of
\* the leads before it: nothing that a record leaves behind reaches another.
THEOREM LeadsInOrderHolds == Spec => []LeadsInOrder
  <1>1. ParserInv => LeadsInOrder
    BY DEF ParserInv
  <1> QED  BY <1>1, ParserInvariant, PTL

\* In every document, no lead is put together from both sides of a boundary.
THEOREM BoundariesHoldAlways == Spec => []BoundariesHold
  <1>1. ParserInv => BoundariesHold
    BY DEF ParserInv
  <1> QED  BY <1>1, ParserInvariant, PTL

\* Documents that are DOCX files, or the first parts of such files, where elements are nested.
DocxTagged == \A d \in Documents : d.docx => \E count : Tagged(d, count)

\* Whatever part of a DOCX file whose elements are nested can be read, its rows and its
\* lines are the first ones of those that its author has written.
THEOREM ReadAsWrittenHolds ==
    ASSUME DocxTagged
    PROVE  Spec => []ReadAsWritten
  <1>1. TypeInv /\ FileInv /\ doc \in Documents => ReadAsWritten
    <2> SUFFICES ASSUME TypeInv, FileInv, doc \in Documents PROVE ReadAsWritten
      OBVIOUS
    <2>1. doc.lines \in Seq(Line) /\ doc.rows \in Seq(Seq(Piece))
      BY DEF TypeInv, TypeOK, Document
    <2>2. CASE doc.docx
      <3>1. PICK count : Tagged(doc, count)
        BY <2>2 DEF DocxTagged
      <3>2. BeingRead(count) \/ HasBeenRead(count)
        BY <2>2, <3>1 DEF FileInv
      <3> QED  BY <3>2 DEF BeingRead, LinesRead, RowsRead, HasBeenRead, ReadAsWritten
    <2>3. CASE ~doc.docx
      <3>1. tables = <<>> /\ text = doc.lines
        BY <2>3 DEF FileInv
      <3> QED  BY <2>1, <3>1, StartsNone DEF ReadAsWritten
    <2> QED  BY <2>2, <2>3
  <1> QED  BY <1>1, FileInvariant, SameFile, PTL

\* Documents whose records, when they have any, are laid out.
AllLaidOut ==
    \A d \in Documents : d.records # None => \E labels, count, place : LaidOut(d, labels, count, place)

\* Records that share their labels give one lead each, with its own values, in every one
\* of the layouts, however many records and labels there are and whichever values are blank.
THEOREM SameInEveryLayoutHolds ==
    ASSUME AllLaidOut
    PROVE  Spec => []SameInEveryLayout
  <1>1. Init => TypeInv /\ FileInv /\ LayoutInv
    BY TypeInit, FileInit, LayoutInit
  <1>2. TypeInv /\ FileInv /\ LayoutInv /\ [Next]_vars => (TypeInv /\ FileInv /\ LayoutInv)'
    BY TypeStep, FileStep, LayoutStep
  <1>3. TypeInv /\ LayoutInv /\ doc \in Documents => SameInEveryLayout
    <2> SUFFICES ASSUME TypeInv, LayoutInv, doc \in Documents, pc = "done", doc.records # None,
                        Meant(doc.records) # <<>>
                 PROVE  Meant(doc.records) = LeadValues
      BY DEF SameInEveryLayout
    <2>1. PICK labels, count, place : LaidOut(doc, labels, count, place)
      BY DEF AllLaidOut
    <2> QED  BY <2>1, LayoutFound
  <1> QED  BY <1>1, <1>2, <1>3, SameFile, PTL DEF Spec
=============================================================================
