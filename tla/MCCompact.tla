------------------------------ MODULE MCCompact ------------------------------
(***************************************************************************)
(* The batches TLC feeds to Compact: every decoded type with no row, one   *)
(* and two, against the layouts a server may settle on; every single cell  *)
(* damaged in every way; and batches that are wrong as lists.              *)
(***************************************************************************)
EXTENDS Compact, SequencesExt

GoodKind == [text |-> "string", int |-> "whole", double |-> "fraction", flag |-> "bool"]

\* The cell a server sends for the column f in the row r.
GoodCell(type, f, r) ==
    Json(IF f \in DOMAIN EventStruct[type] THEN GoodKind[EventStruct[type][f]]
                                           ELSE "other",
         IF f = "eventType" THEN type ELSE f, r)

\* A column served a second time holds something else.
GoodRow(type, columns, r) ==
    [c \in DOMAIN columns |->
        IF \E d \in 1..(c - 1) : columns[d] = columns[c]
        THEN [GoodCell(type, columns[c], r) EXCEPT !.is = "again"]
        ELSE GoodCell(type, columns[c], r)]

GoodCells(type, columns, n) ==
    FlattenSeq([r \in 1..n |-> GoodRow(type, columns, r)])

Group(type, columns, n) == <<HeaderItem(type), ValuesItem(GoodCells(type, columns, n))>>

Only(type, columns) == Negotiated([t \in {type} |-> columns])

\* Every column asked for, in order or not, all but one, one more, one twice.
Layouts(type) ==
    LET asked == CompactFields[type]
    IN  {asked, Reverse(asked), Append(asked, "eventSymbol"),
         InsertAt(asked, 3, "stranger"), << >>}
          \cup {RemoveAt(asked, c) : c \in DOMAIN asked}

Served ==
    UNION {{[data |-> Group(type, columns, n), layout |-> Only(type, columns)] :
              columns \in Layouts(type), n \in 0..2} : type \in Decoded}
      \cup {[data |-> Group(type, CompactFields[type], n), layout |-> Standalone] :
              type \in Decoded, n \in 0..2}

\* One cell of two rows is of any kind, or the cells end too early or too late.
Damaged ==
    UNION {LET cells == GoodCells(type, CompactFields[type], 2)
               bad == {[cells EXCEPT ![c].json = kind,
                                     ![c].is = IF kind = "special" THEN "NaN" ELSE @] :
                          c \in DOMAIN cells, kind \in JsonKinds}
                        \cup {[cells EXCEPT ![c].is = "Quote"] : c \in DOMAIN cells}
                        \cup {Front(cells), Append(cells, Head(cells))}
           IN  {[data |-> <<HeaderItem(type), ValuesItem(b)>>, layout |-> Standalone] :
                    b \in bad} : type \in Decoded}

\* Two groups; a list cut short, begun with cells, or with two headers in a
\* row; a type nobody knows, that cannot be decoded, or that was not agreed on.
Lists ==
    LET trade == Group("Trade", CompactFields["Trade"], 1)
        quote == Group("Quote", CompactFields["Quote"], 2)
        agreed == Only("Trade", CompactFields["Trade"])
        order == Group("Order", Lead, 0)
        typo  == <<HeaderItem("Qutoe"), quote[2]>>
        lists == {<< >>, trade \o quote, quote \o trade, quote \o << trade[1] >>,
                  trade \o << quote[2] >>, trade \o <<trade[1], trade[1], trade[2]>>,
                  trade \o order, trade \o typo, typo, order}
    IN  {[data |-> list, layout |-> l] :
            list \in lists, l \in {Standalone, agreed, Only("Order", Lead)}}

MCInputs == Served \cup Damaged \cup Lists
=============================================================================
