------------------------------ MODULE Compact ------------------------------
(***************************************************************************)
(* The COMPACT decoder of utils.rs.                                        *)
(*                                                                         *)
(* A batch is a flat list: the name of a type, the cells of its rows one   *)
(* after the other, the name of the next type, and so on.  Only the layout *)
(* says where a row ends and which column a cell stands in, and the server *)
(* may serve fewer columns than it was asked for, or others, or in another *)
(* order.  `decode` reads every column by name and stops at the first      *)
(* thing it cannot read, keeping what came before.                         *)
(*                                                                         *)
(* One action per turn of the loops of `decode`.  The batch and the layout *)
(* are chosen in Init from the constant Inputs and never change; what an   *)
(* error message says is left out.  `from`, the place an event was read    *)
(* at, is not in the code: it is there for the properties.                 *)
(***************************************************************************)
EXTENDS Events

CONSTANT Inputs     \* the batches, each with the layout it is read against

Names == STRING

\* The two items of CompactData, which is untagged: a string or an array.
HeaderItem(name)  == [tag |-> "EventType", name |-> name, cells |-> << >>]
ValuesItem(cells) == [tag |-> "Values", name |-> "", cells |-> cells]

\* Somebody sent every cell of a batch.
Cells == [json : JsonKinds, is : Names, of : Nat \ {0}]
Items == [tag : {"EventType", "Values"}, name : Names, cells : Seq(Cells)]

\* A layout some channel negotiated, or none: the standalone entry points.
Standalone == [negotiated |-> FALSE, columns |-> << >>]
Negotiated(columns) == [negotiated |-> TRUE, columns |-> columns]

ASSUME InputsAssumption ==
    \A input \in Inputs :
        /\ input.data \in Seq(Items)
        /\ input.layout.negotiated \in BOOLEAN
        /\ \A type \in DOMAIN input.layout.columns :
                input.layout.columns[type] \in Seq(Names)

VARIABLES
    data,       \* the batch
    layout,     \* the layout argument
    index,      \* the next item of the batch
    row, rows,  \* rows read of the open group, the one before index, and its rows
    events,     \* the events decoded so far
    result      \* "reading", "decoded", or "refused": an error is returned

vars == <<data, layout, index, row, rows, events, result>>

Init ==
    /\ \E input \in Inputs : data = input.data /\ layout = input.layout
    /\ index = 1
    /\ row = 0 /\ rows = 0
    /\ events = << >>
    /\ result = "reading"

-----------------------------------------------------------------------------
(* The checks on a group, a header and the cells after it.                 *)

HasLayout(name) ==
    IF layout.negotiated THEN name \in DOMAIN layout.columns ELSE name \in Decoded

Columns(name) ==
    IF layout.negotiated THEN layout.columns[name] ELSE CompactFields[name]

GroupReads(i) ==
    /\ data[i].tag = "EventType"
    /\ i + 1 \in DOMAIN data
    /\ data[i + 1].tag = "Values"
    /\ IsWireName(data[i].name)
    /\ HasLayout(data[i].name)
    /\ data[i].name \in Decoded
    /\ Len(Columns(data[i].name)) # 0
    /\ Len(data[i + 1].cells) % Len(Columns(data[i].name)) = 0

ColumnOf_Last(f) ==
    LET fields == Columns(data[index - 2].name)
    IN  CHOOSE c \in DOMAIN fields :
            fields[c] = f /\ \A d \in (c + 1)..Len(fields) : fields[d] # f

\* The open group: its header, its columns, and the first column of a name.
\* (Mutant: the last column of a name.)
Header == data[index - 2].name
Fields == Columns(Header)
HasColumn(f) == \E c \in DOMAIN Fields : Fields[c] = f
ColumnOf(f) ==
    CHOOSE c \in DOMAIN Fields : Fields[c] = f /\ \A d \in 1..(c - 1) : Fields[d] # f

Cell(f) == data[index - 1].cells[row * Len(Fields) + ColumnOf(f)]

-----------------------------------------------------------------------------
(* build_event: the columns it reads for each type, by accessor.           *)

Reads(texts, ints, doubles, flags) ==
    Struct(Named \cup texts, ints, doubles, flags)

CandleReads_Misspelt ==
    Reads({}, {"eventTime", "eventFlags", "index", "time", "sequence", "count"},
          {"open", "high", "low", "close", "volume", "vwap", "bidVolume",
           "askVolume", "impVolatility", "openInterest"}, {})

\* (Mutant: VWAP is read by the name of the Rust field.)
CandleReads ==
    Reads({}, {"eventTime", "eventFlags", "index", "time", "sequence", "count"},
          {"open", "high", "low", "close", "volume", "VWAP", "bidVolume",
           "askVolume", "impVolatility", "openInterest"}, {})

BuildEvent ==
    [Quote       |-> Reads({}, {}, {"bidPrice", "askPrice", "bidSize", "askSize"}, {}),
     Trade       |-> Reads({}, {}, {"price", "size", "dayVolume"}, {}),
     Greeks      |-> Reads({}, {}, {"delta", "gamma", "theta", "vega", "rho",
                         "volatility"}, {}),
     Candle      |-> CandleReads,
     Summary     |-> Reads({"dayClosePriceType", "prevDayClosePriceType"},
                       {"eventTime", "dayId", "prevDayId"},
                       {"dayOpenPrice", "dayHighPrice", "dayLowPrice", "dayClosePrice",
                        "prevDayClosePrice", "prevDayVolume", "openInterest"}, {}),
     TimeAndSale |-> Reads({"exchangeCode", "exchangeSaleConditions",
                         "tradeThroughExempt", "aggressorSide", "type", "buyer",
                         "seller"},
                       {"eventTime", "eventFlags", "index", "time", "timeNanoPart",
                        "sequence"},
                       {"price", "size", "bidPrice", "askPrice"},
                       {"spreadLeg", "extendedTradingHours", "validTick"}),
     Profile     |-> Reads({"description", "shortSaleRestriction", "tradingStatus",
                         "statusReason"},
                       {"eventTime", "haltStartTime", "haltEndTime", "exDividendDayId"},
                       {"highLimitPrice", "lowLimitPrice", "high52WeekPrice",
                        "low52WeekPrice", "beta", "earningsPerShare",
                        "dividendFrequency", "exDividendAmount", "shares",
                        "freeFloat"}, {}),
     Underlying  |-> Reads({}, {"eventTime", "eventFlags", "index", "time", "sequence"},
                       {"volatility", "frontVolatility", "backVolatility",
                        "callVolume", "putVolume", "putCallRatio"}, {}),
     TheoPrice   |-> Reads({}, {"eventTime", "eventFlags", "index", "time", "sequence"},
                       {"price", "underlyingPrice", "delta", "gamma", "dividend",
                        "interest"}, {}),
     Series      |-> Reads({}, {"eventTime", "eventFlags", "index", "time", "sequence",
                         "expiration"},
                       {"volatility", "callVolume", "putVolume", "putCallRatio",
                        "forwardPrice", "dividend", "interest"}, {}),
     TradeETH    |-> Reads({"exchangeCode", "tickDirection"},
                       {"eventTime", "time", "timeNanoPart", "sequence", "dayId"},
                       {"price", "change", "size", "dayVolume", "dayTurnover"},
                       {"extendedTradingHours"})]

\* What an accessor answers for a column the server does not serve.
Default == [text |-> "", int |-> "0", double |-> "NaN", flag |-> "false"]

\* required_text: the column has to be there.
ReadsRequired(f) == HasColumn(f) /\ Cell(f).json \in Readable["text"]

\* text, int, double and flag: the column may be missing.
ReadsOptional(f, kind) == HasColumn(f) => Cell(f).json \in Readable[kind]

RowReads_Trusting ==
    /\ ReadsRequired("eventType")
    /\ ReadsRequired("eventSymbol")
    /\ \A f \in DOMAIN BuildEvent[Header] : ReadsOptional(f, BuildEvent[Header][f])

\* (Mutant: a row of another type is taken for one of the header's.)
RowReads ==
    /\ ReadsRequired("eventType")
    /\ Cell("eventType").is = Header
    /\ ReadsRequired("eventSymbol")
    /\ \A f \in DOMAIN BuildEvent[Header] : ReadsOptional(f, BuildEvent[Header][f])

EventRead ==
    [type   |-> Header,
     from   |-> <<index - 2, row>>,
     values |-> [f \in DOMAIN BuildEvent[Header] |->
                   LET kind == BuildEvent[Header][f]
                   IN  IF HasColumn(f) THEN Value(kind, Cell(f))
                                       ELSE Value(kind, Json("", Default[kind], 0))]]

-----------------------------------------------------------------------------
(* The loops of decode.                                                    *)

GroupDone_Early == row + 1 >= rows

\* (Mutant: the last row is left out.)
GroupDone == row = rows

OpenGroup ==
    /\ result = "reading" /\ GroupDone
    /\ index \in DOMAIN data
    /\ GroupReads(index)
    /\ index' = index + 2
    /\ row' = 0
    /\ rows' = Len(data[index + 1].cells) \div Len(Columns(data[index].name))
    /\ UNCHANGED <<data, layout, events, result>>

RefuseGroup ==
    /\ result = "reading" /\ GroupDone
    /\ index \in DOMAIN data
    /\ ~ GroupReads(index)
    /\ result' = "refused"
    /\ UNCHANGED <<data, layout, index, row, rows, events>>

ReadRow ==
    /\ result = "reading" /\ ~ GroupDone
    /\ RowReads
    /\ events' = Append(events, EventRead)
    /\ row' = row + 1
    /\ UNCHANGED <<data, layout, index, rows, result>>

RefuseRow ==
    /\ result = "reading" /\ ~ GroupDone
    /\ ~ RowReads
    /\ result' = "refused"
    /\ UNCHANGED <<data, layout, index, row, rows, events>>

Finish ==
    /\ result = "reading" /\ GroupDone
    /\ index \notin DOMAIN data
    /\ result' = "decoded"
    /\ UNCHANGED <<data, layout, index, row, rows, events>>

Next == OpenGroup \/ RefuseGroup \/ ReadRow \/ RefuseRow \/ Finish

Spec == Init /\ [][Next]_vars

\* try_parse_negotiated and try_parse_compact_data: all of it or an error.
\* parse_compact_data answers `events` whatever the result.
TryParse == IF result = "decoded" THEN events ELSE << >>

-----------------------------------------------------------------------------
(* Properties.                                                             *)

\* The headers already read, and the rows under one of them.
HeadersRead == {i \in DOMAIN data : i < index /\ i % 2 = 1}
RowsUnder(i) == Len(data[i + 1].cells) \div Len(Columns(data[i].name))
CellUnder(i, r, c) == data[i + 1].cells[r * Len(Columns(data[i].name)) + c]

\* The columns of a name under the header i, and the first of them.
ColumnsNamed(i, f) ==
    {c \in DOMAIN Columns(data[i].name) : Columns(data[i].name)[c] = f}
FirstNamed(i, f, c) ==
    c \in ColumnsNamed(i, f) /\ \A d \in ColumnsNamed(i, f) : c <= d

\* The variables have their types; `index` is past a header and its cells, and
\* `row` never passes the rows of the group (decode's loop variables).
TypeOK ==
    /\ data \in Seq(Items)
    /\ layout.negotiated \in BOOLEAN
    /\ index \in 1..(Len(data) + 1) /\ index % 2 = 1
    /\ row \in 0..rows /\ rows \in Nat
    /\ \A n \in DOMAIN events : events[n].type \in Decoded
    /\ result \in {"reading", "decoded", "refused"}

Precedes(p, q) == p[1] < q[1] \/ (p[1] = q[1] /\ p[2] < q[2])

\* Whatever the result, the events are the rows up to the place the decoder
\* reached, each once and in the order they were sent: a refusal loses what
\* follows the fault and nothing before it (decode, `(events, Some(error))`).
EveryRowInOrder ==
    /\ \A m, n \in DOMAIN events : m < n => Precedes(events[m].from, events[n].from)
    /\ \A i \in HeadersRead : \A r \in 0..(RowsUnder(i) - 1) :
          (i < index - 2 \/ r < row) <=> \E n \in DOMAIN events : events[n].from = <<i, r>>

\* Every field of every event holds what the first column of that name says in
\* its own row, wherever the negotiated layout put that column, and the
\* default of its kind only if no column has the name (Row::value, the `columns` map).
InPlace(e) ==
    /\ e.type = data[e.from[1]].name
    /\ \A f \in DOMAIN BuildEvent[e.type] :
         \/ /\ ColumnsNamed(e.from[1], f) = {}
            /\ e.values[f].is = Default[BuildEvent[e.type][f]]
         \/ \E c \in ColumnsNamed(e.from[1], f) :
               /\ FirstNamed(e.from[1], f, c)
               /\ e.values[f].is = CellUnder(e.from[1], e.from[2], c).is
               /\ e.values[f].of = CellUnder(e.from[1], e.from[2], c).of

ValuesInPlace == \A n \in DOMAIN events : InPlace(events[n])

\* A row says that it is of the header's type and names a symbol, and every
\* field of the struct can be read from the column that feeds it.
RowFits(i, r) ==
    /\ ColumnsNamed(i, "eventType") # {} /\ ColumnsNamed(i, "eventSymbol") # {}
    /\ \A f \in DOMAIN EventStruct[data[i].name] : \A c \in ColumnsNamed(i, f) :
         FirstNamed(i, f, c) =>
           /\ CellUnder(i, r, c).json \in Readable[EventStruct[data[i].name][f]]
           /\ f = "eventType" => CellUnder(i, r, c).is = data[i].name

\* A group is well formed when it can be cut into rows and every row fits.
WellFormed(i) == GroupReads(i) /\ \A r \in 0..(RowsUnder(i) - 1) : RowFits(i, r)

\* try_parse answers events only for a batch that is well formed from end to
\* end, and an error only for one that is not.
RefusedIffMalformed ==
    /\ result = "decoded" => \A i \in DOMAIN data : i % 2 = 1 => WellFormed(i)
    /\ result = "refused" => \E i \in DOMAIN data : i % 2 = 1 /\ ~ WellFormed(i)

\* A type served with every column that was asked for has every field filled
\* from its row: no name is spelled one way in compact_fields and another in
\* build_event, which would read as the default for ever.
NothingDefaulted ==
    \A n \in DOMAIN events :
        LET e == events[n]
        IN  (\A c \in DOMAIN CompactFields[e.type] :
                ColumnsNamed(e.from[1], CompactFields[e.type][c]) # {})
              => \A f \in DOMAIN e.values : e.values[f].of # 0

\* An event written as FULL JSON reads back as the same variant with the same
\* values: no variant tried earlier takes it (MarketEvent, serde untagged).
SameVariantBack ==
    \A n \in DOMAIN events :
        FromFull(ToFull(events[n])) = [type |-> events[n].type, values |-> events[n].values]
=============================================================================
