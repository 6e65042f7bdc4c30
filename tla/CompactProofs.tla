---------------------------- MODULE CompactProofs ----------------------------
(***************************************************************************)
(* Proofs about the COMPACT decoder for every batch and every layout.      *)
(*                                                                         *)
(* The invariant says where the loops of decode stand: which headers were  *)
(* read, that every row behind the place reached fitted, and which event   *)
(* came from which row.  The tables of Events and build_event enter only   *)
(* through Tables, ColumnsAreFields and Marks.                             *)
(***************************************************************************)
EXTENDS Compact, SequenceTheorems, WellFoundedInduction, TLAPS

\* The loops stand behind a header and its cells, and every header behind
\* them could be read.
Place ==
    /\ index \in Nat /\ 1 <= index /\ index <= Len(data) + 1 /\ index % 2 = 1
    /\ row \in Nat /\ rows \in Nat /\ row <= rows
    /\ index = 1 => rows = 0
    /\ index # 1 => index - 2 \in HeadersRead /\ rows = RowsUnder(index - 2)
    /\ \A i \in HeadersRead : GroupReads(i)

\* The rows the loops have passed.
Passed(i, r) ==
    /\ i \in HeadersRead
    /\ r \in 0..(RowsUnder(i) - 1)
    /\ i < index - 2 \/ r < row

\* Every row passed fitted and gave an event, every event came from one.
Rows ==
    /\ \A i, r : Passed(i, r) => RowFits(i, r)
    /\ \A i, r : Passed(i, r) => \E n \in DOMAIN events : events[n].from = <<i, r>>
    /\ \A n \in DOMAIN events :
          /\ events[n].type \in Decoded
          /\ \E i, r : Passed(i, r) /\ events[n].from = <<i, r>>
    /\ \A m, n \in DOMAIN events : m < n => Precedes(events[m].from, events[n].from)

Results ==
    /\ result \in {"reading", "decoded", "refused"}
    /\ result = "decoded" => index = Len(data) + 1 /\ row = rows
    /\ result = "refused" => \E i \in DOMAIN data : i % 2 = 1 /\ ~ WellFormed(i)

\* An event holds a value for every field of its struct, of the field's kind.
Filled(e) ==
    /\ e.type \in Decoded
    /\ e.values = [f \in DOMAIN EventStruct[e.type] |->
                     [kind |-> EventStruct[e.type][f],
                      is |-> e.values[f].is, of |-> e.values[f].of]]

EventsAreFilled == \A n \in DOMAIN events : Filled(events[n])

Batch ==
    /\ data \in Seq(Items)
    /\ layout.negotiated \in BOOLEAN
    /\ \A type \in DOMAIN layout.columns : layout.columns[type] \in Seq(Names)

IInv == Batch /\ Place /\ Rows /\ ValuesInPlace /\ EventsAreFilled /\ Results
             /\ \E S : events \in Seq(S)

-----------------------------------------------------------------------------
(* The tables.                                                             *)

\* A struct has the two names, as text.
LEMMA NamesAreText ==
    ASSUME NEW T, NEW I, NEW D, NEW F, Named \subseteq T
    PROVE  /\ Named \subseteq DOMAIN Struct(T, I, D, F)
           /\ \A f \in Named : Struct(T, I, D, F)[f] = "text"
BY DEF Struct, Named

\* The types with a list of columns, by name.
LEMMA DecodedTypes ==
    Decoded = {"Quote", "Trade", "Greeks", "Summary", "Candle", "Profile", "Series",
               "TradeETH", "TimeAndSale", "Underlying", "TheoPrice"}
BY DEF Decoded, CompactFields

\* What the decoder needs of its tables: build_event reads exactly the fields
\* of the struct, each as the kind the struct has, and the two names are text.
LEMMA Tables ==
    ASSUME NEW t \in Decoded
    PROVE  /\ BuildEvent[t] = EventStruct[t]
           /\ Named \subseteq DOMAIN EventStruct[t]
           /\ \A f \in Named : EventStruct[t][f] = "text"
<1>1. BuildEvent[t] = EventStruct[t]
  <2> USE DEF Reads, Index, EventStruct, BuildEvent
  <2>1. CASE t = "Quote"
    BY <2>1 DEF QuoteEvent
  <2>2. CASE t = "Trade"
    BY <2>2 DEF TradeEvent
  <2>3. CASE t = "Greeks"
    BY <2>3 DEF GreeksEvent
  <2>4. CASE t = "Summary"
    BY <2>4 DEF SummaryEvent
  <2>5. CASE t = "Candle"
    BY <2>5 DEF CandleEvent, CandleReads
  <2>6. CASE t = "Profile"
    BY <2>6 DEF ProfileEvent
  <2>7. CASE t = "Series"
    BY <2>7 DEF SeriesEvent
  <2>8. CASE t = "TradeETH"
    BY <2>8 DEF TradeETHEvent
  <2>9. CASE t = "TimeAndSale"
    BY <2>9 DEF TimeAndSaleEvent
  <2>10. CASE t = "Underlying"
    BY <2>10 DEF UnderlyingEvent
  <2>11. CASE t = "TheoPrice"
    BY <2>11 DEF TheoPriceEvent
  <2> QED
    BY <2>1, <2>2, <2>3, <2>4, <2>5, <2>6, <2>7, <2>8, <2>9, <2>10, <2>11,
       DecodedTypes
<1>2. \E T, I, D, F : Named \subseteq T /\ EventStruct[t] = Struct(T, I, D, F)
  BY DecodedTypes
  DEF EventStruct, QuoteEvent, TradeEvent, GreeksEvent, CandleEvent, SummaryEvent,
      ProfileEvent, TimeAndSaleEvent, SeriesEvent, TradeETHEvent, UnderlyingEvent,
      TheoPriceEvent
<1> QED
  BY NamesAreText, <1>1, <1>2

\* A list of these names and no others.
Lists(s, S) == s \in Seq(S) /\ Range(s) = S

\* Two lists, one after the other.
LEMMA Joined ==
    ASSUME NEW S, NEW T, NEW s, NEW t, Lists(s, S), Lists(t, T),
           NEW r, r = s \o t, NEW U, U = S \cup T
    PROVE  Lists(r, U)
<1>1. s \in Seq(U) /\ t \in Seq(U) /\ Range(s) = S /\ Range(t) = T
  BY SeqMonotonic DEF Lists
<1>2. Range(r) = Range(s) \cup Range(t)
  BY <1>1, RangeConcatenation
<1>3. r \in Seq(U)
  BY <1>1, ConcatProperties
<1> QED
  BY <1>1, <1>2, <1>3 DEF Lists

TimedNames == Named \cup {"eventTime"}
IndexedNames == TimedNames \cup {"eventFlags", "index", "time"}

\* Every column asked for is a field of the struct, and every field of the
\* struct is asked for.
LEMMA ColumnsAreFields ==
    ASSUME NEW t \in Decoded
    PROVE  Lists(CompactFields[t], DOMAIN EventStruct[t])
<1>1. Lists(Lead, Named)
  BY DEF Lead, Named, Lists, Range
<1>2. Lists(Timed, TimedNames)
  <2> DEFINE own == <<"eventTime">>
             names == {"eventTime"}
  <2>1. Lists(own, names)
    BY DEF Lists, Range
  <2>2. Timed = Lead \o own /\ TimedNames = Named \cup names
    BY DEF Timed, TimedNames
  <2> HIDE DEF own, names
  <2> QED
    BY <1>1, <2>1, <2>2, Joined
<1>3. Lists(Indexed, IndexedNames)
  <2> DEFINE own == <<"eventFlags", "index", "time">>
             names == {"eventFlags", "index", "time"}
  <2>1. Lists(own, names)
    BY DEF Lists, Range
  <2>2. Indexed = Timed \o own /\ IndexedNames = TimedNames \cup names
    BY DEF Indexed, IndexedNames
  <2> HIDE DEF own, names
  <2> QED
    BY <1>2, <2>1, <2>2, Joined
<1>4. CASE t = "Quote"
  <2> DEFINE own == <<"bidPrice", "askPrice", "bidSize", "askSize">>
             names == {"bidPrice", "askPrice", "bidSize", "askSize"}
  <2>1. Lists(own, names)
    BY DEF Lists, Range
  <2>2. DOMAIN EventStruct[t] = Named \cup names
    BY <1>4 DEF EventStruct, QuoteEvent, Struct, Named, Index
  <2>3. CompactFields[t] = Lead \o own
    BY <1>4 DEF CompactFields
  <2> HIDE DEF own, names
  <2> QED
    BY <1>1, <2>1, <2>2, <2>3, Joined
<1>5. CASE t = "Trade"
  <2> DEFINE own == <<"price", "size", "dayVolume">>
             names == {"price", "size", "dayVolume"}
  <2>1. Lists(own, names)
    BY DEF Lists, Range
  <2>2. DOMAIN EventStruct[t] = Named \cup names
    BY <1>5 DEF EventStruct, TradeEvent, Struct, Named, Index
  <2>3. CompactFields[t] = Lead \o own
    BY <1>5 DEF CompactFields
  <2> HIDE DEF own, names
  <2> QED
    BY <1>1, <2>1, <2>2, <2>3, Joined
<1>6. CASE t = "Greeks"
  <2> DEFINE own == <<"delta", "gamma", "theta", "vega", "rho", "volatility">>
             names == {"delta", "gamma", "theta", "vega", "rho", "volatility"}
  <2>1. Lists(own, names)
    BY DEF Lists, Range
  <2>2. DOMAIN EventStruct[t] = Named \cup names
    BY <1>6 DEF EventStruct, GreeksEvent, Struct, Named, Index
  <2>3. CompactFields[t] = Lead \o own
    BY <1>6 DEF CompactFields
  <2> HIDE DEF own, names
  <2> QED
    BY <1>1, <2>1, <2>2, <2>3, Joined
<1>7. CASE t = "Summary"
  <2> DEFINE own == <<"dayId", "dayOpenPrice", "dayHighPrice", "dayLowPrice",
                      "dayClosePrice", "dayClosePriceType", "prevDayId",
                      "prevDayClosePrice", "prevDayClosePriceType", "prevDayVolume",
                      "openInterest">>
             names == {"dayId", "dayOpenPrice", "dayHighPrice", "dayLowPrice",
                       "dayClosePrice", "dayClosePriceType", "prevDayId",
                       "prevDayClosePrice", "prevDayClosePriceType",
                       "prevDayVolume", "openInterest"}
  <2>1. Lists(own, names)
    BY DEF Lists, Range
  <2>2. DOMAIN EventStruct[t] = TimedNames \cup names
    BY <1>7 DEF EventStruct, SummaryEvent, Struct, Named, Index, TimedNames
  <2>3. CompactFields[t] = Timed \o own
    BY <1>7 DEF CompactFields
  <2> HIDE DEF own, names
  <2> QED
    BY <1>2, <2>1, <2>2, <2>3, Joined
<1>8. CASE t = "Candle"
  <2> DEFINE own == <<"sequence", "count", "open", "high", "low", "close", "volume",
                      "VWAP", "bidVolume", "askVolume", "impVolatility",
                      "openInterest">>
             names == {"sequence", "count", "open", "high", "low", "close",
                       "volume", "VWAP", "bidVolume", "askVolume", "impVolatility",
                       "openInterest"}
  <2>1. Lists(own, names)
    BY DEF Lists, Range
  <2>2. DOMAIN EventStruct[t] = IndexedNames \cup names
    BY <1>8 DEF EventStruct, CandleEvent, Struct, Named, Index, TimedNames, IndexedNames
  <2>3. CompactFields[t] = Indexed \o own
    BY <1>8 DEF CompactFields
  <2> HIDE DEF own, names
  <2> QED
    BY <1>3, <2>1, <2>2, <2>3, Joined
<1>9. CASE t = "Profile"
  <2> DEFINE own == <<"description", "shortSaleRestriction", "tradingStatus",
                      "statusReason", "haltStartTime", "haltEndTime",
                      "highLimitPrice", "lowLimitPrice", "high52WeekPrice",
                      "low52WeekPrice", "beta", "earningsPerShare",
                      "dividendFrequency", "exDividendAmount", "exDividendDayId",
                      "shares", "freeFloat">>
             names == {"description", "shortSaleRestriction", "tradingStatus",
                       "statusReason", "haltStartTime", "haltEndTime",
                       "highLimitPrice", "lowLimitPrice", "high52WeekPrice",
                       "low52WeekPrice", "beta", "earningsPerShare",
                       "dividendFrequency", "exDividendAmount", "exDividendDayId",
                       "shares", "freeFloat"}
  <2>1. Lists(own, names)
    BY DEF Lists, Range
  <2>2. DOMAIN EventStruct[t] = TimedNames \cup names
    BY <1>9 DEF EventStruct, ProfileEvent, Struct, Named, Index, TimedNames
  <2>3. CompactFields[t] = Timed \o own
    BY <1>9 DEF CompactFields
  <2> HIDE DEF own, names
  <2> QED
    BY <1>2, <2>1, <2>2, <2>3, Joined
<1>10. CASE t = "Series"
  <2> DEFINE own == <<"sequence", "expiration", "volatility", "callVolume",
                      "putVolume", "putCallRatio", "forwardPrice", "dividend",
                      "interest">>
             names == {"sequence", "expiration", "volatility", "callVolume",
                       "putVolume", "putCallRatio", "forwardPrice", "dividend",
                       "interest"}
  <2>1. Lists(own, names)
    BY DEF Lists, Range
  <2>2. DOMAIN EventStruct[t] = IndexedNames \cup names
    BY <1>10 DEF EventStruct, SeriesEvent, Struct, Named, Index, TimedNames, IndexedNames
  <2>3. CompactFields[t] = Indexed \o own
    BY <1>10 DEF CompactFields
  <2> HIDE DEF own, names
  <2> QED
    BY <1>3, <2>1, <2>2, <2>3, Joined
<1>11. CASE t = "TradeETH"
  <2> DEFINE own == <<"time", "timeNanoPart", "sequence", "exchangeCode", "price",
                      "change", "size", "dayId", "dayVolume", "dayTurnover",
                      "tickDirection", "extendedTradingHours">>
             names == {"time", "timeNanoPart", "sequence", "exchangeCode", "price",
                       "change", "size", "dayId", "dayVolume", "dayTurnover",
                       "tickDirection", "extendedTradingHours"}
  <2>1. Lists(own, names)
    BY DEF Lists, Range
  <2>2. DOMAIN EventStruct[t] = TimedNames \cup names
    BY <1>11 DEF EventStruct, TradeETHEvent, Struct, Named, Index, TimedNames
  <2>3. CompactFields[t] = Timed \o own
    BY <1>11 DEF CompactFields
  <2> HIDE DEF own, names
  <2> QED
    BY <1>2, <2>1, <2>2, <2>3, Joined
<1>12. CASE t = "TimeAndSale"
  <2> DEFINE own == <<"timeNanoPart", "sequence", "exchangeCode", "price", "size",
                      "bidPrice", "askPrice", "exchangeSaleConditions",
                      "tradeThroughExempt", "aggressorSide", "spreadLeg",
                      "extendedTradingHours", "validTick", "type", "buyer",
                      "seller">>
             names == {"timeNanoPart", "sequence", "exchangeCode", "price", "size",
                       "bidPrice", "askPrice", "exchangeSaleConditions",
                       "tradeThroughExempt", "aggressorSide", "spreadLeg",
                       "extendedTradingHours", "validTick", "type", "buyer",
                       "seller"}
  <2>1. Lists(own, names)
    BY DEF Lists, Range
  <2>2. DOMAIN EventStruct[t] = IndexedNames \cup names
    BY <1>12 DEF EventStruct, TimeAndSaleEvent, Struct, Named, Index, TimedNames, IndexedNames
  <2>3. CompactFields[t] = Indexed \o own
    BY <1>12 DEF CompactFields
  <2> HIDE DEF own, names
  <2> QED
    BY <1>3, <2>1, <2>2, <2>3, Joined
<1>13. CASE t = "Underlying"
  <2> DEFINE own == <<"sequence", "volatility", "frontVolatility", "backVolatility",
                      "callVolume", "putVolume", "putCallRatio">>
             names == {"sequence", "volatility", "frontVolatility",
                       "backVolatility", "callVolume", "putVolume", "putCallRatio"}
  <2>1. Lists(own, names)
    BY DEF Lists, Range
  <2>2. DOMAIN EventStruct[t] = IndexedNames \cup names
    BY <1>13 DEF EventStruct, UnderlyingEvent, Struct, Named, Index, TimedNames, IndexedNames
  <2>3. CompactFields[t] = Indexed \o own
    BY <1>13 DEF CompactFields
  <2> HIDE DEF own, names
  <2> QED
    BY <1>3, <2>1, <2>2, <2>3, Joined
<1>14. CASE t = "TheoPrice"
  <2> DEFINE own == <<"sequence", "price", "underlyingPrice", "delta", "gamma",
                      "dividend", "interest">>
             names == {"sequence", "price", "underlyingPrice", "delta", "gamma",
                       "dividend", "interest"}
  <2>1. Lists(own, names)
    BY DEF Lists, Range
  <2>2. DOMAIN EventStruct[t] = IndexedNames \cup names
    BY <1>14 DEF EventStruct, TheoPriceEvent, Struct, Named, Index, TimedNames, IndexedNames
  <2>3. CompactFields[t] = Indexed \o own
    BY <1>14 DEF CompactFields
  <2> HIDE DEF own, names
  <2> QED
    BY <1>3, <2>1, <2>2, <2>3, Joined
<1> QED
  BY <1>4, <1>5, <1>6, <1>7, <1>8, <1>9, <1>10, <1>11, <1>12, <1>13, <1>14,
     DecodedTypes

-----------------------------------------------------------------------------
(* FULL JSON: the variants are told apart by a field each.                 *)

\* A field of the variant that no variant tried after it has.
Mark ==
    [Quote |-> "bidSize", TradeETH |-> "tickDirection", Trade |-> "dayVolume",
     Greeks |-> "rho", Summary |-> "dayId", Candle |-> "VWAP",
     TimeAndSale |-> "buyer", Profile |-> "beta", Underlying |-> "frontVolatility",
     Series |-> "expiration"]

\* A variant has its mark, and no variant tried later has it.
LEMMA Marks ==
    ASSUME NEW i \in DOMAIN MarketEvent, NEW j \in DOMAIN MarketEvent, i < j
    PROVE  /\ Mark[MarketEvent[i]] \in DOMAIN EventStruct[MarketEvent[i]]
           /\ Mark[MarketEvent[i]] \notin DOMAIN EventStruct[MarketEvent[j]]
<1> USE DEF MarketEvent, Mark, EventStruct, Struct, Named, Index
<1>1. i # 11 /\ j # 1 /\ i \in 1..11 /\ j \in 1..11
  OBVIOUS
<1>2. i = 1 => Mark[MarketEvent[i]] \in DOMAIN EventStruct[MarketEvent[i]]
  BY DEF QuoteEvent
<1>3. i = 2 => Mark[MarketEvent[i]] \in DOMAIN EventStruct[MarketEvent[i]]
  BY DEF TradeETHEvent
<1>4. i = 3 => Mark[MarketEvent[i]] \in DOMAIN EventStruct[MarketEvent[i]]
  BY DEF TradeEvent
<1>5. i = 4 => Mark[MarketEvent[i]] \in DOMAIN EventStruct[MarketEvent[i]]
  BY DEF GreeksEvent
<1>6. i = 5 => Mark[MarketEvent[i]] \in DOMAIN EventStruct[MarketEvent[i]]
  BY DEF SummaryEvent
<1>7. i = 6 => Mark[MarketEvent[i]] \in DOMAIN EventStruct[MarketEvent[i]]
  BY DEF CandleEvent
<1>8. i = 7 => Mark[MarketEvent[i]] \in DOMAIN EventStruct[MarketEvent[i]]
  BY DEF TimeAndSaleEvent
<1>9. i = 8 => Mark[MarketEvent[i]] \in DOMAIN EventStruct[MarketEvent[i]]
  BY DEF ProfileEvent
<1>10. i = 9 => Mark[MarketEvent[i]] \in DOMAIN EventStruct[MarketEvent[i]]
  BY DEF UnderlyingEvent
<1>11. i = 10 => Mark[MarketEvent[i]] \in DOMAIN EventStruct[MarketEvent[i]]
  BY DEF SeriesEvent
<1>12. Mark[MarketEvent[i]] \in DOMAIN EventStruct[MarketEvent[i]]
  BY <1>1, <1>2, <1>3, <1>4, <1>5, <1>6, <1>7, <1>8, <1>9, <1>10, <1>11
<1>13. j = 2 => Mark[MarketEvent[i]] \notin DOMAIN EventStruct[MarketEvent[j]]
  BY DEF TradeETHEvent
<1>14. j = 3 => Mark[MarketEvent[i]] \notin DOMAIN EventStruct[MarketEvent[j]]
  BY DEF TradeEvent
<1>15. j = 4 => Mark[MarketEvent[i]] \notin DOMAIN EventStruct[MarketEvent[j]]
  BY DEF GreeksEvent
<1>16. j = 5 => Mark[MarketEvent[i]] \notin DOMAIN EventStruct[MarketEvent[j]]
  BY DEF SummaryEvent
<1>17. j = 6 => Mark[MarketEvent[i]] \notin DOMAIN EventStruct[MarketEvent[j]]
  BY DEF CandleEvent
<1>18. j = 7 => Mark[MarketEvent[i]] \notin DOMAIN EventStruct[MarketEvent[j]]
  BY DEF TimeAndSaleEvent
<1>19. j = 8 => Mark[MarketEvent[i]] \notin DOMAIN EventStruct[MarketEvent[j]]
  BY DEF ProfileEvent
<1>20. j = 9 => Mark[MarketEvent[i]] \notin DOMAIN EventStruct[MarketEvent[j]]
  BY DEF UnderlyingEvent
<1>21. j = 10 => Mark[MarketEvent[i]] \notin DOMAIN EventStruct[MarketEvent[j]]
  BY DEF SeriesEvent
<1>22. j = 11 => Mark[MarketEvent[i]] \notin DOMAIN EventStruct[MarketEvent[j]]
  BY DEF TheoPriceEvent
<1>24. Mark[MarketEvent[i]] \notin DOMAIN EventStruct[MarketEvent[j]]
  BY <1>1, <1>13, <1>14, <1>15, <1>16, <1>17, <1>18, <1>19, <1>20, <1>21, <1>22
<1> QED
  BY <1>12, <1>24

\* Every decoded type is a variant, and the other way round.
LEMMA Variants ==
    /\ DOMAIN MarketEvent = 1..11
    /\ \A i \in 1..11 : MarketEvent[i] \in Decoded
    /\ \A t \in Decoded : \E i \in 1..11 : MarketEvent[i] = t
BY DecodedTypes DEF MarketEvent

\* What is written for a field of some kind can be read for that kind.
LEMMA WrittenIsReadable ==
    ASSUME NEW v, v.kind \in {"text", "int", "double", "flag"}
    PROVE  /\ Written(v).json \in Readable[v.kind]
           /\ Written(v).is = v.is /\ Written(v).of = v.of
BY DEF Written, Json, Readable

\* Every field of a struct is of one of the four kinds.
LEMMA StructKinds ==
    ASSUME NEW t \in Decoded, NEW f \in DOMAIN EventStruct[t]
    PROVE  EventStruct[t][f] \in {"text", "int", "double", "flag"}
<1>1. \E T, I, D, F : EventStruct[t] = Struct(T, I, D, F)
  BY DecodedTypes
  DEF EventStruct, QuoteEvent, TradeEvent, GreeksEvent, CandleEvent, SummaryEvent,
      ProfileEvent, TimeAndSaleEvent, SeriesEvent, TradeETHEvent, UnderlyingEvent,
      TheoPriceEvent
<1> QED
  BY <1>1 DEF Struct

\* An event that has a value for every field comes back from FULL JSON.
LEMMA BackFromFull ==
    ASSUME NEW e, Filled(e)
    PROVE  FromFull(ToFull(e)) = [type |-> e.type, values |-> e.values]
<1> DEFINE fields == EventStruct[e.type]
           object == ToFull(e)
           fit == {i \in DOMAIN MarketEvent : Fits(object, MarketEvent[i])}
<1>1. e.type \in Decoded /\ DOMAIN e.values = DOMAIN fields
  BY DEF Filled
<1>2. \A f \in DOMAIN fields :
        e.values[f] = [kind |-> fields[f], is |-> e.values[f].is, of |-> e.values[f].of]
  BY DEF Filled
<1>3. DOMAIN object = DOMAIN fields
      /\ \A f \in DOMAIN fields : object[f] = Written(e.values[f])
  BY <1>1 DEF ToFull
<1>4. ASSUME NEW f \in DOMAIN fields
      PROVE  /\ object[f].json \in Readable[fields[f]]
             /\ Value(fields[f], object[f]) = e.values[f]
  <2>1. e.values[f].kind = fields[f]
    <3>1. PICK s, o : e.values[f] = [kind |-> fields[f], is |-> s, of |-> o]
      BY <1>2, <1>4, Zenon
    <3> HIDE DEF fields
    <3> QED
      BY <3>1
  <2>2. fields[f] \in {"text", "int", "double", "flag"}
    BY <1>1, <1>4, StructKinds
  <2>3. /\ Written(e.values[f]).json \in Readable[fields[f]]
        /\ Written(e.values[f]).is = e.values[f].is
        /\ Written(e.values[f]).of = e.values[f].of
    BY <2>1, <2>2, WrittenIsReadable
  <2>4. object[f] = Written(e.values[f])
    BY <1>3, <1>4
  <2> HIDE DEF object, fields
  <2> QED
    BY <1>2, <1>4, <2>3, <2>4 DEF Value
<1>5. PICK j \in 1..11 : MarketEvent[j] = e.type
  BY <1>1, Variants
<1>6. j \in fit
  BY <1>3, <1>4, <1>5, Variants DEF Fits
<1>7. \A i \in fit : j <= i
  <2> SUFFICES ASSUME NEW i \in fit, i < j PROVE FALSE
    BY <1>5, Variants
  <2>1. Mark[MarketEvent[i]] \in DOMAIN EventStruct[MarketEvent[i]]
        /\ Mark[MarketEvent[i]] \notin DOMAIN fields
    BY <1>5, Marks, Variants
  <2> QED
    BY <1>3, <2>1 DEF Fits
<1>8. fit # {} /\ (CHOOSE i \in fit : \A k \in fit : i <= k) = j
  <2>1. fit \subseteq Nat
    BY Variants
  <2> HIDE DEF fit
  <2>2. \A i \in fit : (\A k \in fit : i <= k) => i = j
    BY <1>6, <1>7, <2>1
  <2> QED
    BY <1>6, <1>7, <2>2
<1>9. FromFull(object) =
        [type |-> MarketEvent[j],
         values |-> [f \in DOMAIN EventStruct[MarketEvent[j]] |->
                       Value(EventStruct[MarketEvent[j]][f], object[f])]]
  <2> DEFINE read(t) == [type |-> t,
                         values |-> [f \in DOMAIN EventStruct[t] |->
                                       Value(EventStruct[t][f], object[f])]]
  <2>1. FromFull(object) =
          IF fit = {} THEN NoEvent
          ELSE read(MarketEvent[CHOOSE i \in fit : \A k \in fit : i <= k])
    <3> HIDE DEF object
    <3> QED
      BY Zenon DEF FromFull
  <2> HIDE DEF object, fit, read
  <2>2. FromFull(object) = read(MarketEvent[j])
    BY <1>8, <2>1
  <2> QED
    BY <2>2 DEF read
<1>10. [f \in DOMAIN fields |-> Value(fields[f], object[f])] = e.values
  <2> HIDE DEF object, fields
  <2>1. e.values = [f \in DOMAIN fields |-> e.values[f]]
    BY <1>1, <1>2 DEF Filled, fields
  <2> QED
    BY <1>4, <2>1
<1> QED
  BY <1>5, <1>9, <1>10

-----------------------------------------------------------------------------
(* The first column of a name.                                             *)

Less == {ss \in Nat \X Nat : ss[1] < ss[2]}

\* A set of numbers has a least one.
LEMMA LeastNumber ==
    ASSUME NEW S, S \subseteq Nat, S # {}
    PROVE  \E m \in S : \A k \in S : m <= k
<1>1. IsWellFoundedOn(Less, Nat)
  BY NatLessThanWellFounded, Zenon DEF OpToRel, Less
<1>2. \E m \in S : \A k \in S : ~ (<<k, m>> \in Less)
  BY <1>1, WFMin, Zenon
<1>3. \A k, m \in Nat : <<k, m>> \notin Less => m <= k
  BY DEF Less
<1> QED
  BY <1>2, <1>3

\* The cells of a group make a whole number of rows.
LEMMA Quotient ==
    ASSUME NEW a \in Nat, NEW b \in Nat \ {0}
    PROVE  a \div b \in Nat
OBVIOUS

\* A group that can be read is of a decoded type, and it has columns.
LEMMA GroupColumns ==
    ASSUME Batch, NEW i \in DOMAIN data, GroupReads(i)
    PROVE  /\ data[i].name \in Decoded
           /\ Len(Columns(data[i].name)) \in Nat \ {0}
           /\ DOMAIN Columns(data[i].name) = 1..Len(Columns(data[i].name))
           /\ RowsUnder(i) \in Nat
           /\ i \in Nat /\ i + 1 \in DOMAIN data /\ i + 2 <= Len(data) + 1
<1>1. data[i].name \in Decoded
  BY DEF GroupReads
<1>2. PICK S : Columns(data[i].name) \in Seq(S)
  BY <1>1, ColumnsAreFields DEF GroupReads, HasLayout, Columns, Batch, Lists
<1>3. /\ Len(Columns(data[i].name)) \in Nat \ {0}
      /\ DOMAIN Columns(data[i].name) = 1..Len(Columns(data[i].name))
  BY <1>2, LenProperties DEF GroupReads
<1>4. i \in Nat /\ i + 1 \in DOMAIN data /\ i + 2 <= Len(data) + 1
  BY LenProperties DEF GroupReads, Batch
<1>5. data[i + 1].cells \in Seq(Cells)
  <2>1. data[i + 1] \in Items
    BY <1>4, ElementOfSeq, LenProperties DEF Batch
  <2> QED
    BY <2>1 DEF Items
<1>6. RowsUnder(i) \in Nat
  <2>1. Len(data[i + 1].cells) \in Nat
    BY <1>5, LenProperties
  <2> QED
    BY <1>3, <2>1, Quotient DEF RowsUnder
<1> QED
  BY <1>1, <1>3, <1>4, <1>6

\* Row::value reads the first column of a name, in the row's own cells.
LEMMA FirstColumn ==
    ASSUME IInv, index # 1, NEW f, HasColumn(f)
    PROVE  /\ FirstNamed(index - 2, f, ColumnOf(f))
           /\ Cell(f) = CellUnder(index - 2, row, ColumnOf(f))
<1> DEFINE S == {c \in DOMAIN Fields : Fields[c] = f}
<1>1. index - 2 \in DOMAIN data /\ GroupReads(index - 2) /\ index \in Nat
  BY DEF IInv, Place, HeadersRead
<1>2. DOMAIN Fields = 1..Len(Fields) /\ Len(Fields) \in Nat
  BY <1>1, GroupColumns DEF IInv, Fields, Header
<1>3. S \subseteq Nat /\ S # {}
  BY <1>2 DEF HasColumn
<1>4. PICK m \in S : \A k \in S : m <= k
  <2> HIDE DEF S
  <2> QED BY <1>3, LeastNumber
<1>5. m \in DOMAIN Fields /\ Fields[m] = f /\ \A d \in 1..(m - 1) : Fields[d] # f
  BY <1>2, <1>4
<1>6. /\ ColumnOf(f) \in DOMAIN Fields /\ Fields[ColumnOf(f)] = f
      /\ \A d \in 1..(ColumnOf(f) - 1) : Fields[d] # f
  BY <1>5 DEF ColumnOf
<1>7. FirstNamed(index - 2, f, ColumnOf(f))
  BY <1>2, <1>6 DEF FirstNamed, ColumnsNamed, Fields, Header
<1>8. index - 2 + 1 = index - 1
  BY <1>1
<1> QED
  BY <1>7, <1>8 DEF Cell, CellUnder, Fields, Header

\* A name is a column of the open group or it is not.
LEMMA NamedOrNot ==
    ASSUME NEW f
    PROVE  HasColumn(f) <=> ColumnsNamed(index - 2, f) # {}
BY DEF HasColumn, ColumnsNamed, Fields, Header

-----------------------------------------------------------------------------
(* Steps.                                                                  *)

\* What is said of the batch does not depend on how far it was read.
LEMMA BatchIsFixed ==
    ASSUME data' = data, layout' = layout
    PROVE  /\ \A i : RowsUnder(i)' = RowsUnder(i)
           /\ \A i : GroupReads(i)' <=> GroupReads(i)
           /\ \A i, r : RowFits(i, r)' <=> RowFits(i, r)
           /\ \A i : WellFormed(i)' <=> WellFormed(i)
           /\ \A e : InPlace(e)' <=> InPlace(e)
           /\ Batch' <=> Batch
<1>1. \A i : Columns(data[i].name)' = Columns(data[i].name)
  BY DEF Columns
<1>2. /\ \A i, f : ColumnsNamed(i, f)' = ColumnsNamed(i, f)
      /\ \A i : RowsUnder(i)' = RowsUnder(i)
      /\ \A i, r, c : CellUnder(i, r, c)' = CellUnder(i, r, c)
  BY <1>1 DEF ColumnsNamed, RowsUnder, CellUnder, Columns
<1>3. \A i, f, c : FirstNamed(i, f, c)' <=> FirstNamed(i, f, c)
  BY <1>2 DEF FirstNamed
<1>4. \A i : GroupReads(i)' <=> GroupReads(i)
  BY <1>1 DEF GroupReads, HasLayout, Columns
<1>5. \A i, r : RowFits(i, r)' <=> RowFits(i, r)
  BY <1>2, <1>3 DEF RowFits
<1>6. \A e : InPlace(e)' <=> InPlace(e)
  BY <1>2, <1>3 DEF InPlace
<1>7. \A i : WellFormed(i)' <=> WellFormed(i)
  BY <1>2, <1>4, <1>5 DEF WellFormed
<1> QED
  BY <1>2, <1>4, <1>5, <1>6, <1>7 DEF Batch

\* A row the decoder reads is a row that fits, and no other.
LEMMA ReadsWhatFits ==
    ASSUME IInv, index # 1
    PROVE  RowReads <=> RowFits(index - 2, row)
<1> DEFINE h == index - 2
<1>1. h \in DOMAIN data /\ GroupReads(h) /\ h \in Nat
  BY DEF IInv, Place, HeadersRead
<1>2. Header \in Decoded /\ Header = data[h].name
  BY <1>1, GroupColumns DEF IInv, Header
<1>3. /\ BuildEvent[Header] = EventStruct[Header]
      /\ "eventType" \in DOMAIN EventStruct[Header]
      /\ EventStruct[Header]["eventType"] = "text"
      /\ "eventSymbol" \in DOMAIN EventStruct[Header]
      /\ EventStruct[Header]["eventSymbol"] = "text"
  BY <1>2, Tables DEF Named
<1>4. \A f : HasColumn(f) => /\ FirstNamed(h, f, ColumnOf(f))
                             /\ Cell(f) = CellUnder(h, row, ColumnOf(f))
  BY FirstColumn
<1>5. \A f : HasColumn(f) <=> ColumnsNamed(h, f) # {}
  BY NamedOrNot
<1>6. \A f, c : FirstNamed(h, f, c) => HasColumn(f) /\ c = ColumnOf(f)
  <2> SUFFICES ASSUME NEW f, NEW c, FirstNamed(h, f, c)
               PROVE  HasColumn(f) /\ c = ColumnOf(f)
    OBVIOUS
  <2>1. HasColumn(f)
    BY <1>5 DEF FirstNamed
  <2>2. c <= ColumnOf(f) /\ ColumnOf(f) <= c
    BY <1>4, <2>1 DEF FirstNamed
  <2>3. c \in Nat /\ ColumnOf(f) \in Nat
    BY <1>1, <1>4, <2>1, GroupColumns DEF FirstNamed, ColumnsNamed, IInv
  <2> QED
    BY <2>1, <2>2, <2>3
<1>7. ASSUME RowReads PROVE RowFits(h, row)
  BY <1>2, <1>3, <1>4, <1>5, <1>6, <1>7
  DEF RowReads, RowFits, ReadsRequired, ReadsOptional
<1>8. ASSUME RowFits(h, row) PROVE RowReads
  <2>1. \A f \in DOMAIN EventStruct[Header] : HasColumn(f) =>
            /\ Cell(f).json \in Readable[EventStruct[Header][f]]
            /\ f = "eventType" => Cell(f).is = Header
    BY <1>2, <1>4, <1>8 DEF RowFits, FirstNamed
  <2>2. HasColumn("eventType") /\ HasColumn("eventSymbol")
    BY <1>5, <1>8 DEF RowFits
  <2> QED
    BY <1>3, <2>1, <2>2 DEF RowReads, ReadsRequired, ReadsOptional
<1> QED
  BY <1>7, <1>8

\* An event read from a row has a value for every field of its struct.
LEMMA ReadIsFilled ==
    ASSUME IInv, index # 1
    PROVE  Filled(EventRead)
<1> DEFINE e == EventRead
           fields == EventStruct[Header]
<1>1. Header \in Decoded
  BY GroupColumns DEF IInv, Place, HeadersRead, Header
<1>2. e.type = Header /\ BuildEvent[Header] = fields
  BY <1>1, Tables DEF EventRead
<1>3. e.values = [f \in DOMAIN fields |-> e.values[f]]
  BY <1>2 DEF EventRead
<1>4. ASSUME NEW f \in DOMAIN fields
      PROVE  e.values[f] = [kind |-> fields[f], is |-> e.values[f].is,
                            of |-> e.values[f].of]
  <2>1. PICK cell : e.values[f] = Value(fields[f], cell)
    <3>1. e.values[f] = IF HasColumn(f) THEN Value(fields[f], Cell(f))
                        ELSE Value(fields[f], Json("", Default[fields[f]], 0))
      BY <1>2 DEF EventRead
    <3> QED
      BY <3>1
  <2> HIDE DEF e, fields
  <2> QED
    BY <2>1 DEF Value
<1> HIDE DEF e
<1>5. e.values = [f \in DOMAIN fields |-> [kind |-> fields[f], is |-> e.values[f].is,
                                          of |-> e.values[f].of]]
  <2> HIDE DEF fields
  <2> QED
    BY <1>3, <1>4
<1> QED
  BY <1>1, <1>2, <1>5 DEF Filled, e

\* An event read from a row is what the row says.
LEMMA ReadInPlace ==
    ASSUME IInv, index # 1
    PROVE  InPlace(EventRead)
<1> DEFINE e == EventRead
           h == index - 2
<1>1. e.type = Header /\ e.from[1] = h /\ e.from[2] = row /\ Header = data[h].name
  BY DEF EventRead, Header
<1>2. \A f \in DOMAIN BuildEvent[Header] :
        e.values[f] = IF HasColumn(f) THEN Value(BuildEvent[Header][f], Cell(f))
                      ELSE Value(BuildEvent[Header][f],
                                 Json("", Default[BuildEvent[Header][f]], 0))
  BY DEF EventRead
<1>3. ASSUME NEW f \in DOMAIN BuildEvent[Header], HasColumn(f)
      PROVE  /\ FirstNamed(h, f, ColumnOf(f))
             /\ e.values[f].is = CellUnder(h, row, ColumnOf(f)).is
             /\ e.values[f].of = CellUnder(h, row, ColumnOf(f)).of
  <2>1. e.values[f] = Value(BuildEvent[Header][f], Cell(f))
    BY <1>2, <1>3
  <2>2. e.values[f].is = Cell(f).is /\ e.values[f].of = Cell(f).of
    <3> HIDE DEF e
    <3> QED
      BY <2>1 DEF Value
  <2>3. FirstNamed(h, f, ColumnOf(f)) /\ Cell(f) = CellUnder(h, row, ColumnOf(f))
    BY <1>3, FirstColumn
  <2> HIDE DEF e
  <2> QED
    BY <2>2, <2>3
<1>4. ASSUME NEW f \in DOMAIN BuildEvent[Header], ~ HasColumn(f)
      PROVE  /\ ColumnsNamed(h, f) = {}
             /\ e.values[f].is = Default[BuildEvent[Header][f]]
  <2>1. ColumnsNamed(h, f) = {}
    BY <1>4, NamedOrNot
  <2>2. e.values[f] = Value(BuildEvent[Header][f],
                            Json("", Default[BuildEvent[Header][f]], 0))
    BY <1>2, <1>4
  <2> HIDE DEF e
  <2>3. e.values[f].is = Default[BuildEvent[Header][f]]
    BY <2>2 DEF Value, Json
  <2> QED
    BY <2>1, <2>3
<1> HIDE DEF e
<1> QED
  BY <1>1, <1>3, <1>4 DEF InPlace, FirstNamed, e

\* An empty list of events, and nothing read.
LEMMA InitIInv == Init => IInv
<1> SUFFICES ASSUME Init PROVE IInv
  OBVIOUS
<1>1. Batch
  BY InputsAssumption DEF Init, Batch
<1>2. Len(data) \in Nat /\ DOMAIN data = 1..Len(data)
  BY <1>1, LenProperties DEF Batch
<1>3. HeadersRead = {}
  BY <1>2 DEF Init, HeadersRead
<1>4. Place
  BY <1>2, <1>3 DEF Init, Place
<1>5. DOMAIN events = {} /\ \E S : events \in Seq(S)
  BY EmptySeq, LenProperties DEF Init
<1>6. Rows /\ ValuesInPlace /\ EventsAreFilled
  BY <1>3, <1>5 DEF Rows, Passed, ValuesInPlace, EventsAreFilled
<1>7. Results
  BY DEF Init, Results
<1> QED
  BY <1>1, <1>4, <1>5, <1>6, <1>7 DEF IInv

\* The next group is opened: every row under an earlier header was passed.
LEMMA OpenGroupKeepsIInv == IInv /\ OpenGroup => IInv'
<1> SUFFICES ASSUME IInv, OpenGroup PROVE IInv'
  OBVIOUS
<1>1. UNCHANGED <<data, layout, events, result>> /\ row = rows
  BY DEF OpenGroup, GroupDone
<1>2. /\ index \in DOMAIN data /\ GroupReads(index) /\ index % 2 = 1
      /\ index \in Nat /\ 1 <= index
  BY DEF OpenGroup, IInv, Place
<1>3. /\ index' = index + 2 /\ row' = 0 /\ rows' = RowsUnder(index)
      /\ index + 2 <= Len(data) + 1 /\ rows' \in Nat
  BY <1>2, GroupColumns DEF OpenGroup, RowsUnder, IInv
<1>d. DOMAIN data \subseteq Nat
  BY LenProperties DEF IInv, Batch
<1>4. HeadersRead' = HeadersRead \cup {index}
  <2>1. \A i \in Nat : i % 2 = 1 /\ i < index + 2 => i <= index
    BY <1>2
  <2> QED
    BY <1>1, <1>2, <1>3, <1>d, <2>1 DEF HeadersRead
<1>5. \A i, r : Passed(i, r)' <=> Passed(i, r)
  <2> SUFFICES ASSUME NEW i, NEW r PROVE Passed(i, r)' <=> Passed(i, r)
    OBVIOUS
  <2>1. RowsUnder(i)' = RowsUnder(i)
    BY <1>1, BatchIsFixed
  <2>2. ASSUME Passed(i, r)' PROVE Passed(i, r)
    <3>1. i \in HeadersRead \cup {index} /\ r \in 0..(RowsUnder(i) - 1)
          /\ (i < index \/ r < 0)
      BY <1>2, <1>3, <1>4, <2>1, <2>2 DEF Passed
    <3>2. i < index /\ i \in HeadersRead
      BY <1>2, <3>1
    <3>3. i % 2 = 1 /\ i \in Nat
      BY <1>d, <3>2 DEF HeadersRead
    <3>4. i < index - 2 \/ i = index - 2
      BY <1>2, <3>2, <3>3
    <3>5. CASE i = index - 2
      <4>1. index # 1
        BY <3>3, <3>5
      <4>2. rows = RowsUnder(i) /\ rows \in Nat
        BY <3>5, <4>1 DEF IInv, Place
      <4> QED
        BY <1>1, <3>1, <3>2, <4>2 DEF Passed
    <3> QED
      BY <3>1, <3>2, <3>4, <3>5 DEF Passed
  <2>3. ASSUME Passed(i, r) PROVE Passed(i, r)'
    <3>1. i \in HeadersRead /\ r \in 0..(RowsUnder(i) - 1)
      BY <2>3 DEF Passed
    <3>2. i < index
      BY <3>1 DEF HeadersRead
    <3> QED
      BY <1>2, <1>3, <1>4, <2>1, <3>1, <3>2 DEF Passed
  <2> QED
    BY <2>2, <2>3
<1>6. Place'
  <2>1. \A i \in HeadersRead' : GroupReads(i)'
    BY <1>1, <1>2, <1>4, BatchIsFixed DEF IInv, Place
  <2>2. index' - 2 \in HeadersRead' /\ rows' = RowsUnder(index - 2)'
    <3>1. index' - 2 = index
      BY <1>2, <1>3
    <3> QED
      BY <1>1, <1>3, <1>4, <3>1, BatchIsFixed
  <2> QED
    BY <1>1, <1>2, <1>3, <2>1, <2>2 DEF Place
<1>7. Rows'
  BY <1>1, <1>5, BatchIsFixed DEF Rows, IInv
<1>8. ValuesInPlace' /\ EventsAreFilled'
  BY <1>1, BatchIsFixed DEF ValuesInPlace, EventsAreFilled, IInv
<1>9. Results'
  BY <1>1, BatchIsFixed DEF Results, OpenGroup, IInv
<1> QED
  BY <1>1, <1>6, <1>7, <1>8, <1>9, BatchIsFixed DEF IInv

\* A row is read: the event stands behind those of the rows before it.
LEMMA ReadRowKeepsIInv == IInv /\ ReadRow => IInv'
<1> SUFFICES ASSUME IInv, ReadRow PROVE IInv'
  OBVIOUS
<1> DEFINE e == EventRead
           h == index - 2
<1>1. /\ UNCHANGED <<data, layout, index, rows, result>>
      /\ row' = row + 1 /\ row # rows /\ events' = Append(events, e)
      /\ RowReads /\ result = "reading"
  BY DEF ReadRow, GroupDone
<1>2. row \in Nat /\ rows \in Nat /\ row < rows /\ index # 1
  BY <1>1 DEF IInv, Place
<1>3. /\ h \in HeadersRead /\ rows = RowsUnder(h) /\ h \in DOMAIN data
      /\ GroupReads(h) /\ h \in Nat /\ index \in Nat
  BY <1>2, LenProperties DEF IInv, Place, HeadersRead, Batch
<1>4. RowFits(h, row)
  BY <1>1, <1>2, ReadsWhatFits
<1>5. InPlace(e) /\ Filled(e)
  BY <1>2, ReadInPlace, ReadIsFilled
<1>6. e.from = <<h, row>> /\ e.type \in Decoded
  <2>1. e.from = <<h, row>> /\ e.type = Header
    BY DEF EventRead
  <2>2. Header \in Decoded
    BY <1>3, GroupColumns DEF Header, IInv
  <2> QED
    BY <2>1, <2>2
<1> HIDE DEF e
<1>7. /\ Len(events) \in Nat /\ DOMAIN events = 1..Len(events)
      /\ DOMAIN events' = 1..(Len(events) + 1)
      /\ events'[Len(events) + 1] = e
      /\ \A n \in DOMAIN events : events'[n] = events[n]
      /\ \E S : events' \in Seq(S)
  <2>1. PICK S : events \in Seq(S)
    BY DEF IInv
  <2>2. events \in Seq(S \cup {e})
    BY <2>1, SeqMonotonic
  <2>3. /\ Append(events, e) \in Seq(S \cup {e})
        /\ Len(Append(events, e)) = Len(events) + 1
        /\ \A n \in 1..Len(events) : Append(events, e)[n] = events[n]
        /\ Append(events, e)[Len(events) + 1] = e
    BY <2>2, AppendProperties
  <2>4. DOMAIN events = 1..Len(events) /\ Len(events) \in Nat
        /\ DOMAIN Append(events, e) = 1..Len(Append(events, e))
    BY <2>2, <2>3, LenProperties
  <2> QED
    BY <1>1, <2>3, <2>4
<1>8. \A i, r : Passed(i, r)' <=> Passed(i, r) \/ (i = h /\ r = row)
  <2> SUFFICES ASSUME NEW i, NEW r
               PROVE  Passed(i, r)' <=> Passed(i, r) \/ (i = h /\ r = row)
    OBVIOUS
  <2>1. HeadersRead' = HeadersRead /\ RowsUnder(i)' = RowsUnder(i)
    BY <1>1, BatchIsFixed DEF HeadersRead
  <2>2. \A j \in HeadersRead : j \in Nat /\ j <= h
    <3> SUFFICES ASSUME NEW j \in HeadersRead PROVE j \in Nat /\ j <= h
      OBVIOUS
    <3>1. j \in Nat /\ j < index /\ j % 2 = 1 /\ index % 2 = 1
      BY LenProperties DEF HeadersRead, IInv, Place, Batch
    <3> QED
      BY <1>3, <3>1
  <2>3. RowsUnder(h) \in Nat
    BY <1>2, <1>3
  <2> QED
    BY <1>1, <1>2, <1>3, <2>1, <2>2, <2>3 DEF Passed
<1>9. ~ Passed(h, row)
  BY <1>2, <1>3 DEF Passed
<1>10. \A i, r : Passed(i, r) => Precedes(<<i, r>>, <<h, row>>)
  <2> SUFFICES ASSUME NEW i, NEW r, Passed(i, r)
               PROVE  Precedes(<<i, r>>, <<h, row>>)
    OBVIOUS
  <2>1. i \in Nat /\ i < index /\ i % 2 = 1 /\ index % 2 = 1
    BY LenProperties DEF Passed, HeadersRead, IInv, Place, Batch
  <2>2. i < h \/ i = h
    BY <1>3, <2>1
  <2>3. i = h => r < row
    BY <1>3 DEF Passed
  <2> QED
    BY <2>2, <2>3 DEF Precedes
<1>11. Place'
  <2>1. HeadersRead' = HeadersRead
    BY <1>1 DEF HeadersRead
  <2>2. rows' = RowsUnder(index - 2)'
    BY <1>1, <1>3, BatchIsFixed
  <2>3. \A i \in HeadersRead : GroupReads(i)'
    BY <1>1, BatchIsFixed DEF IInv, Place
  <2> QED
    BY <1>1, <1>2, <1>3, <2>1, <2>2, <2>3 DEF IInv, Place
<1>12. Rows'
  <2>1. \A i, r : Passed(i, r)' => RowFits(i, r)'
    BY <1>1, <1>4, <1>8, BatchIsFixed DEF IInv, Rows
  <2>2. \A i, r : Passed(i, r)' => \E n \in DOMAIN events' : events'[n].from = <<i, r>>
    <3> SUFFICES ASSUME NEW i, NEW r, Passed(i, r)'
                 PROVE  \E n \in DOMAIN events' : events'[n].from = <<i, r>>
      OBVIOUS
    <3>1. CASE i = h /\ r = row
      BY <1>6, <1>7, <3>1
    <3>2. CASE Passed(i, r)
      <4>1. PICK n \in DOMAIN events : events[n].from = <<i, r>>
        BY <3>2 DEF IInv, Rows
      <4>2. n \in DOMAIN events' /\ events'[n] = events[n]
        BY <1>7
      <4> QED
        BY <4>1, <4>2
    <3> QED
      BY <1>8, <3>1, <3>2
  <2>3. \A n \in DOMAIN events' : /\ events'[n].type \in Decoded
                                  /\ \E i, r : Passed(i, r)' /\ events'[n].from = <<i, r>>
    <3> SUFFICES ASSUME NEW n \in DOMAIN events'
                 PROVE  /\ events'[n].type \in Decoded
                        /\ \E i, r : Passed(i, r)' /\ events'[n].from = <<i, r>>
      OBVIOUS
    <3>1. CASE n = Len(events) + 1
      BY <1>6, <1>7, <1>8, <3>1
    <3>2. CASE n \in DOMAIN events
      <4>1. events'[n] = events[n]
        BY <1>7, <3>2
      <4> QED
        BY <1>8, <3>2, <4>1 DEF IInv, Rows
    <3> QED
      BY <1>7, <3>1, <3>2
  <2>4. \A m, n \in DOMAIN events' : m < n => Precedes(events'[m].from, events'[n].from)
    <3> SUFFICES ASSUME NEW m \in DOMAIN events', NEW n \in DOMAIN events', m < n
                 PROVE  Precedes(events'[m].from, events'[n].from)
      OBVIOUS
    <3>1. m \in DOMAIN events /\ events'[m] = events[m]
      BY <1>7
    <3>2. CASE n = Len(events) + 1
      <4>1. PICK i, r : Passed(i, r) /\ events[m].from = <<i, r>>
        BY <3>1 DEF IInv, Rows
      <4> QED
        BY <1>6, <1>7, <1>10, <3>1, <3>2, <4>1
    <3>3. CASE n \in DOMAIN events
      <4>1. events'[n] = events[n]
        BY <1>7, <3>3
      <4> QED
        BY <3>1, <3>3, <4>1 DEF IInv, Rows
    <3> QED
      BY <1>7, <3>2, <3>3
  <2>5. \A p, q : Precedes(p, q)' <=> Precedes(p, q)
    BY DEF Precedes
  <2> QED
    BY <2>1, <2>2, <2>3, <2>4, <2>5 DEF Rows, Precedes
<1>13. ValuesInPlace'
  <2> SUFFICES ASSUME NEW n \in DOMAIN events' PROVE InPlace(events'[n])
    BY <1>1, BatchIsFixed DEF ValuesInPlace
  <2>1. CASE n = Len(events) + 1
    BY <1>5, <1>7, <2>1
  <2>2. CASE n \in DOMAIN events
    BY <1>7, <2>2 DEF IInv, ValuesInPlace
  <2> QED
    BY <1>7, <2>1, <2>2
<1>14. EventsAreFilled'
  <2> SUFFICES ASSUME NEW n \in DOMAIN events' PROVE Filled(events'[n])
    BY DEF EventsAreFilled
  <2>1. CASE n = Len(events) + 1
    BY <1>5, <1>7, <2>1
  <2>2. CASE n \in DOMAIN events
    BY <1>7, <2>2 DEF IInv, EventsAreFilled
  <2> QED
    BY <1>7, <2>1, <2>2
<1>15. Results'
  BY <1>1 DEF Results
<1> QED
  BY <1>1, <1>7, <1>11, <1>12, <1>13, <1>14, <1>15, BatchIsFixed DEF IInv

\* A step that only gives a result says the truth about the batch.
LEMMA ResultKeepsIInv ==
    ASSUME IInv, UNCHANGED <<data, layout, index, row, rows, events>>, Results'
    PROVE  IInv'
<1>1. HeadersRead' = HeadersRead /\ \A i : RowsUnder(i)' = RowsUnder(i)
  BY BatchIsFixed DEF HeadersRead
<1>2. Place'
  BY <1>1, BatchIsFixed DEF IInv, Place
<1>3. \A i, r : Passed(i, r)' <=> Passed(i, r)
  BY <1>1 DEF Passed
<1>4. Rows' /\ ValuesInPlace' /\ EventsAreFilled'
  BY <1>3, BatchIsFixed DEF IInv, Rows, ValuesInPlace, EventsAreFilled
<1> QED
  BY <1>2, <1>4, BatchIsFixed DEF IInv

\* A group that cannot be read is refused.
LEMMA RefuseGroupKeepsIInv == IInv /\ RefuseGroup => IInv'
<1> SUFFICES ASSUME IInv, RefuseGroup PROVE IInv'
  OBVIOUS
<1>1. index \in DOMAIN data /\ index % 2 = 1 /\ ~ WellFormed(index)
  BY DEF IInv, Place, RefuseGroup, WellFormed
<1>2. Results'
  BY <1>1, BatchIsFixed DEF RefuseGroup, Results
<1> QED
  BY <1>2, ResultKeepsIInv DEF RefuseGroup

\* A row that cannot be read is refused.
LEMMA RefuseRowKeepsIInv == IInv /\ RefuseRow => IInv'
<1> SUFFICES ASSUME IInv, RefuseRow PROVE IInv'
  OBVIOUS
<1>1. row \in Nat /\ rows \in Nat /\ row < rows /\ index # 1
  BY DEF RefuseRow, GroupDone, IInv, Place
<1>2. /\ index - 2 \in DOMAIN data /\ (index - 2) % 2 = 1
      /\ rows = RowsUnder(index - 2)
  BY <1>1 DEF IInv, Place, HeadersRead
<1>3. ~ RowFits(index - 2, row)
  BY <1>1, ReadsWhatFits DEF RefuseRow
<1>4. ~ WellFormed(index - 2)
  BY <1>1, <1>2, <1>3 DEF WellFormed
<1>5. Results'
  BY <1>2, <1>4, BatchIsFixed DEF RefuseRow, Results
<1> QED
  BY <1>5, ResultKeepsIInv DEF RefuseRow

\* The end of the batch.
LEMMA FinishKeepsIInv == IInv /\ Finish => IInv'
<1> SUFFICES ASSUME IInv, Finish PROVE IInv'
  OBVIOUS
<1>1. index = Len(data) + 1 /\ row = rows
  <2>1. Len(data) \in Nat /\ DOMAIN data = 1..Len(data)
    BY LenProperties DEF IInv, Batch
  <2> QED
    BY <2>1 DEF Finish, GroupDone, IInv, Place
<1>2. Results'
  BY <1>1 DEF Finish, Results
<1> QED
  BY <1>2, ResultKeepsIInv DEF Finish

\* The invariant holds of every decoding.
LEMMA Invariance == Spec => []IInv
<1>1. IInv /\ [Next]_vars => IInv'
  <2> SUFFICES ASSUME IInv, [Next]_vars PROVE IInv'
    OBVIOUS
  <2>1. CASE UNCHANGED vars
    <3>1. Results'
      BY <2>1, BatchIsFixed DEF vars, IInv, Results
    <3> QED
      BY <2>1, <3>1, ResultKeepsIInv DEF vars
  <2> QED
    BY <2>1, OpenGroupKeepsIInv, RefuseGroupKeepsIInv, ReadRowKeepsIInv,
       RefuseRowKeepsIInv, FinishKeepsIInv DEF Next
<1> QED
  BY <1>1, InitIInv, PTL DEF Spec

-----------------------------------------------------------------------------
(* What follows from it.                                                   *)

\* The variables of `decode` have their types for every batch and layout.
THEOREM TypeCorrect == Spec => []TypeOK
<1>1. IInv => TypeOK
  <2> SUFFICES ASSUME IInv PROVE TypeOK
    OBVIOUS
  <2>1. Len(data) \in Nat
    BY LenProperties DEF IInv, Batch
  <2> QED
    BY <2>1 DEF IInv, Batch, Place, Rows, Results, TypeOK
<1> QED
  BY <1>1, Invariance, PTL

\* Whatever the batch and the layout, the events are the rows behind the place
\* reached: none lost, none twice, in order.
THEOREM EachRowOnce == Spec => []EveryRowInOrder
<1>1. IInv => EveryRowInOrder
  <2> SUFFICES ASSUME IInv PROVE EveryRowInOrder
    OBVIOUS
  <2>1. ASSUME NEW i \in HeadersRead, NEW r \in 0..(RowsUnder(i) - 1)
        PROVE  (i < index - 2 \/ r < row)
                 <=> \E n \in DOMAIN events : events[n].from = <<i, r>>
    <3>1. (i < index - 2 \/ r < row) <=> Passed(i, r)
      BY <2>1 DEF Passed
    <3>2. Passed(i, r) => \E n \in DOMAIN events : events[n].from = <<i, r>>
      BY DEF IInv, Rows
    <3>3. ASSUME NEW n \in DOMAIN events, events[n].from = <<i, r>>
          PROVE  Passed(i, r)
      <4>1. PICK j, s : Passed(j, s) /\ events[n].from = <<j, s>>
        BY DEF IInv, Rows
      <4>2. j = i /\ s = r
        BY <3>3, <4>1
      <4> QED
        BY <4>1, <4>2
    <3> QED
      BY <3>1, <3>2, <3>3
  <2> QED
    BY <2>1 DEF EveryRowInOrder, IInv, Rows
<1> QED
  BY <1>1, Invariance, PTL

\* Every field of every event is the cell of its own column in its own row.
THEOREM ReadByName == Spec => []ValuesInPlace
<1>1. IInv => ValuesInPlace
  BY DEF IInv
<1> QED
  BY <1>1, Invariance, PTL

\* A batch is decoded whole exactly when there is nothing wrong with it.
THEOREM ErrorsAreTrue == Spec => []RefusedIffMalformed
<1>1. IInv => RefusedIffMalformed
  <2> SUFFICES ASSUME IInv PROVE RefusedIffMalformed
    OBVIOUS
  <2>1. ASSUME result = "decoded", NEW i \in DOMAIN data, i % 2 = 1
        PROVE  WellFormed(i)
    <3>1. Len(data) \in Nat /\ DOMAIN data = 1..Len(data)
      BY LenProperties DEF IInv, Batch
    <3>2. index = Len(data) + 1 /\ row = rows /\ index % 2 = 1
      BY <2>1 DEF IInv, Results, Place
    <3>3. i \in HeadersRead /\ i <= index - 2
      BY <2>1, <3>1, <3>2 DEF HeadersRead
    <3>4. GroupReads(i) /\ (i = index - 2 => RowsUnder(i) = row)
      BY <3>1, <3>2, <3>3 DEF IInv, Place
    <3>5. ASSUME NEW r \in 0..(RowsUnder(i) - 1) PROVE Passed(i, r)
      <4>1. RowsUnder(i) \in Nat
        BY <3>4, GroupColumns DEF IInv
      <4>2. i < index - 2 \/ r < row
        BY <3>1, <3>2, <3>3, <3>4, <4>1
      <4> QED
        BY <3>3, <4>2 DEF Passed
    <3> QED
      BY <3>4, <3>5 DEF WellFormed, IInv, Rows
  <2> QED
    BY <2>1 DEF RefusedIffMalformed, IInv, Results
<1> QED
  BY <1>1, Invariance, PTL

\* A cell has its place among the cells of its group.
LEMMA CellPlace ==
    ASSUME NEW n \in Nat, NEW w \in Nat \ {0}, n % w = 0,
           NEW r \in 0..(n \div w - 1), NEW c \in 1..w
    PROVE  r * w + c \in 1..n
<1> DEFINE q == n \div w
<1>1. q \in Nat /\ n = q * w
  OBVIOUS
<1> HIDE DEF q
<1>2. r \in Nat /\ r + 1 <= q
  BY <1>1 DEF q
<1>3. PICK d \in Nat : q = r + 1 + d
  <2>1. q = r + 1 + (q - r - 1) /\ q - r - 1 \in Nat
    BY <1>1, <1>2
  <2> QED
    BY <2>1
<1>4. n = r * w + w + d * w
  BY <1>1, <1>2, <1>3
<1>5. d * w \in Nat /\ r * w \in Nat
  BY <1>2
<1> QED
  BY <1>4, <1>5

\* Whatever is read of a group was sent.
LEMMA CellsAreSent ==
    ASSUME Batch, NEW i \in DOMAIN data, GroupReads(i),
           NEW r \in 0..(RowsUnder(i) - 1), NEW c \in DOMAIN Columns(data[i].name)
    PROVE  CellUnder(i, r, c) \in Cells
<1> DEFINE cells == data[i + 1].cells
           width == Len(Columns(data[i].name))
<1>1. width \in Nat \ {0} /\ c \in 1..width /\ i + 1 \in DOMAIN data
  BY GroupColumns
<1>2. cells \in Seq(Cells)
  <2>1. data[i + 1] \in Items
    BY <1>1, ElementOfSeq, LenProperties DEF Batch
  <2> QED
    BY <2>1 DEF Items
<1>3. Len(cells) \in Nat /\ Len(cells) % width = 0 /\ r \in 0..(Len(cells) \div width - 1)
  BY <1>2, LenProperties DEF GroupReads, RowsUnder
<1>4. CellUnder(i, r, c) = cells[r * width + c]
  BY DEF CellUnder
<1> HIDE DEF cells, width
<1>5. r * width + c \in 1..Len(cells)
  BY <1>1, <1>3, CellPlace
<1> QED
  BY <1>2, <1>4, <1>5, ElementOfSeq

\* Whatever layout was negotiated, a type served with every column asked for has
\* every field of its events filled from a cell of the batch.
THEOREM NoFieldIsForgotten == Spec => []NothingDefaulted
<1>1. IInv => NothingDefaulted
  <2> SUFFICES ASSUME IInv, NEW n \in DOMAIN events,
                      \A c \in DOMAIN CompactFields[events[n].type] :
                         ColumnsNamed(events[n].from[1],
                                      CompactFields[events[n].type][c]) # {},
                      NEW f \in DOMAIN events[n].values
               PROVE  events[n].values[f].of # 0
    BY DEF NothingDefaulted
  <2> DEFINE e == events[n]
  <2>1. e.type \in Decoded /\ f \in DOMAIN EventStruct[e.type]
    BY DEF IInv, EventsAreFilled, Filled
  <2>2. PICK c \in DOMAIN CompactFields[e.type] : CompactFields[e.type][c] = f
    BY <2>1, ColumnsAreFields DEF Lists, Range
  <2>3. ColumnsNamed(e.from[1], f) # {}
    BY <2>2
  <2>4. PICK i, r : Passed(i, r) /\ e.from = <<i, r>>
    BY DEF IInv, Rows
  <2>5. f \in DOMAIN BuildEvent[e.type] /\ InPlace(e)
    BY <2>1, Tables DEF IInv, ValuesInPlace
  <2>6. PICK d \in ColumnsNamed(i, f) : e.values[f].of = CellUnder(i, r, d).of
    BY <2>3, <2>4, <2>5 DEF InPlace
  <2>7. i \in DOMAIN data /\ GroupReads(i) /\ r \in 0..(RowsUnder(i) - 1)
    BY <2>4 DEF Passed, HeadersRead, IInv, Place
  <2>8. CellUnder(i, r, d) \in Cells
    BY <2>6, <2>7, CellsAreSent DEF ColumnsNamed, IInv
  <2> HIDE DEF e
  <2>9. CellUnder(i, r, d).of \in Nat \ {0}
    BY <2>8 DEF Cells
  <2> QED
    BY <2>6, <2>9 DEF e
<1> QED
  BY <1>1, Invariance, PTL

\* Every event the decoder can answer is read back from its FULL JSON as the same
\* variant with the same values.
THEOREM FullReadsBack == Spec => []SameVariantBack
<1>1. IInv => SameVariantBack
  BY BackFromFull DEF IInv, EventsAreFilled, SameVariantBack
<1> QED
  BY <1>1, Invariance, PTL
=============================================================================
