------------------------------- MODULE Events -------------------------------
(***************************************************************************)
(* The market events of the crate and their two encodings, as tables.      *)
(*                                                                         *)
(* One list of fields is written by hand in three places: the columns      *)
(* requested from the server (compact_fields), the columns the decoder     *)
(* reads (build_event, in Compact) and the fields of the struct, which     *)
(* FULL JSON is made of.  Nothing but agreement of the three makes a price *)
(* arrive: a column nobody serves reads as a default, in silence.  They    *)
(* are three tables here too.                                              *)
(*                                                                         *)
(* A field is named by its name on the wire; `vwap` is "VWAP", `sale_type` *)
(* is "type".  A JSON value is its kind, what it says (`is`) and the row   *)
(* of the batch it stands in (`of`, 0 for a value nobody sent).            *)
(***************************************************************************)
EXTENDS Naturals, Sequences, FiniteSets

EventTypes ==
    {"Quote", "Trade", "Summary", "Profile", "Order", "TimeAndSale", "Candle",
     "TradeETH", "SpreadOrder", "Greeks", "TheoPrice", "Underlying", "Series",
     "Configuration", "Message"}

\* from_wire_name: the type a name stands for, and no other type.
IsWireName(name) == name \in EventTypes

-----------------------------------------------------------------------------
(* JSON values, and what each reader accepts.                              *)

Specials == {"NaN", "Infinity", "-Infinity"}

\* "special" is a string that is one of Specials, "whole" a number that fits
\* an i64, "fraction" any other number, "other" null, an array or an object.
JsonKinds == {"string", "special", "whole", "fraction", "bool", "other"}

Json(kind, is, of) == [json |-> kind, is |-> is, of |-> of]

\* as_str, as_i64, json_double::from_value, as_bool.
Readable ==
    [text   |-> {"string", "special"},
     int    |-> {"whole"},
     double |-> {"whole", "fraction", "special"},
     flag   |-> {"bool"}]

FieldKinds == DOMAIN Readable

Value(kind, cell) == [kind |-> kind, is |-> cell.is, of |-> cell.of]

\* How a field's value is written: a double that is not finite as a string.
Written(value) ==
    Json(IF value.kind = "int" THEN "whole"
         ELSE IF value.kind = "flag" THEN "bool"
         ELSE IF value.is \in Specials THEN "special"
         ELSE IF value.kind = "text" THEN "string" ELSE "fraction",
         value.is, value.of)

-----------------------------------------------------------------------------
(* The columns requested, in the order they are asked for.                 *)

Lead  == <<"eventType", "eventSymbol">>
Timed == Lead \o <<"eventTime">>
Indexed == Timed \o <<"eventFlags", "index", "time">>

CompactFields ==
    [Quote       |-> Lead \o <<"bidPrice", "askPrice", "bidSize", "askSize">>,
     Trade       |-> Lead \o <<"price", "size", "dayVolume">>,
     Greeks      |-> Lead \o <<"delta", "gamma", "theta", "vega", "rho", "volatility">>,
     Summary     |-> Timed \o <<"dayId", "dayOpenPrice", "dayHighPrice", "dayLowPrice",
                        "dayClosePrice", "dayClosePriceType", "prevDayId",
                        "prevDayClosePrice", "prevDayClosePriceType",
                        "prevDayVolume", "openInterest">>,
     Candle      |-> Indexed \o <<"sequence", "count", "open", "high", "low", "close",
                        "volume", "VWAP", "bidVolume", "askVolume",
                        "impVolatility", "openInterest">>,
     Profile     |-> Timed \o <<"description", "shortSaleRestriction", "tradingStatus",
                        "statusReason", "haltStartTime", "haltEndTime",
                        "highLimitPrice", "lowLimitPrice", "high52WeekPrice",
                        "low52WeekPrice", "beta", "earningsPerShare",
                        "dividendFrequency", "exDividendAmount", "exDividendDayId",
                        "shares", "freeFloat">>,
     Series      |-> Indexed \o <<"sequence", "expiration", "volatility", "callVolume",
                        "putVolume", "putCallRatio", "forwardPrice", "dividend",
                        "interest">>,
     TradeETH    |-> Timed \o <<"time", "timeNanoPart", "sequence", "exchangeCode",
                        "price", "change", "size", "dayId", "dayVolume",
                        "dayTurnover", "tickDirection", "extendedTradingHours">>,
     TimeAndSale |-> Indexed \o <<"timeNanoPart", "sequence", "exchangeCode", "price",
                        "size", "bidPrice", "askPrice", "exchangeSaleConditions",
                        "tradeThroughExempt", "aggressorSide", "spreadLeg",
                        "extendedTradingHours", "validTick", "type", "buyer",
                        "seller">>,
     Underlying  |-> Indexed \o <<"sequence", "volatility", "frontVolatility",
                        "backVolatility", "callVolume", "putVolume", "putCallRatio">>,
     TheoPrice   |-> Indexed \o <<"sequence", "price", "underlyingPrice", "delta",
                        "gamma", "dividend", "interest">>]

\* The types compact_fields answers Some for.
Decoded == DOMAIN CompactFields

-----------------------------------------------------------------------------
(* The structs: the kind of every field, by its serde name.                *)

Struct(texts, ints, doubles, flags) ==
    [f \in texts \cup ints \cup doubles \cup flags |->
        IF f \in texts THEN "text"
        ELSE IF f \in ints THEN "int"
        ELSE IF f \in doubles THEN "double" ELSE "flag"]

Named == {"eventType", "eventSymbol"}
Index == {"eventTime", "eventFlags", "index", "time", "sequence"}

QuoteEvent  == Struct(Named, {}, {"bidPrice", "askPrice", "bidSize", "askSize"}, {})
TradeEvent  == Struct(Named, {}, {"price", "size", "dayVolume"}, {})
GreeksEvent == Struct(Named, {}, {"delta", "gamma", "theta", "vega", "rho",
                                  "volatility"}, {})
CandleEvent ==
    Struct(Named, Index \cup {"count"},
           {"open", "high", "low", "close", "volume", "VWAP", "bidVolume",
            "askVolume", "impVolatility", "openInterest"}, {})
SummaryEvent ==
    Struct(Named \cup {"dayClosePriceType", "prevDayClosePriceType"},
           {"eventTime", "dayId", "prevDayId"},
           {"dayOpenPrice", "dayHighPrice", "dayLowPrice", "dayClosePrice",
            "prevDayClosePrice", "prevDayVolume", "openInterest"}, {})
ProfileEvent ==
    Struct(Named \cup {"description", "shortSaleRestriction", "tradingStatus",
                       "statusReason"},
           {"eventTime", "haltStartTime", "haltEndTime", "exDividendDayId"},
           {"highLimitPrice", "lowLimitPrice", "high52WeekPrice", "low52WeekPrice",
            "beta", "earningsPerShare", "dividendFrequency", "exDividendAmount",
            "shares", "freeFloat"}, {})
TimeAndSaleEvent ==
    Struct(Named \cup {"exchangeCode", "exchangeSaleConditions", "tradeThroughExempt",
                       "aggressorSide", "type", "buyer", "seller"},
           Index \cup {"timeNanoPart"},
           {"price", "size", "bidPrice", "askPrice"},
           {"spreadLeg", "extendedTradingHours", "validTick"})
SeriesEvent ==
    Struct(Named, Index \cup {"expiration"},
           {"volatility", "callVolume", "putVolume", "putCallRatio", "forwardPrice",
            "dividend", "interest"}, {})
TradeETHEvent ==
    Struct(Named \cup {"exchangeCode", "tickDirection"},
           {"eventTime", "time", "timeNanoPart", "sequence", "dayId"},
           {"price", "change", "size", "dayVolume", "dayTurnover"},
           {"extendedTradingHours"})
UnderlyingEvent ==
    Struct(Named, Index,
           {"volatility", "frontVolatility", "backVolatility", "callVolume",
            "putVolume", "putCallRatio"}, {})
TheoPriceEvent ==
    Struct(Named, Index,
           {"price", "underlyingPrice", "delta", "gamma", "dividend", "interest"}, {})

EventStruct ==
    [Quote |-> QuoteEvent, TradeETH |-> TradeETHEvent, Trade |-> TradeEvent,
     Greeks |-> GreeksEvent, Summary |-> SummaryEvent, Candle |-> CandleEvent,
     TimeAndSale |-> TimeAndSaleEvent, Profile |-> ProfileEvent,
     Underlying |-> UnderlyingEvent, Series |-> SeriesEvent,
     TheoPrice |-> TheoPriceEvent]

-----------------------------------------------------------------------------
(* FULL JSON: MarketEvent is untagged, so the object does not say which    *)
(* variant it is.  The variants are tried in the order they are declared   *)
(* and the first that can be read is the event; fields it does not have    *)
(* are ignored.                                                            *)

MarketEvent_Appended ==
    <<"Quote", "Trade", "Greeks", "Summary", "Candle", "TimeAndSale", "Profile",
      "Underlying", "Series", "TheoPrice", "TradeETH">>

\* (Mutant: TradeETH, which has every field of Trade, is appended.)
MarketEvent ==
    <<"Quote", "TradeETH", "Trade", "Greeks", "Summary", "Candle",
      "TimeAndSale", "Profile", "Underlying", "Series", "TheoPrice">>

ToFull(event) == [f \in DOMAIN event.values |-> Written(event.values[f])]

Fits(object, type) ==
    \A f \in DOMAIN EventStruct[type] :
        /\ f \in DOMAIN object
        /\ object[f].json \in Readable[EventStruct[type][f]]

\* No variant fits: the object is refused.
NoEvent == [type |-> "none", values |-> << >>]

FromFull(object) ==
    LET fit == {i \in DOMAIN MarketEvent : Fits(object, MarketEvent[i])}
    IN  IF fit = {} THEN NoEvent
        ELSE LET type == MarketEvent[CHOOSE i \in fit : \A j \in fit : i <= j]
             IN  [type   |-> type,
                  values |-> [f \in DOMAIN EventStruct[type] |->
                                Value(EventStruct[type][f], object[f])]]
=============================================================================
