----------------------------- MODULE FeedProofs -----------------------------
(***************************************************************************)
(* Proofs about the layouts and the subscriptions for every number of      *)
(* channels, types, calls, losses and unasked FEED_CONFIGs.                *)
(***************************************************************************)
EXTENDS Feed, SequenceTheorems, FiniteSetTheorems, WellFoundedInduction, TLAPS

Request == [caller : Callers, expected : Answers, channel : Channels]
Replaying == {"next_channel", "reopening", "configuring"}

Shapes ==
    /\ channels \subseteq Channels
    /\ schemas = [ch \in Channels |-> schemas[ch]]
    /\ schemas_before = [ch \in Channels |-> schemas_before[ch]]
    /\ DOMAIN book = Channels
    /\ \A ch \in Channels :
          /\ DOMAIN schemas[ch] \subseteq Types
          /\ DOMAIN schemas_before[ch] \subseteq Types
          /\ DOMAIN server.config[ch] \subseteq Types
          /\ \A t \in DOMAIN server.config[ch] : server.config[ch][t] \in Layouts
    /\ call \in [op : Operations \cup {"none"}, channel : Channels \cup {0},
                 types : SUBSET Types, at : {"idle", "waiting", "sent"}]
    /\ requests \in Seq(Request)
    /\ mailbox \in [Callers -> Message \cup {Empty, Closed}]
    /\ supervisor \in {"live", "backoff", "handshaking", "gave_up"} \cup Replaying
    /\ todo \subseteq Channels /\ stored \subseteq Types
    /\ session \in {"up", "dead", "none"}
    /\ server = [open |-> server.open, config |-> server.config,
                 subs |-> server.subs]
    /\ DOMAIN server.config = Channels
    /\ wire \in Seq(Message)

\* What the owner is doing, and who waits for what.
Calling(ch) == call.at # "idle" /\ call.channel = ch
Waiters ==
    /\ call.at # "idle" =>
          /\ call.channel \in Channels
          /\ call.op # "create_feed_channel" => call.channel \in channels
    /\ \A i, j \in DOMAIN requests :
          requests[i].caller = requests[j].caller => i = j
    /\ \A i \in DOMAIN requests :
          LET r == requests[i] IN
            /\ mailbox[r.caller] = Empty
            /\ r.caller = "owner" =>
                  /\ call.at = "waiting" /\ call.channel = r.channel
                  /\ r.expected = "FEED_CONFIG" => call.op = "setup_feed"
            /\ r.caller = "supervisor" =>
                  /\ supervisor \in {"reopening", "configuring"} /\ Due(r.channel)
                  /\ r.expected = "FEED_CONFIG" => supervisor = "configuring"
    /\ mailbox["owner"] # Empty => call.at = "waiting"
    /\ mailbox["owner"].type = "FEED_CONFIG" =>
          call.op = "setup_feed" /\ call.channel = mailbox["owner"].channel
    /\ mailbox["supervisor"] # Empty => supervisor \in {"reopening", "configuring"}
    /\ mailbox["supervisor"].type = "FEED_CONFIG" =>
          supervisor = "configuring" /\ Due(mailbox["supervisor"].channel)

\* Whatever the owner does during an outage is at risk, a session that is not
\* up serves nothing, and the next one comes up with the handshake.
Outages ==
    /\ supervisor \in {"backoff", "handshaking"} => session # "up"
    /\ Outage => \A ch \in Channels : Calling(ch) => ch \in disturbed
    /\ session # "up" =>
          wire = << >> /\ \A ch \in Channels : server.config[ch] = NoSchema

\* A rebuild works on channels that are open, or at risk.
Rebuilds ==
    /\ todo # {} => supervisor \in Replaying
    /\ todo \subseteq channels \cup disturbed
    /\ supervisor \in Replaying \cup {"handshaking"} =>
          \A ch \in Channels \ (channels \cup disturbed) :
              schemas_before[ch] = NoSchema

\* While a layout is being asked for there is none.
NoLayoutYet ==
    \A ch \in Channels \ disturbed :
        \/ Calling(ch) /\ call.op = "setup_feed"
        \/ supervisor = "configuring" /\ Due(ch)
        => schemas[ch] = NoSchema

IsConfig(m, ch) == m.type = "FEED_CONFIG" /\ m.channel = ch
IsRow(m, ch)    == m.type = "FEED_DATA" /\ m.channel = ch

Meant(m) == IF m.layout = "unsaid" THEN "full" ELSE m.layout

RowAgrees(row, m) == \A t \in row.types : t \in m.types /\ row.layout = Meant(m)
ServerAgrees(ch, m) ==
    \A t \in DOMAIN server.config[ch] :
        t \in m.types /\ server.config[ch][t] = Meant(m)

\* The channels still to be rebuilt are not configured.
Unconfigured(ch) ==
    /\ server.config[ch] = NoSchema
    /\ \A k \in DOMAIN wire : ~IsConfig(wire[k], ch)
NotYetServed ==
    session = "up" =>
        \A ch \in todo \ disturbed :
            Unconfigured(ch) \/ (supervisor = "configuring" /\ Due(ch))

\* One FEED_CONFIG at a time is under way, in the wire or in the hands of who
\* asked for it.
OneAtATime(ch) ==
    /\ \A j, k \in DOMAIN wire :
          IsConfig(wire[j], ch) /\ IsConfig(wire[k], ch) => j = k
    /\ \A c \in Callers : IsConfig(mailbox[c], ch) =>
          \A k \in DOMAIN wire : ~IsConfig(wire[k], ch)

\* The rows behind it are in the layout it tells, and so are those to come.
RowsBehind(ch) ==
    \A k \in DOMAIN wire : IsConfig(wire[k], ch) =>
        /\ \A i \in DOMAIN wire :
              i > k /\ IsRow(wire[i], ch) => RowAgrees(wire[i], wire[k])
        /\ ServerAgrees(ch, wire[k])
        /\ wire[k].layout = "unsaid" => schemas[ch] = NoSchema
RowsOfAnswer(ch) ==
    \A c \in Callers : IsConfig(mailbox[c], ch) =>
        /\ \A i \in DOMAIN wire :
              IsRow(wire[i], ch) => RowAgrees(wire[i], mailbox[c])
        /\ ServerAgrees(ch, mailbox[c])

\* The rows before it are in the client's layout, and so are those to come
\* when none is under way.
RowsAhead(ch) ==
    \A i \in DOMAIN wire :
        /\ IsRow(wire[i], ch)
        /\ \A k \in DOMAIN wire : IsConfig(wire[k], ch) => i < k
        => RightLayout(wire[i])
Settled(ch) ==
    (\A k \in DOMAIN wire : ~IsConfig(wire[k], ch)) =>
        \A t \in DOMAIN schemas[ch] \cap DOMAIN server.config[ch] :
            server.config[ch][t] = schemas[ch][t]

InStep(ch) == /\ OneAtATime(ch) /\ RowsBehind(ch) /\ RowsOfAnswer(ch)
              /\ RowsAhead(ch) /\ Settled(ch)

LayoutsInStep == session = "up" => \A ch \in Channels \ disturbed : InStep(ch)

-----------------------------------------------------------------------------
(***************************************************************************)
(* What the agreement on subscriptions rests on.                           *)
(***************************************************************************)
\* The owner's operations, and whom an answer is for.
Operating ==
    /\ call.at = "idle" => call = Idle
    /\ call.at = "waiting" =>
          call.op \in {"create_feed_channel", "setup_feed", "close_channel"}
    /\ call.at = "sent" =>
          call.op \in {"subscribe", "unsubscribe", "reset_subscriptions"}
    /\ call.at = "sent" /\ call.op # "reset_subscriptions" =>
          \E t \in Types : call.types = {t}
Numbered ==
    /\ next_channel \in 1 .. MaxChannels + 1
    /\ \A ch \in channels : ch < next_channel
    /\ call.at # "idle" => call.channel < next_channel
    /\ call.at # "idle" /\ call.op = "create_feed_channel" =>
          call.channel \notin channels
Addressed ==
    /\ mailbox["owner"].type \in Answers =>
          mailbox["owner"].channel = call.channel
    /\ mailbox["supervisor"].type \in Answers =>
          Due(mailbox["supervisor"].channel)

\* A session that is not up has nothing.
NothingServed == session # "up" => server = Nothing

Books == book \in [Channels -> Seq(Types)] /\ DOMAIN server.subs = Channels

\* What the client remembers of a channel is enough to rebuild it: a layout
\* for everything it is subscribed to, also while the layout is asked for
\* again and in the copy a failed attempt puts back.
IsBeing(op, ch) == Calling(ch) /\ call.op = op
Reconfiguring(ch) == supervisor = "configuring" /\ Due(ch)
Remembered(ch) ==
    /\ \/ ToSet(book[ch]) \subseteq DOMAIN schemas[ch]
       \/ IsBeing("setup_feed", ch)
       \/ Reconfiguring(ch)
    /\ supervisor \in Replaying \cup {"handshaking"} =>
          ToSet(book[ch]) \subseteq DOMAIN schemas_before[ch]
    /\ Reconfiguring(ch) => ToSet(book[ch]) \subseteq stored
    /\ IsBeing("subscribe", ch) => call.types \subseteq DOMAIN schemas[ch]

\* A message of a type about a channel is on its way, or with who asked for it.
InWire(type, ch) ==
    \E k \in DOMAIN wire : wire[k].type = type /\ wire[k].channel = ch
Has(c, type, ch)   == mailbox[c].type = type /\ mailbox[c].channel = ch
Asked(c, type, ch) ==
    \E i \in DOMAIN requests :
        requests[i] = [caller |-> c, expected |-> type, channel |-> ch]
Answering(c, ch) ==
    \/ Has(c, "FEED_CONFIG", ch)
    \/ Asked(c, "FEED_CONFIG", ch) /\ InWire("FEED_CONFIG", ch)
Opened(ch) ==
    \/ InWire("CHANNEL_OPENED", ch)
    \/ \E c \in Callers : Has(c, "CHANNEL_OPENED", ch)

\* What a server that did what was asked serves a channel with.
OpenAs(ch, types, subs) ==
    /\ ch \in server.open
    /\ DOMAIN server.config[ch] = types
    /\ server.subs[ch] = subs
Unserved(ch) == DOMAIN server.config[ch] = {} /\ server.subs[ch] = << >>

\* The channel of a closed or failed create_feed_channel.
Gone(ch) == /\ ch < next_channel /\ ch \notin channels
            /\ ~IsBeing("create_feed_channel", ch)

\* What the server has of a channel: what the client remembers, or what it
\* will remember once the operation it is in completes.
Served(ch) ==
    /\ ch \in channels \ todo /\ ~Calling(ch) =>
          OpenAs(ch, DOMAIN schemas[ch], book[ch])
    /\ IsBeing("subscribe", ch) =>
          \A t \in call.types :
             OpenAs(ch, DOMAIN schemas[ch], Inserted(book[ch], t))
    /\ IsBeing("unsubscribe", ch) =>
          \A t \in call.types :
             OpenAs(ch, DOMAIN schemas[ch], Removed(book[ch], t))
    /\ IsBeing("reset_subscriptions", ch) =>
          OpenAs(ch, DOMAIN schemas[ch], << >>)
    /\ IsBeing("setup_feed", ch) =>
          /\ ch \in server.open /\ server.subs[ch] = book[ch]
          /\ Answering("owner", ch) =>
                DOMAIN server.config[ch] = call.types
    /\ ch >= next_channel \/ IsBeing("create_feed_channel", ch) => Unserved(ch)
    /\ Opened(ch) => ch \in server.open \/ IsBeing("close_channel", ch) \/ Gone(ch)
    /\ ch \in todo => server.subs[ch] = << >>
    /\ ch \in todo /\ Reconfiguring(ch) =>
          /\ ch \in server.open
          /\ Answering("supervisor", ch) =>
                DOMAIN server.config[ch] = stored

Agreed(ch) == Remembered(ch) /\ (session = "up" => Served(ch))
Agreement == \A ch \in Channels \ disturbed : Agreed(ch)

Steady == /\ Operating /\ Numbered /\ Addressed /\ NothingServed /\ Books
SInv == Steady /\ Agreement

\* The types of what the proofs above take as it is, and a book that has no
\* subscription twice.
Layered ==
    /\ schemas \in [Channels -> Schema]
    /\ schemas_before \in [Channels -> Schema]
    /\ disturbed \subseteq Channels
ServerSide ==
    /\ server.open \subseteq Channels
    /\ server.config \in [Channels -> Config]
    /\ server.subs \in [Channels -> Seq(Types)]
OncePerKey == \A ch \in Channels : IsInjective(book[ch])
TInv == Layered /\ ServerSide /\ OncePerKey

IInv == Shapes /\ Waiters /\ Outages /\ Rebuilds /\ NoLayoutYet /\ NotYetServed
             /\ LayoutsInStep /\ ClosedLeavesNothing

-----------------------------------------------------------------------------
(***************************************************************************)
(* The table of requests.                                                  *)
(***************************************************************************)

LEMMA RemoveAtElements ==
    ASSUME NEW S, NEW s \in Seq(S), NEW i \in DOMAIN s
    PROVE  /\ RemoveAt(s, i) \in Seq(S)
           /\ DOMAIN RemoveAt(s, i) = 1 .. (Len(s) - 1)
           /\ \A j \in 1 .. (Len(s) - 1) :
                 RemoveAt(s, i)[j] = IF j < i THEN s[j] ELSE s[j + 1]
<1> DEFINE before == SubSeq(s, 1, i - 1)
           after == SubSeq(s, i + 1, Len(s))
<1>1. i \in 1 .. Len(s) /\ Len(s) \in Nat
  OBVIOUS
<1>2. /\ before \in Seq(S) /\ Len(before) = i - 1
      /\ \A j \in 1 .. (i - 1) : before[j] = s[j]
  BY <1>1
<1>3. /\ after \in Seq(S) /\ Len(after) = Len(s) - i
      /\ \A j \in 1 .. (Len(s) - i) : after[j] = s[j + i]
  BY <1>1
<1>4. RemoveAt(s, i) = before \o after
  BY DEF RemoveAt
<1> HIDE DEF before, after
<1>5. /\ before \o after \in Seq(S)
      /\ Len(before \o after) = Len(before) + Len(after)
      /\ \A j \in 1 .. Len(before) + Len(after) : (before \o after)[j] =
            IF j <= Len(before) THEN before[j] ELSE after[j - Len(before)]
  BY <1>2, <1>3, ConcatProperties, Zenon
<1>6. Len(before) + Len(after) = Len(s) - 1
  BY <1>1, <1>2, <1>3
<1>7. ASSUME NEW j \in 1 .. (Len(s) - 1)
      PROVE  (before \o after)[j] = IF j < i THEN s[j] ELSE s[j + 1]
  <2>1. CASE j < i
    BY <1>1, <1>2, <1>5, <1>6, <2>1
  <2>2. CASE ~(j < i)
    <3>1. j - (i - 1) \in 1 .. (Len(s) - i) /\ (j - (i - 1)) + i = j + 1
      BY <1>1, <2>2
    <3>2. (before \o after)[j] = after[j - (i - 1)]
      BY <1>1, <1>2, <1>5, <1>6, <2>2
    <3>3. after[j - (i - 1)] = s[(j - (i - 1)) + i]
      BY <1>3, <3>1
    <3> QED
      BY <2>2, <3>1, <3>2, <3>3
  <2> QED
    BY <2>1, <2>2
<1> QED
  BY <1>4, <1>5, <1>6, <1>7, LenProperties

\* What is left of the table when a caller is taken out of it.
LEMMA UnregisteredElements ==
    ASSUME Shapes, Waiters, NEW c \in Callers
    PROVE  /\ Unregistered(c) \in Seq(Request)
           /\ \A j \in DOMAIN Unregistered(c) :
                 /\ Unregistered(c)[j].caller # c
                 /\ \E k \in DOMAIN requests : Unregistered(c)[j] = requests[k]
           /\ \A i, j \in DOMAIN Unregistered(c) :
                 Unregistered(c)[i].caller = Unregistered(c)[j].caller => i = j
<1>1. CASE RequestsOf(c) = {}
  BY <1>1 DEF Unregistered, RequestsOf, Shapes, Waiters
<1>2. CASE RequestsOf(c) # {}
  <2>1. PICK i \in RequestsOf(c) : Unregistered(c) = RemoveAt(requests, i)
    BY <1>2 DEF Unregistered
  <2>2. /\ i \in DOMAIN requests /\ requests[i].caller = c
        /\ requests \in Seq(Request) /\ DOMAIN requests = 1 .. Len(requests)
        /\ Len(requests) \in Nat
    BY <2>1 DEF RequestsOf, Shapes
  <2> DEFINE left == RemoveAt(requests, i)
  <2>3. /\ left \in Seq(Request)
        /\ DOMAIN left = 1 .. (Len(requests) - 1)
        /\ \A j \in DOMAIN left :
              left[j] = IF j < i THEN requests[j] ELSE requests[j + 1]
    BY <2>2, RemoveAtElements
  <2> HIDE DEF left
  <2>4. \A j \in DOMAIN left :
           \E k \in DOMAIN requests :
              k # i /\ left[j] = requests[k] /\ k = IF j < i THEN j ELSE j + 1
    BY <2>2, <2>3
  <2>5. \A k, l \in DOMAIN requests : requests[k].caller = requests[l].caller => k = l
    BY DEF Waiters
  <2>6. \A j \in DOMAIN left :
           left[j].caller # c /\ \E k \in DOMAIN requests : left[j] = requests[k]
    BY <2>2, <2>4, <2>5
  <2>7. \A j, k \in DOMAIN left : left[j].caller = left[k].caller => j = k
    <3> SUFFICES ASSUME NEW j \in DOMAIN left, NEW k \in DOMAIN left,
                        left[j].caller = left[k].caller
                 PROVE  j = k
      OBVIOUS
    <3>1. PICK n \in DOMAIN requests :
             left[j] = requests[n] /\ n = IF j < i THEN j ELSE j + 1
      BY <2>4
    <3>2. PICK m \in DOMAIN requests :
             left[k] = requests[m] /\ m = IF k < i THEN k ELSE k + 1
      BY <2>4
    <3>3. n = m
      BY <2>5, <3>1, <3>2
    <3> QED
      BY <2>2, <2>3, <3>1, <3>2, <3>3
  <2> QED
    BY <2>1, <2>3, <2>6, <2>7 DEF left
<1> QED
  BY <1>1, <1>2

-----------------------------------------------------------------------------
(***************************************************************************)
(* The layouts and the messages under way.                                 *)
(***************************************************************************)

\* A step that tells of no layout: a message is sent that is neither a layout
\* nor a row, or none, and a channel may lose the server's layout.
ServerKeepsShape ==
    /\ server' = [open |-> server'.open, config |-> server'.config,
                  subs |-> server'.subs]
    /\ DOMAIN server'.config = Channels
Unlaid ==
    /\ ServerKeepsShape
    /\ \A ch \in Channels : server'.config[ch] \in {server.config[ch], NoSchema}
    /\ \/ wire' = wire
       \/ /\ session = "up"
          /\ \E m \in Message : /\ m.type \notin {"FEED_CONFIG", "FEED_DATA"}
                                /\ wire' = Append(wire, m)

\* A FEED_CONFIG for ch is sent, and the server serves what it says.
LaysOut(ch, m) ==
    /\ session = "up" /\ m \in Message /\ IsConfig(m, ch)
    /\ wire' = Append(wire, m)
    /\ ServerKeepsShape
    /\ server'.config = [server.config EXCEPT ![ch] = [t \in m.types |-> Meant(m)]]

\* What a step of either kind is to the other channels.
NothingFor(ch) ==
    /\ server'.config[ch] \in {server.config[ch], NoSchema}
    /\ \/ wire' = wire
       \/ \E m \in Message : /\ ~IsConfig(m, ch) /\ ~IsRow(m, ch)
                             /\ wire' = Append(wire, m)

LEMMA NothingForOthers ==
    ASSUME Shapes, NEW ch \in Channels, NEW d \in Channels,
           Unlaid \/ (d # ch /\ \E m \in Message : LaysOut(d, m))
    PROVE  NothingFor(ch)
BY DEF Shapes, Unlaid, LaysOut, NothingFor, IsConfig, IsRow

LEMMA PlainMessages ==
    ASSUME NEW type \in Answers, NEW ch \in Channels
    PROVE  Plain(type, ch) \in Message /\ Plain(type, ch).type = type
BY DEF Plain, Message

LEMMA UnlaidAnswers ==
    ASSUME Shapes, NEW ch \in Channels, NEW types, NEW subs,
           \/ OpensChannel(ch) \/ ClosesChannel(ch) \/ Ignores
           \/ Subscribes(ch, types, subs) \/ Unsubscribes(ch, subs)
           \/ session = "up" /\ Refuses(ch)
    PROVE  Unlaid
<1> USE DEF Shapes, Unlaid, ServerKeepsShape, Replies
<1>1. CASE Ignores
  BY <1>1 DEF Ignores
<1>2. CASE session = "up" /\ Refuses(ch)
  BY <1>2, PlainMessages DEF Refuses, Answers
<1>3. CASE OpensChannel(ch)
  <2>1. CASE session = "up" /\ server' = [server EXCEPT !.open = @ \cup {ch}]
               /\ Replies(Plain("CHANNEL_OPENED", ch))
    BY <2>1, PlainMessages DEF Answers
  <2> QED
    BY <1>1, <1>2, <1>3, <2>1 DEF OpensChannel
<1>4. CASE ClosesChannel(ch)
  <2>1. CASE /\ session = "up"
             /\ server' = [open   |-> server.open \ {ch},
                           config |-> [server.config EXCEPT ![ch] = NoSchema],
                           subs   |-> [server.subs EXCEPT ![ch] = << >>]]
             /\ Replies(Plain("CHANNEL_CLOSED", ch))
    BY <2>1, PlainMessages DEF Answers
  <2> QED
    BY <1>1, <1>2, <1>4, <2>1 DEF ClosesChannel
<1>5. CASE Subscribes(ch, types, subs)
  <2>1. CASE server' = [server EXCEPT !.subs[ch] = subs] /\ UNCHANGED wire
    BY <2>1
  <2> QED
    BY <1>1, <1>2, <1>5, <2>1 DEF Subscribes
<1>6. CASE Unsubscribes(ch, subs)
  <2>1. CASE server' = [server EXCEPT !.subs[ch] = subs] /\ UNCHANGED wire
    BY <2>1
  <2> QED
    BY <1>1, <1>6, <2>1 DEF Unsubscribes
<1> QED
  BY <1>1, <1>2, <1>3, <1>4, <1>5, <1>6

LEMMA FeedAnswers ==
    ASSUME Shapes, NEW ch \in Channels, NEW types \in SUBSET Types,
           ConfiguresFeed(ch, types)
    PROVE  Unlaid \/ \E m \in Message : LaysOut(ch, m)
<1>1. CASE (session = "up" /\ Refuses(ch)) \/ Ignores
  BY <1>1, UnlaidAnswers
<1>2. ASSUME NEW l \in Layouts, NEW said \in BOOLEAN, session = "up",
             ~said => l = "full",
             server' = [server EXCEPT !.config[ch] = [t \in types |-> l]],
             Replies([type |-> "FEED_CONFIG", channel |-> ch, types |-> types,
                      layout |-> IF said THEN l ELSE "unsaid"])
      PROVE  \E m \in Message : LaysOut(ch, m)
  <2> DEFINE m == [type |-> "FEED_CONFIG", channel |-> ch, types |-> types,
                   layout |-> IF said THEN l ELSE "unsaid"]
  <2>1. m \in Message
    BY <1>2 DEF Message, Answers
  <2>2. m.types = types /\ Meant(m) = l /\ IsConfig(m, ch)
    BY <1>2 DEF Meant, IsConfig, Layouts
  <2>3. ServerKeepsShape
    BY <1>2 DEF ServerKeepsShape, Shapes
  <2>4. server'.config = [server.config EXCEPT ![ch] = [t \in types |-> l]]
    BY <1>2 DEF Shapes
  <2>5. wire' = Append(wire, m)
    BY <1>2 DEF Replies
  <2> HIDE DEF m
  <2> QED
    BY <1>2, <2>1, <2>2, <2>3, <2>4, <2>5 DEF LaysOut
<1> QED
  BY <1>1, <1>2 DEF ConfiguresFeed

\* What Append does to the messages under way.
LEMMA Appended ==
    ASSUME Shapes, NEW m \in Message, wire' = Append(wire, m)
    PROVE  /\ DOMAIN wire = 1 .. Len(wire) /\ Len(wire) \in Nat
           /\ DOMAIN wire' = 1 .. (Len(wire) + 1)
           /\ \A i \in DOMAIN wire : wire'[i] = wire[i]
           /\ wire'[Len(wire) + 1] = m
BY DEF Shapes

\* A step that says nothing about a channel keeps it in step, and if it was not
\* configured it still is not.
LEMMA NothingKeepsStep ==
    ASSUME Shapes, NEW ch \in Channels, NothingFor(ch)
    PROVE  /\ Unconfigured(ch) => Unconfigured(ch)'
           /\ /\ InStep(ch)
              /\ schemas'[ch] \in {schemas[ch], NoSchema}
              /\ \A c \in Callers : \/ mailbox'[c] = mailbox[c]
                                    \/ mailbox'[c].type # "FEED_CONFIG"
              => InStep(ch)'
<1>1. /\ \A i \in DOMAIN wire' :
            IsConfig(wire[i], ch)' \/ IsRow(wire[i], ch)' =>
                i \in DOMAIN wire /\ wire'[i] = wire[i]
      /\ \A i \in DOMAIN wire : i \in DOMAIN wire' /\ wire'[i] = wire[i]
  <2>1. CASE wire' = wire
    BY <2>1
  <2>2. CASE wire' # wire
    <3>1. PICK m \in Message : /\ ~IsConfig(m, ch) /\ ~IsRow(m, ch)
                               /\ wire' = Append(wire, m)
      BY <2>2 DEF NothingFor
    <3> QED
      BY <3>1, Appended DEF IsConfig, IsRow
  <2> QED
    BY <2>1, <2>2
<1>2. DOMAIN NoSchema = {}
  BY DEF NoSchema
<1>3. server'.config[ch] \in {server.config[ch], NoSchema}
  BY DEF NothingFor
<1> USE DEF IsConfig, IsRow
<1>4. Unconfigured(ch) => Unconfigured(ch)'
  BY <1>1, <1>3 DEF Unconfigured
<1>5. ASSUME InStep(ch), schemas'[ch] \in {schemas[ch], NoSchema},
             \A c \in Callers : \/ mailbox'[c] = mailbox[c]
                                \/ mailbox'[c].type # "FEED_CONFIG"
      PROVE  InStep(ch)'
  <2>1. OneAtATime(ch)'
    BY <1>1, <1>5 DEF InStep, OneAtATime
  <2>2. RowsBehind(ch)'
    BY <1>1, <1>2, <1>3, <1>5 DEF InStep, RowsBehind, RowAgrees, ServerAgrees
  <2>3. RowsOfAnswer(ch)'
    BY <1>1, <1>2, <1>3, <1>5 DEF InStep, RowsOfAnswer, RowAgrees, ServerAgrees
  <2>4. RowsAhead(ch)'
    BY <1>1, <1>2, <1>5 DEF InStep, RowsAhead, RightLayout
  <2>5. Settled(ch)'
    BY <1>1, <1>2, <1>3, <1>5 DEF InStep, Settled
  <2> QED
    BY <2>1, <2>2, <2>3, <2>4, <2>5 DEF InStep
<1> QED
  BY <1>4, <1>5

\* A row is sent in the server's layout of the moment.
LEMMA RowKeepsStep ==
    ASSUME Shapes, NEW ch \in Channels, InStep(ch),
           NEW m \in Message, IsRow(m, ch), wire' = Append(wire, m),
           \A t \in m.types :
              t \in DOMAIN server.config[ch] /\ m.layout = server.config[ch][t],
           UNCHANGED <<schemas, mailbox, server>>
    PROVE  InStep(ch)'
<1> USE DEF IsConfig, IsRow
<1>1. OneAtATime(ch)'
  BY Appended DEF InStep, OneAtATime
<1>2. RowsBehind(ch)'
  BY Appended DEF InStep, RowsBehind, RowAgrees, ServerAgrees
<1>3. RowsOfAnswer(ch)'
  BY Appended DEF InStep, RowsOfAnswer, RowAgrees, ServerAgrees
<1>4. RowsAhead(ch)'
  BY Appended DEF InStep, RowsAhead, Settled, RightLayout
<1>5. Settled(ch)'
  BY Appended DEF InStep, Settled
<1> QED
  BY <1>1, <1>2, <1>3, <1>4, <1>5 DEF InStep

\* A layout is told where none was under way.
LEMMA LayoutKeepsStep ==
    ASSUME Shapes, NEW ch \in Channels, InStep(ch),
           NEW m \in Message, LaysOut(ch, m),
           \A k \in DOMAIN wire : ~IsConfig(wire[k], ch),
           \A c \in Callers : ~IsConfig(mailbox[c], ch),
           schemas'[ch] \in {schemas[ch], NoSchema},
           m.layout = "unsaid" => schemas'[ch] = NoSchema,
           \A c \in Callers : \/ mailbox'[c] = mailbox[c]
                              \/ mailbox'[c].type # "FEED_CONFIG"
    PROVE  InStep(ch)'
<1> USE DEF IsConfig, IsRow
<1>1. /\ DOMAIN wire = 1 .. Len(wire) /\ Len(wire) \in Nat
      /\ DOMAIN wire' = 1 .. (Len(wire) + 1)
      /\ \A i \in DOMAIN wire : wire'[i] = wire[i]
      /\ wire'[Len(wire) + 1] = m
  BY Appended DEF LaysOut
<1>2. DOMAIN NoSchema = {}
  BY DEF NoSchema
<1>3. server'.config[ch] = [t \in m.types |-> Meant(m)]
  BY DEF LaysOut, Shapes
<1>4. OneAtATime(ch)'
  BY <1>1 DEF InStep, OneAtATime
<1>5. RowsBehind(ch)'
  BY <1>1, <1>3 DEF InStep, RowsBehind, ServerAgrees, Meant
<1>6. RowsOfAnswer(ch)'
  BY DEF RowsOfAnswer
<1>7. RowsAhead(ch)'
  BY <1>1, <1>2 DEF InStep, RowsAhead, RightLayout, LaysOut
<1>8. Settled(ch)'
  BY <1>1 DEF Settled, LaysOut
<1> QED
  BY <1>4, <1>5, <1>6, <1>7, <1>8 DEF InStep

\* What Tail does to the messages under way.
LEMMA Taken ==
    ASSUME Shapes, wire # << >>, wire' = Tail(wire)
    PROVE  /\ 1 \in DOMAIN wire /\ Head(wire) = wire[1] /\ wire[1] \in Message
           /\ DOMAIN wire \subseteq Nat \ {0} /\ DOMAIN wire' \subseteq Nat \ {0}
           /\ \A i \in DOMAIN wire' : i + 1 \in DOMAIN wire /\ wire'[i] = wire[i + 1]
           /\ \A i \in DOMAIN wire : i # 1 => i - 1 \in DOMAIN wire'
           /\ wire' \in Seq(Message)
BY DEF Shapes

\* The reader takes something that is no layout of this channel.
LEMMA TakenKeepsStep ==
    ASSUME Shapes, NEW ch \in Channels, InStep(ch),
           wire # << >>, wire' = Tail(wire), ~IsConfig(wire[1], ch),
           schemas'[ch] = schemas[ch], server' = server,
           \A c \in Callers : mailbox'[c] \in {mailbox[c], wire[1]}
    PROVE  InStep(ch)'
<1>1. /\ DOMAIN wire \subseteq Nat \ {0} /\ DOMAIN wire' \subseteq Nat \ {0}
      /\ 1 \in DOMAIN wire
      /\ \A i \in DOMAIN wire' : i + 1 \in DOMAIN wire /\ wire'[i] = wire[i + 1]
      /\ \A i \in DOMAIN wire : i # 1 => i - 1 \in DOMAIN wire'
  BY Taken
<1> USE DEF IsConfig, IsRow
<1>2. OneAtATime(ch)'
  BY <1>1 DEF InStep, OneAtATime
<1>3. RowsBehind(ch)'
  <2> SUFFICES ASSUME NEW k \in DOMAIN wire', IsConfig(wire[k], ch)'
               PROVE  /\ \A i \in DOMAIN wire' :
                            i > k /\ IsRow(wire[i], ch)' => RowAgrees(wire[i], wire[k])'
                      /\ ServerAgrees(ch, wire[k])'
                      /\ wire'[k].layout = "unsaid" => schemas'[ch] = NoSchema
    BY DEF RowsBehind
  <2>1. k + 1 \in DOMAIN wire /\ IsConfig(wire[k + 1], ch) /\ wire'[k] = wire[k + 1]
    BY <1>1
  <2>2. ASSUME NEW i \in DOMAIN wire', i > k, IsRow(wire[i], ch)'
        PROVE  RowAgrees(wire[i], wire[k])'
    <3>1. i + 1 \in DOMAIN wire /\ i + 1 > k + 1 /\ wire'[i] = wire[i + 1]
      BY <1>1, <2>2
    <3> QED
      BY <2>1, <2>2, <3>1 DEF InStep, RowsBehind, RowAgrees
  <2> QED
    BY <2>1, <2>2 DEF InStep, RowsBehind, ServerAgrees
<1>4. RowsOfAnswer(ch)'
  <2> SUFFICES ASSUME NEW c \in Callers, IsConfig(mailbox[c], ch)'
               PROVE  /\ \A i \in DOMAIN wire' :
                            IsRow(wire[i], ch)' => RowAgrees(wire[i], mailbox[c])'
                      /\ ServerAgrees(ch, mailbox[c])'
    BY DEF RowsOfAnswer
  <2>1. mailbox'[c] = mailbox[c]
    OBVIOUS
  <2> QED
    BY <1>1, <2>1 DEF InStep, RowsOfAnswer, RowAgrees, ServerAgrees
<1>5. RowsAhead(ch)'
  <2> SUFFICES ASSUME NEW i \in DOMAIN wire', IsRow(wire[i], ch)',
                      \A k \in DOMAIN wire' : IsConfig(wire[k], ch)' => i < k
               PROVE  RightLayout(wire[i])'
    BY DEF RowsAhead
  <2>1. ASSUME NEW k \in DOMAIN wire, IsConfig(wire[k], ch)
        PROVE  i + 1 < k
    <3>1. k # 1
      BY <2>1
    <3>2. k - 1 \in DOMAIN wire' /\ (k - 1) + 1 = k
      BY <1>1, <3>1
    <3>3. wire'[k - 1] = wire[k]
      BY <1>1, <3>2
    <3>4. i < k - 1
      BY <2>1, <3>2, <3>3
    <3> QED
      BY <1>1, <3>4
  <2>2. i + 1 \in DOMAIN wire /\ wire'[i] = wire[i + 1]
    BY <1>1
  <2> QED
    BY <2>1, <2>2 DEF InStep, RowsAhead, RightLayout
<1>6. Settled(ch)'
  <2>1. (\A k \in DOMAIN wire' : ~IsConfig(wire[k], ch)')
           => \A k \in DOMAIN wire : ~IsConfig(wire[k], ch)
    <3> SUFFICES ASSUME NEW k \in DOMAIN wire, IsConfig(wire[k], ch)
                 PROVE  \E j \in DOMAIN wire' : IsConfig(wire[j], ch)'
      BY Zenon
    <3>1. k - 1 \in DOMAIN wire' /\ (k - 1) + 1 = k
      BY <1>1
    <3>2. wire'[k - 1] = wire[k]
      BY <1>1, <3>1
    <3> QED
      BY <3>1, <3>2
  <2> QED
    BY <2>1 DEF InStep, Settled
<1> QED
  BY <1>2, <1>3, <1>4, <1>5, <1>6 DEF InStep

\* It hands a layout to who asked for it: the channel has none at the time.
LEMMA AnsweredKeepsStep ==
    ASSUME Shapes, NEW ch \in Channels, InStep(ch),
           wire # << >>, wire' = Tail(wire), IsConfig(wire[1], ch),
           schemas'[ch] = NoSchema, server' = server,
           \A c \in Callers : mailbox'[c] \in {mailbox[c], wire[1]}
    PROVE  InStep(ch)'
<1> USE Taken DEF IsConfig, IsRow
<1>1. \A i \in DOMAIN wire' : ~IsConfig(wire[i], ch)'
  BY DEF InStep, OneAtATime
<1>2. \A c \in Callers : ~IsConfig(mailbox[c], ch)
  BY DEF InStep, OneAtATime
<1>3. OneAtATime(ch)'
  BY <1>1 DEF OneAtATime
<1>4. RowsBehind(ch)'
  BY <1>1 DEF RowsBehind
<1>5. RowsOfAnswer(ch)'
  <2> SUFFICES ASSUME NEW c \in Callers, IsConfig(mailbox[c], ch)'
               PROVE  /\ \A i \in DOMAIN wire' :
                            IsRow(wire[i], ch)' => RowAgrees(wire[i], mailbox[c])'
                      /\ ServerAgrees(ch, mailbox[c])'
    BY DEF RowsOfAnswer
  <2>1. mailbox'[c] = wire[1]
    BY <1>2
  <2>2. ASSUME NEW i \in DOMAIN wire', IsRow(wire[i], ch)'
        PROVE  RowAgrees(wire[i], mailbox[c])'
    <3>1. i + 1 \in DOMAIN wire /\ i + 1 > 1 /\ wire'[i] = wire[i + 1]
      OBVIOUS
    <3> QED
      BY <2>1, <2>2, <3>1 DEF InStep, RowsBehind, RowAgrees
  <2> QED
    BY <2>1, <2>2 DEF InStep, RowsBehind, ServerAgrees
<1>6. RowsAhead(ch)' /\ Settled(ch)'
  BY DEF RowsAhead, RightLayout, NoSchema, Settled
<1> QED
  BY <1>3, <1>4, <1>5, <1>6 DEF InStep

\* Or it adopts a layout nobody asked for.
LEMMA AdoptedKeepsStep ==
    ASSUME Shapes, NEW ch \in Channels, InStep(ch),
           wire # << >>, wire' = Tail(wire), IsConfig(wire[1], ch),
           schemas'[ch] = Adopted(schemas[ch], wire[1]),
           server' = server, mailbox' = mailbox
    PROVE  InStep(ch)'
<1> USE Taken DEF IsConfig, IsRow
<1> DEFINE m == wire[1]
<1>1. \A i \in DOMAIN wire' : ~IsConfig(wire[i], ch)'
  BY DEF InStep, OneAtATime
<1>2. \A c \in Callers : ~IsConfig(mailbox[c], ch)
  BY DEF InStep, OneAtATime
<1>3. \A t \in DOMAIN schemas'[ch] :
         t \in m.types => schemas'[ch][t] = Meant(m)
  <2>1. CASE m.layout = "unsaid"
    <3>1. schemas[ch] = NoSchema
      BY <2>1 DEF InStep, RowsBehind
    <3>2. DOMAIN schemas'[ch] = {}
      BY <3>1 DEF Adopted, NoSchema
    <3> QED
      BY <3>2
  <2>2. CASE m.layout # "unsaid"
    BY <2>2 DEF Adopted, Meant, NoSchema
  <2> QED
    BY <2>1, <2>2
<1>4. OneAtATime(ch)'
  BY <1>1, <1>2 DEF OneAtATime
<1>5. RowsBehind(ch)'
  BY <1>1 DEF RowsBehind
<1>6. RowsOfAnswer(ch)'
  BY <1>2 DEF RowsOfAnswer
<1>7. RowsAhead(ch)'
  <2> SUFFICES ASSUME NEW i \in DOMAIN wire', IsRow(wire[i], ch)'
               PROVE  RightLayout(wire[i])'
    BY DEF RowsAhead
  <2>1. i + 1 \in DOMAIN wire /\ i + 1 > 1 /\ wire'[i] = wire[i + 1]
    OBVIOUS
  <2>2. RowAgrees(wire[i + 1], m)
    BY <2>1 DEF InStep, RowsBehind
  <2> QED
    BY <1>3, <2>1, <2>2 DEF RowAgrees, RightLayout
<1>8. Settled(ch)'
  BY <1>3 DEF InStep, RowsBehind, ServerAgrees, Settled
<1> QED
  BY <1>4, <1>5, <1>6, <1>7, <1>8 DEF InStep

\* Who asked for a layout installs it.
LEMMA InstalledKeepsStep ==
    ASSUME Shapes, NEW ch \in Channels, InStep(ch), NothingFor(ch),
           NEW c \in Callers, IsConfig(mailbox[c], ch),
           NEW types, schemas'[ch] = Negotiated(mailbox[c], types),
           mailbox' = [mailbox EXCEPT ![c] = Empty]
    PROVE  InStep(ch)'
<1> DEFINE m == mailbox[c]
<1>1. /\ \A i \in DOMAIN wire' :
            IsConfig(wire[i], ch)' \/ IsRow(wire[i], ch)' =>
                i \in DOMAIN wire /\ wire'[i] = wire[i]
      /\ \A i \in DOMAIN wire : i \in DOMAIN wire' /\ wire'[i] = wire[i]
  <2>1. CASE wire' = wire
    BY <2>1
  <2>2. CASE wire' # wire
    <3>1. PICK n \in Message : /\ ~IsConfig(n, ch) /\ ~IsRow(n, ch)
                               /\ wire' = Append(wire, n)
      BY <2>2 DEF NothingFor
    <3> QED
      BY <3>1, Appended DEF IsConfig, IsRow
  <2> QED
    BY <2>1, <2>2
<1> USE DEF IsConfig, IsRow
<1>2. \A i \in DOMAIN wire' : ~IsConfig(wire[i], ch)'
  BY <1>1 DEF InStep, OneAtATime
<1>3. \A t \in DOMAIN schemas'[ch] : t \in m.types => schemas'[ch][t] = Meant(m)
  BY DEF Negotiated, Meant
<1>4. \A d \in Callers : mailbox'[d] \in {mailbox[d], Empty}
  BY DEF Shapes
<1>5. Empty.type # "FEED_CONFIG"
  BY DEF Empty, Plain
<1>6. server'.config[ch] \in {server.config[ch], NoSchema} /\ DOMAIN NoSchema = {}
  BY DEF NothingFor, NoSchema
<1>7. OneAtATime(ch)'
  BY <1>2 DEF OneAtATime
<1>8. RowsBehind(ch)'
  BY <1>2 DEF RowsBehind
<1>9. RowsOfAnswer(ch)'
  BY <1>1, <1>4, <1>5, <1>6 DEF InStep, RowsOfAnswer, RowAgrees, ServerAgrees
<1>10. RowsAhead(ch)'
  BY <1>1, <1>3 DEF InStep, RowsOfAnswer, RowAgrees, RowsAhead, RightLayout
<1>11. Settled(ch)'
  BY <1>3, <1>6 DEF InStep, RowsOfAnswer, ServerAgrees, Settled
<1> QED
  BY <1>7, <1>8, <1>9, <1>10, <1>11 DEF InStep

\* A session that just came up has told nobody anything.
LEMMA NewSessionInStep ==
    ASSUME NEW ch \in Channels, wire = << >>, server.config[ch] = NoSchema,
           \A c \in Callers : ~IsConfig(mailbox[c], ch)
    PROVE  InStep(ch)
BY DEF InStep, OneAtATime, RowsBehind, RowsOfAnswer, RowsAhead, Settled, NoSchema

-----------------------------------------------------------------------------
(***************************************************************************)
(* The server and the reader.                                              *)
(***************************************************************************)

LEMMA InitIInv == Init => IInv
<1> SUFFICES ASSUME Init PROVE IInv
  OBVIOUS
<1>1. Shapes
  BY DEF Init, Shapes, Nothing, NoSchema, Idle, Empty, Message, Request
<1>2. Waiters /\ Outages /\ Rebuilds /\ NoLayoutYet /\ NotYetServed /\ ClosedLeavesNothing
  BY DEF Init, Waiters, Outages, Outage, Rebuilds, NoLayoutYet, NotYetServed,
         ClosedLeavesNothing, Nothing, NoSchema, Idle, Empty, Plain, Calling, Replaying,
         Callers
<1>3. LayoutsInStep
  <2>1. \A ch \in Channels : server.config[ch] = NoSchema
    BY DEF Init, Nothing
  <2>2. \A c \in Callers, ch \in Channels : ~IsConfig(mailbox[c], ch)
    BY DEF Init, Empty, Plain, IsConfig
  <2>3. wire = << >>
    BY DEF Init
  <2> QED
    BY <2>1, <2>2, <2>3, NewSessionInStep DEF LayoutsInStep
<1> QED
  BY <1>1, <1>2, <1>3 DEF IInv

\* The part of the invariant that speaks of neither layouts nor messages.
LEMMA BookkeepingFrame ==
    ASSUME IInv, UNCHANGED <<channels, book, schemas, call, requests, mailbox,
                             supervisor, todo, stored, schemas_before, session>>,
           disturbed \subseteq disturbed'
    PROVE  /\ Waiters' /\ Rebuilds' /\ NoLayoutYet' /\ ClosedLeavesNothing'
           /\ Outage' = Outage
BY DEF IInv, Waiters, Due, Rebuilds, NoLayoutYet, Calling, ClosedLeavesNothing, Outage

LEMMA ReconfiguresKeeps ==
    ASSUME IInv, NEW ch \in Channels, ServerReconfigures(ch)
    PROVE  IInv'
<1>1. PICK l \in Layouts :
         /\ server' = [server EXCEPT !.config[ch] = [t \in DOMAIN @ |-> l]]
         /\ wire' = Append(wire, [type |-> "FEED_CONFIG", channel |-> ch,
                                  types |-> DOMAIN server.config[ch], layout |-> l])
  BY DEF ServerReconfigures, Replies
<1> DEFINE m == [type |-> "FEED_CONFIG", channel |-> ch,
                 types |-> DOMAIN server.config[ch], layout |-> l]
<1>2. m \in Message /\ IsConfig(m, ch) /\ Meant(m) = l /\ m.layout # "unsaid"
      /\ m.types = DOMAIN server.config[ch]
  <2>1. DOMAIN server.config[ch] \in SUBSET Types
    BY DEF IInv, Shapes
  <2>2. m \in Message
    BY <2>1 DEF Message, Answers
  <2>3. l # "unsaid"
    BY DEF Layouts
  <2> QED
    BY <2>2, <2>3 DEF IsConfig, Meant
<1>3. wire' = Append(wire, m)
  BY <1>1
<1> HIDE DEF m
<1>4. /\ session = "up" /\ server.config[ch] # NoSchema
      /\ disturbed \subseteq disturbed' /\ disturbed' \subseteq disturbed \cup {ch}
      /\ ConfigInFlight(ch) => ch \in disturbed'
      /\ UNCHANGED <<clientVars, callVars, supervisorVars, session>>
  BY DEF ServerReconfigures, Disturbs
<1> USE DEF clientVars, callVars, supervisorVars
<1>5. Waiters' /\ Rebuilds' /\ NoLayoutYet' /\ ClosedLeavesNothing' /\ Outage' = Outage
  BY <1>4, BookkeepingFrame
<1>6. server' = [open |-> server.open, subs |-> server.subs,
                 config |-> [server.config EXCEPT ![ch] = [t \in m.types |-> l]]]
  BY <1>1, <1>2 DEF IInv, Shapes
<1>7. LaysOut(ch, m)
  BY <1>2, <1>3, <1>4, <1>6 DEF IInv, Shapes, LaysOut, ServerKeepsShape
<1>8. Shapes'
  BY <1>2, <1>3, <1>4, <1>6 DEF IInv, Shapes, Message
<1>9. Outages'
  BY <1>4, <1>5 DEF IInv, Outages, Calling
<1>10. NotYetServed'
  <2>1. ASSUME NEW d \in todo \ disturbed, ~(supervisor = "configuring" /\ Due(d))
        PROVE  Unconfigured(d)'
    <3>1. Unconfigured(d) /\ d \in Channels
      BY <1>4, <2>1 DEF IInv, NotYetServed, Shapes
    <3>2. d # ch
      BY <1>4, <3>1 DEF Unconfigured
    <3> QED
      BY <1>7, <3>1, <3>2, <1>2, NothingForOthers, NothingKeepsStep DEF IInv
  <2> QED
    BY <1>4, <2>1 DEF NotYetServed, Due
<1>11. LayoutsInStep'
  <2> SUFFICES ASSUME NEW d \in Channels \ disturbed' PROVE InStep(d)'
    BY DEF LayoutsInStep
  <2>1. InStep(d)
    BY <1>4 DEF IInv, LayoutsInStep
  <2>2. CASE d # ch
    BY <1>2, <1>4, <1>7, <2>1, <2>2, NothingForOthers, NothingKeepsStep DEF IInv
  <2>3. CASE d = ch
    <3>1. ~ConfigInFlight(ch)
      BY <1>4, <2>3
    <3>2. /\ \A k \in DOMAIN wire : ~IsConfig(wire[k], ch)
          /\ \A c \in Callers : ~IsConfig(mailbox[c], ch)
      BY <3>1 DEF ConfigInFlight, IsConfig
    <3> QED
      BY <1>2, <1>4, <1>7, <2>1, <2>3, <3>2, LayoutKeepsStep DEF IInv
  <2> QED
    BY <2>2, <2>3
<1> QED
  BY <1>5, <1>8, <1>9, <1>10, <1>11 DEF IInv

LEMMA SendsRowKeeps ==
    ASSUME IInv, NEW ch \in Channels, NEW t \in Types, ServerSendsRow(ch, t)
    PROVE  IInv'
<1> DEFINE m == [type |-> "FEED_DATA", channel |-> ch, types |-> {t},
                 layout |-> server.config[ch][t]]
<1>1. /\ session = "up" /\ t \in DOMAIN server.config[ch]
      /\ wire' = Append(wire, m)
      /\ UNCHANGED <<clientVars, callVars, supervisorVars, session, server, disturbed>>
  BY DEF ServerSendsRow, Replies
<1> USE DEF clientVars, callVars, supervisorVars
<1>2. m \in Message /\ IsRow(m, ch) /\ m.types = {t}
      /\ m.layout = server.config[ch][t]
  <2>1. server.config[ch][t] \in Layouts
    BY <1>1 DEF IInv, Shapes
  <2>2. m \in Message
    BY <2>1 DEF Message, Answers
  <2> QED
    BY <2>2 DEF IsRow
<1> HIDE DEF m
<1>3. Waiters' /\ Rebuilds' /\ NoLayoutYet' /\ ClosedLeavesNothing' /\ Outage' = Outage
  BY <1>1, BookkeepingFrame
<1>4. Shapes'
  BY <1>1, <1>2 DEF IInv, Shapes
<1>5. Outages'
  BY <1>1, <1>3 DEF IInv, Outages, Calling
<1>6. NotYetServed'
  BY <1>1, <1>2, Appended DEF IInv, NotYetServed, Unconfigured, Due, IsConfig, IsRow
<1>7. LayoutsInStep'
  <2> SUFFICES ASSUME NEW d \in Channels \ disturbed PROVE InStep(d)'
    BY <1>1 DEF LayoutsInStep
  <2>1. InStep(d)
    BY <1>1 DEF IInv, LayoutsInStep
  <2>2. CASE d # ch
    <3>1. NothingFor(d)
      BY <1>1, <1>2, <2>2 DEF NothingFor, IsConfig, IsRow
    <3> QED
      BY <1>1, <2>1, <3>1, NothingKeepsStep DEF IInv
  <2>3. CASE d = ch
    BY <1>1, <1>2, <2>1, <2>3, RowKeepsStep DEF IInv
  <2> QED
    BY <2>2, <2>3
<1> QED
  BY <1>3, <1>4, <1>5, <1>6, <1>7 DEF IInv

LEMMA LossKeeps ==
    ASSUME IInv, LoseSession
    PROVE  IInv'
<1>1. /\ session = "up" /\ session' = "dead" /\ server' = Nothing /\ wire' = << >>
      /\ disturbed' = disturbed \cup ({call.channel} \cap Channels)
      /\ UNCHANGED <<clientVars, callVars, supervisorVars>>
  BY DEF LoseSession
<1> USE DEF clientVars, callVars, supervisorVars
<1>2. Shapes'
  BY <1>1 DEF IInv, Shapes, Nothing, NoSchema
<1>3. Waiters' /\ Rebuilds' /\ NoLayoutYet' /\ ClosedLeavesNothing'
  BY <1>1 DEF IInv, Waiters, Due, Rebuilds, NoLayoutYet, Calling, ClosedLeavesNothing
<1>4. Outages' /\ NotYetServed' /\ LayoutsInStep'
  BY <1>1 DEF IInv, Outages, Outage, Calling, NotYetServed, LayoutsInStep, Nothing
<1> QED
  BY <1>2, <1>3, <1>4 DEF IInv

LEMMA StutterKeeps == IInv /\ UNCHANGED vars => IInv'
<1> SUFFICES ASSUME IInv, UNCHANGED vars PROVE IInv'
  OBVIOUS
<1> USE DEF vars, clientVars, callVars, supervisorVars, serverVars
<1>1. Shapes'
  BY DEF IInv, Shapes
<1>2. Waiters' /\ Rebuilds' /\ NoLayoutYet' /\ ClosedLeavesNothing' /\ Outage' = Outage
  BY BookkeepingFrame
<1>3. Outages' /\ NotYetServed'
  BY <1>2 DEF IInv, Outages, Calling, NotYetServed, Unconfigured, Due, IsConfig
<1>4. LayoutsInStep'
  BY NothingKeepsStep DEF IInv, LayoutsInStep, NothingFor
<1> QED
  BY <1>1, <1>2, <1>3, <1>4 DEF IInv
\* The oldest waiter a message fits is told, and is registered no more.
LEMMA ReaderRoutes ==
    ASSUME IInv, ReaderTakes
    PROVE  /\ session = "up" /\ wire # << >> /\ wire' = Tail(wire)
           /\ UNCHANGED <<channels, next_channel, book, call, supervisorVars, session,
                          server, spent>>
           /\ \/ \E i \in DOMAIN requests :
                    /\ Fits(requests[i], wire[1])
                    /\ requests' = Unregistered(requests[i].caller)
                    /\ mailbox' = [mailbox EXCEPT ![requests[i].caller] = wire[1]]
                    /\ UNCHANGED <<schemas, disturbed>>
              \/ /\ ~IsConfig(wire[1], wire[1].channel)
                 /\ UNCHANGED <<requests, mailbox, schemas>>
                 /\ disturbed \subseteq disturbed'
              \/ /\ IsConfig(wire[1], wire[1].channel)
                 /\ UNCHANGED <<requests, mailbox>>
                 /\ schemas' = [schemas EXCEPT ![wire[1].channel] =
                                   Adopted(schemas[wire[1].channel], wire[1])]
                 /\ disturbed \subseteq disturbed'
<1>1. Head(wire) = wire[1] /\ wire[1] \in Message
  BY Taken DEF IInv, ReaderTakes
<1> DEFINE m == wire[1]
           fitting == {i \in DOMAIN requests : Fits(requests[i], m)}
<1>2. CASE fitting # {}
  BY <1>1, <1>2 DEF ReaderTakes
<1>3. CASE fitting = {} /\ m.type = "FEED_CONFIG"
  BY <1>1, <1>3 DEF ReaderTakes, Disturbs, IsConfig
<1>4. CASE fitting = {} /\ m.type # "FEED_CONFIG"
  <2>1. schemas' = [schemas EXCEPT ![m.channel] = schemas[m.channel]]
    BY <1>1, <1>4 DEF ReaderTakes
  <2>2. schemas' = schemas
    BY <2>1 DEF IInv, Shapes
  <2> QED
    BY <1>1, <1>4, <2>2 DEF ReaderTakes, Disturbs, IsConfig
<1> QED
  BY <1>2, <1>3, <1>4

LEMMA ReaderKeeps ==
    ASSUME IInv, ReaderTakes
    PROVE  IInv'
<1> DEFINE m == wire[1]
<1>1. /\ session = "up" /\ wire # << >> /\ wire' = Tail(wire)
      /\ UNCHANGED <<channels, next_channel, book, call, supervisorVars, session,
                     server, spent>>
      /\ disturbed \subseteq disturbed'
  BY ReaderRoutes
<1> USE DEF supervisorVars
<1>2. m \in Message /\ wire' \in Seq(Message)
  BY <1>1, Taken DEF IInv
<1>3. NotYetServed'
  <2>1. \A k \in DOMAIN wire' : k + 1 \in DOMAIN wire /\ wire'[k] = wire[k + 1]
    BY <1>1, Taken DEF IInv
  <2>2. \A ch \in Channels : Unconfigured(ch) => Unconfigured(ch)'
    BY <1>1, <2>1 DEF Unconfigured, IsConfig
  <2>3. todo \subseteq Channels
    BY DEF IInv, Shapes
  <2> QED
    BY <1>1, <2>2, <2>3 DEF IInv, NotYetServed, Due
<1>4. Outages'
  <2>1. \A ch \in Channels : Calling(ch)' = Calling(ch)
    BY <1>1 DEF Calling
  <2>2. Outage' = Outage
    BY <1>1 DEF Outage
  <2> QED
    BY <1>1, <2>1, <2>2 DEF IInv, Outages
<1>5. ASSUME NEW i \in DOMAIN requests, Fits(requests[i], m),
             requests' = Unregistered(requests[i].caller),
             mailbox' = [mailbox EXCEPT ![requests[i].caller] = m],
             UNCHANGED <<schemas, disturbed>>
      PROVE  IInv'
  <2> DEFINE c == requests[i].caller
  <2>1. /\ c \in Callers /\ requests[i] \in Request
        /\ mailbox \in [Callers -> Message \cup {Empty, Closed}]
    <3>1. requests \in Seq(Request) /\ mailbox \in [Callers -> Message \cup {Empty, Closed}]
      BY DEF IInv, Shapes
    <3>2. requests[i] \in Request
      BY <1>5, <3>1, ElementOfSeq
    <3> QED
      BY <3>1, <3>2 DEF Request
  <2>2. Shapes'
    BY <1>1, <1>2, <1>5, <2>1, UnregisteredElements DEF IInv, Shapes
  <2>3. Waiters'
    <3>1. m.channel = requests[i].channel /\ m.type \in {requests[i].expected, "ERROR"}
      BY <1>5 DEF Fits
    <3>2. c = "owner" \/ c = "supervisor"
      BY <2>1 DEF Callers
    <3>3. /\ \A j \in DOMAIN requests' :
                /\ requests'[j].caller # c
                /\ \E k \in DOMAIN requests : requests'[j] = requests[k]
          /\ \A j, k \in DOMAIN requests' :
                requests'[j].caller = requests'[k].caller => j = k
      BY <1>5, <2>1, UnregisteredElements DEF IInv
    <3>4. /\ mailbox'[c] = m
          /\ \A d \in Callers : d # c => mailbox'[d] = mailbox[d]
      BY <1>5, <2>1
    <3>5. \A d \in Channels : Due(d)' = Due(d)
      BY <1>1 DEF Due
    <3>6. /\ m.channel \in Channels /\ requests[i].channel \in Channels
          /\ "owner" \in Callers /\ "supervisor" \in Callers
      BY <1>2, <2>1 DEF Message, Request, Callers
    <3>7. ASSUME NEW j \in DOMAIN requests'
          PROVE  LET r == requests'[j] IN
                   /\ mailbox'[r.caller] = Empty
                   /\ r.caller = "owner" =>
                         /\ call.at = "waiting" /\ call.channel = r.channel
                         /\ r.expected = "FEED_CONFIG" => call.op = "setup_feed"
                   /\ r.caller = "supervisor" =>
                         /\ supervisor \in {"reopening", "configuring"} /\ Due(r.channel)
                         /\ r.expected = "FEED_CONFIG" => supervisor = "configuring"
      <4>1. PICK k \in DOMAIN requests : requests'[j] = requests[k]
        BY <3>3
      <4>2. requests[k] \in Request /\ requests[k].caller # c
        BY <3>3, <4>1, ElementOfSeq DEF IInv, Shapes
      <4>3. mailbox'[requests[k].caller] = mailbox[requests[k].caller]
        BY <3>4, <4>2 DEF Request
      <4> QED
        BY <4>1, <4>3 DEF IInv, Waiters
    <3>8. CASE c = "owner"
      <4>1. mailbox'["supervisor"] = mailbox["supervisor"] /\ mailbox'["owner"] = m
        BY <3>4, <3>6, <3>8
      <4>2. /\ call.at = "waiting" /\ call.channel = m.channel
            /\ m.type = "FEED_CONFIG" => call.op = "setup_feed"
        BY <3>1, <3>8 DEF IInv, Waiters
      <4> QED
        BY <1>1, <3>3, <3>7, <4>1, <4>2 DEF IInv, Waiters, Due
    <3>9. CASE c = "supervisor"
      <4>1. mailbox'["owner"] = mailbox["owner"] /\ mailbox'["supervisor"] = m
        BY <3>4, <3>6, <3>9
      <4>2. /\ supervisor \in {"reopening", "configuring"} /\ Due(m.channel)
            /\ m.type = "FEED_CONFIG" => supervisor = "configuring"
        BY <3>1, <3>9 DEF IInv, Waiters
      <4> QED
        BY <1>1, <3>3, <3>7, <4>1, <4>2 DEF IInv, Waiters, Due
    <3> QED
      BY <3>2, <3>8, <3>9
  <2>4. Rebuilds' /\ NoLayoutYet' /\ ClosedLeavesNothing'
    BY <1>1, <1>5 DEF IInv, Due, Rebuilds, NoLayoutYet, Calling, ClosedLeavesNothing
  <2>5. LayoutsInStep'
    <3> SUFFICES ASSUME NEW ch \in Channels \ disturbed PROVE InStep(ch)'
      BY <1>5 DEF LayoutsInStep
    <3>1. InStep(ch) /\ \A d \in Callers : mailbox'[d] \in {mailbox[d], m}
      BY <1>1, <1>5, <2>1 DEF IInv, LayoutsInStep
    <3>2. CASE ~IsConfig(m, ch)
      BY <1>1, <1>5, <3>1, <3>2, TakenKeepsStep DEF IInv
    <3>3. CASE IsConfig(m, ch)
      <4>1. requests[i].expected = "FEED_CONFIG" /\ requests[i].channel = ch
        BY <1>5, <3>3 DEF Fits, IsConfig
      <4>2. schemas[ch] = NoSchema
        BY <2>1, <4>1 DEF IInv, Waiters, NoLayoutYet, Calling, Callers
      <4> QED
        BY <1>1, <1>5, <3>1, <3>3, <4>2, AnsweredKeepsStep DEF IInv
    <3> QED
      BY <3>2, <3>3
  <2> QED
    BY <1>3, <1>4, <2>2, <2>3, <2>4, <2>5 DEF IInv
<1>6. ASSUME UNCHANGED <<requests, mailbox>>, disturbed \subseteq disturbed',
             \/ ~IsConfig(m, m.channel) /\ schemas' = schemas
             \/ /\ IsConfig(m, m.channel)
                /\ schemas' = [schemas EXCEPT ![m.channel] =
                                  Adopted(schemas[m.channel], m)]
      PROVE  IInv'
  <2>1. m.channel \in Channels /\ DOMAIN schemas = Channels
    BY <1>2 DEF Message, IInv, Shapes
  <2>2. \A ch \in Channels :
           /\ DOMAIN schemas'[ch] \subseteq DOMAIN schemas[ch]
           /\ schemas[ch] = NoSchema => schemas'[ch] = NoSchema
    BY <1>6, <2>1 DEF Adopted, NoSchema
  <2>3. Shapes'
    BY <1>1, <1>2, <1>6, <2>1, <2>2 DEF IInv, Shapes
  <2>4. Waiters' /\ Rebuilds' /\ NoLayoutYet' /\ ClosedLeavesNothing'
    BY <1>1, <1>6, <2>2 DEF IInv, Waiters, Due, Rebuilds, NoLayoutYet, Calling,
       ClosedLeavesNothing
  <2>5. LayoutsInStep'
    <3> SUFFICES ASSUME NEW ch \in Channels \ disturbed' PROVE InStep(ch)'
      BY DEF LayoutsInStep
    <3>1. InStep(ch)
      BY <1>1, <1>6 DEF IInv, LayoutsInStep
    <3>2. CASE ~IsConfig(m, ch)
      BY <1>1, <1>6, <2>1, <3>1, <3>2, TakenKeepsStep DEF IInv, IsConfig
    <3>3. CASE IsConfig(m, ch)
      BY <1>1, <1>6, <2>1, <3>1, <3>3, AdoptedKeepsStep DEF IInv, IsConfig
    <3> QED
      BY <3>2, <3>3
  <2> QED
    BY <1>3, <1>4, <2>3, <2>4, <2>5 DEF IInv
<1> QED
  BY <1>5, <1>6, ReaderRoutes


-----------------------------------------------------------------------------
(***************************************************************************)
(* The owner.                                                              *)
(***************************************************************************)

\* What a step that lays out nothing, or one layout, leaves of the server's side.
LEMMA ServerShapes ==
    ASSUME Shapes, NEW ch \in Channels, Unlaid \/ \E m \in Message : LaysOut(ch, m)
    PROVE  /\ wire' \in Seq(Message)
           /\ ServerKeepsShape
           /\ \A d \in Channels :
                 /\ DOMAIN server'.config[d] \subseteq Types
                 /\ \A t \in DOMAIN server'.config[d] : server'.config[d][t] \in Layouts
<1>1. DOMAIN NoSchema = {}
  BY DEF NoSchema
<1>2. CASE Unlaid
  <2>1. wire' \in Seq(Message)
    <3>1. wire' = wire \/ \E m \in Message : wire' = Append(wire, m)
      BY <1>2 DEF Unlaid
    <3>2. wire \in Seq(Message)
      BY DEF Shapes
    <3> QED
      BY <3>1, <3>2, AppendProperties
  <2>2. \A d \in Channels : server'.config[d] \in {server.config[d], NoSchema}
    BY <1>2 DEF Unlaid
  <2> QED
    BY <1>1, <1>2, <2>1, <2>2 DEF Shapes, Unlaid
<1>3. ASSUME NEW m \in Message, LaysOut(ch, m)
      PROVE  /\ wire' \in Seq(Message)
             /\ ServerKeepsShape
             /\ \A d \in Channels :
                   /\ DOMAIN server'.config[d] \subseteq Types
                   /\ \A t \in DOMAIN server'.config[d] : server'.config[d][t] \in Layouts
  <2>1. m.types \subseteq Types /\ Meant(m) \in Layouts
    BY DEF Message, Meant, Layouts
  <2>2. server'.config = [server.config EXCEPT ![ch] = [t \in m.types |-> Meant(m)]]
    BY <1>3 DEF LaysOut
  <2> QED
    BY <1>3, <2>1, <2>2 DEF Shapes, LaysOut
<1> QED
  BY <1>2, <1>3

LEMMA RegisteredElements ==
    ASSUME Shapes, NEW c \in Callers, NEW expected \in Answers, NEW ch \in Channels,
           Registers(c, expected, ch)
    PROVE  LET r == [caller |-> c, expected |-> expected, channel |-> ch] IN
           /\ requests' \in Seq(Request)
           /\ DOMAIN requests' = 1 .. (Len(requests) + 1) /\ Len(requests) \in Nat
           /\ DOMAIN requests = 1 .. Len(requests)
           /\ requests'[Len(requests) + 1] = r
           /\ \A j \in DOMAIN requests : requests'[j] = requests[j]
<1> DEFINE r == [caller |-> c, expected |-> expected, channel |-> ch]
<1>1. r \in Request
  BY DEF Request
<1>2. requests' = Append(requests, r)
  BY DEF Registers
<1> HIDE DEF r
<1>3. requests' \in Seq(Request) /\ DOMAIN requests' = 1 .. (Len(requests) + 1)
      /\ Len(requests) \in Nat /\ DOMAIN requests = 1 .. Len(requests)
      /\ requests'[Len(requests) + 1] = r
      /\ \A j \in DOMAIN requests : requests'[j] = requests[j]
  BY <1>1, <1>2 DEF Shapes
<1> QED
  BY <1>3 DEF r

\* A step that lays out nothing keeps every channel in step.
LEMMA UnlaidKeepsSteps ==
    ASSUME IInv, Unlaid, session' = session, todo' = todo,
           supervisor = "configuring" => supervisor' = "configuring",
           disturbed \subseteq disturbed',
           \A ch \in Channels \ disturbed' : schemas'[ch] \in {schemas[ch], NoSchema},
           \A c \in Callers : \/ mailbox'[c] = mailbox[c]
                              \/ mailbox'[c].type # "FEED_CONFIG"
    PROVE  NotYetServed' /\ LayoutsInStep'
<1>1. \A ch \in Channels :
         /\ Unconfigured(ch) => Unconfigured(ch)'
         /\ InStep(ch) /\ ch \notin disturbed' => InStep(ch)'
  BY NothingForOthers, NothingKeepsStep DEF IInv
<1>2. NotYetServed'
  BY <1>1 DEF IInv, Shapes, NotYetServed, Due
<1>3. LayoutsInStep'
  BY <1>1 DEF IInv, LayoutsInStep
<1> QED
  BY <1>2, <1>3

\* The owner begins an operation: nothing is expected of an earlier one.
LEMMA OwnerBegins ==
    ASSUME IInv, call = Idle, UNCHANGED <<channels, book, mailbox, supervisorVars, session>>,
           NEW op \in Operations, NEW ch \in Channels, NEW types \in SUBSET Types,
           NEW at \in {"waiting", "sent"},
           call' = [op |-> op, channel |-> ch, types |-> types, at |-> at],
           op # "create_feed_channel" => ch \in channels,
           \/ requests' = requests
           \/ /\ at = "waiting"
              /\ \E expected \in Answers :
                    /\ Registers("owner", expected, ch)
                    /\ expected = "FEED_CONFIG" => op = "setup_feed",
           disturbed' \in {disturbed, disturbed \cup {ch}}, Outage => ch \in disturbed',
           schemas' = IF op = "setup_feed" THEN Forgotten(ch) ELSE schemas,
           \/ Unlaid
           \/ /\ \E m \in Message : LaysOut(ch, m)
              /\ op = "setup_feed"
              /\ ConfigInFlight(ch) => ch \in disturbed'
    PROVE  IInv'
<1> USE DEF supervisorVars
<1>1. "owner" \in Callers /\ \A c \in Callers : c \in {"owner", "supervisor"}
  BY DEF Callers
<1>2. /\ mailbox["owner"] = Empty
      /\ \A i \in DOMAIN requests : requests[i] \in Request /\ requests[i].caller # "owner"
  <2>1. requests \in Seq(Request)
    BY DEF IInv, Shapes
  <2>2. call.at = "idle"
    BY DEF Idle
  <2> QED
    BY <2>1, <2>2, ElementOfSeq DEF IInv, Waiters
<1>3. Shapes'
  <2>1. requests' \in Seq(Request)
    BY <1>1, RegisteredElements DEF IInv, Shapes
  <2>2. /\ wire' \in Seq(Message)
        /\ ServerKeepsShape
        /\ \A d \in Channels :
              /\ DOMAIN server'.config[d] \subseteq Types
              /\ \A t \in DOMAIN server'.config[d] : server'.config[d][t] \in Layouts
    BY ServerShapes DEF IInv
  <2>3. /\ schemas' = [d \in Channels |-> schemas'[d]]
        /\ \A d \in Channels : DOMAIN schemas'[d] \subseteq Types
    <3>1. schemas' \in {schemas, [schemas EXCEPT ![ch] = NoSchema]} /\ DOMAIN NoSchema = {}
      BY DEF Forgotten, NoSchema
    <3>2. /\ schemas = [d \in Channels |-> schemas[d]]
          /\ \A d \in Channels : DOMAIN schemas[d] \subseteq Types
      BY DEF IInv, Shapes
    <3> QED
      BY <3>1, <3>2
  <2>4. call' \in [op : Operations \cup {"none"}, channel : Channels \cup {0},
                   types : SUBSET Types, at : {"idle", "waiting", "sent"}]
    OBVIOUS
  <2> QED
    BY <2>1, <2>2, <2>3, <2>4 DEF IInv, Shapes, ServerKeepsShape
<1>4. Waiters'
  <2>1. CASE requests' = requests
    <3>1. Empty.type # "FEED_CONFIG" /\ call'.channel = ch /\ call'.op = op
      BY DEF Empty, Plain
    <3>2. \A i \in DOMAIN requests' :
             LET r == requests'[i] IN
               /\ mailbox'[r.caller] = Empty /\ r.caller # "owner"
               /\ r.caller = "supervisor" =>
                     /\ supervisor' \in {"reopening", "configuring"} /\ Due(r.channel)
                     /\ r.expected = "FEED_CONFIG" => supervisor' = "configuring"
      BY <1>2, <2>1 DEF IInv, Waiters
    <3>3. \A i, j \in DOMAIN requests' : requests'[i].caller = requests'[j].caller => i = j
      BY <2>1 DEF IInv, Waiters
    <3> QED
      BY <1>2, <3>1, <3>2, <3>3 DEF IInv, Waiters, Due, Shapes
  <2>2. ASSUME NEW expected \in Answers, at = "waiting", Registers("owner", expected, ch),
               expected = "FEED_CONFIG" => op = "setup_feed"
        PROVE  Waiters'
    <3> DEFINE r == [caller |-> "owner", expected |-> expected, channel |-> ch]
    <3>1. /\ DOMAIN requests' = 1 .. (Len(requests) + 1) /\ Len(requests) \in Nat
          /\ DOMAIN requests = 1 .. Len(requests)
          /\ requests'[Len(requests) + 1] = r
          /\ \A j \in DOMAIN requests : requests'[j] = requests[j]
      BY <1>1, <2>2, RegisteredElements DEF IInv
    <3>2. r.caller = "owner" /\ r.expected = expected /\ r.channel = ch
      OBVIOUS
    <3> HIDE DEF r
    <3>3. call'.at = "waiting" /\ call'.op = op /\ call'.channel = ch
      BY <2>2
    <3>4. \A i, j \in DOMAIN requests' :
             requests'[i].caller = requests'[j].caller => i = j
      BY <1>2, <3>1, <3>2 DEF IInv, Waiters
    <3>5. ASSUME NEW j \in DOMAIN requests'
          PROVE  LET q == requests'[j] IN
                   /\ mailbox'[q.caller] = Empty
                   /\ q.caller = "owner" =>
                         /\ call'.at = "waiting" /\ call'.channel = q.channel
                         /\ q.expected = "FEED_CONFIG" => call'.op = "setup_feed"
                   /\ q.caller = "supervisor" =>
                         /\ supervisor' \in {"reopening", "configuring"} /\ Due(q.channel)
                         /\ q.expected = "FEED_CONFIG" => supervisor' = "configuring"
      <4>1. CASE j = Len(requests) + 1
        BY <1>2, <2>2, <3>1, <3>2, <3>3, <4>1
      <4>2. CASE j # Len(requests) + 1
        <5>1. j \in DOMAIN requests
          BY <3>1, <4>2
        <5> QED
          BY <1>2, <3>1, <5>1 DEF IInv, Waiters
      <4> QED
        BY <4>1, <4>2
    <3>6. Empty.type # "FEED_CONFIG"
      BY DEF Empty, Plain
    <3> QED
      BY <1>2, <3>3, <3>4, <3>5, <3>6 DEF IInv, Waiters, Due
  <2> QED
    BY <2>1, <2>2
<1>5. Outages'
  <2>1. Outage' = Outage
    BY DEF Outage
  <2>2. \A d \in Channels : Calling(d)' => d = ch
    BY DEF Calling
  <2>3. session # "up" => Unlaid
    BY DEF LaysOut
  <2> QED
    BY <2>1, <2>2, <2>3 DEF IInv, Outages, Unlaid
<1>6. Rebuilds' /\ ClosedLeavesNothing'
  BY DEF IInv, Shapes, Rebuilds, ClosedLeavesNothing, Forgotten
<1>7. NoLayoutYet'
  <2>1. \A d \in Channels : Calling(d)' /\ call'.op = "setup_feed"
           => d = ch /\ op = "setup_feed"
    BY DEF Calling
  <2>2. \A d \in Channels : schemas'[d] \in {schemas[d], NoSchema}
    BY DEF IInv, Shapes, Forgotten
  <2>3. op = "setup_feed" => schemas'[ch] = NoSchema
    BY DEF IInv, Shapes, Forgotten
  <2> QED
    BY <2>1, <2>2, <2>3 DEF IInv, NoLayoutYet, Due
<1>8. CASE Unlaid
  <2>1. NotYetServed' /\ LayoutsInStep'
    BY <1>8, UnlaidKeepsSteps DEF IInv, Shapes, Forgotten
  <2> QED
    BY <1>3, <1>4, <1>5, <1>6, <1>7, <2>1 DEF IInv
<1>9. ASSUME NEW m \in Message, LaysOut(ch, m), op = "setup_feed",
             ConfigInFlight(ch) => ch \in disturbed'
      PROVE  IInv'
  <2>1. \A d \in Channels : schemas'[d] \in {schemas[d], NoSchema}
    BY DEF IInv, Shapes, Forgotten
  <2>2. \A d \in Channels \ {ch} :
           /\ Unconfigured(d) => Unconfigured(d)'
           /\ InStep(d) => InStep(d)'
    BY <1>9, <2>1, NothingForOthers, NothingKeepsStep DEF IInv
  <2>3. NotYetServed'
    <3>1. ch \notin todo \/ ch \in disturbed'
      BY DEF IInv, Rebuilds, Replaying, Outage
    <3> QED
      BY <2>2, <3>1 DEF IInv, Shapes, NotYetServed, Due
  <2>4. InStep(ch) /\ ch \notin disturbed' => InStep(ch)'
    <3> SUFFICES ASSUME InStep(ch), ch \notin disturbed' PROVE InStep(ch)'
      OBVIOUS
    <3>1. /\ \A k \in DOMAIN wire : ~IsConfig(wire[k], ch)
          /\ \A c \in Callers : ~IsConfig(mailbox[c], ch)
      BY <1>9 DEF ConfigInFlight, IsConfig
    <3>2. schemas'[ch] = NoSchema
      BY <1>9 DEF IInv, Shapes, Forgotten
    <3> QED
      BY <1>9, <3>1, <3>2, LayoutKeepsStep DEF IInv
  <2>5. LayoutsInStep'
    BY <2>2, <2>4 DEF IInv, LayoutsInStep
  <2> QED
    BY <1>3, <1>4, <1>5, <1>6, <1>7, <2>3, <2>5 DEF IInv
<1> QED
  BY <1>8, <1>9

LEMMA FailsUnconnectedKeeps ==
    ASSUME IInv, FailsUnconnected
    PROVE  IInv'
<1>1. /\ session = "none" /\ call = Idle
      /\ UNCHANGED <<channels, book, callVars, supervisorVars, serverVars>>
      /\ \/ UNCHANGED <<schemas, disturbed>>
         \/ \E ch \in channels : /\ schemas' = Forgotten(ch)
                                 /\ disturbed' = disturbed \cup {ch}
  BY DEF FailsUnconnected, MayCall, Disturbs
<1> USE DEF callVars, supervisorVars, serverVars
<1>2. Shapes'
  BY <1>1 DEF IInv, Shapes, Forgotten, NoSchema
<1>3. Waiters' /\ Outages' /\ Rebuilds'
  BY <1>1 DEF IInv, Waiters, Due, Outages, Outage, Calling, Rebuilds
<1>4. NoLayoutYet' /\ ClosedLeavesNothing'
  BY <1>1 DEF IInv, Shapes, NoLayoutYet, Calling, Due, ClosedLeavesNothing, Forgotten
<1>5. NotYetServed' /\ LayoutsInStep'
  BY <1>1 DEF NotYetServed, LayoutsInStep
<1> QED
  BY <1>2, <1>3, <1>4, <1>5 DEF IInv

LEMMA BeginningsKeep ==
    ASSUME IInv, NEW ch \in Channels,
           \/ CreateFeedChannel \/ ResetSubscriptions(ch) \/ CloseChannel(ch)
           \/ \E types \in SUBSET Types : SetupFeed(ch, types)
           \/ \E t \in Types : Subscribe(ch, t) \/ Unsubscribe(ch, t)
    PROVE  IInv'
<1> USE DEF Begins, MayCall, Disturbs, clientVars
<1>1. CASE CreateFeedChannel
  <2>1. next_channel \in Channels /\ OpensChannel(next_channel)
    BY <1>1 DEF CreateFeedChannel
  <2>2. Unlaid
    BY <2>1, UnlaidAnswers DEF IInv
  <2> QED
    BY <1>1, <2>1, <2>2, OwnerBegins DEF CreateFeedChannel, Operations, Answers
<1>2. CASE ResetSubscriptions(ch)
  <2>1. Unlaid
    BY <1>2, UnlaidAnswers DEF IInv, ResetSubscriptions
  <2> QED
    BY <1>2, <2>1, OwnerBegins DEF ResetSubscriptions, Operations
<1>3. CASE CloseChannel(ch)
  <2>1. Unlaid
    BY <1>3, UnlaidAnswers DEF IInv, CloseChannel
  <2> QED
    BY <1>3, <2>1, OwnerBegins DEF CloseChannel, Operations, Answers
<1>4. ASSUME NEW types \in SUBSET Types, SetupFeed(ch, types)
      PROVE  IInv'
  <2>1. Unlaid \/ \E m \in Message : LaysOut(ch, m)
    BY <1>4, FeedAnswers DEF IInv, SetupFeed
  <2> QED
    BY <1>4, <2>1, OwnerBegins DEF SetupFeed, Operations, Answers
<1>5. ASSUME NEW t \in Types, Subscribe(ch, t)
      PROVE  IInv'
  <2>1. Unlaid
    BY <1>5, UnlaidAnswers DEF IInv, Subscribe
  <2> QED
    BY <1>5, <2>1, OwnerBegins DEF Subscribe, Operations
<1>6. ASSUME NEW t \in Types, Unsubscribe(ch, t)
      PROVE  IInv'
  <2>1. Unlaid
    BY <1>6, UnlaidAnswers DEF IInv, Unsubscribe
  <2> QED
    BY <1>6, <2>1, OwnerBegins DEF Unsubscribe, Operations
<1> QED
  BY <1>1, <1>2, <1>3, <1>4, <1>5, <1>6

\* The operation is over, and nobody waits for it.
LEMMA OwnerEnds ==
    ASSUME IInv, call' = Idle, call.at # "idle",
           requests' = Unregistered("owner"),
           mailbox' = [mailbox EXCEPT !["owner"] = Empty],
           UNCHANGED <<supervisorVars, serverVars>>,
           \A d \in Channels \ {call.channel} :
              /\ d \in channels' <=> d \in channels
              /\ schemas'[d] = schemas[d] /\ book'[d] = book[d],
           channels' \subseteq Channels, DOMAIN book' = Channels,
           schemas' = [d \in Channels |-> schemas'[d]],
           DOMAIN schemas'[call.channel] \subseteq Types,
           \/ call.channel \in channels'
           \/ schemas'[call.channel] = NoSchema /\ book'[call.channel] = << >>
           \/ UNCHANGED <<channels, schemas, book>>,
           \/ schemas'[call.channel] \in {schemas[call.channel], NoSchema}
           \/ /\ IsConfig(mailbox["owner"], call.channel)
              /\ \E types : schemas'[call.channel] = Negotiated(mailbox["owner"], types),
           disturbed' \in {disturbed, disturbed \cup {call.channel}}
    PROVE  IInv'
<1> USE DEF supervisorVars, serverVars
<1> DEFINE ch == call.channel
<1>1. /\ "owner" \in Callers /\ "supervisor" \in Callers
      /\ \A c \in Callers : c \in {"owner", "supervisor"}
  BY DEF Callers
<1>2. ch \in Channels /\ call'.at = "idle" /\ Empty.type # "FEED_CONFIG"
  BY DEF IInv, Waiters, Idle, Empty, Plain
<1>3. Outage => ch \in disturbed'
  BY <1>2 DEF IInv, Outages, Calling
<1>4. Shapes'
  <2>1. requests' \in Seq(Request)
    BY <1>1, UnregisteredElements DEF IInv
  <2>2. call' \in [op : Operations \cup {"none"}, channel : Channels \cup {0},
                   types : SUBSET Types, at : {"idle", "waiting", "sent"}]
    BY DEF Idle
  <2>3. mailbox' \in [Callers -> Message \cup {Empty, Closed}]
    BY DEF IInv, Shapes
  <2>4. \A d \in Channels : DOMAIN schemas'[d] \subseteq Types
    BY DEF IInv, Shapes
  <2> QED
    BY <2>1, <2>2, <2>3, <2>4 DEF IInv, Shapes
<1>5. Waiters'
  <2>1. /\ \A j \in DOMAIN requests' :
              /\ requests'[j].caller # "owner"
              /\ \E k \in DOMAIN requests : requests'[j] = requests[k]
        /\ \A i, j \in DOMAIN requests' :
              requests'[i].caller = requests'[j].caller => i = j
    BY <1>1, UnregisteredElements DEF IInv
  <2>2. mailbox'["owner"] = Empty /\ mailbox'["supervisor"] = mailbox["supervisor"]
    BY <1>1 DEF IInv, Shapes
  <2>3. ASSUME NEW j \in DOMAIN requests'
        PROVE  LET r == requests'[j] IN
                 /\ mailbox'[r.caller] = Empty /\ r.caller # "owner"
                 /\ r.caller = "supervisor" =>
                       /\ supervisor' \in {"reopening", "configuring"} /\ Due(r.channel)
                       /\ r.expected = "FEED_CONFIG" => supervisor' = "configuring"
    <3>1. PICK k \in DOMAIN requests : requests'[j] = requests[k]
      BY <2>1
    <3>2. requests[k] \in Request
      BY ElementOfSeq DEF IInv, Shapes
    <3>3. requests[k].caller = "supervisor"
      BY <1>1, <2>1, <3>1, <3>2 DEF Request
    <3> QED
      BY <2>1, <2>2, <3>1, <3>3 DEF IInv, Waiters
  <2> QED
    BY <1>2, <2>1, <2>2, <2>3 DEF IInv, Waiters, Due
<1>6. Outages'
  BY <1>2 DEF IInv, Outages, Calling
<1>7. Rebuilds'
  BY <1>3 DEF IInv, Shapes, Rebuilds, Outage, Replaying
<1>8. NoLayoutYet'
  <2>1. \A d \in Channels : ~Calling(d)'
    BY <1>2 DEF Calling
  <2>2. \A d \in Channels \ disturbed' : Outage => d # ch
    BY <1>3
  <2> QED
    BY <2>1, <2>2 DEF IInv, NoLayoutYet, Due, Outage
<1>9. ClosedLeavesNothing'
  <2> SUFFICES ASSUME NEW d \in Channels \ (channels' \cup disturbed')
               PROVE  schemas'[d] = NoSchema /\ book'[d] = << >>
    BY DEF ClosedLeavesNothing
  <2> QED
    BY DEF IInv, ClosedLeavesNothing
<1>10. \A d \in Channels : NothingFor(d)
  BY DEF NothingFor
<1>11. \A d \in Channels : Unconfigured(d) => Unconfigured(d)'
  BY DEF Unconfigured, IsConfig
<1>12. NotYetServed'
  BY <1>11 DEF IInv, Shapes, NotYetServed, Due
<1>13. \A c \in Callers : mailbox'[c] = mailbox[c] \/ mailbox'[c].type # "FEED_CONFIG"
  BY <1>2 DEF IInv, Shapes
<1>14. LayoutsInStep'
  <2> SUFFICES ASSUME session = "up", NEW d \in Channels \ disturbed' PROVE InStep(d)'
    BY DEF LayoutsInStep
  <2>1. InStep(d)
    BY DEF IInv, LayoutsInStep
  <2>2. CASE schemas'[d] \in {schemas[d], NoSchema}
    BY <1>10, <1>13, <2>1, <2>2, NothingKeepsStep DEF IInv
  <2>3. ASSUME d = ch, IsConfig(mailbox["owner"], ch), NEW types,
               schemas'[ch] = Negotiated(mailbox["owner"], types)
        PROVE  InStep(d)'
    BY <1>1, <1>10, <2>1, <2>3, InstalledKeepsStep DEF IInv
  <2> QED
    BY <2>2, <2>3
<1> QED
  BY <1>4, <1>5, <1>6, <1>7, <1>8, <1>9, <1>12, <1>14 DEF IInv

\* An operation that was answered, or never waited, has nothing registered.
LEMMA NotRegistered ==
    ASSUME IInv, mailbox["owner"] # Empty \/ call.at # "waiting"
    PROVE  Unregistered("owner") = requests
BY DEF IInv, Waiters, Unregistered, RequestsOf

LEMMA EndingsKeep ==
    ASSUME IInv,
           \/ SendReturns \/ SendAbandoned \/ CreateCompletes \/ SetupCompletes
           \/ CloseCompletes \/ CallFails \/ CallAbandoned
    PROVE  IInv'
<1> USE DEF Completes, Disturbs, clientVars
<1> DEFINE ch == call.channel
<1>1. call.at # "idle"
  BY DEF SendReturns, SendAbandoned, CreateCompletes, SetupCompletes, CloseCompletes,
         CallFails, CallAbandoned
<1>2. /\ ch \in Channels
      /\ call.op # "create_feed_channel" => ch \in channels
      /\ schemas = [d \in Channels |-> schemas[d]] /\ DOMAIN book = Channels
      /\ channels \subseteq Channels /\ DOMAIN schemas[ch] \subseteq Types
  BY <1>1 DEF IInv, Shapes, Waiters
<1>3. Empty.type \notin Answers \cup {"closed"} /\ DOMAIN NoSchema = {}
  BY DEF Empty, Plain, Answers, NoSchema
<1>4. CASE call.at = "sent" /\ UNCHANGED mailbox
  <2>1. mailbox["owner"] = Empty /\ Unregistered("owner") = requests
    BY <1>4, NotRegistered DEF IInv, Waiters
  <2>2. mailbox' = [mailbox EXCEPT !["owner"] = Empty]
    BY <1>4, <2>1 DEF IInv, Shapes
  <2>3. CASE SendReturns
    <3>1. call.op # "create_feed_channel"
      BY <2>3 DEF SendReturns
    <3>2. \E entries : book' = [book EXCEPT ![ch] = entries]
      BY <2>3 DEF SendReturns, ForgetChannel
    <3>3. /\ call' = Idle
          /\ UNCHANGED <<channels, schemas, requests, supervisorVars, serverVars, disturbed>>
      BY <2>3 DEF SendReturns
    <3> QED
      BY <1>1, <1>2, <2>1, <2>2, <3>1, <3>2, <3>3, OwnerEnds
  <2>4. CASE SendAbandoned
    BY <1>1, <1>2, <2>1, <2>2, <2>4, OwnerEnds DEF SendAbandoned
  <2> QED
    BY <1>4, <2>3, <2>4 DEF SendReturns, SendAbandoned, CreateCompletes, SetupCompletes,
                            CloseCompletes, CallFails, CallAbandoned
<1>5. CASE CallAbandoned
  BY <1>1, <1>2, <1>5, OwnerEnds DEF CallAbandoned
<1>6. CASE CreateCompletes
  <2>1. Unregistered("owner") = requests
    BY <1>3, <1>6, NotRegistered DEF CreateCompletes, Answers
  <2> QED
    BY <1>1, <1>2, <1>6, <2>1, OwnerEnds DEF CreateCompletes
<1>7. CASE SetupCompletes
  <2>1. Unregistered("owner") = requests
    BY <1>3, <1>7, NotRegistered DEF SetupCompletes, Answers
  <2>2. IsConfig(mailbox["owner"], ch) /\ ch \in channels /\ call.types \subseteq Types
    BY <1>2, <1>7 DEF SetupCompletes, IsConfig, IInv, Waiters, Shapes
  <2>3. \/ schemas' = schemas
        \/ schemas' = [schemas EXCEPT ![ch] = Negotiated(mailbox["owner"], call.types)]
    BY <1>7 DEF SetupCompletes
  <2>4. DOMAIN Negotiated(mailbox["owner"], call.types) = call.types
    BY DEF Negotiated
  <2>5. disturbed' \in {disturbed, disturbed \cup {ch}}
    BY <1>7 DEF SetupCompletes
  <2>6. /\ call' = Idle /\ mailbox' = [mailbox EXCEPT !["owner"] = Empty]
        /\ UNCHANGED <<channels, book, requests, supervisorVars, serverVars>>
    BY <1>7 DEF SetupCompletes
  <2>7. /\ schemas' = [d \in Channels |-> schemas'[d]]
        /\ \A d \in Channels \ {ch} : schemas'[d] = schemas[d]
        /\ \/ schemas'[ch] = schemas[ch]
           \/ schemas'[ch] = Negotiated(mailbox["owner"], call.types)
        /\ DOMAIN schemas'[ch] \subseteq Types
    BY <1>2, <2>2, <2>3, <2>4
  <2> QED
    BY <1>1, <1>2, <2>1, <2>2, <2>5, <2>6, <2>7, OwnerEnds
<1>8. CASE CloseCompletes
  <2>1. Unregistered("owner") = requests
    BY <1>3, <1>8, NotRegistered DEF CloseCompletes, Answers
  <2> QED
    BY <1>1, <1>2, <1>3, <1>8, <2>1, OwnerEnds
    DEF CloseCompletes, ForgetChannel, SchemasAfterClose, Forgotten
<1>9. CASE CallFails
  <2>1. Unregistered("owner") = requests
    BY <1>3, <1>9, NotRegistered DEF CallFails, Answers
  <2> QED
    BY <1>1, <1>2, <1>9, <2>1, OwnerEnds DEF CallFails
<1> QED
  BY <1>4, <1>5, <1>6, <1>7, <1>8, <1>9 DEF SendReturns, SendAbandoned

-----------------------------------------------------------------------------
(***************************************************************************)
(* The supervisor.                                                         *)
(***************************************************************************)

LEMMA SupervisorNotRegistered ==
    ASSUME IInv
    PROVE  /\ mailbox["supervisor"] # Empty \/ supervisor \notin {"reopening", "configuring"}
                => Unregistered("supervisor") = requests
           /\ supervisor \notin {"reopening", "configuring"}
                => mailbox = [mailbox EXCEPT !["supervisor"] = Empty]
BY DEF IInv, Shapes, Waiters, Unregistered, RequestsOf

\* The supervisor waits for nothing any more.
LEMMA SupervisorMoves ==
    ASSUME IInv, UNCHANGED <<call, channels>>,
           mailbox' = [mailbox EXCEPT !["supervisor"] = Empty],
           requests' = Unregistered("supervisor")
    PROVE  /\ Waiters' /\ requests' \in Seq(Request)
           /\ mailbox' \in [Callers -> Message \cup {Empty, Closed}]
<1>1. /\ "owner" \in Callers /\ "supervisor" \in Callers
      /\ \A c \in Callers : c \in {"owner", "supervisor"}
  BY DEF Callers
<1>2. /\ requests' \in Seq(Request)
      /\ \A j \in DOMAIN requests' :
            /\ requests'[j].caller # "supervisor"
            /\ \E k \in DOMAIN requests : requests'[j] = requests[k]
      /\ \A i, j \in DOMAIN requests' :
            requests'[i].caller = requests'[j].caller => i = j
  BY <1>1, UnregisteredElements DEF IInv
<1>3. /\ mailbox'["supervisor"] = Empty /\ mailbox'["owner"] = mailbox["owner"]
      /\ mailbox' \in [Callers -> Message \cup {Empty, Closed}]
  BY <1>1 DEF IInv, Shapes
<1>4. Empty.type # "FEED_CONFIG"
  BY DEF Empty, Plain
<1>5. ASSUME NEW j \in DOMAIN requests'
      PROVE  LET r == requests'[j] IN
               /\ mailbox'[r.caller] = Empty /\ r.caller # "supervisor"
               /\ r.caller = "owner" =>
                     /\ call'.at = "waiting" /\ call'.channel = r.channel
                     /\ r.expected = "FEED_CONFIG" => call'.op = "setup_feed"
  <2>1. PICK k \in DOMAIN requests : requests'[j] = requests[k]
    BY <1>2
  <2>2. requests[k] \in Request
    BY ElementOfSeq DEF IInv, Shapes
  <2>3. requests[k].caller = "owner"
    BY <1>1, <1>2, <2>1, <2>2 DEF Request
  <2> QED
    BY <1>2, <1>3, <2>1, <2>3 DEF IInv, Waiters
<1> QED
  BY <1>2, <1>3, <1>4, <1>5 DEF IInv, Waiters

\* Or for one thing.
LEMMA SupervisorAsks ==
    ASSUME IInv, UNCHANGED <<call, channels, todo>>,
           mailbox["supervisor"] # Empty \/ supervisor \notin {"reopening", "configuring"},
           mailbox' = [mailbox EXCEPT !["supervisor"] = Empty],
           NEW expected \in Answers, NEW ch \in Channels,
           Registers("supervisor", expected, ch),
           supervisor' \in {"reopening", "configuring"}, Due(ch),
           expected = "FEED_CONFIG" => supervisor' = "configuring"
    PROVE  /\ Waiters' /\ requests' \in Seq(Request)
           /\ mailbox' \in [Callers -> Message \cup {Empty, Closed}]
<1>1. /\ "owner" \in Callers /\ "supervisor" \in Callers
      /\ \A c \in Callers : c \in {"owner", "supervisor"}
  BY DEF Callers
<1> DEFINE r == [caller |-> "supervisor", expected |-> expected, channel |-> ch]
<1>2. /\ requests' \in Seq(Request)
      /\ DOMAIN requests' = 1 .. (Len(requests) + 1) /\ Len(requests) \in Nat
      /\ DOMAIN requests = 1 .. Len(requests)
      /\ requests'[Len(requests) + 1] = r
      /\ \A j \in DOMAIN requests : requests'[j] = requests[j]
  BY <1>1, RegisteredElements DEF IInv
<1>3. r.caller = "supervisor" /\ r.expected = expected /\ r.channel = ch
  OBVIOUS
<1> HIDE DEF r
<1>4. /\ mailbox'["supervisor"] = Empty /\ mailbox'["owner"] = mailbox["owner"]
      /\ mailbox' \in [Callers -> Message \cup {Empty, Closed}]
  BY <1>1 DEF IInv, Shapes
<1>5. Empty.type # "FEED_CONFIG"
  BY DEF Empty, Plain
<1>6. \A j \in DOMAIN requests : requests[j] \in Request /\ requests[j].caller = "owner"
  <2> SUFFICES ASSUME NEW j \in DOMAIN requests
               PROVE  requests[j] \in Request /\ requests[j].caller = "owner"
    OBVIOUS
  <2>1. requests[j] \in Request
    BY ElementOfSeq DEF IInv, Shapes
  <2>2. requests[j].caller # "supervisor"
    BY DEF IInv, Waiters
  <2> QED
    BY <1>1, <2>1, <2>2 DEF Request
<1>7. \A i, j \in DOMAIN requests' : requests'[i].caller = requests'[j].caller => i = j
  BY <1>2, <1>3, <1>6 DEF IInv, Waiters
<1>8. ASSUME NEW j \in DOMAIN requests'
      PROVE  LET q == requests'[j] IN
               /\ mailbox'[q.caller] = Empty
               /\ q.caller = "owner" =>
                     /\ call'.at = "waiting" /\ call'.channel = q.channel
                     /\ q.expected = "FEED_CONFIG" => call'.op = "setup_feed"
               /\ q.caller = "supervisor" =>
                     /\ supervisor' \in {"reopening", "configuring"} /\ Due(q.channel)
                     /\ q.expected = "FEED_CONFIG" => supervisor' = "configuring"
  <2>1. CASE j = Len(requests) + 1
    BY <1>2, <1>3, <1>4, <2>1
  <2>2. CASE j # Len(requests) + 1
    <3>1. j \in DOMAIN requests
      BY <1>2, <2>2
    <3> QED
      BY <1>2, <1>4, <1>6, <3>1 DEF IInv, Waiters
  <2> QED
    BY <2>1, <2>2
<1> QED
  BY <1>2, <1>4, <1>5, <1>7, <1>8 DEF IInv, Waiters, Due

\* The lowest channel is one.
LEMMA OneIsDue ==
    ASSUME Shapes, NEW c, NEW d, Due(c), Due(d)
    PROVE  c = d
<1>1. c \in Channels /\ d \in Channels /\ c <= d /\ d <= c
  BY DEF Due, Shapes
<1> QED
  BY <1>1 DEF Channels

\* During an outage the owner waits for layouts of channels at risk only.
LEMMA OwnerAtRisk ==
    ASSUME IInv, Outage, NEW ch \in Channels \ disturbed
    PROVE  ~Calling(ch) /\ ~IsConfig(mailbox["owner"], ch)
<1>1. ~Calling(ch)
  BY DEF IInv, Outages
<1>2. Empty.type # "FEED_CONFIG"
  BY DEF Empty, Plain
<1> QED
  BY <1>1, <1>2 DEF IInv, Waiters, IsConfig, Calling

LEMMA LearningKeeps ==
    ASSUME IInv, SupervisorLearnsOfLoss
    PROVE  IInv'
<1>1. /\ supervisor = "live" /\ session = "dead" /\ supervisor' = "backoff"
      /\ requests' = << >>
      /\ mailbox' = [c \in Callers |->
                        IF \E i \in DOMAIN requests : requests[i].caller = c
                        THEN Closed ELSE mailbox[c]]
      /\ UNCHANGED <<clientVars, call, todo, stored, schemas_before, serverVars, disturbed>>
  BY DEF SupervisorLearnsOfLoss
<1> USE DEF clientVars, serverVars
<1>2. Shapes'
  BY <1>1 DEF IInv, Shapes
<1>3. Waiters'
  <2>1. "owner" \in Callers /\ "supervisor" \in Callers
    BY DEF Callers
  <2>2. Closed.type # "FEED_CONFIG" /\ Empty.type # "FEED_CONFIG"
    BY DEF Closed, Empty, Plain
  <2>3. mailbox'["supervisor"] = Empty
    BY <1>1, <2>1 DEF IInv, Waiters
  <2>4. mailbox'["owner"] # Empty => call.at = "waiting"
    BY <1>1, <2>1 DEF IInv, Waiters
  <2>5. mailbox'["owner"].type = "FEED_CONFIG" => mailbox'["owner"] = mailbox["owner"]
    BY <1>1, <2>1, <2>2
  <2>6. DOMAIN requests' = {}
    BY <1>1
  <2> QED
    BY <1>1, <2>2, <2>3, <2>4, <2>5, <2>6 DEF IInv, Waiters
<1>4. Outages' /\ Rebuilds'
  BY <1>1 DEF IInv, Outages, Outage, Calling, Rebuilds, Replaying
<1>5. NoLayoutYet' /\ ClosedLeavesNothing' /\ NotYetServed' /\ LayoutsInStep'
  BY <1>1 DEF IInv, NoLayoutYet, Calling, ClosedLeavesNothing, NotYetServed, LayoutsInStep
<1> QED
  BY <1>2, <1>3, <1>4, <1>5 DEF IInv

LEMMA AttemptsKeep ==
    ASSUME IInv, AttemptBegins \/ HandshakeFails \/ ReplayEnds
    PROVE  IInv'
<1>1. /\ UNCHANGED <<clientVars, callVars, todo, stored, serverVars, disturbed>>
      /\ \/ /\ supervisor = "backoff" /\ supervisor' = "handshaking"
            /\ schemas_before' = schemas
         \/ /\ supervisor = "handshaking" /\ supervisor' \in {"backoff", "gave_up"}
            /\ UNCHANGED schemas_before
         \/ /\ supervisor = "next_channel" /\ todo = {} /\ supervisor' = "live"
            /\ UNCHANGED schemas_before
  BY DEF AttemptBegins, HandshakeFails, ReplayEnds
<1> USE DEF clientVars, callVars, serverVars
<1>2. Shapes'
  BY <1>1 DEF IInv, Shapes
<1>3. Waiters'
  BY <1>1 DEF IInv, Waiters
<1>4. Outages'
  BY <1>1 DEF IInv, Outages, Outage, Calling
<1>5. Rebuilds'
  BY <1>1 DEF IInv, Rebuilds, Replaying, ClosedLeavesNothing
<1>6. NoLayoutYet' /\ ClosedLeavesNothing'
  BY <1>1 DEF IInv, NoLayoutYet, Calling, ClosedLeavesNothing
<1>7. \A d \in Channels : NothingFor(d)
  BY <1>1 DEF NothingFor
<1>8. NotYetServed'
  BY <1>1 DEF IInv, NotYetServed, Unconfigured, IsConfig
<1>9. LayoutsInStep'
  BY <1>1, <1>7, NothingKeepsStep DEF IInv, LayoutsInStep
<1> QED
  BY <1>2, <1>3, <1>4, <1>5, <1>6, <1>8, <1>9 DEF IInv

LEMMA HandshakeKeeps ==
    ASSUME IInv, HandshakeSucceeds
    PROVE  IInv'
<1>1. /\ supervisor = "handshaking" /\ supervisor' = "next_channel"
      /\ session # "up" /\ session' = "up" /\ todo' = channels
      /\ UNCHANGED <<clientVars, callVars, stored, schemas_before, server, wire, disturbed>>
  BY DEF HandshakeSucceeds, IInv, Outages
<1> USE DEF clientVars, callVars
<1>2. /\ wire' = << >> /\ \A ch \in Channels : server'.config[ch] = NoSchema
      /\ Outage /\ DOMAIN wire' = {}
  BY <1>1 DEF IInv, Outages, Outage
<1>3. Shapes'
  BY <1>1 DEF IInv, Shapes, Replaying
<1>4. Waiters'
  BY <1>1 DEF IInv, Waiters
<1>5. Outages'
  BY <1>1, <1>2 DEF IInv, Outages, Calling
<1>6. Rebuilds'
  BY <1>1 DEF IInv, Rebuilds, Replaying
<1>7. NoLayoutYet' /\ ClosedLeavesNothing'
  BY <1>1 DEF IInv, NoLayoutYet, Calling, ClosedLeavesNothing
<1>8. NotYetServed'
  BY <1>1, <1>2 DEF IInv, Shapes, NotYetServed, Unconfigured
<1>9. LayoutsInStep'
  <2> SUFFICES ASSUME NEW ch \in Channels \ disturbed PROVE InStep(ch)'
    BY <1>1 DEF LayoutsInStep
  <2>1. ~IsConfig(mailbox["owner"], ch)
    BY <1>2, OwnerAtRisk
  <2>2. ~IsConfig(mailbox["supervisor"], ch)
    BY <1>1 DEF IInv, Waiters, IsConfig
  <2>3. \A c \in Callers : ~IsConfig(mailbox[c], ch)'
    BY <1>1, <2>1, <2>2 DEF Callers, IsConfig
  <2>4. OneAtATime(ch)' /\ RowsBehind(ch)' /\ RowsOfAnswer(ch)' /\ RowsAhead(ch)'
    BY <1>2, <2>3 DEF OneAtATime, RowsBehind, RowsOfAnswer, RowsAhead
  <2>5. Settled(ch)'
    BY <1>2 DEF Settled, NoSchema
  <2> QED
    BY <2>4, <2>5 DEF InStep
<1> QED
  BY <1>3, <1>4, <1>5, <1>6, <1>7, <1>8, <1>9 DEF IInv

LEMMA ReopensKeeps ==
    ASSUME IInv, NEW ch \in Channels, ReplayReopens(ch)
    PROVE  IInv'
<1>1. /\ supervisor = "next_channel" /\ supervisor' = "reopening" /\ Due(ch)
      /\ Registers("supervisor", "CHANNEL_OPENED", ch)
      /\ OpensChannel(ch)
      /\ UNCHANGED <<clientVars, call, mailbox, todo, stored, schemas_before, session,
                     disturbed>>
  BY DEF ReplayReopens
<1> USE DEF clientVars
<1>2. Unlaid
  BY <1>1, UnlaidAnswers DEF IInv
<1>3. Waiters' /\ requests' \in Seq(Request)
  <2>1. mailbox' = [mailbox EXCEPT !["supervisor"] = Empty]
    BY <1>1, SupervisorNotRegistered
  <2> QED
    BY <1>1, <2>1, SupervisorAsks DEF Answers
<1>4. Shapes'
  BY <1>1, <1>2, <1>3, ServerShapes DEF IInv, Shapes, ServerKeepsShape, Replaying
<1>5. Outages'
  BY <1>1, <1>2 DEF IInv, Outages, Outage, Calling, Unlaid
<1>6. Rebuilds' /\ NoLayoutYet' /\ ClosedLeavesNothing'
  BY <1>1 DEF IInv, Rebuilds, Replaying, NoLayoutYet, Calling, ClosedLeavesNothing
<1>7. NotYetServed' /\ LayoutsInStep'
  BY <1>1, <1>2, UnlaidKeepsSteps
<1> QED
  BY <1>3, <1>4, <1>5, <1>6, <1>7 DEF IInv

LEMMA ReconfigureKeeps ==
    ASSUME IInv, NEW ch \in Channels, ReplayReconfigures(ch)
    PROVE  IInv'
<1>1. /\ supervisor = "reopening" /\ Due(ch)
      /\ mailbox["supervisor"].type = "CHANNEL_OPENED"
      /\ mailbox' = [mailbox EXCEPT !["supervisor"] = Empty]
      /\ UNCHANGED <<channels, book, call, schemas_before, session, disturbed>>
  BY DEF ReplayReconfigures, Heard
<1>2. /\ mailbox["supervisor"] # Empty /\ Unregistered("supervisor") = requests
      /\ Empty.type # "FEED_CONFIG"
  BY <1>1, SupervisorNotRegistered DEF Empty, Plain
<1>3. \A c \in Callers : mailbox'[c] = mailbox[c] \/ mailbox'[c].type # "FEED_CONFIG"
  BY <1>1, <1>2 DEF IInv, Shapes
<1>4. Outage /\ ch \in todo /\ todo \subseteq Channels
  BY <1>1 DEF Outage, Due, IInv, Shapes
<1>5. CASE /\ todo' = todo \ {ch} /\ supervisor' = "next_channel"
           /\ UNCHANGED <<schemas, stored, requests, server, wire>>
  <2>1. Waiters' /\ mailbox' \in [Callers -> Message \cup {Empty, Closed}]
    BY <1>1, <1>2, <1>5, SupervisorMoves
  <2>2. Shapes'
    BY <1>1, <1>5, <2>1 DEF IInv, Shapes, Replaying
  <2>3. Outages' /\ Rebuilds' /\ NoLayoutYet' /\ ClosedLeavesNothing'
    BY <1>1, <1>5 DEF IInv, Outages, Outage, Calling, Rebuilds, Replaying, NoLayoutYet,
                      ClosedLeavesNothing
  <2>4. \A d \in Channels : NothingFor(d)
    BY <1>5 DEF NothingFor
  <2>5. NotYetServed'
    BY <1>1, <1>4, <1>5, <2>4, NothingKeepsStep DEF IInv, NotYetServed
  <2>6. LayoutsInStep'
    BY <1>1, <1>3, <1>5, <2>4, NothingKeepsStep DEF IInv, LayoutsInStep
  <2> QED
    BY <2>1, <2>2, <2>3, <2>5, <2>6 DEF IInv
<1>6. CASE /\ stored' = DOMAIN schemas[ch] /\ schemas' = Forgotten(ch)
           /\ Registers("supervisor", "FEED_CONFIG", ch)
           /\ ConfiguresFeed(ch, DOMAIN schemas[ch])
           /\ supervisor' = "configuring" /\ UNCHANGED todo
  <2>1. /\ Waiters' /\ requests' \in Seq(Request)
        /\ mailbox' \in [Callers -> Message \cup {Empty, Closed}]
    BY <1>1, <1>2, <1>6, SupervisorAsks DEF Answers
  <2>2. DOMAIN schemas[ch] \in SUBSET Types
    BY DEF IInv, Shapes
  <2>3. Unlaid \/ \E m \in Message : LaysOut(ch, m)
    BY <1>6, <2>2, FeedAnswers DEF IInv
  <2>4. /\ schemas' = [d \in Channels |-> schemas'[d]] /\ schemas'[ch] = NoSchema
        /\ \A d \in Channels : schemas'[d] \in {schemas[d], NoSchema}
        /\ \A d \in Channels : DOMAIN schemas'[d] \subseteq Types
    <3>1. schemas' = [schemas EXCEPT ![ch] = NoSchema] /\ DOMAIN NoSchema = {}
      BY <1>6 DEF Forgotten, NoSchema
    <3>2. /\ schemas = [d \in Channels |-> schemas[d]]
          /\ \A d \in Channels : DOMAIN schemas[d] \subseteq Types
      BY DEF IInv, Shapes
    <3> QED
      BY <3>1, <3>2
  <2>5. Shapes'
    BY <1>1, <1>6, <2>1, <2>2, <2>3, <2>4, ServerShapes
    DEF IInv, Shapes, ServerKeepsShape, Replaying
  <2>6. Outages'
    BY <1>1, <1>6, <2>3 DEF IInv, Outages, Outage, Calling, Unlaid, LaysOut
  <2>7. Rebuilds' /\ ClosedLeavesNothing'
    BY <1>1, <1>6, <2>4 DEF IInv, Rebuilds, Replaying, ClosedLeavesNothing
  <2>8. NoLayoutYet'
    <3>1. \A d \in Channels : Due(d)' => d = ch
      BY <1>1, <1>6, OneIsDue DEF IInv, Due
    <3>2. \A d \in Channels \ disturbed : ~Calling(d)'
      BY <1>1, <1>4, OwnerAtRisk DEF Calling
    <3> QED
      BY <1>1, <2>4, <3>1, <3>2 DEF NoLayoutYet
  <2>9. \A d \in Channels \ {ch} :
           /\ Unconfigured(d) => Unconfigured(d)'
           /\ InStep(d) => InStep(d)'
    BY <1>3, <2>3, <2>4, NothingForOthers, NothingKeepsStep DEF IInv
  <2>10. NotYetServed'
    <3>1. Due(ch)'
      BY <1>1, <1>6 DEF Due
    <3> QED
      BY <1>1, <1>4, <1>6, <2>9, <3>1 DEF IInv, NotYetServed
  <2>11. ASSUME session = "up", ch \notin disturbed, InStep(ch)
         PROVE  InStep(ch)'
    <3>1. CASE Unlaid
      BY <1>3, <2>4, <2>11, <3>1, NothingForOthers, NothingKeepsStep DEF IInv
    <3>2. ASSUME NEW m \in Message, LaysOut(ch, m) PROVE InStep(ch)'
      <4>1. \A k \in DOMAIN wire : ~IsConfig(wire[k], ch)
        BY <1>1, <1>4, <2>11 DEF IInv, NotYetServed, Unconfigured
      <4>2. \A c \in Callers : ~IsConfig(mailbox[c], ch)
        BY <1>1, <1>4, <2>11, OwnerAtRisk DEF Callers, IsConfig
      <4> QED
        BY <1>3, <2>4, <2>11, <3>2, <4>1, <4>2, LayoutKeepsStep DEF IInv
    <3> QED
      BY <2>3, <3>1, <3>2
  <2>12. LayoutsInStep'
    BY <1>1, <2>9, <2>11 DEF IInv, LayoutsInStep
  <2> QED
    BY <2>1, <2>5, <2>6, <2>7, <2>8, <2>10, <2>12 DEF IInv
<1> QED
  BY <1>5, <1>6 DEF ReplayReconfigures

LEMMA ResubscribesKeeps ==
    ASSUME IInv, NEW ch \in Channels, ReplayResubscribes(ch)
    PROVE  IInv'
<1>1. /\ supervisor = "configuring" /\ supervisor' = "next_channel" /\ Due(ch)
      /\ mailbox["supervisor"].type = "FEED_CONFIG"
      /\ mailbox' = [mailbox EXCEPT !["supervisor"] = Empty]
      /\ schemas' = [schemas EXCEPT ![ch] = Negotiated(mailbox["supervisor"], stored)]
      /\ Ignores \/ Subscribes(ch, ToSet(book[ch]), Added(server.subs[ch], book[ch]))
      /\ todo' = todo \ {ch}
      /\ UNCHANGED <<channels, book, call, requests, stored, schemas_before, session,
                     disturbed>>
  BY DEF ReplayResubscribes, Heard
<1>2. /\ mailbox["supervisor"] # Empty /\ Unregistered("supervisor") = requests
      /\ Empty.type # "FEED_CONFIG"
  BY <1>1, SupervisorNotRegistered DEF Empty, Plain
<1>3. IsConfig(mailbox["supervisor"], ch)
  BY <1>1, OneIsDue DEF IInv, Waiters, IsConfig
<1>4. Outage /\ ch \in todo /\ todo \subseteq Channels /\ ch \in channels \cup disturbed
  BY <1>1 DEF Outage, Due, IInv, Shapes, Rebuilds
<1>5. Unlaid
  BY <1>1, UnlaidAnswers DEF IInv
<1>6. /\ Waiters' /\ requests' \in Seq(Request)
      /\ mailbox' \in [Callers -> Message \cup {Empty, Closed}]
  BY <1>1, <1>2, SupervisorMoves
<1>7. /\ schemas' = [d \in Channels |-> schemas'[d]]
      /\ schemas'[ch] = Negotiated(mailbox["supervisor"], stored)
      /\ \A d \in Channels \ {ch} : schemas'[d] = schemas[d]
  BY <1>1 DEF IInv, Shapes
<1>8. \A d \in Channels : DOMAIN schemas'[d] \subseteq Types
  BY <1>7 DEF IInv, Shapes, Negotiated
<1>9. Shapes'
  BY <1>1, <1>5, <1>6, <1>7, <1>8, ServerShapes DEF IInv, Shapes, ServerKeepsShape, Replaying
<1>10. Outages'
  BY <1>1, <1>5 DEF IInv, Outages, Outage, Calling, Unlaid
<1>11. Rebuilds' /\ ClosedLeavesNothing'
  BY <1>1, <1>4, <1>7 DEF IInv, Rebuilds, Replaying, ClosedLeavesNothing
<1>12. NoLayoutYet'
  BY <1>1, <1>4, OwnerAtRisk DEF NoLayoutYet, Calling
<1>13. \A d \in Channels : NothingFor(d)
  BY <1>5, NothingForOthers DEF IInv
<1>14. NotYetServed'
  <2>1. \A d \in todo \ {ch} : ~Due(d)
    BY <1>1, OneIsDue DEF IInv
  <2>2. \A d \in Channels : Unconfigured(d) => Unconfigured(d)'
    BY <1>13, NothingKeepsStep DEF IInv
  <2> QED
    BY <1>1, <1>4, <2>1, <2>2 DEF IInv, NotYetServed
<1>15. \A c \in Callers : mailbox'[c] = mailbox[c] \/ mailbox'[c].type # "FEED_CONFIG"
  BY <1>1, <1>2 DEF IInv, Shapes
<1>16. LayoutsInStep'
  <2> SUFFICES ASSUME session = "up", NEW d \in Channels \ disturbed PROVE InStep(d)'
    BY <1>1 DEF LayoutsInStep
  <2>1. InStep(d)
    BY DEF IInv, LayoutsInStep
  <2>2. CASE d = ch
    BY <1>1, <1>3, <1>7, <1>13, <2>1, <2>2, InstalledKeepsStep DEF IInv, Callers
  <2>3. CASE d # ch
    BY <1>7, <1>13, <1>15, <2>1, <2>3, NothingKeepsStep DEF IInv
  <2> QED
    BY <2>2, <2>3
<1> QED
  BY <1>6, <1>9, <1>10, <1>11, <1>12, <1>14, <1>16 DEF IInv

\* Every way a replay fails tears the session down, to try again or to give up.
LEMMA FailureTearsDown ==
    ASSUME ReplayTimesOut \/ ReopenRefused \/ ConfigurationRefused
    PROVE  /\ supervisor \in {"reopening", "configuring"}
           /\ mailbox' = [mailbox EXCEPT !["supervisor"] = Empty]
           /\ \E to \in {"backoff", "gave_up"} : TearsDown(to)
<1>1. CASE ReplayTimesOut
  BY <1>1 DEF ReplayTimesOut
<1>2. CASE ReopenRefused
  BY <1>2 DEF ReopenRefused, Heard, AfterRefusal
<1>3. CASE ConfigurationRefused
  BY <1>3 DEF ConfigurationRefused, Heard, AfterRefusal
<1> QED
  BY <1>1, <1>2, <1>3

LEMMA TearDownKeeps ==
    ASSUME IInv, ReplayTimesOut \/ ReopenRefused \/ ConfigurationRefused
    PROVE  IInv'
<1>1. /\ supervisor \in Replaying /\ supervisor' \in {"backoff", "gave_up"}
      /\ session' = "none" /\ server' = Nothing /\ wire' = << >>
      /\ schemas' = schemas_before
      /\ requests' = Unregistered("supervisor") /\ todo' = {}
      /\ disturbed' = disturbed \cup ({call.channel} \cap Channels)
      /\ mailbox' = [mailbox EXCEPT !["supervisor"] = Empty]
      /\ UNCHANGED <<channels, book, call, stored, schemas_before>>
  BY FailureTearsDown DEF TearsDown, Replaying, SchemasAfterFailure
<1>2. /\ Waiters' /\ requests' \in Seq(Request)
      /\ mailbox' \in [Callers -> Message \cup {Empty, Closed}]
  BY <1>1, SupervisorMoves
<1>3. Shapes'
  <2>1. /\ server' = [open |-> server'.open, config |-> server'.config,
                      subs |-> server'.subs]
        /\ DOMAIN server'.config = Channels
        /\ \A d \in Channels : DOMAIN server'.config[d] = {}
    BY <1>1 DEF Nothing, NoSchema
  <2>2. /\ schemas' = [d \in Channels |-> schemas'[d]]
        /\ \A d \in Channels : DOMAIN schemas'[d] \subseteq Types
    BY <1>1 DEF IInv, Shapes
  <2> QED
    BY <1>1, <1>2, <2>1, <2>2 DEF IInv, Shapes
<1>4. Outages'
  BY <1>1 DEF IInv, Outages, Outage, Calling, Nothing
<1>5. Rebuilds' /\ ClosedLeavesNothing'
  BY <1>1 DEF IInv, Rebuilds, Replaying, ClosedLeavesNothing
<1>6. NoLayoutYet' /\ NotYetServed' /\ LayoutsInStep'
  BY <1>1 DEF NoLayoutYet, Calling, NotYetServed, LayoutsInStep
<1> QED
  BY <1>2, <1>3, <1>4, <1>5, <1>6 DEF IInv

-----------------------------------------------------------------------------
LEMMA NextKeepsIInv == IInv /\ [Next]_vars => IInv'
<1> SUFFICES ASSUME IInv, [Next]_vars PROVE IInv'
  OBVIOUS
<1>1. CASE UNCHANGED vars
  BY <1>1, StutterKeeps
<1>2. CASE OwnerStep
  <2>1. CASE CreateFeedChannel
    BY <2>1, BeginningsKeep DEF CreateFeedChannel
  <2>2. CASE FailsUnconnected
    BY <2>2, FailsUnconnectedKeeps
  <2>3. ASSUME NEW ch \in Channels,
               \/ \E types \in SUBSET Types : SetupFeed(ch, types)
               \/ \E t \in Types : Subscribe(ch, t) \/ Unsubscribe(ch, t)
               \/ ResetSubscriptions(ch) \/ CloseChannel(ch)
        PROVE  IInv'
    BY <2>3, BeginningsKeep
  <2>4. CASE \/ SendReturns \/ SendAbandoned \/ CreateCompletes \/ SetupCompletes
             \/ CloseCompletes \/ CallFails \/ CallAbandoned
    BY <2>4, EndingsKeep
  <2> QED
    BY <1>2, <2>1, <2>2, <2>3, <2>4 DEF OwnerStep
<1>3. CASE SupervisorStep
  BY <1>3, LearningKeeps, AttemptsKeep, HandshakeKeeps, ReopensKeeps, ReconfigureKeeps,
     ResubscribesKeeps, TearDownKeeps DEF SupervisorStep
<1>4. CASE ServerStep
  BY <1>4, ReconfiguresKeeps, SendsRowKeeps DEF ServerStep
<1>5. CASE ReaderTakes
  BY <1>5, ReaderKeeps
<1>6. CASE LoseSession
  BY <1>6, LossKeeps
<1> QED
  BY <1>1, <1>2, <1>3, <1>4, <1>5, <1>6 DEF Next

\* The layouts stay in step: what is under way, what the client holds and what
\* the server uses fit together on every channel that is not at risk.
THEOREM Invariance == Spec => []IInv
BY InitIInv, NextKeepsIInv, PTL DEF Spec

\* A row is decoded against the layout the server used for it, whatever the
\* server reconfigures and however often the session is lost and rebuilt.
THEOREM RowsAreDecodedAsSent == Spec => []DecodedAsSent
<1>1. IInv => DecodedAsSent
  <2> SUFFICES ASSUME IInv, session = "up", wire # << >>,
                      Head(wire).channel \notin disturbed
               PROVE  RightLayout(Head(wire))
    BY DEF DecodedAsSent
  <2>1. /\ 1 \in DOMAIN wire /\ Head(wire) = wire[1] /\ wire[1] \in Message
        /\ DOMAIN wire \subseteq Nat \ {0}
    BY DEF IInv, Shapes
  <2>2. InStep(wire[1].channel)
    BY <2>1 DEF IInv, LayoutsInStep, Message
  <2>3. CASE wire[1].type = "FEED_DATA"
    <3>1. ASSUME NEW k \in DOMAIN wire, IsConfig(wire[k], wire[1].channel)
          PROVE  1 < k
      BY <2>1, <2>3, <3>1 DEF IsConfig
    <3> QED
      BY <2>1, <2>2, <2>3, <3>1 DEF InStep, RowsAhead, IsRow
  <2> QED
    BY <2>1, <2>3 DEF RightLayout
<1> QED
  BY <1>1, Invariance, PTL

\* A channel that is closed, or was never opened, leaves neither a layout nor a
\* subscription behind, whatever a rebuild puts back.
THEOREM ClosedChannelsLeaveNothing == Spec => []ClosedLeavesNothing
<1>1. IInv => ClosedLeavesNothing
  BY DEF IInv
<1> QED
  BY <1>1, Invariance, PTL

-----------------------------------------------------------------------------
(***************************************************************************)
(* The lists of subscriptions.                                             *)
(***************************************************************************)

Less == {p \in Nat \X Nat : p[1] < p[2]}

\* A set of numbers has a least one.
LEMMA LeastNumber ==
    ASSUME NEW S, S \subseteq Nat, S # {}
    PROVE  \E m \in S : \A k \in S : m <= k
<1>1. IsWellFoundedOn(Less, Nat)
  BY NatLessThanWellFounded, Zenon DEF OpToRel, Less
<1>2. \E m \in S : \A k \in S : <<k, m>> \notin Less
  BY <1>1, WFMin, Zenon
<1>3. \A k, m \in Nat : <<k, m>> \notin Less => m <= k
  BY DEF Less
<1> QED
  BY <1>2, <1>3

\* A list without one of its entries has no new ones, nor has one that an
\* entry was added to, but for that entry; and no entry is there twice.
LEMMA RemovedElements ==
    ASSUME NEW S, NEW s \in Seq(S), NEW e
    PROVE  /\ Removed(s, e) \in Seq(S)
           /\ ToSet(Removed(s, e)) \subseteq ToSet(s)
           /\ IsInjective(s) => /\ IsInjective(Removed(s, e))
                                /\ e \notin ToSet(Removed(s, e))
<1>1. /\ DOMAIN s = 1 .. Len(s) /\ Len(s) \in Nat
  OBVIOUS
<1>2. CASE ~ \E i \in 1 .. Len(s) : s[i] = e
  BY <1>1, <1>2 DEF Removed, RemoveFirst, ToSet
<1>3. CASE \E i \in 1 .. Len(s) : s[i] = e
  <2> DEFINE I == {i \in 1 .. Len(s) : s[i] = e}
             n == SelectInSeq(s, LAMBDA v : v = e)
             left == RemoveAt(s, n)
  <2>1. I # {} /\ I \subseteq Nat
    BY <1>1, <1>3
  <2>2. n = CHOOSE x \in I : \A y \in I : x =< y
    BY <2>1 DEF SelectInSeq, Min
  <2> HIDE DEF n
  <2>3. \E x \in I : \A y \in I : x =< y
    <3> HIDE DEF I
    <3> QED
      BY <2>1, LeastNumber
  <2>4. n \in 1 .. Len(s) /\ s[n] = e
    BY <2>2, <2>3
  <2>5. Removed(s, e) = left
    BY <1>3 DEF Removed, RemoveFirst, n
  <2>6. /\ left \in Seq(S)
        /\ DOMAIN left = 1 .. (Len(s) - 1)
        /\ \A j \in 1 .. (Len(s) - 1) :
              left[j] = IF j < n THEN s[j] ELSE s[j + 1]
    BY <1>1, <2>4, RemoveAtElements
  <2> HIDE DEF left
  <2>7. \A j \in 1 .. (Len(s) - 1) : j \in DOMAIN s /\ j + 1 \in DOMAIN s
    BY <1>1
  <2>8. left \in Seq(S) /\ ToSet(left) \subseteq ToSet(s)
    BY <2>6, <2>7 DEF ToSet
  <2>9. ASSUME IsInjective(s) PROVE IsInjective(left) /\ e \notin ToSet(left)
    <3>1. \A j \in DOMAIN left : \E k \in DOMAIN s :
             left[j] = s[k] /\ k = IF j < n THEN j ELSE j + 1
      BY <2>6, <2>7
    <3>2. \A j, k \in DOMAIN s : s[j] = s[k] => j = k
      BY <2>9 DEF IsInjective
    <3>3. IsInjective(left)
      <4> SUFFICES ASSUME NEW i \in DOMAIN left, NEW j \in DOMAIN left,
                          left[i] = left[j]
                   PROVE  i = j
        BY DEF IsInjective
      <4>1. PICK k \in DOMAIN s : left[i] = s[k] /\ k = IF i < n THEN i ELSE i + 1
        BY <3>1
      <4>2. PICK l \in DOMAIN s : left[j] = s[l] /\ l = IF j < n THEN j ELSE j + 1
        BY <3>1
      <4>3. k = l
        BY <3>2, <4>1, <4>2
      <4>4. i \in Nat /\ j \in Nat /\ n \in Nat
        BY <1>1, <2>4, <2>6
      <4> QED
        BY <4>1, <4>2, <4>3, <4>4
    <3>4. ASSUME NEW j \in DOMAIN left PROVE left[j] # e
      <4>1. PICK k \in DOMAIN s : left[j] = s[k] /\ k = IF j < n THEN j ELSE j + 1
        BY <3>1
      <4>2. j \in Nat /\ n \in Nat /\ n \in DOMAIN s
        BY <1>1, <2>4, <2>6
      <4>3. k # n
        BY <4>1, <4>2
      <4> QED
        BY <2>4, <3>2, <4>1, <4>2, <4>3
    <3> QED
      BY <3>3, <3>4 DEF ToSet
  <2> QED
    BY <2>5, <2>8, <2>9
<1> QED
  BY <1>2, <1>3

LEMMA InsertedElements ==
    ASSUME NEW S, NEW s \in Seq(S), NEW e \in S
    PROVE  /\ Inserted(s, e) \in Seq(S)
           /\ ToSet(Inserted(s, e)) \subseteq ToSet(s) \cup {e}
           /\ IsInjective(s) => IsInjective(Inserted(s, e))
<1> DEFINE r == Removed(s, e)
<1>1. /\ r \in Seq(S) /\ ToSet(r) \subseteq ToSet(s)
      /\ IsInjective(s) => IsInjective(r) /\ e \notin ToSet(r)
  BY RemovedElements
<1> HIDE DEF r
<1>2. /\ Append(r, e) \in Seq(S)
      /\ DOMAIN Append(r, e) = 1 .. (Len(r) + 1)
      /\ \A j \in 1 .. Len(r) : j \in DOMAIN r /\ Append(r, e)[j] = r[j]
      /\ Append(r, e)[Len(r) + 1] = e
      /\ Len(r) \in Nat
  BY <1>1
<1>3. \A j \in 1 .. (Len(r) + 1) : j \in 1 .. Len(r) \/ j = Len(r) + 1
  BY <1>2
<1>4. ToSet(Append(r, e)) \subseteq ToSet(r) \cup {e}
  BY <1>2, <1>3 DEF ToSet
<1>5. ASSUME IsInjective(r), e \notin ToSet(r) PROVE IsInjective(Append(r, e))
  <2>1. \A j \in DOMAIN r : r[j] # e
    BY <1>5 DEF ToSet
  <2> QED
    BY <1>2, <1>3, <1>5, <2>1 DEF IsInjective
<1> QED
  BY <1>1, <1>2, <1>4, <1>5 DEF Inserted, r

\* The elements of a finite set, one after the other.
LEMMA ListedSet ==
    ASSUME NEW S, NEW T \in SUBSET S, IsFiniteSet(T)
    PROVE  SetToSeq(T) \in Seq(S) /\ (T = {} => SetToSeq(T) = << >>)
<1> DEFINE n == Cardinality(T)
           q == SetToSeq(T)
<1>1. n \in Nat /\ ExistsBijection(1 .. n, T)
  BY FS_CardinalityType
<1> HIDE DEF n
<1>2. \E f \in [1 .. n -> T] : IsInjective(f)
  BY <1>1 DEF ExistsBijection, Bijection, Injection, IsInjective
<1>3. q \in [1 .. n -> T]
  BY <1>2 DEF SetToSeq, n
<1> HIDE DEF q
<1>4. q \in Seq(S)
  <2>1. q \in [1 .. n -> S]
    BY <1>3
  <2> QED
    BY <1>1, <2>1
<1>5. ASSUME T = {} PROVE q = << >>
  <2>1. n = 0
    BY <1>5, FS_EmptySet DEF n
  <2>2. q \in [1 .. 0 -> T]
    BY <1>3, <2>1
  <2>3. Len(q) = 0 /\ q \in Seq(S)
    BY <1>4, <2>2
  <2> QED
    BY <2>3, EmptySeq
<1> QED
  BY <1>4, <1>5 DEF q

\* What the server has after a list was added.
LEMMA AddedElements ==
    ASSUME NEW S, NEW subs \in Seq(S), NEW entries \in Seq(S)
    PROVE  /\ Added(subs, entries) \in Seq(S)
           /\ subs = << >> => Added(subs, entries) = entries
<1> DEFINE other == ToSet(subs) \ ToSet(entries)
<1>1. IsFiniteSet(ToSet(subs)) /\ ToSet(subs) \subseteq S
  <2>1. subs \in Surjection(1 .. Len(subs), ToSet(subs))
    BY DEF Surjection, ToSet
  <2>2. IsFiniteSet(1 .. Len(subs))
    BY FS_Interval
  <2> QED
    BY <2>1, <2>2, FS_Surjection DEF ToSet
<1>2. IsFiniteSet(other) /\ other \in SUBSET S
  BY <1>1, FS_Subset
<1>3. subs = << >> => other = {}
  BY DEF ToSet
<1> HIDE DEF other
<1>4. SetToSeq(other) \in Seq(S) /\ (other = {} => SetToSeq(other) = << >>)
  BY <1>2, ListedSet
<1>5. Added(subs, entries) = SetToSeq(other) \o entries
  BY DEF Added, other
<1>6. SetToSeq(other) \o entries \in Seq(S)
  BY <1>4, ConcatProperties
<1>7. << >> \o entries = entries
  OBVIOUS
<1> QED
  BY <1>3, <1>4, <1>5, <1>6, <1>7

LEMMA NoElements ==
    ASSUME NEW S, NEW s \in Seq(S), ToSet(s) \subseteq {}
    PROVE  s = << >>
<1>1. 1 \notin DOMAIN s
  BY DEF ToSet
<1> QED
  BY <1>1

-----------------------------------------------------------------------------
(***************************************************************************)
(* What is said about a channel.                                           *)
(***************************************************************************)

\* A message is on its way after a step only if it was before, or was sent.
LEMMA WordsGrow ==
    ASSUME Shapes, NEW type, NEW ch, NEW m \in Message, wire' = Append(wire, m),
           InWire(type, ch)'
    PROVE  InWire(type, ch) \/ (m.type = type /\ m.channel = ch)
<1>1. PICK k \in DOMAIN wire' : wire'[k].type = type /\ wire'[k].channel = ch
  BY DEF InWire
<1>2. k \in 1 .. (Len(wire) + 1) /\ Len(wire) \in Nat
  BY <1>1, Appended
<1>3. CASE k = Len(wire) + 1
  BY <1>1, <1>3, Appended
<1>4. CASE k # Len(wire) + 1
  <2>1. k \in DOMAIN wire
    BY <1>2, <1>4, Appended
  <2> QED
    BY <1>1, <2>1, Appended DEF InWire
<1> QED
  BY <1>3, <1>4

LEMMA QuestionsGrow ==
    ASSUME Shapes, NEW caller \in Callers, NEW expected \in Answers, NEW d \in Channels,
           Registers(caller, expected, d),
           NEW c, NEW type, NEW ch, Asked(c, type, ch)'
    PROVE  Asked(c, type, ch) \/ (c = caller /\ type = expected /\ ch = d)
<1> DEFINE r == [caller |-> caller, expected |-> expected, channel |-> d]
           q == [caller |-> c, expected |-> type, channel |-> ch]
<1>1. /\ DOMAIN requests' = 1 .. (Len(requests) + 1) /\ Len(requests) \in Nat
      /\ DOMAIN requests = 1 .. Len(requests)
      /\ requests'[Len(requests) + 1] = r
      /\ \A j \in DOMAIN requests : requests'[j] = requests[j]
  BY RegisteredElements
<1>2. PICK i \in DOMAIN requests' : requests'[i] = q
  BY DEF Asked
<1>3. CASE i = Len(requests) + 1
  <2>1. r = q
    BY <1>1, <1>2, <1>3
  <2>2. r.caller = q.caller /\ r.expected = q.expected /\ r.channel = q.channel
    BY <2>1
  <2> QED
    BY <2>2
<1>4. CASE i # Len(requests) + 1
  <2>1. i \in DOMAIN requests
    BY <1>1, <1>2, <1>4
  <2> QED
    BY <1>1, <1>2, <2>1 DEF Asked
<1> QED
  BY <1>3, <1>4

LEMMA QuestionsShrink ==
    ASSUME Shapes, Waiters, NEW caller \in Callers, requests' = Unregistered(caller),
           NEW c, NEW type, NEW ch, Asked(c, type, ch)'
    PROVE  Asked(c, type, ch)
<1>1. PICK i \in DOMAIN requests' :
         requests'[i] = [caller |-> c, expected |-> type, channel |-> ch]
  BY DEF Asked
<1>2. \E k \in DOMAIN requests : requests'[i] = requests[k]
  BY <1>1, UnregisteredElements
<1> QED
  BY <1>1, <1>2 DEF Asked

\* What the server does about a channel changes nothing of another, and it
\* tells of its side of the channel only.
KeepsService(ch) ==
    /\ ch \in server'.open <=> ch \in server.open
    /\ DOMAIN server'.config[ch] = DOMAIN server.config[ch]
    /\ server'.subs[ch] = server.subs[ch]
SpeaksOf(d) ==
    /\ DOMAIN server'.subs = Channels
    /\ \A ch \in Channels \ {d} : KeepsService(ch)
    /\ \/ wire' = wire
       \/ \E m \in Message : m.channel = d /\ wire' = Append(wire, m)

LEMMA OpensAnswers ==
    ASSUME Shapes, Books, NEW d \in Channels, OpensChannel(d)
    PROVE  /\ SpeaksOf(d)
           /\ DOMAIN server'.config[d] = DOMAIN server.config[d]
           /\ server'.subs[d] = server.subs[d]
           /\ d \in server.open => d \in server'.open
           /\ InWire("CHANNEL_OPENED", d)' =>
                 InWire("CHANNEL_OPENED", d) \/ d \in server'.open
           /\ InWire("FEED_CONFIG", d)' => InWire("FEED_CONFIG", d)
<1> USE DEF Replies
<1>1. CASE /\ session = "up" /\ d \notin server.open
           /\ server' = [server EXCEPT !.open = @ \cup {d}]
           /\ Replies(Plain("CHANNEL_OPENED", d))
  <2>1. /\ server'.config = server.config /\ server'.subs = server.subs
        /\ server'.open = server.open \cup {d}
    BY <1>1 DEF Shapes
  <2> DEFINE m == Plain("CHANNEL_OPENED", d)
  <2>2. m \in Message /\ m.type = "CHANNEL_OPENED" /\ m.channel = d /\ wire' = Append(wire, m)
    BY <1>1, PlainMessages DEF Answers, Plain
  <2> HIDE DEF m
  <2>3. \A type : InWire(type, d)' => InWire(type, d) \/ m.type = type
    BY <2>2, WordsGrow
  <2> QED
    BY <2>1, <2>2, <2>3 DEF SpeaksOf, KeepsService, Books
<1>2. CASE session = "up" /\ Refuses(d)
  <2> DEFINE m == Plain("ERROR", d)
  <2>1. m \in Message /\ m.type = "ERROR" /\ m.channel = d /\ wire' = Append(wire, m)
        /\ server' = server
    BY <1>2, PlainMessages DEF Answers, Plain, Refuses
  <2> HIDE DEF m
  <2>2. \A type : InWire(type, d)' => InWire(type, d) \/ m.type = type
    BY <2>1, WordsGrow
  <2> QED
    BY <2>1, <2>2 DEF SpeaksOf, KeepsService, Books
<1>3. CASE Ignores
  BY <1>3 DEF Ignores, SpeaksOf, KeepsService, Books, InWire
<1> QED
  BY <1>1, <1>2, <1>3 DEF OpensChannel

LEMMA ConfiguresAnswers ==
    ASSUME Shapes, Books, NEW d \in Channels, NEW types \in SUBSET Types,
           ConfiguresFeed(d, types)
    PROVE  /\ SpeaksOf(d)
           /\ server'.subs[d] = server.subs[d]
           /\ d \in server'.open <=> d \in server.open
           /\ InWire("CHANNEL_OPENED", d)' => InWire("CHANNEL_OPENED", d)
           /\ InWire("FEED_CONFIG", d)' =>
                 InWire("FEED_CONFIG", d) \/ DOMAIN server'.config[d] = types
<1> USE DEF Replies
<1>1. ASSUME NEW l \in Layouts, NEW said \in BOOLEAN, session = "up",
             server' = [server EXCEPT !.config[d] = [t \in types |-> l]],
             Replies([type |-> "FEED_CONFIG", channel |-> d, types |-> types,
                      layout |-> IF said THEN l ELSE "unsaid"])
      PROVE  /\ SpeaksOf(d)
             /\ server'.subs[d] = server.subs[d]
             /\ d \in server'.open <=> d \in server.open
             /\ InWire("CHANNEL_OPENED", d)' => InWire("CHANNEL_OPENED", d)
             /\ DOMAIN server'.config[d] = types
  <2> DEFINE m == [type |-> "FEED_CONFIG", channel |-> d, types |-> types,
                   layout |-> IF said THEN l ELSE "unsaid"]
  <2>1. /\ server'.open = server.open /\ server'.subs = server.subs
        /\ \A ch \in Channels \ {d} : server'.config[ch] = server.config[ch]
        /\ server'.config[d] = [t \in types |-> l]
    BY <1>1 DEF Shapes
  <2>2. m \in Message /\ m.type = "FEED_CONFIG" /\ m.channel = d /\ wire' = Append(wire, m)
    BY <1>1 DEF Message, Answers
  <2> HIDE DEF m
  <2>3. \A type : InWire(type, d)' => InWire(type, d) \/ m.type = type
    BY <2>2, WordsGrow
  <2> QED
    BY <2>1, <2>2, <2>3 DEF SpeaksOf, KeepsService, Books
<1>2. CASE session = "up" /\ Refuses(d)
  <2> DEFINE m == Plain("ERROR", d)
  <2>1. m \in Message /\ m.type = "ERROR" /\ m.channel = d /\ wire' = Append(wire, m)
        /\ server' = server
    BY <1>2, PlainMessages DEF Answers, Plain, Refuses
  <2> HIDE DEF m
  <2>2. \A type : InWire(type, d)' => InWire(type, d) \/ m.type = type
    BY <2>1, WordsGrow
  <2> QED
    BY <2>1, <2>2 DEF SpeaksOf, KeepsService, Books
<1>3. CASE Ignores
  BY <1>3 DEF Ignores, SpeaksOf, KeepsService, Books, InWire
<1> QED
  BY <1>1, <1>2, <1>3 DEF ConfiguresFeed

LEMMA ClosesAnswers ==
    ASSUME Shapes, Books, NEW d \in Channels, ClosesChannel(d)
    PROVE  SpeaksOf(d)
<1> USE DEF Replies
<1>1. CASE /\ session = "up" /\ d \in server.open
           /\ server' = [open   |-> server.open \ {d},
                         config |-> [server.config EXCEPT ![d] = NoSchema],
                         subs   |-> [server.subs EXCEPT ![d] = << >>]]
           /\ Replies(Plain("CHANNEL_CLOSED", d))
  <2>1. /\ server'.open = server.open \ {d}
        /\ DOMAIN server'.subs = Channels
        /\ \A ch \in Channels \ {d} : /\ server'.config[ch] = server.config[ch]
                                      /\ server'.subs[ch] = server.subs[ch]
    BY <1>1 DEF Shapes, Books
  <2> DEFINE m == Plain("CHANNEL_CLOSED", d)
  <2>2. m \in Message /\ m.channel = d /\ wire' = Append(wire, m)
    BY <1>1, PlainMessages DEF Answers, Plain
  <2> HIDE DEF m
  <2> QED
    BY <2>1, <2>2 DEF SpeaksOf, KeepsService
<1>2. CASE session = "up" /\ Refuses(d)
  <2> DEFINE m == Plain("ERROR", d)
  <2>1. m \in Message /\ m.channel = d /\ wire' = Append(wire, m) /\ server' = server
    BY <1>2, PlainMessages DEF Answers, Plain, Refuses
  <2> HIDE DEF m
  <2> QED
    BY <2>1 DEF SpeaksOf, KeepsService, Books
<1>3. CASE Ignores
  BY <1>3 DEF Ignores, SpeaksOf, KeepsService, Books
<1> QED
  BY <1>1, <1>2, <1>3 DEF ClosesChannel

\* A list of subscriptions that the server takes is what it has then.
TakesList(d, subs) ==
    /\ wire' = wire
    /\ server'.subs[d] = subs
    /\ d \in server'.open
    /\ DOMAIN server'.config[d] = DOMAIN server.config[d]

LEMMA ListTaken ==
    ASSUME Shapes, Books, NEW d \in Channels, NEW subs, d \in server.open,
           server' = [server EXCEPT !.subs[d] = subs], UNCHANGED wire
    PROVE  SpeaksOf(d) /\ TakesList(d, subs)
<1>1. /\ server'.open = server.open /\ server'.config = server.config
      /\ DOMAIN server'.subs = Channels /\ server'.subs[d] = subs
      /\ \A ch \in Channels \ {d} : server'.subs[ch] = server.subs[ch]
  BY DEF Shapes, Books
<1> QED
  BY <1>1 DEF SpeaksOf, KeepsService, TakesList

LEMMA SubscribesAnswers ==
    ASSUME Shapes, Books, NEW d \in Channels, NEW types, NEW subs,
           Subscribes(d, types, subs)
    PROVE  /\ SpeaksOf(d)
           /\ session = "up" /\ d \in server.open /\ types \subseteq DOMAIN server.config[d]
              => TakesList(d, subs)
<1>1. CASE /\ d \in server.open
           /\ server' = [server EXCEPT !.subs[d] = subs] /\ UNCHANGED wire
  BY <1>1, ListTaken
<1>2. CASE /\ session = "up" /\ Refuses(d)
           /\ ~(d \in server.open /\ types \subseteq DOMAIN server.config[d])
  <2> DEFINE m == Plain("ERROR", d)
  <2>1. m \in Message /\ m.channel = d /\ wire' = Append(wire, m) /\ server' = server
    BY <1>2, PlainMessages DEF Answers, Plain, Refuses, Replies
  <2> HIDE DEF m
  <2> QED
    BY <1>2, <2>1 DEF SpeaksOf, KeepsService, Books
<1>3. CASE Ignores /\ session # "up"
  BY <1>3 DEF Ignores, SpeaksOf, KeepsService, Books
<1> QED
  BY <1>1, <1>2, <1>3 DEF Subscribes

LEMMA UnsubscribesAnswers ==
    ASSUME Shapes, Books, NEW d \in Channels, NEW subs, Unsubscribes(d, subs)
    PROVE  /\ SpeaksOf(d)
           /\ session = "up" /\ d \in server.open => TakesList(d, subs)
<1>1. CASE /\ d \in server.open
           /\ server' = [server EXCEPT !.subs[d] = subs] /\ UNCHANGED wire
  BY <1>1, ListTaken
<1>2. CASE Ignores /\ ~(session = "up" /\ d \in server.open)
  BY <1>2 DEF Ignores, SpeaksOf, KeepsService, Books
<1> QED
  BY <1>1, <1>2 DEF Unsubscribes

-----------------------------------------------------------------------------
(***************************************************************************)
(* A step that leaves what the client knows of a channel, what is done     *)
(* there, what the server has, and what is said about it, as it was.       *)
(***************************************************************************)
KeepsRecord(ch) ==
    /\ ch \in channels' <=> ch \in channels
    /\ ch \in todo' <=> ch \in todo
    /\ ch >= next_channel' <=> ch >= next_channel
    /\ DOMAIN schemas'[ch] = DOMAIN schemas[ch]
    /\ book'[ch] = book[ch]
KeepsWork(ch) ==
    /\ Calling(ch)' <=> Calling(ch)
    /\ Calling(ch) => call' = call
    /\ Reconfiguring(ch)' <=> Reconfiguring(ch)
    /\ Reconfiguring(ch) => stored' = stored
KeepsWord(ch) ==
    /\ Opened(ch)' => Opened(ch)
    /\ \A c \in Callers : Answering(c, ch)' => Answering(c, ch)

LEMMA ServedFrame ==
    ASSUME Numbered, Numbered', NEW ch \in Channels, KeepsRecord(ch), KeepsWork(ch),
           KeepsService(ch), KeepsWord(ch), Served(ch)
    PROVE  Served(ch)'
<1>1. \A op : IsBeing(op, ch)' <=> IsBeing(op, ch)
  BY DEF KeepsWork, IsBeing
<1>2. \A op : IsBeing(op, ch) => call'.types = call.types
  BY DEF KeepsWork, IsBeing
<1>3. Gone(ch)' <=> Gone(ch)
  BY <1>1 DEF Gone, KeepsRecord, Numbered, Channels
<1>5. Unserved(ch) => Unserved(ch)'
  BY DEF Unserved, KeepsService
<1>6. "owner" \in Callers /\ "supervisor" \in Callers
  BY DEF Callers
<1>7. /\ ch \in channels' \ todo' /\ ~Calling(ch)' =>
            OpenAs(ch, DOMAIN schemas[ch], book[ch])'
      /\ ch >= next_channel' \/ IsBeing("create_feed_channel", ch)' => Unserved(ch)'
  BY <1>1, <1>5 DEF Served, OpenAs, KeepsService, KeepsRecord, KeepsWork
<1> QED
  BY <1>1, <1>2, <1>3, <1>6, <1>7
  DEF Served, OpenAs, KeepsRecord, KeepsWork, KeepsService, KeepsWord

KeepsCopy ==
    supervisor' \in Replaying \cup {"handshaking"} =>
        supervisor \in Replaying \cup {"handshaking"} /\ UNCHANGED schemas_before
LEMMA RememberedFrame ==
    ASSUME NEW ch \in Channels, DOMAIN schemas'[ch] = DOMAIN schemas[ch],
           book'[ch] = book[ch], KeepsWork(ch), KeepsCopy, Remembered(ch)
    PROVE  Remembered(ch)'
<1>1. /\ \A op : IsBeing(op, ch)' <=> IsBeing(op, ch)
      /\ \A op : IsBeing(op, ch) => call'.types = call.types
  BY DEF KeepsWork, IsBeing
<1> QED
  BY <1>1 DEF Remembered, KeepsWork, KeepsCopy

LEMMA AgreedFrame ==
    ASSUME Numbered, Numbered', NEW ch \in Channels, KeepsRecord(ch), KeepsWork(ch),
           KeepsCopy, session' = session, session = "up" => KeepsService(ch) /\ KeepsWord(ch),
           Agreed(ch)
    PROVE  Agreed(ch)'
BY ServedFrame, RememberedFrame DEF Agreed, KeepsRecord

LEMMA NothingIsSaid ==
    ASSUME NEW ch,
           \A type : InWire(type, ch)' => InWire(type, ch),
           \A type : \A c \in Callers : Has(c, type, ch)' => Has(c, type, ch),
           \A c \in Callers : Asked(c, "FEED_CONFIG", ch)' => Asked(c, "FEED_CONFIG", ch)
    PROVE  KeepsWord(ch)
BY DEF KeepsWord, Opened, Answering

LEMMA SaidOfOthers ==
    ASSUME Shapes, NEW d \in Channels, SpeaksOf(d), NEW ch \in Channels \ {d}, NEW type,
           InWire(type, ch)'
    PROVE  InWire(type, ch)
<1>1. CASE wire' = wire
  BY <1>1 DEF InWire
<1>2. ASSUME NEW m \in Message, m.channel = d, wire' = Append(wire, m)
      PROVE  InWire(type, ch)
  BY <1>2, WordsGrow
<1> QED
  BY <1>1, <1>2 DEF SpeaksOf

-----------------------------------------------------------------------------
(***************************************************************************)
(* The owner's steps.                                                      *)
(***************************************************************************)

\* An operation that begins on a channel leaves the others alone.
LEMMA BeginsElsewhere ==
    ASSUME IInv, SInv, Numbered', call = Idle, NEW d \in Channels,
           call'.at # "idle", call'.channel = d,
           UNCHANGED <<channels, book, mailbox, supervisorVars, session>>,
           \/ UNCHANGED next_channel
           \/ d = next_channel /\ next_channel' = next_channel + 1,
           NEW ch \in Channels \ {d}, schemas'[ch] = schemas[ch],
           SpeaksOf(d),
           \/ requests' = requests
           \/ \E expected \in Answers : Registers("owner", expected, d),
           Agreed(ch)
    PROVE  Agreed(ch)'
<1> USE DEF supervisorVars
<1>1. Numbered /\ Shapes /\ "owner" \in Callers
  BY DEF SInv, Steady, IInv, Callers
<1>2. KeepsRecord(ch)
  <2>1. ch >= next_channel' <=> ch >= next_channel
    BY <1>1 DEF Numbered, Channels
  <2> QED
    BY <2>1 DEF KeepsRecord
<1>3. KeepsWork(ch) /\ KeepsCopy
  BY DEF KeepsWork, KeepsCopy, Calling, Idle, Reconfiguring, Due
<1>4. KeepsService(ch)
  BY DEF SpeaksOf
<1>5. KeepsWord(ch)
  <2>1. \A type : InWire(type, ch)' => InWire(type, ch)
    BY <1>1, SaidOfOthers
  <2>2. \A type : \A c \in Callers : Has(c, type, ch)' => Has(c, type, ch)
    BY DEF Has
  <2>3. \A c \in Callers : Asked(c, "FEED_CONFIG", ch)' => Asked(c, "FEED_CONFIG", ch)
    <3>1. CASE requests' = requests
      BY <3>1 DEF Asked
    <3>2. ASSUME NEW expected \in Answers, Registers("owner", expected, d),
                 NEW c \in Callers, Asked(c, "FEED_CONFIG", ch)'
          PROVE  Asked(c, "FEED_CONFIG", ch)
      BY <1>1, <3>2, QuestionsGrow
    <3> QED
      BY <3>1, <3>2
  <2> QED
    BY <2>1, <2>2, <2>3, NothingIsSaid
<1> QED
  BY <1>1, <1>2, <1>3, <1>4, <1>5, AgreedFrame

\* A channel whose operation can complete was agreed on, between rebuilds.
LEMMA AgreedBefore ==
    ASSUME IInv, SInv, ~Outage, NEW ch \in Channels \ disturbed
    PROVE  /\ session = "up" /\ supervisor = "live" /\ todo = {}
           /\ Remembered(ch) /\ Served(ch)
           /\ ch \in channels /\ ~Calling(ch) =>
                 OpenAs(ch, DOMAIN schemas[ch], book[ch]) /\ ~(ch >= next_channel)
BY DEF IInv, SInv, Steady, Agreement, Agreed, Served, Outage, Rebuilds, Replaying, Numbered,
       Channels

LEMMA CreateBegins ==
    ASSUME IInv, SInv, Steady', CreateFeedChannel, NEW ch \in Channels \ disturbed'
    PROVE  Agreed(ch)'
<1> DEFINE d == next_channel
<1>1. /\ d \in Channels /\ next_channel' = d + 1 /\ call = Idle
      /\ call' = [op |-> "create_feed_channel", channel |-> d, types |-> {},
                  at |-> "waiting"]
      /\ Registers("owner", "CHANNEL_OPENED", d) /\ OpensChannel(d)
      /\ disturbed' = IF Outage THEN disturbed \cup {d} ELSE disturbed
      /\ UNCHANGED <<channels, schemas, book, mailbox, supervisorVars, session>>
  BY DEF CreateFeedChannel, Begins, MayCall, Disturbs
<1> HIDE DEF d
<1>2. Shapes /\ Books /\ Numbered /\ Numbered' /\ Agreed(ch)
  BY <1>1 DEF IInv, SInv, Steady, Agreement
<1>3. CASE ch # d
  <2>1. SpeaksOf(d)
    BY <1>1, <1>2, OpensAnswers
  <2> QED
    BY <1>1, <1>2, <1>3, <2>1, BeginsElsewhere DEF Answers, d
<1>4. CASE ch = d
  <2>1. ~Outage /\ ch \notin disturbed /\ ch \notin channels /\ ch >= next_channel
    BY <1>1, <1>2, <1>4 DEF Numbered, d, Channels
  <2>2. /\ session = "up" /\ supervisor = "live" /\ todo = {}
        /\ Remembered(ch) /\ Served(ch)
    BY <2>1, AgreedBefore
  <2>3. call.at = "idle" /\ call'.at = "waiting" /\ call'.op = "create_feed_channel"
        /\ call'.channel = ch /\ ~Calling(ch)
    BY <1>1, <1>4 DEF Idle, Calling
  <2>4. Remembered(ch)'
    BY <1>1, <2>2, <2>3
    DEF Remembered, IsBeing, Reconfiguring, supervisorVars, Replaying
  <2>5. Unserved(ch)'
    BY <1>1, <1>2, <1>4, <2>1, <2>2, OpensAnswers DEF Served, Unserved
  <2>6. Opened(ch)' => ch \in server'.open
    <3>1. ~Opened(ch)  \/ ch \in server.open
      BY <1>2, <2>1, <2>2, <2>3 DEF Served, IsBeing, Gone, Numbered, Channels
    <3>2. Opened(ch)' => Opened(ch) \/ ch \in server'.open
      BY <1>1, <1>2, <1>4, OpensAnswers DEF Opened, Has
    <3> QED
      BY <1>1, <1>2, <1>4, <3>1, <3>2, OpensAnswers
  <2>7. Served(ch)'
    BY <1>1, <2>1, <2>2, <2>3, <2>5, <2>6
    DEF Served, IsBeing, Calling, Reconfiguring, supervisorVars
  <2> QED
    BY <2>4, <2>7 DEF Agreed
<1> QED
  BY <1>3, <1>4

LEMMA SetupBegins ==
    ASSUME IInv, SInv, Steady', NEW d \in Channels, NEW types \in SUBSET Types,
           SetupFeed(d, types), NEW ch \in Channels \ disturbed'
    PROVE  Agreed(ch)'
<1>1. /\ d \in channels /\ call = Idle
      /\ call' = [op |-> "setup_feed", channel |-> d, types |-> types, at |-> "waiting"]
      /\ Registers("owner", "FEED_CONFIG", d) /\ ConfiguresFeed(d, types)
      /\ schemas' = [schemas EXCEPT ![d] = NoSchema]
      /\ disturbed' = IF Outage \/ ConfigInFlight(d) THEN disturbed \cup {d} ELSE disturbed
      /\ UNCHANGED <<channels, next_channel, book, mailbox, supervisorVars, session>>
  BY DEF SetupFeed, Begins, MayCall, Disturbs, Forgotten
<1>2. Shapes /\ Books /\ Numbered /\ Numbered' /\ Agreed(ch)
  BY <1>1 DEF IInv, SInv, Steady, Agreement
<1>3. CASE ch # d
  <2>1. SpeaksOf(d)
    BY <1>1, <1>2, ConfiguresAnswers
  <2>2. schemas'[ch] = schemas[ch]
    BY <1>1, <1>2, <1>3 DEF Shapes
  <2> QED
    BY <1>1, <1>2, <1>3, <2>1, <2>2, BeginsElsewhere DEF Answers
<1>4. CASE ch = d
  <2>1. ~Outage /\ ~ConfigInFlight(ch) /\ ch \notin disturbed
    BY <1>1, <1>4
  <2>2. call.at = "idle" /\ call'.at = "waiting" /\ call'.op = "setup_feed"
        /\ call'.channel = ch /\ call'.types = types /\ ~Calling(ch)
    BY <1>1, <1>4 DEF Idle, Calling
  <2>3. /\ session = "up" /\ supervisor = "live" /\ todo = {}
        /\ Remembered(ch) /\ Served(ch)
        /\ OpenAs(ch, DOMAIN schemas[ch], book[ch]) /\ ~(ch >= next_channel)
    BY <1>1, <1>4, <2>1, <2>2, AgreedBefore
  <2>4. Remembered(ch)'
    BY <1>1, <2>2, <2>3
    DEF Remembered, IsBeing, Calling, Reconfiguring, supervisorVars, Replaying
  <2>5. ch \in server'.open /\ server'.subs[ch] = book'[ch]
    BY <1>1, <1>2, <1>4, <2>3, ConfiguresAnswers DEF OpenAs
  <2>6. Answering("owner", ch)' => DOMAIN server'.config[ch] = types
    <3>1. ~InWire("FEED_CONFIG", ch)
      BY <2>1 DEF InWire, ConfigInFlight
    <3>2. ~Has("owner", "FEED_CONFIG", ch)'
      BY <1>1, <2>1 DEF Has, ConfigInFlight, Callers
    <3> QED
      BY <1>1, <1>2, <1>4, <3>1, <3>2, ConfiguresAnswers DEF Answering
  <2>7. Served(ch)'
    BY <1>1, <2>2, <2>3, <2>5, <2>6
    DEF Served, IsBeing, Calling, Reconfiguring, supervisorVars
  <2> QED
    BY <2>4, <2>7 DEF Agreed
<1> QED
  BY <1>3, <1>4

LEMMA CloseBegins ==
    ASSUME IInv, SInv, Steady', NEW d \in Channels, CloseChannel(d),
           NEW ch \in Channels \ disturbed'
    PROVE  Agreed(ch)'
<1>1. /\ d \in channels /\ call = Idle
      /\ call' = [op |-> "close_channel", channel |-> d, types |-> {}, at |-> "waiting"]
      /\ Registers("owner", "CHANNEL_CLOSED", d) /\ ClosesChannel(d)
      /\ disturbed' = IF Outage THEN disturbed \cup {d} ELSE disturbed
      /\ UNCHANGED <<channels, next_channel, schemas, book, mailbox, supervisorVars, session>>
  BY DEF CloseChannel, Begins, MayCall, Disturbs, clientVars
<1>2. Shapes /\ Books /\ Numbered /\ Numbered' /\ Agreed(ch)
  BY <1>1 DEF IInv, SInv, Steady, Agreement
<1>3. CASE ch # d
  <2>1. SpeaksOf(d)
    BY <1>1, <1>2, ClosesAnswers
  <2> QED
    BY <1>1, <1>2, <1>3, <2>1, BeginsElsewhere DEF Answers
<1>4. CASE ch = d
  <2>1. ~Outage /\ ch \notin disturbed
    BY <1>1, <1>4
  <2>2. call.at = "idle" /\ call'.at = "waiting" /\ call'.op = "close_channel"
        /\ call'.channel = ch /\ ~Calling(ch)
    BY <1>1, <1>4 DEF Idle, Calling
  <2>3. /\ session = "up" /\ supervisor = "live" /\ todo = {}
        /\ Remembered(ch) /\ ~(ch >= next_channel)
    BY <1>1, <1>4, <2>1, <2>2, AgreedBefore
  <2>4. Remembered(ch)'
    BY <1>1, <2>2, <2>3
    DEF Remembered, IsBeing, Calling, Reconfiguring, supervisorVars, Replaying
  <2>5. Served(ch)'
    BY <1>1, <2>2, <2>3 DEF Served, IsBeing, Calling, Reconfiguring, supervisorVars
  <2> QED
    BY <2>4, <2>5 DEF Agreed
<1> QED
  BY <1>3, <1>4

\* subscribe, unsubscribe and reset_subscriptions: the server has the list the
\* book will have.
LEMMA SendBegins ==
    ASSUME IInv, SInv, Steady', NEW d \in Channels, NEW ch \in Channels \ disturbed',
           \/ ResetSubscriptions(d)
           \/ \E t \in Types : Subscribe(d, t) \/ Unsubscribe(d, t)
    PROVE  Agreed(ch)'
<1> DEFINE Sent(op, types) ==
        /\ d \in channels /\ call = Idle
        /\ call'.channel = d /\ call'.at = "sent" /\ call'.op = op /\ call'.types = types
        /\ disturbed' = IF Outage THEN disturbed \cup {d} ELSE disturbed
        /\ UNCHANGED <<channels, next_channel, schemas, book, requests, mailbox,
                       supervisorVars, session>>
    Resets == Sent("reset_subscriptions", {}) /\ Unsubscribes(d, << >>)
    Adds(t) == /\ Sent("subscribe", {t}) /\ t \in DOMAIN schemas[d]
               /\ Subscribes(d, {t}, Inserted(server.subs[d], t))
    Removes(t) == /\ Sent("unsubscribe", {t})
                  /\ Unsubscribes(d, Removed(server.subs[d], t))
<1>1. Resets \/ \E t \in Types : Adds(t) \/ Removes(t)
  <2> USE DEF Begins, MayCall, Disturbs, clientVars
  <2>1. CASE ResetSubscriptions(d)
    BY <2>1 DEF ResetSubscriptions
  <2>2. ASSUME NEW t \in Types, Subscribe(d, t) PROVE Adds(t)
    BY <2>2 DEF Subscribe
  <2>3. ASSUME NEW t \in Types, Unsubscribe(d, t) PROVE Removes(t)
    BY <2>3 DEF Unsubscribe
  <2> HIDE DEF Resets, Adds, Removes
  <2> QED
    BY <2>1, <2>2, <2>3 DEF Resets
<1>2. \E op \in {"subscribe", "unsubscribe", "reset_subscriptions"} : \E types :
         Sent(op, types)
  BY <1>1
<1>3. Shapes /\ Books /\ Numbered /\ Numbered' /\ Agreed(ch)
  BY <1>1 DEF IInv, SInv, Steady, Agreement
<1>4. SpeaksOf(d)
  BY <1>1, <1>3, SubscribesAnswers, UnsubscribesAnswers
<1>5. CASE ch # d
  BY <1>2, <1>3, <1>4, <1>5, BeginsElsewhere
<1>6. CASE ch = d
  <2>1. ~Outage /\ ch \notin disturbed
    BY <1>2, <1>6
  <2>2. call.at = "idle" /\ call'.channel = ch /\ ~Calling(ch)
        /\ call'.op \in {"subscribe", "unsubscribe", "reset_subscriptions"}
    BY <1>2, <1>6 DEF Idle, Calling
  <2>3. /\ session = "up" /\ supervisor = "live" /\ todo = {}
        /\ Remembered(ch) /\ Served(ch)
        /\ OpenAs(ch, DOMAIN schemas[ch], book[ch]) /\ ~(ch >= next_channel)
    BY <1>2, <1>6, <2>1, <2>2, AgreedBefore
  <2>4. call'.op = "subscribe" => call'.types \subseteq DOMAIN schemas[ch]
    BY <1>1, <1>6
  <2>5. Remembered(ch)'
    BY <1>2, <2>2, <2>3, <2>4
    DEF Remembered, IsBeing, Calling, Reconfiguring, supervisorVars, Replaying
  <2>6. \E subs : TakesList(ch, subs) /\
           \/ call'.op = "reset_subscriptions" /\ subs = << >>
           \/ \E t \in Types :
                 /\ call'.types = {t}
                 /\ \/ call'.op = "subscribe" /\ subs = Inserted(book[ch], t)
                    \/ call'.op = "unsubscribe" /\ subs = Removed(book[ch], t)
    <3>1. CASE Resets
      BY <1>3, <1>6, <2>3, <3>1, UnsubscribesAnswers DEF OpenAs
    <3>2. ASSUME NEW t \in Types, Adds(t)
          PROVE  TakesList(ch, Inserted(book[ch], t))
      <4>1. {t} \subseteq DOMAIN server.config[d]
        BY <1>6, <2>3, <3>2 DEF OpenAs
      <4> QED
        BY <1>3, <1>6, <2>3, <3>2, <4>1, SubscribesAnswers DEF OpenAs
    <3>3. ASSUME NEW t \in Types, Removes(t)
          PROVE  TakesList(ch, Removed(book[ch], t))
      BY <1>3, <1>6, <2>3, <3>3, UnsubscribesAnswers DEF OpenAs
    <3> QED
      BY <1>1, <3>1, <3>2, <3>3
  <2>7. /\ wire' = wire /\ ch \in server'.open
        /\ DOMAIN server'.config[ch] = DOMAIN schemas[ch]
        /\ call'.op = "reset_subscriptions" => server'.subs[ch] = << >>
        /\ call'.op = "subscribe" =>
              \A t \in call'.types : server'.subs[ch] = Inserted(book[ch], t)
        /\ call'.op = "unsubscribe" =>
              \A t \in call'.types : server'.subs[ch] = Removed(book[ch], t)
    BY <2>3, <2>6 DEF TakesList, OpenAs
  <2> HIDE DEF Sent, Resets, Adds, Removes
  <2>8. UNCHANGED <<channels, schemas, book, supervisor, todo>> /\ next_channel' = next_channel
    BY <1>2 DEF Sent, supervisorVars
  <2>9. Served(ch)'
    BY <2>2, <2>3, <2>7, <2>8, <1>2 DEF Served, OpenAs, IsBeing, Calling, Reconfiguring, Sent
  <2> QED
    BY <2>5, <2>9 DEF Agreed
<1> QED
  BY <1>5, <1>6

\* A mailbox that was emptied holds no answer about a channel.
LEMMA NothingHeld ==
    ASSUME Shapes, NEW caller \in Callers,
           mailbox' \in {mailbox, [mailbox EXCEPT ![caller] = Empty]},
           NEW c \in Callers, NEW type, NEW ch \in Channels, Has(c, type, ch)'
    PROVE  Has(c, type, ch)
<1>1. Empty.channel # ch
  BY DEF Empty, Plain, Channels
<1>2. mailbox'[c] \in {mailbox[c], Empty}
  BY DEF Shapes
<1> QED
  BY <1>1, <1>2 DEF Has

\* An operation that ends leaves the other channels alone.
LEMMA EndsElsewhere ==
    ASSUME IInv, SInv, Numbered', call.at # "idle", call' = Idle,
           UNCHANGED <<next_channel, supervisorVars, serverVars>>,
           NEW ch \in Channels, ch # call.channel,
           ch \in channels' <=> ch \in channels,
           schemas'[ch] = schemas[ch], book'[ch] = book[ch],
           requests' \in {requests, Unregistered("owner")},
           mailbox' \in {mailbox, [mailbox EXCEPT !["owner"] = Empty]},
           Agreed(ch)
    PROVE  Agreed(ch)'
<1> USE DEF supervisorVars, serverVars
<1>1. Numbered /\ Shapes /\ Waiters /\ "owner" \in Callers
  BY DEF SInv, Steady, IInv, Callers
<1>2. KeepsRecord(ch) /\ KeepsCopy /\ KeepsService(ch)
  BY DEF KeepsRecord, KeepsCopy, KeepsService
<1>3. KeepsWork(ch)
  BY DEF KeepsWork, Calling, Idle, Reconfiguring, Due
<1>4. KeepsWord(ch)
  <2>1. \A type : InWire(type, ch)' => InWire(type, ch)
    BY DEF InWire
  <2>2. \A type : \A c \in Callers : Has(c, type, ch)' => Has(c, type, ch)
    BY <1>1, NothingHeld
  <2>3. \A c \in Callers : Asked(c, "FEED_CONFIG", ch)' => Asked(c, "FEED_CONFIG", ch)
    <3>1. CASE requests' = requests
      BY <3>1 DEF Asked
    <3>2. CASE requests' = Unregistered("owner")
      BY <1>1, <3>2, QuestionsShrink
    <3> QED
      BY <3>1, <3>2
  <2> QED
    BY <2>1, <2>2, <2>3, NothingIsSaid
<1> QED
  BY <1>1, <1>2, <1>3, <1>4, AgreedFrame

\* What is known of the channel of an operation that is not at risk.
LEMMA AgreedDuring ==
    ASSUME IInv, SInv, NEW ch \in Channels \ disturbed, Calling(ch)
    PROVE  /\ session = "up" /\ supervisor = "live" /\ todo = {}
           /\ Remembered(ch) /\ Served(ch) /\ ch < next_channel
<1>1. ~Outage
  BY OwnerAtRisk
<1> QED
  BY <1>1, AgreedBefore DEF SInv, Steady, Numbered, Calling

LEMMA SendEnds ==
    ASSUME IInv, SInv, Steady', SendReturns \/ SendAbandoned,
           NEW ch \in Channels \ disturbed'
    PROVE  Agreed(ch)'
<1>1. /\ call.at = "sent" /\ call' = Idle
      /\ UNCHANGED <<channels, next_channel, schemas, requests, mailbox, supervisorVars,
                     serverVars>>
      /\ disturbed \subseteq disturbed'
      /\ \A c \in Channels : c # call.channel => book'[c] = book[c]
  <2>1. CASE SendReturns
    <3>1. book' = [c \in Channels |-> book'[c]] /\ DOMAIN book = Channels
      BY DEF SInv, Steady, Books
    <3> QED
      BY <2>1, <3>1 DEF SendReturns, ForgetChannel
  <2>2. CASE SendAbandoned
    BY <2>2 DEF SendAbandoned, Disturbs, clientVars
  <2> QED
    BY <2>1, <2>2
<1>2. Numbered /\ Numbered' /\ Books /\ Operating /\ Agreed(ch)
  BY <1>1 DEF SInv, Steady, Agreement
<1>3. CASE ch # call.channel
  BY <1>1, <1>2, <1>3, EndsElsewhere
<1>4. CASE ch = call.channel
  <2>1. SendReturns /\ ch \notin disturbed
    BY <1>1, <1>4 DEF SendAbandoned, Disturbs
  <2>2. Calling(ch) /\ ~Calling(ch)'
    BY <1>1, <1>4 DEF Calling, Idle
  <2>3. /\ session = "up" /\ supervisor = "live" /\ todo = {}
        /\ Remembered(ch) /\ Served(ch) /\ ch < next_channel
    BY <2>1, <2>2, AgreedDuring
  <2>4. /\ \A op : ~IsBeing(op, ch)'
        /\ ~Reconfiguring(ch)'
    BY <1>1, <2>2, <2>3 DEF IsBeing, Reconfiguring, supervisorVars
  <2>5. /\ OpenAs(ch, DOMAIN schemas[ch], book'[ch])
        /\ ToSet(book'[ch]) \subseteq DOMAIN schemas[ch]
    <3>1. call.op # "setup_feed"
      BY <1>1, <1>2 DEF Operating
    <3>2. ToSet(book[ch]) \subseteq DOMAIN schemas[ch] /\ book[ch] \in Seq(Types)
      BY <1>2, <2>3, <3>1 DEF Remembered, IsBeing, Reconfiguring, Books
    <3>3. CASE call.op = "subscribe" /\ \E t \in call.types :
                  book' = [book EXCEPT ![call.channel] = Inserted(@, t)]
      <4>1. PICK t \in Types : call.types = {t}
        BY <1>1, <1>2, <3>3 DEF Operating
      <4>2. book'[ch] = Inserted(book[ch], t)
        BY <1>2, <1>4, <3>3, <4>1 DEF Books
      <4>3. /\ OpenAs(ch, DOMAIN schemas[ch], Inserted(book[ch], t))
            /\ t \in DOMAIN schemas[ch]
        BY <2>2, <2>3, <3>3, <4>1 DEF Served, Remembered, IsBeing
      <4>4. ToSet(Inserted(book[ch], t)) \subseteq ToSet(book[ch]) \cup {t}
        BY <3>2, <4>1, InsertedElements
      <4> QED
        BY <3>2, <4>2, <4>3, <4>4
    <3>4. CASE call.op = "unsubscribe" /\ \E t \in call.types :
                  book' = [book EXCEPT ![call.channel] = Removed(@, t)]
      <4>1. PICK t \in Types : call.types = {t}
        BY <1>1, <1>2, <3>4 DEF Operating
      <4>2. book'[ch] = Removed(book[ch], t)
        BY <1>2, <1>4, <3>4, <4>1 DEF Books
      <4>3. OpenAs(ch, DOMAIN schemas[ch], Removed(book[ch], t))
        BY <2>2, <2>3, <3>4, <4>1 DEF Served, IsBeing
      <4>4. ToSet(Removed(book[ch], t)) \subseteq ToSet(book[ch])
        BY <3>2, RemovedElements
      <4> QED
        BY <3>2, <4>2, <4>3, <4>4
    <3>5. CASE call.op = "reset_subscriptions" /\ book' = ForgetChannel(call.channel)
      <4>1. book'[ch] = << >>
        BY <1>2, <1>4, <3>5 DEF ForgetChannel, Books
      <4>2. ToSet(<< >>) = {}
        BY DEF ToSet
      <4> QED
        BY <2>2, <2>3, <3>5, <4>1, <4>2 DEF Served, IsBeing
    <3> QED
      BY <2>1, <3>3, <3>4, <3>5 DEF SendReturns
  <2>6. Remembered(ch)'
    BY <1>1, <2>3, <2>4, <2>5 DEF Remembered, supervisorVars, Replaying
  <2>7. Served(ch)'
    <3>1. /\ OpenAs(ch, DOMAIN schemas[ch], book[ch])'
          /\ ch \in server'.open
      BY <1>1, <2>5 DEF OpenAs, serverVars
    <3>2. ~(ch >= next_channel)
      BY <1>2, <2>3 DEF Numbered, Channels
    <3> QED
      BY <1>1, <2>2, <2>3, <2>4, <3>1, <3>2 DEF Served, supervisorVars
  <2> QED
    BY <2>6, <2>7 DEF Agreed
<1> QED
  BY <1>3, <1>4

\* An answer that is there completes the operation.
LEMMA CallEnds ==
    ASSUME IInv, SInv, IInv', Steady',
           \/ CreateCompletes \/ SetupCompletes \/ CloseCompletes
           \/ CallFails \/ CallAbandoned,
           NEW ch \in Channels \ disturbed'
    PROVE  Agreed(ch)'
<1> DEFINE d == call.channel
<1>1. /\ call.at = "waiting" /\ call' = Idle
      /\ UNCHANGED <<next_channel, supervisorVars, serverVars>>
      /\ mailbox' = [mailbox EXCEPT !["owner"] = Empty]
      /\ requests' \in {requests, Unregistered("owner")}
      /\ disturbed \subseteq disturbed'
      /\ CallFails \/ CallAbandoned => d \in disturbed'
      /\ d \in Channels
  BY DEF CreateCompletes, SetupCompletes, CloseCompletes, CallFails, CallAbandoned, Completes,
         Disturbs, clientVars, IInv, Waiters
<1>2. /\ Numbered /\ Numbered' /\ Books /\ Operating /\ Addressed /\ Agreed(ch)
      /\ Shapes /\ "owner" \in Callers
  BY <1>1 DEF SInv, Steady, Agreement, IInv, Callers
<1>3. CASE ch # d
  <2>1. /\ ch \in channels' <=> ch \in channels
        /\ schemas'[ch] = schemas[ch] /\ book'[ch] = book[ch]
    <3> USE <1>1, <1>2, <1>3 DEF Shapes, Books
    <3>1. CASE CreateCompletes
      BY <3>1 DEF CreateCompletes
    <3>2. CASE SetupCompletes
      BY <3>2 DEF SetupCompletes
    <3>3. CASE CloseCompletes
      BY <3>3 DEF CloseCompletes, ForgetChannel, SchemasAfterClose, Forgotten
    <3>4. CASE CallFails \/ CallAbandoned
      BY <3>4 DEF CallFails, CallAbandoned, clientVars
    <3> QED
      BY <3>1, <3>2, <3>3, <3>4
  <2> QED
    BY <1>1, <1>2, <1>3, <2>1, EndsElsewhere
<1>4. CASE ch = d
  <2>1. ~(CallFails \/ CallAbandoned) /\ ch \notin disturbed
    BY <1>1, <1>4
  <2>2. Calling(ch) /\ ~Calling(ch)' /\ (\A op : ~IsBeing(op, ch)')
    BY <1>1, <1>4 DEF Calling, Idle, IsBeing
  <2>3. /\ session = "up" /\ supervisor = "live" /\ todo = {}
        /\ Remembered(ch) /\ Served(ch) /\ ~(ch >= next_channel)
    BY <1>2, <2>1, <2>2, AgreedDuring DEF Numbered, Channels
  <2>4. Opened(ch)' => Opened(ch)
    <3>1. \A type : \A c \in Callers : Has(c, type, ch)' => Has(c, type, ch)
      BY <1>1, <1>2, NothingHeld
    <3>2. InWire("CHANNEL_OPENED", ch)' => InWire("CHANNEL_OPENED", ch)
      BY <1>1 DEF InWire, serverVars
    <3> QED
      BY <3>1, <3>2 DEF Opened
  <2>5. UNCHANGED <<session, server, supervisor, todo, next_channel>>
    BY <1>1 DEF supervisorVars, serverVars
  \* What is left to show of a channel that is open, or closed.
  <2>6. ASSUME OpenAs(ch, DOMAIN schemas'[ch], book'[ch]),
               ToSet(book'[ch]) \subseteq DOMAIN schemas'[ch]
        PROVE  Agreed(ch)'
    <3>1. OpenAs(ch, DOMAIN schemas[ch], book[ch])' /\ ch \in server'.open
      BY <2>5, <2>6 DEF OpenAs
    <3>2. ~Reconfiguring(ch)'
      BY <2>3, <2>5 DEF Reconfiguring
    <3> QED
      BY <2>2, <2>3, <2>5, <2>6, <3>1, <3>2 DEF Agreed, Remembered, Served, Replaying
  <2>7. CASE CreateCompletes
    <3>1. /\ IsBeing("create_feed_channel", ch) /\ Has("owner", "CHANNEL_OPENED", ch)
          /\ ch \notin channels /\ UNCHANGED <<schemas, book>>
      BY <1>1, <1>2, <1>4, <2>2, <2>7
      DEF CreateCompletes, Completes, IsBeing, Has, Addressed, Numbered, Answers
    <3>2. ch \in server.open /\ Unserved(ch)
      BY <1>2, <2>3, <3>1 DEF Served, Opened, Gone, IsBeing
    <3>3. schemas[ch] = NoSchema /\ book[ch] = << >>
      BY <2>1, <3>1 DEF IInv, ClosedLeavesNothing
    <3>4. DOMAIN NoSchema = {} /\ ToSet(<< >>) = {}
      BY DEF NoSchema, ToSet
    <3> QED
      BY <2>6, <3>1, <3>2, <3>3, <3>4 DEF OpenAs, Unserved
  <2>8. CASE SetupCompletes
    <3>1. IsBeing("setup_feed", ch) /\ Has("owner", "FEED_CONFIG", ch)
      BY <1>1, <1>2, <1>4, <2>2, <2>8
      DEF SetupCompletes, Completes, IsBeing, Has, Addressed, Answers
    <3>2. OpenAs(ch, call.types, book[ch])
      BY <2>3, <3>1 DEF Served, Answering, OpenAs
    <3>3. /\ schemas' = [schemas EXCEPT ![ch] = Negotiated(mailbox["owner"], call.types)]
          /\ ToSet(book[ch]) \subseteq call.types /\ book' = book
      BY <1>1, <1>4, <2>8 DEF SetupCompletes, Disturbs
    <3>4. DOMAIN schemas'[ch] = call.types
      BY <1>2, <3>3 DEF Shapes, Negotiated
    <3> QED
      BY <2>6, <3>2, <3>3, <3>4
  <2>9. CASE CloseCompletes
    <3>1. /\ ch \notin channels' /\ book'[ch] = << >>
      BY <1>2, <1>4, <2>9 DEF CloseCompletes, ForgetChannel, Books
    <3>2. ToSet(<< >>) = {}
      BY DEF ToSet
    <3>3. Remembered(ch)'
      BY <2>2, <2>3, <2>5, <3>1, <3>2 DEF Remembered, Reconfiguring, Replaying
    <3>4. Gone(ch)'
      BY <1>2, <2>2, <2>3, <2>5, <3>1 DEF Gone, Numbered, Channels
    <3>5. Served(ch)'
      BY <2>2, <2>3, <2>5, <3>1, <3>4 DEF Served
    <3> QED
      BY <3>3, <3>5 DEF Agreed
  <2> QED
    BY <2>1, <2>7, <2>8, <2>9
<1> QED
  BY <1>3, <1>4

-----------------------------------------------------------------------------
(***************************************************************************)
(* The server's and the reader's steps.                                    *)
(***************************************************************************)

LEMMA ReconfiguresAgrees ==
    ASSUME IInv, SInv, Steady', NEW d \in Channels, ServerReconfigures(d),
           NEW ch \in Channels \ disturbed'
    PROVE  Agreed(ch)'
<1>1. PICK l \in Layouts :
         /\ server' = [server EXCEPT !.config[d] = [t \in DOMAIN @ |-> l]]
         /\ wire' = Append(wire, [type |-> "FEED_CONFIG", channel |-> d,
                                  types |-> DOMAIN server.config[d], layout |-> l])
  BY DEF ServerReconfigures, Replies
<1> DEFINE m == [type |-> "FEED_CONFIG", channel |-> d,
                 types |-> DOMAIN server.config[d], layout |-> l]
<1>2. /\ Shapes /\ Books /\ Numbered /\ Numbered' /\ Agreed(ch)
      /\ UNCHANGED <<clientVars, callVars, supervisorVars, session>>
      /\ disturbed \subseteq disturbed'
      /\ ConfigInFlight(d) => d \in disturbed'
  BY DEF ServerReconfigures, Disturbs, IInv, SInv, Steady, Agreement
<1>3. m \in Message /\ m.type = "FEED_CONFIG" /\ m.channel = d /\ wire' = Append(wire, m)
  <2>1. DOMAIN server.config[d] \in SUBSET Types
    BY <1>2 DEF Shapes
  <2> QED
    BY <1>1, <2>1 DEF Message, Answers
<1> HIDE DEF m
<1>4. KeepsService(ch)
  <2>1. /\ server'.open = server.open /\ server'.subs = server.subs
        /\ server'.config = [server.config EXCEPT ![d] = [t \in DOMAIN server.config[d] |-> l]]
    BY <1>1, <1>2 DEF Shapes
  <2> QED
    BY <1>2, <2>1 DEF KeepsService, Shapes
<1>5. KeepsRecord(ch) /\ KeepsWork(ch) /\ KeepsCopy
  BY <1>2 DEF KeepsRecord, KeepsWork, KeepsCopy, Calling, Reconfiguring, Due, clientVars,
              callVars, supervisorVars
<1>6. KeepsWord(ch)
  <2>1. \A type : InWire(type, ch)' => InWire(type, ch) \/ (type = "FEED_CONFIG" /\ d = ch)
    BY <1>2, <1>3, WordsGrow
  <2>2. \A type : \A c \in Callers :
           /\ Has(c, type, ch)' => Has(c, type, ch)
           /\ Asked(c, type, ch)' => Asked(c, type, ch)
    BY <1>2 DEF Has, Asked, callVars
  <2>3. CASE d # ch
    BY <2>1, <2>2, <2>3, NothingIsSaid
  <2>4. CASE d = ch
    <3>1. ~ConfigInFlight(ch)
      BY <1>2, <2>4
    <3>2. \A c \in Callers : ~Has(c, "FEED_CONFIG", ch) /\ ~Asked(c, "FEED_CONFIG", ch)
      BY <3>1 DEF ConfigInFlight, Has, Asked
    <3> QED
      BY <2>1, <2>2, <3>2 DEF KeepsWord, Opened, Answering
  <2> QED
    BY <2>3, <2>4
<1> QED
  BY <1>2, <1>4, <1>5, <1>6, AgreedFrame

LEMMA RowAgreed ==
    ASSUME IInv, SInv, Steady', NEW d \in Channels, NEW t \in Types, ServerSendsRow(d, t),
           NEW ch \in Channels \ disturbed'
    PROVE  Agreed(ch)'
<1> DEFINE m == [type |-> "FEED_DATA", channel |-> d, types |-> {t},
                 layout |-> server.config[d][t]]
<1>1. /\ Shapes /\ Numbered /\ Numbered' /\ Agreed(ch)
      /\ UNCHANGED <<clientVars, callVars, supervisorVars, session, server, disturbed>>
      /\ t \in DOMAIN server.config[d] /\ wire' = Append(wire, m)
  BY DEF ServerSendsRow, Replies, IInv, SInv, Steady, Agreement
<1>2. m \in Message /\ m.type = "FEED_DATA"
  BY <1>1 DEF Message, Shapes
<1> HIDE DEF m
<1>3. KeepsRecord(ch) /\ KeepsWork(ch) /\ KeepsCopy /\ KeepsService(ch)
  BY <1>1 DEF KeepsRecord, KeepsWork, KeepsCopy, KeepsService, Calling, Reconfiguring, Due,
              clientVars, callVars, supervisorVars
<1>4. KeepsWord(ch)
  <2>1. \A type : InWire(type, ch)' => InWire(type, ch) \/ type = "FEED_DATA"
    BY <1>1, <1>2, WordsGrow
  <2>2. \A type : \A c \in Callers :
           /\ Has(c, type, ch)' => Has(c, type, ch)
           /\ Asked(c, type, ch)' => Asked(c, type, ch)
    BY <1>1 DEF Has, Asked, callVars
  <2> QED
    BY <2>1, <2>2 DEF KeepsWord, Opened, Answering
<1> QED
  BY <1>1, <1>3, <1>4, AgreedFrame

LEMMA ReaderAgrees ==
    ASSUME IInv, SInv, Steady', ReaderTakes, NEW ch \in Channels \ disturbed'
    PROVE  Agreed(ch)'
<1> DEFINE m == Head(wire)
           fitting == {i \in DOMAIN requests : Fits(requests[i], m)}
           adopted == IF m.type = "FEED_CONFIG" THEN Adopted(schemas[m.channel], m)
                                                ELSE schemas[m.channel]
<1>1. /\ Shapes /\ Waiters /\ Numbered /\ Numbered'
      /\ wire # << >> /\ wire' = Tail(wire)
      /\ UNCHANGED <<channels, next_channel, book, call, supervisorVars, session, server>>
  BY DEF ReaderTakes, IInv, SInv, Steady
<1>2. /\ 1 \in DOMAIN wire /\ m = wire[1] /\ m \in Message
      /\ \A k \in DOMAIN wire' : k + 1 \in DOMAIN wire /\ wire'[k] = wire[k + 1]
  BY <1>1 DEF Shapes
<1>3. \A type : /\ InWire(type, ch)' => InWire(type, ch)
                /\ m.type = type /\ m.channel = ch => InWire(type, ch)
  BY <1>2 DEF InWire
<1>4. KeepsService(ch) /\ KeepsWork(ch) /\ KeepsCopy
  BY <1>1 DEF KeepsService, KeepsWork, KeepsCopy, Calling, Reconfiguring, Due, supervisorVars
<1>5. CASE fitting # {}
  <2>1. PICK i \in fitting :
           /\ requests' = Unregistered(requests[i].caller)
           /\ mailbox' = [mailbox EXCEPT ![requests[i].caller] = m]
           /\ UNCHANGED <<schemas, disturbed>>
    BY <1>5 DEF ReaderTakes
  <2>2. /\ i \in DOMAIN requests /\ requests[i] \in Request
        /\ requests[i].channel = m.channel
        /\ requests[i].expected = m.type \/ m.type = "ERROR"
    BY <1>1, ElementOfSeq DEF Fits, Shapes
  <2> DEFINE who == requests[i].caller
  <2>3. who \in Callers /\ requests' = Unregistered(who) /\ mailbox' = [mailbox EXCEPT ![who] = m]
    BY <2>1, <2>2 DEF Request
  <2>4. m.type = "FEED_CONFIG" /\ m.channel = ch => Asked(who, "FEED_CONFIG", ch)
    BY <2>2 DEF Asked, Request
  <2> HIDE DEF m, who, fitting
  <2>5. \A type : \A c \in Callers :
           Has(c, type, ch)' => Has(c, type, ch) \/ (c = who /\ m.type = type /\ m.channel = ch)
    BY <1>1, <2>3 DEF Has, Shapes
  <2>6. \A c \in Callers : Asked(c, "FEED_CONFIG", ch)' => Asked(c, "FEED_CONFIG", ch)
    BY <1>1, <2>3, QuestionsShrink
  <2>7. KeepsWord(ch)
    BY <1>3, <2>4, <2>5, <2>6 DEF KeepsWord, Opened, Answering
  <2>8. KeepsRecord(ch) /\ Agreed(ch)
    BY <1>1, <2>1 DEF KeepsRecord, supervisorVars, SInv, Agreement
  <2> QED
    BY <1>1, <1>4, <2>7, <2>8, AgreedFrame
<1>6. CASE fitting = {}
  <2>1. /\ schemas' = [schemas EXCEPT ![m.channel] = adopted]
        /\ disturbed' = IF adopted = NoSchema /\ schemas[m.channel] # NoSchema
                        THEN disturbed \cup {m.channel} ELSE disturbed
        /\ UNCHANGED <<requests, mailbox>>
    BY <1>6 DEF ReaderTakes, Disturbs
  <2>2. DOMAIN schemas'[ch] = DOMAIN schemas[ch]
    <3>1. CASE ch # m.channel
      BY <1>1, <2>1, <3>1 DEF Shapes
    <3>2. CASE ch = m.channel
      <4>1. schemas'[ch] = adopted /\ (adopted # NoSchema \/ schemas[ch] = NoSchema)
        BY <1>1, <2>1, <3>2 DEF Shapes
      <4>2. adopted \in {schemas[ch], NoSchema} \/ DOMAIN adopted = DOMAIN schemas[ch]
        BY <3>2 DEF Adopted
      <4> QED
        BY <4>1, <4>2
    <3> QED
      BY <3>1, <3>2
  <2>3. KeepsWord(ch)
    BY <1>3, <2>1, NothingIsSaid DEF Has, Asked
  <2>4. KeepsRecord(ch) /\ Agreed(ch)
    BY <1>1, <2>1, <2>2 DEF KeepsRecord, supervisorVars, SInv, Agreement
  <2> QED
    BY <1>1, <1>4, <2>3, <2>4, AgreedFrame
<1> QED
  BY <1>5, <1>6

-----------------------------------------------------------------------------
(***************************************************************************)
(* Losses and rebuilds.                                                    *)
(***************************************************************************)

\* Without a session only what the client remembers counts.
LEMMA WithoutSession ==
    ASSUME SInv, NEW ch \in Channels \ disturbed', disturbed \subseteq disturbed',
           session' # "up", UNCHANGED <<schemas, book, call, todo, stored>>,
           Reconfiguring(ch)' <=> Reconfiguring(ch),
           \/ KeepsCopy
           \/ schemas_before' = schemas /\ ~Calling(ch) /\ ~Reconfiguring(ch)
    PROVE  Agreed(ch)'
<1>1. Agreed(ch)
  BY DEF SInv, Agreement
<1>2. KeepsWork(ch)
  BY DEF KeepsWork, Calling
<1>3. CASE KeepsCopy
  BY <1>1, <1>2, <1>3, RememberedFrame DEF Agreed
<1>4. CASE schemas_before' = schemas /\ ~Calling(ch) /\ ~Reconfiguring(ch)
  BY <1>1, <1>2, <1>4 DEF Agreed, Remembered, KeepsWork, IsBeing
<1> QED
  BY <1>3, <1>4

LEMMA OutageAgrees ==
    ASSUME IInv, SInv, NEW ch \in Channels \ disturbed',
           \/ FailsUnconnected \/ LoseSession \/ SupervisorLearnsOfLoss
           \/ AttemptBegins \/ HandshakeFails
    PROVE  Agreed(ch)'
<1> USE DEF clientVars, callVars, supervisorVars, serverVars
<1>1. CASE FailsUnconnected
  <2>1. /\ disturbed \subseteq disturbed' /\ session' # "up"
        /\ schemas'[ch] = schemas[ch]
        /\ UNCHANGED <<book, call, supervisor, todo, stored, schemas_before>>
    BY <1>1 DEF FailsUnconnected, Disturbs, Forgotten, IInv, Shapes
  <2>2. KeepsWork(ch) /\ KeepsCopy /\ Agreed(ch)
    BY <2>1 DEF KeepsWork, KeepsCopy, Calling, Reconfiguring, Due, SInv, Agreement
  <2> QED
    BY <2>1, <2>2, RememberedFrame DEF Agreed
<1>2. CASE LoseSession
  BY <1>2, WithoutSession DEF LoseSession, Reconfiguring, Due, KeepsCopy
<1>3. CASE SupervisorLearnsOfLoss
  BY <1>3, WithoutSession DEF SupervisorLearnsOfLoss, Reconfiguring, KeepsCopy, Replaying
<1>4. CASE AttemptBegins
  <2>1. ~Calling(ch)
    BY <1>4, OwnerAtRisk DEF AttemptBegins, Outage
  <2> QED
    BY <1>4, <2>1, WithoutSession DEF AttemptBegins, Reconfiguring, IInv, Outages
<1>5. CASE HandshakeFails
  BY <1>5, WithoutSession DEF HandshakeFails, Reconfiguring, KeepsCopy, IInv, Outages, Replaying
<1> QED
  BY <1>1, <1>2, <1>3, <1>4, <1>5

\* The new session has nothing, and every channel is to be rebuilt.
LEMMA HandshakeAgrees ==
    ASSUME IInv, SInv, Steady', HandshakeSucceeds, NEW ch \in Channels \ disturbed'
    PROVE  Agreed(ch)'
<1>1. /\ supervisor = "handshaking" /\ supervisor' = "next_channel"
      /\ session # "up" /\ todo' = channels
      /\ UNCHANGED <<channels, next_channel, schemas, book, call, mailbox, requests, stored,
                     schemas_before, server, wire, disturbed>>
  BY DEF HandshakeSucceeds, IInv, Outages, clientVars, callVars
<1>2. server = Nothing /\ wire = << >> /\ Outage /\ Agreed(ch)
  BY <1>1 DEF SInv, Steady, NothingServed, IInv, Outages, Outage, Agreement
<1>3. ~Calling(ch) /\ ~Calling(ch)' /\ \A op : ~IsBeing(op, ch)'
  BY <1>1, <1>2, OwnerAtRisk DEF Calling, IsBeing
<1>4. ~Reconfiguring(ch) /\ ~Reconfiguring(ch)'
  BY <1>1 DEF Reconfiguring
<1>5. Remembered(ch)'
  BY <1>1, <1>2, <1>3, <1>4 DEF Agreed, Remembered, IsBeing, Replaying
<1>6. ~Opened(ch)'
  <2>1. ~InWire("CHANNEL_OPENED", ch)'
    BY <1>1, <1>2 DEF InWire
  <2>2. mailbox["supervisor"] = Empty /\ Empty.type # "CHANNEL_OPENED"
    BY <1>1 DEF IInv, Waiters, Empty, Plain
  <2>3. ~Has("owner", "CHANNEL_OPENED", ch)
    BY <1>3, <2>2 DEF Has, SInv, Steady, Addressed, Answers, Calling, IInv, Waiters
  <2> QED
    BY <1>1, <2>1, <2>2, <2>3 DEF Opened, Has, Callers
<1>7. Unserved(ch)'
  BY <1>1, <1>2 DEF Unserved, Nothing, NoSchema
<1> QED
  BY <1>1, <1>3, <1>4, <1>5, <1>6, <1>7 DEF Agreed, Served, Unserved

LEMMA ReplayEndAgrees ==
    ASSUME IInv, SInv, Steady', ReplayEnds, NEW ch \in Channels \ disturbed'
    PROVE  Agreed(ch)'
<1> USE DEF clientVars, callVars, serverVars
<1>1. /\ supervisor = "next_channel" /\ supervisor' = "live"
      /\ UNCHANGED <<clientVars, callVars, todo, stored, schemas_before, serverVars, disturbed>>
  BY DEF ReplayEnds
<1>2. KeepsRecord(ch) /\ KeepsWork(ch) /\ KeepsCopy /\ KeepsService(ch) /\ Agreed(ch)
  BY <1>1 DEF KeepsRecord, KeepsWork, KeepsCopy, KeepsService, Calling, Reconfiguring,
              Replaying, SInv, Agreement
<1>3. KeepsWord(ch)
  BY <1>1, NothingIsSaid DEF InWire, Has, Asked
<1> QED
  BY <1>1, <1>2, <1>3, AgreedFrame DEF SInv, Steady

\* A step of the rebuild of d leaves the other channels alone.
LEMMA ReplaysElsewhere ==
    ASSUME IInv, SInv, Numbered', NEW d \in Channels, Due(d),
           supervisor \in Replaying, supervisor' \in Replaying,
           supervisor' = "configuring" => todo' = todo,
           UNCHANGED <<channels, next_channel, book, call, schemas_before, session>>,
           todo' \in {todo, todo \ {d}},
           NEW ch \in Channels \ {d}, schemas'[ch] = schemas[ch],
           mailbox' \in {mailbox, [mailbox EXCEPT !["supervisor"] = Empty]},
           SpeaksOf(d),
           \/ requests' = requests
           \/ \E expected \in Answers : Registers("supervisor", expected, d),
           Agreed(ch)
    PROVE  Agreed(ch)'
<1>1. Numbered /\ Shapes /\ "supervisor" \in Callers /\ ~Due(ch)
  BY OneIsDue DEF SInv, Steady, IInv, Callers
<1>2. KeepsRecord(ch) /\ KeepsCopy /\ KeepsService(ch)
  BY DEF KeepsRecord, KeepsCopy, SpeaksOf
<1>3. KeepsWork(ch)
  BY <1>1 DEF KeepsWork, Calling, Reconfiguring, Due
<1>4. KeepsWord(ch)
  <2>1. \A type : InWire(type, ch)' => InWire(type, ch)
    BY <1>1, SaidOfOthers
  <2>2. \A type : \A c \in Callers : Has(c, type, ch)' => Has(c, type, ch)
    BY <1>1, NothingHeld
  <2>3. \A c \in Callers : Asked(c, "FEED_CONFIG", ch)' => Asked(c, "FEED_CONFIG", ch)
    <3>1. CASE requests' = requests
      BY <3>1 DEF Asked
    <3>2. ASSUME NEW expected \in Answers, Registers("supervisor", expected, d),
                 NEW c \in Callers, Asked(c, "FEED_CONFIG", ch)'
          PROVE  Asked(c, "FEED_CONFIG", ch)
      BY <1>1, <3>2, QuestionsGrow
    <3> QED
      BY <3>1, <3>2
  <2> QED
    BY <2>1, <2>2, <2>3, NothingIsSaid
<1> QED
  BY <1>1, <1>2, <1>3, <1>4, AgreedFrame

\* What is known of a channel that is rebuilt and not at risk.
LEMMA AgreedInReplay ==
    ASSUME IInv, SInv, NEW d \in Channels \ disturbed, Due(d), session = "up"
    PROVE  /\ Remembered(d) /\ Served(d) /\ Outage
           /\ d \in channels /\ d \in todo /\ ~(d >= next_channel)
           /\ ~Calling(d) /\ (\A op : ~IsBeing(op, d)) /\ ~Gone(d)
           /\ server.subs[d] = << >>
           /\ Opened(d) => d \in server.open
<1>1. /\ Remembered(d) /\ Served(d) /\ d \in todo
  BY DEF SInv, Agreement, Agreed, Due
<1>2. d \in channels /\ Outage
  BY <1>1 DEF IInv, Rebuilds, Outage, Replaying
<1>3. ~Calling(d) /\ \A op : ~IsBeing(op, d)
  BY <1>2, OwnerAtRisk DEF IsBeing
<1>4. ~(d >= next_channel)
  BY <1>2 DEF SInv, Steady, Numbered, Channels
<1> QED
  BY <1>1, <1>2, <1>3, <1>4 DEF Served, Gone

LEMMA ReopenAgrees ==
    ASSUME IInv, SInv, Steady', NEW d \in Channels, ReplayReopens(d),
           NEW ch \in Channels \ disturbed'
    PROVE  Agreed(ch)'
<1>1. /\ supervisor = "next_channel" /\ Due(d) /\ supervisor' = "reopening"
      /\ Registers("supervisor", "CHANNEL_OPENED", d) /\ OpensChannel(d)
      /\ UNCHANGED <<channels, next_channel, schemas, book, call, mailbox, todo, stored,
                     schemas_before, session, disturbed>>
  BY DEF ReplayReopens, clientVars
<1>2. Shapes /\ Books /\ Numbered' /\ Agreed(ch)
  BY <1>1 DEF IInv, SInv, Steady, Agreement
<1>3. CASE ch # d
  <2>1. SpeaksOf(d)
    BY <1>1, <1>2, OpensAnswers
  <2> QED
    BY <1>1, <1>2, <1>3, <2>1, ReplaysElsewhere DEF Answers, Replaying
<1>4. CASE ch = d
  <2>1. ~Reconfiguring(ch) /\ ~Reconfiguring(ch)'
    BY <1>1 DEF Reconfiguring
  <2>2. Remembered(ch)'
    BY <1>1, <1>2, <2>1 DEF Agreed, Remembered, IsBeing, Calling, Replaying
  <2>3. ASSUME session = "up" PROVE Served(ch)'
    <3>1. /\ ch \in channels /\ ch \in todo /\ ~(ch >= next_channel)
          /\ ~Calling(ch) /\ server.subs[ch] = << >>
          /\ Opened(ch) => ch \in server.open
      BY <1>1, <1>4, <2>3, AgreedInReplay
    <3>2. ~Calling(ch)' /\ \A op : ~IsBeing(op, ch)'
      BY <1>1, <3>1 DEF Calling, IsBeing
    <3>3. server'.subs[ch] = << >>
      BY <1>1, <1>2, <1>4, <3>1, OpensAnswers
    <3>4. Opened(ch)' => ch \in server'.open
      <4>1. Opened(ch)' => Opened(ch) \/ ch \in server'.open
        BY <1>1, <1>2, <1>4, OpensAnswers DEF Opened, Has
      <4> QED
        BY <1>1, <1>2, <1>4, <3>1, <4>1, OpensAnswers
    <3> QED
      BY <1>1, <2>1, <3>1, <3>2, <3>3, <3>4 DEF Served
  <2> QED
    BY <1>1, <2>2, <2>3 DEF Agreed
<1> QED
  BY <1>3, <1>4

LEMMA ReconfigureAgrees ==
    ASSUME IInv, SInv, Steady', NEW d \in Channels, ReplayReconfigures(d),
           NEW ch \in Channels \ disturbed'
    PROVE  Agreed(ch)'
<1> DEFINE Skips == /\ schemas[d] = NoSchema
                    /\ todo' = todo \ {d} /\ supervisor' = "next_channel"
                    /\ UNCHANGED <<schemas, stored, requests, server, wire>>
           Asks == /\ stored' = DOMAIN schemas[d]
                   /\ schemas' = [schemas EXCEPT ![d] = NoSchema]
                   /\ Registers("supervisor", "FEED_CONFIG", d)
                   /\ ConfiguresFeed(d, DOMAIN schemas[d])
                   /\ supervisor' = "configuring" /\ UNCHANGED todo
<1>1. /\ supervisor = "reopening" /\ Due(d)
      /\ mailbox["supervisor"].type = "CHANNEL_OPENED"
      /\ mailbox' = [mailbox EXCEPT !["supervisor"] = Empty]
      /\ UNCHANGED <<channels, next_channel, book, call, schemas_before, session, disturbed>>
      /\ Skips \/ Asks
  BY DEF ReplayReconfigures, Heard, Forgotten
<1> HIDE DEF Skips, Asks
<1>2. /\ Shapes /\ Books /\ Books' /\ Numbered' /\ Agreed(ch)
      /\ DOMAIN schemas[d] \in SUBSET Types
      /\ "supervisor" \in Callers
  BY <1>1 DEF IInv, SInv, Steady, Agreement, Shapes, Callers
<1>3. Opened(d)
  BY <1>1, <1>2, OneIsDue DEF Opened, Has, SInv, Steady, Addressed, Answers
<1>4. SpeaksOf(d)
  <2>1. CASE Skips
    BY <1>2, <2>1 DEF Skips, SpeaksOf, KeepsService, Books
  <2>2. CASE Asks
    BY <1>2, <2>2, ConfiguresAnswers DEF Asks
  <2> QED
    BY <1>1, <2>1, <2>2
<1>5. CASE ch # d
  <2>1. schemas'[ch] = schemas[ch]
    BY <1>1, <1>2, <1>5 DEF Skips, Asks, Shapes
  <2> QED
    BY <1>1, <1>2, <1>4, <1>5, <2>1, ReplaysElsewhere DEF Skips, Asks, Answers, Replaying
<1>6. CASE ch = d
  <2>1. Outage /\ ~Calling(ch) /\ ~Calling(ch)'
        /\ (\A op : ~IsBeing(op, ch)) /\ (\A op : ~IsBeing(op, ch)')
    BY <1>1, OwnerAtRisk DEF Outage, Calling, IsBeing
  <2>2. /\ ToSet(book[ch]) \subseteq DOMAIN schemas[ch]
        /\ ToSet(book[ch]) \subseteq DOMAIN schemas_before[ch]
    BY <1>1, <1>2, <2>1 DEF Agreed, Remembered, Reconfiguring, Replaying
  <2>3. CASE Skips
    <3>1. ~Reconfiguring(ch)' /\ ch \notin todo' /\ DOMAIN NoSchema = {}
      BY <1>6, <2>3 DEF Skips, Reconfiguring, NoSchema
    <3>2. Remembered(ch)'
      BY <1>1, <2>1, <2>2, <2>3, <3>1 DEF Skips, Remembered
    <3>3. ASSUME session = "up" PROVE Served(ch)'
      <4>1. /\ ~(ch >= next_channel) /\ ch \in todo
            /\ server.subs[ch] = << >> /\ ch \in server.open
        BY <1>1, <1>3, <1>6, <3>3, AgreedInReplay
      <4>2. server.config[ch] = NoSchema
        BY <1>1, <3>3, <4>1 DEF IInv, NotYetServed, Unconfigured
      <4>3. book[ch] = << >>
        BY <1>2, <1>6, <2>2, <2>3, <3>1, NoElements DEF Skips, Books
      <4>4. OpenAs(ch, DOMAIN schemas[ch], book[ch])'
        BY <1>1, <1>6, <2>3, <4>1, <4>2, <4>3 DEF Skips, OpenAs
      <4> QED
        BY <1>1, <2>1, <2>3, <3>1, <4>1, <4>4 DEF Served, Skips, OpenAs
    <3> QED
      BY <1>1, <3>2, <3>3 DEF Agreed
  <2>4. CASE Asks
    <3>1. /\ Reconfiguring(ch)' /\ stored' = DOMAIN schemas[ch] /\ ch \in todo'
      BY <1>1, <1>6, <2>4 DEF Asks, Reconfiguring, Due
    <3>2. Remembered(ch)'
      BY <1>1, <2>1, <2>2, <3>1 DEF Remembered
    <3>3. ASSUME session = "up" PROVE Served(ch)'
      <4>1. /\ ~(ch >= next_channel) /\ ch \in todo
            /\ server.subs[ch] = << >> /\ ch \in server.open
        BY <1>1, <1>3, <1>6, <3>3, AgreedInReplay
      <4>2. ~InWire("FEED_CONFIG", ch)
        BY <1>1, <3>3, <4>1 DEF IInv, NotYetServed, Unconfigured, InWire, IsConfig
      <4>3. server'.subs[ch] = << >> /\ ch \in server'.open
        BY <1>2, <1>6, <2>4, <4>1, ConfiguresAnswers DEF Asks
      <4>4. ~Has("supervisor", "FEED_CONFIG", ch)'
        BY <1>1, <1>2 DEF Has, Shapes, Empty, Plain
      <4>5. Answering("supervisor", ch)' => DOMAIN server'.config[ch] = stored'
        BY <1>2, <1>6, <2>4, <3>1, <4>2, <4>4, ConfiguresAnswers DEF Asks, Answering
      <4> QED
        BY <1>1, <2>1, <3>1, <4>1, <4>3, <4>5 DEF Served
    <3> QED
      BY <1>1, <3>2, <3>3 DEF Agreed
  <2> QED
    BY <1>1, <2>3, <2>4
<1> QED
  BY <1>5, <1>6

LEMMA ResubscribeAgrees ==
    ASSUME IInv, SInv, Steady', NEW d \in Channels, ReplayResubscribes(d),
           NEW ch \in Channels \ disturbed'
    PROVE  Agreed(ch)'
<1>1. /\ supervisor = "configuring" /\ supervisor' = "next_channel" /\ Due(d)
      /\ mailbox["supervisor"].type = "FEED_CONFIG"
      /\ mailbox' = [mailbox EXCEPT !["supervisor"] = Empty]
      /\ schemas' = [schemas EXCEPT ![d] = Negotiated(mailbox["supervisor"], stored)]
      /\ \/ book[d] = << >> /\ Ignores
         \/ book[d] # << >>
            /\ Subscribes(d, ToSet(book[d]), Added(server.subs[d], book[d]))
      /\ todo' = todo \ {d}
      /\ UNCHANGED <<channels, next_channel, book, call, requests, stored, schemas_before,
                     session, disturbed>>
  BY DEF ReplayResubscribes, Heard
<1>2. /\ Shapes /\ Books /\ Numbered' /\ Agreed(ch) /\ "supervisor" \in Callers
  BY <1>1 DEF IInv, SInv, Steady, Agreement, Callers
<1>3. Has("supervisor", "FEED_CONFIG", d)
  BY <1>1, <1>2, OneIsDue DEF Has, IInv, Waiters
<1>4. SpeaksOf(d)
  <2>1. CASE Ignores
    BY <1>2, <2>1 DEF Ignores, SpeaksOf, KeepsService, Books
  <2>2. CASE Subscribes(d, ToSet(book[d]), Added(server.subs[d], book[d]))
    BY <1>2, <2>2, SubscribesAnswers
  <2> QED
    BY <1>1, <2>1, <2>2
<1>5. CASE ch # d
  <2>1. schemas'[ch] = schemas[ch]
    BY <1>1, <1>2, <1>5 DEF Shapes
  <2> QED
    BY <1>1, <1>2, <1>4, <1>5, <2>1, ReplaysElsewhere DEF Replaying
<1>6. CASE ch = d
  <2>1. Outage /\ ~Calling(ch) /\ ~Calling(ch)' /\ \A op : ~IsBeing(op, ch)'
    BY <1>1, OwnerAtRisk DEF Outage, Calling, IsBeing
  <2>2. /\ Reconfiguring(ch) /\ ToSet(book[ch]) \subseteq stored
        /\ ToSet(book[ch]) \subseteq DOMAIN schemas_before[ch]
    BY <1>1, <1>2, <1>6 DEF Agreed, Remembered, Reconfiguring, Replaying
  <2>3. DOMAIN schemas'[ch] = stored /\ ~Reconfiguring(ch)' /\ ch \notin todo'
    BY <1>1, <1>2, <1>6 DEF Shapes, Negotiated, Reconfiguring
  <2>4. Remembered(ch)'
    BY <1>1, <2>1, <2>2, <2>3 DEF Remembered
  <2>5. ASSUME session = "up" PROVE Served(ch)'
    <3>1. /\ ~(ch >= next_channel) /\ ch \in todo /\ server.subs[ch] = << >> /\ Served(ch)
      BY <1>1, <1>6, <2>5, AgreedInReplay
    <3>2. ch \in server.open /\ DOMAIN server.config[ch] = stored
      BY <1>3, <1>6, <2>2, <3>1 DEF Served, Answering
    <3>3. OpenAs(ch, DOMAIN schemas[ch], book[ch])'
      <4>1. CASE book[d] = << >> /\ Ignores
        BY <1>1, <1>6, <2>3, <3>1, <3>2, <4>1 DEF Ignores, OpenAs
      <4>2. CASE Subscribes(d, ToSet(book[d]), Added(server.subs[d], book[d]))
        <5>1. Added(server.subs[d], book[d]) = book[d]
          <6>1. server.subs[d] = << >> /\ book[d] \in Seq(Types)
            BY <1>2, <1>6, <3>1 DEF Books
          <6>2. \A e, q \in Seq(Types) : e = << >> => Added(e, q) = q
            BY AddedElements
          <6>3. << >> \in Seq(Types)
            OBVIOUS
          <6> QED
            BY <6>1, <6>2, <6>3
        <5>2. TakesList(d, book[d])
          BY <1>2, <1>6, <2>2, <2>5, <3>1, <3>2, <4>2, <5>1, SubscribesAnswers
        <5> QED
          BY <1>1, <1>6, <2>3, <3>2, <5>2 DEF TakesList, OpenAs
      <4> QED
        BY <1>1, <4>1, <4>2
    <3> QED
      BY <1>1, <2>1, <2>3, <3>1, <3>3 DEF Served, OpenAs
  <2> QED
    BY <1>1, <2>4, <2>5 DEF Agreed
<1> QED
  BY <1>5, <1>6

\* The copy that is put back has a layout for all that is subscribed.
LEMMA TearDownAgrees ==
    ASSUME IInv, SInv, ReplayTimesOut \/ ReopenRefused \/ ConfigurationRefused,
           NEW ch \in Channels \ disturbed'
    PROVE  Agreed(ch)'
<1>1. /\ supervisor \in Replaying /\ supervisor' \in {"backoff", "gave_up"}
      /\ session' = "none" /\ schemas' = schemas_before
      /\ disturbed \subseteq disturbed'
      /\ UNCHANGED <<book, call>>
  BY FailureTearsDown DEF TearsDown, Replaying, SchemasAfterFailure
<1>2. Outage /\ Agreed(ch)
  BY <1>1 DEF Outage, Replaying, SInv, Agreement
<1>3. ~Calling(ch) /\ ~Calling(ch)' /\ ~Reconfiguring(ch)'
  BY <1>1, <1>2, OwnerAtRisk DEF Calling, Reconfiguring
<1> QED
  BY <1>1, <1>2, <1>3 DEF Agreed, Remembered, IsBeing, Replaying

-----------------------------------------------------------------------------
(***************************************************************************)
(* The rest of the invariant, and the theorem.                             *)
(***************************************************************************)

\* What the owner's steps do to the operation it is in, and to whom answers
\* are for; no other step begins or ends one.
LEMMA OperatingKeeps ==
    ASSUME IInv, SInv, Next
    PROVE  Operating' /\ Numbered'
<1> USE DEF Steady, SInv, clientVars, callVars, Channels
<1>1. channels \subseteq Channels /\ Channels \subseteq Nat /\ Operating /\ Numbered
  BY DEF IInv, Shapes
<1>2. CASE CreateFeedChannel \/ FailsUnconnected
  <2>1. /\ channels' = channels
        /\ next_channel' \in {next_channel, next_channel + 1}
        /\ next_channel' # next_channel => next_channel \in Channels
        /\ \/ call' = call /\ call = Idle
           \/ /\ call' = [op |-> "create_feed_channel", channel |-> next_channel,
                          types |-> {}, at |-> "waiting"]
              /\ next_channel' = next_channel + 1
    <3>1. CASE CreateFeedChannel
      BY <3>1 DEF CreateFeedChannel, Begins
    <3>2. CASE FailsUnconnected
      BY <3>2 DEF FailsUnconnected, MayCall
    <3> QED
      BY <1>2, <3>1, <3>2
  <2>2. next_channel' \in 1 .. MaxChannels + 1 /\ next_channel \notin channels
    BY <1>1, <2>1, FeedAssumption DEF Numbered
  <2>3. \A ch \in channels : ch < next_channel'
    BY <1>1, <2>1 DEF Numbered
  <2> QED
    BY <1>1, <2>1, <2>2, <2>3 DEF Operating, Numbered, Idle
<1>3. ASSUME NEW ch \in Channels,
             \/ \E types \in SUBSET Types : SetupFeed(ch, types)
             \/ \E t \in Types : Subscribe(ch, t) \/ Unsubscribe(ch, t)
             \/ ResetSubscriptions(ch) \/ CloseChannel(ch)
      PROVE  Operating' /\ Numbered'
  <2>1. /\ ch \in channels /\ UNCHANGED <<channels, next_channel>>
        /\ \/ \E op \in {"setup_feed", "close_channel"} : \E types :
                 call' = [op |-> op, channel |-> ch, types |-> types, at |-> "waiting"]
           \/ \E op \in {"subscribe", "unsubscribe"}, t \in Types :
                 call' = [op |-> op, channel |-> ch, types |-> {t}, at |-> "sent"]
           \/ call' = [op |-> "reset_subscriptions", channel |-> ch, types |-> {},
                       at |-> "sent"]
    <3> USE DEF Begins
    <3>1. ASSUME NEW types \in SUBSET Types, SetupFeed(ch, types)
          PROVE  /\ ch \in channels /\ UNCHANGED <<channels, next_channel>>
                 /\ call' = [op |-> "setup_feed", channel |-> ch, types |-> types,
                             at |-> "waiting"]
      BY <3>1 DEF SetupFeed
    <3>2. ASSUME NEW t \in Types, Subscribe(ch, t)
          PROVE  /\ ch \in channels /\ UNCHANGED <<channels, next_channel>>
                 /\ call' = [op |-> "subscribe", channel |-> ch, types |-> {t}, at |-> "sent"]
      BY <3>2 DEF Subscribe
    <3>3. ASSUME NEW t \in Types, Unsubscribe(ch, t)
          PROVE  /\ ch \in channels /\ UNCHANGED <<channels, next_channel>>
                 /\ call' = [op |-> "unsubscribe", channel |-> ch, types |-> {t}, at |-> "sent"]
      BY <3>3 DEF Unsubscribe
    <3>4. CASE ResetSubscriptions(ch)
      BY <3>4 DEF ResetSubscriptions
    <3>5. CASE CloseChannel(ch)
      BY <3>5 DEF CloseChannel
    <3> QED
      BY <1>3, <3>1, <3>2, <3>3, <3>4, <3>5
  <2>2. Operating'
    BY <2>1 DEF Operating
  <2>3. Numbered'
    BY <1>1, <2>1 DEF Numbered
  <2> QED
    BY <2>2, <2>3
<1>4. CASE \/ SendReturns \/ SendAbandoned \/ CreateCompletes \/ SetupCompletes
           \/ CloseCompletes \/ CallFails \/ CallAbandoned
  <2>1. /\ call' = Idle /\ next_channel' = next_channel /\ call.at # "idle"
        /\ channels' \subseteq channels \cup {call.channel}
    BY <1>4 DEF SendReturns, SendAbandoned, CreateCompletes, SetupCompletes,
                CloseCompletes, CallFails, CallAbandoned, Completes
  <2> QED
    BY <1>1, <2>1 DEF Operating, Numbered, Idle
<1>5. CASE SupervisorStep \/ ServerStep \/ ReaderTakes \/ LoseSession
  <2>1. UNCHANGED <<channels, next_channel, call>>
    BY <1>5 DEF SupervisorStep, SupervisorLearnsOfLoss, AttemptBegins, HandshakeFails,
                HandshakeSucceeds, ReplayReopens, ReplayReconfigures, ReplayResubscribes,
                ReplayEnds, ReplayTimesOut, ReopenRefused, ConfigurationRefused, TearsDown,
                ServerStep, ServerReconfigures, ServerSendsRow, ReaderTakes, LoseSession
  <2> QED
    BY <1>1, <2>1 DEF Operating, Numbered
<1> QED
  BY <1>2, <1>3, <1>4, <1>5 DEF Next, OwnerStep

LEMMA AddressedKeeps ==
    ASSUME IInv, SInv, Next
    PROVE  Addressed'
<1> USE DEF clientVars, callVars, supervisorVars, serverVars
<1>1. /\ Empty.type \notin Answers /\ Closed.type \notin Answers
      /\ "owner" \in Callers /\ "supervisor" \in Callers
      /\ mailbox \in [Callers -> Message \cup {Empty, Closed}] /\ Addressed
  BY DEF Empty, Closed, Plain, Answers, Callers, IInv, Shapes, SInv, Steady
<1>2. CASE \/ CreateFeedChannel \/ FailsUnconnected \/ SendReturns \/ SendAbandoned
           \/ \E ch \in Channels :
                 \/ \E types \in SUBSET Types : SetupFeed(ch, types)
                 \/ \E t \in Types : Subscribe(ch, t) \/ Unsubscribe(ch, t)
                 \/ ResetSubscriptions(ch) \/ CloseChannel(ch)
  <2>1. mailbox' = mailbox /\ todo' = todo /\ call.at # "waiting"
    <3> USE DEF Begins, MayCall, Idle
    <3>1. CASE CreateFeedChannel
      BY <3>1 DEF CreateFeedChannel
    <3>2. CASE FailsUnconnected
      BY <3>2 DEF FailsUnconnected
    <3>3. CASE SendReturns \/ SendAbandoned
      BY <3>3 DEF SendReturns, SendAbandoned
    <3>4. ASSUME NEW ch \in Channels,
                 \/ \E types \in SUBSET Types : SetupFeed(ch, types)
                 \/ ResetSubscriptions(ch) \/ CloseChannel(ch)
          PROVE  mailbox' = mailbox /\ todo' = todo /\ call.at # "waiting"
      BY <3>4 DEF SetupFeed, ResetSubscriptions, CloseChannel
    <3>5. ASSUME NEW ch \in Channels, NEW t \in Types, Subscribe(ch, t) \/ Unsubscribe(ch, t)
          PROVE  mailbox' = mailbox /\ todo' = todo /\ call.at # "waiting"
      BY <3>5 DEF Subscribe, Unsubscribe
    <3> QED
      BY <1>2, <3>1, <3>2, <3>3, <3>4, <3>5
  <2>2. mailbox["owner"] = Empty
    BY <2>1 DEF IInv, Waiters
  <2> QED
    BY <1>1, <2>1, <2>2 DEF Addressed, Due
<1>3. CASE \/ CreateCompletes \/ SetupCompletes \/ CloseCompletes
           \/ CallFails \/ CallAbandoned
  <2>1. mailbox' = [mailbox EXCEPT !["owner"] = Empty] /\ todo' = todo
    BY <1>3 DEF CreateCompletes, SetupCompletes, CloseCompletes, CallFails, CallAbandoned,
                Completes
  <2> QED
    BY <1>1, <2>1 DEF Addressed, Due
<1>4. CASE SupervisorLearnsOfLoss
  BY <1>1, <1>4 DEF SupervisorLearnsOfLoss, Addressed, Due
<1>5. CASE \/ AttemptBegins \/ HandshakeFails \/ ReplayEnds
           \/ \E ch \in Channels : ReplayReopens(ch)
  BY <1>1, <1>5 DEF AttemptBegins, HandshakeFails, ReplayEnds, ReplayReopens, Addressed, Due
<1>6. CASE HandshakeSucceeds
  BY <1>1, <1>6 DEF HandshakeSucceeds, Addressed, IInv, Waiters
<1>7. CASE \/ \E ch \in Channels : ReplayReconfigures(ch) \/ ReplayResubscribes(ch)
           \/ ReplayTimesOut \/ ReopenRefused \/ ConfigurationRefused
  <2>1. mailbox' = [mailbox EXCEPT !["supervisor"] = Empty] /\ call' = call
    BY <1>7 DEF ReplayReconfigures, ReplayResubscribes, ReplayTimesOut, ReopenRefused,
                ConfigurationRefused, Heard, TearsDown
  <2> QED
    BY <1>1, <2>1 DEF Addressed
<1>8. CASE ServerStep \/ LoseSession
  BY <1>1, <1>8 DEF ServerStep, ServerReconfigures, ServerSendsRow, LoseSession, Addressed, Due
<1>9. CASE ReaderTakes
  <2>1. UNCHANGED <<call, todo>>
    BY <1>9 DEF ReaderTakes
  <2>2. ASSUME NEW i \in DOMAIN requests, Fits(requests[i], wire[1]),
               mailbox' = [mailbox EXCEPT ![requests[i].caller] = wire[1]]
        PROVE  Addressed'
    <3>1. requests[i] \in Request
      BY ElementOfSeq DEF IInv, Shapes
    <3>2. /\ requests[i].caller = "owner" => call.channel = wire[1].channel
          /\ requests[i].caller = "supervisor" => Due(wire[1].channel)
      BY <2>2 DEF IInv, Waiters, Fits
    <3> QED
      BY <1>1, <2>1, <2>2, <3>1, <3>2 DEF Addressed, Due, Request
  <2>3. CASE mailbox' = mailbox
    BY <1>1, <2>1, <2>3 DEF Addressed, Due
  <2> QED
    BY <1>9, <2>2, <2>3, ReaderRoutes
<1> QED
  BY <1>2, <1>3, <1>4, <1>5, <1>6, <1>7, <1>8, <1>9 DEF Next, OwnerStep, SupervisorStep

LEMMA BooksKeep ==
    ASSUME IInv, SInv, Next
    PROVE  /\ book' \in [Channels -> Seq(Types)]
           /\ OncePerKey => OncePerKey'
<1>1. /\ book \in [Channels -> Seq(Types)] /\ Operating
      /\ << >> \in Seq(Types) /\ IsInjective(<< >>)
  BY DEF SInv, Steady, Books, IsInjective
<1>2. CASE SendReturns
  <2>1. ASSUME NEW t \in Types, NEW ch \in Channels
        PROVE  /\ Inserted(book[ch], t) \in Seq(Types)
               /\ Removed(book[ch], t) \in Seq(Types)
               /\ IsInjective(book[ch]) => /\ IsInjective(Inserted(book[ch], t))
                                           /\ IsInjective(Removed(book[ch], t))
    <3>1. book[ch] \in Seq(Types)
      BY <1>1
    <3> QED
      BY <3>1, InsertedElements, RemovedElements
  <2>2. call.channel \in Channels
    BY <1>2 DEF SendReturns, IInv, Waiters
  <2>3. call.op # "reset_subscriptions" => \E t \in Types : call.types = {t}
    BY <1>1, <1>2 DEF SendReturns, Operating
  <2>4. \E s \in Seq(Types) : /\ book' = [book EXCEPT ![call.channel] = s]
                              /\ IsInjective(book[call.channel]) => IsInjective(s)
    <3>1. CASE call.op = "reset_subscriptions" /\ book' = ForgetChannel(call.channel)
      BY <1>1, <3>1 DEF ForgetChannel
    <3>2. ASSUME NEW t \in call.types, call.op # "reset_subscriptions",
                 \/ book' = [book EXCEPT ![call.channel] = Inserted(@, t)]
                 \/ book' = [book EXCEPT ![call.channel] = Removed(@, t)]
          PROVE  \E s \in Seq(Types) : /\ book' = [book EXCEPT ![call.channel] = s]
                                       /\ IsInjective(book[call.channel]) => IsInjective(s)
      <4>1. t \in Types
        BY <2>3, <3>2
      <4> QED
        BY <2>1, <2>2, <3>2, <4>1
    <3> QED
      BY <1>2, <3>1, <3>2 DEF SendReturns
  <2>5. PICK s \in Seq(Types) : /\ book' = [book EXCEPT ![call.channel] = s]
                                /\ IsInjective(book[call.channel]) => IsInjective(s)
    BY <2>4
  <2>6. ASSUME NEW ch \in Channels, OncePerKey PROVE IsInjective(book[ch])'
    <3>1. IsInjective(book[ch]) /\ IsInjective(s)
      BY <2>2, <2>5, <2>6 DEF OncePerKey
    <3>2. book'[ch] = s \/ book'[ch] = book[ch]
      BY <1>1, <2>2, <2>5
    <3> QED
      BY <3>1, <3>2 DEF IsInjective
  <2> QED
    BY <1>1, <2>2, <2>5, <2>6 DEF OncePerKey
<1>3. CASE CloseCompletes
  BY <1>1, <1>3 DEF CloseCompletes, ForgetChannel, OncePerKey
<1>4. CASE UNCHANGED book
  BY <1>1, <1>4 DEF OncePerKey
<1>5. SendReturns \/ CloseCompletes \/ UNCHANGED book
  <2> USE DEF clientVars
  <2>1. CASE OwnerStep
    BY <2>1 DEF OwnerStep, CreateFeedChannel, FailsUnconnected, SetupFeed, Subscribe,
                Unsubscribe, ResetSubscriptions, CloseChannel, SendAbandoned,
                CreateCompletes, SetupCompletes, CallFails, CallAbandoned
  <2>2. CASE SupervisorStep
    BY <2>2 DEF SupervisorStep, SupervisorLearnsOfLoss, AttemptBegins, HandshakeFails,
                HandshakeSucceeds, ReplayReopens, ReplayReconfigures, ReplayResubscribes,
                ReplayEnds, ReplayTimesOut, ReopenRefused, ConfigurationRefused, TearsDown
  <2>3. CASE ServerStep \/ ReaderTakes \/ LoseSession
    BY <2>3 DEF ServerStep, ServerReconfigures, ServerSendsRow, ReaderTakes, LoseSession
  <2> QED
    BY <2>1, <2>2, <2>3 DEF Next
<1> QED
  BY <1>2, <1>3, <1>4, <1>5

\* A server that has lost the session has nothing, and says nothing.
LEMMA SilentServer ==
    ASSUME session # "up", NEW ch,
           \/ OpensChannel(ch) \/ ClosesChannel(ch)
           \/ \E types : ConfiguresFeed(ch, types)
           \/ \E types, subs : Subscribes(ch, types, subs)
           \/ \E subs : Unsubscribes(ch, subs)
    PROVE  UNCHANGED server
BY DEF OpensChannel, ClosesChannel, ConfiguresFeed, Subscribes, Unsubscribes, Ignores

LEMMA ServerKeeps ==
    ASSUME IInv, SInv, Next
    PROVE  NothingServed' /\ DOMAIN server'.subs = Channels
<1> USE DEF serverVars
<1> DEFINE Handles ==
        /\ session' = session
        /\ \E ch \in Channels :
              \/ OpensChannel(ch) \/ ClosesChannel(ch)
              \/ \E types \in SUBSET Types : ConfiguresFeed(ch, types)
              \/ \E types, subs : Subscribes(ch, types, subs)
              \/ \E subs : Unsubscribes(ch, subs)
<1>1. Shapes /\ Books /\ NothingServed
  BY DEF IInv, SInv, Steady
<1>2. CASE Handles
  <2>1. PICK ch \in Channels :
           \/ OpensChannel(ch) \/ ClosesChannel(ch)
           \/ \E types \in SUBSET Types : ConfiguresFeed(ch, types)
           \/ \E types, subs : Subscribes(ch, types, subs)
           \/ \E subs : Unsubscribes(ch, subs)
    BY <1>2
  <2>2. SpeaksOf(ch)
    BY <1>1, <2>1, OpensAnswers, ClosesAnswers, ConfiguresAnswers, SubscribesAnswers,
       UnsubscribesAnswers
  <2>3. session # "up" => UNCHANGED server
    BY <2>1, SilentServer
  <2> QED
    BY <1>1, <1>2, <2>2, <2>3 DEF SpeaksOf, NothingServed
<1>3. CASE UNCHANGED <<session, server>>
  BY <1>1, <1>3 DEF NothingServed, Books
<1>4. CASE session' # "up" /\ server' = Nothing
  BY <1>4 DEF NothingServed, Nothing
<1>5. CASE HandshakeSucceeds
  BY <1>1, <1>5 DEF HandshakeSucceeds, NothingServed, Books
<1>6. ASSUME NEW ch \in Channels, ServerReconfigures(ch)
      PROVE  NothingServed' /\ DOMAIN server'.subs = Channels
  BY <1>1, <1>6 DEF ServerReconfigures, NothingServed, Books, Shapes
<1>7. \/ Handles \/ UNCHANGED <<session, server>> \/ (session' # "up" /\ server' = Nothing)
      \/ HandshakeSucceeds \/ \E ch \in Channels : ServerReconfigures(ch)
  <2>1. CASE OwnerStep
    <3> USE DEF Begins
    <3>1. CASE CreateFeedChannel
      BY <3>1 DEF CreateFeedChannel
    <3>2. ASSUME NEW ch \in Channels, NEW types \in SUBSET Types, SetupFeed(ch, types)
          PROVE  Handles
      BY <3>2 DEF SetupFeed
    <3>3. ASSUME NEW ch \in Channels, NEW t \in Types, Subscribe(ch, t)
          PROVE  Handles
      BY <3>3 DEF Subscribe
    <3>4. ASSUME NEW ch \in Channels, NEW t \in Types, Unsubscribe(ch, t)
          PROVE  Handles
      BY <3>4 DEF Unsubscribe
    <3>5. ASSUME NEW ch \in Channels, ResetSubscriptions(ch) \/ CloseChannel(ch)
          PROVE  Handles
      BY <3>5 DEF ResetSubscriptions, CloseChannel
    <3>6. CASE \/ FailsUnconnected \/ SendReturns \/ SendAbandoned \/ CreateCompletes
               \/ SetupCompletes \/ CloseCompletes \/ CallFails \/ CallAbandoned
      BY <3>6 DEF FailsUnconnected, SendReturns, SendAbandoned, CreateCompletes,
                  SetupCompletes, CloseCompletes, CallFails, CallAbandoned, Completes
    <3> HIDE DEF Handles
    <3> QED
      BY <2>1, <3>1, <3>2, <3>3, <3>4, <3>5, <3>6 DEF OwnerStep
  <2>2. CASE SupervisorStep
    <3>1. CASE SupervisorLearnsOfLoss \/ AttemptBegins \/ HandshakeFails \/ ReplayEnds
      BY <3>1 DEF SupervisorLearnsOfLoss, AttemptBegins, HandshakeFails, ReplayEnds
    <3>2. CASE ReplayTimesOut \/ ReopenRefused \/ ConfigurationRefused
      BY <3>2 DEF ReplayTimesOut, ReopenRefused, ConfigurationRefused, TearsDown
    <3>3. ASSUME NEW ch \in Channels,
                 ReplayReopens(ch) \/ ReplayReconfigures(ch) \/ ReplayResubscribes(ch)
          PROVE  Handles \/ UNCHANGED <<session, server>>
      <4>1. DOMAIN schemas[ch] \in SUBSET Types
        BY <1>1 DEF Shapes
      <4> QED
        BY <3>3, <4>1 DEF ReplayReopens, ReplayReconfigures, ReplayResubscribes, Ignores
    <3> HIDE DEF Handles
    <3> QED
      BY <2>2, <3>1, <3>2, <3>3 DEF SupervisorStep
  <2>3. CASE ServerStep
    BY <2>3 DEF ServerStep, ServerSendsRow
  <2>4. CASE ReaderTakes \/ LoseSession
    BY <2>4 DEF ReaderTakes, LoseSession
  <2> HIDE DEF Handles
  <2> QED
    BY <2>1, <2>2, <2>3, <2>4 DEF Next
<1> HIDE DEF Handles
<1> QED
  BY <1>2, <1>3, <1>4, <1>5, <1>6, <1>7

LEMMA NextKeepsSInv == IInv /\ SInv /\ [Next]_vars => SInv'
<1> SUFFICES ASSUME IInv, SInv, [Next]_vars PROVE SInv'
  OBVIOUS
<1>1. CASE UNCHANGED vars
  <2> USE DEF vars, clientVars, callVars, supervisorVars, serverVars
  <2>1. Steady'
    BY <1>1 DEF SInv, Steady, Operating, Numbered, Addressed, Due, NothingServed, Books
  <2>2. ASSUME NEW ch \in Channels \ disturbed' PROVE Agreed(ch)'
    <3>1. /\ KeepsRecord(ch) /\ KeepsWork(ch) /\ KeepsCopy /\ KeepsService(ch)
          /\ Agreed(ch)
      BY <1>1 DEF KeepsRecord, KeepsWork, KeepsCopy, KeepsService, Calling, Reconfiguring,
                  Due, SInv, Agreement
    <3>2. KeepsWord(ch)
      BY <1>1, NothingIsSaid DEF InWire, Has, Asked
    <3> QED
      BY <1>1, <2>1, <3>1, <3>2, AgreedFrame DEF SInv, Steady
  <2> QED
    BY <2>1, <2>2 DEF SInv, Agreement
<1>2. CASE Next
  <2>1. IInv'
    BY NextKeepsIInv
  <2>2. Steady'
    BY <1>2, OperatingKeeps, AddressedKeeps, BooksKeep, ServerKeeps DEF Steady, Books
  <2>3. ASSUME NEW ch \in Channels \ disturbed' PROVE Agreed(ch)'
    <3>1. CASE OwnerStep
      <4>1. CASE CreateFeedChannel
        BY <2>2, <2>3, <4>1, CreateBegins
      <4>2. ASSUME NEW d \in Channels, NEW types \in SUBSET Types, SetupFeed(d, types)
            PROVE  Agreed(ch)'
        BY <2>2, <2>3, <4>2, SetupBegins
      <4>3. ASSUME NEW d \in Channels, CloseChannel(d) PROVE Agreed(ch)'
        BY <2>2, <2>3, <4>3, CloseBegins
      <4>4. ASSUME NEW d \in Channels,
                   \/ ResetSubscriptions(d)
                   \/ \E t \in Types : Subscribe(d, t) \/ Unsubscribe(d, t)
            PROVE  Agreed(ch)'
        BY <2>2, <2>3, <4>4, SendBegins
      <4>5. CASE FailsUnconnected
        BY <2>3, <4>5, OutageAgrees
      <4>6. CASE SendReturns \/ SendAbandoned
        BY <2>2, <2>3, <4>6, SendEnds
      <4>7. CASE \/ CreateCompletes \/ SetupCompletes \/ CloseCompletes
                 \/ CallFails \/ CallAbandoned
        BY <2>1, <2>2, <2>3, <4>7, CallEnds
      <4> QED
        BY <3>1, <4>1, <4>2, <4>3, <4>4, <4>5, <4>6, <4>7 DEF OwnerStep
    <3>2. CASE SupervisorStep
      BY <2>2, <2>3, <3>2, OutageAgrees, HandshakeAgrees, ReplayEndAgrees, ReopenAgrees,
         ReconfigureAgrees, ResubscribeAgrees, TearDownAgrees DEF SupervisorStep
    <3>3. CASE ServerStep
      BY <2>2, <2>3, <3>3, ReconfiguresAgrees, RowAgreed DEF ServerStep
    <3>4. CASE ReaderTakes \/ LoseSession
      BY <2>2, <2>3, <3>4, ReaderAgrees, OutageAgrees
    <3> QED
      BY <1>2, <3>1, <3>2, <3>3, <3>4 DEF Next
  <2> QED
    BY <2>2, <2>3 DEF SInv, Agreement
<1> QED
  BY <1>1, <1>2

LEMMA InitSInv == Init => SInv
<1> SUFFICES ASSUME Init PROVE SInv
  OBVIOUS
<1>1. Operating /\ Numbered /\ Addressed /\ NothingServed /\ Books
  BY FeedAssumption DEF Init, Operating, Numbered, Addressed, NothingServed, Books, Idle,
                        Empty, Plain, Answers, Nothing, Callers
<1>2. ASSUME NEW ch \in Channels PROVE Agreed(ch)
  <2>1. /\ ~Calling(ch) /\ ~Reconfiguring(ch) /\ \A op : ~IsBeing(op, ch)
    BY DEF Init, Calling, Idle, Reconfiguring, IsBeing
  <2>2. ToSet(<< >>) = {} /\ book[ch] = << >> /\ channels = {} /\ todo = {}
    BY DEF Init, ToSet
  <2>3. Unserved(ch) /\ DOMAIN wire = {} /\ \A c \in Callers : mailbox[c] = Empty
    BY DEF Init, Unserved, Nothing, NoSchema
  <2>4. ~Opened(ch)
    BY <2>3 DEF Opened, InWire, Has, Empty, Plain
  <2>5. supervisor = "live"
    BY DEF Init
  <2> QED
    BY <2>1, <2>2, <2>3, <2>4, <2>5 DEF Agreed, Remembered, Served, Replaying
<1> QED
  BY <1>1, <1>2 DEF SInv, Steady, Agreement

\* What the client remembers is what the server does, after any number of lost
\* sessions and failed attempts, on every channel that is not at risk.
THEOREM SubscriptionsAreServed == Spec => []ServedAsRecorded
<1>1. IInv /\ SInv => ServedAsRecorded
  <2> SUFFICES ASSUME IInv, SInv, session = "up", supervisor = "live",
                      NEW ch \in channels \ disturbed, ch # call.channel
               PROVE  OpenAs(ch, DOMAIN schemas[ch], book[ch])
    BY DEF ServedAsRecorded, OpenAs
  <2>1. ch \in Channels /\ ~Calling(ch) /\ ~Outage
    BY DEF IInv, Shapes, Calling, Outage
  <2> QED
    BY <2>1, AgreedBefore
<1> QED
  BY <1>1, InitIInv, InitSInv, NextKeepsIInv, NextKeepsSInv, PTL DEF Spec

-----------------------------------------------------------------------------
(***************************************************************************)
(* Types.                                                                  *)
(***************************************************************************)

\* A layout for some types; none is one too.
LEMMA SchemaOf ==
    ASSUME NEW S \in SUBSET Types, NEW f \in [S -> {"full", "reduced"}]
    PROVE  f \in Schema
BY DEF Schema

LEMMA SchemaHas ==
    ASSUME NEW f \in Schema
    PROVE  /\ DOMAIN f \in SUBSET Types
           /\ f \in [DOMAIN f -> {"full", "reduced"}]
BY DEF Schema

LEMMA ConfigOf ==
    ASSUME NEW S \in SUBSET Types, NEW f \in [S -> Layouts]
    PROVE  f \in Config
BY DEF Config

LEMMA NoLayout == NoSchema \in Schema /\ NoSchema \in Config
<1>1. {} \in SUBSET Types /\ NoSchema \in [{} -> {"full", "reduced"}]
      /\ NoSchema \in [{} -> Layouts]
  BY DEF NoSchema
<1> QED
  BY <1>1, SchemaOf, ConfigOf

\* What is adopted from an answer that can be read is a layout to decode by.
LEMMA NegotiatedIsSchema ==
    ASSUME NEW m \in Message, NEW types \in SUBSET Types, Readable(m, types)
    PROVE  Negotiated(m, types) \in Schema
<1>1. ASSUME NEW t \in types, m.layout # "unsaid", t \in m.types
      PROVE  m.layout \in {"full", "reduced"}
  BY <1>1 DEF Readable, Message, Layouts
<1>2. Negotiated(m, types) \in [types -> {"full", "reduced"}]
  BY <1>1 DEF Negotiated
<1> QED
  BY <1>2, SchemaOf

LEMMA AdoptedIsSchema ==
    ASSUME NEW m \in Message, NEW f \in Schema
    PROVE  Adopted(f, m) \in Schema
<1>1. CASE ~Readable(m, DOMAIN f)
  BY <1>1, NoLayout DEF Adopted
<1>2. CASE Readable(m, DOMAIN f)
  <2>1. ASSUME NEW t \in DOMAIN f, m.layout # "unsaid", t \in m.types
        PROVE  m.layout \in {"full", "reduced"}
    BY <1>2, <2>1 DEF Readable, Message, Layouts
  <2>2. DOMAIN f \in SUBSET Types /\ f \in [DOMAIN f -> {"full", "reduced"}]
    BY SchemaHas
  <2>3. Adopted(f, m) \in [DOMAIN f -> {"full", "reduced"}]
    BY <1>2, <2>1, <2>2 DEF Adopted
  <2> QED
    BY <2>2, <2>3, SchemaOf
<1> QED
  BY <1>1, <1>2

LEMMA LayeredKeeps ==
    ASSUME IInv, Layered, Next
    PROVE  Layered'
<1> USE DEF clientVars, callVars, supervisorVars, serverVars
<1>1. /\ schemas \in [Channels -> Schema] /\ schemas_before \in [Channels -> Schema]
      /\ disturbed \subseteq Channels /\ Shapes
      /\ mailbox \in [Callers -> Message \cup {Empty, Closed}]
      /\ "owner" \in Callers /\ "supervisor" \in Callers
      /\ call.at # "idle" => call.channel \in Channels
  BY DEF Layered, IInv, Shapes, Callers, Waiters
<1>2. ASSUME NEW ch \in Channels, NEW f \in Schema,
             schemas' = [schemas EXCEPT ![ch] = f]
      PROVE  schemas' \in [Channels -> Schema]
  BY <1>1, <1>2
<1>3. ASSUME NEW ch \in Channels, NEW condition, Disturbs(ch, condition)
      PROVE  disturbed' \subseteq Channels
  BY <1>1, <1>3 DEF Disturbs
<1>4. ASSUME NEW c \in Callers, mailbox[c].type \in Answers
      PROVE  mailbox[c] \in Message
  BY <1>1, <1>4 DEF Empty, Closed, Plain, Answers
<1>5. CASE OwnerStep
  <2>1. CASE CreateFeedChannel
    BY <1>1, <1>3, <2>1 DEF CreateFeedChannel, Begins, Layered
  <2>2. CASE FailsUnconnected
    <3>1. CASE UNCHANGED <<schemas, disturbed>>
      BY <1>1, <2>2, <3>1 DEF FailsUnconnected, Layered
    <3>2. ASSUME NEW ch \in channels, schemas' = Forgotten(ch), Disturbs(ch, TRUE)
          PROVE  Layered'
      <4>1. ch \in Channels
        BY <1>1 DEF Shapes
      <4> QED
        BY <1>1, <1>2, <1>3, <2>2, <3>2, <4>1, NoLayout DEF Forgotten, FailsUnconnected, Layered
    <3> QED
      BY <2>2, <3>1, <3>2 DEF FailsUnconnected
  <2>3. ASSUME NEW ch \in Channels, NEW types \in SUBSET Types, SetupFeed(ch, types)
        PROVE  Layered'
    BY <1>1, <1>2, <1>3, <2>3, NoLayout DEF SetupFeed, Begins, Forgotten, Layered
  <2>4. ASSUME NEW ch \in Channels,
               \/ \E t \in Types : Subscribe(ch, t) \/ Unsubscribe(ch, t)
               \/ ResetSubscriptions(ch) \/ CloseChannel(ch)
        PROVE  Layered'
    <3>1. UNCHANGED <<schemas, schemas_before>> /\ Disturbs(ch, Outage)
      BY <2>4 DEF Subscribe, Unsubscribe, ResetSubscriptions, CloseChannel, Begins
    <3> QED
      BY <1>1, <1>3, <3>1 DEF Layered
  <2>5. CASE SendReturns
    BY <1>1, <2>5 DEF SendReturns, Layered
  <2>6. CASE SendAbandoned \/ CallAbandoned \/ CallFails
    <3>1. /\ UNCHANGED <<schemas, schemas_before>>
          /\ Disturbs(call.channel, TRUE) /\ call.at # "idle"
      BY <2>6 DEF SendAbandoned, CallAbandoned, CallFails, Completes
    <3> QED
      BY <1>1, <1>3, <3>1 DEF Layered
  <2>7. CASE CreateCompletes
    BY <1>1, <2>7 DEF CreateCompletes, Completes, Layered
  <2>8. CASE CloseCompletes
    <3>1. /\ schemas' = [schemas EXCEPT ![call.channel] = NoSchema]
          /\ UNCHANGED <<schemas_before, disturbed>> /\ call.at # "idle"
      BY <2>8 DEF CloseCompletes, Completes, SchemasAfterClose, Forgotten
    <3> QED
      BY <1>1, <1>2, <3>1, NoLayout DEF Layered
  <2>9. CASE SetupCompletes
    <3> DEFINE m == mailbox["owner"]
    <3>1. m \in Message /\ call.channel \in Channels /\ schemas_before' = schemas_before
      BY <1>1, <1>4, <2>9 DEF SetupCompletes, Completes, Answers
    <3>2. call.types \in SUBSET Types
      BY <1>1 DEF Shapes
    <3>3. CASE /\ Readable(m, call.types)
               /\ schemas' = [schemas EXCEPT ![call.channel] = Negotiated(m, call.types)]
               /\ Disturbs(call.channel, ~(ToSet(book[call.channel]) \subseteq call.types))
      <4>1. Negotiated(m, call.types) \in Schema
        BY <3>1, <3>2, <3>3, NegotiatedIsSchema
      <4> QED
        BY <1>1, <1>2, <1>3, <3>1, <3>3, <4>1 DEF Layered
    <3>4. CASE UNCHANGED schemas /\ Disturbs(call.channel, TRUE)
      BY <1>1, <1>3, <3>1, <3>4 DEF Layered
    <3> QED
      BY <2>9, <3>3, <3>4 DEF SetupCompletes
  <2> QED
    BY <1>5, <2>1, <2>2, <2>3, <2>4, <2>5, <2>6, <2>7, <2>8, <2>9 DEF OwnerStep
<1>6. CASE SupervisorStep
  <2>1. CASE AttemptBegins
    BY <1>1, <2>1 DEF AttemptBegins, Layered
  <2>2. CASE SupervisorLearnsOfLoss \/ HandshakeFails \/ HandshakeSucceeds \/ ReplayEnds
    BY <1>1, <2>2 DEF SupervisorLearnsOfLoss, HandshakeFails, HandshakeSucceeds, ReplayEnds,
                      Layered
  <2>3. ASSUME NEW ch \in Channels, ReplayReopens(ch) PROVE Layered'
    BY <1>1, <2>3 DEF ReplayReopens, Layered
  <2>4. ASSUME NEW ch \in Channels, ReplayReconfigures(ch) PROVE Layered'
    <3>1. /\ schemas' = schemas \/ schemas' = [schemas EXCEPT ![ch] = NoSchema]
          /\ UNCHANGED <<schemas_before, disturbed>>
      BY <2>4 DEF ReplayReconfigures, Forgotten
    <3> QED
      BY <1>1, <1>2, <3>1, NoLayout DEF Layered
  <2>5. ASSUME NEW ch \in Channels, ReplayResubscribes(ch) PROVE Layered'
    <3> DEFINE m == mailbox["supervisor"]
    <3>1. /\ m.type = "FEED_CONFIG" /\ Readable(m, stored)
          /\ schemas' = [schemas EXCEPT ![ch] = Negotiated(m, stored)]
          /\ UNCHANGED <<schemas_before, disturbed>>
      BY <2>5 DEF ReplayResubscribes, Heard
    <3>2. m \in Message /\ stored \in SUBSET Types
      BY <1>1, <1>4, <3>1 DEF Answers, Shapes
    <3>3. Negotiated(m, stored) \in Schema
      BY <3>1, <3>2, NegotiatedIsSchema
    <3> QED
      BY <1>1, <1>2, <3>1, <3>3 DEF Layered
  <2>6. CASE ReplayTimesOut \/ ReopenRefused \/ ConfigurationRefused
    <3>1. /\ schemas' = schemas_before /\ schemas_before' = schemas_before
          /\ disturbed' = disturbed \cup ({call.channel} \cap Channels)
      BY <2>6 DEF ReplayTimesOut, ReopenRefused, ConfigurationRefused, TearsDown,
                  SchemasAfterFailure
    <3> QED
      BY <1>1, <3>1 DEF Layered
  <2> QED
    BY <1>6, <2>1, <2>2, <2>3, <2>4, <2>5, <2>6 DEF SupervisorStep
<1>7. ASSUME NEW ch \in Channels,
             ServerReconfigures(ch) \/ \E t \in Types : ServerSendsRow(ch, t)
      PROVE  Layered'
  BY <1>1, <1>3, <1>7 DEF ServerReconfigures, ServerSendsRow, Layered
<1>8. CASE ReaderTakes
  <2> DEFINE m == Head(wire)
             adopted == IF m.type = "FEED_CONFIG" THEN Adopted(schemas[m.channel], m)
                                                  ELSE schemas[m.channel]
  <2>1. m \in Message
    BY <1>1, <1>8 DEF ReaderTakes, Shapes
  <2>2. m.channel \in Channels
    BY <2>1 DEF Message
  <2>3. adopted \in Schema
    BY <1>1, <2>1, <2>2, AdoptedIsSchema
  <2>4. CASE UNCHANGED <<schemas, disturbed>>
    BY <1>1, <1>8, <2>4 DEF ReaderTakes, Layered
  <2>5. CASE /\ schemas' = [schemas EXCEPT ![m.channel] = adopted]
             /\ Disturbs(m.channel, adopted = NoSchema /\ schemas[m.channel] # NoSchema)
    <3>1. schemas_before' = schemas_before
      BY <1>8 DEF ReaderTakes
    <3> HIDE DEF adopted, m
    <3> QED
      BY <1>1, <1>2, <1>3, <2>2, <2>3, <2>5, <3>1 DEF Layered
  <2> QED
    BY <1>8, <2>4, <2>5 DEF ReaderTakes
<1>9. CASE LoseSession
  BY <1>1, <1>9 DEF LoseSession, Layered
<1> QED
  BY <1>5, <1>6, <1>7, <1>8, <1>9 DEF Next, ServerStep

\* Whatever the server does with a message, it keeps layouts and lists.
LEMMA HandlingKeeps ==
    ASSUME Shapes, ServerSide, NEW ch \in Channels,
           \/ OpensChannel(ch) \/ ClosesChannel(ch)
           \/ \E types \in SUBSET Types : ConfiguresFeed(ch, types)
           \/ \E types, subs : subs \in Seq(Types) /\ Subscribes(ch, types, subs)
           \/ \E subs \in Seq(Types) : Unsubscribes(ch, subs)
    PROVE  ServerSide'
<1>1. /\ server = [open |-> server.open, config |-> server.config,
                   subs |-> server.subs]
      /\ server.open \subseteq Channels
      /\ server.config \in [Channels -> Config]
      /\ server.subs \in [Channels -> Seq(Types)]
      /\ << >> \in Seq(Types)
  BY DEF Shapes, ServerSide
<1>2. CASE UNCHANGED server
  BY <1>1, <1>2 DEF ServerSide
<1>3. CASE server' = [server EXCEPT !.open = @ \cup {ch}]
  BY <1>1, <1>3 DEF ServerSide
<1>4. ASSUME NEW types \in SUBSET Types, NEW l \in Layouts,
             server' = [server EXCEPT !.config[ch] = [t \in types |-> l]]
      PROVE  ServerSide'
  <2>1. [t \in types |-> l] \in Config
    BY ConfigOf
  <2>2. PICK f \in Config : server' = [server EXCEPT !.config[ch] = f]
    BY <1>4, <2>1
  <2> QED
    BY <1>1, <2>2 DEF ServerSide
<1>5. CASE server' = [open   |-> server.open \ {ch},
                      config |-> [server.config EXCEPT ![ch] = NoSchema],
                      subs   |-> [server.subs EXCEPT ![ch] = << >>]]
  BY <1>1, <1>5, NoLayout DEF ServerSide
<1>6. ASSUME NEW subs \in Seq(Types), server' = [server EXCEPT !.subs[ch] = subs]
      PROVE  ServerSide'
  BY <1>1, <1>6 DEF ServerSide
<1>7. CASE OpensChannel(ch)
  BY <1>2, <1>3, <1>7 DEF OpensChannel, Refuses, Ignores
<1>8. CASE ClosesChannel(ch)
  BY <1>2, <1>5, <1>8 DEF ClosesChannel, Refuses, Ignores
<1>9. ASSUME NEW types \in SUBSET Types, ConfiguresFeed(ch, types) PROVE ServerSide'
  BY <1>2, <1>4, <1>9 DEF ConfiguresFeed, Refuses, Ignores
<1>10. ASSUME NEW types, NEW subs \in Seq(Types), Subscribes(ch, types, subs)
       PROVE  ServerSide'
  BY <1>2, <1>6, <1>10 DEF Subscribes, Refuses, Ignores
<1>11. ASSUME NEW subs \in Seq(Types), Unsubscribes(ch, subs) PROVE ServerSide'
  BY <1>2, <1>6, <1>11 DEF Unsubscribes, Ignores
<1> QED
  BY <1>7, <1>8, <1>9, <1>10, <1>11

LEMMA NothingIsServerSide == server = Nothing => ServerSide
BY NoLayout DEF Nothing, ServerSide

LEMMA ServerSideKeeps ==
    ASSUME IInv, SInv, ServerSide, Next
    PROVE  ServerSide'
<1> USE DEF serverVars
<1>1. /\ Shapes
      /\ server.open \subseteq Channels
      /\ server.config \in [Channels -> Config]
      /\ server.subs \in [Channels -> Seq(Types)]
      /\ book \in [Channels -> Seq(Types)]
      /\ << >> \in Seq(Types)
  BY DEF IInv, SInv, Steady, Books, ServerSide
<1>2. CASE UNCHANGED server
  BY <1>1, <1>2 DEF ServerSide
<1>3. CASE server' = Nothing
  <2>1. /\ server'.open = {} /\ server'.config = [ch \in Channels |-> NoSchema]
        /\ server'.subs = [ch \in Channels |-> << >>]
    BY <1>3 DEF Nothing
  <2> QED
    BY <1>1, <2>1, NoLayout DEF ServerSide
<1>4. ASSUME NEW ch \in Channels, NEW t \in Types
      PROVE  /\ Inserted(server.subs[ch], t) \in Seq(Types)
             /\ Removed(server.subs[ch], t) \in Seq(Types)
             /\ Added(server.subs[ch], book[ch]) \in Seq(Types)
  <2>1. server.subs[ch] \in Seq(Types) /\ book[ch] \in Seq(Types)
    BY <1>1
  <2> QED
    BY <2>1, InsertedElements, RemovedElements, AddedElements
<1>5. ASSUME NEW ch \in Channels PROVE Added(server.subs[ch], book[ch]) \in Seq(Types)
  <2>1. server.subs[ch] \in Seq(Types) /\ book[ch] \in Seq(Types)
    BY <1>1
  <2> QED
    BY <2>1, AddedElements
<1>6. CASE OwnerStep
  <2> USE DEF Begins
  <2>1. CASE CreateFeedChannel
    BY <1>1, <2>1, HandlingKeeps DEF CreateFeedChannel
  <2>2. ASSUME NEW ch \in Channels, NEW types \in SUBSET Types, SetupFeed(ch, types)
        PROVE  ServerSide'
    BY <1>1, <2>2, HandlingKeeps DEF SetupFeed
  <2>3. ASSUME NEW ch \in Channels, NEW t \in Types, Subscribe(ch, t)
        PROVE  ServerSide'
    BY <1>1, <1>4, <2>3, HandlingKeeps DEF Subscribe
  <2>4. ASSUME NEW ch \in Channels, NEW t \in Types, Unsubscribe(ch, t)
        PROVE  ServerSide'
    BY <1>1, <1>4, <2>4, HandlingKeeps DEF Unsubscribe
  <2>5. ASSUME NEW ch \in Channels, ResetSubscriptions(ch) \/ CloseChannel(ch)
        PROVE  ServerSide'
    BY <1>1, <2>5, HandlingKeeps DEF ResetSubscriptions, CloseChannel
  <2>6. CASE \/ FailsUnconnected \/ SendReturns \/ SendAbandoned \/ CreateCompletes
             \/ SetupCompletes \/ CloseCompletes \/ CallFails \/ CallAbandoned
    BY <1>2, <2>6 DEF FailsUnconnected, SendReturns, SendAbandoned, CreateCompletes,
                SetupCompletes, CloseCompletes, CallFails, CallAbandoned, Completes
  <2> QED
    BY <1>6, <2>1, <2>2, <2>3, <2>4, <2>5, <2>6 DEF OwnerStep
<1>7. CASE SupervisorStep
  <2>1. CASE \/ SupervisorLearnsOfLoss \/ AttemptBegins \/ HandshakeFails
             \/ HandshakeSucceeds \/ ReplayEnds
    BY <1>2, <2>1 DEF SupervisorLearnsOfLoss, AttemptBegins, HandshakeFails,
                      HandshakeSucceeds, ReplayEnds
  <2>2. CASE ReplayTimesOut \/ ReopenRefused \/ ConfigurationRefused
    BY <1>3, <2>2 DEF ReplayTimesOut, ReopenRefused, ConfigurationRefused, TearsDown
  <2>3. ASSUME NEW ch \in Channels, ReplayReopens(ch) PROVE ServerSide'
    BY <1>1, <2>3, HandlingKeeps DEF ReplayReopens
  <2>4. ASSUME NEW ch \in Channels, ReplayReconfigures(ch) PROVE ServerSide'
    <3>1. DOMAIN schemas[ch] \in SUBSET Types
      BY <1>1 DEF Shapes
    <3>2. UNCHANGED server \/ ConfiguresFeed(ch, DOMAIN schemas[ch])
      BY <2>4 DEF ReplayReconfigures
    <3> QED
      BY <1>1, <1>2, <3>1, <3>2, HandlingKeeps
  <2>5. ASSUME NEW ch \in Channels, ReplayResubscribes(ch) PROVE ServerSide'
    <3>1. \/ UNCHANGED server
          \/ Subscribes(ch, ToSet(book[ch]), Added(server.subs[ch], book[ch]))
      BY <2>5 DEF ReplayResubscribes, Ignores
    <3> QED
      BY <1>1, <1>2, <1>5, <3>1, HandlingKeeps
  <2> QED
    BY <1>7, <2>1, <2>2, <2>3, <2>4, <2>5 DEF SupervisorStep
<1>8. ASSUME NEW ch \in Channels, ServerReconfigures(ch) PROVE ServerSide'
  <2>1. PICK l \in Layouts :
           server' = [server EXCEPT !.config[ch] = [t \in DOMAIN server.config[ch] |-> l]]
    BY <1>1, <1>8 DEF ServerReconfigures
  <2>2. DOMAIN server.config[ch] \in SUBSET Types
    BY <1>1 DEF Shapes
  <2>3. [t \in DOMAIN server.config[ch] |-> l] \in Config
    BY <2>2, ConfigOf
  <2>4. PICK f \in Config : server' = [server EXCEPT !.config[ch] = f]
    BY <2>1, <2>3
  <2> QED
    BY <1>1, <2>4 DEF ServerSide, Shapes
<1>9. CASE ReaderTakes \/ \E ch \in Channels : \E t \in Types : ServerSendsRow(ch, t)
  BY <1>2, <1>9 DEF ReaderTakes, ServerSendsRow
<1>10. CASE LoseSession
  BY <1>3, <1>10 DEF LoseSession
<1> QED
  BY <1>6, <1>7, <1>8, <1>9, <1>10 DEF Next, ServerStep

LEMMA NextKeepsTInv == IInv /\ SInv /\ TInv /\ [Next]_vars => TInv'
<1> SUFFICES ASSUME IInv, SInv, TInv, [Next]_vars PROVE TInv'
  OBVIOUS
<1>1. CASE UNCHANGED vars
  BY <1>1 DEF TInv, Layered, ServerSide, OncePerKey, vars, clientVars, supervisorVars,
              serverVars
<1>2. CASE Next
  BY <1>2, LayeredKeeps, ServerSideKeeps, BooksKeep DEF TInv
<1> QED
  BY <1>1, <1>2

LEMMA InitTInv == Init => TInv
<1> SUFFICES ASSUME Init PROVE TInv
  OBVIOUS
<1>1. Layered
  BY NoLayout DEF Init, Layered
<1>2. ServerSide
  BY NothingIsServerSide DEF Init
<1>3. OncePerKey
  BY DEF Init, OncePerKey, IsInjective
<1> QED
  BY <1>1, <1>2, <1>3 DEF TInv

\* Every variable keeps its type: a stored layout is one rows can be decoded
\* by, and a book has no subscription twice.
THEOREM TypeCorrect == Spec => []TypeOK
<1>1. IInv /\ SInv /\ TInv => TypeOK
  <2> SUFFICES ASSUME IInv, SInv, TInv PROVE TypeOK
    OBVIOUS
  <2>1. ASSUME NEW i \in DOMAIN requests
        PROVE  requests[i] \in [caller : Callers, expected : Answers, channel : Channels]
    <3>1. requests \in Seq(Request)
      BY DEF IInv, Shapes
    <3>2. requests[i] \in Request
      BY <3>1, ElementOfSeq
    <3> QED
      BY <3>2 DEF Request
  <2>2. ASSUME NEW i \in DOMAIN wire PROVE wire[i] \in Message
    <3>1. wire \in Seq(Message)
      BY DEF IInv, Shapes
    <3> QED
      BY <3>1, ElementOfSeq
  <2>3. server \in [open : SUBSET Channels, config : [Channels -> Config],
                    subs : [Channels -> Seq(Types)]]
    BY DEF IInv, Shapes, TInv, ServerSide
  <2>4. /\ next_channel \in 1 .. MaxChannels + 1
        /\ book \in [Channels -> Seq(Types)]
    BY DEF SInv, Steady, Numbered, Books
  <2>5. /\ schemas \in [Channels -> Schema] /\ schemas_before \in [Channels -> Schema]
        /\ disturbed \subseteq Channels
        /\ \A ch \in Channels : IsInjective(book[ch])
    BY DEF TInv, Layered, OncePerKey
  <2>6. supervisor \in {"live", "backoff", "handshaking", "reopening",
                       "configuring", "next_channel", "gave_up"}
    BY DEF IInv, Shapes, Replaying
  <2> QED
    BY <2>1, <2>2, <2>3, <2>4, <2>5, <2>6 DEF TypeOK, IInv, Shapes
<1> QED
  BY <1>1, InitIInv, InitSInv, InitTInv, NextKeepsIInv, NextKeepsSInv, NextKeepsTInv,
     PTL DEF Spec
===============================================================================
