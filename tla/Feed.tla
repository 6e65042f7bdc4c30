--------------------------------- MODULE Feed ---------------------------------
(***************************************************************************)
(* What a client and its server agree on: the channels that are open, the  *)
(* layout each channel's rows are in, and the subscriptions.  The owner's  *)
(* operations (create_feed_channel, setup_feed, subscribe, unsubscribe,    *)
(* reset_subscriptions, close_channel) change both sides with a message    *)
(* and its answer in between; the server changes a layout of its own       *)
(* accord; a lost session takes the server's side with it, and the         *)
(* supervisor rebuilds that side from what the client remembers            *)
(* (reconnect_once, replay_session).                                       *)
(*                                                                         *)
(* A layout is "full" (the columns this client asks for), "reduced" (fewer *)
(* or reordered), "blind" (no eventType or eventSymbol column), or         *)
(* "foreign" (not COMPACT, or a FEED_CONFIG that cannot be read).          *)
(***************************************************************************)
EXTENDS Naturals, Sequences, SequencesExt, Functions

CONSTANTS
    MaxChannels,    \* bound: channels the owner creates
    Types,          \* event types; one symbol each: a type is a SubscriptionKey
    MaxCalls,       \* bound: the owner's operations
    MaxLosses,      \* bound: sessions that die while they are up
    MaxUnasked,     \* bound: FEED_CONFIGs the server sends of its own accord
    MaxRows         \* bound: FEED_DATA messages

ASSUME FeedAssumption ==
    /\ MaxChannels \in Nat /\ MaxCalls \in Nat /\ MaxLosses \in Nat
    /\ MaxUnasked \in Nat /\ MaxRows \in Nat

Channels == 1 .. MaxChannels
Layouts  == {"full", "reduced", "blind", "foreign"}
Callers  == {"owner", "supervisor"}

VARIABLES
    channels,       \* the client's channel map
    next_channel,   \* next_channel_id
    schemas,        \* channel_schemas: [Channels -> types -> layout]
    book,           \* SubscriptionBook: [Channels -> types, oldest first]
    call,           \* the owner's operation and how far it got
    requests,       \* response_requests
    mailbox,        \* [Callers -> content of the oneshot channel]
    supervisor,     \* "live" between rebuilds, or where in a rebuild it is
    todo,           \* the channels replay_session has yet to rebuild
    stored,         \* types of the channel it is reconfiguring
    schemas_before, \* reconnect_once's copy of the schemas
    session,        \* "up", "dead", or "none": the connection slot is empty
    server,         \* [open, config, subs]: the server's side of the session
    wire,           \* messages the reader has yet to read
    spent,          \* what was used of the bounds
    disturbed       \* history: channels whose agreement was put at risk

clientVars     == <<channels, next_channel, schemas, book>>
callVars       == <<call, requests, mailbox>>
supervisorVars == <<supervisor, todo, stored, schemas_before>>
serverVars     == <<session, server, wire>>
vars == <<clientVars, callVars, supervisorVars, serverVars, spent, disturbed>>

-----------------------------------------------------------------------------
NoSchema == << >>
Schema   == UNION {[S -> {"full", "reduced"}] : S \in SUBSET Types}
Config   == UNION {[S -> Layouts] : S \in SUBSET Types}
Answers  == {"CHANNEL_OPENED", "FEED_CONFIG", "CHANNEL_CLOSED", "ERROR"}
Operations == {"create_feed_channel", "setup_feed", "subscribe",
               "unsubscribe", "reset_subscriptions", "close_channel"}

\* An inbound message.  The layout of a FEED_CONFIG without acceptEventFields
\* is "unsaid".
Message == [type : Answers \cup {"FEED_DATA"}, channel : Channels,
            types : SUBSET Types, layout : Layouts \cup {"unsaid"}]
Plain(type, ch) ==
    [type |-> type, channel |-> ch, types |-> {}, layout |-> "unsaid"]
\* What a mailbox holds before the answer and once the sender was dropped.
Empty  == Plain("empty", 0)
Closed == Plain("closed", 0)

Idle == [op |-> "none", channel |-> 0, types |-> {}, at |-> "idle"]

TypeOK ==
    /\ channels \subseteq Channels
    /\ next_channel \in 1 .. MaxChannels + 1
    /\ schemas \in [Channels -> Schema]
    /\ book \in [Channels -> Seq(Types)]
    /\ \A ch \in Channels : IsInjective(book[ch])
    /\ call \in [op : Operations \cup {"none"}, channel : Channels \cup {0},
                 types : SUBSET Types, at : {"idle", "waiting", "sent"}]
    /\ \A i \in DOMAIN requests :
          requests[i] \in [caller : Callers, expected : Answers,
                           channel : Channels]
    /\ mailbox \in [Callers -> Message \cup {Empty, Closed}]
    /\ supervisor \in {"live", "backoff", "handshaking", "reopening",
                       "configuring", "next_channel", "gave_up"}
    /\ todo \subseteq Channels /\ stored \subseteq Types
    /\ schemas_before \in [Channels -> Schema]
    /\ session \in {"up", "dead", "none"}
    /\ server \in [open : SUBSET Channels, config : [Channels -> Config],
                   subs : [Channels -> Seq(Types)]]
    /\ \A i \in DOMAIN wire : wire[i] \in Message
    /\ disturbed \subseteq Channels

Nothing == [open |-> {}, config |-> [ch \in Channels |-> NoSchema],
            subs |-> [ch \in Channels |-> << >>]]

\* A client that has just connected.
Init ==
    /\ channels = {} /\ next_channel = 1
    /\ schemas = [ch \in Channels |-> NoSchema]
    /\ book = [ch \in Channels |-> << >>]
    /\ call = Idle /\ requests = << >>
    /\ mailbox = [c \in Callers |-> Empty]
    /\ supervisor = "live" /\ todo = {} /\ stored = {}
    /\ schemas_before = [ch \in Channels |-> NoSchema]
    /\ session = "up" /\ server = Nothing /\ wire = << >>
    /\ spent = [calls |-> 0, losses |-> 0, unasked |-> 0, rows |-> 0]
    /\ disturbed = {}

\* The bounds and the history.
Spends(what) == spent' = [spent EXCEPT ![what] = @ + 1]
Disturbs(ch, condition) ==
    disturbed' = IF condition THEN disturbed \cup {ch} ELSE disturbed

-----------------------------------------------------------------------------
(***************************************************************************)
(* Layouts.                                                                *)
(***************************************************************************)

\* negotiated_schema: what was asked for, overridden by what the server says.
Negotiated(m, types) ==
    [t \in types |-> IF m.layout # "unsaid" /\ t \in m.types
                     THEN m.layout ELSE "full"]

\* ... and the answers it refuses: another format, rows without identity.
Readable(m, types) ==
    /\ m.layout # "foreign"
    /\ m.layout = "blind" => m.types \cap types = {}

\* adopt_config: what becomes of a stored schema.
\* (Mutant: an unusable layout is ignored, and the old one stays.)
Adopted_OnlyUsable(schema, m) ==
    [t \in DOMAIN schema |->
        IF t \in m.types /\ m.layout = "reduced" THEN "reduced" ELSE schema[t]]
Adopted(schema, m) ==
    IF ~Readable(m, DOMAIN schema) THEN NoSchema
    ELSE [t \in DOMAIN schema |->
            IF m.layout # "unsaid" /\ t \in m.types THEN m.layout
                                                    ELSE schema[t]]

\* SubscriptionBook::remove, ::insert: one entry per key, the newest last.
\* (Mutant: the earlier entry is not replaced.)
Removed(entries, t) == RemoveFirst(entries, t)
Inserted_Again(entries, t) == Append(entries, t)
Inserted(entries, t) == Append(Removed(entries, t), t)

\* SubscriptionBook::forget_channel.  (Mutant: a reset forgets every channel.)
ForgetChannel_Every(ch) == [c \in Channels |-> << >>]
ForgetChannel(ch) == [book EXCEPT ![ch] = << >>]

-----------------------------------------------------------------------------
(***************************************************************************)
(* The server.  It handles a message when it is sent: it does what was     *)
(* asked, refuses with an ERROR on the channel, or never answers.  What a  *)
(* lost session's socket swallows reaches nobody.                          *)
(***************************************************************************)
Replies(m)  == wire' = Append(wire, m)
Refuses(ch) == Replies(Plain("ERROR", ch)) /\ UNCHANGED server
Ignores     == UNCHANGED <<server, wire>>

OpensChannel(ch) ==
    \/ /\ session = "up" /\ ch \notin server.open
       /\ server' = [server EXCEPT !.open = @ \cup {ch}]
       /\ Replies(Plain("CHANNEL_OPENED", ch))
    \/ session = "up" /\ Refuses(ch)
    \/ Ignores

ConfiguresFeed(ch, types) ==
    \/ /\ session = "up" /\ ch \in server.open
       /\ \E l \in Layouts, said \in BOOLEAN :
            /\ ~said => l = "full"
            /\ server' = [server EXCEPT !.config[ch] = [t \in types |-> l]]
            /\ Replies([type |-> "FEED_CONFIG", channel |-> ch,
                        types |-> types,
                        layout |-> IF said THEN l ELSE "unsaid"])
    \/ session = "up" /\ Refuses(ch)
    \/ Ignores

ClosesChannel(ch) ==
    \/ /\ session = "up" /\ ch \in server.open
       /\ server' = [open   |-> server.open \ {ch},
                     config |-> [server.config EXCEPT ![ch] = NoSchema],
                     subs   |-> [server.subs EXCEPT ![ch] = << >>]]
       /\ Replies(Plain("CHANNEL_CLOSED", ch))
    \/ session = "up" /\ Refuses(ch)
    \/ Ignores

\* FEED_SUBSCRIPTION is not answered, unless it cannot be served.  What the
\* server has for the channel is then subs: with entries added, ...
Subscribes(ch, types, subs) ==
    IF session # "up" THEN Ignores
    ELSE IF ch \in server.open /\ types \subseteq DOMAIN server.config[ch]
    THEN server' = [server EXCEPT !.subs[ch] = subs] /\ UNCHANGED wire
    ELSE Refuses(ch)

\* What is added comes after whatever else the channel had (in any order: a
\* channel that is rebuilt and not at risk has nothing).
Added(subs, entries) == SetToSeq(ToSet(subs) \ ToSet(entries)) \o entries

\* ... or with an entry removed, or without any after a reset.
Unsubscribes(ch, subs) ==
    IF session = "up" /\ ch \in server.open
    THEN server' = [server EXCEPT !.subs[ch] = subs] /\ UNCHANGED wire
    ELSE Ignores

\* A FEED_CONFIG is on its way to ch, or in the hands of who asked for it.
ConfigInFlight(ch) ==
    \/ \E i \in DOMAIN wire :
          wire[i].type = "FEED_CONFIG" /\ wire[i].channel = ch
    \/ \E i \in DOMAIN requests :
          requests[i].expected = "FEED_CONFIG" /\ requests[i].channel = ch
    \/ \E c \in Callers :
          mailbox[c].type = "FEED_CONFIG" /\ mailbox[c].channel = ch

\* The server settles on another layout and says so.
ServerReconfigures(ch) ==
    /\ session = "up" /\ spent.unasked < MaxUnasked
    /\ server.config[ch] # NoSchema
    /\ \E l \in Layouts :
         /\ server' = [server EXCEPT !.config[ch] = [t \in DOMAIN @ |-> l]]
         /\ Replies([type |-> "FEED_CONFIG", channel |-> ch,
                     types |-> DOMAIN server.config[ch], layout |-> l])
    /\ Spends("unasked")
    /\ Disturbs(ch, ConfigInFlight(ch))
    /\ UNCHANGED <<clientVars, callVars, supervisorVars, session>>

\* A row of a subscribed type, in the layout of the moment.
ServerSendsRow(ch, t) ==
    /\ session = "up" /\ spent.rows < MaxRows
    /\ t \in ToSet(server.subs[ch]) \cap DOMAIN server.config[ch]
    /\ Replies([type |-> "FEED_DATA", channel |-> ch, types |-> {t},
                layout |-> server.config[ch][t]])
    /\ Spends("rows")
    /\ UNCHANGED <<clientVars, callVars, supervisorVars, session, server,
                   disturbed>>

-----------------------------------------------------------------------------
(***************************************************************************)
(* Requests (request_response) and the reader.  Registration and send are  *)
(* one step here; module Router takes them apart.                          *)
(***************************************************************************)
Registers(c, expected, ch) ==
    requests' = Append(requests, [caller |-> c, expected |-> expected,
                                  channel |-> ch])

\* A caller has at most one request in the table.
RequestsOf(c) == {i \in DOMAIN requests : requests[i].caller = c}
Unregistered(c) ==
    IF RequestsOf(c) = {} THEN requests
    ELSE RemoveAt(requests, CHOOSE i \in RequestsOf(c) : TRUE)

Fits(r, m) ==
    r.channel = m.channel /\ (r.expected = m.type \/ m.type = "ERROR")

\* The oldest waiter a message fits gets it.  A FEED_CONFIG nobody waits for
\* is adopted; everything else leaves this state alone.
ReaderTakes ==
    /\ session = "up" /\ wire # << >>
    /\ wire' = Tail(wire)
    /\ LET m       == Head(wire)
           ch      == m.channel
           fitting == {i \in DOMAIN requests : Fits(requests[i], m)}
           adopted == IF m.type = "FEED_CONFIG" THEN Adopted(schemas[ch], m)
                                                ELSE schemas[ch]
       IN  IF fitting # {}
           THEN \E i \in fitting :
                  /\ \A j \in fitting : i <= j
                  /\ requests' = Unregistered(requests[i].caller)
                  /\ mailbox' = [mailbox EXCEPT ![requests[i].caller] = m]
                  /\ UNCHANGED <<schemas, disturbed>>
           ELSE /\ schemas' = [schemas EXCEPT ![ch] = adopted]
                /\ Disturbs(ch, adopted = NoSchema /\ schemas[ch] # NoSchema)
                /\ UNCHANGED <<requests, mailbox>>
    /\ UNCHANGED <<channels, next_channel, book, call, supervisorVars, session,
                   server, spent>>

-----------------------------------------------------------------------------
(***************************************************************************)
(* The owner's operations.  They take &mut self: one at a time.            *)
(***************************************************************************)
Outage == session # "up" \/ supervisor # "live"

MayCall == call = Idle /\ spent.calls < MaxCalls /\ Spends("calls")

Begins(op, ch, types, at) ==
    /\ MayCall /\ session # "none"
    /\ call' = [op |-> op, channel |-> ch, types |-> types, at |-> at]
    /\ UNCHANGED <<mailbox, supervisorVars, session>>

CreateFeedChannel ==
    /\ next_channel \in Channels
    /\ next_channel' = next_channel + 1
    /\ Begins("create_feed_channel", next_channel, {}, "waiting")
    /\ Registers("owner", "CHANNEL_OPENED", next_channel)
    /\ OpensChannel(next_channel)
    /\ Disturbs(next_channel, Outage)
    /\ UNCHANGED <<channels, schemas, book>>

\* The layout goes before the request is sent.
Forgotten(ch) == [schemas EXCEPT ![ch] = NoSchema]

SetupFeed(ch, types) ==
    /\ ch \in channels /\ types # {}
    /\ Begins("setup_feed", ch, types, "waiting")
    /\ schemas' = Forgotten(ch)
    /\ Registers("owner", "FEED_CONFIG", ch)
    /\ ConfiguresFeed(ch, types)
    /\ Disturbs(ch, Outage \/ ConfigInFlight(ch))
    /\ UNCHANGED <<channels, next_channel, book>>

CloseChannel(ch) ==
    /\ ch \in channels
    /\ Begins("close_channel", ch, {}, "waiting")
    /\ Registers("owner", "CHANNEL_CLOSED", ch)
    /\ ClosesChannel(ch)
    /\ Disturbs(ch, Outage)
    /\ UNCHANGED clientVars

\* Without a connection an operation fails before anything is sent, but not
\* before it has counted up the channel id or forgotten the layout.
FailsUnconnected ==
    /\ MayCall /\ session = "none"
    /\ \/ /\ next_channel \in Channels
          /\ next_channel' = next_channel + 1
          /\ UNCHANGED <<schemas, disturbed>>
       \/ \E ch \in channels :
             /\ schemas' = Forgotten(ch) /\ Disturbs(ch, TRUE)
             /\ UNCHANGED next_channel
    /\ UNCHANGED <<channels, book, callVars, supervisorVars, serverVars>>

\* subscribe, unsubscribe and reset_subscriptions: checked against what the
\* client knows, sent, and recorded once the send has returned.
Subscribe(ch, t) ==
    /\ ch \in channels /\ t \in DOMAIN schemas[ch]
    /\ Begins("subscribe", ch, {t}, "sent")
    /\ Subscribes(ch, {t}, Inserted(server.subs[ch], t))
    /\ Disturbs(ch, Outage)
    /\ UNCHANGED <<clientVars, requests>>

Unsubscribe(ch, t) ==
    /\ ch \in channels /\ t \in DOMAIN schemas[ch]
    /\ Begins("unsubscribe", ch, {t}, "sent")
    /\ Unsubscribes(ch, Removed(server.subs[ch], t))
    /\ Disturbs(ch, Outage)
    /\ UNCHANGED <<clientVars, requests>>

ResetSubscriptions(ch) ==
    /\ ch \in channels
    /\ Begins("reset_subscriptions", ch, {}, "sent")
    /\ Unsubscribes(ch, << >>)
    /\ Disturbs(ch, Outage)
    /\ UNCHANGED <<clientVars, requests>>

SendReturns ==
    /\ call.at = "sent"
    /\ \/ /\ call.op = "subscribe"
          /\ \E t \in call.types :
                book' = [book EXCEPT ![call.channel] = Inserted(@, t)]
       \/ /\ call.op = "unsubscribe"
          /\ \E t \in call.types :
                book' = [book EXCEPT ![call.channel] = Removed(@, t)]
       \/ /\ call.op = "reset_subscriptions"
          /\ book' = ForgetChannel(call.channel)
    /\ call' = Idle
    /\ UNCHANGED <<channels, next_channel, schemas, requests, mailbox,
                   supervisorVars, serverVars, spent, disturbed>>

\* The future is dropped, or the socket fails, while the send is flushed:
\* the server may have got the message, the book never hears of it.
SendAbandoned ==
    /\ call.at = "sent"
    /\ call' = Idle
    /\ Disturbs(call.channel, TRUE)
    /\ UNCHANGED <<clientVars, requests, mailbox, supervisorVars, serverVars,
                   spent>>

\* The answer an operation asked for.  (Mutant: close_channel leaves the
\* layouts behind.)
SchemasAfterClose_Kept(ch) == schemas
SchemasAfterClose(ch) == Forgotten(ch)

Completes(answer) ==
    /\ call.at = "waiting" /\ mailbox["owner"].type = answer
    /\ call' = Idle
    /\ mailbox' = [mailbox EXCEPT !["owner"] = Empty]
    /\ UNCHANGED <<next_channel, requests, supervisorVars, serverVars, spent>>

CreateCompletes ==
    /\ call.op = "create_feed_channel" /\ Completes("CHANNEL_OPENED")
    /\ channels' = channels \cup {call.channel}
    /\ UNCHANGED <<schemas, book, disturbed>>

SetupCompletes ==
    /\ call.op = "setup_feed" /\ Completes("FEED_CONFIG")
    /\ LET m == mailbox["owner"] IN
         IF Readable(m, call.types)
         THEN /\ schemas' = [schemas EXCEPT ![call.channel] =
                                Negotiated(m, call.types)]
              /\ Disturbs(call.channel,
                          ~(ToSet(book[call.channel]) \subseteq call.types))
         ELSE UNCHANGED schemas /\ Disturbs(call.channel, TRUE)
    /\ UNCHANGED <<channels, book>>

CloseCompletes ==
    /\ call.op = "close_channel" /\ Completes("CHANNEL_CLOSED")
    /\ channels' = channels \ {call.channel}
    /\ book' = ForgetChannel(call.channel)
    /\ schemas' = SchemasAfterClose(call.channel)
    /\ UNCHANGED disturbed

\* An ERROR, or the sender was dropped with the session.
CallFails ==
    /\ Completes("ERROR") \/ Completes("closed")
    /\ Disturbs(call.channel, TRUE)
    /\ UNCHANGED <<channels, schemas, book>>

\* The send fails, the deadline passes, or the future is dropped.
CallAbandoned ==
    /\ call.at = "waiting"
    /\ call' = Idle
    /\ requests' = Unregistered("owner")
    /\ mailbox' = [mailbox EXCEPT !["owner"] = Empty]
    /\ Disturbs(call.channel, TRUE)
    /\ UNCHANGED <<clientVars, supervisorVars, serverVars, spent>>

-----------------------------------------------------------------------------
(***************************************************************************)
(* The session and its rebuild (start_reconnect_supervisor,                *)
(* reconnect_once, replay_session).                                        *)
(***************************************************************************)

\* The channels are rebuilt lowest first.
Due(ch) == ch \in todo /\ \A d \in todo : ch <= d

\* The reader ends; the server forgets the session.
LoseSession ==
    /\ session = "up" /\ spent.losses < MaxLosses
    /\ session' = "dead" /\ server' = Nothing /\ wire' = << >>
    /\ Spends("losses")
    /\ disturbed' = disturbed \cup ({call.channel} \cap Channels)
    /\ UNCHANGED <<clientVars, callVars, supervisorVars>>

\* The supervisor learns of the loss and drops every registration.
SupervisorLearnsOfLoss ==
    /\ supervisor = "live" /\ session = "dead"
    /\ supervisor' = "backoff"
    /\ requests' = << >>
    /\ mailbox' = [c \in Callers |->
                      IF \E i \in DOMAIN requests : requests[i].caller = c
                      THEN Closed ELSE mailbox[c]]
    /\ UNCHANGED <<clientVars, call, todo, stored, schemas_before, serverVars,
                   spent, disturbed>>

\* The layouts are copied, then the handshake begins.
AttemptBegins ==
    /\ supervisor = "backoff"
    /\ supervisor' = "handshaking"
    /\ schemas_before' = schemas
    /\ UNCHANGED <<clientVars, callVars, todo, stored, serverVars, spent,
                   disturbed>>

HandshakeFails ==
    /\ supervisor = "handshaking"
    /\ supervisor' \in {"backoff", "gave_up"}
    /\ UNCHANGED <<clientVars, callVars, todo, stored, schemas_before,
                   serverVars, spent, disturbed>>

\* The new session is in the slot, its reader runs, and the channels to
\* rebuild are collected.
HandshakeSucceeds ==
    /\ supervisor = "handshaking"
    /\ supervisor' = "next_channel"
    /\ session' = "up"
    /\ todo' = channels
    /\ UNCHANGED <<clientVars, callVars, stored, schemas_before, server, wire,
                   spent, disturbed>>

ReplayReopens(ch) ==
    /\ supervisor = "next_channel" /\ Due(ch)
    /\ supervisor' = "reopening"
    /\ Registers("supervisor", "CHANNEL_OPENED", ch)
    /\ OpensChannel(ch)
    /\ UNCHANGED <<clientVars, call, mailbox, todo, stored, schemas_before,
                   session, spent, disturbed>>

Heard(answer) ==
    /\ mailbox["supervisor"].type = answer
    /\ mailbox' = [mailbox EXCEPT !["supervisor"] = Empty]

\* The channel is open; one with a layout is configured again, and the layout
\* goes before the request is sent.
ReplayReconfigures(ch) ==
    /\ supervisor = "reopening" /\ Due(ch) /\ Heard("CHANNEL_OPENED")
    /\ IF schemas[ch] = NoSchema
       THEN /\ todo' = todo \ {ch} /\ supervisor' = "next_channel"
            /\ UNCHANGED <<schemas, stored, requests, server, wire>>
       ELSE /\ stored' = DOMAIN schemas[ch] /\ schemas' = Forgotten(ch)
            /\ Registers("supervisor", "FEED_CONFIG", ch)
            /\ ConfiguresFeed(ch, DOMAIN schemas[ch])
            /\ supervisor' = "configuring" /\ UNCHANGED todo
    /\ UNCHANGED <<channels, next_channel, book, call, schemas_before, session,
                   spent, disturbed>>

\* The layout is agreed; the channel's subscriptions are sent.
ReplayResubscribes(ch) ==
    /\ supervisor = "configuring" /\ Due(ch)
    /\ Readable(mailbox["supervisor"], stored) /\ Heard("FEED_CONFIG")
    /\ schemas' = [schemas EXCEPT ![ch] =
                      Negotiated(mailbox["supervisor"], stored)]
    /\ IF book[ch] = << >> THEN Ignores
       ELSE Subscribes(ch, ToSet(book[ch]), Added(server.subs[ch], book[ch]))
    /\ todo' = todo \ {ch} /\ supervisor' = "next_channel"
    /\ UNCHANGED <<channels, next_channel, book, call, requests, stored,
                   schemas_before, session, spent, disturbed>>

\* Reconnected.
ReplayEnds ==
    /\ supervisor = "next_channel" /\ todo = {}
    /\ supervisor' = "live"
    /\ UNCHANGED <<clientVars, callVars, todo, stored, schemas_before,
                   serverVars, spent, disturbed>>

\* The error path of reconnect_once: the new session is torn down, and the
\* layouts are put back.  (Mutant: they are not.)
SchemasAfterFailure_Lost == schemas
SchemasAfterFailure == schemas_before
TearsDown(to) ==
    /\ supervisor' = to
    /\ session' = "none" /\ server' = Nothing /\ wire' = << >>
    /\ schemas' = SchemasAfterFailure
    /\ requests' = Unregistered("supervisor")
    /\ todo' = {}
    /\ disturbed' = disturbed \cup ({call.channel} \cap Channels)
    /\ UNCHANGED <<channels, next_channel, book, call, stored, schemas_before,
                   spent>>

\* A step of the replay gets no answer, or a send fails: worth another try.
ReplayTimesOut ==
    /\ supervisor \in {"reopening", "configuring"}
    /\ TearsDown("backoff")
    /\ mailbox' = [mailbox EXCEPT !["supervisor"] = Empty]

\* The server answers with an ERROR.  Its code decides: INVALID_CHANNEL,
\* UNKNOWN_CHANNEL and TIMEOUT are worth another try, UNAUTHORIZED and every
\* other code are not.
AfterRefusal == {"backoff", "gave_up"}
ReopenRefused ==
    /\ supervisor = "reopening" /\ Heard("ERROR")
    /\ \E to \in AfterRefusal : TearsDown(to)

\* A layout that cannot be used will not change.
ConfigurationRefused ==
    /\ supervisor = "configuring"
    /\ \/ Heard("ERROR") /\ \E to \in AfterRefusal : TearsDown(to)
       \/ /\ ~Readable(mailbox["supervisor"], stored) /\ Heard("FEED_CONFIG")
          /\ TearsDown("gave_up")

-----------------------------------------------------------------------------
OwnerStep ==
    \/ CreateFeedChannel \/ FailsUnconnected
    \/ \E ch \in Channels :
          \/ \E types \in SUBSET Types : SetupFeed(ch, types)
          \/ \E t \in Types : Subscribe(ch, t) \/ Unsubscribe(ch, t)
          \/ ResetSubscriptions(ch) \/ CloseChannel(ch)
    \/ SendReturns \/ SendAbandoned
    \/ CreateCompletes \/ SetupCompletes \/ CloseCompletes
    \/ CallFails \/ CallAbandoned

SupervisorStep ==
    \/ SupervisorLearnsOfLoss \/ AttemptBegins
    \/ HandshakeFails \/ HandshakeSucceeds
    \/ \E ch \in Channels :
          ReplayReopens(ch) \/ ReplayReconfigures(ch) \/ ReplayResubscribes(ch)
    \/ ReplayEnds \/ ReplayTimesOut \/ ReopenRefused
    \/ ConfigurationRefused

ServerStep ==
    \E ch \in Channels :
        \/ ServerReconfigures(ch)
        \/ \E t \in Types : ServerSendsRow(ch, t)

Next == OwnerStep \/ SupervisorStep \/ ServerStep \/ ReaderTakes \/ LoseSession

Spec == Init /\ [][Next]_vars
-----------------------------------------------------------------------------
(***************************************************************************)
(* Safety.  An agreement is put at risk (disturbed) by an operation that   *)
(* overlaps an outage or fails, by a FEED_CONFIG that crosses another, by  *)
(* a layout the client cannot use, and by a setup_feed that leaves out a   *)
(* type that is subscribed.                                                *)
(***************************************************************************)

\* What the client remembers is what the server does, and after any number of
\* lost sessions and failed attempts it is again: the channel is open,
\* configured for the same types, and has the same subscriptions in the same
\* order.
ServedAsRecorded ==
    session = "up" /\ supervisor = "live" =>
        \A ch \in channels \ disturbed :
            ch # call.channel =>
                /\ ch \in server.open
                /\ DOMAIN server.config[ch] = DOMAIN schemas[ch]
                /\ server.subs[ch] = book[ch]

\* A row is decoded against the layout the server used for it.
RightLayout(m) ==
    m.type = "FEED_DATA" =>
        \A t \in m.types \cap DOMAIN schemas[m.channel] :
            schemas[m.channel][t] = m.layout

DecodedAsSent ==
    session = "up" /\ wire # << >> /\ Head(wire).channel \notin disturbed
        => RightLayout(Head(wire))

\* A channel that is closed, or was never opened, leaves nothing behind that
\* a rebuild or the decoder would use.
ClosedLeavesNothing ==
    \A ch \in Channels \ (channels \cup disturbed) :
        schemas[ch] = NoSchema /\ book[ch] = << >>

(***************************************************************************)
(* A bound for TLC: nothing is claimed once every channel created so far   *)
(* is disturbed.                                                           *)
(***************************************************************************)
SomeAgreement ==
    next_channel > 1 => ~(1 .. next_channel - 1 \subseteq disturbed)

(***************************************************************************)
(* What the documentation says and the code does not do.                   *)
(***************************************************************************)

\* replay_session: "A channel that never got as far as a validated feed has
\* nothing to reconfigure and no subscriptions to replay."
SkippedHasNothingToReplay ==
    [][supervisor = "reopening" /\ supervisor' = "next_channel" /\ call = Idle
          => \A ch \in Channels : Due(ch) => book[ch] = << >>]_vars

\* "The layout the server negotiates is the one that gets decoded."
NegotiatedIsDecoded ==
    session = "up" /\ wire # << >> => RightLayout(Head(wire))
=============================================================================
