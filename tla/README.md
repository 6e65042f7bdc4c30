# DXLink: a verification project

TLA+ models, TLC runs and TLAPS proofs for the `dxlink` crate in `../src`: an
asynchronous client for dxFeed's DXLink protocol (a WebSocket session that
multiplexes channels, each with a negotiated row layout and a set of
subscriptions), with automatic reconnection and bounded delivery of market
events. Line numbers below are of `src/src/client.rs` unless another file is
named; `PROJECT.json` maps every definition to the lines it stands for.

Contents: [inventory](#1-inventory) - [plan](#2-plan) -
[modules](#3-modules) - [runs](#4-runs) - [fairness](#5-fairness) -
[findings](#6-findings) - [proofs](#7-proofs) -
[not modelled](#8-not-modelled).

## 1. Inventory

Everything concurrent is in `client.rs`. A connected client is up to five tokio
tasks around shared slots: the owner (whose operations take `&mut self`), one
*reader* and one *keepalive* per session, one *delivery worker* and one
*reconnect supervisor* per `connect`.

| component | state | operations | talks to | hard behaviour | correct when |
|---|---|---|---|---|---|
| Session lifecycle and supervisor | `connection`, `session_tasks` (reader, keepalive and stop-sender slots), `disconnect_reason`, `session_lost` channel, `reconnect_shutdown`, the attempt counter | `connect`, `disconnect`, `Drop`, `spawn_reader`, `spawn_keepalive`, `start_reconnect_supervisor`, `reconnect_once`, `SessionTasks::install` | every other component | aborts land at await points; capacity-1 channels with several senders; four slots swapped under four locks; `disconnect` against a rebuild | every task has an owner who can stop it; a stop leaves nothing running, or at most what was under construction; a loss is noticed and resolved; `disconnect` returns |
| Request routing | `response_requests`, `next_request_id`, one oneshot per caller | `request_response`, `PendingGuard`, the reader's routing loop, the supervisor's clear | owner's operations, `replay_session`, reader | a deadline races a late answer; a future dropped anywhere; ERROR answers carry no request id; one table for all sessions, two readers at once during a rebuild | an answer reaches one waiter, the oldest that can still take it; a loss is told where the supervisor watches, and every other wait ends with its deadline |
| Event delivery | the delivery queue, the event stream, callbacks, the drop counter | the reader's `try_send`, `start_event_delivery`, `with_overflow_policy`, `with_event_buffer` | reader, consumer, `disconnect` | two bounded buffers in a row; the consumer leaves; policy `Block` waits | order, no duplicates, counted losses, callbacks that outlive the stream, a stream that closes |
| Feed configuration and replay | `channels`, `channel_schemas`, `schemas_before` | `setup_feed`, `negotiated_schema`, `adopt_config`, `replay_session` | reader (unasked FEED_CONFIG), supervisor, server | a layout is removed, requested, adopted and restored by three tasks | after any rebuild the server serves what the client recorded; rows are decoded in the layout they were sent in |
| Subscription book | `SubscriptionBook` | insert, remove, `forget_channel`, `of_channel` | `subscribe`, `unsubscribe`, `reset_subscriptions`, `close_channel`, replay | recorded after a send that may fail or be abandoned | a replay sends what is live, once, in order |
| Client channel operations | `next_channel_id`, `channels`, `channel_contracts` | `create_channel` ... `close_channel` | Router, feed, book | refused, unanswered, interrupted by a loss | a closed channel leaves nothing behind |
| Handshake | none of its own | `handshake`, `expect_handshake_message`, `WebSocketConnection::connect` | connection | messages in any order, each read with its own deadline | returns in bounded time; up only when AUTHORIZED was the last word; an error says whether to retry |
| Keepalive timing | `last_sent` | `keepalive_interval_for`, the skip rule of `spawn_keepalive` | connection | a beat is skipped when the socket was just used; a send may block | the server never waits longer than the deadline it named |
| Backoff | policy | `ReconnectPolicy::delay_for` | supervisor | saturation, jitter, the cut to 64 bits | floor <= delay <= ceiling, and no step back |
| State stream | `state_sender` and the supervisor's clone, a broadcast channel | `with_reconnect`, `connection_states`, `notify` | consumers | three calls open the channel in any order; eviction; closes with the last sender | a consumer listens to the stream that is fed, hears how an outage ended, and is told when the session is over |
| Compact decoding (`utils.rs`) | the loops of `decode` | `decode`, `Row`, `build_event` | reader | moved, missing and repeated columns, damaged cells, batches that break off | every row before the fault becomes an event with every value in its place; an error is true |
| Connection (`connection.rs`) | two halves of a socket | `send`, `receive`, the silence deadline | all tasks | pings, close frames answered under a lock that a send may hold | silence and close are noticed within the advertised deadline |
| Event types (`events.rs`) | none | field tables, the untagged `MarketEvent` | decoder | three hand-written lists of the same fields | the lists agree; an event read back is of the same variant |
| Errors and messages (`error.rs`, `messages.rs`) | none | tables and serde structs | - | - | pure data |

What is hard to test here is listed, line by line, under `hazards` in
`PROJECT.json`, with the properties that cover each.

## 2. Plan

Built in the order of what can go wrong: Session, Router, Delivery, Feed, Link;
then what carries the results out of them, Compact (with Events) and
StateStream; and two abstract specifications, LossyFifo for Delivery and Outages
for Session and StateStream.

| module | composes or implements | run | proofs |
|---|---|---|---|
| Session | implements Outages | `session` and three findings | SessionProofs, SessionPromises |
| StateStream | composes Outages with the broadcast channel | `states` | StateStreamProofs |
| Router | - | `router` | RouterProofs |
| Feed | client, server, supervisor and wire in one | `feed` and two findings | FeedProofs |
| Delivery | implements LossyFifo | `delivery` | DeliveryProofs |
| Link | - | `link` | LinkProofs |
| Compact | uses the tables of Events | `compact` | CompactProofs |

What would come next: Session with Feed in place of its `Plans`, so that a
`disconnect` meets a replay in every one of its steps; the fields of a
subscription (`fromTime`, `source`) in the book.

## 3. Modules

All specifications have the same form: an action is the code between two await
points of one task (or of one critical section where locks matter), its guard
the code's conditions and early returns. Payloads, error texts and logging are
abstracted. Except in Link, time is too: a deadline is an action that may always
happen while the code waits.

**Session** (`MCSession`, `SessionProofs`, `SessionPromises`) and **Outages**. A
session is a number, in the order its handshake succeeded, and `None == 0` is an
empty slot; the number also stands for its socket and for the reason its reader
records. An abort only prevents the next poll, and nobody joins an aborted task:
actions that begin a poll need a task that is not aborted, those that continue
one do not. So the handshake's last answer (`HandshakeSucceeds`) may be read
just before the abort, and the connection slot and the two tasks follow it
(`SessionComesUp`, l.1082-1098) after `disconnect` or `drop` has gone on. What a
poll does in the sight of others is split: `SessionTasks::install` and
`SessionTasks::abort` take their locks one at a time
(`SupervisorInstallsReader`, `...Keepalive`, `...Stop`; `DropClient`,
`DropAbortsKeepalive`, `DropFinishes`). `readers[s]` walks through `failed ->
stopping -> reporting -> ended` as `spawn_reader` does after its loop (record
the reason, stop the keepalive, report the loss). `tasks` is `SessionTasks`;
`building` is what `reconnect_once` holds in local variables. An abort of a
reader is a flag (`aborted`) that takes effect with `ReaderCancelled`; an abort
of the supervisor lands at one of its await points (`Awaiting`), and
`SupervisorCancelled` moves `building` to `detached`, because dropping a tokio
`JoinHandle` does not stop the task; so do the slots themselves when the last of
client and supervisor goes. `KeepaliveBlocks` is a send stuck on a peer that
stopped reading: that send has no deadline. What a replay does is abstracted to
a plan of `"send"` and `"answer"` steps, each of which may fail; its content is
Feed's. Not represented: `connect` on a client that is connected, a `disconnect`
whose future is dropped, a supervisor or a reader whose last poll is still
running when the owner has connected again (the handshake of that connect lies
in between; `ConnectSucceeds` says so). Outages is what the docs of
`ConnectionState` promise of the sequence of announcements; `announced` and
`attempt` of Session implement it under their own names.

**StateStream** (`MCStateStream`, `StateStreamProofs`). The supervisor of Outages,
composed with the channel its announcements go through: who opened it, who holds
its two senders, the ring that evicts the oldest state, consumers that read at
their own pace (`Lagged`, `Closed`), and the delay that a `Reconnecting` carries.
`delay_for` is modelled with every constant scaled down: `DurationMax` for
`Duration::MAX`, `Doublings` for the exponent 31, `Word` for the 2^64 that
`as_nanos() as u64` cuts at, `MinDelay` for the floor. Jitter is any value of
the range it may take (the seed is left out). `max_attempts = None` is left out:
such a supervisor is one whose limit is out of reach.

**Router** (`MCRouter`, `RouterProofs`). Taking an id, registering, sending,
waiting, the deadline, the drop of the future and `PendingGuard` are separate
steps of a caller (`calls[c].at`), so that the reader can run between a deadline
and the guard, and so that two callers can register in the other order than they
took their ids (`next_request_id` and `response_requests` are two locks). The
table is a set of requests, each with its `place` in the vector. There are at
most two callers, the owner (`&mut self`) and the supervisor. `supervisor` says
where the latter stands: the table is cleared by `ClearRequests`, in the one
place that does it (l.2437), when a report is read while `"watching"`; while it
is `"rebuilding"` or `"replaying"`, where it is a caller itself, a session may die
and the next one come up without anybody being woken. Sessions are numbers
again: `slot` is the connection a new call clones, `alive` the readers that run.
Two of them may, because after a stale report the reader in the slot goes on
until the rebuilt one replaces it; both route on the same table. `lost` is what
has been or will be reported and was not read yet: the stop request before the
report and the one place in that channel are Session's, so a report that an abort
may still prevent is left to chance (`RebuildFails`, `RebuildSucceeds`).

**Delivery** (`MCDelivery`, `DeliveryProofs`) and **LossyFifo**. Events are
numbers in decoding order. The reader's `try_send`, the worker's receive,
callback, stream send (or wait, under `Block`) and end of loop are steps;
`hand` is the event the worker holds. LossyFifo is what the pipeline promises:
a FIFO that may lose events anywhere but counts each, until the consumer leaves
or delivery is shut down. `Delivery!ImplementsLossyFifo` maps `inflight` to
stream, hand and queue in that order.

**Compact** (`MCCompact`, `CompactProofs`) and **Events**. `decode` is a state
machine: one action opens a group (or refuses it), one reads a row (or refuses
it), one finishes; `result` says whether `try_parse` would answer or fail, and
`events` is what `parse` answers either way. A cell is the kind of its JSON value
and what it says; accessors accept kinds (`Readable`) and turn a missing column
into a default. Events holds the tables as the code has them: the columns asked
for (`compact_fields`), the structs with the kind of every field, and the serde
mapping of each; `BuildEvent` of Compact is the third list, the columns that
`build_event` reads. `from`, the row an event was read from, is a history field.

**Feed** (`MCFeed`, `FeedProofs`). The client's channels, layouts and book, and beside them
the server's (`server.open`, `.config`, `.subs`), with the messages and answers
in between: the owner's six operations, each with completion, ERROR, wake-up by
a loss and abandonment; the reader's routing and `adopt_config`; the server
changing a layout unasked; losses; the supervisor's attempts with
`replay_session` step by step and the error path of `reconnect_once`. A layout
is one of four kinds: as asked (`full`), with other columns (`reduced`), without
the identity columns (`blind`), not COMPACT or unreadable (`foreign`).
An ERROR may end a rebuild or be tried again, as its code says (l.704, l.1165).
Registration and send are one step (Router separates them), the server handles
a message when it is sent (subscriptions that are added come after whatever else
it had for the channel), and the stale reports and shutdowns of Session are left
there. `disturbed` is a history variable: the channels for which the code
promises nothing, because

- an operation on them overlapped an outage, failed or was abandoned,
- a FEED_CONFIG of the server crossed another one,
- the server chose a layout the client cannot decode (it then fails closed), or
- a `setup_feed` left out a type that is subscribed.

Everything said about Feed is about the other channels, through any number of
losses and failed attempts. An ERROR that answers the wrong request (l.424) is in
the model, but it makes the operation fail, so what it does to a channel is not
claimed to be right: no property covers that hazard.

**Link** (`LinkProofs`; TLC runs it as it is). One connection against a clock:
`phase` is how far `connect` got, the frames are what a read of `connection.rs`
can return, and `Rejection`, `ReadError`, `IsTerminal` and `WorthRetrying` are
the code's error tables. While the session is up, the keepalive's interval,
`last_sent`, the reader's deadline and the lock on the write half run side by
side: a send may take any time (`Locks` ... `SendReturns`), pings are skipped
within a deadline, and a close frame must take the lock to be answered. Time
passes in units (two to a second in the run) and only when no timer is due, so
timers fire promptly; that is the idealisation here, together with sends of the
handshake that take no time, the reader's pause of 100 ms after a bad frame,
which is less than a unit, and the time since the last send being counted from
the moment the session is up. Each variable is a clock or a phase of one task;
`elapsed`, `unheard`, `heard` and `said` are history.

## 4. Runs

| run | instance | shows |
|---|---|---|
| `session` | 2 sessions, 2 attempts, a second peer that may wedge, a replay of nothing or of a request and its answer | every running reader is in the slots, in the supervisor's hands or detached (OwnedReaders); connection slot and task slots are of one session (ConnectionIsOwned); stop before report (StopBeforeReport); a stream that closed has a reason (ClosedStreamHasReason); a disconnect or a drop leaves no reader running if the supervisor ended by itself, and at most one, the one under construction, if it was aborted (StopLeavesNothing); the announcements are those of Outages; a loss is resolved, a dead session is noticed or, without a policy, closes the stream, no keepalive outlives its session, `disconnect` returns |
| `states` | 2 consumers, a ring of 2, 3 attempts, 2 streams, one outage; a policy that doubles past the maximum, and one that is spread, cut at the word and below the floor | a consumer listens to the stream the supervisor feeds, whatever the order of the calls (ReceiversListen); the delay stays between floor and ceiling and does not shrink (BackoffIsSteady); a consumer that fell behind hears the end of the outage (EndIsHeard) and that the session is over (StreamEnds) |
| `router` | 2 callers, 2 channels, 2 requests in all, 1 unasked message, 3 sessions | a registration lives exactly as long as its call (RegistrationsMatchCalls), a message goes to the first registration that fits and is dropped only if none can take it (NothingIsSwallowed), nobody is answered twice or loses an answer; once the session died and the supervisor watches, whoever waits is told, without the help of a deadline (LossWakesWaiters); with the deadlines every call that waits for its answer returns, wherever the supervisor stands (CallsReturn) |
| `feed` | two scopes in one exploration: one channel with 2 types, 6 operations, 2 losses, 2 unasked FEED_CONFIGs, 1 row; and 2 channels with 1 type, 5 operations, 1 loss | the server serves what the client recorded, after any rebuild (ServedAsRecorded); rows are decoded as they were sent (DecodedAsSent); close, reset and a rebuild that failed half-way touch only their channel (ClosedLeavesNothing) |
| `delivery` | 6 events in messages of up to 3, stream of 2, queue floor 1, both policies, callbacks for every other event | losses are counted (LossesAreCounted), bursts fit (BurstFits), callbacks and `Block` miss nothing that passed the queue (NothingElseIsLost), the stream closes (StreamCloses), the pipeline implements LossyFifo |
| `link` | 2 units to a second; advertised deadlines of 1 and 4 units, negotiated ones of none, 1, 2, 4 and 7; a connect timeout of 3 and handshake timeouts of 4 units | the keepalive meets every deadline of 2 s or more (HeardInTime), silence is noticed in time and never imagined (SilenceIsTimed), `connect` returns (HandshakeIsBounded), a session is up only when AUTHORIZED was the server's last word (UpMeansAuthorized), a failed handshake is retried only if the server gave no answer (AnswersAreFinal) |
| `compact` | every decoded type with 0, 1 and 2 rows against every layout that keeps, reverses, lengthens, repeats or drops one column; every single cell of two rows damaged in every way; lists cut short, out of step, or of types unknown, undecodable or not agreed on | each row before the place the decoder reached became one event, in order (EveryRowInOrder); every value is its own row's, in the column of that name (ValuesInPlace); events only for a well-formed batch, an error only for a malformed one (RefusedIffMalformed); a full layout defaults nothing (NothingDefaulted); FULL JSON reads back as the same variant (SameVariantBack) |
| `session_stale_report`, `session_drop_leak`, `session_wedged`, `feed_unreplayed`, `feed_wrong_layout` | the smallest instance that shows it | violations: see [findings](#6-findings) |

The type invariants of Session, Delivery, Link, Compact, Router and StateStream
are theorems (each module's `TypeCorrect`), and are not repeated in the runs;
Feed's is a theorem that TLC checks as well, because it also says that no book
has a subscription twice.

Why the bounds are enough. Session: the properties relate a session to the next
one, and two attempts reach the limit from both sides; the one behaviour known
to need a third session is a finding with a run of its own. A plan of one send
and one answer has every kind of await point of a replay, and the end of the
plan is where it meets the next. Outages are numbered by attempts only, so more
of them repeat the same states. States: a ring of two evicts with three
attempts, and two streams are a connect, a disconnect and a connect; the scaled
`delay_for` has 2^2 * 5 > 15, a ceiling between the third and the fourth
product, a delay that is a multiple of the word and one below the floor. Router:
two callers is all the code has; two requests put two callers in the table at
once, on one channel or on two, or let one caller come back to meet its own
earlier registration or its late answer; three sessions are one that is lost, a
rebuild that fails and one that succeeds. Delivery: three-event messages
overflow the queue, the stream and the hand at once, and six events refill them.
Feed: six operations are a create, a setup, two subscriptions, and two more to
change, reset or close what they made; five set up two channels and subscribe
on, reset or close one of them; two losses let a rebuild fail and a later one
succeed, or succeed twice. `MaxRows` is one because rows do not interact. Both
scopes start with part of the bounds used up (`MCInit`), which is a state the
program reaches: in the first the first id went to a `create_feed_channel` that
failed. The constraint `Explored` cuts behaviours off once every channel created
so far is disturbed, where the properties claim nothing, and keeps the second
scope to one type. Link: the deadlines are the ones around each rounding of `(d
+ 2) / 3` and the floor of a second, one shorter and one longer than what is
advertised; time itself needs no bound, because every clock is stopped by a
deadline (`unsent` at the server's). Compact: rows are read independently of one
another and the theorems below hold for every batch; two rows tell a row's cell
from its neighbour's. No run uses symmetry: they check liveness, or choose among
the values they would permute.

`CHECK_DEADLOCK FALSE` everywhere: a client that was dropped, a batch that was
decoded, or bounds that are used up, really stop.

## 5. Fairness

Weak fairness is assumed of what the tokio runtime does and of nothing else: a
task that can make progress is polled; a `disconnect` that was begun is polled
to its end; the keepalive's `select!` chooses among its branches at random, so
a stop request is not passed over for ever (`KeepaliveStops`). Nothing makes the
peer fail or answer, the owner call, the interval tick, or a deadline expire.
There are four places where more is needed, and each is said in the formula:

- LossIsResolved, DeathIsNoticed, NoOrphanWriter and DisconnectReturns of Session
  have an escape: a peer that stopped reading, so that a send may never return
  (`SendBlocks`); sends have no deadline in the code. Without it
  DisconnectReturns is false: ShutdownIsBounded is that unconditional form, and
  `session_wedged` refutes it.
- CallsReturn assumes the deadlines (`Deadlines => ...`): it says no wait is
  without one. It begins where the wait does; the send before it has no deadline
  in the code, and Router asks nothing of sends, of the server, or of the
  attempts to reconnect.
- under `Block` the consumer reads or leaves, which is what the documentation of
  `OverflowPolicy::Block` asks of it.
- in StateStream a consumer keeps reading, at any pace: the promise is what a
  consumer that reads will hear.

Link, Feed and Compact state safety only.

## 6. Findings

Each is a violation run whose property is a sentence of the repository.

- **A stale report kills a live session** (`session_stale_report`,
  LostMeansDead, l.1114). The error path of `reconnect_once` aborts a reader that
  may already have reported its loss; nobody drains the report, and after the
  next attempt succeeded the supervisor reads it, announces `Lost`, and rebuilds
  a session that is alive.
- **Dropping the client can leak a session** (`session_drop_leak`,
  DropStopsTheReaders, l.3103). A supervisor aborted while it replays, or in the
  poll that spawns the tasks, drops its `JoinHandle`s, which detaches the reader.
  A `disconnect` whose grace elapses aborts it the same way (l.2516);
  StopLeavesNothing and ReadersAreOwned bound what is lost by it to one session.
- **`disconnect` can wait for ever** (`session_wedged`, ShutdownIsBounded,
  l.2532). The stop request is sent outside any timeout into a channel of
  capacity one that the dead reader may already have filled, while the keepalive
  that should empty it is stuck in a send.
- **`Reconnected` without the subscriptions** (`feed_unreplayed`,
  SkippedHasNothingToReplay, l.990). A `setup_feed` that fails or is interrupted
  leaves a subscribed channel without a layout; the next rebuild reopens it and
  skips its subscriptions.
- **Rows decoded against the older of two layouts** (`feed_wrong_layout`,
  NegotiatedIsDecoded, l.1451). A FEED_CONFIG read between the answer of
  `setup_feed` and its caller resuming is thrown away.

Also seen while modelling, without a run of their own:

- "The supervisor is stopped by now, whether it returned or was aborted after the
  grace period" (l.2520): an abort is not waited for, so a session may still come
  up after it, in the slot of a client that is off;
- "Waiters registered against the dead session would otherwise sit until their own
  timeouts" (l.2434): so do those whose session dies while the supervisor rebuilds,
  because that loss is not read before the rebuild is over and a failed attempt
  goes on to the next without clearing the table. A caller may even get the
  answer of another session, since all of them share the table and a channel keeps
  its id;
- the reason of a session that dies right after its rebuild is erased (l.2471),
  and a reason recorded while `disconnect` closes channels is still there
  afterwards;
- events queued when `disconnect` aborts the worker are not counted as dropped
  (l.2582);
- `setup_feed` that leaves out a subscribed type makes the next replay subscribe
  to a type that is not configured (l.1053);
- the layouts restored after a failed attempt overwrite what `setup_feed` or
  `close_channel` did during it (l.1120);
- two concurrent calls can register in the other order than they took their
  ids, so "the oldest" is by place in the table, not by id;
- a server that names a deadline of one second can see it pass, because the
  interval is at least a second and a beat may be skipped (l.1133, l.290); the
  reader's silence deadline is the advertised one whatever the server names
  (l.2345), and the server's `keepaliveTimeout` only sets the pace of the
  client's keepalive, although `messages.rs:91` calls it "how long the server may
  stay silent before the client should give up";
- a close frame that arrives while a send holds the write half is reported as a
  timeout (`connection.rs:266`); a server that refuses by closing the socket
  counts as a dead transport and is tried again (`connection.rs:270`, l.1165);
- `utils.rs:17` says of `parse_compact_data` that it drops "the whole batch if
  any of it is malformed"; it returns the events decoded before the fault, as the
  next paragraph of the same comment says (`events` of Compact, whatever
  `result` is; the strict entry points are `TryParse`);
- a TradeETH written as FULL JSON and damaged in a field that Trade lacks reads
  back as a Trade, because `MarketEvent` is untagged.

## 7. Proofs

Checked by TLAPS for every value of the constants that satisfies the module's
assumption, with no fairness. In each module the invariant is inductive and
every group of actions has a lemma that keeps it.

**SessionProofs**. TypeCorrect, ReadersAreOwned and StopComesFirst.
`OwnedReaders` is not inductive alone, since an abort or an install forgets
whatever was in the slot or the hand. The inductive invariant is `IInv`:

- `HandsFull`: the supervisor has a session in its hands exactly where
  `reconnect_once` has spawned tasks and not yet installed or torn them down, so
  install never overwrites a hand and a cancelled supervisor detaches what it
  holds;
- `BornFirst`: a session that was not born has no reader, no handle and was not
  reported, so a new session never takes the number of a running one;
- `HandInSlot`: between the locks of install, the new reader is in its slot, or
  somebody took it from there and aborted it;
- `Quiet`: outside `live` and `joining_supervisor` the supervisor has ended or
  was aborted;
- OwnedReaders and StopBeforeReport themselves.

**SessionPromises** goes on from that invariant.

- AnnouncesOutages: Session implements Outages. `TellingInv` ties the
  supervisor's place to what it announced last and to the attempt it counts;
  every action then is a step of Outages or leaves both variables alone.
- SlotsBelongTogether: `SlotsInv` follows the four slots through `install`, lock
  by lock, the tear-down of a lost session, `disconnect` and `drop`, and says
  which of them may be empty at each place of the two tasks. It is about the
  times the supervisor rests: in the middle of an install the slots do differ,
  and what may happen to them there is in OwnedReaders and StopLeavesNothing.
- LittleIsLeft: StopLeavesNothing. `LeftInv` follows the handles of this
  connection that nobody has any more (`LetGo`): there are none before an aborted
  supervisor has ended, never two, and none beside a reader that it put into the
  slot after the client was done with the slots.
- ClosedForAReason: `ReasonInv` follows the one session of a client that has no
  supervisor, from its reader's end to the end of the delivery.

**StateStreamProofs**. TypeCorrect, ReceiversAreConnected, DelaysAreBounded and
BackoffGrows. The invariant adds `OneStream` (while the client is live, the
supervisor's clone and the client's sender are of one stream, and so is every
receiver handed out since the last disconnect), `Paced`, and `DelayIsThePolicys`
(an attempt carries the delay its policy has for its number). What is said of the
delay holds for every policy and every value of the scaled constants, so for the
real ones as well. That it does not shrink rests on `PowerDoubles`: Power is what
its recursion says. The library's induction takes an operator, which the provers
cannot instantiate, so the proof is by a least counterexample: the least `k`
without such a function on `0 .. k` would have the one before it, extended. From
there UnspreadGrows follows the product through the two ways it saturates, the
ceiling and the floor.

**RouterProofs**. TypeCorrect, TableIsExact, MessagesReachTheFirst and
AnswersAreKept, for any number of callers, channels, requests and sessions, and
wherever the supervisor stands; the sessions enter only through the types, since
all of them work on one table. The invariant:
`OwnNumbers` (no two calls hold one id, and the next one is above them all),
`OwnPlaces` (no two registrations share an id or a place), `ToldOnce` (a caller
that was told something is no longer registered). That the first
registration exists is the least element of a set of numbers, by well-founded
induction on `Less`.

**DeliveryProofs**. TypeCorrect, LossAccounting, NoLossInABurst, Refinement and
NothingIsLostSilently. `IInv` adds to
the type invariant `HandIsFilled` (the worker holds an event exactly where the
code has received one and not finished with it), `EndIsFinal` (the reader ends
between two messages; the worker ends only when it is aborted or nobody can feed
it) and `Accounting` (offered = received + stream + hand + queue + dropped while
nobody has left or shut down, and never less than that sum). They are needed
because a `try_send` to a queue whose worker has gone counts nothing, and
`EndIsFinal` says that this cannot happen while the accounting is claimed. NoLossInABurst rests on `CapacityIsEnough`:
the queue is at least as deep as the stream.

Refinement: Delivery implements LossyFifo. Each step of the reader, of the worker
and of the others is a step of the FIFO, or leaves what the consumer can tell
(`Stutters`); the lemmas on concatenation say what passing an event between
queue, hand and stream does to the three in a row (nothing), and what dropping
the one in the hand does (an event leaves the middle). NothingIsLostSilently
needs `OrderInv`: `Line` (called back, or with a callback still ahead) and the
FIFO with what was received are in order and hold nothing that was not yet
offered; until something was dropped, `Line` has every event with a callback;
under `Block` the consumer's share is the callbacks'. Both sequences only ever
grow by the next event, lose one from the middle, or are cut short (`Moves`), and
MoveKeepsOrder says that none of these disturbs the order.

**FeedProofs**. RowsAreDecodedAsSent, ClosedChannelsLeaveNothing,
SubscriptionsAreServed and TypeCorrect, for any number of channels, types,
operations, losses and unasked FEED_CONFIGs.
ClosedChannelsLeaveNothing needs `Rebuilds`: the layouts a failed rebuild puts
back, and the channels it works on, are of open channels or of channels at risk.
RowsAreDecodedAsSent needs to know, of every channel that is not at risk, how
the client's layout, the server's and the messages between them fit together
(`InStep`):

- `OneAtATime`: one FEED_CONFIG is under way, in the wire or in the mailbox of
  who asked for it;
- `RowsBehind`, `RowsOfAnswer`: the rows after it, and those the server will send
  next, are in the layout it tells;
- `RowsAhead`, `Settled`: the rows before it, and with none under way those to
  come, are in the client's layout.

That two of them never meet rests on `NoLayoutYet` (while a layout is asked for,
the channel has none, so a row that overtakes the answer is not decoded),
`NotYetServed` (a channel still to be rebuilt is not configured on the new
session, so the server has nothing to change) and `Outages` (what the owner does
during an outage is at risk). `Waiters` ties each registration and each mailbox to
the one caller that waits.

SubscriptionsAreServed (ServedAsRecorded) speaks of the states in which nothing is
going on; the invariant says of every channel not at risk what it is on the way
to. `Remembered`: the client has a layout for everything it is subscribed to, or
the layout is being asked for by somebody who keeps the list of types (`stored`,
`call.types`), and the copy that a failed attempt puts back has one too. `Served`:
the server has what the client remembers, or, while an operation is under way,
what the client will remember once it completes; a channel still to be rebuilt
has no subscriptions yet, and one that is asked for is as asked when the answer
arrives (`Answering`). With that go the plain facts of `Steady`: which operation
waits for what, that ids only grow, whom an answer is for, and that a session
that is not up has nothing. A step touches at most one channel; the frame lemmas
(`AgreedFrame`, `BeginsElsewhere`, `EndsElsewhere`, `ReplaysElsewhere`) deal with
all the others, and one lemma per operation with its own. TypeCorrect adds that
what is stored is a layout rows can be decoded by, which is the point of
`Readable`, and that the book has no subscription twice.

Each of these was model-checked as an invariant of the `feed` instance before it
was proved.

**LinkProofs**. TypeCorrect, KeepaliveMeetsDeadline, SilenceIsMeasured,
HandshakeEnds, OnlyAuthorized and RetriesAreForSilence: every property of the
run, for all deadlines and any resolution of time. The inductive invariant:

- `Beat`: while the keepalive waits, the time since the last send plus the time
  to its next tick is less than two intervals, because a beat is only skipped
  when the last send is younger than one. KeepaliveMeetsDeadline then follows
  from IntervalBounds, a lemma about `keepalive_interval_for`: twice the interval
  fits every deadline of two seconds or more;
- `Silence`: the reader's deadline and the silence run together, since only what
  ends a read starts the next one; with `Patience` (no read outlives its
  deadline) this is SilenceIsTimed;
- `Spent`: at each step of the handshake, what of the total can be gone;
- `Stages`: no error before the end, no keepalive before the session.

**CompactProofs**. TypeCorrect, EachRowOnce, ReadByName, ErrorsAreTrue,
NoFieldIsForgotten and FullReadsBack: every batch of any length, in any layout. `Place` says where the two loops stand and
that every header behind them could be read, `Rows` that the rows passed and the
events are the same, in the same order, and that each of them fitted, `Results`
what the two ends of `decode` imply, and `EventsAreFilled` that every event has
a value of the right kind for every field of its struct. The tables enter through
three lemmas, proved type by type: `Tables` (the columns `build_event` reads are
the fields of the struct, with the same kinds), `ColumnsAreFields` (what is asked
for is what the struct has, in both directions) and `Marks` (each variant has a
field that no variant tried after it has, so it takes none of theirs for its
own). The theorems would fail if one of the lists differed. NoFieldIsForgotten also needs
that the cells a row reads are cells that were sent: the r-th row of a group of
`w` columns ends within its cells, because the group has a whole number of rows.

Only model-checked: what needs fairness (LossIsResolved, DeathIsNoticed,
DeathClosesStream, NoOrphanWriter and DisconnectReturns of Session, StreamCloses
of Delivery, LossWakesWaiters and CallsReturn of Router, EndIsHeard and
StreamEnds of StateStream), which is beyond the proof system. Every safety
property of the passing runs, and both refinements, are theorems.

## 8. Not modelled

- TLS and the WebSocket library: I/O. What a peer can do to a socket (fall
  silent, close, stop reading) is in Link and Session; `connection.rs` is in
  Link except for the redaction of what it logs.
- `messages.rs`: serde structs without operations. What a message carries is a
  field of a record in the module that sends or reads it (Router, Feed, Link).
- `error.rs` but for the two questions asked of an error, which Link answers;
  Session takes both answers. `Display` of errors and events is text.
- Of `events.rs`, the lenient `From<&str>`, which nothing that decodes uses.
- Channel contracts, the validation of symbols and column names, `fromTime` and
  `source` of a subscription: payload that no property tells apart; the reads
  `len` and `snapshot` of the book.
- `max_attempts = None`, the jitter's seed, and the reasons the states carry.
- The `lost_rx` channel closing under the supervisor: it holds a sender itself,
  so that branch is unreachable.
- The examples and the integration tests against a live server.
