# A verification development for typhoon

typhoon collects trades from two exchanges, BINANCE and BITMEX, samples a
closing price of each at a fixed interval, pairs the two prices of an instant,
and hands the pairs to a trading strategy.  It is a handful of small processes
joined by ZeroMQ sockets, written in C++:

    exchange --wss--> provider --PUSH/PULL--> aggregator --PUSH/PULL--+
                                                                      |
                                                            aligner <-+
                                                                      |
    exchange --wss--> provider --PUSH/PULL--> aggregator --PUSH/PULL--+
                                                            aligner --PUSH/PULL--> strategy

There is one provider and one aggregator per exchange, started with one aligner
by `make run`; the strategy is a Python script.  Nothing is written to disk,
nothing restarts a process that ends.

The system is small and its difficulty is in the seams: a ring buffer that two
threads share with no lock, a vector that grows under its reader, a thread that
follows the clock and may fall behind it, two streams joined on a key, queues
that block when full, processes that come and go, and a websocket connection
whose timers race with what they time.  That is what is modelled, together with
the part of the vendored code that decides what a trade is by the time it
reaches the aggregator: frames, UTF-8, JSON.

Paths below are relative to `src/provider/`.

## 1. Inventory

### Aggregator: `aggregator.cpp`

*State.*  A `CircularQueue<pair<time, price>>` -- `size`, `start`, `end`, a
`std::vector` reserved to `size`, a mutex nobody takes -- shared by two threads;
the consumer thread's `nextStartTime`; a PULL socket from the provider, a PUSH
socket to the aligner.

*Operations.*
- `main`: receive a message, parse it, `push` its trades.  A BINANCE message is one
  trade, a BITMEX message has any number, or none.
- `push`: unless `(end + 1) % size == start`, append to the vector, advance `end`.
- `send_every`, in the other thread, for ever: `exec`, build a tick, send it,
  `nextStartTime += interval`, `sleep_until(nextStartTime)`.
- `exec`: copy `queue[max(end - 1, 0)]`, then `start = end`.
- `get_closest_tp`: the first `nextStartTime`, the next multiple of the interval.

*What makes it correct.*  The indices never become ambiguous (full taken for
empty, or back).  A trade is dropped only if the ring is full.  A sent price is
that of the newest trade.  Ticks carry consecutive multiples of the interval,
none before its time, none skipped, and the thread catches up when it was
delayed.

### Aligner: `aligner.cpp`

*State.*  `tickMap`: stamp -> two prices and their `_set` flags; a bound PULL
socket from all aggregators, a bound PUSH socket to the strategy.

*Operations.*  One loop: receive a tick, emplace its stamp, fill the slot its id
names; when both are set, send the pair and erase the entry.

*What makes it correct.*  A pair holds the two exchanges' prices of one instant.
A stamp is sent once, in order, and as soon as both ticks are there.  The map
keeps only what still waits.

### Pipeline: `Makefile` (`run`, `stop`), and the sockets

*State.*  Which processes run; what is in the queues of each connection.
*Interaction.*  Messages only.  A connected PUSH socket queues while its peer is away; a bound one
with no peer blocks; either blocks at its high-water mark.
*What makes it correct.*  What each process promises holds of the whole,
restarts included, and back-pressure delays ticks without losing them.

### Strategy: `test_strat.py`

Connects to the aligner, discards the first message, prints the others.

### Provider: `provider.cpp`

*State.*  One websocket connection, a PUSH socket (`Pusher::sender`), one thread.
*Operations.*  `main` connects and calls `c.run()`, the event loop; `on_message` parses
the payload, writes it again and pushes it, in a handler of that loop.
*What makes it correct.*  The aggregator gets the trades in the server's order, none twice.
A push that blocks, and with it the event loop, goes on when an aggregator receives.  `run` returns when
the connection is closed.

### Connection: `include/websocketpp/impl/connection_impl.hpp`, `transport/asio/`

*State.*  `m_state`, `m_internal_state`, the handshake timer, the send queue and the messages being written;
in asio, the outstanding operations, timers and queued handlers.
*Operations.*  Completion handlers: resolve, connect, TLS handshake, request, response, frames, writes, shutdown; a
timer for each of these waits.
*What makes it correct.*  The attempt opens or fails, messages are delivered while open, the end
is reported once (not so when the extensions of the answer are refused: section 6).  Two operations that share a buffer are never outstanding together.  Every wait is timed.

### What the bytes go through

- `http/impl/response.hpp` (`consume`): the answer to the upgrade request, read by read.  *Correct* if the first
  frame starts where the header ends, however the reads are cut, and a header is bounded.
- `processors/hybi13.hpp` (`consume`, `get_message`), `utf8_validator.hpp`: frames, read by read.  *Correct* if reads,
  control frames between fragments and the form of a length make no difference to the messages.
- `include/json.hpp`: lexer, parser, serializer.  *Correct* if exactly the grammar is accepted,
  and what the aggregator parses is what the provider parsed.

### The rest

- `verify_*`, `on_tls_init` in `provider.cpp`: TLS set-up and host names, no state of their own.
- `.queue.test.cpp`: the prototype `CircularTaskQueue`, with a condition variable
  where the program has a periodic thread.  The comments that explain the ring
  (lines 10-24) are here.  It is not built, and its `main` never runs `exec`.
- `zhelpers.hpp`: helpers of the ZeroMQ guide; included, unused.
- `include/`: the rest of the vendored nlohmann json, fmt and websocketpp.
- `test.cpp`, `Dockerfile`, `docker-compose.yml`, notes: no state.

### Hard behaviours

| behaviour | where | examined by |
|---|---|---|
| `push` and `exec` interleave, unlocked, each on a stale copy of the other's index | `aggregator.cpp:30-31,38-40` | `RingInv`, `ImplementsWindow` |
| the vector is reallocated while it is read | `aggregator.cpp:39` | `ClosingIsLatest`, `GarbageCauses` |
| elements are appended, indices wrap | `aggregator.cpp:30,39` | `ExecReturnsClosing` |
| `exec` before the first trade | `aggregator.cpp:30,57` | `SentPriceIsATrade`, `GarbageCauses` |
| a consumer thread behind, or ahead of, its schedule | `aggregator.cpp:57,77` | `NotBeforeStamp`, `TicksKeepUp`, `ImplementsTickSource` |
| an exception in one thread ends both | `aggregator.cpp:156`, `aligner.cpp:62` | `ImplementsTickSource`, `JoinedEventually` |
| two streams in any order | `aligner.cpp:59-99` | `ImplementsJoin`, `UnmatchedInv` |
| everyone blocked behind an absent strategy | `aligner.cpp:97` | `EveryCommonTickDelivered` |
| restarts; two processes with the same stamps | `aggregator.cpp:142`, `aligner.cpp:27` | `RedeliveryNeedsRestarts`, `OrderWithinProcesses`, `PricesOfOneInstant` |
| a timer expires while what it times completes | `transport/asio/connection.hpp` | `EndedOnce`, `KeepsPromise` |
| two things want to write at once | `connection_impl.hpp:1800` | `OneAtATime` |
| the server never answers, never closes | `connection_impl.hpp:2132` | `Watched`, `KeepsPromise` |
| a connection is terminated and opens all the same | `connection_impl.hpp:1619` | `OpensOrFails`, `EndedOnce`, `KeepsPromise` |
| frames after a close frame in the same read | `connection_impl.hpp:1105` | `Answered`, `CloseIsLast` |
| a push blocks the event loop | `provider.cpp:35` | `LoopReleased`, `FeedInOrder` |
| a read ends anywhere in a header, a frame, a character | `response.hpp:57`, `hybi13.hpp:395` | `FramesFollowHeader`, `ImplementsReader`, `ReadsEnd` |
| three copies of one UTF-8 automaton | `json.hpp:2371` | `SameText`, `Writable`, `RoundTrip` |
| a text that ends inside a character, in its last fragment | `hybi13.hpp:537` | `TextsAreWhole` |
| an unchecked buffer in the serializer | `json.hpp:8612` | `BufferHolds` |
| numbers at the limits of their width | `json.hpp:2837` | `NumbersFollowGrammar`, `IntegersForwarded` |

`PROJECT.json` has the complete list, with the lines, and says which hazards no property covers.

## 2. Modules

| module | what it is |
|---|---|
| `TradeWindow` | abstract: what the ring promises, with counters in place of indices |
| `TickSource` | abstract: the tick stream an aggregator process is, seen from the aligner |
| `Aggregator` | one aggregator process, both threads; implements `TradeWindow` and `TickSource` |
| `AggregatorProofs` | its theorems |
| `TickJoin` | abstract: the join of two streams on their stamps |
| `Aligner` | the aligner process, fed by streams as `TickSource` describes; implements `TickJoin` |
| `Pipeline` | extends `Aligner` with the clock, the schedule of the aggregators, stops and restarts |
| `PipelineProofs` | theorems about `Aligner` and `Pipeline` |
| `EventLoop` | asio's loop: operations, timers, the queue of handlers |
| `Connection` | the client connection, one action per completion handler; implements `Session` |
| `Session` | abstract: what a connection promises its program |
| `Provider` | extends `Connection` with the message handler, the push and an aggregator that comes and goes |
| `ProviderProofs` | theorems about `Connection` and `Provider` |
| `HttpResponse` | the upgrade answer, read by read |
| `Utf8` | the UTF-8 table both libraries carry |
| `Utf8Proofs` | lemmas about it, and the induction the other proofs use |
| `FrameReader` | abstract: taking frames whole |
| `Frames` | `hybi13`'s `consume`, byte counts and read boundaries; implements `FrameReader` |
| `ReadingProofs` | theorems about `HttpResponse` and `Frames` |
| `JsonStrings`, `JsonStringsProofs` | `scan_string` and `dump_escaped` beside the validator, and their theorems |
| `JsonNumbers`, `JsonNumbersProofs` | `scan_number`, the conversions, `dump_integer`, and their theorems |
| `JsonValues`, `JsonValuesProofs` | `parse_internal` and `dump`, over tokens, and their theorems |
| `Codec` | chooses one of these stages per behaviour |
| `MCAligner`, `MCPipeline`, `MCCodec` | the constants TLC needs |

    Aggregator --implements--> TradeWindow
    Aggregator --implements--> TickSource ...is the input of... Aligner --implements--> TickJoin
                                                                Aligner <--extends-- Pipeline
    EventLoop <--extends-- Connection --implements--> Session
                           Connection <--extends-- Provider
    Frames --implements--> FrameReader;   Codec chooses HttpResponse, Frames or a Json module

`Pipeline` thus never runs the two-thread detail of an aggregator: that an
aggregator is a `TickSource` is a theorem, and the pipeline starts from there.

### Aggregator

*Trades.*  A trade is its arrival number: larger means newer.  Its price and time matter to
no property; what matters is which trade it is, or that it is none (`Garbage`).

*Atomicity.*  The Makefile compiles with no optimisation, so each expression does its
loads and stores in program order, and a step is what lies between two accesses
to what the other thread writes:

| action | code |
|---|---|
| `Recv(n)` | `receiver.recv`, `json::parse`, the loop over `data` (l.150-161) |
| `CheckFull` | the test of `push` (l.38): drop, or go on |
| `PushBack`, `Repoint` | `push_back` (l.39): construct the element; on growth the old block is freed (`live`) before the begin pointer (`storage`) follows |
| `Publish` | `end = (end + 1) % size` (l.40) |
| `LoadIndex`, `LoadBase`, `CopyElement` | l.30: `end`, the begin pointer, the element |
| `LoadEnd`, `StoreStart` | l.31: `end` again, then `start` |
| `Send` | l.57-76; enabled below the high-water mark |
| `Wake` | `sleep_until` (l.77) returns |
| `AlignerRecv`, `ClockTick` | the environment |

*Undefined behaviour.*  Reading an element that was never constructed gives `Garbage`;
reading through a pointer to a freed block gives the old element or `Garbage`
(free may or may not have overwritten it).  A garbage float may be
a NaN or an infinity, which the JSON library writes as `null` (`include/json.hpp:8710`): `Dumped`.

*History variables.*  `seen`, `taking`, `collected` record, in trades published, what the
modular indices stood for when they were read.  No guard reads them.

*Simplifications.*  (1) The element is copied in one step; its price is one aligned 4-byte
load and the model looks at nothing else of it.  (2) Memory is sequentially consistent.  On x86-64 stores become
visible in program order but possibly late.  A late store only makes the other thread's load earlier in
the interleaving, unless both threads load before their own earlier stores are visible; the
consumer cannot, since between its store to `start` and its next load of `end` it goes through
`send`, whose queue uses locked instructions, and `sleep_until`.
(3) The clock advances and is never set back.  (4) `size` is the constructor's argument,
not 1000: the theorems hold for every size.  (5) A BITMEX message that lacks
a price inside `data` is not modelled; a BINANCE message without one is.

### Aligner

`Arrive(c, p)` is the next tick of process `c` reaching the aligner's queue; `RecvTick(c)`
is l.53-76 for the oldest message of that connection; `SendAligned` is l.77-99, split from it because `send` may
block there; `StrategyConnect` and `StrategyRecv` are the script.  The operations on `tickMap`
are operators (`Emplace`, `SetPrice`, `Complete`, `Erase`).
A tick with a `null` price makes the conversion to float throw (`include/json.hpp:1139`)
and nothing catches it: `pc = "terminated"`, the map is gone.

A *pipe* is one aggregator process's connection, with one FIFO queue for everything
between the two `send`/`recv` calls.  `IdOf` says which exchange it is of.
The price of pipe `c` at `T` is the pair `<<c, T>>`, so a delivered price says by
whom and for when it was taken.

### Pipeline

The unit of time is the interval.  `StartAggregator(c)` gives `c` its first stamp, `now + 1`, as
`get_closest_tp` does; `SendTick` sends the first tick at once and the others when
they are due.  `StopAggregator`, `StopAligner`, `StopStrategy` are `make stop`, `kill` or a crash.
What is lost then follows where the messages are: a stopped aggregator loses some of the newest ticks of its
pipe (`Prefixes`), a stopped aligner some of the oldest of the pipes of running aggregators
(`Suffixes`; they were in its receive buffers), all those of aggregators that
have gone, its map, and some of the newest pairs it had sent.  Two aggregators of one
exchange do not run together, because both bind the same port.  A restarted
aggregator is a new pipe.

### Connection and Provider

`Complete(op, r)`: an operation completes and its handler is queued with the result `r`; `Expire(t)`: a timer expires and is
queued.  Both happen between handlers only, as asio's loop has one thread.  A handler is an action that needs its name at the head of
`ready`.  `TooLate` is the branch `is_neg(timer->expires_from_now())` of the transport: the handler of an
operation whose timer has expired does nothing and leaves the failure to the timer's.
`handle_read_frame` sets `pc = "frames"`; then one action per frame (`DataMessage`, `pong`, `send_close_ack`, ...) until
`read_frame` issues the next read.  `terminate`, `send_close_frame`, `StartWrite` are operators of that name in the code.

| variable | code |
|---|---|
| `state`, `istate`, `hsTimer` | `m_state`, `m_internal_state`, `m_handshake_timer` |
| `sendQ`, `current`, `writeFlag` | `m_send_queue`, `m_current_msgs`, `m_write_flag` |
| `pending`, `cancelled`, `timer`, `ready` | asio |
| `stream`, `used`, `received`, `wire` | frames read, consumed, delivered, written |
| `why`, `ended` | the `terminate_status` each shutdown is bound to; the end handlers called |

*Refused extensions.*  When `negotiate_extensions` fails, `handle_read_http_response` calls `terminate` and goes on: `NegotiationFails` starts the shutdown
of the transport, bound to "failed", and leaves the connection open, with the frames of the read still to be consumed.  Its next end calls `terminate` again, which finds it not closed:
hence two shutdowns, each with a timer (`shutdown1`, `stop1` and `shutdown2`, `stop2`), and two reports.  `terminate` is thus an operator in two parts: `Terminated` is all it does
but for the state that the handler leaves.  `Session` names this departure (`Refuse`, `TellRefused`), so that it promises what it did of every other connection; that it should not be
is what `opens_or_fails` shows.  A shutdown that completes is `"done"`, with or without an error, since only the log tells the two apart.

*Abstracted.*  `m_ec` and the error codes, which reach nothing but the log here; close codes, reasons and `m_was_clean`; SNI failure, proxies, extensions, the server's role, the ping timer, pausing,
the empty handling of a pong.  `read_frame` delivers whole frames, which is what `ImplementsReader` justifies.
Connecting tries one address.  In `Provider`, what happens after `terminate` called by an exception is the end of the process.

### Codec

*The server* may send anything.  In `Frames` a frame is chosen when `consume` looks at its first byte, although the bytes may
have been read earlier: what a byte says is not asked before, so no choice is lost.
Sizes are scaled: `Basic`, `Extended`, `MaxMessage`, `MaxHeader`, `Room` stand for 125, 65535, 32000000, 16000 and 512.
After an error nothing more is modelled of a stage: the connection closes, the parser throws.

*`HttpResponse`.*  A line is "status", "header", "length" or "bad": `process` and `process_header` are abstracted to whether
they accept it.  The two bytes of a line's end, and a lone `CR`, are bytes.
`TooLarge`, `OutOfBytes`, `Line` and `BlankLine` are the four ways through the loop of `consume`.

*`Frames`.*  `m_state` and `m_bytes_needed` are the code's; `Share` is `min(m_bytes_needed, len - p)`.
The validator is `utf8` of the message, one for data and one for control.

*`JsonStrings`.*  One symbol at a time goes to the validator, to `scan_string` and, as soon as it has added bytes, to `dump_escaped`, so strings
have no bound on their length.  An escape `\uXXXX` is one symbol, `get_codepoint` its value.  `lex.ranges` is what `next_byte_in_range` has still to check.

*`JsonNumbers`.*  `number.at` is the label of `scan_number`.  `Converted` is what follows `scan_number_done`, with integers
up to `UnsignedMax` and down to `-IntegerLimit`; `strtof` and `%g` are not modelled.

*`JsonValues`.*  `parse_internal` calls itself; its frames are `parser.inside`.  `true`, `false` and `null` are accepted and written like strings, and are
left out.  A number is one of four literals: zero, any other, a zero with a minus sign, which an integer does not keep, and one that no double holds, for which
`parse_internal` throws.  Which of the three types a number has is `JsonNumbers`' concern: here nothing depends on it.
An object is a function on all names, `Nothing` where it has no member.  `Written[n]` is `dump`, for values less than `n` deep; the properties
take for `n` the number of tokens read, more than the depth of any value they make.  `Texts` is the grammar, as the texts that a number of its steps make:
`IsValue` allows as many as the text has tokens.

## 3. Runs

The longest, `aggregator`, `connection` and `provider`, take two to three minutes with two workers.  `CHECK_DEADLOCK FALSE` in every
configuration: the models stop at the bounds on trades, stamps, clock, frames and bytes, and a connection that has ended stays so.

| run | what it shows |
|---|---|
| `aggregator` | every interleaving of `push` and `exec`: types, `RingInv`, `ClosingIsLatest`, `GarbageCauses`, `StampsOnGrid`, `NotBeforeStamp`; for both builds, termination included, `Aggregator` implements `TradeWindow` and `TickSource`; and a late consumer thread catches up with the clock, `TicksKeepUp` |
| `aligner` | every order of arrival: types, `UnmatchedInv`, `PricesOfOneInstant`, `ImplementsJoin`; what both have sent is delivered, `JoinedEventually` |
| `pipeline_restarts` | two processes per exchange, aligner replaced up to twice: `RedeliveryNeedsRestarts`, `OrderWithinProcesses`, `PricesOfOneInstant` |
| `pipeline_live` | `EveryCommonTickDelivered`, through back-pressure and an absent strategy |
| `connection` | every order of completions, expiries and frames: types, `EndedOnce`, `OneAtATime`, `Watched`, `Answered`, `CloseIsLast`; and `KeepsPromise`, the refinement of `Session` with its liveness; all of it also for a connection that is terminated and opens all the same |
| `provider` | `FeedInOrder`, `ThrowsOnNoise`, `LoopReleased` with an aggregator that is not there, comes and is stopped |
| `codec` | the five stages: `FramesFollowHeader`, `HeaderBounded`; `ImplementsReader`, `ReadsEnd`; `SameText`, `Writable`, `RoundTrip`, `BufferHolds`; `NumbersFollowGrammar`, `IntegersForwarded`; `AcceptsGrammar`, `Forwarded` |
| `closing_price`, `price_is_a_trade`, `connection_stays`, `opens_or_fails`, `texts_end_whole` | five statements of the comments that the code does not keep (section 6) |

*Bounds.*
- `Size = 3`, the smallest ring that can be empty, part full and full.  With `MaxTrades = 6` the
  indices wrap twice and the vector is reallocated (at 3 and at 6 elements); 5 trades still wrap and reallocate.
- `MaxBatch = 2`: a BITMEX message with none, one and several trades.
- `Interval = 2`, `MaxNow = 6`: a start on and off the grid; three intervals, so the consumer can be two ticks late.
- `Hwm = 1` or `2`: every queue gets full, and with 2 also holds more than one message.
- `MaxStamp`: 4 in `aligner`, so that the two streams can be three stamps apart and start apart;
  2 with restarts, where a stamp can be repeated (1, 1) and go back (2, 1); 3 for liveness.
- `pipeline_restarts`: two processes per exchange (one hand-over each), at most two aggregators
  stopped and two aligners replaced.  The two processes of an exchange are interchangeable: symmetry.  The
  strategy does not leave in that run, since its leaving touches no price; it leaves up to twice in `pipeline_live`.
- `connection`: `MaxFrames = 2` frames of the six kinds, alone or in one read (`MaxBatch = 2`), behind the answer or in a read of their own: every
  pair of a frame and what may follow it.  Of a server whose extensions were refused, `MaxRefused = 1` frame, which is enough for each kind of
  frame between the two ends: the two shutdowns and their timers multiply the orders.  `MaxCloses = 2` close frames, as many as there are close timers; the theorems of
  `ProviderProofs` hold for any `MaxFrames`, `MaxRefused` and `MaxBatch`.
- `provider`: `Hwm = 1`, so that the second message finds the pipe full; one stop of the aggregator.  `MaxRefused = 0`: what a server sends whose
  extensions were refused is left to `connection` and, as a feed, to `FeedIsComplete`, which holds for any number.  `MaxBatch = 1`: each message comes in a read of
  its own or, the first, behind the answer; several frames in one read are left to `connection`, and the theorems hold for any `MaxBatch`.
- `codec`, answers: four lines are a status, two headers and a blank line, or an early blank line, or a bad line; `MaxChunk = 4` holds the end of a line, a blank line and
  frames behind it, `MaxHeader = 20` lets most answers pass and refuses some.
- `codec`, frames: `MaxPayload = 3` has payloads of each length form (`Basic = 1`, `Extended = 2`), a character of two bytes cut anywhere, and messages over
  `MaxMessage = 3` in one frame and in several.  The number of frames has no bound.  `MaxRead = 4` ends inside every header and holds several frames.
- `texts_end_whole`: the two bytes of one character, payloads and messages of up to two bytes.
- `codec`, strings: 35 bytes and 20 code points, those on both sides of every boundary the code draws; `Room = 15` fills after every few characters, `Room >= 13` is what the code's comment relies on.
- `codec`, numbers: `MaxLength = 6` reaches each label and what follows it; `UnsignedMax = 63` and `IntegerLimit = 32`, integers of six bits, put the limits of both types among numbers of two digits.
- `codec`, values: `MaxTokens = 10`: objects in arrays and arrays in objects, two members of one name.

*Fairness.*  `Aggregator!FairSpec`: each thread is scheduled (weak fairness of `Main` and of `Consumer`), time
passes, and the aligner receives.  Trades may stop at any time: none on `Recv`.
`Aligner!FairSpec`: the loop runs, and the PULL socket queues its
connections fairly, hence fairness per pipe (zmq_socket(3): "fair-queued"); the strategy is eventually there
and receives.  Aggregators may fall silent: none on `Arrive`.
`PipelineFairSpec`: the same for every running process.  No fairness on a start, a stop or a
restart: the code has nothing that restarts a process.
`Connection!FairSpec`: the loop runs handlers, timers expire, a cancelled operation completes with an error (asio), the resolver gives up
in the end.  Nothing is asked of the server.  `ReadingSpec`, for the violation only, adds a server that accepts what is written: even then `run` does not return.
`ProviderFairSpec`: handlers run; an aggregator is there in the end (weak on its start) and receives (strong, because it may be stopped between).
`CodecFairSpec`: `consume` and its caller run on the bytes they have; no fairness on reads.

*Liveness is conditional on survival.*  One NaN read before the first trade ends the
aligner: `JoinedEventually` excuses a terminated aligner, `TicksKeepUp` a terminated aggregator,
`EveryCommonTickDelivered` any of the two.  Nothing stronger is true of the code.

## 4. Proofs

All are checked by TLAPS for every value of the constants; none uses a bound.

`AggregatorProofs`, from `AggregatorAssumption` (`Size` at least 2, a positive
interval and high-water mark):

| theorem | statement |
|---|---|
| `TypeCorrect` | `Spec => []TypeOK` |
| `RingUnambiguous` | `Spec => []RingInv` |
| `ClosingCorrect` | `Spec => []ClosingIsLatest` |
| `GarbageOnlyThen` | `Spec => []GarbageCauses` |
| `RingImplementsWindow` | `Spec => ImplementsWindow` |
| `StampsAligned` | `Spec => []StampsOnGrid` |
| `NeverEarly` | `Spec => []NotBeforeStamp` |
| `ProcessIsTickSource` | `Spec => ImplementsTickSource` |

*The argument.*  `RingInv` says that `start` and `end` are two counts modulo `Size`, less than `Size`
apart.  It is not inductive: `push` tests with one value of `start` and acts when `exec`
may have stored another, and `exec` stores a value of `end` it read earlier.  `RoomInv` says that between its test and its
store `push` has room, which survives because `exec` only ever
shrinks the distance; `TakeInv` says that the value about to be stored in `start` stands for a count
between the last one collected and what is published.  `RingInd` joins them with the
types.  The arithmetic is in six lemmas (`ModRange` to `FullMeansFull`): the
test for full, on remainders, is the test on counts.

`ReadInd` adds what `exec`'s read needs: its index comes from the count at its first
load (`SeenInv`), and the block changes only once more than `Size` trades were stored (`HeapInv`).  `WindowInd` adds that the queue
holds trades, for the refinement of `TradeWindow`: the log is the published part of the vector, the drops are the arrived trades neither
published nor waiting in the batch.  `StampInd` adds the grid of stamps and `NotBeforeStamp`, for the refinement of `TickSource`.

`PipelineProofs`, of the aligner, from `AlignerAssumption`:

| theorem | statement |
|---|---|
| `PricesAligned` | `Spec => [](TypeOK /\ PricesOfOneInstant)`, for any number of processes per exchange |
| `AlignerTyped` | `Spec => []TypeOK` |
| `MapIsUnmatched` | `OnePipePerSource` implies `Spec => []UnmatchedInv` |
| `AlignerJoins` | `OnePipePerSource` implies `Spec => ImplementsJoin` |

*The argument.*  `PricesOfOneInstant` follows the price from the channel (`ChanInv`) into the
map (`MapInv`) to the send (`SendInv`).  `UnmatchedInv` is the domain of the map only; inductive is `MatchInv`, which says of
each slot of each entry whether its source has sent the stamp, and
that the ticks in a channel carry the stamps just after the received ones.  It needs one process per exchange
(`OnePipePerSource`): with two, a second price overwrites the first, or opens an entry that never closes.
`AlignerJoins` adds `ToldInv`: what both sources have sent is delivered, but for the stamp at the send, which is the latest of them; hence
the order, and that no stamp is passed over.  `TickJoin` has the sequence of the stamps that were sent, not their set: a stamp that is sent again is a step the join does not have.  `RecvTick` is the join's `Receive`, `SendAligned` its `Deliver`, the other actions stutter.

`PipelineProofs` also, of the pipeline, from the same assumption, for any number of processes, stops and restarts:

| theorem | statement |
|---|---|
| `RestartsKeepPrices` | `PipelineSpec => [](TypeOK /\ PricesOfOneInstant)` |
| `RestartsKeepOrder` | `PipelineSpec => []OrderWithinProcesses` |
| `RedeliveryExplained` | `PipelineSpec => []RedeliveryNeedsRestarts` |

*The argument.*  Whatever a stop loses of a queue, the rest is a contiguous part of it (`Cut`), so the ticks of a pipe stay in order (`FlowInv`).
A price that has left its pipe cannot come again: it is `Spent`, and what the map holds or was delivered is spent (`UsedInv`).
`MayFollow` says of two pairs what the order asks: no price in both, and of the same two processes the later one has the
larger stamp.  It holds between the delivered pairs (`MetInv`), and, so that it survives the send, between them and what waits in the map (`PairInv`).
`LifeInv` orders the lives of the processes of one exchange: the earlier one sent nothing from the later one's first stamp on, but for its own first
tick, which it sends ahead of time.  A stamp delivered twice took, at each exchange, prices of two processes, and by `LifeInv` it was the first stamp of both.

`ProviderProofs`, from `ConnectionAssumption`, for any number of frames and any size of a read:

| theorem | statement |
|---|---|
| `ConnectionTyped` | `Spec => []TypeOK` |
| `ConnectionEndsOnce` | `Spec => []EndedOnce` |
| `ConnectionOneAtATime` | `Spec => []OneAtATime` |
| `ConnectionWatched` | `Spec => []Watched` |
| `ConnectionClosesLast` | `Spec => []CloseIsLast` |
| `ConnectionAnswers` | `Spec => []Answered` |
| `ConnectionSession` | `Spec => S!SessionSafe` |

*The argument.*  `OneAtATime` is not inductive: that a read is not issued twice depends on which handlers may still come.  `Exclusive` ties each operation to the one
`m_internal_state` in which it may be outstanding (`Stage`).  `Phases` says which shutdowns each state has behind it, two only of a connection whose extensions were refused.  `EndedOnce` needs `Ending`, which counts, for each of the two shutdowns, how its end may still come: while its timer
is armed the shutdown is outstanding or queued, and once it has expired only the timer's handler reports.
`Inv` joins them with `Writing`, `Watched` and the types; it has one step per action.
For `CloseIsLast`, `SentInv` follows the messages through the three places they pass, `sendQ`, `current` and `wire`: each is in order, and once one holds a
close frame those behind it hold nothing else; while the connection is open there is none anywhere.
`Answered` counts: the pongs in the three places against the pings consumed, and the texts delivered against the texts consumed before the first frame that
ends the open state.  The counts are cardinalities of sets of positions (`Upto`, `PongsIn`), which a step changes by one position at most (`UptoNext`,
`PongsAppend`, `PongsWithout`).  Frames that come after the open state has ended are consumed and not answered, so the inductive form, `AnsweredUpto(n)`, has the number of frames consumed until then
as a parameter; it is `used` while the connection is open.

`ProviderProofs` also, from `ConnectionAssumption` and `ProviderAssumption`, for any pipe and any number of stops of the aggregator:

| theorem | statement |
|---|---|
| `NoiseIsFatal` | `ProviderSpec => []ThrowsOnNoise` |
| `FeedIsComplete` | `ProviderSpec => []FeedInOrder` |

*The argument.*  The handlers of `Connection` other than the program's own only consume frames and grow the stream (`Quiet`), so positions keep their meaning
(`StreamInv`).  What arrived and what waits in the pipe are rising positions of JSON messages, the first below the second (`FeedInv`); that is also why
what the pipe loses when the handler throws is newer than all that had arrived (`NextCompletes`).

`ReadingProofs`, from `ResponseAssumption`, for any answer, limit and sizes of the reads; and from `FramesAssumption` and `NoneAssumption`
(no message and no frame is `None`), for any payloads and limits:

| theorem | statement |
|---|---|
| `ResponseInvariant` | `ResponseSpec => []ResponseInv` |
| `FramesFollow` | `ResponseSpec => []FramesFollowHeader` |
| `HeaderLimit` | `ResponseSpec => []HeaderBounded` |
| `FramesReadWhole` | `FramesSpec => ImplementsReader` |

*The argument.*  Of the answer, `BufferInv` says that `m_buf` is the end of what has arrived and begins with a line, so what `consume` finds in it stands
where it stands in the answer; `PassedInv`, that none of the lines passed was blank, that they gave the length that is kept, and that `m_header_bytes` counts at least their
bytes.  Without the first, a blank line cut by a read could be taken a line too late; without the last, the limit says nothing of the header.
Of the frames, `Frames` has `m_bytes_needed` where `FrameReader` takes a frame at once, so the invariant says what a part of a frame is: a message is the
one begun (`prior`) and the first `Done` bytes of the payload (`PartInv`), the validator has seen these bytes and no others (`DataInv`), and a frame whose header is
behind the processor passed its checks (`HeaderInv`), which is what the whole-frame reader tests when the last byte comes.  Where the code tests less, a text in fragments, the reader has `UnevenEnd`.  Every step but the last of a frame is a stutter.

`JsonStringsProofs`, from `StringsAssumption` (`Room` at least 13), for every byte and code point and strings of any length:

| theorem | statement |
|---|---|
| `StringsSame` | `StringsSpec => []SameText` |
| `StringsWritable` | `StringsSpec => []Writable` |
| `StringsRoundTrip` | `StringsSpec => []RoundTrip` |
| `BufferNeverOverrun` | `StringsSpec => []BufferHolds` |

*The argument.*  `SameText` is inductive with the types of the lexer and the validator.  The lemmas follow a character: `Lead`, that the first byte gives the lexer the
ranges that belong to the state of the table; `Follow`, that a next byte is in the range exactly if the table accepts it, and leads to the ranges of the
next state; the escapes are ASCII, so the table does not move (`Ascii`).
The others are not inductive, because they say nothing of the middle of a character, where the serializer's decoder, its buffer and a lexer that
would read it again must agree.  `OutInv` (`Carried`) says what is written there.  In a character of several bytes (`Raw`): the bytes read, as they are, and a lexer that reads
them again would wait for the same rest (`Inside`).  Between characters (`Echo`): a text that is read as what was read, escaped or not.
Two conjuncts are there for the induction alone.  `Least` bounds the code point from below by the state of the table: without it a long form of an ASCII character would reach
the escapes, and be written with a length of its own.  `Begun` counts the bytes of the character in the buffer: a flush leaves room for 13 bytes when a character
begins, not at each of its bytes.

`JsonNumbersProofs`, from `NumbersAssumption`, for every text and whatever `UnsignedMax` and `IntegerLimit` are:

| theorem | statement |
|---|---|
| `NumbersGrammar` | `NumbersSpec => []NumbersFollowGrammar` |
| `NumbersForwarded` | `NumbersSpec => []IntegersForwarded` |

*The argument.*  `RestAt` says, for each label of `scan_number`, what the bytes from there on must be to make a number of the whole text.  It is defined over the text,
without the scanner; `GrammarAt` shows that at the first label it is the grammar, part by part, and `RestStep` that a byte leads to the label of what is then missing, or to none
if no text goes on so.  The invariant (`Follows`) asks this of every text that begins with the bytes read, not of the bytes read alone: only so does the failure at a byte
mean that no longer text is a number (`Hopeless`).
For the integers, `Shape` says of each label what the token is: nothing, a sign, a zero, or the digits of a positive number `v` (`Whole`) exactly as `dump_integer` would
write them, with the value `v`.  So what is written is what was read, and the second scanner goes the way of the first (`Replays`).  `PeelsExists` shows that the recursion of
`Digits`, which divides by ten, has a solution.

`JsonValuesProofs`, from `ValuesAssumption`, for any names, texts of any length and values of any depth:

| theorem | statement |
|---|---|
| `ValuesGrammar` | `ValuesSpec => []AcceptsGrammar` |
| `ValuesForwarded` | `ValuesSpec => []Forwarded` |

*The argument.*  Each direction of `AcceptsGrammar` goes by what its side is built from.  That the texts of the grammar are accepted is an induction on its steps (`TextsTaken`): a text of one step more is read, inside
whatever containers the parser is in, as one value that it then passes to them (`Taken`).  That no others are is the invariant `Sound`, by the stack: every open container has its
bracket in the text, behind it what is complete of its elements or members (`Precedes`), and behind that the next bracket; where the parser is says what the innermost lacks (`Part`).  Closing a
container turns its part of the text into a value of the grammar, one step later than its parts and longer by its brackets; as further steps of the grammar only add texts (`TextsGrow`), the number of tokens is steps enough.
`Sound` has the contents of the containers as well, values nested no deeper than the text is long, so that `dump` is defined for what was parsed.
For `Forwarded`, `WrittenReturns` is an induction on the levels of a value: what `dump` writes of it is read as that value, in any containers (`Returns`).  An array is read element by element
(`ElementsState`), an object member by member: after the first `n` names, in the order of `std::map`, the container has the members of these names and no other (`FirstMembers`), so each `emplace` finds its
name free.  That the first of several members of one name is kept happens only in the first parser; there `Inserted` drops the later ones.
`Values` and `Written` have no set to take their values from, so that their equations do not follow from `FunctionByInduction`: the lemmas before `ValuesStep` and `WrittenStep` build them level by level (`Nests`, `Writes`).

`Utf8Proofs` has no run of its own: the lemmas on the UTF-8 table, and an induction these provers can apply.  The library's induction takes an
operator; `SetInduction` takes the set of the numbers that have the property, and rests on the library's `WFMin`.  `FunctionByInduction` is that a recursive function on the natural numbers exists.
What a fold over bytes does with one byte more follows from the two (`DecodedSteps`, and, where a fold is only ever extended, from `SetInduction` alone: `ScansMore`, `ReadsMore`).

## 5. What is only model-checked, and what is not modelled

*Only model-checked:*
- the liveness properties, and nothing else; they are outside the prover: `TicksKeepUp`, `JoinedEventually`, `EveryCommonTickDelivered`, `LoopReleased`, `ReadsEnd` and
  the liveness of `KeepsPromise`.

Every invariant that a run checks, and every refinement but for its liveness, is a theorem.

The theorems about the codecs are about the specification of each stage (`ResponseSpec`, `FramesSpec`, `StringsSpec`, `NumbersSpec`); `Codec`, which the run checks, chooses one of them.

*Not modelled:*
- TLS verification (`verify_*`): a pure function of OpenSSL's answers, and most of it commented out;
- the prototype queue: its `main` runs `push` alone, no thread runs `exec`, prices are not stored and `next_ts` is never set, so there is no behaviour of the two to check;
- the strategy's discarded first message: no property tells a receiver's first message from the others;
- parsing of prices and timestamps, and the arithmetic of floats (`strtof`, `%g`): no control depends on them;
- memory exhaustion by a vector that is never emptied, and by stamps only one exchange sends;
- clocks set back; ZeroMQ's reconnection protocol, beyond what is lost when a process ends;
- of websocketpp: server roles, the other transports (iostream, debug, stub), the old protocols (hybi00, 07, 08), extensions, the writing of frames, URI and header parsing;
- of nlohmann json: everything but lexing, parsing and dumping;
- fmt: formatting without state.

The mapped lines are a small share of the repository because most of its 50000 lines are vendored headers the four programs never call: json.hpp alone
is 17000 lines, of which about 1000 run here.

## 6. Where the code departs from its comments

1. `closing_price`.  `aggregator.cpp:29` says "return closing price".  `push` appends to the vector, and
   never overwrites, while the indices wrap at `size`: after `size` accepted trades (1000), `exec` reads one of the oldest trades, for ever.
2. `price_is_a_trade`.  The consumer thread runs `exec` as it starts; with no trade pushed, `exec` reads reserved and
   never constructed memory and sends it as a price.  If it is not finite, the aligner receives `null` and ends.
3. `connection_stays`.  `provider.cpp:249-250` says "c.run() will exit when this connection is closed".  `terminate` shuts TLS down and leaves the socket
   open: a read that is outstanding or issued again keeps `run` from returning while the server stays connected.
4. `opens_or_fails`.  `connection.hpp:54-55` and `74-75` say "Either the fail handler or the open handler will be called for each WebSocket connection attempt", and
   `connection_impl.hpp:1620-1621` that connections that fail extension negotiation are killed.  The call of `terminate` there (line 1628) is not followed by a return: the
   connection opens, the open handler is called and frames are delivered, while the transport is shut down and the fail handler is on its way.
5. `texts_end_whole`.  `hybi13.hpp:536` says "ensure that text messages end on a valid UTF8 code point".  The test below it asks the opcode of the last frame, so a text
   in fragments may end inside a character.  In `FrameReader`, `Taken` is the requirement and `UnevenEnd` this departure from it.

Seen while modelling, and not given a run:
- the timer of the opening handshake may be queued when the answer is handled; its handler then ends a connection that is open, which
  `connection.hpp:488-489` does not foresee (`Session` lets an open connection close);
- `terminate` stores its error before it tests whether the connection is closed, so `get_ec` (`connection.hpp:1248-1256`) may give a later error than the reason of the end;
- `http/response.hpp:70-72` says that what `consume` leaves unprocessed are the bytes "after the final header delimiters".  With a Content-Length header it also takes what
  came of the body in that read, and the answer is ready: what comes of the body in a later read is read as frames.  `FramesFollowHeader` says which bytes these are (`BodyArrived`);
- the table of `scan_number` (`json.hpp:2528`) has `[error]` for a digit 1-9 behind the point; the code goes on, as RFC 7159, which the comment
  names as its source, demands ("0.2" is a number).  `NumbersFollowGrammar` is about the grammar, and holds of the code; it does not hold of the table;
- `exec` loads `end` once for the price and again for `start`: a trade pushed in between counts as collected by an `exec` that returned an older one.  It is not lost, since the next `exec` reads
  at `end - 1` again and not at `start`;
- `m_header_bytes` counts `sizeof(header_delimiter)`, three, for each line, and again with each read that ends inside one: a header below the limit may be refused if it comes in many reads;
- a zero byte ends a JSON text, and what follows it is ignored;
- of several members of one name the first is kept; `-0` loses its sign.

## 7. Plan

Done: the ring and its thread, the aligner, the pipeline with restarts, the provider with its connection and event loop, the codecs, their abstract specifications,
and the proofs above.

What would say more about the code, in this order:

1. `PipelineSpec` with the two threads of an aggregator in place of a `TickSource`, which only a proof can afford: `ProcessIsTickSource` and the theorems of `PipelineProofs` joined in one statement.
2. The strings and numbers of `JsonValues` as the texts of `JsonStrings` and `JsonNumbers`, so that `ValuesForwarded` speaks of bytes.
