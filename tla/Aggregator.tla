----------------------------- MODULE Aggregator -----------------------------
(***************************************************************************)
(* One aggregator process (aggregator.cpp): the main thread receives trade *)
(* messages and pushes their trades into a CircularQueue; the consumer     *)
(* thread (send_every) calls exec once per interval and sends the closing  *)
(* price to the aligner.  The two threads share start, end and the vector  *)
(* `queue` with no lock -- the mutex m is declared and never taken -- so a *)
(* call is split at each load and store of what the other thread writes,   *)
(* in program order: the Makefile compiles without optimisation.           *)
(*                                                                         *)
(* A trade is its arrival number, so a larger number is a newer trade.     *)
(***************************************************************************)
EXTENDS Integers, Sequences

CONSTANTS
  Exchanges, \* the builds considered: the -D macro, "BINANCE" or "BITMEX"
  Size,      \* capacity given to the constructor (1000 in main)
  Interval,  \* aggregation interval, in clock units
  Hwm,       \* high-water mark of the PUSH socket to the aligner
  Garbage,   \* the content of memory the program never wrote, or freed
  Null,      \* the JSON null that dump() writes for a price that is not finite
  MaxTrades, MaxBatch, MaxNow   \* bounds: trades, trades per message, clock

ASSUME AggregatorAssumption ==
  /\ Exchanges \subseteq {"BINANCE", "BITMEX"}
  /\ Size \in Nat \ {0, 1}
  /\ Interval \in Nat \ {0}
  /\ Hwm \in Nat \ {0}
  /\ MaxTrades \in Nat /\ MaxBatch \in Nat /\ MaxNow \in Nat
  /\ Garbage \notin Nat /\ Null \notin Nat /\ Garbage # Null

VARIABLES
  exchange,   \* the build this process runs
  now,        \* std::chrono::system_clock
  mpc, batch, \* main thread: program point, trades of the message still to push
  arrived,    \* trades received so far; the number of the newest one
  queue, cap, \* the std::vector: its elements and its capacity
  storage,    \* the block its begin pointer designates ...
  live,       \* ... and the block that is allocated
  start, end, \* indices of the CircularQueue
  cpc, idx, base, closing, newStart, nextStart, \* consumer thread
  out,        \* ticks sent to the aligner and not yet received by it
  t0,         \* the first nextStartTime, given to the thread by main
  seen, taking, collected  \* history: trades published when exec read `end`
                           \* for its index, when it read it again, and at
                           \* its last store to `start`

mainVars == <<mpc, batch, arrived>>
heap     == <<queue, cap, storage, live>>
execVars == <<idx, base, closing, newStart, seen, taking>>
vars     == <<now, mainVars, heap, start, end, cpc, execVars, nextStart, out,
              t0, exchange, collected>>

Trades == 1 .. MaxTrades
Prices == Trades \cup {Garbage, Null}
Tick   == [T : Nat, p : Nat \cup {Garbage, Null}]

\* Trades published: pushed, and `end` moved past them.
Published == IF mpc \in {"repoint", "publish"} THEN Len(queue) - 1 ELSE Len(queue)
Alive     == mpc # "terminated"
-----------------------------------------------------------------------------
(* Index and clock arithmetic. *)

NextEndUnbounded(e) == e + 1
NextEnd(e) == (e + 1) % Size

FullNever(s, e) == FALSE
FullEarly(s, e) == (e + 2) % Size = s
Full(s, e) == NextEnd(e) = s                      \* the test of push, negated

ReadIndexAtEnd(e) == e
ReadIndex(e) == IF e >= 1 THEN e - 1 ELSE 0      \* std::max(end-1, 0)

ClosestUnaligned(t) == t + Interval
ClosestTp(t) == (t - (t % Interval)) + Interval   \* get_closest_tp

\* queue.reserve(size) in the constructor.
ReservedNone == 1
Reserved == Size

\* j["p"] = closing.second; j.dump(): a float that is not finite becomes null.
Dumped(v) == IF v = Garbage THEN {Garbage, Null} ELSE {v}
-----------------------------------------------------------------------------
Init ==
  /\ exchange \in Exchanges
  /\ now \in 0 .. Interval - 1
  /\ mpc = "recv" /\ batch = <<>> /\ arrived = 0
  /\ queue = <<>> /\ cap = Reserved /\ storage = 0 /\ live = 0
  /\ start = 0 /\ end = 0
  /\ cpc = "exec" /\ idx = 0 /\ base = 0 /\ closing = Garbage /\ newStart = 0
  /\ nextStart = ClosestTp(now) /\ t0 = nextStart
  /\ out = <<>>
  /\ seen = 0 /\ taking = 0 /\ collected = 0

(* Main thread *)

\* receiver.recv and json::parse.  A BITMEX message carries any number of
\* trades (none when "data" is missing); a BINANCE message is one trade, and
\* one without a price makes the conversion throw, which nothing catches.
Recv(n) ==
  /\ mpc = "recv"
  /\ arrived + n <= MaxTrades
  /\ exchange = "BINANCE" => n <= 1
  /\ arrived' = arrived + n
  /\ batch' = [i \in 1 .. n |-> arrived + i]
  /\ mpc' = IF n > 0 THEN "check"
            ELSE IF exchange = "BINANCE" THEN "terminated" ELSE "recv"
  /\ UNCHANGED <<now, heap, start, end, cpc, execVars, nextStart, out, t0, exchange,
                 collected>>

\* The head of the batch is done with: the next one, or the next message.
NextTrade == /\ batch' = Tail(batch)
             /\ mpc' = IF Len(batch) = 1 THEN "recv" ELSE "check"

\* push: the load of `start` decides between dropping and storing.
CheckFull ==
  /\ mpc = "check"
  /\ IF Full(start, end)
       THEN NextTrade
       ELSE mpc' = "store" /\ UNCHANGED batch
  /\ UNCHANGED <<now, arrived, heap, start, end, cpc, execVars, nextStart, out, t0,
                 exchange, collected>>

\* push: queue.push_back(elem).  At full capacity the vector moves to a block
\* of twice the size and frees the old one before its begin pointer follows.
PushBack ==
  /\ mpc = "store"
  /\ queue' = Append(queue, Head(batch))
  /\ IF Len(queue) < cap
       THEN mpc' = "publish" /\ UNCHANGED <<cap, live>>
       ELSE mpc' = "repoint" /\ cap' = 2 * cap /\ live' = live + 1
  /\ UNCHANGED <<now, batch, arrived, storage, start, end, cpc, execVars, nextStart,
                 out, t0, exchange, collected>>

Repoint ==
  /\ mpc = "repoint"
  /\ storage' = live
  /\ mpc' = "publish"
  /\ UNCHANGED <<now, batch, arrived, queue, cap, live, start, end, cpc, execVars,
                 nextStart, out, t0, exchange, collected>>

\* push: end = (end + 1) % size.
Publish ==
  /\ mpc = "publish"
  /\ end' = NextEnd(end)
  /\ NextTrade
  /\ UNCHANGED <<now, arrived, heap, start, cpc, execVars, nextStart, out, t0, exchange,
                 collected>>

(* Consumer thread *)

\* exec: std::max(end-1, 0) loads `end` ...
LoadIndex ==
  /\ Alive /\ cpc = "exec"
  /\ idx' = ReadIndex(end)
  /\ seen' = Published
  /\ cpc' = "base"
  /\ UNCHANGED <<now, mainVars, heap, start, end, base, closing, newStart, taking,
                 nextStart, out, t0, exchange, collected>>

\* ... operator[] loads the vector's begin pointer ...
LoadBase ==
  /\ Alive /\ cpc = "base"
  /\ base' = storage
  /\ cpc' = "copy"
  /\ UNCHANGED <<now, mainVars, heap, start, end, idx, closing, newStart, seen,
                 taking, nextStart, out, t0, exchange, collected>>

\* ... and the element is copied.  An element that was never constructed is
\* garbage; one in a block already freed may or may not have been overwritten.
Element == IF idx >= Len(queue) THEN {Garbage}
           ELSE IF base # live THEN {queue[idx + 1], Garbage}
           ELSE {queue[idx + 1]}

CopyElement ==
  /\ Alive /\ cpc = "copy"
  /\ closing' \in Element
  /\ cpc' = "loadEnd"
  /\ UNCHANGED <<now, mainVars, heap, start, end, idx, base, newStart, seen, taking,
                 nextStart, out, t0, exchange, collected>>

\* exec: start = end, a load ...
LoadEnd ==
  /\ Alive /\ cpc = "loadEnd"
  /\ newStart' = end
  /\ taking' = Published
  /\ cpc' = "storeStart"
  /\ UNCHANGED <<now, mainVars, heap, start, end, idx, base, closing, seen, nextStart,
                 out, t0, exchange, collected>>

\* ... and a store.
StoreStart ==
  /\ Alive /\ cpc = "storeStart"
  /\ start' = newStart
  /\ collected' = taking
  /\ cpc' = "send"
  /\ UNCHANGED <<now, mainVars, heap, end, execVars, nextStart, out, t0, exchange>>

NextStampSame(t) == t
NextStamp(t) == t + Interval                      \* nextStartTime += interval

\* send_every: sender.send blocks at the high-water mark.
Send ==
  /\ Alive /\ cpc = "send"
  /\ Len(out) < Hwm
  /\ \E p \in Dumped(closing) : out' = Append(out, [T |-> nextStart, p |-> p])
  /\ nextStart' = NextStamp(nextStart)
  /\ cpc' = "sleep"
  /\ UNCHANGED <<now, mainVars, heap, start, end, execVars, t0, exchange, collected>>

\* sleep_until(nextStartTime) returns at once for a time that has passed.
WakeAnyTime ==
  /\ Alive /\ cpc = "sleep"
  /\ cpc' = "exec"
  /\ UNCHANGED <<now, mainVars, heap, start, end, execVars, nextStart, out, t0, exchange,
                 collected>>
Wake ==
  /\ Alive /\ cpc = "sleep"
  /\ now >= nextStart
  /\ cpc' = "exec"
  /\ UNCHANGED <<now, mainVars, heap, start, end, execVars, nextStart, out, t0, exchange,
                 collected>>

(* Environment: the aligner receives, time passes. *)

AlignerRecv ==
  /\ out # <<>>
  /\ out' = Tail(out)
  /\ UNCHANGED <<now, mainVars, heap, start, end, cpc, execVars, nextStart, t0, exchange,
                 collected>>

ClockTick ==
  /\ now < MaxNow
  /\ now' = now + 1
  /\ UNCHANGED <<mainVars, heap, start, end, cpc, execVars, nextStart, out, t0, exchange,
                 collected>>

Main     == CheckFull \/ PushBack \/ Repoint \/ Publish
Consumer == LoadIndex \/ LoadBase \/ CopyElement \/ LoadEnd \/ StoreStart \/ Send
              \/ Wake
Next == \/ \E n \in 0 .. MaxBatch : Recv(n)
        \/ Main
        \/ Consumer
        \/ AlignerRecv
        \/ ClockTick

Spec == Init /\ [][Next]_vars

\* Both threads are scheduled, the aligner goes on receiving, time passes.  No
\* fairness on Recv: trades may stop.
FairSpec == /\ Spec
            /\ WF_vars(Main)
            /\ WF_vars(Consumer)
            /\ WF_vars(AlignerRecv)
            /\ WF_vars(ClockTick)
-----------------------------------------------------------------------------
\* The shared indices stay inside the ring, a pending closing price is a trade's
\* or the content of unwritten memory, and ticks carry a stamp and a price.
TypeOK ==
  /\ exchange \in Exchanges /\ now \in Nat
  /\ mpc \in {"recv", "check", "store", "repoint", "publish", "terminated"}
  /\ batch \in Seq(Nat)
  /\ arrived \in Nat
  /\ queue \in Seq(Nat)
  /\ cap \in Nat \ {0} /\ storage \in Nat /\ live \in Nat
  /\ start \in 0 .. Size - 1 /\ end \in 0 .. Size - 1
  /\ cpc \in {"exec", "base", "copy", "loadEnd", "storeStart", "send", "sleep"}
  /\ idx \in 0 .. Size - 1 /\ base \in Nat /\ newStart \in 0 .. Size - 1
  /\ closing \in Nat \cup {Garbage}
  /\ nextStart \in Nat /\ t0 \in Nat
  /\ out \in Seq(Tick)
  /\ seen \in Nat /\ taking \in Nat /\ collected \in Nat

\* The modular indices never become ambiguous: `start` and `end` stand for how
\* many trades were collected and published, and the distance between the two
\* counts stays below Size even though each thread acts on a stale copy of the
\* other's index.
RingInv ==
  /\ end = Published % Size
  /\ start = collected % Size
  /\ collected <= Published
  /\ Published - collected < Size

\* Program points at which the price copied by exec is pending.
Holding == cpc \in {"loadEnd", "storeStart", "send"}

\* Until Size trades have been published, the price exec returns is the newest
\* trade published when it looked, whatever main pushes meanwhile -- unless the
\* vector was reallocated under it.
ClosingIsLatest ==
  (Holding /\ seen > 0 /\ seen < Size /\ base = live) => closing = queue[seen]

\* A garbage price has two possible causes only: exec ran before the first
\* trade was published, or push_back outgrew the reserved capacity and freed
\* the block exec was reading.
GarbageCauses ==
  (Holding /\ closing = Garbage) => seen = 0 \/ Len(queue) > Size

\* Ticks waiting for the aligner carry consecutive multiples of the interval,
\* up to the one before nextStartTime.
StampsOnGrid ==
  \A i \in 1 .. Len(out) :
    /\ out[i].T % Interval = 0
    /\ out[i].T = nextStart - Interval * (Len(out) + 1 - i)

\* No tick but the first is sampled before the time it is stamped with.
NotBeforeStamp ==
  (cpc # "sleep" /\ nextStart # t0) => now >= nextStart

\* The counter-based window, with the refused trades counted from the batch.
Window == INSTANCE TradeWindow WITH
            Capacity <- Size - 1,
            log      <- [i \in 1 .. Published |-> queue[i]],
            dropped  <- (arrived - Len(batch)) - Published
\* push and exec, running concurrently on modular indices, implement a window of
\* Size - 1 trades: a trade is refused exactly when the window is full, and
\* exec collects only what was published.
ImplementsWindow == Window!Spec

\* The tick stream the pipeline is composed of, as this process plays it.
Source == INSTANCE TickSource WITH next <- nextStart, up <- Alive
\* What send_every sends, seen from outside the process, is the tick stream of
\* TickSource: consecutive stamps, and only the first ahead of its time.
ImplementsTickSource == Source!Spec

\* The consumer keeps up with the clock: the tick for every instant that has
\* passed is eventually sent, whatever main does, as long as the process lives.
TicksKeepUp ==
  \A t \in 0 .. MaxNow : now >= t ~> (nextStart > t \/ ~Alive)
-----------------------------------------------------------------------------
(* What the comments of the code say, and the code does not do. *)

\* aggregator.cpp:29, "return closing price": the newest trade published.
ExecReturnsClosing ==
  (Holding /\ seen > 0 /\ closing # Garbage) => closing = queue[seen]

\* The same comment: whatever is sent is the price of a trade.
SentPriceIsATrade ==
  \A i \in 1 .. Len(out) : out[i].p \in Trades
=============================================================================
