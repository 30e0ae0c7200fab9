------------------------------ MODULE Aligner ------------------------------
(***************************************************************************)
(* The aligner process (aligner.cpp): one thread that receives the ticks   *)
(* of both aggregators, keeps the half-filled ones in tickMap by stamp,    *)
(* and sends a stamp to the strategy once both prices are set.             *)
(*                                                                         *)
(* Each aggregator process has a connection (pipe) of its own to the PULL  *)
(* socket: messages are in order on a pipe and fairly queued across them.  *)
(* Here every pipe carries consecutive stamps, as TickSource promises; the *)
(* unit of time is the aggregation interval.  The price of pipe c at T is  *)
(* the token <<c, T>>, so that a price tells where and when it was taken.  *)
(***************************************************************************)
EXTENDS Integers, Sequences

CONSTANTS
  Pipes,    \* connections of aggregator processes to the receiver socket
  IdOf,     \* pipe -> 1 (BINANCE) or 2 (BITMEX), the "id" of its ticks
  Null,     \* a price that is not a number
  Unset,    \* p1_set / p2_set is false
  Hwm,      \* high-water mark of a ZeroMQ pipe
  MaxStamp  \* bound: stamps sent

Sources == {1, 2}

ASSUME AlignerAssumption ==
  /\ IdOf \in [Pipes -> Sources]
  /\ Hwm \in Nat \ {0} /\ MaxStamp \in Nat
  /\ Null \notin Pipes \X Nat /\ Unset \notin Pipes \X Nat /\ Null # Unset

VARIABLES
  t0, next,   \* per pipe: its first stamp and the next one to be sent
  chan,       \* per pipe: ticks sent and not yet received
  tickMap,    \* std::map<long long, tick>
  pc, ts,     \* program point, and the stamp of the message being handled
  peer,       \* is a strategy connected to the sender socket?
  out,        \* aligned ticks sent and not yet received by the strategy
  delivered   \* history: every aligned tick sent, in order

sourceVars == <<t0, next>>
mapVars    == <<tickMap, pc, ts>>
downVars   == <<peer, out, delivered>>
alignerVars == <<sourceVars, chan, mapVars, downVars>>

Price == Pipes \X Nat
Entry == [Sources -> Price \cup {Unset}]
Message == [id : Sources, T : Nat, p : Price \cup {Null}]
AlignedTick == [T : Nat, prices : Entry]
EmptyMap == [T \in {} |-> [s \in Sources |-> Unset]]
-----------------------------------------------------------------------------
(* Operations on tickMap. *)

Put(tm, T, e) == [t \in DOMAIN tm \cup {T} |-> IF t = T THEN e ELSE tm[t]]

\* tickMap.emplace(ts, tick()): no effect when the key is there.
EmplaceAnew(tm, T) == Put(tm, T, [s \in Sources |-> Unset])
Emplace(tm, T) == IF T \in DOMAIN tm THEN tm
                  ELSE Put(tm, T, [s \in Sources |-> Unset])

\* id 1 fills p1, any other id fills p2.
Slot(id) == IF id = 1 THEN 1 ELSE 2

\* tickMap[ts].p1 = jmsg["p"]; p1_set = true (or p2).
SetPriceBoth(tm, T, id, p) == [tm EXCEPT ![T] = [s \in Sources |-> p]]
SetPrice(tm, T, id, p) == [tm EXCEPT ![T][Slot(id)] = p]

Complete(e) == \A s \in Sources : e[s] # Unset

\* float p1 = jmsg["p"] throws on null.
ThrowsNever(p) == FALSE
Throws(p) == p = Null

EraseNothing(tm, T) == tm
EraseAll(tm, T) == EmptyMap
Erase(tm, T) == [t \in DOMAIN tm \ {T} |-> tm[t]]
-----------------------------------------------------------------------------
Init ==
  /\ t0 \in [Pipes -> 1 .. MaxStamp]
  /\ next = t0
  /\ chan = [c \in Pipes |-> <<>>]
  /\ tickMap = EmptyMap /\ pc = "recv" /\ ts = 0
  /\ peer = FALSE /\ out = <<>> /\ delivered = <<>>

\* nextStartTime += interval, the interval being the unit.
NextStampSame(T) == T
NextStamp(T) == T + 1

\* An aggregator sends its next tick (see TickSource).
Arrive(c, p) ==
  /\ next[c] <= MaxStamp
  /\ Len(chan[c]) < Hwm
  /\ chan' = [chan EXCEPT ![c] = Append(@, [id |-> IdOf[c], T |-> next[c], p |-> p])]
  /\ next' = [next EXCEPT ![c] = NextStamp(@)]
  /\ UNCHANGED <<t0, mapVars, downVars>>

\* One turn of the loop, up to the send.  Reading a null price as a float
\* throws; nothing catches it and the process, with its map, is gone.
RecvTick(c) ==
  /\ pc = "recv"
  /\ chan[c] # <<>>
  /\ LET m == Head(chan[c])
         filled == SetPrice(Emplace(tickMap, m.T), m.T, m.id, m.p)
     IN  /\ ts' = m.T
         /\ IF Throws(m.p)
              THEN tickMap' = EmptyMap /\ pc' = "terminated"
              ELSE /\ tickMap' = filled
                   /\ pc' = IF Complete(filled[m.T]) THEN "send" ELSE "recv"
  /\ chan' = [chan EXCEPT ![c] = Tail(@)]
  /\ UNCHANGED <<sourceVars, downVars>>

\* Mutant: the stamp stays, and is sent for as long as send succeeds.
SendAgain ==
  /\ pc = "send"
  /\ peer /\ Len(out) < Hwm
  /\ LET aligned == [T |-> ts, prices |-> tickMap[ts]]
     IN  out' = Append(out, aligned) /\ delivered' = Append(delivered, aligned)
  /\ UNCHANGED <<sourceVars, chan, mapVars, peer>>

\* sender.send, then tickMap.erase.  The PUSH socket is bound: without a
\* connected strategy, or at the high-water mark, send blocks.
SendAligned ==
  /\ pc = "send"
  /\ peer /\ Len(out) < Hwm
  /\ LET aligned == [T |-> ts, prices |-> tickMap[ts]]
     IN  /\ out' = Append(out, aligned)
         /\ delivered' = Append(delivered, aligned)
  /\ tickMap' = Erase(tickMap, ts)
  /\ pc' = "recv"
  /\ UNCHANGED <<sourceVars, chan, ts, peer>>

\* The strategy (test_strat.py) connects and receives.
StrategyConnect ==
  /\ ~peer
  /\ peer' = TRUE
  /\ UNCHANGED <<sourceVars, chan, mapVars, out, delivered>>

StrategyRecv ==
  /\ out # <<>>
  /\ out' = Tail(out)
  /\ UNCHANGED <<sourceVars, chan, mapVars, peer, delivered>>

Next == \/ \E c \in Pipes : \E p \in {<<c, next[c]>>, Null} : Arrive(c, p)
        \/ \E c \in Pipes : RecvTick(c)
        \/ SendAligned
        \/ StrategyConnect
        \/ StrategyRecv

Spec == Init /\ [][Next]_alignerVars

\* The loop is scheduled and its socket serves every pipe; a strategy is
\* eventually there and goes on receiving.  Aggregators may fall silent.
FairSpec == /\ Spec
            /\ \A c \in Pipes : WF_alignerVars(RecvTick(c))
            /\ WF_alignerVars(SendAligned)
            /\ WF_alignerVars(StrategyConnect)
            /\ WF_alignerVars(StrategyRecv)
-----------------------------------------------------------------------------
Alive == pc # "terminated"

\* The stamps received so far from pipe c, and from source s.
ReceivedOn(c) == t0[c] .. (next[c] - Len(chan[c])) - 1
Received(s) == UNION {ReceivedOn(c) : c \in {d \in Pipes : IdOf[d] = s}}

\* tickMap holds, under stamps, entries whose slots are unset or hold a price;
\* no null price ever enters the map or an aligned tick.
TypeOK ==
  /\ t0 \in [Pipes -> Nat] /\ next \in [Pipes -> Nat]
  /\ chan \in [Pipes -> Seq(Message)]
  /\ DOMAIN tickMap \subseteq Nat /\ tickMap \in [DOMAIN tickMap -> Entry]
  /\ pc \in {"recv", "send", "terminated"} /\ ts \in Nat
  /\ peer \in BOOLEAN
  /\ out \in Seq(AlignedTick)
  /\ delivered \in Seq(AlignedTick)

\* One aggregator process per exchange, over the whole run.
OnePipePerSource == \A c, d \in Pipes : IdOf[c] = IdOf[d] => c = d

\* Between two messages the map holds exactly the stamps that one source has
\* sent and the other has not: nothing complete is left behind, nothing that
\* still waits is erased -- and a stamp that only one source ever sends stays.
UnmatchedInv ==
  pc = "recv" =>
    DOMAIN tickMap = (Received(1) \ Received(2)) \cup (Received(2) \ Received(1))

\* An aligned tick pairs the two exchanges' prices of one and the same instant.
PricesOfOneInstant ==
  \A i \in DOMAIN delivered : \A s \in Sources :
    \E c \in Pipes : IdOf[c] = s /\ delivered[i].prices[s] = <<c, delivered[i].T>>

\* The join, over what has been received from each source.
Join == INSTANCE TickJoin WITH
          Stamps    <- 1 .. MaxStamp,
          received  <- [s \in Sources |-> Received(s)],
          delivered <- [i \in DOMAIN delivered |-> delivered[i].T]

\* The map and the loop of aligner.cpp implement the join: the sequence of what is
\* sent has no stamp twice, early or out of order, and passes none over.
ImplementsJoin == Join!Spec

\* A stamp received from both sources is eventually delivered, unless a price
\* that is not a number has brought the process down.
JoinedEventually ==
  \A T \in 1 .. MaxStamp :
    (T \in Received(1) \cap Received(2))
      ~> (~Alive \/ \E i \in DOMAIN delivered : delivered[i].T = T)
=============================================================================
