--------------------------- MODULE PipelineProofs ---------------------------
(***************************************************************************)
(* Theorems about the aligner, for any number of aggregator processes per  *)
(* exchange, any high-water mark and any bound on the stamps; then about   *)
(* the composed pipeline: what the strategy receives stays right when      *)
(* aggregators, the aligner and the strategy are stopped and started while *)
(* the others go on, any number of times.                                  *)
(***************************************************************************)
EXTENDS Pipeline, SequenceTheorems, TLAPS

(* The aligner. *)

\* A tick on pipe c names the exchange of c and, unless its price is null,
\* carries the price c took at the tick's own stamp.
ChanInv ==
  \A c \in Pipes : \A i \in 1 .. Len(chan[c]) :
    /\ chan[c][i].id = IdOf[c]
    /\ chan[c][i].p \in {Null, <<c, chan[c][i].T>>}

\* e is an entry for stamp T: what it holds for s was taken by s at T.
TakenAt(e, T) ==
  \A s \in Sources : e[s] = Unset \/ \E c \in Pipes : IdOf[c] = s /\ e[s] = <<c, T>>

MapInv == \A T \in DOMAIN tickMap : TakenAt(tickMap[T], T)

\* At the send, the entry is in the map and both its prices are set.
SendInv == pc = "send" => ts \in DOMAIN tickMap /\ Complete(tickMap[ts])

PriceInv == TypeOK /\ ChanInv /\ MapInv /\ SendInv /\ PricesOfOneInstant
-----------------------------------------------------------------------------
(* The operations on tickMap. *)

MapType(tm) == DOMAIN tm \subseteq Nat /\ tm \in [DOMAIN tm -> Entry]

\* f is tm with price p in slot id of stamp T: every other entry is as it was,
\* and no entry is created but that of the stamp.
Filled(tm, T, id, p, f) ==
  /\ DOMAIN f = DOMAIN tm \cup {T}
  /\ \A t \in DOMAIN tm \ {T} : f[t] = tm[t]
  /\ f[T][id] = p
  /\ \A s \in Sources \ {id} :
       f[T][s] = IF T \in DOMAIN tm THEN tm[T][s] ELSE Unset

\* Filling a slot of the entry of a stamp leaves the other slots and stamps alone.
LEMMA FillEntry ==
  ASSUME NEW tm, MapType(tm), NEW T \in Nat, NEW id \in Sources, NEW p \in Price,
         NEW f, f = SetPrice(Emplace(tm, T), T, id, p)
  PROVE  MapType(f) /\ Filled(tm, T, id, p, f)
<1> DEFINE e == Emplace(tm, T)
<1>1. /\ DOMAIN e = DOMAIN tm \cup {T}
      /\ e \in [DOMAIN e -> Entry]
      /\ \A t \in DOMAIN tm : e[t] = tm[t]
      /\ T \notin DOMAIN tm => e[T] = [s \in Sources |-> Unset]
  BY DEF Emplace, Put, Entry, MapType
<1>2. Slot(id) = id
  BY DEF Slot, Sources
<1>3. f = [e EXCEPT ![T] = [e[T] EXCEPT ![id] = p]]
  BY <1>2 DEF SetPrice
<1>4. T \in DOMAIN e /\ e[T] \in Entry
  BY <1>1
<1>5. [e[T] EXCEPT ![id] = p] \in Entry
  BY <1>4 DEF Entry
<1> HIDE DEF e
<1>6. /\ DOMAIN f = DOMAIN e
      /\ f \in [DOMAIN e -> Entry]
      /\ \A t \in DOMAIN e \ {T} : f[t] = e[t]
      /\ f[T] = [e[T] EXCEPT ![id] = p]
  BY <1>1, <1>3, <1>4, <1>5
<1>7. f[T][id] = p /\ \A s \in Sources \ {id} : f[T][s] = e[T][s]
  BY <1>4, <1>6 DEF Entry
<1>8. T \in DOMAIN tm => e[T] = tm[T]
  BY <1>1
<1>9. T \notin DOMAIN tm => \A s \in Sources : e[T][s] = Unset
  BY <1>1
<1>10. MapType(f)
  BY <1>1, <1>6 DEF MapType
<1> QED
  BY <1>1, <1>6, <1>7, <1>8, <1>9, <1>10 DEF Filled

\* The same, for the contents: an entry stays a pair of prices of its stamp.
LEMMA FillTakenAt ==
  ASSUME NEW tm, \A t \in DOMAIN tm : TakenAt(tm[t], t),
         NEW T, NEW c \in Pipes, NEW f, Filled(tm, T, IdOf[c], <<c, T>>, f)
  PROVE  \A t \in DOMAIN f : TakenAt(f[t], t)
<1>1. TakenAt(f[T], T)
  <2> SUFFICES ASSUME NEW s \in Sources
               PROVE  f[T][s] = Unset \/ \E d \in Pipes : IdOf[d] = s /\ f[T][s] = <<d, T>>
    BY DEF TakenAt
  <2>1. CASE s = IdOf[c]
    BY <2>1 DEF Filled
  <2>2. CASE s # IdOf[c]
    BY <2>2 DEF Filled, TakenAt
  <2> QED
    BY <2>1, <2>2
<1>2. \A t \in DOMAIN f \ {T} : f[t] = tm[t] /\ t \in DOMAIN tm
  BY DEF Filled
<1> QED
  BY <1>1, <1>2
-----------------------------------------------------------------------------
(* Every action keeps PriceInv.  The actions are those of Aligner one by    *)
(* one, so that a composition can cite them.                                *)


\* The map and the channels are empty at first.
LEMMA InitPrice == Init => PriceInv
<1> SUFFICES ASSUME Init PROVE PriceInv
  OBVIOUS
<1> USE AlignerAssumption
<1>1. TypeOK
  <2>1. DOMAIN tickMap \subseteq Nat /\ tickMap \in [DOMAIN tickMap -> Entry]
    BY DEF Init, EmptyMap
  <2>2. t0 \in [Pipes -> Nat] /\ next \in [Pipes -> Nat]
    BY DEF Init
  <2>3. chan \in [Pipes -> Seq(Message)]
    BY DEF Init
  <2>4. out \in Seq(AlignedTick) /\ delivered \in Seq(AlignedTick)
    BY DEF Init
  <2>5. pc \in {"recv", "send", "terminated"} /\ ts \in Nat /\ peer \in BOOLEAN
    BY DEF Init
  <2> QED
    BY <2>1, <2>2, <2>3, <2>4, <2>5 DEF TypeOK
<1>2. ChanInv /\ MapInv /\ SendInv /\ PricesOfOneInstant
  BY DEF Init, ChanInv, MapInv, EmptyMap, SendInv, PricesOfOneInstant
<1> QED
  BY <1>1, <1>2 DEF PriceInv

\* A tick that arrives carries the price of its own pipe and stamp.
LEMMA ArrivePrice ==
  ASSUME PriceInv, NEW c \in Pipes, NEW p \in {<<c, next[c]>>, Null}, Arrive(c, p)
  PROVE  PriceInv'
<1> USE AlignerAssumption DEF PriceInv
<1> DEFINE m == [id |-> IdOf[c], T |-> next[c], p |-> p]
<1>1. m \in Message
  BY DEF TypeOK, Price, Message
<1>2. chan' = [chan EXCEPT ![c] = Append(chan[c], m)]
  BY DEF Arrive
<1>3. m.id = IdOf[c] /\ m.p \in {Null, <<c, m.T>>}
  OBVIOUS
<1> HIDE DEF m
<1>4. TypeOK'
  <2>1. chan' \in [Pipes -> Seq(Message)]
    BY <1>1, <1>2 DEF TypeOK
  <2>2. next' \in [Pipes -> Nat] /\ t0' \in [Pipes -> Nat]
    BY DEF Arrive, NextStamp, TypeOK
  <2> QED
    BY <2>1, <2>2 DEF Arrive, TypeOK, mapVars, downVars
<1>5. ChanInv'
  <2> SUFFICES ASSUME NEW d \in Pipes, NEW i \in 1 .. Len(chan'[d])
               PROVE  chan'[d][i].id = IdOf[d] /\ chan'[d][i].p \in {Null, <<d, chan'[d][i].T>>}
    BY DEF ChanInv
  <2>1. chan[d] \in Seq(Message)
    BY DEF TypeOK
  <2>2. CASE d = c /\ i = Len(chan[c]) + 1
    <3>1. chan'[d][i] = m
      BY <1>1, <1>2, <2>1, <2>2 DEF TypeOK
    <3> QED
      BY <1>3, <2>2, <3>1
  <2>3. CASE ~(d = c /\ i = Len(chan[c]) + 1)
    <3>1. i \in 1 .. Len(chan[d]) /\ chan'[d][i] = chan[d][i]
      BY <1>1, <1>2, <2>1, <2>3 DEF TypeOK
    <3> QED
      BY <3>1 DEF ChanInv
  <2> QED
    BY <2>2, <2>3
<1>6. (MapInv /\ SendInv /\ PricesOfOneInstant)'
  BY DEF Arrive, mapVars, downVars, MapInv, SendInv, PricesOfOneInstant
<1> QED
  BY <1>4, <1>5, <1>6

\* Handling a tick writes its price under its stamp, in the slot of its exchange.
LEMMA RecvTickPrice ==
  ASSUME PriceInv, NEW c \in Pipes, RecvTick(c)
  PROVE  PriceInv'
<1> USE AlignerAssumption DEF PriceInv
<1> DEFINE m == Head(chan[c])
           filled == SetPrice(Emplace(tickMap, m.T), m.T, m.id, m.p)
<1>1. /\ chan[c] \in Seq(Message)
      /\ chan[c] # <<>>
      /\ chan' = [chan EXCEPT ![c] = Tail(chan[c])]
  BY DEF RecvTick, TypeOK
<1>2. m \in Message /\ m = chan[c][1]
  BY <1>1
<1>3. m.id = IdOf[c] /\ m.p \in {Null, <<c, m.T>>}
  BY <1>1, <1>2 DEF ChanInv
<1>4. ts' = m.T
  BY DEF RecvTick
<1>5. MapType(tickMap)
  BY DEF TypeOK, MapType
<1>6. ChanInv'
  <2> SUFFICES ASSUME NEW d \in Pipes, NEW i \in 1 .. Len(chan'[d])
               PROVE  chan'[d][i].id = IdOf[d] /\ chan'[d][i].p \in {Null, <<d, chan'[d][i].T>>}
    BY DEF ChanInv
  <2>1. \E j \in 1 .. Len(chan[d]) : chan'[d][i] = chan[d][j]
    <3>1. CASE d = c
      <4>1. i + 1 \in 1 .. Len(chan[c]) /\ chan'[c][i] = chan[c][i + 1]
        BY <1>1, <3>1 DEF TypeOK
      <4> QED
        BY <3>1, <4>1
    <3>2. CASE d # c
      BY <1>1, <3>2 DEF TypeOK
    <3> QED
      BY <3>1, <3>2
  <2> QED
    BY <2>1 DEF ChanInv
<1>7. chan' \in [Pipes -> Seq(Message)]
  BY <1>1 DEF TypeOK
<1>8. CASE m.p = Null
  <2>1. tickMap' = EmptyMap /\ pc' = "terminated"
    BY <1>8 DEF RecvTick, Throws
  <2>2. TypeOK'
    BY <1>2, <1>4, <1>7, <2>1 DEF RecvTick, TypeOK, Message, EmptyMap, sourceVars, downVars
  <2>3. (MapInv /\ SendInv /\ PricesOfOneInstant)'
    BY <2>1 DEF RecvTick, EmptyMap, MapInv, SendInv, PricesOfOneInstant, sourceVars, downVars
  <2> QED
    BY <1>6, <2>2, <2>3
<1>9. CASE m.p # Null
  <2>1. /\ tickMap' = filled
        /\ pc' = IF Complete(filled[m.T]) THEN "send" ELSE "recv"
    BY <1>9 DEF RecvTick, Throws
  <2>2. m.T \in Nat /\ m.id \in Sources /\ m.p \in Price /\ m.p = <<c, m.T>>
    BY <1>2, <1>3, <1>9 DEF Price, Message
  <2>3. MapType(filled) /\ Filled(tickMap, m.T, m.id, m.p, filled)
    BY <1>5, <2>2, FillEntry
  <2> HIDE DEF m, filled
  <2>4. TypeOK'
    <3>1. DOMAIN tickMap' \subseteq Nat /\ tickMap' \in [DOMAIN tickMap' -> Entry]
      BY <2>1, <2>3 DEF MapType
    <3> QED
      BY <1>4, <1>7, <2>1, <2>2, <3>1 DEF RecvTick, TypeOK, sourceVars, downVars
  <2>5. MapInv'
    <3>1. Filled(tickMap, m.T, IdOf[c], <<c, m.T>>, filled)
      BY <1>3, <2>2, <2>3
    <3>2. \A t \in DOMAIN filled : TakenAt(filled[t], t)
      BY <3>1, FillTakenAt DEF MapInv
    <3> QED
      BY <2>1, <3>2 DEF MapInv, TakenAt
  <2>6. SendInv'
    BY <1>4, <2>1, <2>3 DEF SendInv, Filled, Complete
  <2>7. PricesOfOneInstant'
    BY DEF RecvTick, PricesOfOneInstant, downVars
  <2> QED
    BY <1>6, <2>4, <2>5, <2>6, <2>7
<1> QED
  BY <1>8, <1>9

\* An aligned tick is an entry whose two slots are set.
LEMMA SendAlignedPrice ==
  ASSUME PriceInv, SendAligned
  PROVE  PriceInv'
<1> USE AlignerAssumption DEF PriceInv
<1> DEFINE a == [T |-> ts, prices |-> tickMap[ts]]
<1>1. ts \in DOMAIN tickMap /\ Complete(tickMap[ts]) /\ tickMap[ts] \in Entry
  BY DEF SendAligned, SendInv, TypeOK
<1>2. a \in AlignedTick
  BY <1>1 DEF TypeOK, AlignedTick
<1>3. /\ out' = Append(out, a) /\ delivered' = Append(delivered, a)
      /\ tickMap' = [t \in DOMAIN tickMap \ {ts} |-> tickMap[t]] /\ pc' = "recv"
  BY DEF SendAligned, Erase
<1>4. \A s \in Sources : \E c \in Pipes : IdOf[c] = s /\ a.prices[s] = <<c, a.T>>
  BY <1>1 DEF MapInv, TakenAt, Complete
<1> HIDE DEF a
<1>5. TypeOK'
  BY <1>2, <1>3 DEF SendAligned, TypeOK, sourceVars
<1>6. ChanInv'
  BY DEF SendAligned, ChanInv
<1>7. MapInv' /\ SendInv'
  BY <1>3 DEF MapInv, SendInv, TakenAt
<1>8. PricesOfOneInstant'
  <2> SUFFICES ASSUME NEW i \in DOMAIN delivered', NEW s \in Sources
               PROVE  \E c \in Pipes : /\ IdOf[c] = s
                                       /\ delivered'[i].prices[s] = <<c, delivered'[i].T>>
    BY DEF PricesOfOneInstant
  <2>1. CASE i \in DOMAIN delivered
    <3>1. delivered'[i] = delivered[i]
      BY <1>2, <1>3, <2>1 DEF TypeOK
    <3> QED
      BY <2>1, <3>1 DEF PricesOfOneInstant
  <2>2. CASE i \notin DOMAIN delivered
    <3>1. delivered'[i] = a
      BY <1>2, <1>3, <2>2 DEF TypeOK
    <3> QED
      BY <1>4, <3>1
  <2> QED
    BY <2>1, <2>2
<1> QED
  BY <1>5, <1>6, <1>7, <1>8

\* The steps of the strategy touch no price.
LEMMA StrategyPrice ==
  ASSUME PriceInv, StrategyConnect \/ StrategyRecv \/ UNCHANGED alignerVars
  PROVE  PriceInv'
<1> USE DEF PriceInv
<1>1. TypeOK'
  <2>1. UNCHANGED <<t0, next, chan, tickMap, pc, ts, delivered>>
    BY DEF StrategyConnect, StrategyRecv, alignerVars, sourceVars, mapVars, downVars
  <2>2. out' = out \/ (out # <<>> /\ out' = Tail(out))
    BY DEF StrategyConnect, StrategyRecv, alignerVars, downVars
  <2>3. out' \in Seq(AlignedTick)
    <3>1. out \in Seq(AlignedTick)
      BY DEF TypeOK
    <3>2. out # <<>> => Tail(out) \in Seq(AlignedTick)
      BY <3>1
    <3> QED
      BY <2>2, <3>1, <3>2
  <2>4. peer' \in BOOLEAN
    BY DEF StrategyConnect, StrategyRecv, alignerVars, downVars, TypeOK
  <2> QED
    BY <2>1, <2>3, <2>4 DEF TypeOK
<1>2. (ChanInv /\ MapInv /\ SendInv /\ PricesOfOneInstant)'
  BY DEF StrategyConnect, StrategyRecv, ChanInv, MapInv, SendInv, PricesOfOneInstant,
         TakenAt, alignerVars, sourceVars, mapVars, downVars
<1> QED
  BY <1>1, <1>2

\* Type correctness, and aligner.cpp:59-99 never pairs the prices of different
\* instants, nor twice the price of one exchange: whatever the order in which
\* ticks are received, and however many processes of an exchange send them.
THEOREM PricesAligned == Spec => [](TypeOK /\ PricesOfOneInstant)
<1>1. Init => PriceInv
  BY InitPrice
<1>2. PriceInv /\ [Next]_alignerVars => PriceInv'
  BY ArrivePrice, RecvTickPrice, SendAlignedPrice, StrategyPrice DEF Next
<1>3. PriceInv => TypeOK /\ PricesOfOneInstant
  BY DEF PriceInv
<1> QED
  BY <1>1, <1>2, <1>3, PTL DEF Spec

\* The aligner's state has its type: poll, pipes, tickMap and the tick being sent.
THEOREM AlignerTyped == Spec => []TypeOK
<1> QED
  BY PricesAligned, PTL
-----------------------------------------------------------------------------
(* What the map holds, for one aggregator process per exchange.             *)

\* The ticks waiting on a pipe carry the stamps up to the one before `next`.
StampInv ==
  \A c \in Pipes :
    /\ t0[c] + Len(chan[c]) <= next[c]
    /\ \A i \in 1 .. Len(chan[c]) : chan[c][i].T = next[c] - Len(chan[c]) + i - 1

\* Stamp T has been received from source s.
Got(s, T) == \E c \in Pipes : IdOf[c] = s /\ T \in ReceivedOn(c)

\* A stamp has an entry while one source only has sent it, and while its pair
\* is being sent; the set prices of an entry are those received.
Booked(tm, p, t) ==
  \A T \in Nat :
    /\ T \in DOMAIN tm <=> (~(Got(1, T) <=> Got(2, T)) \/ (p = "send" /\ T = t))
    /\ T \in DOMAIN tm => \A s \in Sources : (tm[T][s] # Unset <=> Got(s, T))

BookInv ==
  /\ pc # "terminated" => Booked(tickMap, pc, ts)
  /\ pc = "send" => Got(1, ts) /\ Got(2, ts)

MatchInv == PriceInv /\ StampInv /\ BookInv

\* With one pipe per exchange, what a source has sent came over that pipe.
LEMMA GotIsReceived ==
  ASSUME TypeOK, NEW s \in Sources, NEW T \in Nat
  PROVE  T \in Received(s) <=> Got(s, T)
BY DEF Received, Got

\* Received stamps are numbers.
LEMMA ReceivedAreStamps ==
  ASSUME TypeOK, NEW s \in Sources
  PROVE  Received(s) \subseteq Nat
BY DEF Received, ReceivedOn, TypeOK

\* Receiving a tick adds its stamp to what its source has sent: a stamp that
\* a single process per exchange had not sent before.
LEMMA RecvGot ==
  ASSUME OnePipePerSource, TypeOK, StampInv, NEW c \in Pipes, RecvTick(c)
  PROVE  LET T == Head(chan[c]).T IN
           /\ ~Got(IdOf[c], T)
           /\ \A s \in Sources, t \in Nat :
                Got(s, t)' <=> (Got(s, t) \/ (s = IdOf[c] /\ t = T))
<1> DEFINE T == Head(chan[c]).T
<1> USE AlignerAssumption
<1>1. /\ chan[c] \in Seq(Message) /\ chan[c] # <<>>
      /\ chan' = [chan EXCEPT ![c] = Tail(chan[c])]
      /\ t0' = t0 /\ next' = next
  BY DEF RecvTick, TypeOK, sourceVars
<1>2. Len(chan[c]) \in Nat \ {0} /\ Head(chan[c]) = chan[c][1]
  BY <1>1
<1>3. T = next[c] - Len(chan[c])
  BY <1>2 DEF StampInv, TypeOK
<1>4. ReceivedOn(c)' = ReceivedOn(c) \cup {T}
  <2>1. chan'[c] = Tail(chan[c]) /\ Len(chan'[c]) = Len(chan[c]) - 1
    BY <1>1, <1>2 DEF TypeOK
  <2>2. t0[c] <= T /\ T \in Nat /\ t0[c] \in Nat /\ next[c] \in Nat
    BY <1>2, <1>3 DEF StampInv, TypeOK
  <2> HIDE DEF T
  <2>3. t0[c] .. (T + 1) - 1 = (t0[c] .. T - 1) \cup {T}
    BY <2>2
  <2>4. ReceivedOn(c) = t0[c] .. T - 1
    BY <1>3 DEF ReceivedOn
  <2>5. next[c] - Len(chan'[c]) = T + 1
    BY <1>2, <1>3, <2>1, <2>2
  <2>6. ReceivedOn(c)' = t0[c] .. (T + 1) - 1
    BY <1>1, <2>5 DEF ReceivedOn
  <2> QED
    BY <2>3, <2>4, <2>6
<1>5. T \notin ReceivedOn(c)
  BY <1>2, <1>3 DEF ReceivedOn, TypeOK
<1>6. \A d \in Pipes \ {c} : ReceivedOn(d)' = ReceivedOn(d)
  BY <1>1 DEF ReceivedOn, TypeOK
<1> HIDE DEF T
<1>7. ~Got(IdOf[c], T)
  BY <1>5 DEF Got, OnePipePerSource
<1>8. \A s \in Sources, t \in Nat :
        Got(s, t)' <=> (Got(s, t) \/ (s = IdOf[c] /\ t = T))
  BY <1>4, <1>6 DEF Got
<1> QED
  BY <1>7, <1>8 DEF T

\* Nothing is received and the map is empty at first.
LEMMA InitMatch == Init => MatchInv
<1> SUFFICES ASSUME Init PROVE StampInv /\ BookInv
  BY InitPrice DEF MatchInv
<1> USE AlignerAssumption
<1>1. StampInv
  <2> SUFFICES ASSUME NEW c \in Pipes
               PROVE  /\ t0[c] + Len(chan[c]) <= next[c]
                      /\ \A i \in 1 .. Len(chan[c]) :
                           chan[c][i].T = next[c] - Len(chan[c]) + i - 1
    BY DEF StampInv
  <2>1. chan[c] = <<>> /\ next[c] = t0[c]
    BY DEF Init
  <2>2. t0[c] \in 1 .. MaxStamp
    BY DEF Init
  <2>3. Len(chan[c]) = 0 /\ t0[c] \in Int
    BY <2>1, <2>2
  <2> QED
    BY <2>1, <2>3
<1>2. \A s \in Sources, T \in Nat : ~Got(s, T)
  BY DEF Init, Got, ReceivedOn
<1>3. BookInv
  BY <1>2 DEF Init, BookInv, Booked, EmptyMap, Sources
<1> QED
  BY <1>1, <1>3

\* Sending a tick changes nothing that has been received.
LEMMA ArriveMatch ==
  ASSUME MatchInv, NEW c \in Pipes, NEW p \in {<<c, next[c]>>, Null}, Arrive(c, p)
  PROVE  MatchInv'
<1> USE AlignerAssumption
<1> DEFINE m == [id |-> IdOf[c], T |-> next[c], p |-> p]
<1>1. /\ m \in Message /\ m.T = next[c]
      /\ chan \in [Pipes -> Seq(Message)]
      /\ chan' = [chan EXCEPT ![c] = Append(chan[c], m)]
      /\ next' = [next EXCEPT ![c] = next[c] + 1]
      /\ t0' = t0 /\ t0 \in [Pipes -> Nat] /\ next \in [Pipes -> Nat]
  <2>1. t0 \in [Pipes -> Nat] /\ next \in [Pipes -> Nat] /\ chan \in [Pipes -> Seq(Message)]
    BY DEF MatchInv, PriceInv, TypeOK
  <2>2. m \in Message /\ m.T = next[c]
    BY <2>1 DEF Message, Price
  <2> QED
    BY <2>1, <2>2 DEF Arrive, NextStamp
<1>2. StampInv
  BY DEF MatchInv
<1> HIDE DEF m
<1>3. ASSUME NEW d \in Pipes
      PROVE  /\ t0'[d] + Len(chan'[d]) <= next'[d]
             /\ \A i \in 1 .. Len(chan'[d]) :
                  chan'[d][i].T = next'[d] - Len(chan'[d]) + i - 1
             /\ next'[d] - Len(chan'[d]) = next[d] - Len(chan[d])
  <2>1. CASE d = c
    <3>1. chan'[c] = Append(chan[c], m) /\ Len(chan'[c]) = Len(chan[c]) + 1
      BY <1>1
    <3>2. next'[c] = next[c] + 1
      BY <1>1
    <3>3. Len(chan[c]) \in Nat /\ next[c] \in Nat
      BY <1>1
    <3>4. ASSUME NEW i \in 1 .. Len(chan'[c])
          PROVE  chan'[c][i].T = next'[c] - Len(chan'[c]) + i - 1
      <4>1. CASE i \in 1 .. Len(chan[c])
        <5>1. chan'[c][i] = chan[c][i]
          BY <1>1, <3>1, <4>1
        <5> QED
          BY <1>2, <3>1, <3>2, <3>3, <4>1, <5>1 DEF StampInv
      <4>2. CASE i = Len(chan[c]) + 1
        BY <1>1, <3>1, <3>2, <3>3, <4>2
      <4> QED
        BY <3>1, <3>3, <4>1, <4>2
    <3>5. t0'[c] + Len(chan'[c]) <= next'[c]
      BY <1>1, <1>2, <3>1, <3>2, <3>3 DEF StampInv
    <3>6. next'[c] - Len(chan'[c]) = next[c] - Len(chan[c])
      BY <3>1, <3>2, <3>3
    <3> QED
      BY <2>1, <3>4, <3>5, <3>6
  <2>2. CASE d # c
    BY <1>1, <1>2, <2>2 DEF StampInv
  <2> QED
    BY <2>1, <2>2
<1>4. StampInv'
  BY <1>3 DEF StampInv
<1>5. \A s, T : Got(s, T)' <=> Got(s, T)
  <2>1. \A d \in Pipes : ReceivedOn(d)' = ReceivedOn(d)
    BY <1>1, <1>3 DEF ReceivedOn
  <2> QED
    BY <2>1 DEF Got
<1>6. BookInv'
  <2>1. UNCHANGED <<tickMap, pc, ts>>
    BY DEF Arrive, mapVars
  <2> QED
    BY <1>5, <2>1 DEF MatchInv, BookInv, Booked
<1>7. PriceInv'
  BY ArrivePrice DEF MatchInv
<1> QED
  BY <1>4, <1>6, <1>7 DEF MatchInv

\* Handling a tick adds its stamp to the unmatched ones, or completes it.
LEMMA RecvTickMatch ==
  ASSUME OnePipePerSource, MatchInv, NEW c \in Pipes, RecvTick(c)
  PROVE  MatchInv'
<1> USE AlignerAssumption
<1> DEFINE m == Head(chan[c])
           filled == SetPrice(Emplace(tickMap, m.T), m.T, m.id, m.p)
<1>1. /\ chan \in [Pipes -> Seq(Message)] /\ chan[c] # <<>>
      /\ chan' = [chan EXCEPT ![c] = Tail(chan[c])]
      /\ t0' = t0 /\ next' = next /\ t0 \in [Pipes -> Nat] /\ next \in [Pipes -> Nat]
  BY DEF RecvTick, MatchInv, PriceInv, TypeOK, sourceVars
<1>2. m \in Message /\ m = chan[c][1] /\ 1 \in 1 .. Len(chan[c])
  BY <1>1
<1>3. m.id = IdOf[c] /\ m.id \in Sources /\ m.T \in Nat
      /\ (m.p = Null \/ (m.p \in Price /\ m.p = <<c, m.T>>))
  BY <1>2 DEF MatchInv, PriceInv, ChanInv, Message, Price
<1>4. StampInv'
  <2> SUFFICES ASSUME NEW d \in Pipes
               PROVE  /\ t0'[d] + Len(chan'[d]) <= next'[d]
                      /\ \A i \in 1 .. Len(chan'[d]) :
                           chan'[d][i].T = next'[d] - Len(chan'[d]) + i - 1
    BY DEF StampInv
  <2>1. StampInv
    BY DEF MatchInv
  <2>2. CASE d = c
    <3>1. /\ Len(chan'[c]) = Len(chan[c]) - 1
          /\ \A i \in 1 .. Len(chan'[c]) : chan'[c][i] = chan[c][i + 1]
      BY <1>1
    <3>2. Len(chan[c]) \in Nat \ {0}
      BY <1>1
    <3>3. ASSUME NEW i \in 1 .. Len(chan'[c])
          PROVE  chan'[c][i].T = next[c] - Len(chan'[c]) + i - 1
      <4>1. i + 1 \in 1 .. Len(chan[c])
        BY <3>1, <3>2
      <4>2. chan[c][i + 1].T = next[c] - Len(chan[c]) + (i + 1) - 1
        BY <2>1, <4>1 DEF StampInv
      <4> QED
        BY <1>1, <3>1, <3>2, <4>2
    <3> QED
      BY <1>1, <2>1, <2>2, <3>1, <3>2, <3>3 DEF StampInv
  <2>3. CASE d # c
    BY <1>1, <2>1, <2>3 DEF StampInv
  <2> QED
    BY <2>2, <2>3
<1>5. PriceInv'
  BY RecvTickPrice DEF MatchInv
<1>6. CASE m.p = Null
  <2>1. pc' = "terminated"
    BY <1>6 DEF RecvTick, Throws
  <2> QED
    BY <1>4, <1>5, <2>1 DEF MatchInv, BookInv
<1>7. CASE m.p # Null
  <2> PICK T \in Nat : T = m.T
    BY <1>3
  <2> PICK id \in Sources : id = IdOf[c]
    OBVIOUS
  <2> PICK other \in Sources : other # id /\ Sources = {id, other}
    BY DEF Sources
  <2>1. /\ tickMap' = filled /\ ts' = T
        /\ pc = "recv" /\ pc' = IF Complete(filled[T]) THEN "send" ELSE "recv"
    BY <1>7 DEF RecvTick, Throws
  <2>2. Filled(tickMap, T, id, m.p, filled)
    <3>1. MapType(tickMap)
      BY DEF MatchInv, PriceInv, TypeOK, MapType
    <3> QED
      BY <1>3, <1>7, <3>1, FillEntry
  <2>3. /\ ~Got(id, T)
        /\ \A s \in Sources, t \in Nat :
             Got(s, t)' <=> (Got(s, t) \/ (s = id /\ t = T))
    BY <1>3, RecvGot DEF MatchInv, PriceInv
  <2>4. m.p # Unset
    BY <1>3, <1>7 DEF Price
  <2>5. Booked(tickMap, "recv", ts)
    BY <2>1 DEF MatchInv, BookInv
  <2> HIDE DEF m, filled
  <2>6. (Got(1, T) <=> Got(2, T)) <=> (Got(id, T) <=> Got(other, T))
    BY DEF Sources
  <2>7. T \in DOMAIN tickMap <=> Got(other, T)
    BY <2>3, <2>5, <2>6 DEF Booked
  <2>8. filled[T][id] # Unset /\ (filled[T][other] # Unset <=> Got(other, T))
    BY <2>2, <2>4, <2>5, <2>7 DEF Filled, Booked
  <2>9. Complete(filled[T]) <=> Got(other, T)
    BY <2>8 DEF Complete
  <2>10. Got(id, T)' /\ (Got(other, T)' <=> Got(other, T))
    BY <2>3
  <2>11. (Got(1, T)' <=> Got(2, T)') <=> (Got(id, T)' <=> Got(other, T)')
    BY DEF Sources
  <2>12. ASSUME NEW t \in Nat
         PROVE  /\ t \in DOMAIN filled <=>
                     (~(Got(1, t)' <=> Got(2, t)') \/ (pc' = "send" /\ t = T))
                /\ t \in DOMAIN filled =>
                     \A s \in Sources : (filled[t][s] # Unset <=> Got(s, t)')
    <3>1. CASE t = T
      <4>1. T \in DOMAIN filled
        BY <2>2 DEF Filled
      <4>2. \A s \in Sources : (filled[T][s] # Unset <=> Got(s, T)')
        BY <2>8, <2>10
      <4>3. ~(Got(1, T)' <=> Got(2, T)') \/ pc' = "send"
        BY <2>1, <2>9, <2>10, <2>11
      <4> QED
        BY <3>1, <4>1, <4>2, <4>3
    <3>2. CASE t # T
      <4>1. \A s \in Sources : Got(s, t)' <=> Got(s, t)
        BY <2>3, <3>2
      <4>2. t \in DOMAIN filled <=> t \in DOMAIN tickMap
        BY <2>2, <3>2 DEF Filled
      <4>3. t \in DOMAIN filled => filled[t] = tickMap[t]
        BY <2>2, <3>2 DEF Filled
      <4>4. /\ t \in DOMAIN tickMap <=> ~(Got(1, t) <=> Got(2, t))
            /\ t \in DOMAIN tickMap => \A s \in Sources : (tickMap[t][s] # Unset <=> Got(s, t))
        BY <2>5 DEF Booked
      <4>5. (Got(1, t)' <=> Got(1, t)) /\ (Got(2, t)' <=> Got(2, t))
        BY <4>1 DEF Sources
      <4> QED
        BY <3>2, <4>1, <4>2, <4>3, <4>4, <4>5
    <3> QED
      BY <3>1, <3>2
  <2>13. Booked(tickMap, pc, ts)'
    BY <2>1, <2>12 DEF Booked
  <2>14. (pc = "send" => Got(1, ts) /\ Got(2, ts))'
    <3>1. pc' = "send" => Got(id, T)' /\ Got(other, T)'
      BY <2>1, <2>9, <2>10
    <3>2. pc' = "send" => Got(1, T)' /\ Got(2, T)'
      BY <3>1 DEF Sources
    <3> QED
      BY <2>1, <3>2
  <2> QED
    BY <1>4, <1>5, <2>13, <2>14 DEF MatchInv, BookInv
<1> QED
  BY <1>6, <1>7

\* Delivering erases the completed stamp; the strategy changes nothing.
LEMMA OtherStepsMatch ==
  ASSUME MatchInv,
         SendAligned \/ StrategyConnect \/ StrategyRecv \/ UNCHANGED alignerVars
  PROVE  MatchInv'
<1>1. UNCHANGED <<t0, next, chan>>
  BY DEF SendAligned, StrategyConnect, StrategyRecv, alignerVars, sourceVars
<1>2. PriceInv'
  BY SendAlignedPrice, StrategyPrice DEF MatchInv
<1>3. StampInv'
  BY <1>1 DEF MatchInv, StampInv
<1>4. \A s, T : Got(s, T)' <=> Got(s, T)
  BY <1>1 DEF Got, ReceivedOn
<1>5. BookInv'
  <2>1. CASE SendAligned
    <3>1. pc = "send" /\ pc' = "recv" /\ ts' = ts /\ tickMap' = Erase(tickMap, ts)
      BY <2>1 DEF SendAligned
    <3>2. /\ DOMAIN tickMap' = DOMAIN tickMap \ {ts}
          /\ \A t \in DOMAIN tickMap' : tickMap'[t] = tickMap[t]
      BY <3>1 DEF Erase
    <3>3. Booked(tickMap, "send", ts) /\ Got(1, ts) /\ Got(2, ts)
      BY <3>1 DEF MatchInv, BookInv
    <3>4. Booked(tickMap, pc, ts)'
      BY <1>4, <3>1, <3>2, <3>3 DEF Booked
    <3> QED
      BY <3>1, <3>4 DEF BookInv
  <2>2. CASE StrategyConnect \/ StrategyRecv \/ UNCHANGED alignerVars
    <3>1. UNCHANGED <<tickMap, pc, ts>>
      BY <2>2 DEF StrategyConnect, StrategyRecv, alignerVars, mapVars
    <3> QED
      BY <1>4, <3>1 DEF MatchInv, BookInv, Booked
  <2> QED
    BY <2>1, <2>2
<1> QED
  BY <1>2, <1>3, <1>5 DEF MatchInv

\* Between two messages tickMap holds the stamps of one exchange that the
\* other has not sent, and no other: no pair is left unsent (aligner.cpp:76)
\* and no half is lost (aligner.cpp:99).
THEOREM MapIsUnmatched == ASSUME OnePipePerSource PROVE Spec => []UnmatchedInv
<1>1. Init => MatchInv
  BY InitMatch
<1>2. MatchInv /\ [Next]_alignerVars => MatchInv'
  BY ArriveMatch, RecvTickMatch, OtherStepsMatch DEF Next
<1>3. MatchInv => UnmatchedInv
  <2> SUFFICES ASSUME MatchInv, pc = "recv"
               PROVE  \A T : T \in DOMAIN tickMap <=>
                        T \in (Received(1) \ Received(2)) \cup (Received(2) \ Received(1))
    BY DEF UnmatchedInv
  <2>1. /\ TypeOK /\ DOMAIN tickMap \subseteq Nat
        /\ Received(1) \subseteq Nat /\ Received(2) \subseteq Nat
    BY ReceivedAreStamps DEF MatchInv, PriceInv, TypeOK, Sources
  <2>2. \A T \in Nat : (T \in Received(1) <=> Got(1, T)) /\ (T \in Received(2) <=> Got(2, T))
    BY <2>1, GotIsReceived DEF Sources
  <2>3. \A T \in Nat : T \in DOMAIN tickMap <=> ~(Got(1, T) <=> Got(2, T))
    BY DEF MatchInv, BookInv, Booked
  <2> QED
    BY <2>1, <2>2, <2>3
<1> QED
  BY <1>1, <1>2, <1>3, PTL DEF Spec
-----------------------------------------------------------------------------
(* The aligner implements the join, for one aggregator process per exchange. *)

\* The stamps that are sent are those of the bound.
StampsInv == \A c \in Pipes : 1 <= t0[c] /\ next[c] <= MaxStamp + 1

\* A stamp has been sent on; it has been received from both sources.
Told(T) == \E i \in DOMAIN delivered : delivered[i].T = T
Both(T) == Got(1, T) /\ Got(2, T)

\* While the aligner lives, what both sources have sent is delivered, but for
\* the stamp being sent, and that one is the latest.
ToldInv ==
  pc # "terminated" =>
    \A T \in Nat : /\ Told(T) <=> Both(T) /\ ~(pc = "send" /\ T = ts)
                   /\ pc = "send" /\ Both(T) => T <= ts

JoinInv == MatchInv /\ StampsInv /\ ToldInv

\* The state of the join, told by Got and Told.
LEMMA JoinState ==
  ASSUME MatchInv, StampsInv
  PROVE  /\ \A s \in Sources : \A T :
              T \in Received(s) <=> T \in 1 .. MaxStamp /\ Got(s, T)
         /\ \A T : Told(T) => T \in Nat
<1>1. TypeOK /\ StampInv /\ StampsInv
  BY DEF MatchInv, PriceInv
<1>2. ASSUME NEW c \in Pipes PROVE ReceivedOn(c) \subseteq 1 .. MaxStamp
  <2>1. Len(chan[c]) \in Nat /\ t0[c] \in Nat /\ next[c] \in Nat
    BY <1>1 DEF TypeOK
  <2>2. 1 <= t0[c] /\ (next[c] - Len(chan[c])) - 1 <= MaxStamp
    BY <1>1, <2>1, AlignerAssumption DEF StampsInv
  <2> QED BY <2>1, <2>2, AlignerAssumption DEF ReceivedOn
<1>3. ASSUME NEW s \in Sources, NEW T
      PROVE  T \in Received(s) <=> T \in 1 .. MaxStamp /\ Got(s, T)
  BY <1>2 DEF Received, Got
<1>4. \A T : Told(T) => T \in Nat
  <2>1. \A i \in DOMAIN delivered : delivered[i] \in AlignedTick
    BY <1>1 DEF TypeOK
  <2> QED BY <2>1 DEF Told, AlignedTick
<1> QED BY <1>3, <1>4

\* The same of the state after a step.
LEMMA JoinStateNext ==
  ASSUME MatchInv', StampsInv'
  PROVE  \A s \in Sources : \A T :
           T \in Received(s)' <=> T \in 1 .. MaxStamp /\ Got(s, T)'
<1>1. TypeOK' /\ StampsInv'
  BY DEF MatchInv, PriceInv
<1>2. ASSUME NEW c \in Pipes PROVE ReceivedOn(c)' \subseteq 1 .. MaxStamp
  <2>1. Len(chan'[c]) \in Nat /\ t0'[c] \in Nat /\ next'[c] \in Nat
    BY <1>1 DEF TypeOK
  <2>2. 1 <= t0'[c] /\ (next'[c] - Len(chan'[c])) - 1 <= MaxStamp
    BY <1>1, <2>1, AlignerAssumption DEF StampsInv
  <2> QED BY <2>1, <2>2, AlignerAssumption DEF ReceivedOn
<1> QED BY <1>2 DEF Received, Got

\* Nothing is received and nothing delivered at first.
LEMMA InitJoin == Init => JoinInv /\ Join!Init
<1> SUFFICES ASSUME Init PROVE JoinInv /\ Join!Init
  OBVIOUS
<1>1. \A c \in Pipes : 1 <= t0[c] /\ next[c] <= MaxStamp + 1
  <2> TAKE c \in Pipes
  <2> PICK x \in 1 .. MaxStamp : x = t0[c] /\ x = next[c]
    BY DEF Init
  <2>1. MaxStamp \in Nat
    BY AlignerAssumption
  <2> QED BY <2>1
<1>2. \A s, T : ~Got(s, T)
  BY DEF Init, Got, ReceivedOn
<1>3. delivered = <<>> /\ pc = "recv"
  BY DEF Init
<1>4. JoinInv
  BY <1>1, <1>2, <1>3, InitMatch DEF JoinInv, StampsInv, ToldInv, Told, Both
<1>5. Join!Init
  <2>1. \A s \in Sources : Received(s) = {}
    BY <1>2, <1>4, JoinState DEF JoinInv
  <2>2. [i \in DOMAIN delivered |-> delivered[i].T] = <<>>
    BY <1>3
  <2> QED BY <2>1, <2>2 DEF Join!Init
<1> QED BY <1>4, <1>5

\* A step that receives nothing and delivers nothing is none of the join's.
LEMMA JoinStutters ==
  ASSUME JoinInv, MatchInv', StampsInv', UNCHANGED <<pc, ts, delivered>>,
         \A s, T : Got(s, T)' <=> Got(s, T)
  PROVE  JoinInv' /\ UNCHANGED Join!vars
<1>1. ToldInv'
  BY DEF JoinInv, ToldInv, Told, Both
<1>2. ASSUME NEW s \in Sources PROVE Received(s)' = Received(s)
  BY JoinState, JoinStateNext DEF JoinInv
<1> QED BY <1>1, <1>2 DEF Join!vars, JoinInv

\* Sending a tick, and what the strategy does, receives and delivers nothing.
LEMMA OutsideJoin ==
  ASSUME JoinInv,
         \/ \E c \in Pipes : \E p \in {<<c, next[c]>>, Null} : Arrive(c, p)
         \/ StrategyConnect \/ StrategyRecv \/ UNCHANGED alignerVars
  PROVE  JoinInv' /\ UNCHANGED Join!vars
<1>1. CASE \E c \in Pipes : \E p \in {<<c, next[c]>>, Null} : Arrive(c, p)
  <2> PICK c \in Pipes : \E p \in {<<c, next[c]>>, Null} : Arrive(c, p)
    BY <1>1
  <2> PICK p \in {<<c, next[c]>>, Null} : Arrive(c, p)
    OBVIOUS
  <2>1. MatchInv'
    BY ArriveMatch DEF JoinInv
  <2>2. /\ chan \in [Pipes -> Seq(Message)] /\ t0 \in [Pipes -> Nat] /\ next \in [Pipes -> Nat]
        /\ next[c] <= MaxStamp /\ next' = [next EXCEPT ![c] = next[c] + 1] /\ t0' = t0
        /\ chan' = [chan EXCEPT
                      ![c] = Append(chan[c], [id |-> IdOf[c], T |-> next[c], p |-> p])]
        /\ UNCHANGED <<pc, ts, delivered>>
    BY DEF Arrive, NextStamp, mapVars, downVars, JoinInv, MatchInv, PriceInv, TypeOK
  <2>3. StampsInv'
    BY <2>2, AlignerAssumption DEF JoinInv, StampsInv
  <2>4. \A d \in Pipes : next'[d] - Len(chan'[d]) = next[d] - Len(chan[d])
    <3>1. Len(chan'[c]) = Len(chan[c]) + 1 /\ Len(chan[c]) \in Nat
      BY <2>2
    <3> QED BY <2>2, <3>1
  <2>5. \A s, T : Got(s, T)' <=> Got(s, T)
    BY <2>2, <2>4 DEF Got, ReceivedOn
  <2> QED BY <2>1, <2>2, <2>3, <2>5, JoinStutters
<1>2. CASE StrategyConnect \/ StrategyRecv \/ UNCHANGED alignerVars
  <2>1. UNCHANGED <<t0, next, chan, pc, ts, delivered>>
    BY <1>2 DEF StrategyConnect, StrategyRecv, alignerVars, sourceVars, mapVars, downVars
  <2>2. MatchInv'
    BY <1>2, OtherStepsMatch DEF JoinInv
  <2>3. StampsInv' /\ \A s, T : Got(s, T)' <=> Got(s, T)
    BY <2>1 DEF JoinInv, StampsInv, Got, ReceivedOn
  <2> QED BY <2>1, <2>2, <2>3, JoinStutters
<1> QED BY <1>1, <1>2

\* Handling a tick is the join's receiving of its stamp, be its price a number
\* or the end of the process.
LEMMA RecvTickJoin ==
  ASSUME OnePipePerSource, JoinInv, NEW c \in Pipes, RecvTick(c)
  PROVE  JoinInv' /\ \E T \in 1 .. MaxStamp : Join!Receive(IdOf[c], T)
<1> USE AlignerAssumption
<1>1. MatchInv /\ StampsInv /\ TypeOK /\ StampInv
  BY DEF JoinInv, MatchInv, PriceInv
<1>2. MatchInv'
  BY <1>1, RecvTickMatch
<1>3. /\ chan \in [Pipes -> Seq(Message)] /\ chan[c] # <<>> /\ pc = "recv"
      /\ chan' = [chan EXCEPT ![c] = Tail(chan[c])]
      /\ UNCHANGED <<t0, next, delivered>> /\ t0 \in [Pipes -> Nat] /\ next \in [Pipes -> Nat]
      /\ ts' = Head(chan[c]).T
  BY <1>1 DEF RecvTick, TypeOK, sourceVars, downVars
<1>4. StampsInv'
  BY <1>1, <1>3 DEF StampsInv
<1>5. PICK T : T = Head(chan[c]).T
  OBVIOUS
<1>6. T = next[c] - Len(chan[c]) /\ T \in 1 .. MaxStamp /\ T \in Nat
  <2>1. Len(chan[c]) \in Nat \ {0} /\ Head(chan[c]) = chan[c][1]
    BY <1>3
  <2>2. T = next[c] - Len(chan[c]) /\ t0[c] <= T
    <3>1. 1 \in 1 .. Len(chan[c])
      BY <2>1
    <3>2. chan[c][1].T = next[c] - Len(chan[c]) + 1 - 1 /\ t0[c] + Len(chan[c]) <= next[c]
      BY <1>1, <3>1 DEF StampInv
    <3>3. next[c] \in Nat /\ t0[c] \in Nat
      BY <1>3
    <3> QED BY <1>5, <2>1, <3>2, <3>3
  <2> QED BY <1>1, <1>3, <2>1, <2>2 DEF StampsInv
<1>7. /\ ~Got(IdOf[c], T)
      /\ \A s \in Sources, t \in Nat :
           Got(s, t)' <=> (Got(s, t) \/ (s = IdOf[c] /\ t = T))
  BY <1>1, <1>5, RecvGot
<1>8. Join!Receive(IdOf[c], T)
  <2>1. T \notin Received(IdOf[c])
    BY <1>1, <1>7, JoinState
  <2>2. ASSUME NEW s \in Sources
        PROVE  Received(s)' = IF s = IdOf[c] THEN Received(s) \cup {T} ELSE Received(s)
    <3>1. \A t : t \in Received(s) <=> t \in 1 .. MaxStamp /\ Got(s, t)
      BY <1>1, JoinState
    <3>2. \A t : t \in Received(s)' <=> t \in 1 .. MaxStamp /\ Got(s, t)'
      BY <1>2, <1>4, JoinStateNext
    <3>3. \A t \in 1 .. MaxStamp : Got(s, t)' <=> (Got(s, t) \/ (s = IdOf[c] /\ t = T))
      BY <1>7
    <3>4. \A t : t \in Received(s)' <=> t \in Received(s) \/ (s = IdOf[c] /\ t = T)
      BY <1>6, <3>1, <3>2, <3>3
    <3> QED BY <3>4
  <2>3. IdOf[c] \in Sources
    OBVIOUS
  <2> DEFINE r == [s \in Sources |-> Received(s)]
  <2>4. r' = [r EXCEPT ![IdOf[c]] = r[IdOf[c]] \cup {T}]
    BY <2>2, <2>3
  <2> QED BY <1>3, <2>1, <2>3, <2>4 DEF Join!Receive
<1>9. ToldInv'
  <2> SUFFICES ASSUME pc' # "terminated", NEW t \in Nat
               PROVE  /\ Told(t)' <=> Both(t)' /\ ~(pc' = "send" /\ t = T)
                      /\ pc' = "send" /\ Both(t)' => t <= T
    BY <1>3, <1>5 DEF ToldInv
  <2>1. Told(t)' <=> Told(t)
    BY <1>3 DEF Told
  <2>2. Told(t) <=> Both(t)
    BY <1>3 DEF JoinInv, ToldInv
  <2>3. /\ t # T => (Both(t)' <=> Both(t))
        /\ ~Both(T)
    BY <1>7 DEF Both, Sources
  <2>4. pc' = "recv" => ~Both(T)'
    <3>1. T \in DOMAIN tickMap'
      <4>1. /\ Head(chan[c]) \in Message /\ Head(chan[c]).p # Null
            /\ tickMap' = SetPrice(Emplace(tickMap, T), T,
                                   Head(chan[c]).id, Head(chan[c]).p)
        BY <1>3, <1>5 DEF RecvTick, Throws
      <4>2. Head(chan[c]).id \in Sources /\ Head(chan[c]).p \in Price
        BY <4>1 DEF Message
      <4>3. MapType(tickMap)
        BY <1>1 DEF TypeOK, MapType
      <4>4. Filled(tickMap, T, Head(chan[c]).id, Head(chan[c]).p, tickMap')
        BY <1>6, <4>1, <4>2, <4>3, FillEntry
      <4> QED BY <4>4 DEF Filled
    <3>2. Booked(tickMap, pc, ts)'
      BY <1>2 DEF MatchInv, BookInv
    <3> QED BY <1>6, <3>1, <3>2 DEF Booked, Both
  <2>5. pc' \in {"recv", "send"}
    BY <1>2 DEF MatchInv, PriceInv, TypeOK
  <2>6. Both(t)' => t <= T
    <3>1. Both(t)' => Got(IdOf[c], t)'
      BY DEF Both, Sources
    <3>2. Got(IdOf[c], t) => t \in ReceivedOn(c)
      BY DEF Got, OnePipePerSource
    <3> QED BY <1>3, <1>6, <1>7, <3>1, <3>2 DEF ReceivedOn
  <2> QED BY <2>1, <2>2, <2>3, <2>4, <2>5, <2>6
<1> QED BY <1>2, <1>4, <1>6, <1>8, <1>9 DEF JoinInv

\* The send is the join's delivery: of the latest of the stamps that both
\* sources have sent, the others being delivered.
LEMMA SendJoin ==
  ASSUME JoinInv, SendAligned
  PROVE  /\ JoinInv'
         /\ \E T \in Join!Joinable([s \in Sources |-> Received(s)]) : Join!Deliver(T)
<1>1. MatchInv /\ StampsInv /\ TypeOK
  BY DEF JoinInv, MatchInv, PriceInv
<1>2. MatchInv'
  BY <1>1, OtherStepsMatch
<1>3. /\ pc = "send" /\ pc' = "recv" /\ ts' = ts /\ UNCHANGED <<t0, next, chan>>
      /\ delivered' = Append(delivered, [T |-> ts, prices |-> tickMap[ts]])
      /\ delivered \in Seq(AlignedTick) /\ ts \in Nat
  BY <1>1 DEF SendAligned, sourceVars, TypeOK
<1>4. StampsInv' /\ \A s, T : Got(s, T)' <=> Got(s, T)
  BY <1>1, <1>3 DEF StampsInv, Got, ReceivedOn
<1>5. \A T : Told(T)' <=> Told(T) \/ T = ts
  <2>1. /\ DOMAIN delivered' = 1 .. Len(delivered) + 1 /\ Len(delivered) \in Nat
        /\ \A i \in DOMAIN delivered : delivered'[i] = delivered[i]
        /\ delivered'[Len(delivered) + 1].T = ts
        /\ DOMAIN delivered = 1 .. Len(delivered)
    BY <1>3
  <2> QED BY <2>1 DEF Told
<1>6. Both(ts)
  BY <1>1, <1>3 DEF MatchInv, BookInv, Both
<1>7. \A T \in Nat : (Told(T) <=> Both(T) /\ T # ts) /\ (Both(T) => T <= ts)
  BY <1>3 DEF JoinInv, ToldInv
<1>8. ToldInv'
  BY <1>3, <1>4, <1>5, <1>6, <1>7 DEF ToldInv, Both
<1> DEFINE r == [s \in Sources |-> Received(s)]
           d == [i \in DOMAIN delivered |-> delivered[i].T]
<1>9. \A T : T \in Join!Joinable(r) <=> T \in 1 .. MaxStamp /\ Both(T)
  BY <1>1, JoinState DEF Join!Joinable, Both, Sources
<1>10. ts \in 1 .. MaxStamp
  <2>1. Got(1, ts) /\ 1 \in Sources
    BY <1>6 DEF Both, Sources
  <2>2. ts \in Received(1)
    BY <1>1, <1>3, <2>1, GotIsReceived
  <2> QED BY <1>1, <2>1, <2>2, JoinState
<1>11. /\ \A i \in DOMAIN d : Told(d[i])
       /\ \A T : Told(T) => T \in Nat /\ \E i \in DOMAIN d : d[i] = T
  <2>1. \A T : Told(T) => T \in Nat
    BY <1>1, JoinState
  <2> QED BY <2>1 DEF Told
<1>12. d' = Append(d, ts)
  <2>1. /\ DOMAIN delivered = 1 .. Len(delivered) /\ Len(delivered) \in Nat
        /\ DOMAIN delivered' = 1 .. Len(delivered) + 1
        /\ \A i \in 1 .. Len(delivered) : delivered'[i] = delivered[i]
        /\ delivered'[Len(delivered) + 1].T = ts
    BY <1>3
  <2>2. \A i \in DOMAIN delivered : delivered[i].T \in Nat
    <3>1. \A i \in DOMAIN delivered : delivered[i] \in AlignedTick
      BY <1>3
    <3> QED BY <3>1 DEF AlignedTick
  <2>3. /\ d \in Seq(Nat) /\ Len(d) = Len(delivered)
        /\ \A i \in 1 .. Len(d) : d[i] = delivered[i].T
    BY <2>1, <2>2
  <2>4. \A i \in 1 .. Len(delivered) + 1 :
          delivered'[i].T = IF i = Len(d) + 1 THEN ts ELSE d[i]
    BY <2>1, <2>3
  <2>5. /\ d' \in Seq(Nat) /\ Len(d') = Len(d) + 1
        /\ \A i \in 1 .. Len(d) + 1 : d'[i] = IF i = Len(d) + 1 THEN ts ELSE d[i]
    <3>1. \A i \in 1 .. Len(delivered) + 1 : delivered'[i].T \in Nat
      BY <1>3, <2>1, <2>2
    <3>2. d' = [i \in 1 .. Len(delivered) + 1 |-> delivered'[i].T]
      BY <2>1
    <3> QED BY <2>1, <2>3, <2>4, <3>1, <3>2
  <2> HIDE DEF d
  <2>6. /\ Append(d, ts) \in Seq(Nat) /\ Len(Append(d, ts)) = Len(d) + 1
        /\ \A i \in 1 .. Len(d) : Append(d, ts)[i] = d[i]
        /\ Append(d, ts)[Len(d) + 1] = ts
    BY <1>3, <2>3, AppendProperties
  <2>7. \A i \in 1 .. Len(d') : d'[i] = Append(d, ts)[i]
    BY <2>3, <2>5, <2>6
  <2> QED BY <2>5, <2>6, <2>7, SeqEqual
<1>13. r' = r
  BY <1>1, <1>2, <1>4, JoinState, JoinStateNext
<1> HIDE DEF r, d
<1>14. /\ ts \in Join!Joinable(r)
       /\ \A i \in DOMAIN d : d[i] < ts
       /\ \A t \in Join!Joinable(r) : t < ts => \E i \in DOMAIN d : d[i] = t
  BY <1>3, <1>6, <1>7, <1>9, <1>10, <1>11, AlignerAssumption
<1>15. PICK T : T = ts
  OBVIOUS
<1>16. T \in Join!Joinable(r) /\ Join!Deliver(T)
  BY <1>12, <1>13, <1>14, <1>15 DEF Join!Deliver, r, d
<1> QED BY <1>2, <1>4, <1>8, <1>16 DEF JoinInv, r

\* With one aggregator process per exchange, the loop over tickMap
\* (aligner.cpp:62-100) implements the join: a stamp is sent to the strategy
\* once, after both exchanges have sent it, in order, and none is passed over.
THEOREM AlignerJoins == ASSUME OnePipePerSource PROVE Spec => ImplementsJoin
<1>1. Init => JoinInv /\ Join!Init
  BY InitJoin
<1>2. JoinInv /\ [Next]_alignerVars => JoinInv' /\ [Join!Next]_(Join!vars)
  <2> SUFFICES ASSUME JoinInv, [Next]_alignerVars
               PROVE  JoinInv' /\ [Join!Next]_(Join!vars)
    OBVIOUS
  <2>1. ASSUME NEW c \in Pipes, RecvTick(c) PROVE JoinInv' /\ Join!Next
    BY <2>1, RecvTickJoin, AlignerAssumption DEF Join!Next
  <2>2. CASE SendAligned
    BY <2>2, SendJoin DEF Join!Next
  <2>3. CASE ~SendAligned /\ ~\E c \in Pipes : RecvTick(c)
    BY <2>3, OutsideJoin DEF Next
  <2> QED BY <2>1, <2>2, <2>3
<1> QED
  BY <1>1, <1>2, PTL DEF Spec, ImplementsJoin, Join!Spec
-----------------------------------------------------------------------------
(* The pipeline. *)

\* The price pipe c took at T has left c, and can not come out of it again.
Spent(c, T) ==
  /\ t0[c] <= T /\ T < next[c]
  /\ \A k \in 1 .. Len(chan[c]) : T < chan[c][k].T

EnvInv ==
  /\ now \in Nat
  /\ state \in [Pipes -> {"idle", "up", "down"}]
  /\ \A c \in Pipes : state[c] = "idle" => next[c] = 0

\* The ticks of a pipe come in increasing order, whatever was lost of them.
FlowInv ==
  \A c \in Pipes :
    /\ t0[c] <= next[c]
    /\ \A k \in 1 .. Len(chan[c]) : t0[c] <= chan[c][k].T /\ chan[c][k].T < next[c]
    /\ \A k, l \in 1 .. Len(chan[c]) : k < l => chan[c][k].T < chan[c][l].T

\* A price is used once: what the map holds and what was delivered is spent.
UsedInv ==
  \A s \in Sources, c \in Pipes :
    /\ \A T \in DOMAIN tickMap : tickMap[T][s] = <<c, T>> => Spent(c, T)
    /\ \A i \in DOMAIN delivered :
         delivered[i].prices[s] = <<c, delivered[i].T>> => Spent(c, delivered[i].T)

\* Entries d of stamp T and e of U have a price of the same process for s.
Shared(d, T, e, U, s) == \E c \in Pipes : d[s] = <<c, T>> /\ e[s] = <<c, U>>

\* Entry e of stamp U may come after d of T: no price comes twice, and the
\* same two processes give increasing stamps.
MayFollow(d, T, e, U) ==
  /\ \A s \in Sources : Shared(d, T, e, U, s) => T # U
  /\ (\A s \in Sources : Shared(d, T, e, U, s)) => T < U

\* What waits in the map may follow all that was delivered; a complete entry
\* is the one being sent.
PairInv ==
  \A T \in DOMAIN tickMap :
    /\ Complete(tickMap[T]) => pc = "send" /\ T = ts
    /\ \A i \in DOMAIN delivered :
         MayFollow(delivered[i].prices, delivered[i].T, tickMap[T], T)

MetInv ==
  \A i, j \in DOMAIN delivered :
    i < j => MayFollow(delivered[i].prices, delivered[i].T,
                       delivered[j].prices, delivered[j].T)

\* Process c was gone when d was started: it sent no stamp from t0[d] on, but
\* for its own first, which it sends ahead of time.
Before(c, d) ==
  /\ state[c] = "down" /\ t0[c] <= t0[d]
  /\ next[c] <= t0[d] \/ next[c] <= t0[c] + 1

LifeInv ==
  /\ \A c \in Pipes : state[c] # "idle" =>
       /\ t0[c] <= now + 1
       /\ next[c] <= t0[c] + 1 \/ next[c] <= now + 1
  /\ \A c, d \in Pipes :
       (c # d /\ IdOf[c] = IdOf[d] /\ state[c] # "idle" /\ state[d] # "idle")
         => Before(c, d) \/ Before(d, c)

PipeInv == PriceInv /\ EnvInv /\ FlowInv /\ UsedInv /\ PairInv /\ MetInv /\ LifeInv
-----------------------------------------------------------------------------
(* What is left of a queue. *)

\* r is a contiguous part of q.
Cut(q, r) ==
  \E o \in Nat : /\ Len(r) + o <= Len(q)
                 /\ \A k \in 1 .. Len(r) : r[k] = q[k + o]

\* A queue that lost its newest or its oldest elements is a part of it.
LEMMA PrefixCut ==
  ASSUME NEW S, NEW q \in Seq(S), NEW r \in Prefixes(q)
  PROVE  r \in Seq(S) /\ Cut(q, r)
<1>1. PICK n \in 0 .. Len(q) : r = SubSeq(q, 1, n)
  BY DEF Prefixes
<1>2. r \in Seq(S) /\ Len(r) = n /\ \A k \in 1 .. n : r[k] = q[k]
  BY <1>1
<1>3. Len(r) + 0 <= Len(q) /\ \A k \in 1 .. Len(r) : r[k] = q[k + 0]
  BY <1>2
<1> QED
  BY <1>2, <1>3 DEF Cut

\* A suffix is a cut of the queue.
LEMMA SuffixCut ==
  ASSUME NEW S, NEW q \in Seq(S), NEW r \in Suffixes(q)
  PROVE  r \in Seq(S) /\ Cut(q, r)
<1>1. PICK n \in 1 .. Len(q) + 1 : r = SubSeq(q, n, Len(q))
  BY DEF Suffixes
<1>2. /\ r \in Seq(S) /\ Len(r) = Len(q) - n + 1
      /\ \A k \in 1 .. Len(r) : r[k] = q[k + (n - 1)]
  BY <1>1
<1>3. n - 1 \in Nat /\ Len(r) + (n - 1) <= Len(q)
  BY <1>2
<1> QED
  BY <1>2, <1>3 DEF Cut

\* The tail is a cut of the queue.
LEMMA TailCut ==
  ASSUME NEW S, NEW q \in Seq(S), q # <<>>
  PROVE  Tail(q) \in Seq(S) /\ Cut(q, Tail(q))
<1>1. /\ Tail(q) \in Seq(S) /\ Len(Tail(q)) = Len(q) - 1
      /\ \A k \in 1 .. Len(Tail(q)) : Tail(q)[k] = q[k + 1]
  OBVIOUS
<1> QED
  BY <1>1 DEF Cut

\* Nothing, and the whole queue, are cuts of it.
LEMMA EmptyCut ==
  ASSUME NEW S, NEW q \in Seq(S)
  PROVE  <<>> \in Seq(S) /\ Cut(q, <<>>) /\ Cut(q, q)
<1>1. Len(q) + 0 <= Len(q) /\ \A k \in 1 .. Len(q) : q[k] = q[k + 0]
  OBVIOUS
<1>2. Len(<<>>) + 0 <= Len(q) /\ \A k \in 1 .. Len(<<>>) : <<>>[k] = q[k + 0]
  OBVIOUS
<1> QED
  BY <1>1, <1>2 DEF Cut

\* Losing ticks at either end of the pipes keeps what is said of the others,
\* and brings no spent price back.
LEMMA CutQueues ==
  ASSUME PriceInv, FlowInv, t0' = t0, next' = next,
         chan' \in [Pipes -> Seq(Message)],
         \A c \in Pipes : Cut(chan[c], chan'[c])
  PROVE  ChanInv' /\ FlowInv' /\ \A c \in Pipes, T \in Nat : Spent(c, T) => Spent(c, T)'
<1> SUFFICES ASSUME NEW c \in Pipes
             PROVE  /\ \A k \in 1 .. Len(chan'[c]) :
                         /\ chan'[c][k].id = IdOf[c]
                         /\ chan'[c][k].p \in {Null, <<c, chan'[c][k].T>>}
                         /\ t0[c] <= chan'[c][k].T /\ chan'[c][k].T < next[c]
                    /\ \A k, l \in 1 .. Len(chan'[c]) :
                         k < l => chan'[c][k].T < chan'[c][l].T
                    /\ \A T \in Nat : Spent(c, T) => Spent(c, T)'
  BY DEF ChanInv, FlowInv
<1>1. PICK o \in Nat : /\ Len(chan'[c]) + o <= Len(chan[c])
                       /\ \A k \in 1 .. Len(chan'[c]) : chan'[c][k] = chan[c][k + o]
  BY DEF Cut
<1>2. Len(chan[c]) \in Nat /\ Len(chan'[c]) \in Nat
  BY DEF PriceInv, TypeOK
<1>3. \A k \in 1 .. Len(chan'[c]) : k + o \in 1 .. Len(chan[c])
  BY <1>1, <1>2
<1>4. \A k \in 1 .. Len(chan'[c]) :
        /\ chan'[c][k].id = IdOf[c]
        /\ chan'[c][k].p \in {Null, <<c, chan'[c][k].T>>}
  BY <1>1, <1>3 DEF PriceInv, ChanInv
<1>5. \A k \in 1 .. Len(chan'[c]) : t0[c] <= chan'[c][k].T /\ chan'[c][k].T < next[c]
  BY <1>1, <1>3 DEF FlowInv
<1>6. ASSUME NEW k \in 1 .. Len(chan'[c]), NEW l \in 1 .. Len(chan'[c]), k < l
      PROVE  chan'[c][k].T < chan'[c][l].T
  <2>1. k + o \in 1 .. Len(chan[c]) /\ l + o \in 1 .. Len(chan[c]) /\ k + o < l + o
    BY <1>2, <1>3, <1>6
  <2>2. chan[c][k + o].T < chan[c][l + o].T
    BY <2>1 DEF FlowInv
  <2> QED
    BY <1>1, <2>2
<1>7. ASSUME NEW T \in Nat, Spent(c, T) PROVE Spent(c, T)'
  BY <1>1, <1>3, <1>7 DEF Spent
<1> QED
  BY <1>4, <1>5, <1>6, <1>7
-----------------------------------------------------------------------------
(* What was delivered and what waits, under the steps that add to neither. *)

\* What was delivered is stamped with numbers.
LEMMA DeliveredStamps ==
  ASSUME TypeOK
  PROVE  \A i \in DOMAIN delivered :
           delivered[i] \in AlignedTick /\ delivered[i].T \in Nat
<1>1. delivered \in Seq(AlignedTick)
  BY DEF TypeOK
<1>2. \A i \in DOMAIN delivered : delivered[i] \in AlignedTick
  BY <1>1
<1> QED
  BY <1>2 DEF AlignedTick

\* What waits on a pipe is a message, stamped with a number.
LEMMA QueuedStamps ==
  ASSUME TypeOK, NEW c \in Pipes
  PROVE  \A k \in 1 .. Len(chan[c]) : chan[c][k] \in Message /\ chan[c][k].T \in Nat
<1>1. chan[c] \in Seq(Message)
  BY DEF TypeOK
<1>2. \A k \in 1 .. Len(chan[c]) : chan[c][k] \in Message
  BY <1>1
<1> QED
  BY <1>2 DEF Message

\* A step that delivers nothing, leaves the map or empties it, and brings no
\* spent price back, keeps the three invariants of the prices.
LEMMA PricesKept ==
  ASSUME PriceInv, UsedInv, PairInv, MetInv, delivered' = delivered,
         \/ tickMap' = EmptyMap
         \/ tickMap' = tickMap /\ ts' = ts /\ (pc' = pc \/ pc # "send"),
         \A c \in Pipes, T \in Nat : Spent(c, T) => Spent(c, T)'
  PROVE  UsedInv' /\ PairInv' /\ MetInv'
<1>1. \A i \in DOMAIN delivered : delivered[i].T \in Nat
  BY DeliveredStamps DEF PriceInv
<1>2. DOMAIN tickMap \subseteq Nat
  BY DEF PriceInv, TypeOK
<1>3. tickMap' = tickMap \/ DOMAIN tickMap' = {}
  BY DEF EmptyMap
<1>4. UsedInv'
  BY <1>1, <1>2, <1>3 DEF UsedInv
<1>5. PairInv'
  <2>1. CASE DOMAIN tickMap' = {}
    BY <2>1 DEF PairInv
  <2>2. CASE DOMAIN tickMap' # {}
    <3>1. tickMap' = tickMap /\ ts' = ts /\ (pc' = pc \/ pc # "send")
      BY <2>2 DEF EmptyMap
    <3> QED
      BY <3>1 DEF PairInv, MayFollow, Shared, Complete
  <2> QED
    BY <2>1, <2>2
<1>6. MetInv'
  BY DEF MetInv, MayFollow, Shared
<1> QED
  BY <1>4, <1>5, <1>6

\* The processes' lives are told by the clock and the aggregators alone.
LEMMA LivesKept ==
  ASSUME EnvInv, LifeInv, UNCHANGED <<t0, next, state>>, now' = now \/ now' = now + 1,
         t0 \in [Pipes -> Nat], next \in [Pipes -> Nat]
  PROVE  EnvInv' /\ LifeInv'
<1>1. EnvInv'
  BY DEF EnvInv
<1>2. LifeInv'
  <2>1. \A c \in Pipes : state[c] # "idle" =>
          /\ t0[c] <= now' + 1
          /\ next[c] <= t0[c] + 1 \/ next[c] <= now' + 1
    BY DEF EnvInv, LifeInv
  <2>2. \A c, d : Before(c, d)' <=> Before(c, d)
    BY DEF Before
  <2> QED
    BY <2>1, <2>2 DEF LifeInv
<1> QED
  BY <1>1, <1>2
-----------------------------------------------------------------------------
(* Each step of the pipeline keeps PipeInv. *)

\* No process has been started, nothing has been sent.
LEMMA InitPipe == PipelineInit => PipeInv
<1> SUFFICES ASSUME PipelineInit PROVE PipeInv
  OBVIOUS
<1> USE AlignerAssumption
<1>1. TypeOK
  <2>1. t0 \in [Pipes -> Nat] /\ next \in [Pipes -> Nat]
    BY DEF PipelineInit
  <2>2. chan \in [Pipes -> Seq(Message)]
    BY DEF PipelineInit
  <2>3. DOMAIN tickMap \subseteq Nat /\ tickMap \in [DOMAIN tickMap -> Entry]
    BY DEF PipelineInit, EmptyMap
  <2>4. out \in Seq(AlignedTick) /\ delivered \in Seq(AlignedTick)
    BY DEF PipelineInit
  <2>5. pc \in {"recv", "send", "terminated"} /\ ts \in Nat /\ peer \in BOOLEAN
    BY DEF PipelineInit
  <2> QED
    BY <2>1, <2>2, <2>3, <2>4, <2>5 DEF TypeOK
<1>2. ChanInv /\ MapInv /\ SendInv /\ PricesOfOneInstant
  BY DEF PipelineInit, ChanInv, MapInv, EmptyMap, SendInv, PricesOfOneInstant
<1>3. EnvInv /\ FlowInv
  BY DEF PipelineInit, EnvInv, FlowInv
<1>4. UsedInv /\ PairInv /\ MetInv
  BY DEF PipelineInit, UsedInv, PairInv, MetInv, EmptyMap
<1>5. LifeInv
  BY DEF PipelineInit, LifeInv
<1> QED
  BY <1>1, <1>2, <1>3, <1>4, <1>5 DEF PipeInv, PriceInv

\* A process that starts has sent nothing, and its exchange's others are gone:
\* what they sent is stamped before its own ticks, but for their first.
LEMMA StartAggregatorPipe ==
  ASSUME PipeInv, NEW c \in Pipes, StartAggregator(c)
  PROVE  PipeInv'
<1> USE DEF PipeInv
<1>1. /\ t0 \in [Pipes -> Nat] /\ next \in [Pipes -> Nat] /\ now \in Nat
      /\ t0' = [t0 EXCEPT ![c] = now + 1] /\ next' = [next EXCEPT ![c] = now + 1]
      /\ state' = [state EXCEPT ![c] = "up"] /\ state \in [Pipes -> {"idle", "up", "down"}]
      /\ state[c] = "idle" /\ next[c] = 0
      /\ UNCHANGED <<chan, tickMap, pc, ts, peer, out, delivered, now>>
  BY DEF StartAggregator, PriceInv, TypeOK, EnvInv, mapVars, downVars
<1>2. \A d \in Pipes, T \in Nat : Spent(d, T) => Spent(d, T)'
  BY <1>1 DEF Spent
<1>3. UsedInv' /\ PairInv' /\ MetInv'
  BY <1>1, <1>2, PricesKept
<1>4. TypeOK'
  BY <1>1 DEF PriceInv, TypeOK
<1>5. PriceInv'
  BY <1>1, <1>4 DEF PriceInv, ChanInv, MapInv, TakenAt, SendInv, PricesOfOneInstant
<1>6. FlowInv'
  <2> SUFFICES ASSUME NEW d \in Pipes
               PROVE  /\ t0'[d] <= next'[d]
                      /\ \A k \in 1 .. Len(chan[d]) :
                           t0'[d] <= chan[d][k].T /\ chan[d][k].T < next'[d]
    BY <1>1 DEF FlowInv
  <2>1. CASE d = c
    <3>1. \A k \in 1 .. Len(chan[c]) : t0[c] <= chan[c][k].T /\ chan[c][k].T < 0
      BY <1>1 DEF FlowInv
    <3>2. \A k \in 1 .. Len(chan[c]) : chan[c][k].T \in Nat
      BY QueuedStamps DEF PriceInv
    <3> QED
      BY <1>1, <2>1, <3>1, <3>2
  <2>2. CASE d # c
    BY <1>1, <2>2 DEF FlowInv
  <2> QED
    BY <2>1, <2>2
<1>7. EnvInv'
  BY <1>1 DEF EnvInv
<1>8. LifeInv'
  <2>1. \A d \in Pipes : state'[d] # "idle" =>
          /\ t0'[d] <= now' + 1
          /\ next'[d] <= t0'[d] + 1 \/ next'[d] <= now' + 1
    BY <1>1 DEF LifeInv
  <2>2. ASSUME NEW d \in Pipes, d # c, IdOf[d] = IdOf[c], state[d] # "idle"
        PROVE  Before(d, c)'
    <3>1. state[d] = "down"
      BY <1>1, <2>2 DEF StartAggregator
    <3>2. t0[d] <= now + 1 /\ (next[d] <= t0[d] + 1 \/ next[d] <= now + 1)
      BY <2>2 DEF LifeInv
    <3> QED
      BY <1>1, <2>2, <3>1, <3>2 DEF Before
  <2>3. \A d, e \in Pipes \ {c} : Before(d, e)' <=> Before(d, e)
    BY <1>1 DEF Before
  <2>4. ASSUME NEW d \in Pipes, NEW e \in Pipes, d # e, IdOf[d] = IdOf[e],
               state'[d] # "idle", state'[e] # "idle"
        PROVE  Before(d, e)' \/ Before(e, d)'
    <3>1. CASE d = c
      BY <1>1, <2>2, <2>4, <3>1
    <3>2. CASE e = c
      BY <1>1, <2>2, <2>4, <3>2
    <3>3. CASE d # c /\ e # c
      BY <1>1, <2>3, <2>4, <3>3 DEF LifeInv
    <3> QED
      BY <3>1, <3>2, <3>3
  <2> QED
    BY <2>1, <2>4 DEF LifeInv
<1> QED
  BY <1>3, <1>5, <1>6, <1>7, <1>8

\* A tick that is sent is later than all its process sent before.
LEMMA SendTickPipe ==
  ASSUME PipeInv, NEW c \in Pipes, NEW p \in {<<c, next[c]>>, Null}, SendTick(c, p)
  PROVE  PipeInv'
<1> USE DEF PipeInv
<1> DEFINE m == [id |-> IdOf[c], T |-> next[c], p |-> p]
<1>1. PriceInv' /\ Arrive(c, p)
  BY ArrivePrice DEF SendTick
<1>2. /\ t0 \in [Pipes -> Nat] /\ next \in [Pipes -> Nat] /\ now \in Nat
      /\ chan \in [Pipes -> Seq(Message)]
      /\ next' = [next EXCEPT ![c] = next[c] + 1]
      /\ state[c] = "up" /\ (next[c] = t0[c] \/ next[c] <= now)
      /\ UNCHANGED <<t0, tickMap, pc, ts, peer, out, delivered, now, state>>
  BY <1>1 DEF SendTick, Arrive, NextStamp, Due, PriceInv, TypeOK, EnvInv,
              mapVars, downVars, envVars
<1>3. m \in Message /\ m.T = next[c] /\ chan' = [chan EXCEPT ![c] = Append(chan[c], m)]
  <2>1. IdOf[c] \in Sources /\ next[c] \in Nat /\ p \in Price \cup {Null}
    <3>1. IdOf[c] \in Sources
      BY AlignerAssumption
    <3>2. next[c] \in Nat
      BY <1>2
    <3> QED
      BY <3>1, <3>2 DEF Price
  <2>2. m \in Message /\ m.T = next[c]
    BY <2>1 DEF Message
  <2>3. chan' = [chan EXCEPT ![c] = Append(chan[c], m)]
    BY <1>1 DEF Arrive
  <2> QED
    BY <2>2, <2>3
<1> HIDE DEF m
<1>4. /\ chan'[c] = Append(chan[c], m) /\ Len(chan'[c]) = Len(chan[c]) + 1
      /\ chan'[c][Len(chan[c]) + 1] = m /\ Len(chan[c]) \in Nat
      /\ \A k \in 1 .. Len(chan[c]) : chan'[c][k] = chan[c][k]
  BY <1>2, <1>3
<1>5. \A d \in Pipes \ {c} : chan'[d] = chan[d] /\ next'[d] = next[d]
  BY <1>2, <1>3
<1>6. \A k \in 1 .. Len(chan'[c]) : k \in 1 .. Len(chan[c]) \/ k = Len(chan[c]) + 1
  BY <1>4
<1>7. \A d \in Pipes, T \in Nat : Spent(d, T) => Spent(d, T)'
  <2>1. ASSUME NEW T \in Nat, Spent(c, T) PROVE Spent(c, T)'
    BY <1>2, <1>3, <1>4, <1>6, <2>1 DEF Spent
  <2>2. ASSUME NEW d \in Pipes \ {c}, NEW T \in Nat, Spent(d, T) PROVE Spent(d, T)'
    BY <1>2, <1>5, <2>2 DEF Spent
  <2> QED
    BY <2>1, <2>2
<1>8. UsedInv' /\ PairInv' /\ MetInv'
  BY <1>2, <1>7, PricesKept
<1>9. FlowInv'
  <2>1. /\ t0[c] <= next'[c]
        /\ \A k \in 1 .. Len(chan'[c]) : t0[c] <= chan'[c][k].T /\ chan'[c][k].T < next'[c]
    <3>1. \A k \in 1 .. Len(chan[c]) :
            /\ t0[c] <= chan[c][k].T /\ chan[c][k].T < next[c]
            /\ chan[c][k].T \in Nat
      BY QueuedStamps DEF FlowInv, PriceInv
    <3>2. t0[c] <= next[c] /\ next'[c] = next[c] + 1 /\ t0[c] \in Nat /\ next[c] \in Nat
      BY <1>2 DEF FlowInv
    <3> QED
      BY <1>3, <1>4, <1>6, <3>1, <3>2
  <2>2. ASSUME NEW k \in 1 .. Len(chan'[c]), NEW l \in 1 .. Len(chan'[c]), k < l
        PROVE  chan'[c][k].T < chan'[c][l].T
    <3>1. k \in 1 .. Len(chan[c])
      BY <1>4, <2>2
    <3>2. CASE l \in 1 .. Len(chan[c])
      BY <1>4, <2>2, <3>1, <3>2 DEF FlowInv
    <3>3. CASE l = Len(chan[c]) + 1
      BY <1>3, <1>4, <3>1, <3>3 DEF FlowInv
    <3> QED
      BY <1>6, <3>2, <3>3
  <2> QED
    BY <1>2, <1>5, <2>1, <2>2 DEF FlowInv
<1>10. EnvInv'
  BY <1>2 DEF EnvInv
<1>11. LifeInv'
  <2>1. next'[c] <= t0[c] + 1 \/ next'[c] <= now + 1
    BY <1>2
  <2>2. \A d \in Pipes : state[d] # "idle" =>
          /\ t0[d] <= now + 1
          /\ next'[d] <= t0[d] + 1 \/ next'[d] <= now + 1
    BY <1>5, <2>1 DEF LifeInv
  <2>3. \A d, e \in Pipes : Before(d, e) => Before(d, e)'
    BY <1>2, <1>5 DEF Before
  <2> QED
    BY <1>2, <2>2, <2>3 DEF LifeInv
<1> QED
  BY <1>1, <1>8, <1>9, <1>10, <1>11

\* The newest ticks of a process that stops are lost; it is before all others.
LEMMA StopAggregatorPipe ==
  ASSUME PipeInv, NEW c \in Pipes, StopAggregator(c)
  PROVE  PipeInv'
<1> USE DEF PipeInv
<1>1. PICK q \in Prefixes(chan[c]) : chan' = [chan EXCEPT ![c] = q]
  BY DEF StopAggregator
<1>2. /\ chan \in [Pipes -> Seq(Message)]
      /\ state \in [Pipes -> {"idle", "up", "down"}] /\ state[c] = "up"
      /\ state' = [state EXCEPT ![c] = "down"]
      /\ UNCHANGED <<t0, next, tickMap, pc, ts, peer, out, delivered, now>>
  BY DEF StopAggregator, PriceInv, TypeOK, EnvInv, sourceVars, mapVars, downVars
<1>3. q \in Seq(Message) /\ Cut(chan[c], q)
  BY <1>2, PrefixCut
<1>4. chan' \in [Pipes -> Seq(Message)] /\ \A d \in Pipes : Cut(chan[d], chan'[d])
  <2>1. \A d \in Pipes \ {c} : chan'[d] = chan[d] /\ Cut(chan[d], chan[d])
    BY <1>1, <1>2, EmptyCut
  <2> QED
    BY <1>1, <1>2, <1>3, <2>1
<1>5. ChanInv' /\ FlowInv' /\ \A d \in Pipes, T \in Nat : Spent(d, T) => Spent(d, T)'
  BY <1>2, <1>4, CutQueues
<1>6. UsedInv' /\ PairInv' /\ MetInv'
  BY <1>2, <1>5, PricesKept
<1>7. PriceInv'
  <2>1. TypeOK'
    BY <1>2, <1>4 DEF PriceInv, TypeOK
  <2> QED
    BY <1>2, <1>5, <2>1 DEF PriceInv, MapInv, TakenAt, SendInv, PricesOfOneInstant
<1>8. EnvInv'
  BY <1>2 DEF EnvInv
<1>9. LifeInv'
  <2>1. \A d \in Pipes : state'[d] # "idle" <=> state[d] # "idle"
    BY <1>2
  <2>2. \A d, e \in Pipes : Before(d, e) => Before(d, e)'
    BY <1>2 DEF Before
  <2> QED
    BY <1>2, <2>1, <2>2 DEF LifeInv
<1> QED
  BY <1>5, <1>6, <1>7, <1>8, <1>9

\* The clock, and a strategy that comes, receives or goes away, touch no price.
LEMMA OutsidePipe ==
  ASSUME PipeInv,
         \/ ClockTick
         \/ StopStrategy
         \/ (StrategyConnect \/ StrategyRecv) /\ UNCHANGED envVars
         \/ UNCHANGED pipelineVars
  PROVE  PipeInv'
<1> USE DEF PipeInv
<1>1. /\ UNCHANGED <<t0, next, chan, tickMap, pc, ts, delivered, state>>
      /\ now' = now \/ now' = now + 1
  BY DEF ClockTick, StopStrategy, StrategyConnect, StrategyRecv, pipelineVars, alignerVars,
         sourceVars, mapVars, downVars, envVars
<1>2. PriceInv'
  <2>1. CASE StopStrategy
    <3>1. peer' \in BOOLEAN /\ out' \in Seq(AlignedTick)
      <4>1. peer' = FALSE /\ out' = <<>>
        BY <2>1 DEF StopStrategy
      <4>2. <<>> \in Seq(AlignedTick)
        OBVIOUS
      <4> QED
        BY <4>1, <4>2
    <3>2. TypeOK'
      BY <1>1, <3>1 DEF PriceInv, TypeOK
    <3> QED
      BY <1>1, <3>2 DEF PriceInv, ChanInv, MapInv, TakenAt, SendInv, PricesOfOneInstant
  <2>2. CASE ~StopStrategy
    <3>1. StrategyConnect \/ StrategyRecv \/ UNCHANGED alignerVars
      BY <2>2 DEF ClockTick, pipelineVars
    <3> QED
      BY <3>1, StrategyPrice
  <2> QED
    BY <2>1, <2>2
<1>3. FlowInv' /\ \A c \in Pipes, T \in Nat : Spent(c, T) => Spent(c, T)'
  BY <1>1 DEF FlowInv, Spent
<1>4. UsedInv' /\ PairInv' /\ MetInv'
  BY <1>1, <1>3, PricesKept
<1>5. EnvInv' /\ LifeInv'
  BY <1>1, LivesKept DEF PriceInv, TypeOK
<1> QED
  BY <1>2, <1>3, <1>4, <1>5

\* An aligner that goes takes its map; a new one starts with an empty map and
\* finds the pipes as the old one's death left them.
LEMMA AlignerLifePipe ==
  ASSUME PipeInv, StopAligner \/ RestartAligner
  PROVE  PipeInv'
<1> USE DEF PipeInv
<1>1. /\ UNCHANGED <<t0, next, ts, delivered, now, state>>
      /\ tickMap' = EmptyMap \/ (tickMap' = tickMap /\ pc # "send")
      /\ pc' \in {"recv", "terminated"}
      /\ chan \in [Pipes -> Seq(Message)] /\ out \in Seq(AlignedTick)
  BY DEF StopAligner, RestartAligner, Alive, sourceVars, downVars, envVars, PriceInv, TypeOK
<1>2. /\ chan' \in [Pipes -> Seq(Message)] /\ out' \in Seq(AlignedTick) /\ peer' \in BOOLEAN
      /\ \A c \in Pipes : Cut(chan[c], chan'[c])
  <2>1. CASE StopAligner
    <3>1. UNCHANGED <<chan, peer, out>>
      BY <2>1 DEF StopAligner, downVars
    <3>2. \A c \in Pipes : Cut(chan[c], chan[c])
      BY <1>1, EmptyCut
    <3> QED
      BY <1>1, <3>1, <3>2 DEF PriceInv, TypeOK
  <2>2. CASE RestartAligner
    <3>1. PICK f \in [Pipes -> UNION {Suffixes(chan[c]) : c \in Pipes}] :
            /\ \A c \in Pipes : IF state[c] = "up" THEN f[c] \in Suffixes(chan[c])
                                                   ELSE f[c] = <<>>
            /\ chan' = f
      BY <2>2 DEF RestartAligner
    <3>2. ASSUME NEW c \in Pipes PROVE f[c] \in Seq(Message) /\ Cut(chan[c], f[c])
      <4>1. chan[c] \in Seq(Message)
        BY <1>1
      <4>2. f[c] \in Suffixes(chan[c]) \/ f[c] = <<>>
        BY <3>1
      <4> QED
        BY <4>1, <4>2, SuffixCut, EmptyCut
    <3>3. out' \in Seq(AlignedTick) /\ peer' \in BOOLEAN
      BY <1>1, <2>2, PrefixCut DEF RestartAligner
    <3> QED
      BY <3>1, <3>2, <3>3
  <2> QED
    BY <2>1, <2>2
<1>3. ChanInv' /\ FlowInv' /\ \A c \in Pipes, T \in Nat : Spent(c, T) => Spent(c, T)'
  BY <1>1, <1>2, CutQueues
<1>4. UsedInv' /\ PairInv' /\ MetInv'
  BY <1>1, <1>3, PricesKept
<1>5. PriceInv'
  <2>1. DOMAIN tickMap' \subseteq Nat /\ tickMap' \in [DOMAIN tickMap' -> Entry] /\ MapInv'
    <3>1. CASE tickMap' = EmptyMap
      BY <3>1 DEF MapInv, EmptyMap
    <3>2. CASE tickMap' = tickMap
      BY <3>2 DEF PriceInv, TypeOK, MapInv, TakenAt
    <3> QED
      BY <1>1, <3>1, <3>2
  <2>2. TypeOK'
    BY <1>1, <1>2, <2>1 DEF PriceInv, TypeOK
  <2> QED
    BY <1>1, <1>3, <2>1, <2>2 DEF PriceInv, SendInv, PricesOfOneInstant
<1>6. EnvInv' /\ LifeInv'
  BY <1>1, LivesKept DEF PriceInv, TypeOK
<1> QED
  BY <1>3, <1>4, <1>5, <1>6

\* The price that is received was not used before, and comes after all that
\* its process had a part in; the entry it completes is sent next.
LEMMA RecvTickPipe ==
  ASSUME PipeInv, NEW c \in Pipes, RecvTick(c), UNCHANGED envVars
  PROVE  PipeInv'
<1> USE DEF PipeInv
<1> DEFINE m == Head(chan[c])
           filled == SetPrice(Emplace(tickMap, m.T), m.T, m.id, m.p)
<1>1. /\ chan \in [Pipes -> Seq(Message)] /\ chan[c] # <<>>
      /\ chan' = [chan EXCEPT ![c] = Tail(chan[c])] /\ pc = "recv"
      /\ UNCHANGED <<t0, next, delivered, now, state>>
  BY DEF RecvTick, PriceInv, TypeOK, sourceVars, downVars, envVars
<1>2. m \in Message /\ m = chan[c][1] /\ 1 \in 1 .. Len(chan[c])
  BY <1>1
<1>3. PriceInv'
  BY RecvTickPrice
<1>4. ChanInv' /\ FlowInv' /\ \A d \in Pipes, T \in Nat : Spent(d, T) => Spent(d, T)'
  <2>1. Tail(chan[c]) \in Seq(Message) /\ Cut(chan[c], Tail(chan[c]))
    BY <1>1, TailCut
  <2>2. \A d \in Pipes \ {c} : chan'[d] = chan[d] /\ Cut(chan[d], chan[d])
    BY <1>1, EmptyCut
  <2>3. chan' \in [Pipes -> Seq(Message)] /\ \A d \in Pipes : Cut(chan[d], chan'[d])
    BY <1>1, <2>1, <2>2
  <2> QED
    BY <1>1, <2>3, CutQueues
<1>5. EnvInv' /\ LifeInv'
  BY <1>1, LivesKept DEF PriceInv, TypeOK
<1>6. CASE m.p = Null
  <2>1. tickMap' = EmptyMap
    BY <1>6 DEF RecvTick, Throws
  <2>2. UsedInv' /\ PairInv' /\ MetInv'
    BY <1>1, <1>4, <2>1, PricesKept
  <2> QED
    BY <1>3, <1>4, <1>5, <2>2
<1>7. CASE m.p # Null
  <2> PICK T \in Nat : T = m.T
    BY <1>2 DEF Message
  <2>1. /\ tickMap' = filled /\ ts' = T /\ m.id = IdOf[c] /\ m.p = <<c, T>> /\ IdOf[c] \in Sources
        /\ pc' = IF Complete(filled[T]) THEN "send" ELSE "recv"
    BY <1>2, <1>7, AlignerAssumption DEF RecvTick, Throws, PriceInv, ChanInv
  <2>2. Filled(tickMap, T, IdOf[c], <<c, T>>, filled)
    <3>1. MapType(tickMap)
      BY DEF PriceInv, TypeOK, MapType
    <3>2. <<c, T>> \in Price
      BY DEF Price
    <3> QED
      BY <2>1, <3>1, <3>2, FillEntry
  <2>3. Spent(c, T)' /\ \A U : Spent(c, U) => U < T
    <3>1. t0[c] <= T /\ T < next[c]
      BY <1>2 DEF FlowInv
    <3>2. \A k \in 1 .. Len(chan'[c]) : k + 1 \in 1 .. Len(chan[c]) /\ chan'[c][k] = chan[c][k + 1]
      BY <1>1
    <3>3. \A k \in 1 .. Len(chan'[c]) : T < chan'[c][k].T
      <4> SUFFICES ASSUME NEW k \in 1 .. Len(chan'[c]) PROVE T < chan[c][k + 1].T
        BY <3>2
      <4>1. k + 1 \in 1 .. Len(chan[c]) /\ 1 < k + 1
        BY <3>2
      <4> QED
        BY <1>2, <4>1 DEF FlowInv
    <3>4. \A U : Spent(c, U) => U < T
      BY <1>2 DEF Spent
    <3> QED
      BY <1>1, <3>1, <3>3, <3>4 DEF Spent
  <2>4. \A d \in Pipes, U \in Nat : Unset # <<d, U>>
    BY AlignerAssumption
  <2>5. DOMAIN tickMap \subseteq Nat /\ \A i \in DOMAIN delivered : delivered[i].T \in Nat
    BY DeliveredStamps DEF PriceInv, TypeOK
  <2> HIDE DEF m, filled
  <2>6. /\ DOMAIN filled = DOMAIN tickMap \cup {T}
        /\ \A t \in DOMAIN tickMap \ {T} : filled[t] = tickMap[t]
        /\ filled[T][IdOf[c]] = <<c, T>>
        /\ \A s \in Sources \ {IdOf[c]} :
             filled[T][s] = IF T \in DOMAIN tickMap THEN tickMap[T][s] ELSE Unset
    BY <2>2 DEF Filled
  <2>7. UsedInv'
    <3> SUFFICES ASSUME NEW s \in Sources, NEW d \in Pipes
                 PROVE  /\ \A t \in DOMAIN filled : filled[t][s] = <<d, t>> => Spent(d, t)'
                        /\ \A i \in DOMAIN delivered :
                             delivered[i].prices[s] = <<d, delivered[i].T>>
                               => Spent(d, delivered[i].T)'
      BY <1>1, <2>1 DEF UsedInv
    <3>1. ASSUME NEW i \in DOMAIN delivered, delivered[i].prices[s] = <<d, delivered[i].T>>
          PROVE  Spent(d, delivered[i].T)'
      <4>1. Spent(d, delivered[i].T) /\ delivered[i].T \in Nat
        BY <2>5, <3>1 DEF UsedInv
      <4> PICK U \in Nat : U = delivered[i].T
        BY <4>1
      <4>2. Spent(d, U)'
        BY <1>4, <4>1
      <4>3. delivered'[i].T = U
        BY <1>1
      <4> QED
        BY <4>2, <4>3 DEF Spent
    <3>2. ASSUME NEW t \in DOMAIN filled, filled[t][s] = <<d, t>>
          PROVE  Spent(d, t)'
      <4>1. CASE t = T /\ s = IdOf[c]
        BY <2>3, <2>6, <3>2, <4>1
      <4>2. CASE ~(t = T /\ s = IdOf[c])
        <5>1. t \in DOMAIN tickMap /\ tickMap[t][s] = <<d, t>>
          BY <2>4, <2>6, <3>2, <4>2
        <5> QED
          BY <1>4, <2>5, <5>1 DEF UsedInv
      <4> QED
        BY <4>1, <4>2
    <3> QED
      BY <3>1, <3>2
  <2>8. PairInv'
    <3>1. ASSUME NEW t \in DOMAIN filled, Complete(filled[t])
          PROVE  pc' = "send" /\ t = T
      BY <1>1, <2>1, <2>6, <3>1 DEF PairInv
    <3>2. ASSUME NEW t \in DOMAIN filled \ {T}, NEW i \in DOMAIN delivered
          PROVE  MayFollow(delivered[i].prices, delivered[i].T, filled[t], t)
      BY <2>6 DEF PairInv
    <3>3. ASSUME NEW i \in DOMAIN delivered
          PROVE  MayFollow(delivered[i].prices, delivered[i].T, filled[T], T)
      <4> DEFINE e == delivered[i].prices
                 U == delivered[i].T
      <4>1. Shared(e, U, filled[T], T, IdOf[c]) => U < T
        <5>1. Shared(e, U, filled[T], T, IdOf[c]) => e[IdOf[c]] = <<c, U>>
          BY <2>6 DEF Shared
        <5>2. e[IdOf[c]] = <<c, U>> => Spent(c, U)
          BY <2>1 DEF UsedInv
        <5> QED
          BY <2>3, <5>1, <5>2
      <4>2. ASSUME NEW s \in Sources \ {IdOf[c]}, Shared(e, U, filled[T], T, s)
            PROVE  U # T
        <5>1. T \in DOMAIN tickMap /\ filled[T][s] = tickMap[T][s]
          BY <2>4, <2>6, <4>2 DEF Shared
        <5>2. Shared(e, U, tickMap[T], T, s)
          BY <4>2, <5>1 DEF Shared
        <5> QED
          BY <5>1, <5>2 DEF PairInv, MayFollow
      <4>3. U \in Nat
        BY <2>5
      <4> HIDE DEF e, U
      <4>4. MayFollow(e, U, filled[T], T)
        BY <2>1, <4>1, <4>2, <4>3 DEF MayFollow
      <4> QED
        BY <4>4 DEF e, U
    <3>4. delivered' = delivered /\ tickMap' = filled /\ ts' = T
      BY <1>1, <2>1
    <3> QED
      BY <3>1, <3>2, <3>3, <3>4 DEF PairInv, MayFollow, Shared, Complete
  <2>9. MetInv'
    <3>1. delivered' = delivered /\ MetInv
      BY <1>1
    <3> QED
      BY <3>1 DEF MetInv, MayFollow, Shared
  <2> QED
    BY <1>3, <1>4, <1>5, <2>7, <2>8, <2>9
<1> QED
  BY <1>6, <1>7

\* The pair that is sent may follow all that was sent; the map has no other.
LEMMA SendAlignedPipe ==
  ASSUME PipeInv, SendAligned, UNCHANGED envVars
  PROVE  PipeInv'
<1> USE DEF PipeInv
<1> DEFINE e == tickMap[ts]
           a == [T |-> ts, prices |-> e]
           n == Len(delivered) + 1
<1>1. /\ UNCHANGED <<t0, next, chan, ts, now, state>>
      /\ ts \in DOMAIN tickMap /\ ts \in Nat
      /\ tickMap' = [t \in DOMAIN tickMap \ {ts} |-> tickMap[t]]
      /\ delivered \in Seq(AlignedTick) /\ delivered' = Append(delivered, a)
  BY DEF SendAligned, Erase, PriceInv, TypeOK, SendInv, sourceVars, envVars
<1>2. a \in AlignedTick /\ a.T = ts /\ a.prices = e
  BY <1>1 DEF PriceInv, TypeOK, AlignedTick
<1> HIDE DEF a
<1>3. /\ n \in Nat /\ DOMAIN delivered' = DOMAIN delivered \cup {n}
      /\ delivered'[n] = a
      /\ \A i \in DOMAIN delivered : i \in Nat /\ i < n /\ delivered'[i] = delivered[i]
  BY <1>1, <1>2
<1> HIDE DEF e, n
<1>4. /\ DOMAIN tickMap' = DOMAIN tickMap \ {ts}
      /\ \A t \in DOMAIN tickMap' : tickMap'[t] = tickMap[t]
  BY <1>1
<1>5. PriceInv'
  BY SendAlignedPrice
<1>6. FlowInv' /\ \A c, T : Spent(c, T)' <=> Spent(c, T)
  BY <1>1 DEF FlowInv, Spent
<1>7. EnvInv' /\ LifeInv'
  BY <1>1, LivesKept DEF PriceInv, TypeOK
<1>8. UsedInv'
  <2>1. UNCHANGED <<t0, next, chan>>
    BY <1>1
  <2> SUFFICES ASSUME NEW s \in Sources, NEW c \in Pipes
               PROVE  /\ \A t \in DOMAIN tickMap' :
                           tickMap'[t][s] = <<c, t>> => Spent(c, t)
                      /\ \A i \in DOMAIN delivered' :
                           delivered'[i].prices[s] = <<c, delivered'[i].T>>
                             => Spent(c, delivered'[i].T)
    BY <2>1 DEF UsedInv, Spent
  <2>2. \A t \in DOMAIN tickMap' : tickMap'[t][s] = <<c, t>> => Spent(c, t)
    BY <1>4 DEF UsedInv
  <2>3. \A i \in DOMAIN delivered :
          delivered[i].prices[s] = <<c, delivered[i].T>> => Spent(c, delivered[i].T)
    BY DEF UsedInv
  <2>4. e[s] = <<c, ts>> => Spent(c, ts)
    BY <1>1 DEF UsedInv, e
  <2> QED
    BY <1>2, <1>3, <2>2, <2>3, <2>4
<1>9. ASSUME NEW t \in DOMAIN tickMap' PROVE ~Complete(tickMap'[t])
  BY <1>4 DEF PairInv
<1>10. PairInv'
  <2>1. ASSUME NEW t \in DOMAIN tickMap', NEW i \in DOMAIN delivered'
        PROVE  MayFollow(delivered'[i].prices, delivered'[i].T, tickMap'[t], t)
    <3>1. CASE i \in DOMAIN delivered
      BY <1>3, <1>4, <2>1, <3>1 DEF PairInv
    <3>2. CASE i = n
      <4>1. ts # t
        BY <1>4
      <4>2. ~\A s \in Sources : Shared(e, ts, tickMap'[t], t, s)
        <5>1. PICK s \in Sources : tickMap'[t][s] = Unset
          BY <1>9 DEF Complete
        <5>2. t \in Nat
          BY <1>4 DEF PriceInv, TypeOK
        <5>3. ~Shared(e, ts, tickMap'[t], t, s)
          BY <5>1, <5>2, AlignerAssumption DEF Shared
        <5> QED
          BY <5>3
      <4>3. MayFollow(e, ts, tickMap'[t], t)
        BY <4>1, <4>2 DEF MayFollow
      <4> QED
        BY <1>2, <1>3, <3>2, <4>3
    <3> QED
      BY <1>3, <3>1, <3>2
  <2> QED
    BY <1>9, <2>1 DEF PairInv, MayFollow, Shared, Complete
<1>11. MetInv'
  <2>1. ASSUME NEW i \in DOMAIN delivered', NEW j \in DOMAIN delivered', i < j
        PROVE  MayFollow(delivered'[i].prices, delivered'[i].T,
                         delivered'[j].prices, delivered'[j].T)
    <3>1. CASE j \in DOMAIN delivered
      <4>1. i \in DOMAIN delivered
        BY <1>3, <2>1, <3>1
      <4> QED
        BY <1>3, <2>1, <3>1, <4>1 DEF MetInv
    <3>2. CASE j = n
      <4>1. i \in DOMAIN delivered
        BY <1>3, <2>1, <3>2
      <4>2. MayFollow(delivered[i].prices, delivered[i].T, e, ts)
        BY <1>1, <4>1 DEF PairInv, e
      <4> QED
        BY <1>2, <1>3, <3>2, <4>1, <4>2
    <3> QED
      BY <1>3, <3>1, <3>2
  <2> QED
    BY <2>1 DEF MetInv, MayFollow, Shared
<1> QED
  BY <1>5, <1>6, <1>7, <1>8, <1>10, <1>11

\* PipeInv is inductive.
LEMMA NextPipe == PipeInv /\ [PipelineNext]_pipelineVars => PipeInv'
BY StartAggregatorPipe, SendTickPipe, StopAggregatorPipe, OutsidePipe, AlignerLifePipe,
   RecvTickPipe, SendAlignedPipe DEF PipelineNext, AlignerStep
-----------------------------------------------------------------------------
\* Processes that stop and start never make the aligner pair prices of
\* different instants, or of one exchange (aligner.cpp:59-99).
THEOREM RestartsKeepPrices == PipelineSpec => [](TypeOK /\ PricesOfOneInstant)
<1>1. PipeInv => TypeOK /\ PricesOfOneInstant
  BY DEF PipeInv, PriceInv
<1> QED
  BY <1>1, InitPipe, NextPipe, PTL DEF PipelineSpec

\* Whatever is lost and whoever is restarted, the pairs made of the ticks of
\* the same two aggregators reach the strategy in increasing order, none twice.
THEOREM RestartsKeepOrder == PipelineSpec => []OrderWithinProcesses
<1>1. PipeInv => OrderWithinProcesses
  <2> SUFFICES ASSUME PipeInv, NEW i \in DOMAIN delivered, NEW j \in DOMAIN delivered,
                      i < j, delivered[i].T >= delivered[j].T,
                      \A s \in Sources : PipeOf(i, s) = PipeOf(j, s)
               PROVE  FALSE
    BY DEF OrderWithinProcesses
  <2>1. \A s \in Sources : Shared(delivered[i].prices, delivered[i].T,
                                  delivered[j].prices, delivered[j].T, s)
    BY DEF PipeInv, PriceInv, PricesOfOneInstant, PipeOf, Shared
  <2>2. delivered[i].T < delivered[j].T
    BY <2>1 DEF PipeInv, MetInv, MayFollow
  <2>3. delivered[i].T \in Nat /\ delivered[j].T \in Nat
    BY DeliveredStamps DEF PipeInv, PriceInv
  <2> QED
    BY <2>2, <2>3
<1> QED
  BY <1>1, InitPipe, NextPipe, PTL DEF PipelineSpec

\* A stamp comes twice only if each exchange had two processes that began with
\* it: two starts within one interval, each sending its first tick ahead of
\* time (aggregator.cpp:57-59).
THEOREM RedeliveryExplained == PipelineSpec => []RedeliveryNeedsRestarts
<1>1. PipeInv => RedeliveryNeedsRestarts
  <2> SUFFICES ASSUME PipeInv, NEW i \in DOMAIN delivered, NEW j \in DOMAIN delivered,
                      i < j, delivered[i].T = delivered[j].T, NEW s \in Sources
               PROVE  \E c, d \in Pipes : /\ c # d /\ IdOf[c] = s /\ IdOf[d] = s
                                          /\ t0[c] = delivered[i].T /\ t0[d] = delivered[i].T
    BY DEF RedeliveryNeedsRestarts
  <2> PICK T \in Nat : T = delivered[i].T
    BY DeliveredStamps DEF PipeInv, PriceInv
  <2>1. PICK c \in Pipes : IdOf[c] = s /\ delivered[i].prices[s] = <<c, T>>
    BY DEF PipeInv, PriceInv, PricesOfOneInstant
  <2>2. PICK d \in Pipes : IdOf[d] = s /\ delivered[j].prices[s] = <<d, T>>
    BY DEF PipeInv, PriceInv, PricesOfOneInstant
  <2>3. c # d
    BY <2>1, <2>2 DEF PipeInv, MetInv, MayFollow, Shared
  <2>4. Spent(c, T) /\ Spent(d, T)
    BY <2>1, <2>2 DEF PipeInv, UsedInv
  <2>5. /\ t0[c] \in Nat /\ t0[d] \in Nat /\ next[c] \in Nat /\ next[d] \in Nat
        /\ t0[c] <= T /\ T < next[c] /\ t0[d] <= T /\ T < next[d]
    BY <2>4 DEF Spent, PipeInv, PriceInv, TypeOK
  <2>6. Before(c, d) \/ Before(d, c)
    <3>1. state[c] # "idle" /\ state[d] # "idle"
      BY <2>5 DEF PipeInv, EnvInv
    <3> QED
      BY <2>1, <2>2, <2>3, <3>1 DEF PipeInv, LifeInv
  <2>7. t0[c] = T /\ t0[d] = T
    BY <2>5, <2>6 DEF Before
  <2> QED
    BY <2>1, <2>2, <2>3, <2>7
<1> QED
  BY <1>1, InitPipe, NextPipe, PTL DEF PipelineSpec
=============================================================================
