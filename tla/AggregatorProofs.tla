-------------------------- MODULE AggregatorProofs --------------------------
(***************************************************************************)
(* Theorems about an aggregator process, for every queue size, interval,   *)
(* high-water mark and bound on the trades.                                *)
(***************************************************************************)
EXTENDS Aggregator, TLAPS

(* Indices modulo the size of the ring. *)

\* A remainder is an index of the ring.
LEMMA ModRange ==
  ASSUME NEW S \in Nat \ {0}, NEW a \in Nat
  PROVE  a % S \in 0 .. S - 1 /\ a % S <= a /\ (a < S => a % S = a)
<1>1. a % S \in 0 .. S - 1
  OBVIOUS
<1>2. a < S => a % S = a
  OBVIOUS
<1> QED
  BY <1>1, <1>2

\* A number below S that differs from a by a multiple of S is a % S.
LEMMA ModUnique ==
  ASSUME NEW S \in Nat \ {0}, NEW a \in Int, NEW q \in Int, NEW r \in 0 .. S - 1,
         a = (S * q) + r
  PROVE  a % S = r
OBVIOUS

\* Every number is its quotient times S, plus its remainder.
LEMMA ModSplit ==
  ASSUME NEW S \in Nat \ {0}, NEW a \in Nat
  PROVE  \E q \in Int : a = (S * q) + (a % S)
<1>1. a = (S * (a \div S)) + (a % S) /\ a \div S \in Int
  OBVIOUS
<1> QED
  BY <1>1

\* (end + 1) % size is the index of the next count.
LEMMA ModSucc ==
  ASSUME NEW S \in Nat \ {0, 1}, NEW a \in Nat
  PROVE  (a + 1) % S = ((a % S) + 1) % S
<1> DEFINE r == a % S
<1>1. r \in 0 .. S - 1
  BY ModRange
<1>2. PICK q \in Int : a = (S * q) + r
  BY ModSplit
<1> HIDE DEF r
<1>3. CASE r = S - 1
  <2>1. a + 1 = (S * (q + 1)) + 0
    BY <1>2, <1>3
  <2>2. (a + 1) % S = 0
    <3>1. a + 1 \in Int /\ q + 1 \in Int /\ 0 \in 0 .. S - 1
      OBVIOUS
    <3> QED
      BY <2>1, <3>1, ModUnique
  <2>3. (r + 1) % S = 0
    BY <1>3
  <2> QED
    BY <2>2, <2>3 DEF r
<1>4. CASE r # S - 1
  <2>1. r + 1 \in 0 .. S - 1
    BY <1>1, <1>4
  <2>2. a + 1 = (S * q) + (r + 1)
    BY <1>1, <1>2
  <2>3. (a + 1) % S = r + 1
    <3>1. a + 1 \in Int
      OBVIOUS
    <3> QED
      BY <2>1, <2>2, <3>1, ModUnique
  <2>4. (r + 1) % S = r + 1
    BY <2>1
  <2> QED
    BY <2>3, <2>4 DEF r
<1> QED
  BY <1>3, <1>4

\* Two counts at most S apart have the same index only if they are equal or
\* exactly S apart.
LEMMA ModSame ==
  ASSUME NEW S \in Nat \ {0}, NEW a \in Nat, NEW b \in Nat, b <= a, a - b <= S,
         a % S = b % S
  PROVE  a = b \/ a = b + S
<1> DEFINE r == a % S
<1>1. r \in 0 .. S - 1
  BY ModRange
<1>2. PICK q \in Int : a = (S * q) + r
  BY ModSplit
<1>3. PICK k \in Int : b = (S * k) + r
  BY ModSplit
<1> HIDE DEF r
<1>4. a - b = S * (q - k)
  BY <1>1, <1>2, <1>3
<1>5. PICK d \in Int : d = q - k
  OBVIOUS
<1>6. 0 <= S * d /\ S * d <= S
  BY <1>4, <1>5
<1>7. d = 0 \/ d = 1
  <2>1. d < 0 => S * d < 0
    OBVIOUS
  <2>2. d > 1 => S * d > S
    OBVIOUS
  <2> QED
    BY <1>6, <2>1, <2>2
<1> QED
  BY <1>4, <1>5, <1>7

\* The test of push, (end + 1) % size != start, fails exactly when size - 1
\* trades wait, if never more than that did.
LEMMA FullMeansFull ==
  ASSUME NEW a \in Nat, NEW b \in Nat, b <= a, a - b < Size
  PROVE  Full(b % Size, a % Size) <=> a - b = Size - 1
<1> USE AggregatorAssumption
<1>1. NextEnd(a % Size) = (a + 1) % Size
  BY ModSucc DEF NextEnd
<1>2. ASSUME (a + 1) % Size = b % Size PROVE a - b = Size - 1
  <2>1. Size \in Nat \ {0} /\ a + 1 \in Nat /\ b <= a + 1 /\ (a + 1) - b <= Size
    OBVIOUS
  <2>2. a + 1 = b \/ a + 1 = b + Size
    BY <1>2, <2>1, ModSame
  <2> QED
    BY <2>2
<1>3. ASSUME a - b = Size - 1 PROVE (a + 1) % Size = b % Size
  <2>1. PICK q \in Int : b = (Size * q) + (b % Size)
    BY ModSplit
  <2>2. b % Size \in 0 .. Size - 1
    BY ModRange
  <2>3. a + 1 = (Size * (q + 1)) + (b % Size)
    BY <1>3, <2>1, <2>2
  <2>4. Size \in Nat \ {0} /\ a + 1 \in Int /\ q + 1 \in Int
    OBVIOUS
  <2> QED
    BY <2>2, <2>3, <2>4, ModUnique
<1> QED
  BY <1>1, <1>2, <1>3 DEF Full
-----------------------------------------------------------------------------
(* Type correctness. *)

\* A message that is being pushed still holds a trade, and an element that is
\* in the vector and not yet published is its last.
BatchInv ==
  /\ mpc \in {"check", "store", "repoint", "publish"} => batch # <<>>
  /\ mpc \in {"repoint", "publish"} => Len(queue) >= 1

TypeInv == TypeOK /\ BatchInv

\* get_closest_tp returns the first multiple of the interval after t.
LEMMA ClosestTpLater ==
  ASSUME NEW t \in Nat
  PROVE  /\ ClosestTp(t) \in Nat
         /\ ClosestTp(t) > t
         /\ ClosestTp(t) <= t + Interval
         /\ ClosestTp(t) % Interval = 0
<1> USE AggregatorAssumption
<1>1. PICK q \in Int : t = (Interval * q) + (t % Interval)
  BY ModSplit
<1>2. t % Interval \in 0 .. Interval - 1 /\ t % Interval <= t
  BY ModRange
<1>3. ClosestTp(t) = (Interval * (q + 1)) + 0
  BY <1>1, <1>2 DEF ClosestTp
<1>4. ClosestTp(t) \in Nat /\ ClosestTp(t) > t /\ ClosestTp(t) <= t + Interval
  BY <1>2 DEF ClosestTp
<1>5. ClosestTp(t) % Interval = 0
  <2>1. ClosestTp(t) \in Int /\ q + 1 \in Int /\ 0 \in 0 .. Interval - 1
    BY <1>4
  <2> QED
    BY <1>3, <2>1, ModUnique
<1> QED
  BY <1>4, <1>5

\* The initial states have the right types.
LEMMA InitType == Init => TypeInv
<1> SUFFICES ASSUME Init PROVE TypeInv
  OBVIOUS
<1> USE AggregatorAssumption
<1>1. now \in Nat
  BY DEF Init
<1>2. nextStart \in Nat /\ t0 \in Nat
  BY <1>1, ClosestTpLater DEF Init
<1>3. batch \in Seq(Nat) /\ queue \in Seq(Nat) /\ out \in Seq(Tick)
  BY DEF Init
<1> QED
  BY <1>1, <1>2, <1>3 DEF Init, TypeInv, TypeOK, BatchInv, Reserved

\* The main thread: NextTrade and its callers.
LEMMA NextTradeType ==
  ASSUME TypeInv, batch # <<>>, NextTrade
  PROVE  /\ batch' \in Seq(Nat)
         /\ mpc' \in {"recv", "check"}
         /\ mpc' = "check" => batch' # <<>>
<1>1. batch \in Seq(Nat)
  BY DEF TypeInv, TypeOK
<1>2. Tail(batch) \in Seq(Nat) /\ Len(Tail(batch)) = Len(batch) - 1 /\ Len(batch) \in Nat
  BY <1>1
<1>3. Len(batch) # 1 => Tail(batch) # <<>>
  <2>1. Len(batch) # 1 => Len(Tail(batch)) # 0
    BY <1>2
  <2> QED
    BY <2>1
<1> QED
  BY <1>2, <1>3 DEF NextTrade

\* The steps of the main thread keep the types.
LEMMA MainType ==
  ASSUME TypeInv, (\E n \in 0 .. MaxBatch : Recv(n)) \/ Main
  PROVE  TypeInv'
<1> USE AggregatorAssumption DEF TypeInv
<1>1. ASSUME NEW n \in 0 .. MaxBatch, Recv(n) PROVE TypeInv'
  <2>1. /\ arrived' = arrived + n /\ arrived \in Nat /\ n \in Nat
        /\ batch' = [i \in 1 .. n |-> arrived + i]
        /\ mpc' \in {"check", "recv", "terminated"} /\ (mpc' = "check" => n > 0)
    BY <1>1 DEF Recv, TypeOK
  <2>2. batch' \in Seq(Nat) /\ Len(batch') = n
    BY <2>1
  <2>3. BatchInv'
    BY <2>1, <2>2 DEF BatchInv
  <2> QED
    BY <1>1, <2>1, <2>2, <2>3 DEF Recv, TypeOK, heap, execVars
<1>2. CASE CheckFull
  <2>1. batch # <<>>
    BY <1>2 DEF CheckFull, BatchInv
  <2>2. batch' \in Seq(Nat) /\ mpc' \in {"recv", "check", "store"} /\ BatchInv'
    BY <1>2, <2>1, NextTradeType DEF CheckFull, TypeOK, BatchInv, heap
  <2> QED
    BY <1>2, <2>2 DEF CheckFull, TypeOK, heap, execVars
<1>3. CASE PushBack
  <2>1. batch # <<>> /\ batch \in Seq(Nat) /\ queue \in Seq(Nat)
    BY <1>3 DEF PushBack, BatchInv, TypeOK
  <2>2. queue' \in Seq(Nat) /\ Len(queue') >= 1
    BY <1>3, <2>1 DEF PushBack
  <2>3. /\ mpc' \in {"publish", "repoint"} /\ batch' = batch
        /\ cap' \in Nat \ {0} /\ live' \in Nat
    BY <1>3 DEF PushBack, TypeOK
  <2> QED
    BY <1>3, <2>1, <2>2, <2>3 DEF PushBack, TypeOK, BatchInv, execVars
<1>4. CASE Repoint
  BY <1>4 DEF Repoint, TypeOK, BatchInv, execVars
<1>5. CASE Publish
  <2>1. batch # <<>>
    BY <1>5 DEF Publish, BatchInv
  <2>2. batch' \in Seq(Nat) /\ mpc' \in {"recv", "check"} /\ BatchInv'
    BY <1>5, <2>1, NextTradeType DEF Publish, BatchInv
  <2>3. end' \in 0 .. Size - 1
    BY <1>5 DEF Publish, NextEnd, TypeOK
  <2> QED
    BY <1>5, <2>2, <2>3 DEF Publish, TypeOK, heap, execVars
<1> QED
  BY <1>1, <1>2, <1>3, <1>4, <1>5 DEF Main

\* The steps of the consumer thread keep the types.
LEMMA ConsumerType ==
  ASSUME TypeInv, Consumer
  PROVE  TypeInv'
<1> USE AggregatorAssumption DEF TypeInv
<1>1. BatchInv'
  BY DEF Consumer, LoadIndex, LoadBase, CopyElement, LoadEnd, StoreStart, Send, Wake,
         BatchInv, mainVars, heap
<1>2. CASE LoadIndex
  <2>1. idx' \in 0 .. Size - 1 /\ seen' \in Nat
    <3>1. Published \in Nat
      BY DEF Published, TypeOK, BatchInv
    <3> QED
      BY <1>2, <3>1 DEF LoadIndex, ReadIndex, TypeOK
  <2> QED
    BY <1>1, <1>2, <2>1 DEF LoadIndex, TypeOK, mainVars, heap
<1>3. CASE LoadBase
  BY <1>1, <1>3 DEF LoadBase, TypeOK, mainVars, heap
<1>4. CASE CopyElement
  <2>1. closing' \in Nat \cup {Garbage}
    <3>1. idx + 1 \in 1 .. Len(queue) => queue[idx + 1] \in Nat
      BY DEF TypeOK
    <3>2. idx < Len(queue) => idx + 1 \in 1 .. Len(queue)
      BY DEF TypeOK
    <3> QED
      BY <1>4, <3>1, <3>2 DEF CopyElement, Element, TypeOK
  <2> QED
    BY <1>1, <1>4, <2>1 DEF CopyElement, TypeOK, mainVars, heap
<1>5. CASE LoadEnd
  <2>1. taking' \in Nat
    BY <1>5 DEF LoadEnd, Published, TypeOK, BatchInv
  <2> QED
    BY <1>1, <1>5, <2>1 DEF LoadEnd, TypeOK, mainVars, heap
<1>6. CASE StoreStart
  BY <1>1, <1>6 DEF StoreStart, TypeOK, mainVars, heap, execVars
<1>7. CASE Send
  <2>1. PICK p \in Dumped(closing) : out' = Append(out, [T |-> nextStart, p |-> p])
    BY <1>7 DEF Send
  <2>2. p \in Nat \cup {Garbage, Null}
    BY DEF Dumped, TypeOK
  <2>3. [T |-> nextStart, p |-> p] \in Tick
    BY <2>2 DEF Tick, TypeOK
  <2>4. out' \in Seq(Tick)
    BY <2>1, <2>3 DEF TypeOK
  <2>5. nextStart' \in Nat
    BY <1>7 DEF Send, NextStamp, TypeOK
  <2> QED
    BY <1>1, <1>7, <2>4, <2>5 DEF Send, TypeOK, mainVars, heap, execVars
<1>8. CASE Wake
  BY <1>1, <1>8 DEF Wake, TypeOK, mainVars, heap, execVars
<1> QED
  BY <1>2, <1>3, <1>4, <1>5, <1>6, <1>7, <1>8 DEF Consumer

\* The steps of the aligner and of the clock keep the types.
LEMMA EnvironmentType ==
  ASSUME TypeInv, AlignerRecv \/ ClockTick \/ UNCHANGED vars
  PROVE  TypeInv'
<1> USE AggregatorAssumption DEF TypeInv
<1>1. BatchInv'
  BY DEF AlignerRecv, ClockTick, vars, BatchInv, mainVars, heap
<1>2. CASE AlignerRecv
  <2>1. out \in Seq(Tick) /\ out # <<>> /\ out' = Tail(out)
    BY <1>2 DEF AlignerRecv, TypeOK
  <2>2. out' \in Seq(Tick)
    BY <2>1
  <2> QED
    BY <1>1, <1>2, <2>2 DEF AlignerRecv, TypeOK, mainVars, heap, execVars
<1>3. CASE ClockTick
  BY <1>1, <1>3 DEF ClockTick, TypeOK, mainVars, heap, execVars
<1>4. CASE UNCHANGED vars
  BY <1>1, <1>4 DEF vars, TypeOK, mainVars, heap, execVars
<1> QED
  BY <1>2, <1>3, <1>4

\* Every step keeps the types.
LEMMA NextType == TypeInv /\ [Next]_vars => TypeInv'
BY MainType, ConsumerType, EnvironmentType DEF Next

\* The variables of the two threads keep their types; the indices stay in the
\* reserved part of the ring.
THEOREM TypeCorrect == Spec => []TypeOK
<1>1. TypeInv => TypeOK
  BY DEF TypeInv
<1> QED
  BY <1>1, InitType, NextType, PTL DEF Spec
-----------------------------------------------------------------------------
(* The ring.  RingInv is not inductive: a push acts on the `start` it read  *)
(* when it tested for room, and exec stores an `end` it read earlier.  Both *)
(* stale values are on the safe side, because each index has one writer.    *)

\* The room found by the test of push is still there when the trade goes in.
RoomInv == mpc \in {"store", "repoint", "publish"} => Published - collected < Size - 1

\* The value about to be stored in `start` collects no less than the last one
\* and no more than what is published.
TakeInv ==
  cpc = "storeStart" =>
    newStart = taking % Size /\ collected <= taking /\ taking <= Published

RingInd == TypeInv /\ RingInv /\ RoomInv /\ TakeInv

\* The number of published trades is a number.
LEMMA PublishedIsNat == TypeInv => Published \in Nat
BY DEF TypeInv, TypeOK, BatchInv, Published

\* The number of published trades changes in Publish only, by one.
LEMMA PublishedStep ==
  ASSUME TypeInv
  PROVE  /\ Publish => Published' = Published + 1
         /\ (\/ \E n \in 0 .. MaxBatch : Recv(n)
             \/ CheckFull \/ PushBack \/ Repoint \/ Consumer
             \/ AlignerRecv \/ ClockTick \/ UNCHANGED vars) => Published' = Published
<1> USE DEF TypeInv, TypeOK
<1>1. Publish => Published' = Published + 1
  BY DEF Publish, NextTrade, Published, heap
<1>2. (\E n \in 0 .. MaxBatch : Recv(n)) => Published' = Published
  BY DEF Recv, Published, heap
<1>3. CheckFull \/ Repoint => Published' = Published
  BY DEF CheckFull, NextTrade, Repoint, Published, heap
<1>4. PushBack => Published' = Published
  <2> SUFFICES ASSUME PushBack PROVE Published' = Published
    OBVIOUS
  <2>1. batch # <<>> /\ batch \in Seq(Nat) /\ queue \in Seq(Nat)
    BY DEF PushBack, BatchInv
  <2>2. Len(queue') = Len(queue) + 1
    BY <2>1 DEF PushBack
  <2> QED
    BY <2>1, <2>2 DEF PushBack, Published
<1>5. Consumer => Published' = Published
  BY DEF Consumer, LoadIndex, LoadBase, CopyElement, LoadEnd, StoreStart, Send, Wake,
         Published, mainVars, heap
<1>6. AlignerRecv \/ ClockTick \/ UNCHANGED vars => Published' = Published
  BY DEF AlignerRecv, ClockTick, vars, mainVars, heap, Published
<1> QED
  BY <1>1, <1>2, <1>3, <1>4, <1>5, <1>6

\* Nothing is published or collected at first.
LEMMA InitRing == Init => RingInd
<1> SUFFICES ASSUME Init PROVE RingInv /\ RoomInv /\ TakeInv
  BY InitType DEF RingInd
<1> USE AggregatorAssumption
<1>1. Published = 0 /\ collected = 0 /\ start = 0 /\ end = 0
  BY DEF Init, Published
<1>2. 0 % Size = 0
  OBVIOUS
<1> QED
  BY <1>1, <1>2 DEF Init, RingInv, RoomInv, TakeInv

\* Every step keeps the indices equal to the counts, modulo Size.
LEMMA NextRing == RingInd /\ [Next]_vars => RingInd'
<1> SUFFICES ASSUME RingInd, [Next]_vars PROVE RingInv' /\ RoomInv' /\ TakeInv'
  BY NextType DEF RingInd
<1> USE AggregatorAssumption
<1>1. TypeInv /\ RingInv /\ RoomInv /\ TakeInv
  BY DEF RingInd
<1>2. Published \in Nat /\ collected \in Nat /\ taking \in Nat
  BY <1>1, PublishedIsNat DEF TypeInv, TypeOK
<1>3. CASE \E n \in 0 .. MaxBatch : Recv(n)
  <2>1. Published' = Published /\ mpc' \in {"check", "recv", "terminated"}
    BY <1>1, <1>3, PublishedStep DEF Recv
  <2>2. UNCHANGED <<start, end, cpc, newStart, taking, collected>>
    BY <1>3 DEF Recv, execVars
  <2> QED
    BY <1>1, <2>1, <2>2 DEF RingInv, RoomInv, TakeInv
<1>4. CASE CheckFull
  <2>1. Published' = Published /\ UNCHANGED <<start, end, cpc, newStart, taking, collected>>
    BY <1>1, <1>4, PublishedStep DEF CheckFull, execVars
  <2>2. mpc' = "store" => Published - collected < Size - 1
    <3>1. mpc' = "store" => ~Full(start, end)
      BY <1>4 DEF CheckFull, NextTrade
    <3>2. Full(start, end) <=> Published - collected = Size - 1
      BY <1>1, <1>2, FullMeansFull DEF RingInv
    <3> QED
      BY <1>1, <1>2, <3>1, <3>2 DEF RingInv
  <2>3. mpc' \in {"store", "recv", "check"}
    BY <1>4 DEF CheckFull, NextTrade
  <2> QED
    BY <1>1, <2>1, <2>2, <2>3 DEF RingInv, RoomInv, TakeInv
<1>5. CASE PushBack \/ Repoint
  <2>1. Published' = Published /\ UNCHANGED <<start, end, cpc, newStart, taking, collected>>
    BY <1>1, <1>5, PublishedStep DEF PushBack, Repoint, execVars
  <2>2. mpc \in {"store", "repoint"}
    BY <1>5 DEF PushBack, Repoint
  <2> QED
    BY <1>1, <2>1, <2>2 DEF RingInv, RoomInv, TakeInv
<1>6. CASE Publish
  <2>1. Published' = Published + 1 /\ UNCHANGED <<start, cpc, newStart, taking, collected>>
    BY <1>1, <1>6, PublishedStep DEF Publish, execVars
  <2>2. mpc = "publish" /\ mpc' \in {"recv", "check"} /\ end' = NextEnd(end)
    BY <1>6 DEF Publish, NextTrade
  <2>3. Published - collected < Size - 1
    BY <1>1, <2>2 DEF RoomInv
  <2>4. end' = (Published + 1) % Size
    BY <1>1, <1>2, <2>2, ModSucc DEF RingInv, NextEnd
  <2>5. RingInv'
    BY <1>1, <1>2, <2>1, <2>3, <2>4 DEF RingInv
  <2>6. RoomInv' /\ TakeInv'
    BY <1>1, <1>2, <2>1, <2>2 DEF RoomInv, TakeInv
  <2> QED
    BY <2>5, <2>6
<1>7. CASE LoadEnd
  <2>1. /\ Published' = Published /\ UNCHANGED <<mpc, start, end, collected>>
        /\ newStart' = end /\ taking' = Published
    BY <1>1, <1>7, PublishedStep DEF LoadEnd, Consumer, mainVars
  <2> QED
    BY <1>1, <1>2, <2>1 DEF RingInv, RoomInv, TakeInv
<1>8. CASE StoreStart
  <2>1. /\ Published' = Published /\ UNCHANGED <<mpc, end>>
        /\ cpc = "storeStart" /\ cpc' = "send"
        /\ start' = newStart /\ collected' = taking
    BY <1>1, <1>8, PublishedStep DEF StoreStart, Consumer, mainVars
  <2> QED
    BY <1>1, <1>2, <2>1 DEF RingInv, RoomInv, TakeInv
<1>9. CASE LoadIndex \/ LoadBase \/ CopyElement \/ Send \/ Wake
  <2>1. Published' = Published /\ UNCHANGED <<mpc, start, end, collected>>
    BY <1>1, <1>9, PublishedStep
       DEF Consumer, LoadIndex, LoadBase, CopyElement, Send, Wake, mainVars
  <2>2. cpc' # "storeStart"
    BY <1>9 DEF LoadIndex, LoadBase, CopyElement, Send, Wake
  <2> QED
    BY <1>1, <2>1, <2>2 DEF RingInv, RoomInv, TakeInv
<1>10. CASE AlignerRecv \/ ClockTick \/ UNCHANGED vars
  <2>1. /\ Published' = Published
        /\ UNCHANGED <<mpc, start, end, cpc, newStart, taking, collected>>
    BY <1>1, <1>10, PublishedStep DEF AlignerRecv, ClockTick, vars, mainVars, execVars
  <2> QED
    BY <1>1, <2>1 DEF RingInv, RoomInv, TakeInv
<1> QED
  BY <1>3, <1>4, <1>5, <1>6, <1>7, <1>8, <1>9, <1>10 DEF Next, Main, Consumer

\* The unlocked indices of the CircularQueue stay unambiguous, in every
\* interleaving of push and exec: `start` and `end` stand for counts less than
\* size apart, although each thread acts on a stale copy of the other's index.
THEOREM RingUnambiguous == Spec => []RingInv
<1>1. RingInd => RingInv
  BY DEF RingInd
<1> QED
  BY <1>1, InitRing, NextRing, PTL DEF Spec
-----------------------------------------------------------------------------
(* The price exec reads without a lock. *)

\* Blocks only grow in number, and only after the reserved capacity is used up.
HeapInv ==
  /\ cap >= Size
  /\ storage <= live /\ base <= live
  /\ live > 0 => Len(queue) > Size

\* exec's index was computed from the trades published at its first load.
SeenInv ==
  cpc \in {"base", "copy", "loadEnd", "storeStart", "send"} =>
    idx = ReadIndex(seen % Size) /\ seen <= Published

ReadInd == RingInd /\ HeapInv /\ SeenInv /\ ClosingIsLatest /\ GarbageCauses

\* Once a trade is published, the index exec reads is that of a stored element,
\* and of the newest while the indices have not wrapped.
LEMMA ReadIndexInside ==
  ASSUME NEW n \in Nat, n > 0
  PROVE  /\ ReadIndex(n % Size) \in Nat /\ ReadIndex(n % Size) < n
         /\ n < Size => ReadIndex(n % Size) + 1 = n
<1> USE AggregatorAssumption
<1>1. n % Size \in 0 .. Size - 1 /\ n % Size <= n /\ (n < Size => n % Size = n)
  BY ModRange
<1> QED
  BY <1>1 DEF ReadIndex

\* No price is pending at first.
LEMMA InitRead == Init => ReadInd
<1> SUFFICES ASSUME Init PROVE HeapInv /\ SeenInv /\ ClosingIsLatest /\ GarbageCauses
  BY InitRing DEF ReadInd
<1> USE AggregatorAssumption
<1> QED
  BY DEF Init, HeapInv, SeenInv, ClosingIsLatest, GarbageCauses, Holding, Reserved

\* Every step keeps what is known of the price being read.
LEMMA NextRead == ReadInd /\ [Next]_vars => ReadInd'
<1> SUFFICES ASSUME ReadInd, [Next]_vars
             PROVE  HeapInv' /\ SeenInv' /\ ClosingIsLatest' /\ GarbageCauses'
  BY NextRing DEF ReadInd
<1> USE AggregatorAssumption
<1>1. TypeInv /\ HeapInv /\ SeenInv /\ ClosingIsLatest /\ GarbageCauses
  BY DEF ReadInd, RingInd
<1>2. /\ queue \in Seq(Nat) /\ Len(queue) \in Nat /\ cap \in Nat /\ live \in Nat
      /\ storage \in Nat /\ base \in Nat /\ seen \in Nat /\ idx \in Nat
      /\ closing \in Nat \cup {Garbage}
      /\ Published \in Nat /\ Published <= Len(queue)
  BY <1>1, PublishedIsNat DEF TypeInv, TypeOK, Published
<1>3. CASE PushBack
  <2>1. batch # <<>> /\ batch \in Seq(Nat)
    BY <1>1, <1>3 DEF TypeInv, TypeOK, BatchInv, PushBack
  <2>2. /\ Len(queue') = Len(queue) + 1
        /\ \A i \in 1 .. Len(queue) : queue'[i] = queue[i]
    BY <1>2, <1>3, <2>1 DEF PushBack
  <2>3. /\ UNCHANGED <<storage, base, cpc, idx, seen, closing>>
        /\ (cap' = cap /\ live' = live)
             \/ (Len(queue) >= cap /\ cap' = 2 * cap /\ live' = live + 1)
    BY <1>1, <1>2, <1>3 DEF PushBack, execVars
  <2>4. HeapInv'
    BY <1>1, <1>2, <2>2, <2>3 DEF HeapInv
  <2>5. SeenInv'
    BY <1>1, <1>3, <2>3, PublishedStep DEF SeenInv
  <2>6. ClosingIsLatest'
    <3>1. base = live' => base = live
      BY <1>1, <1>2, <2>3 DEF HeapInv
    <3>2. Holding => seen <= Len(queue)
      BY <1>1, <1>2 DEF SeenInv, Holding
    <3>3. Holding /\ seen > 0 => seen \in 1 .. Len(queue)
      BY <1>2, <3>2
    <3> QED
      BY <1>1, <2>2, <2>3, <3>1, <3>3 DEF ClosingIsLatest, Holding
  <2>7. GarbageCauses'
    BY <1>1, <1>2, <2>2, <2>3 DEF GarbageCauses, Holding
  <2> QED
    BY <2>4, <2>5, <2>6, <2>7
<1>4. CASE (\E n \in 0 .. MaxBatch : Recv(n)) \/ CheckFull \/ Repoint \/ Publish
  <2>1. UNCHANGED <<queue, cap, live, base, cpc, idx, seen, closing>>
    BY <1>4 DEF Recv, CheckFull, Repoint, Publish, heap, execVars
  <2>2. storage' \in {storage, live}
    BY <1>4 DEF Recv, CheckFull, Repoint, Publish, heap
  <2>3. Published' \in {Published, Published + 1}
    BY <1>1, <1>4, PublishedStep
  <2>4. HeapInv'
    BY <1>1, <1>2, <2>1, <2>2 DEF HeapInv
  <2>5. SeenInv'
    BY <1>1, <1>2, <2>1, <2>3 DEF SeenInv
  <2> QED
    BY <1>1, <2>1, <2>4, <2>5 DEF ClosingIsLatest, GarbageCauses, Holding
<1>5. CASE LoadIndex
  <2>1. /\ idx' = ReadIndex(end) /\ seen' = Published /\ cpc' = "base"
        /\ UNCHANGED <<queue, cap, storage, live, base, closing>>
        /\ Published' = Published
    BY <1>1, <1>5, PublishedStep DEF LoadIndex, Consumer, heap
  <2>2. end = Published % Size
    BY DEF ReadInd, RingInd, RingInv
  <2> QED
    BY <1>1, <1>2, <2>1, <2>2
       DEF HeapInv, SeenInv, ClosingIsLatest, GarbageCauses, Holding
<1>6. CASE LoadBase
  <2>1. /\ base' = storage /\ cpc = "base" /\ cpc' = "copy"
        /\ UNCHANGED <<queue, cap, storage, live, idx, seen, closing>>
        /\ Published' = Published
    BY <1>1, <1>6, PublishedStep DEF LoadBase, Consumer, heap
  <2> QED
    BY <1>1, <1>2, <2>1
       DEF HeapInv, SeenInv, ClosingIsLatest, GarbageCauses, Holding
<1>7. CASE CopyElement
  <2>1. /\ closing' \in Element /\ cpc = "copy" /\ cpc' = "loadEnd"
        /\ UNCHANGED <<queue, cap, storage, live, idx, base, seen>>
        /\ Published' = Published
    BY <1>1, <1>7, PublishedStep DEF CopyElement, Consumer, heap
  <2>2. idx = ReadIndex(seen % Size) /\ seen <= Len(queue)
    BY <1>1, <1>2, <2>1 DEF SeenInv
  <2>3. seen > 0 => idx < Len(queue)
    BY <1>2, <2>2, ReadIndexInside
  <2>4. seen > 0 /\ seen < Size => idx + 1 = seen
    BY <1>2, <2>2, ReadIndexInside
  <2>5. HeapInv' /\ SeenInv'
    BY <1>1, <2>1 DEF HeapInv, SeenInv
  <2>6. ClosingIsLatest'
    BY <1>2, <2>1, <2>3, <2>4 DEF ClosingIsLatest, Element
  <2>7. GarbageCauses'
    <3> SUFFICES ASSUME closing' = Garbage, seen > 0 PROVE Len(queue) > Size
      BY <1>2, <2>1 DEF GarbageCauses
    <3>1. idx + 1 \in 1 .. Len(queue)
      BY <1>2, <2>3
    <3>2. queue[idx + 1] # Garbage
      BY <1>2, <3>1
    <3>3. base # live
      BY <1>2, <2>1, <2>3, <3>2 DEF Element
    <3> QED
      BY <1>1, <1>2, <3>3 DEF HeapInv
  <2> QED
    BY <2>5, <2>6, <2>7
<1>8. CASE LoadEnd \/ StoreStart
  <2>1. /\ UNCHANGED <<queue, cap, storage, live, idx, base, seen, closing>>
        /\ Published' = Published
        /\ cpc \in {"loadEnd", "storeStart"} /\ cpc' \in {"storeStart", "send"}
    BY <1>1, <1>8, PublishedStep DEF LoadEnd, StoreStart, Consumer, heap, execVars
  <2> QED
    BY <1>1, <2>1 DEF HeapInv, SeenInv, ClosingIsLatest, GarbageCauses, Holding
<1>9. CASE Send \/ Wake
  <2>1. /\ UNCHANGED <<queue, cap, storage, live, base>>
        /\ cpc' \in {"sleep", "exec"}
    BY <1>9 DEF Send, Wake, heap, execVars
  <2> QED
    BY <1>1, <2>1 DEF HeapInv, SeenInv, ClosingIsLatest, GarbageCauses, Holding
<1>10. CASE AlignerRecv \/ ClockTick \/ UNCHANGED vars
  <2>1. /\ UNCHANGED <<queue, cap, storage, live, idx, base, seen, closing, cpc>>
        /\ Published' = Published
    BY <1>1, <1>10, PublishedStep DEF AlignerRecv, ClockTick, vars, heap, execVars
  <2> QED
    BY <1>1, <2>1 DEF HeapInv, SeenInv, ClosingIsLatest, GarbageCauses, Holding
<1> QED
  BY <1>3, <1>4, <1>5, <1>6, <1>7, <1>8, <1>9, <1>10 DEF Next, Main, Consumer

\* Until the indices wrap, exec returns the newest trade published at its first
\* load, unless push_back moved the vector while it read.
THEOREM ClosingCorrect == Spec => []ClosingIsLatest
<1>1. ReadInd => ClosingIsLatest
  BY DEF ReadInd
<1> QED
  BY <1>1, InitRead, NextRead, PTL DEF Spec

\* Memory that holds no trade is read only before the first trade, or after
\* the reserved capacity was outgrown.
THEOREM GarbageOnlyThen == Spec => []GarbageCauses
<1>1. ReadInd => GarbageCauses
  BY DEF ReadInd
<1> QED
  BY <1>1, InitRead, NextRead, PTL DEF Spec
-----------------------------------------------------------------------------
(* The ring implements the counter-based window.                            *)

\* Trades are numbered within bounds, and a message is either being pushed or
\* finished with.
TradeInv ==
  /\ batch \in Seq(Trades) /\ queue \in Seq(Trades) /\ arrived <= MaxTrades
  /\ mpc \in {"recv", "terminated"} => batch = <<>>

WindowInd == RingInd /\ TradeInv

\* The log and the number of drops that the refinement mapping gives.
Log     == [i \in 1 .. Published |-> queue[i]]
Dropped == (arrived - Len(batch)) - Published

\* The process starts with an empty window.
LEMMA InitWindow == Init => WindowInd /\ Window!Init
<1> SUFFICES ASSUME Init PROVE TradeInv /\ Window!Init
  BY InitRing DEF WindowInd
<1> USE AggregatorAssumption
<1>1. TradeInv
  BY DEF Init, TradeInv
<1>2. Published = 0 /\ Len(batch) = 0 /\ arrived = 0 /\ collected = 0
  BY DEF Init, Published
<1>3. [i \in 1 .. Published |-> queue[i]] = <<>>
  BY <1>2
<1> QED
  BY <1>1, <1>2, <1>3 DEF Window!Init

\* Every step keeps the queue and the batch made of trades.
LEMMA NextTrades == TypeInv /\ TradeInv /\ [Next]_vars => TradeInv'
<1> SUFFICES ASSUME TypeInv, TradeInv, [Next]_vars PROVE TradeInv'
  OBVIOUS
<1> USE AggregatorAssumption DEF TradeInv
<1>1. ASSUME NEW n \in 0 .. MaxBatch, Recv(n) PROVE TradeInv'
  <2>1. /\ arrived \in Nat /\ arrived + n <= MaxTrades /\ arrived' = arrived + n
        /\ batch' = [i \in 1 .. n |-> arrived + i] /\ queue' = queue
        /\ n = 0 <=> mpc' \in {"recv", "terminated"}
    BY <1>1 DEF Recv, heap, TypeInv, TypeOK
  <2>2. \A i \in 1 .. n : arrived + i \in Trades
    BY <2>1 DEF Trades
  <2>3. batch' \in Seq(Trades)
    BY <2>1, <2>2
  <2>4. n = 0 => batch' = <<>>
    BY <2>1
  <2> QED
    BY <2>1, <2>3, <2>4
<1>2. CASE CheckFull \/ Publish
  <2>1. batch # <<>> /\ UNCHANGED <<queue, arrived>>
    BY <1>2 DEF CheckFull, Publish, heap, TypeInv, BatchInv
  <2>2. NextTrade \/ (batch' = batch /\ mpc' = "store")
    BY <1>2 DEF CheckFull, Publish
  <2>3. Tail(batch) \in Seq(Trades) /\ (Len(batch) = 1 => Tail(batch) = <<>>)
    <3>1. Len(Tail(batch)) = Len(batch) - 1 /\ Tail(batch) \in Seq(Trades)
      BY <2>1
    <3> QED
      BY <3>1
  <2> QED
    BY <2>1, <2>2, <2>3 DEF NextTrade
<1>3. CASE PushBack
  <2>1. batch # <<>>
    BY <1>3 DEF PushBack, TypeInv, BatchInv
  <2>2. Head(batch) \in Trades
    BY <2>1
  <2>3. queue' \in Seq(Trades) /\ UNCHANGED <<batch, arrived>> /\ mpc' \in {"publish", "repoint"}
    BY <1>3, <2>2 DEF PushBack
  <2> QED
    BY <2>3
<1>4. CASE Repoint
  BY <1>4 DEF Repoint
<1>5. CASE Consumer \/ AlignerRecv \/ ClockTick \/ UNCHANGED vars
  <2>1. UNCHANGED <<batch, queue, arrived, mpc>>
    BY <1>5 DEF Consumer, LoadIndex, LoadBase, CopyElement, LoadEnd, StoreStart, Send, Wake,
       AlignerRecv, ClockTick, vars, mainVars, heap
  <2> QED
    BY <2>1
<1> QED
  BY <1>1, <1>2, <1>3, <1>4, <1>5 DEF Next, Main

\* Every step accepts, drops or collects as the window does, or leaves the
\* mapped variables alone.
LEMMA NextWindow == WindowInd /\ [Next]_vars => [Window!Next]_(Window!vars)
<1> SUFFICES ASSUME WindowInd, [Next]_vars
             PROVE  [Window!Next]_(Window!vars)
  OBVIOUS
<1> USE AggregatorAssumption
<1>1. TypeInv /\ RingInv /\ RoomInv /\ TakeInv /\ TradeInv
  BY DEF WindowInd, RingInd
<1>2. /\ Published \in Nat /\ Published <= Len(queue) /\ Len(queue) \in Nat
      /\ Len(batch) \in Nat /\ arrived \in Nat /\ collected \in Nat /\ taking \in Nat
  BY <1>1, PublishedIsNat DEF TypeInv, TypeOK, Published
<1>3. Log \in Seq(Trades) /\ Len(Log) = Published
  BY <1>1, <1>2 DEF Log, TradeInv
<1>4. Window!vars = <<Log, collected, Dropped>>
  BY DEF Window!vars, Log, Dropped
<1>5. ASSUME Log' = Log, collected' = collected, Dropped' = Dropped
      PROVE  [Window!Next]_(Window!vars)
  BY <1>5 DEF Window!vars, Log, Dropped
<1>6. ASSUME NEW n \in 0 .. MaxBatch, Recv(n) PROVE [Window!Next]_(Window!vars)
  <2>1. Published' = Published /\ queue' = queue /\ collected' = collected
    BY <1>1, <1>6, PublishedStep DEF Recv, heap
  <2>2. Len(batch) = 0
    BY <1>1, <1>6 DEF Recv, TradeInv
  <2>3. Len(batch') = n /\ arrived' = arrived + n
    BY <1>6 DEF Recv
  <2> QED
    BY <1>2, <1>5, <2>1, <2>2, <2>3 DEF Log, Dropped
<1>7. CASE CheckFull
  <2>1. Published' = Published /\ UNCHANGED <<queue, collected, arrived>>
    BY <1>1, <1>7, PublishedStep DEF CheckFull, heap
  <2>2. CASE ~Full(start, end)
    <3>1. batch' = batch
      BY <1>7, <2>2 DEF CheckFull
    <3> QED
      BY <1>5, <2>1, <3>1 DEF Log, Dropped
  <2>3. CASE Full(start, end)
    <3>1. Published - collected = Size - 1
      BY <1>1, <1>2, <2>3, FullMeansFull DEF RingInv
    <3>2. batch # <<>> /\ batch \in Seq(Nat) /\ batch' = Tail(batch)
      BY <1>1, <1>7, <2>3 DEF CheckFull, NextTrade, TypeInv, BatchInv, TypeOK
    <3>3. Len(batch') = Len(batch) - 1
      BY <3>2
    <3>4. Dropped' = Dropped + 1 /\ Log' = Log
      BY <1>2, <2>1, <3>3 DEF Dropped, Log
    <3>5. Len(Log) - collected = Size - 1
      BY <1>3, <3>1
    <3>6. Window!Drop
      BY <2>1, <3>4, <3>5 DEF Window!Drop, Window!Waiting, Log, Dropped
    <3> QED
      BY <3>6 DEF Window!Next
  <2> QED
    BY <2>2, <2>3
<1>8. CASE PushBack \/ Repoint
  <2>1. Published' = Published /\ UNCHANGED <<batch, collected, arrived>>
    BY <1>1, <1>8, PublishedStep DEF PushBack, Repoint
  <2>2. \A i \in 1 .. Published : queue'[i] = queue[i]
    <3>1. CASE PushBack
      <4>1. batch # <<>> /\ Head(batch) \in Trades
        BY <1>1, <3>1 DEF PushBack, TypeInv, BatchInv, TradeInv
      <4>2. \A i \in 1 .. Len(queue) : queue'[i] = queue[i]
        BY <1>1, <3>1, <4>1 DEF PushBack, TradeInv
      <4> QED
        BY <1>2, <4>2
    <3>2. CASE Repoint
      BY <3>2 DEF Repoint
    <3> QED
      BY <1>8, <3>1, <3>2
  <2>3. Log' = Log /\ Dropped' = Dropped
    BY <2>1, <2>2 DEF Log, Dropped
  <2> QED
    BY <1>5, <2>1, <2>3
<1>9. CASE Publish
  <2>1. /\ Published' = Published + 1 /\ UNCHANGED <<queue, collected, arrived>>
        /\ mpc = "publish"
    BY <1>1, <1>9, PublishedStep DEF Publish, heap
  <2>2. batch # <<>> /\ batch \in Seq(Nat) /\ batch' = Tail(batch)
    BY <1>1, <1>9 DEF Publish, NextTrade, TypeInv, BatchInv, TypeOK
  <2>3. Len(batch') = Len(batch) - 1
    BY <2>2
  <2>4. Dropped' = Dropped
    BY <1>2, <2>1, <2>3 DEF Dropped
  <2>5. Published + 1 = Len(queue)
    BY <1>2, <2>1 DEF Published
  <2>6. PICK t \in Trades : t = queue[Published + 1]
    BY <1>1, <1>2, <2>5 DEF TradeInv
  <2>7. Log' = Append(Log, t)
    <3>1. Log' = [i \in 1 .. Published + 1 |-> queue[i]]
      BY <2>1 DEF Log
    <3>2. Append(Log, t) =
            [i \in 1 .. Published + 1 |-> IF i = Published + 1 THEN t ELSE Log[i]]
      BY <1>2, <1>3, <2>6
    <3>3. \A i \in 1 .. Published + 1 : i # Published + 1 => Log[i] = queue[i]
      BY <1>2 DEF Log
    <3> QED
      BY <2>6, <3>1, <3>2, <3>3
  <2>8. Len(Log) - collected < Size - 1
    BY <1>1, <1>3, <2>1 DEF RoomInv
  <2>9. Window!Accept(t)
    BY <2>1, <2>4, <2>7, <2>8 DEF Window!Accept, Window!Waiting, Log, Dropped
  <2> QED
    BY <2>6, <2>9 DEF Window!Next
<1>10. CASE StoreStart
  <2>1. /\ Published' = Published /\ UNCHANGED <<queue, batch, arrived>>
        /\ collected' = taking /\ cpc = "storeStart"
    BY <1>1, <1>10, PublishedStep DEF StoreStart, Consumer, mainVars, heap
  <2>2. collected <= taking /\ taking <= Published
    BY <1>1, <2>1 DEF TakeInv
  <2>3. Log' = Log /\ Dropped' = Dropped
    BY <2>1 DEF Log, Dropped
  <2>4. taking \in collected .. Len(Log) /\ taking \in 0 .. Len(Log)
    BY <1>2, <1>3, <2>2
  <2>5. Window!Collect(taking)
    BY <2>1, <2>3, <2>4 DEF Window!Collect, Log, Dropped
  <2> QED
    BY <2>4, <2>5 DEF Window!Next, Log
<1>11. CASE \/ LoadIndex \/ LoadBase \/ CopyElement \/ LoadEnd \/ Send \/ Wake
            \/ AlignerRecv \/ ClockTick \/ UNCHANGED vars
  <2>1. Published' = Published /\ UNCHANGED <<queue, batch, arrived, collected>>
    BY <1>1, <1>11, PublishedStep
       DEF Consumer, LoadIndex, LoadBase, CopyElement, LoadEnd, Send, Wake, AlignerRecv,
           ClockTick, vars, mainVars, heap
  <2> QED
    BY <1>5, <2>1 DEF Log, Dropped
<1> QED
  BY <1>6, <1>7, <1>8, <1>9, <1>10, <1>11 DEF Next, Main, Consumer

\* The CircularQueue, unlocked as it is, implements the counter-based window:
\* it accepts a trade exactly when fewer than size - 1 wait, drops one only
\* when it is full, and collects a growing prefix of what it accepted.
THEOREM RingImplementsWindow == Spec => ImplementsWindow
<1>1. Init => WindowInd /\ Window!Init
  BY InitWindow
<1>2. WindowInd /\ [Next]_vars => WindowInd'
  BY NextRing, NextTrades DEF WindowInd, RingInd
<1>3. WindowInd /\ [Next]_vars => [Window!Next]_(Window!vars)
  BY NextWindow
<1> QED
  BY <1>1, <1>2, <1>3, PTL DEF Spec, ImplementsWindow, Window!Spec
-----------------------------------------------------------------------------
(* The ticks.                                                               *)

PriceTypeInv == closing \in Trades \cup {Garbage}

StampInd == WindowInd /\ PriceTypeInv /\ nextStart % Interval = 0 /\ StampsOnGrid
              /\ NotBeforeStamp

\* The process starts as a tick source.
LEMMA InitStamp == Init => StampInd /\ Source!Init
<1> SUFFICES ASSUME Init
             PROVE  /\ PriceTypeInv /\ nextStart % Interval = 0 /\ StampsOnGrid
                    /\ NotBeforeStamp /\ Source!Init
  BY InitWindow DEF StampInd
<1> USE AggregatorAssumption
<1>1. now \in Nat
  BY DEF Init
<1>2. nextStart = ClosestTp(now) /\ t0 = nextStart
  BY DEF Init
<1>3. /\ nextStart \in Nat /\ nextStart % Interval = 0
      /\ nextStart > now /\ nextStart <= now + Interval
  BY <1>1, <1>2, ClosestTpLater
<1>4. PriceTypeInv /\ StampsOnGrid /\ NotBeforeStamp
  BY <1>2 DEF Init, PriceTypeInv, StampsOnGrid, NotBeforeStamp
<1>5. Alive = TRUE
  BY DEF Init, Alive
<1>6. nextStart \in now + 1 .. now + Interval
  BY <1>1, <1>3
<1> QED
  BY <1>1, <1>2, <1>3, <1>4, <1>5, <1>6 DEF Init, Source!Init

\* The stamp after a multiple of the interval is one.
LEMMA NextStampAligned ==
  ASSUME NEW t \in Nat, t % Interval = 0
  PROVE  NextStamp(t) \in Nat /\ NextStamp(t) % Interval = 0
<1> USE AggregatorAssumption
<1>1. PICK q \in Int : t = (Interval * q) + (t % Interval)
  BY ModSplit
<1>2. t + Interval = (Interval * (q + 1)) + 0
  BY <1>1
<1>3. t + Interval \in Int /\ q + 1 \in Int /\ 0 \in 0 .. Interval - 1
  OBVIOUS
<1>4. (t + Interval) % Interval = 0
  BY <1>2, <1>3, ModUnique
<1>5. t + Interval \in Nat
  OBVIOUS
<1> QED
  BY <1>4, <1>5 DEF NextStamp

\* The tick that send_every sends extends the run of stamps.
LEMMA SendStamp ==
  ASSUME StampInd, Send
  PROVE  nextStart' % Interval = 0 /\ StampsOnGrid' /\ NotBeforeStamp'
<1> USE AggregatorAssumption
<1>1. /\ nextStart \in Nat /\ nextStart % Interval = 0 /\ out \in Seq(Tick)
      /\ closing \in Nat \cup {Garbage} /\ StampsOnGrid
  BY DEF StampInd, WindowInd, RingInd, TypeInv, TypeOK
<1>2. PICK p \in Dumped(closing) : out' = Append(out, [T |-> nextStart, p |-> p])
  BY DEF Send
<1>3. [T |-> nextStart, p |-> p] \in Tick
  BY <1>1 DEF Tick, Dumped
<1>4. nextStart' = nextStart + Interval /\ nextStart' % Interval = 0
  BY <1>1, NextStampAligned DEF Send, NextStamp
<1>5. ASSUME NEW i \in 1 .. Len(out')
      PROVE  /\ out'[i].T % Interval = 0
             /\ out'[i].T = nextStart' - Interval * (Len(out') + 1 - i)
  <2>1. Len(out') = Len(out) + 1 /\ Len(out) \in Nat
    BY <1>1, <1>2, <1>3
  <2>2. CASE i = Len(out) + 1
    <3>1. out'[i].T = nextStart
      BY <1>1, <1>2, <1>3, <2>2
    <3>2. Len(out') + 1 - i = 1
      BY <2>1, <2>2
    <3> QED
      BY <1>1, <1>4, <3>1, <3>2
  <2>3. CASE i # Len(out) + 1
    <3>1. i \in 1 .. Len(out) /\ out'[i] = out[i]
      BY <1>1, <1>2, <1>3, <2>1, <2>3
    <3>2. /\ out[i].T % Interval = 0
          /\ out[i].T = nextStart - Interval * (Len(out) + 1 - i)
      BY <1>1, <3>1 DEF StampsOnGrid
    <3>3. PICK k \in Int : k = Len(out) + 1 - i
      BY <2>1
    <3>4. Len(out') + 1 - i = k + 1
      BY <2>1, <3>3
    <3>5. (nextStart + Interval) - Interval * (k + 1) = nextStart - Interval * k
      BY <1>1
    <3> QED
      BY <1>4, <3>1, <3>2, <3>3, <3>4, <3>5
  <2> QED
    BY <2>2, <2>3
<1>6. NotBeforeStamp'
  BY DEF Send, NotBeforeStamp
<1> QED
  BY <1>4, <1>5, <1>6 DEF StampsOnGrid

\* Taking the oldest tick leaves a run of stamps.
LEMMA AlignerRecvStamp ==
  ASSUME StampInd, AlignerRecv
  PROVE  StampsOnGrid'
<1> USE AggregatorAssumption
<1>1. out \in Seq(Tick) /\ out # <<>> /\ out' = Tail(out) /\ nextStart' = nextStart
  BY DEF AlignerRecv, StampInd, WindowInd, RingInd, TypeInv, TypeOK
<1>2. /\ Len(out') = Len(out) - 1 /\ Len(out) \in Nat \ {0}
      /\ \A i \in 1 .. Len(out') : out'[i] = out[i + 1]
  BY <1>1
<1> SUFFICES ASSUME NEW i \in 1 .. Len(out')
             PROVE  /\ out'[i].T % Interval = 0
                    /\ out'[i].T = nextStart' - Interval * (Len(out') + 1 - i)
  BY DEF StampsOnGrid
<1>3. i + 1 \in 1 .. Len(out) /\ out'[i] = out[i + 1]
  BY <1>2
<1>4. /\ out[i + 1].T % Interval = 0
      /\ out[i + 1].T = nextStart - Interval * (Len(out) + 1 - (i + 1))
  BY <1>3 DEF StampInd, StampsOnGrid
<1>5. Len(out) + 1 - (i + 1) = Len(out') + 1 - i
  <2> HIDE AggregatorAssumption
  <2>1. PICK k \in Nat : Len(out) = k
    BY <1>2
  <2>2. Len(out') = k - 1 /\ i \in Int
    BY <1>2, <2>1
  <2>3. k + 1 - (i + 1) = (k - 1) + 1 - i
    BY <2>2
  <2> QED
    BY <2>1, <2>2, <2>3
<1> QED
  BY <1>1, <1>3, <1>4, <1>5

\* Every step keeps the stamps on the grid of the interval.
LEMMA NextStampInd == StampInd /\ [Next]_vars => StampInd'
<1> SUFFICES ASSUME StampInd, [Next]_vars
             PROVE  /\ PriceTypeInv' /\ (nextStart % Interval = 0)' /\ StampsOnGrid'
                    /\ NotBeforeStamp'
  BY NextRing, NextTrades DEF StampInd, WindowInd, RingInd
<1> USE AggregatorAssumption
<1>1. /\ PriceTypeInv /\ nextStart % Interval = 0 /\ StampsOnGrid /\ NotBeforeStamp
      /\ TypeInv /\ TradeInv
  BY DEF StampInd, WindowInd, RingInd
<1>2. PriceTypeInv'
  <2>1. CASE CopyElement
    <3>1. idx < Len(queue) => queue[idx + 1] \in Trades
      <4>1. idx < Len(queue) => idx + 1 \in 1 .. Len(queue)
        BY <1>1 DEF TypeInv, TypeOK
      <4> QED
        BY <1>1, <4>1 DEF TradeInv
    <3>2. ~(idx < Len(queue)) <=> idx >= Len(queue)
      BY <1>1 DEF TypeInv, TypeOK
    <3> QED
      BY <2>1, <3>1, <3>2 DEF CopyElement, Element, PriceTypeInv
  <2>2. CASE closing' = closing
    BY <1>1, <2>2 DEF PriceTypeInv
  <2>3. CopyElement \/ closing' = closing
    BY DEF Next, Main, Consumer, Recv, CheckFull, PushBack, Repoint, Publish, LoadIndex,
       LoadBase, LoadEnd, StoreStart, Send, Wake, AlignerRecv, ClockTick, vars, execVars
  <2> QED
    BY <2>1, <2>2, <2>3
<1>3. CASE Send
  BY <1>2, <1>3, SendStamp
<1>4. CASE AlignerRecv
  <2>1. UNCHANGED <<nextStart, t0, now, cpc>>
    BY <1>4 DEF AlignerRecv
  <2> QED
    BY <1>1, <1>2, <1>4, <2>1, AlignerRecvStamp DEF NotBeforeStamp
<1>5. CASE ClockTick
  <2>1. UNCHANGED <<nextStart, t0, cpc, out>> /\ now' = now + 1
    BY <1>5 DEF ClockTick
  <2>2. now \in Nat /\ nextStart \in Nat
    BY <1>1 DEF TypeInv, TypeOK
  <2>3. NotBeforeStamp'
    BY <1>1, <2>1, <2>2 DEF NotBeforeStamp
  <2>4. StampsOnGrid' /\ (nextStart % Interval = 0)'
    BY <1>1, <2>1 DEF StampsOnGrid
  <2> QED
    BY <1>2, <2>3, <2>4
<1>6. CASE Wake
  <2>1. UNCHANGED <<nextStart, t0, now, out>> /\ now >= nextStart
    BY <1>6 DEF Wake
  <2> QED
    BY <1>1, <1>2, <2>1 DEF NotBeforeStamp, StampsOnGrid
<1>7. CASE \/ \E n \in 0 .. MaxBatch : Recv(n)
           \/ Main \/ UNCHANGED vars
           \/ LoadIndex \/ LoadBase \/ CopyElement \/ LoadEnd \/ StoreStart
  <2>1. UNCHANGED <<nextStart, t0, now, out>> /\ (cpc' # "sleep" => cpc # "sleep")
    BY <1>7 DEF Recv, Main, CheckFull, PushBack, Repoint, Publish, LoadIndex, LoadBase,
       CopyElement, LoadEnd, StoreStart, vars
  <2> QED
    BY <1>1, <1>2, <2>1 DEF NotBeforeStamp, StampsOnGrid
<1> QED
  BY <1>3, <1>4, <1>5, <1>6, <1>7 DEF Next, Consumer

\* The ticks in flight carry consecutive multiples of the interval.
THEOREM StampsAligned == Spec => []StampsOnGrid
<1>1. StampInd => StampsOnGrid
  BY DEF StampInd
<1> QED
  BY <1>1, InitStamp, NextStampInd, PTL DEF Spec

\* The consumer thread never goes about an instant before it is due, however
\* late it wakes: only its first tick precedes its stamp.
THEOREM NeverEarly == Spec => []NotBeforeStamp
<1>1. StampInd => NotBeforeStamp
  BY DEF StampInd
<1> QED
  BY <1>1, InitStamp, NextStampInd, PTL DEF Spec

\* Every step of the process is a step of a tick source, or none.
LEMMA NextSource == StampInd /\ [Next]_vars => [Source!Next]_(Source!vars)
<1> SUFFICES ASSUME StampInd, [Next]_vars
             PROVE  [Source!Next]_(Source!vars)
  OBVIOUS
<1>1. TypeInv /\ PriceTypeInv /\ NotBeforeStamp
  BY DEF StampInd, WindowInd, RingInd
<1>2. ASSUME UNCHANGED <<now, t0, nextStart, out>>, Alive' = Alive
      PROVE  [Source!Next]_(Source!vars)
  BY <1>2 DEF Source!vars
<1>3. ASSUME NEW n \in 0 .. MaxBatch, Recv(n) PROVE [Source!Next]_(Source!vars)
  <2>1. UNCHANGED <<now, t0, nextStart, out>> /\ Alive = TRUE
    BY <1>3 DEF Recv, Alive
  <2>2. CASE mpc' = "terminated"
    <3>1. Alive' = FALSE
      BY <2>2 DEF Alive
    <3> QED
      BY <2>1, <3>1 DEF Source!Next, Source!Die
  <2>3. CASE mpc' # "terminated"
    <3>1. Alive' = Alive
      BY <2>1, <2>3 DEF Alive
    <3> QED
      BY <1>2, <2>1, <3>1
  <2> QED
    BY <2>2, <2>3
<1>4. CASE Main
  <2>1. UNCHANGED <<now, t0, nextStart, out>>
    BY <1>4 DEF Main, CheckFull, PushBack, Repoint, Publish
  <2>2. Alive' = Alive
    BY <1>4 DEF Main, CheckFull, NextTrade, PushBack, Repoint, Publish, Alive
  <2> QED
    BY <1>2, <2>1, <2>2
<1>5. CASE Send
  <2>1. PICK p \in Dumped(closing) : out' = Append(out, [T |-> nextStart, p |-> p])
    BY <1>5 DEF Send
  <2>2. p \in Prices
    BY <1>1 DEF Dumped, Prices, PriceTypeInv
  <2>3. nextStart = t0 \/ nextStart <= now
    BY <1>1, <1>5 DEF Send, NotBeforeStamp, TypeInv, TypeOK
  <2>4. Alive /\ Alive' = Alive
    BY <1>5 DEF Send, mainVars, Alive
  <2>5. Source!Emit(p)
    BY <1>5, <2>1, <2>3, <2>4 DEF Send, NextStamp, Source!Emit
  <2> QED
    BY <2>2, <2>5 DEF Source!Next
<1>6. CASE LoadIndex \/ LoadBase \/ CopyElement \/ LoadEnd \/ StoreStart \/ Wake
  <2>1. UNCHANGED <<now, t0, nextStart, out, mpc>>
    BY <1>6 DEF LoadIndex, LoadBase, CopyElement, LoadEnd, StoreStart, Wake, mainVars
  <2>2. Alive' = Alive
    BY <2>1 DEF Alive
  <2> QED
    BY <1>2, <2>1, <2>2
<1>7. CASE AlignerRecv
  <2>1. Alive' = Alive
    BY <1>7 DEF AlignerRecv, mainVars, Alive
  <2> QED
    BY <1>7, <2>1 DEF AlignerRecv, Source!Next, Source!Receive
<1>8. CASE ClockTick
  <2>1. Alive' = Alive
    BY <1>8 DEF ClockTick, mainVars, Alive
  <2> QED
    BY <1>8, <2>1 DEF ClockTick, Source!Next, Source!Tick
<1>9. CASE UNCHANGED vars
  <2>1. UNCHANGED <<now, t0, nextStart, out, mpc>>
    BY <1>9 DEF vars, mainVars
  <2>2. Alive' = Alive
    BY <2>1 DEF Alive
  <2> QED
    BY <1>2, <2>1, <2>2
<1> QED
  BY <1>3, <1>4, <1>5, <1>6, <1>7, <1>8, <1>9 DEF Next, Consumer

\* An aggregator process is a tick source: consecutive stamps, only the first
\* sent ahead of its time, whatever the two threads do to the prices.
THEOREM ProcessIsTickSource == Spec => ImplementsTickSource
<1>1. Init => StampInd /\ Source!Init
  BY InitStamp
<1>2. StampInd /\ [Next]_vars => StampInd'
  BY NextStampInd
<1>3. StampInd /\ [Next]_vars => [Source!Next]_(Source!vars)
  BY NextSource
<1> QED
  BY <1>1, <1>2, <1>3, PTL DEF Spec, ImplementsTickSource, Source!Spec
=============================================================================
