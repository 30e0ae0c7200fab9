--------------------------- MODULE ProviderProofs ---------------------------
(***************************************************************************)
(* Theorems about the connection and about what the provider feeds the     *)
(* aggregator, for any number of frames, any reads, any high-water mark    *)
(* and any number of stops.  First Connection, alone: its type invariant,  *)
(* that it ends once, has one operation of a kind outstanding, is watched  *)
(* by a timer, closes last and answers, and that it implements the safety  *)
(* of Session.  Then Provider.                                             *)
(***************************************************************************)
EXTENDS Provider, SequenceTheorems, FiniteSetTheorems, TLAPS

(***************************************************************************)
(* The inductive invariant.  Each operation belongs to one stage of the    *)
(* connection, so operations that share a buffer exclude one another.  A   *)
(* shutdown and its timer both end in handle_terminate: which of them does *)
(* is decided by whether the timer has expired.  There is a second one if  *)
(* the extensions were refused, and it is of an open connection.           *)
(***************************************************************************)
Stage ==
  [resolve |-> "USER_INIT", connect |-> "USER_INIT", tls |-> "TRANSPORT_INIT",
   request |-> "WRITE_HTTP_REQUEST", response |-> "READ_HTTP_RESPONSE",
   read |-> "PROCESS_CONNECTION", write |-> "PROCESS_CONNECTION"]

Busy(op) == pending[op] = 1 \/ Queued(op)

Exclusive ==
  /\ \A op \in Ops : (pending[op] = 1 => ~Queued(op)) /\ Sole(ready, op)
  /\ \A op \in Ops \ Shutdowns : Busy(op) => istate = Stage[op]
  /\ ~(Busy("resolve") /\ Busy("connect"))
  /\ pc = "frames" => istate = "PROCESS_CONNECTION" /\ ~Busy("read")
  /\ sendQ # <<>> \/ Queued("write_frame") => istate = "PROCESS_CONNECTION"

Writing ==
  /\ Busy("write") <=> current # <<>>
  /\ current # <<>> => writeFlag

Opened == istate = "PROCESS_CONNECTION"

Ways == {"failed", "closed"}

Phases ==
  /\ state = "connecting" => ~Opened /\ why = <<>>
  /\ state \in {"open", "closing"} => Opened /\ why \in {<<>>, <<"failed">>}
  /\ state = "closed" /\ Opened => why \in {<<"closed">>, <<"failed", "closed">>}
  /\ state = "closed" /\ ~Opened => why = <<"failed">>

Reported(how) == \E k \in DOMAIN ended : ended[k] = how
Over(t) == timer[t] = "cancelled" \/ (timer[t] = "expired" /\ ~Queued(t))

Stopping(n) ==
  /\ Sole(ready, Stop[n])
  /\ Queued(Stop[n]) => timer[Stop[n]] = "expired"
  /\ timer[Stop[n]] = "off" <=> Len(why) < n
  /\ Busy(Shutdown[n]) => timer[Stop[n]] \in {"armed", "expired"}
  /\ Len(why) >= n => (Reported(why[n]) <=> Over(Stop[n]))

Reporting ==
  /\ ended \in Seq(Ways)
  /\ \A k \in DOMAIN ended : \E n \in DOMAIN why : ended[k] = why[n]
  /\ \A j, k \in DOMAIN ended : j # k => ended[j] # ended[k]

Ending == Phases /\ (\A n \in {1, 2} : Stopping(n)) /\ Reporting

Waiting ==
  /\ state = "connecting" =>
       \E t \in {"dns", "con", "post", "open"} : WatchedBy(t)
  /\ state = "closing" => \E t \in {"close1", "close2"} : WatchedBy(t)

Kinds == {"off", "armed", "expired", "cancelled"}
Stops == {"stop1", "stop2"}

Inv == TypeOK /\ Exclusive /\ Writing /\ Ending /\ Waiting
-----------------------------------------------------------------------------
(* Lemmas about the queue of handlers. *)

\* A handler that is taken from the queue: what stays queued.
LEMMA QueueTail ==
  ASSUME NEW q \in Seq(Item), q # <<>>, NEW h, NEW r, Head(q) = <<h, r>>, NEW g
  PROVE  /\ Tail(q) \in Seq(Item)
         /\ h \in Names
         /\ QueuedIn(q, h)
         /\ g # h => (QueuedIn(Tail(q), g) <=> QueuedIn(q, g))
         /\ Sole(q, g) => Sole(Tail(q), g)
         /\ Sole(q, h) => ~QueuedIn(Tail(q), h)
<1> DEFINE t == Tail(q)
<1>1. t \in Seq(Item) /\ Len(t) = Len(q) - 1 /\ \A n \in 1 .. Len(t) : t[n] = q[n + 1]
  BY HeadTailProperties
<1>2. q[1] = <<h, r>> /\ q[1] \in Item /\ Len(q) \in Nat /\ Len(q) > 0 /\ h \in Names
  BY DEF Item
<1>3. DOMAIN q = 1 .. Len(q) /\ DOMAIN t = 1 .. Len(t) /\ Len(t) \in Nat
  BY <1>1
<1>4. QueuedIn(q, h)
  BY <1>2, <1>3 DEF QueuedIn
<1>5. QueuedIn(t, g) => QueuedIn(q, g)
  <2> SUFFICES ASSUME NEW n \in 1 .. Len(t), t[n][1] = g PROVE QueuedIn(q, g)
    BY <1>3 DEF QueuedIn
  <2>1. n + 1 \in DOMAIN q /\ q[n + 1][1] = g
    BY <1>1, <1>2, <1>3
  <2> QED BY <2>1 DEF QueuedIn
<1>6. g # h /\ QueuedIn(q, g) => QueuedIn(t, g)
  <2> SUFFICES ASSUME g # h, NEW n \in 1 .. Len(q), q[n][1] = g PROVE QueuedIn(t, g)
    BY <1>3 DEF QueuedIn
  <2>1. n # 1
    BY <1>2
  <2>2. n - 1 \in 1 .. Len(t) /\ t[n - 1][1] = g
    BY <1>1, <1>2, <2>1
  <2> QED BY <2>2, <1>3 DEF QueuedIn
<1>7. Sole(q, g) => Sole(t, g)
  <2> SUFFICES ASSUME Sole(q, g), NEW m \in 1 .. Len(t), NEW n \in 1 .. Len(t),
                      t[m][1] = g, t[n][1] = g
               PROVE  m = n
    BY <1>3 DEF Sole
  <2>1. m + 1 \in DOMAIN q /\ n + 1 \in DOMAIN q /\ q[m + 1][1] = g /\ q[n + 1][1] = g
    BY <1>1, <1>2, <1>3
  <2>2. m + 1 = n + 1
    BY <2>1 DEF Sole
  <2> QED BY <2>2, <1>3
<1>8. Sole(q, h) => ~QueuedIn(t, h)
  <2> SUFFICES ASSUME Sole(q, h), NEW n \in 1 .. Len(t), t[n][1] = h PROVE FALSE
    BY <1>3 DEF QueuedIn
  <2>1. n + 1 \in DOMAIN q /\ 1 \in DOMAIN q /\ q[n + 1][1] = h /\ q[1][1] = h
    BY <1>1, <1>2, <1>3
  <2>2. n + 1 = 1
    BY <2>1 DEF Sole
  <2> QED BY <2>2, <1>3
<1> QED BY <1>1, <1>2, <1>4, <1>5, <1>6, <1>7, <1>8

\* A handler that becomes ready.
LEMMA QueueAppend ==
  ASSUME NEW q \in Seq(Item), NEW h \in Names, NEW r \in Results, NEW g
  PROVE  LET p == Append(q, <<h, r>>) IN
         /\ p \in Seq(Item) /\ p # <<>>
         /\ QueuedIn(p, g) <=> QueuedIn(q, g) \/ g = h
         /\ Sole(q, g) /\ (g = h => ~QueuedIn(q, h)) => Sole(p, g)
<1> DEFINE p == Append(q, <<h, r>>)
<1>1. <<h, r>> \in Item
  BY DEF Item
<1>2. p \in Seq(Item) /\ Len(p) = Len(q) + 1 /\ p[Len(q) + 1] = <<h, r>>
      /\ \A n \in 1 .. Len(q) : p[n] = q[n]
  BY <1>1, AppendProperties
<1>3. DOMAIN q = 1 .. Len(q) /\ DOMAIN p = 1 .. Len(p) /\ Len(q) \in Nat
  BY <1>2
<1>4. QueuedIn(q, g) => QueuedIn(p, g)
  BY <1>2, <1>3 DEF QueuedIn
<1>5. QueuedIn(p, h)
  <2>1. Len(q) + 1 \in DOMAIN p /\ p[Len(q) + 1][1] = h
    BY <1>2, <1>3
  <2> QED BY <2>1 DEF QueuedIn
<1>6. QueuedIn(p, g) => QueuedIn(q, g) \/ g = h
  <2> SUFFICES ASSUME NEW n \in 1 .. Len(p), p[n][1] = g, g # h PROVE QueuedIn(q, g)
    BY <1>3 DEF QueuedIn
  <2>1. n # Len(q) + 1
    BY <1>2
  <2>2. n \in 1 .. Len(q) /\ q[n][1] = g
    BY <1>2, <1>3, <2>1
  <2> QED BY <2>2, <1>3 DEF QueuedIn
<1>7. Sole(q, g) /\ (g = h => ~QueuedIn(q, h)) => Sole(p, g)
  <2> SUFFICES ASSUME Sole(q, g), g = h => ~QueuedIn(q, h), NEW m \in 1 .. Len(p),
                      NEW n \in 1 .. Len(p), p[m][1] = g, p[n][1] = g
               PROVE  m = n
    BY <1>3 DEF Sole
  <2>1. \A k \in 1 .. Len(p) : k \in 1 .. Len(q) \/ k = Len(q) + 1
    BY <1>2, <1>3
  <2>2. CASE m \in 1 .. Len(q) /\ n \in 1 .. Len(q)
    BY <2>2, <1>2, <1>3 DEF Sole
  <2>3. CASE m = Len(q) + 1 \/ n = Len(q) + 1
    <3>1. g = h
      BY <2>3, <1>2
    <3>2. \A k \in 1 .. Len(q) : p[k][1] # g
      BY <3>1, <1>2, <1>3 DEF QueuedIn
    <3> QED BY <3>2, <2>1, <2>3
  <2> QED BY <2>1, <2>2, <2>3
<1>8. p # <<>>
  BY <1>2, <1>3
<1> QED BY <1>2, <1>4, <1>5, <1>6, <1>7, <1>8
-----------------------------------------------------------------------------
(* The invariant is kept, handler by handler. *)

\* What a step that starts the handler h, and queues nothing, does to the queue.
Dequeued(h) ==
  /\ ready' \in Seq(Item) /\ h \in Names /\ Queued(h)
  /\ \A g : /\ g # h => (QueuedIn(ready', g) <=> QueuedIn(ready, g))
            /\ Sole(ready, g) => Sole(ready', g)
  /\ Sole(ready, h) => ~QueuedIn(ready', h)

\* Running handler h takes it from the head of the queue.
LEMMA Dequeue ==
  ASSUME TypeOK, NEW h, NEW r, Runs(h, r), ready' = Tail(ready)
  PROVE  Dequeued(h)
<1>1. ready \in Seq(Item) /\ ready # <<>> /\ Head(ready) = <<h, r>>
  BY DEF TypeOK, Runs
<1> QED BY <1>1, QueueTail DEF Dequeued, Queued

\* What a step does that queues h.
Enqueued(h) ==
  /\ ready' \in Seq(Item)
  /\ \A g : /\ QueuedIn(ready', g) <=> QueuedIn(ready, g) \/ g = h
            /\ Sole(ready, g) /\ (g = h => ~QueuedIn(ready, h)) => Sole(ready', g)

\* Queueing handler h leaves what was queued in place.
LEMMA Enqueue ==
  ASSUME TypeOK, NEW h \in Names, NEW r \in Results, ready' = Append(ready, <<h, r>>)
  PROVE  Enqueued(h)
BY QueueAppend DEF Enqueued, TypeOK

\* Each shutdown has its timer.
LEMMA Pairs ==
  /\ \A n \in {1, 2} : Stop[n] \in Stops /\ Shutdown[n] \in Shutdowns
  /\ \A t \in Stops : \E n \in {1, 2} : t = Stop[n]
  /\ \A s \in Shutdowns : \E n \in {1, 2} : s = Shutdown[n]
  /\ Stop[1] # Stop[2] /\ Shutdown[1] # Shutdown[2]
  /\ Stops \subseteq Timers /\ Shutdowns \subseteq Ops
BY DEF Stop, Shutdown, Stops, Shutdowns, Timers, Ops

\* The ends a connection can come to.
LEMMA Ends12 ==
  ASSUME Inv
  PROVE  /\ why \in {<<>>, <<"failed">>, <<"closed">>, <<"failed", "closed">>}
         /\ Len(why) \in 0 .. 2 /\ DOMAIN why = 1 .. Len(why)
         /\ \A n \in DOMAIN why : n \in {1, 2} /\ why[n] \in {"failed", "closed"}
         /\ \A m, n \in DOMAIN why : m # n => why[m] # why[n]
<1>1. why \in {<<>>, <<"failed">>, <<"closed">>, <<"failed", "closed">>}
  BY DEF Inv, TypeOK, Ending, Phases
<1>2. CASE why = <<>>
  BY <1>2
<1>3. CASE why = <<"failed">> \/ why = <<"closed">>
  <2>1. Len(why) = 1 /\ DOMAIN why = 1 .. 1 /\ why[1] \in {"failed", "closed"}
    BY <1>3
  <2> QED BY <1>1, <2>1
<1>4. CASE why = <<"failed", "closed">>
  <2>1. Len(why) = 2 /\ DOMAIN why = 1 .. 2 /\ why[1] = "failed" /\ why[2] = "closed"
    BY <1>4
  <2> QED BY <1>1, <2>1
<1> QED BY <1>1, <1>2, <1>3, <1>4

\* A step that leaves the shutdowns and their timers alone, but that the handler of
\* a shutdown may be taken from the queue.
LEMMA EndingStays ==
  ASSUME Ending, UNCHANGED <<why, ended>>,
         Phases' \/ (UNCHANGED state /\ (Opened' <=> Opened)),
         \A t \in Stops : /\ timer'[t] = timer[t] /\ (Queued(t)' <=> Queued(t))
                          /\ Sole(ready, t) => Sole(ready', t),
         \A s \in Shutdowns : Busy(s)' => Busy(s)
  PROVE  Ending'
<1>1. Phases'
  BY DEF Ending, Phases
<1>2. Reporting'
  BY DEF Ending, Reporting
<1>3. ASSUME NEW n \in {1, 2} PROVE Stopping(n)'
  <2>1. Stopping(n) /\ Stop[n] \in Stops /\ Shutdown[n] \in Shutdowns
    BY Pairs DEF Ending
  <2>2. Reported(why[n])' <=> Reported(why[n])
    BY DEF Reported
  <2>3. Over(Stop[n])' <=> Over(Stop[n])
    BY <2>1 DEF Over
  <2> QED BY <2>1, <2>2, <2>3 DEF Stopping
<1> QED BY <1>1, <1>2, <1>3 DEF Ending

\* An operation that completes becomes one queued handler.
LEMMA CompletionsKeep ==
  ASSUME Inv, NEW op \in Ops, NEW r \in Results \ {"post"}, Complete(op, r), Elsewhere,
         UNCHANGED received, stream' \in Seq(Frames), used \in 0 .. Len(stream'), UNCHANGED used
  PROVE  Inv'
<1> USE DEF Elsewhere, sessionVars, writeVars, Complete
<1>1. Enqueued(op)
  BY Enqueue DEF Inv, Names
<1>2. pending[op] = 1 /\ pending'[op] = 0 /\ \A x \in Ops : x # op => pending'[x] = pending[x]
  BY DEF Inv, TypeOK
<1>3. /\ \A x \in Ops : Busy(x)' <=> Busy(x)
      /\ \A t \in Timers \cup {"write_frame"} : Queued(t)' <=> Queued(t)
  BY <1>1, <1>2 DEF Enqueued, Busy, Queued, Ops, Timers
<1>4. TypeOK'
  BY <1>1, <1>2 DEF Enqueued, Inv, TypeOK
<1>5. Exclusive'
  <2>1. ~QueuedIn(ready, op) /\ \A x \in Ops : Sole(ready, x)
    BY <1>2 DEF Inv, Exclusive, Queued
  <2>2. \A x \in Ops : Sole(ready', x)
    BY <1>1, <2>1 DEF Enqueued
  <2>3. ASSUME NEW x \in Ops, pending'[x] = 1 PROVE ~Queued(x)'
    <3>1. x # op /\ pending[x] = 1
      BY <2>3, <1>2
    <3>2. ~QueuedIn(ready, x)
      BY <3>1 DEF Inv, Exclusive, Queued
    <3> QED BY <3>1, <3>2, <1>1 DEF Enqueued, Queued
  <2> QED BY <1>3, <2>2, <2>3 DEF Inv, Exclusive, Ops
<1>6. Writing'
  BY <1>3 DEF Inv, Writing, Ops
<1>7. Ending'
  <2>1. \A t \in Stops : t # op /\ (Queued(t)' <=> Queued(t)) /\ (Sole(ready, t) => Sole(ready', t))
    BY <1>1, <1>3 DEF Enqueued, Stops, Ops, Timers
  <2> QED BY <1>3, <2>1, Pairs, EndingStays DEF Inv, Opened
<1>8. Waiting'
  BY <1>3 DEF Inv, Waiting, WatchedBy, Timers
<1> QED BY <1>4, <1>5, <1>6, <1>7, <1>8 DEF Inv

\* A timer that expires becomes one queued handler.
LEMMA ExpireKeeps ==
  ASSUME Inv, NEW t \in Timers, TimerExpires(t)
  PROVE  Inv'
<1> USE DEF Elsewhere, sessionVars, writeVars, readVars, TimerExpires, Expire
<1>1. Enqueued(t)
  BY Enqueue DEF Inv, Names, Results
<1>2. /\ \A x \in Ops : Busy(x)' <=> Busy(x)
      /\ \A x \in Ops : Queued(x)' <=> Queued(x)
      /\ Queued("write_frame")' <=> Queued("write_frame")
  BY <1>1 DEF Enqueued, Busy, Queued, Ops, Timers
<1>3. TypeOK'
  BY <1>1 DEF Enqueued, Inv, TypeOK
<1>4. Exclusive'
  <2>1. \A x \in Ops : (pending'[x] = 1 => ~Queued(x)') /\ Sole(ready, x)'
    BY <1>1, <1>2 DEF Enqueued, Inv, Exclusive, Ops, Timers
  <2> QED BY <1>2, <2>1 DEF Inv, Exclusive, Ops
<1>5. Writing'
  BY <1>2 DEF Inv, Writing, Ops
<1>6. Ending'
  <2>1. \A u : u # t => (Queued(u)' <=> Queued(u)) /\ (Sole(ready, u) => Sole(ready', u))
    BY <1>1 DEF Enqueued, Queued
  <2>2. timer' = [timer EXCEPT ![t] = "expired"] /\ timer \in [Timers -> Kinds] /\ timer[t] = "armed"
    BY DEF Inv, TypeOK, Kinds
  <2>3. CASE t \notin Stops
    <3>1. \A u \in Stops : u # t /\ timer'[u] = timer[u]
      BY <2>2, <2>3, Pairs
    <3> QED BY <1>2, <2>1, <3>1, Pairs, EndingStays DEF Inv, Opened
  <2>4. CASE t \in Stops
    <3>1. Phases' /\ Reporting'
      BY DEF Inv, Ending, Phases, Reporting, Opened
    <3>2. ASSUME NEW n \in {1, 2} PROVE Stopping(n)'
      <4>1. Stopping(n) /\ Stop[n] \in Timers /\ Shutdown[n] \in Ops
        BY Pairs DEF Inv, Ending
      <4>2. Reported(why[n])' <=> Reported(why[n])
        BY DEF Reported
      <4>3. CASE Stop[n] # t
        BY <1>2, <2>1, <2>2, <4>1, <4>2, <4>3 DEF Stopping, Over
      <4>4. CASE Stop[n] = t
        <5>1. Queued(t)' /\ ~Queued(t) /\ timer'[t] = "expired" /\ Sole(ready', t)
          BY <1>1, <2>2, <4>1, <4>4 DEF Enqueued, Queued, Stopping
        <5> QED BY <1>2, <2>2, <4>1, <4>2, <4>4, <5>1 DEF Stopping, Over
      <4> QED BY <4>3, <4>4
    <3> QED BY <3>1, <3>2 DEF Ending
  <2> QED BY <2>3, <2>4
<1>7. Waiting'
  BY <1>1 DEF Enqueued, Inv, TypeOK, Waiting, WatchedBy, Queued, Timers
<1> QED BY <1>3, <1>4, <1>5, <1>6, <1>7 DEF Inv

\* The second end.
LEMMA Second ==
  ASSUME NEW Q, NEW q \in Seq(Q), Len(q) = 1, NEW e \in Q
  PROVE  LET p == Append(q, e) IN Len(p) = 2 /\ p[1] = q[1] /\ p[2] = e /\ DOMAIN p = 1 .. 2
<1>1. ASSUME NEW n, n = Len(q)
      PROVE  /\ Append(q, e) \in Seq(Q) /\ Len(Append(q, e)) = n + 1
             /\ Append(q, e)[n + 1] = e /\ \A i \in 1 .. n : Append(q, e)[i] = q[i]
  <2>1. Append(q, e) \in Seq(Q)
    BY AppendProperties
  <2>2. Len(Append(q, e)) = n + 1
    BY <1>1, AppendProperties
  <2>3. Append(q, e)[n + 1] = e
    BY <1>1, AppendProperties
  <2>4. \A i \in 1 .. n : Append(q, e)[i] = q[i]
    BY <1>1, AppendProperties
  <2> QED BY <2>1, <2>2, <2>3, <2>4
<1>2. PICK p : p = Append(q, e)
  OBVIOUS
<1>3. p \in Seq(Q) /\ Len(p) = 1 + 1 /\ p[1 + 1] = e /\ \A i \in 1 .. 1 : p[i] = q[i]
  BY <1>1, <1>2
<1>4. Len(p) = 2 /\ p[1] = q[1] /\ p[2] = e
  BY <1>3
<1>5. DOMAIN p = 1 .. 2
  BY <1>3, <1>4
<1> QED BY <1>2, <1>4, <1>5

\* An operation is started, under a timer.
LEMMA Starts ==
  ASSUME Inv, NEW s \in Ops, pending[s] = 0, pending' = Issue(s),
         NEW t \in Timers, NEW c \in [Timers -> Kinds], timer' = Armed(c, t)
  PROVE  /\ timer' \in [Timers -> Kinds] /\ timer'[t] = "armed"
         /\ \A u \in Timers \ {t} : timer'[u] = c[u]
         /\ pending' \in [Ops -> 0 .. 1] /\ pending'[s] = 1
         /\ \A x \in Ops \ {s} : pending'[x] = pending[x]
<1>1. pending \in [Ops -> 0 .. 1]
  BY DEF Inv, TypeOK
<1> QED BY <1>1 DEF Issue, Armed, Kinds

\* terminate, by a step that neither starts nor queues a handler of the shutdown.
LEMMA Terminates ==
  ASSUME Inv, NEW tm \in [Timers -> Kinds], Terminated(tm), Phases',
         \A t \in Stops : /\ tm[t] = timer[t] /\ (Queued(t)' <=> Queued(t))
                          /\ Sole(ready, t) => Sole(ready', t),
         \A s \in Shutdowns : Queued(s)' <=> Queued(s)
  PROVE  /\ timer' \in [Timers -> Kinds]
         /\ pending' \in [Ops -> 0 .. 1]
         /\ UNCHANGED pending \/ \E s \in Shutdowns : pending' = Issue(s) /\ ~Busy(s)
         /\ \A x \in Ops \ Shutdowns : pending'[x] = pending[x]
         /\ \A s \in Shutdowns : pending'[s] = 1 => ~Queued(s)
         /\ hsTimer' = "none" /\ UNCHANGED ended
         /\ Ending'
<1> DEFINE c == IF hsTimer = "none" THEN tm ELSE Stopped(tm, hsTimer)
<1>1. hsTimer \in {"none", "open", "close1", "close2"} /\ timer \in [Timers -> Kinds]
      /\ pending \in [Ops -> 0 .. 1] /\ hsTimer' = "none" /\ UNCHANGED ended
  BY DEF Inv, TypeOK, Terminated, Kinds
<1>2. c \in [Timers -> Kinds] /\ \A t \in Stops : c[t] = timer[t]
  BY <1>1 DEF Stopped, Timers, Stops, Kinds
<1>3. CASE state = "closed"
  <2>1. UNCHANGED <<pending, why>> /\ timer' = c
    BY <1>3 DEF Terminated
  <2>2. \A x \in Ops : pending'[x] = 1 => ~Queued(x)
    BY <2>1 DEF Inv, Exclusive
  <2>3. \A s \in Shutdowns : Busy(s)' => Busy(s)
    BY <2>1 DEF Busy
  <2>4. Ending'
    BY <1>1, <1>2, <2>1, <2>3, EndingStays DEF Inv
  <2> QED BY <1>1, <1>2, <2>1, <2>2, <2>4, Pairs
<1>4. CASE state # "closed"
  <2> DEFINE n == Nth
             how == IF state = "connecting" THEN "failed" ELSE "closed"
  <2>1. /\ timer' = Armed(c, Stop[n]) /\ pending' = Issue(Shutdown[n])
        /\ why' = Append(why, how)
    BY <1>4 DEF Terminated
  <2>2. /\ n \in {1, 2} /\ Len(why) + 1 = n /\ Len(why') = n /\ why'[n] = how
        /\ n = 2 => why'[1] = why[1]
        /\ ~\E k \in DOMAIN why : why[k] = how
        /\ DOMAIN why = 1 .. Len(why) /\ DOMAIN why' = 1 .. n
    <3>1. CASE why = <<>>
      BY <2>1, <3>1 DEF Nth
    <3>2. CASE why = <<"failed">>
      <4>1. why # <<>> /\ Len(why) = 1
        BY <3>2
      <4>2. how = "closed"
        BY <4>1 DEF Inv, Ending, Phases
      <4>3. Len(why') = 2 /\ why'[1] = "failed" /\ why'[2] = "closed" /\ DOMAIN why' = 1 .. 2
        <5>1. why \in Seq(Ways) /\ "closed" \in Ways /\ why[1] = "failed" /\ Len(why) = 1
          BY <3>2, <4>1 DEF Ways
        <5>2. why' = Append(why, "closed")
          BY <2>1, <4>2
        <5> QED BY <5>1, <5>2, Second
      <4> QED BY <3>2, <4>1, <4>2, <4>3 DEF Nth
    <3> QED BY <1>4, <3>1, <3>2 DEF Inv, TypeOK, Ending, Phases
  <2> HIDE DEF n, how
  <2>3. Stopping(n) /\ Stop[n] \in Timers /\ Shutdown[n] \in Ops /\ Shutdown[n] \in Shutdowns
    BY <2>2, Pairs DEF Inv, Ending
  <2>4. timer[Stop[n]] = "off" /\ ~Queued(Stop[n]) /\ ~Busy(Shutdown[n]) /\ pending[Shutdown[n]] = 0
    BY <1>1, <2>2, <2>3 DEF Stopping, Busy
  <2>5. /\ timer' \in [Timers -> Kinds] /\ timer'[Stop[n]] = "armed"
        /\ \A u \in Timers \ {Stop[n]} : timer'[u] = c[u]
        /\ pending' \in [Ops -> 0 .. 1] /\ pending'[Shutdown[n]] = 1
        /\ \A x \in Ops \ {Shutdown[n]} : pending'[x] = pending[x]
    BY <1>2, <2>1, <2>3, <2>4, Starts
  <2>6. Reporting'
    <3>1. \A k \in DOMAIN why : k \in DOMAIN why' /\ why'[k] = why[k]
      BY <2>2
    <3> QED BY <1>1, <3>1 DEF Inv, Ending, Reporting
  <2>7. ASSUME NEW m \in {1, 2} PROVE Stopping(m)'
    <3>1. Stopping(m) /\ Stop[m] \in Stops /\ Stop[m] \in Timers /\ Shutdown[m] \in Shutdowns
          /\ Shutdown[m] \in Ops
      BY Pairs DEF Inv, Ending
    <3>2. Sole(ready', Stop[m]) /\ (Queued(Stop[m])' <=> Queued(Stop[m]))
          /\ (Queued(Shutdown[m])' <=> Queued(Shutdown[m]))
      BY <3>1 DEF Stopping
    <3>3. CASE m = n
      <4>1. ~\E k \in DOMAIN ended' : ended'[k] = why'[n]
        BY <1>1, <2>2 DEF Inv, Ending, Reporting
      <4>2. ~Reported(why[m])'
        BY <3>3, <4>1 DEF Reported
      <4> QED BY <2>2, <2>4, <2>5, <3>2, <3>3, <4>2 DEF Stopping, Over
    <3>4. CASE m # n
      <4>1. Stop[m] # Stop[n] /\ Shutdown[m] # Shutdown[n]
        BY <2>2, <3>4, Pairs
      <4>2. timer'[Stop[m]] = timer[Stop[m]] /\ pending'[Shutdown[m]] = pending[Shutdown[m]]
        BY <1>2, <2>5, <3>1, <4>1
      <4>3. Len(why') >= m => Len(why) >= m /\ why'[m] = why[m]
        BY <2>2, <3>4
      <4>4. Len(why') < m <=> Len(why) < m
        BY <2>2, <3>4
      <4>5. Busy(Shutdown[m])' <=> Busy(Shutdown[m])
        BY <3>2, <4>2 DEF Busy
      <4>6. (Over(Stop[m])' <=> Over(Stop[m])) /\ \A h : Reported(h)' <=> Reported(h)
        BY <1>1, <3>2, <4>2 DEF Over, Reported
      <4> QED BY <3>1, <3>2, <4>2, <4>3, <4>4, <4>5, <4>6 DEF Stopping
    <3> QED BY <3>3, <3>4
  <2>8. \A s \in Shutdowns : pending'[s] = 1 => ~Queued(s)
    <3>1. \A s \in Ops : pending[s] = 1 => ~Queued(s)
      BY DEF Inv, Exclusive
    <3> QED BY <2>4, <2>5, <3>1, Pairs DEF Busy
  <2>9. \A x \in Ops \ Shutdowns : pending'[x] = pending[x]
    BY <2>3, <2>5
  <2> QED BY <1>1, <2>1, <2>3, <2>4, <2>5, <2>6, <2>7, <2>8, <2>9 DEF Ending
<1> QED BY <1>3, <1>4

\* What is outstanding after a handler h that issued the operations in I.
Settled(h, I) ==
  /\ pending' \in [Ops -> 0 .. 1]
  /\ \A x \in Ops : /\ Busy(x)' <=> x \in I \/ (Busy(x) /\ x # h)
                    /\ pending'[x] = 1 => ~Queued(x)'
                    /\ Sole(ready', x)

\* What a handler that starts the operations I leaves outstanding and queued.
LEMMA Settles ==
  ASSUME Inv, NEW h, Dequeued(h), NEW I \in SUBSET Ops,
         pending' \in [Ops -> 0 .. 1],
         \A x \in Ops : pending'[x] = IF x \in I THEN 1 ELSE pending[x],
         \A x \in I : x = h \/ ~Busy(x)
  PROVE  Settled(h, I)
<1>1. pending \in [Ops -> 0 .. 1]
  BY DEF Inv, TypeOK
<1>2. ASSUME NEW x \in Ops
      PROVE  /\ Busy(x)' <=> x \in I \/ (Busy(x) /\ x # h)
             /\ pending'[x] = 1 => ~Queued(x)'
             /\ Sole(ready', x)
  <2>1. /\ pending[x] = 1 => ~QueuedIn(ready, x)
        /\ Sole(ready, x)
    BY DEF Inv, Exclusive, Queued
  <2>2. Sole(ready', x) /\ (x # h => (QueuedIn(ready', x) <=> QueuedIn(ready, x)))
        /\ (x = h => QueuedIn(ready, x) /\ ~QueuedIn(ready', x))
    BY <2>1 DEF Dequeued, Queued
  <2>3. CASE x \in I
    BY <2>1, <2>2, <2>3 DEF Busy, Queued
  <2>4. CASE x \notin I
    <3>1. pending'[x] = pending[x]
      BY <2>4
    <3> QED BY <2>1, <2>2, <2>4, <3>1 DEF Busy, Queued
  <2> QED BY <2>3, <2>4
<1> QED BY <1>1, <1>2 DEF Settled

\* Nothing issued.
LEMMA SettlesIdle ==
  ASSUME Inv, NEW h, Dequeued(h), UNCHANGED pending
  PROVE  Settled(h, {})
<1>1. pending' \in [Ops -> 0 .. 1] /\ \A x \in Ops : pending'[x] = IF x \in {} THEN 1 ELSE pending[x]
  BY DEF Inv, TypeOK
<1> QED BY <1>1, Settles

\* One operation issued.
LEMMA SettlesOne ==
  ASSUME Inv, NEW h, Dequeued(h), NEW op \in Ops, pending' = Issue(op), op = h \/ ~Busy(op)
  PROVE  Settled(h, {op})
<1>1. pending \in [Ops -> 0 .. 1] /\ pending[op] = 0
  <2>1. op = h => QueuedIn(ready, op)
    BY DEF Dequeued, Queued
  <2> QED BY <2>1 DEF Inv, TypeOK, Exclusive, Busy, Queued
<1>2. pending' \in [Ops -> 0 .. 1]
      /\ \A x \in Ops : pending'[x] = IF x \in {op} THEN 1 ELSE pending[x]
  BY <1>1 DEF Issue
<1> QED BY <1>2, Settles

\* A handler that is no timer's of a shutdown, and leaves those alone.
LEMMA StopsLast ==
  ASSUME Ending, NEW h, h \notin Stops, Dequeued(h), NEW I \in SUBSET (Ops \ Shutdowns), Settled(h, I),
         UNCHANGED <<why, ended>>, Phases' \/ (UNCHANGED state /\ (Opened' <=> Opened)),
         \A t \in Stops : timer'[t] = timer[t]
  PROVE  Ending'
<1>1. \A t \in Stops : (Queued(t)' <=> Queued(t)) /\ (Sole(ready, t) => Sole(ready', t))
  BY DEF Dequeued, Queued
<1>2. \A s \in Shutdowns : Busy(s)' => Busy(s)
  BY Pairs DEF Settled
<1> QED BY <1>1, <1>2, EndingStays

\* What a handler that terminates the connection leaves outstanding.
LEMMA SettlesEnd ==
  ASSUME Inv, NEW h, Dequeued(h),
         UNCHANGED pending \/ \E s \in Shutdowns : pending' = Issue(s) /\ ~Busy(s)
  PROVE  /\ pending' \in [Ops -> 0 .. 1]
         /\ \A x \in Ops : /\ x \notin Shutdowns => (Busy(x)' <=> Busy(x) /\ x # h)
                           /\ pending'[x] = 1 => ~Queued(x)'
                           /\ Sole(ready', x)
<1>1. Settled(h, {}) \/ \E s \in Shutdowns : Settled(h, {s})
  BY SettlesIdle, SettlesOne, Pairs
<1> QED BY <1>1 DEF Settled

\* A handler that has nothing left to do keeps the invariant.
LEMMA IgnoreKeeps ==
  ASSUME Inv, NEW h \in Ops \ {"write"}, NEW r, Ignore(h, r)
  PROVE  Inv'
<1> USE DEF Ignore, Handler, sessionVars, writeVars, readVars
<1>1. Dequeued(h)
  BY Dequeue DEF Inv
<1>2. Settled(h, {})
  BY <1>1, SettlesIdle
<1>3. \A g : g # h => (Queued(g)' <=> Queued(g))
  BY <1>1 DEF Dequeued, Queued
<1>4. TypeOK'
  BY <1>1 DEF Dequeued, Inv, TypeOK
<1>5. Exclusive'
  BY <1>2, <1>3 DEF Settled, Inv, Exclusive, Ops
<1>6. Writing'
  BY <1>2 DEF Settled, Inv, Writing, Ops
<1>7. Ending'
  BY <1>1, <1>2, StopsLast DEF Inv, Opened, Ops, Stops
<1>8. Waiting'
  BY <1>3 DEF Inv, Waiting, WatchedBy, Ops
<1> QED BY <1>4, <1>5, <1>6, <1>7, <1>8 DEF Inv

\* A sequence of two.
LEMMA AppendTwo == Append(<<"failed">>, "closed") = <<"failed", "closed">>
<1> DEFINE q == <<"failed">>
           p == Append(q, "closed")
           r == <<"failed", "closed">>
<1>1. q \in Seq(Ways) /\ Len(q) = 1 /\ q[1] = "failed" /\ "closed" \in Ways
  BY DEF Ways
<1>2. r \in Seq(Ways) /\ Len(r) = 2 /\ r[1] = "failed" /\ r[2] = "closed"
  BY DEF Ways
<1>3. p \in Seq(Ways) /\ Len(p) = 2 /\ p[1] = "failed" /\ p[2] = "closed"
  <2> HIDE DEF q
  <2> QED BY <1>1, Second, AppendProperties
<1> HIDE DEF p, r
<1>4. \A i \in 1 .. Len(p) : p[i] = r[i]
  <2>1. \A i \in 1 .. 2 : i = 1 \/ i = 2
    OBVIOUS
  <2> QED BY <1>2, <1>3, <2>1
<1>5. p = r
  BY <1>2, <1>3, <1>4, SeqEqual
<1> QED BY <1>5 DEF p, r

\* The end that terminate leads to.
LEMMA TerminatePhases ==
  ASSUME Inv, NEW tm, terminate(tm)
  PROVE  Phases'
<1>1. state' = "closed" /\ UNCHANGED istate
  BY DEF terminate
<1>2. CASE state = "closed"
  BY <1>1, <1>2 DEF terminate, Terminated, Inv, Ending, Phases, Opened
<1>3. CASE state # "closed"
  <2>1. why' = Append(why, IF state = "connecting" THEN "failed" ELSE "closed")
    BY <1>3 DEF terminate, Terminated
  <2>2. CASE state = "connecting"
    <3>1. why' = <<"failed">>
      BY <2>1, <2>2 DEF Inv, Ending, Phases
    <3> QED BY <1>1, <2>2, <3>1 DEF Inv, Ending, Phases, Opened
  <2>3. CASE state # "connecting"
    <3>1. Opened /\ why \in {<<>>, <<"failed">>} /\ why' = Append(why, "closed")
      BY <1>3, <2>1, <2>3 DEF Inv, TypeOK, Ending, Phases
    <3>2. why' \in {<<"closed">>, <<"failed", "closed">>}
      <4>1. CASE why = <<>>
        BY <3>1, <4>1
      <4>2. CASE why = <<"failed">>
        BY <3>1, <4>2, AppendTwo
      <4> QED BY <3>1, <4>1, <4>2
    <3> QED BY <1>1, <3>1, <3>2 DEF Phases, Opened
  <2> QED BY <2>2, <2>3
<1> QED BY <1>2, <1>3

\* A handler that terminates the connection; h is not one of the shutdown's.
LEMMA TerminateKeeps ==
  ASSUME Inv, NEW h \in Names \ (Stops \cup Shutdowns \cup {"write"}), Dequeued(h),
         NEW tm \in [Timers -> Kinds], \A t \in Stops : tm[t] = timer[t], terminate(tm),
         cancelled' \subseteq Ops, UNCHANGED <<pc, readVars, writeVars>>
  PROVE  Inv'
<1> USE DEF writeVars, readVars
<1>1. /\ \A g : g # h => (Queued(g)' <=> Queued(g))
      /\ \A g : (Queued(g)' => Queued(g)) /\ (Sole(ready, g) => Sole(ready', g))
      /\ ready' \in Seq(Item)
  BY DEF Dequeued, Queued
<1>2. /\ timer' \in [Timers -> Kinds]
      /\ UNCHANGED pending \/ \E s \in Shutdowns : pending' = Issue(s) /\ ~Busy(s)
      /\ state' = "closed" /\ hsTimer' = "none" /\ UNCHANGED <<istate, ended>>
      /\ Ending'
  BY <1>1, TerminatePhases, Terminates DEF terminate
<1>3. /\ pending' \in [Ops -> 0 .. 1]
      /\ \A x \in Ops : /\ x \notin Shutdowns => (Busy(x)' <=> Busy(x) /\ x # h)
                        /\ pending'[x] = 1 => ~Queued(x)'
                        /\ Sole(ready', x)
  BY <1>2, SettlesEnd
<1>4. TypeOK'
  BY <1>1, <1>2, <1>3 DEF Inv, TypeOK, Kinds
<1>5. Exclusive'
  BY <1>1, <1>2, <1>3 DEF Inv, Exclusive, Ops, Shutdowns
<1>6. Writing'
  BY <1>3 DEF Inv, Writing, Ops, Shutdowns
<1>7. Waiting'
  BY <1>2 DEF Waiting
<1> QED BY <1>2, <1>4, <1>5, <1>6, <1>7 DEF Inv

\* A handler that terminates the connection keeps the invariant.
LEMMA FailsKeeps ==
  ASSUME Inv, NEW h, h \notin Stops \cup Shutdowns \cup {"write"}, NEW r, Fails(h, r)
  PROVE  Inv'
<1>1. Dequeued(h)
  BY Dequeue DEF Inv, Fails, Handler
<1>2. h \in Names
  BY <1>1 DEF Dequeued
<1> QED BY <1>1, <1>2, TerminateKeeps DEF Inv, TypeOK, Fails, Handler, Kinds

\* An attempt that fails or is timed out keeps the invariant.
LEMMA AttemptKeeps ==
  ASSUME Inv, NEW op \in Attempts, AttemptFails(op) \/ AttemptTimeout(op)
  PROVE  Inv'
<1> USE DEF Stops, Shutdowns
<1>1. CASE AttemptFails(op)
  <2>1. Dequeued(op) /\ op \in Names \ (Stops \cup Shutdowns \cup {"write"})
    BY <1>1, Dequeue DEF Inv, AttemptFails, Handler, Attempts, Names, Ops
  <2>2. LET tm == Stopped(timer, Guard[op])
        IN tm \in [Timers -> Kinds] /\ \A t \in Stops : tm[t] = timer[t]
    BY DEF Inv, TypeOK, Stopped, Guard, Attempts, Timers, Kinds
  <2> QED BY <1>1, <2>1, <2>2, TerminateKeeps DEF AttemptFails, Handler, Inv, TypeOK
<1>2. CASE AttemptTimeout(op)
  <2>1. Dequeued(Guard[op]) /\ Guard[op] \in Names \ (Stops \cup Shutdowns \cup {"write"})
    BY <1>2, Dequeue DEF Inv, AttemptTimeout, Handler, Attempts, Guard, Names, Timers
  <2>2. cancelled' \subseteq Ops
    BY <1>2 DEF AttemptTimeout, cancel_socket, Inv, TypeOK
  <2> QED BY <1>2, <2>1, <2>2, TerminateKeeps DEF AttemptTimeout, Handler, Inv, TypeOK, Kinds
<1> QED BY <1>1, <1>2

\* A handler that issues the next operation before the connection is open.
LEMMA IssuesNext ==
  ASSUME Inv, NEW h \in {"resolve", "connect", "tls", "request", "response"}, Dequeued(h),
         NEW op \in {"connect", "tls", "request", "response"},
         pending' = Issue(op), istate' = Stage[op],
         h = op \/ (Stage[op] # istate \/ h = "resolve"),
         timer' \in [Timers -> Kinds], \A t \in Stops : timer'[t] = timer[t],
         hsTimer' \in {"none", "open", "close1", "close2"},
         state = "connecting" => \E t \in {"dns", "con", "post", "open"} : WatchedBy(t)',
         UNCHANGED <<cancelled, pc, readVars, writeVars, state, why, ended>>
  PROVE  Inv'
<1> USE DEF writeVars, readVars
<1>1. /\ \A g : g # h => (Queued(g)' <=> Queued(g))
      /\ ready' \in Seq(Item)
  BY DEF Dequeued, Queued
<1>2. Busy(h) /\ istate = Stage[h] /\ istate # "PROCESS_CONNECTION"
  BY DEF Dequeued, Inv, Exclusive, Busy, Ops, Stage, Shutdowns
<1>3. \A x \in Ops \ ({h} \cup Shutdowns) : ~Busy(x)
  <2>1. \A x \in Ops \ Shutdowns : Busy(x) => Stage[x] = Stage[h]
    BY <1>2 DEF Inv, Exclusive
  <2> QED BY <1>2, <2>1 DEF Inv, Exclusive, Ops, Stage, Shutdowns
<1>4. Settled(h, {op})
  BY <1>3, SettlesOne DEF Ops, Shutdowns
<1>5. TypeOK'
  BY <1>1, <1>4 DEF Settled, Inv, TypeOK, Stage, Stages, Kinds
<1>6. Exclusive'
  <2>1. \A x \in Ops \ Shutdowns : Busy(x)' <=> x = op
    BY <1>3, <1>4 DEF Settled
  <2>2. sendQ = <<>> /\ ~Queued("write_frame") /\ pc # "frames"
    BY <1>2 DEF Inv, Exclusive
  <2> QED BY <1>1, <1>4, <2>1, <2>2 DEF Settled, Inv, Exclusive, Ops, Stage, Shutdowns
<1>7. Writing'
  BY <1>4 DEF Settled, Inv, Writing, Ops
<1>8. Ending'
  <2>1. {op} \in SUBSET (Ops \ Shutdowns) /\ h \notin Stops
    BY DEF Ops, Shutdowns, Stops
  <2>2. Opened' <=> Opened
    BY <1>2 DEF Opened, Stage
  <2> QED BY <1>4, <2>1, <2>2, StopsLast DEF Inv
<1>9. Waiting'
  BY <1>1, <1>2 DEF Inv, Waiting, WatchedBy, Ending, Phases, Opened
<1> QED BY <1>5, <1>6, <1>7, <1>8, <1>9 DEF Inv

\* The handlers of the attempt keep the invariant.
LEMMA ConnectKeeps ==
  ASSUME Inv, handle_resolve \/ handle_connect \/ handle_transport_init
              \/ handle_send_http_request \/ PartialResponse
  PROVE  Inv'
<1> USE DEF sessionVars, writeVars, readVars, Handler, GoesOn
<1>1. timer \in [Timers -> Kinds]
  BY DEF Inv, TypeOK, Kinds
<1>2. ASSUME NEW t \in Timers \ Stops, NEW n \in Timers \ Stops, timer' = Armed(Stopped(timer, t), n)
      PROVE  timer' \in [Timers -> Kinds] /\ (\A u \in Stops : timer'[u] = timer[u]) /\ timer'[n] = "armed"
  BY <1>1, <1>2 DEF Armed, Stopped, Timers, Stops, Kinds
<1>3. CASE handle_resolve
  <2>1. Dequeued("resolve")
    BY <1>3, Dequeue DEF handle_resolve, Inv
  <2>2. istate = "USER_INIT"
    BY <2>1 DEF Dequeued, Inv, Exclusive, Busy, Ops, Stage, Shutdowns
  <2>3. WatchedBy("con")' /\ timer' \in [Timers -> Kinds] /\ \A u \in Stops : timer'[u] = timer[u]
    BY <1>2, <1>3 DEF handle_resolve, WatchedBy, Timers, Stops
  <2>4. hsTimer' \in {"none", "open", "close1", "close2"}
    BY <1>3 DEF handle_resolve, Inv, TypeOK
  <2> QED BY <1>3, <2>1, <2>2, <2>3, <2>4, IssuesNext DEF handle_resolve, Stage
<1>4. CASE handle_connect
  <2>1. Dequeued("connect")
    BY <1>4, Dequeue DEF handle_connect, Inv
  <2>2. istate = "USER_INIT"
    BY <2>1 DEF Dequeued, Inv, Exclusive, Busy, Ops, Stage, Shutdowns
  <2>3. WatchedBy("post")' /\ timer' \in [Timers -> Kinds] /\ \A u \in Stops : timer'[u] = timer[u]
    BY <1>2, <1>4 DEF handle_connect, WatchedBy, Timers, Stops
  <2>4. hsTimer' \in {"none", "open", "close1", "close2"}
    BY <1>4 DEF handle_connect, Inv, TypeOK
  <2> QED BY <1>4, <2>1, <2>2, <2>3, <2>4, IssuesNext DEF handle_connect, Stage
<1>5. CASE handle_transport_init
  <2>1. Dequeued("tls")
    BY <1>5, Dequeue DEF handle_transport_init, Inv
  <2>2. istate = "TRANSPORT_INIT"
    BY <2>1 DEF Dequeued, Inv, Exclusive, Busy, Ops, Stage, Shutdowns
  <2>3. WatchedBy("open")' /\ timer' \in [Timers -> Kinds] /\ \A u \in Stops : timer'[u] = timer[u]
    BY <1>2, <1>5 DEF handle_transport_init, WatchedBy, Timers, Stops
  <2> QED BY <1>5, <2>1, <2>2, <2>3, IssuesNext DEF handle_transport_init, Stage
<1>6. CASE handle_send_http_request
  <2>1. Dequeued("request")
    BY <1>6, Dequeue DEF handle_send_http_request, Inv
  <2>2. istate = "WRITE_HTTP_REQUEST"
    BY <2>1 DEF Dequeued, Inv, Exclusive, Busy, Ops, Stage, Shutdowns
  <2>3. \E t \in {"dns", "con", "post", "open"} : WatchedBy(t)'
    BY <1>6, <2>1 DEF handle_send_http_request, Inv, Waiting, WatchedBy, Dequeued, Queued
  <2>4. hsTimer' \in {"none", "open", "close1", "close2"}
    BY <1>6 DEF handle_send_http_request, Inv, TypeOK
  <2> QED BY <1>1, <1>6, <2>1, <2>2, <2>3, <2>4, IssuesNext DEF handle_send_http_request, Stage
<1>7. CASE PartialResponse
  <2>1. Dequeued("response")
    BY <1>7, Dequeue DEF PartialResponse, Inv
  <2>2. istate = "READ_HTTP_RESPONSE"
    BY <2>1 DEF Dequeued, Inv, Exclusive, Busy, Ops, Stage, Shutdowns
  <2>3. \E t \in {"dns", "con", "post", "open"} : WatchedBy(t)'
    BY <1>7, <2>1 DEF PartialResponse, Inv, Waiting, WatchedBy, Dequeued, Queued
  <2>4. hsTimer' \in {"none", "open", "close1", "close2"}
    BY <1>7 DEF PartialResponse, Inv, TypeOK
  <2> QED BY <1>1, <1>7, <2>1, <2>2, <2>3, <2>4, IssuesNext DEF PartialResponse, Stage
<1> QED BY <1>3, <1>4, <1>5, <1>6, <1>7

\* The answer that opens the connection keeps the invariant.
LEMMA OpenKeeps ==
  ASSUME Inv, handle_read_http_response
  PROVE  Inv'
<1> USE DEF sessionVars, writeVars, readVars, handle_read_http_response
<1>1. Dequeued("response")
  BY Dequeue DEF Inv
<1>2. Settled("response", {})
  BY <1>1, SettlesIdle
<1>3. /\ \A g : g # "response" => (Queued(g)' <=> Queued(g))
      /\ ready' \in Seq(Item)
  BY <1>1 DEF Dequeued, Queued
<1>4. istate = "READ_HTTP_RESPONSE"
  BY <1>1 DEF Dequeued, Inv, Exclusive, Busy, Ops, Stage, Shutdowns
<1>5. \A x \in Ops \ ({"response"} \cup Shutdowns) : ~Busy(x)
  BY <1>4 DEF Inv, Exclusive, Ops, Stage, Shutdowns
<1>6. timer' \in [Timers -> Kinds] /\ \A u \in Stops : timer'[u] = timer[u]
  BY DEF Inv, TypeOK, Stopped, Timers, Stops, Kinds
<1>7. TypeOK'
  BY <1>3, <1>6 DEF Inv, TypeOK, Stages, Kinds
<1>8. Exclusive'
  BY <1>2, <1>3, <1>5 DEF Settled, Inv, Exclusive, Ops, Shutdowns
<1>9. Writing'
  BY <1>2 DEF Settled, Inv, Writing, Ops
<1>10. Ending'
  <2>1. Phases'
    BY DEF Inv, Ending, Phases, Opened
  <2>2. "response" \notin Stops /\ {} \in SUBSET (Ops \ Shutdowns)
    BY DEF Stops
  <2> QED BY <1>1, <1>2, <1>6, <2>1, <2>2, StopsLast DEF Inv
<1>11. Waiting'
  BY DEF Waiting
<1> QED BY <1>7, <1>8, <1>9, <1>10, <1>11 DEF Inv

\* The answer whose extensions are refused keeps the invariant.
LEMMA NegotiationKeeps ==
  ASSUME Inv, NegotiationFails
  PROVE  Inv'
<1> USE DEF writeVars, readVars, NegotiationFails
<1>1. Dequeued("response")
  BY Dequeue DEF Inv
<1>2. /\ \A g : g # "response" => (Queued(g)' <=> Queued(g))
      /\ \A g : Sole(ready, g) => Sole(ready', g)
      /\ ready' \in Seq(Item)
  BY <1>1 DEF Dequeued, Queued
<1>3. Phases'
  <2>1. why' = <<"failed">>
    BY DEF Terminated, Inv, Ending, Phases
  <2> QED BY <2>1 DEF Phases, Opened
<1>4. /\ timer' \in [Timers -> Kinds]
      /\ UNCHANGED pending \/ \E s \in Shutdowns : pending' = Issue(s) /\ ~Busy(s)
      /\ hsTimer' = "none" /\ UNCHANGED ended
      /\ Ending'
  <2>1. timer \in [Timers -> Kinds] /\ "response" \notin Stops \cup Shutdowns
    BY DEF Inv, TypeOK, Kinds, Stops, Shutdowns
  <2> QED BY <1>2, <1>3, <2>1, Terminates
<1>5. /\ pending' \in [Ops -> 0 .. 1]
      /\ \A x \in Ops : /\ x \notin Shutdowns => (Busy(x)' <=> Busy(x) /\ x # "response")
                        /\ pending'[x] = 1 => ~Queued(x)'
                        /\ Sole(ready', x)
  BY <1>1, <1>4, SettlesEnd
<1>6. istate = "READ_HTTP_RESPONSE"
  BY <1>1 DEF Dequeued, Inv, Exclusive, Busy, Ops, Stage, Shutdowns
<1>7. \A x \in Ops \ Shutdowns : ~Busy(x)'
  BY <1>5, <1>6 DEF Inv, Exclusive, Ops, Stage, Shutdowns
<1>8. TypeOK'
  BY <1>2, <1>4, <1>5 DEF Inv, TypeOK, Stages, Kinds
<1>9. Exclusive'
  BY <1>5, <1>7 DEF Exclusive, Ops, Shutdowns
<1>10. Writing'
  BY <1>5, <1>7 DEF Inv, Writing, Ops, Shutdowns
<1>11. Waiting'
  BY DEF Waiting
<1> QED BY <1>4, <1>8, <1>9, <1>10, <1>11 DEF Inv

\* The completion of a read keeps the invariant.
LEMMA ReadKeeps ==
  ASSUME Inv, handle_read_frame
  PROVE  Inv'
<1> USE DEF sessionVars, writeVars, readVars, handle_read_frame
<1>1. Dequeued("read")
  BY Dequeue DEF Inv
<1>2. Settled("read", {})
  BY <1>1, SettlesIdle
<1>3. /\ \A g : g # "read" => (Queued(g)' <=> Queued(g))
      /\ ready' \in Seq(Item)
  BY <1>1 DEF Dequeued, Queued
<1>4. istate = "PROCESS_CONNECTION"
  BY <1>1 DEF Dequeued, Inv, Exclusive, Busy, Ops, Stage, Shutdowns
<1>5. TypeOK'
  BY <1>3 DEF Inv, TypeOK
<1>6. Exclusive'
  BY <1>2, <1>3, <1>4 DEF Settled, Inv, Exclusive, Ops
<1>7. Writing'
  BY <1>2 DEF Settled, Inv, Writing, Ops
<1>8. Ending'
  <2>1. "read" \notin Stops /\ {} \in SUBSET (Ops \ Shutdowns)
    BY DEF Stops
  <2> QED BY <1>1, <1>2, <2>1, StopsLast DEF Inv, Opened
<1>9. Waiting'
  BY <1>3 DEF Inv, Waiting, WatchedBy
<1> QED BY <1>5, <1>6, <1>7, <1>8, <1>9 DEF Inv

\* While frames are consumed: nothing is taken from the queue, and at most
\* write_frame is posted.
Posted == \A g : /\ g # "write_frame" => (QueuedIn(ready', g) <=> QueuedIn(ready, g))
                 /\ g # "write_frame" /\ Sole(ready, g) => Sole(ready', g)

\* Posting a write, or not, as write_push does.
LEMMA Posts ==
  ASSUME Inv, \/ UNCHANGED ready
              \/ ready' = Append(ready, <<"write_frame", "post">>)
  PROVE  ready' \in Seq(Item) /\ Posted
<1>1. CASE UNCHANGED ready
  BY <1>1 DEF Inv, TypeOK, Posted, Queued
<1>2. CASE ready' = Append(ready, <<"write_frame", "post">>)
  <2>1. Enqueued("write_frame")
    BY <1>2, Enqueue DEF Inv, Names, Results
  <2> QED BY <2>1 DEF Enqueued, Posted
<1> QED BY <1>1, <1>2

\* A step within handle_read_frame that may send a message and post write_frame.
Consumed ==
  /\ UNCHANGED <<cancelled, istate, why, ended, current, writeFlag, wire, stream>>
  /\ istate = "PROCESS_CONNECTION"
  /\ used' \in 0 .. Len(stream) /\ received' \in Seq(Nat) /\ sendQ' \in Seq(Msgs)
  /\ ready' \in Seq(Item) /\ Posted

\* What consuming a frame may change keeps the invariant.
LEMMA ConsumedKeeps ==
  ASSUME Inv, Consumed, UNCHANGED <<pending, timer, state, hsTimer>>,
         pc' \in {"loop", pc}
  PROVE  Inv'
<1> USE DEF Consumed
<1>1. /\ \A x : x # "write_frame" => (Queued(x)' <=> Queued(x))
      /\ \A x \in Ops \cup Timers : x # "write_frame" /\ (Sole(ready, x) => Sole(ready', x))
  BY DEF Posted, Queued, Ops, Timers
<1>2. \A x \in Ops : Busy(x)' <=> Busy(x)
  BY <1>1 DEF Busy
<1>3. TypeOK'
  BY DEF Inv, TypeOK
<1>4. Exclusive'
  <2>1. \A x \in Ops : pending'[x] = 1 => ~Queued(x)'
    BY <1>1 DEF Inv, Exclusive
  <2>2. \A x \in Ops : Sole(ready', x)
    BY <1>1 DEF Inv, Exclusive
  <2> QED BY <1>2, <2>1, <2>2 DEF Inv, Exclusive, Ops
<1>5. Writing'
  BY <1>2 DEF Inv, Writing, Ops
<1>6. {"dns", "con", "post", "open", "close1", "close2"} \subseteq Timers
  BY DEF Ops, Timers
<1>7. Ending'
  BY <1>1, <1>2, Pairs, EndingStays DEF Inv, Opened
<1>8. Waiting'
  BY <1>1, <1>6 DEF Inv, Waiting, WatchedBy
<1> QED BY <1>3, <1>4, <1>5, <1>7, <1>8 DEF Inv

\* Consuming a frame changes no more than Consumed says.
LEMMA Consumes ==
  ASSUME Inv, pc = "frames", used' \in 0 .. Len(stream),
         UNCHANGED <<cancelled, istate, why, ended, stream>>,
         UNCHANGED received \/ received' = Append(received, used'),
         UNCHANGED <<writeVars, ready>> \/ \E m \in Msgs : Send(m)
  PROVE  Consumed
<1>1. ready' \in Seq(Item) /\ Posted
  BY Posts DEF Send
<1>2. received \in Seq(Nat) /\ sendQ \in Seq(Msgs) /\ Len(stream) \in Nat
  BY DEF Inv, TypeOK
<1>3. received' \in Seq(Nat)
  <2>1. used' \in Nat
    BY <1>2
  <2> QED BY <1>2, <2>1, AppendProperties
<1>4. sendQ' \in Seq(Msgs)
  BY <1>2 DEF Send, writeVars
<1>5. istate = "PROCESS_CONNECTION" /\ UNCHANGED <<current, writeFlag, wire>>
  BY DEF Inv, Exclusive, Send, writeVars
<1> QED BY <1>1, <1>3, <1>4, <1>5 DEF Consumed

\* Consuming a message, a ping, a pong or an acknowledgement keeps the invariant.
LEMMA ConsumeKeeps ==
  ASSUME Inv, DataMessage \/ DropFrame \/ pong \/ CloseAcked
  PROVE  Inv'
<1>1. /\ pc = "frames" /\ used < Len(stream) /\ used' = used + 1
      /\ UNCHANGED <<pc, stream, pending, cancelled, timer, sessionVars>>
      /\ UNCHANGED received \/ received' = Append(received, used')
      /\ UNCHANGED <<writeVars, ready>> \/ Send("pong")
  BY DEF DataMessage, DropFrame, pong, CloseAcked, Consume
<1>2. used' \in 0 .. Len(stream) /\ "pong" \in Msgs
  BY <1>1 DEF Inv, TypeOK, Msgs
<1>3. Consumed
  BY <1>1, <1>2, Consumes DEF sessionVars
<1> QED BY <1>1, <1>3, ConsumedKeeps DEF sessionVars

\* A close frame is sent, under a new timer.
LEMMA CloseKeeps ==
  ASSUME Inv, Consumed, pc' \in {"loop", pc}, UNCHANGED pending, state \in {"open", "closing"},
         NEW m \in Msgs, send_close_frame(m)
  PROVE  Inv'
<1> USE DEF Consumed, send_close_frame
<1>1. /\ \A x : x # "write_frame" => (Queued(x)' <=> Queued(x))
      /\ \A x \in Ops \cup Timers : x # "write_frame" /\ (Sole(ready, x) => Sole(ready', x))
  BY DEF Posted, Queued, Ops, Timers
<1>2. \A x \in Ops : Busy(x)' <=> Busy(x)
  BY <1>1 DEF Busy
<1>3. /\ hsTimer' \in {"close1", "close2"} /\ timer'[hsTimer'] = "armed"
      /\ timer' \in [Timers -> Kinds]
      /\ \A t \in Stops : timer'[t] = timer[t]
  BY DEF Inv, TypeOK, Armed, Timers, Stops, Kinds
<1>4. TypeOK'
  BY <1>3 DEF Inv, TypeOK, Kinds
<1>5. Exclusive'
  <2>1. \A x \in Ops : pending'[x] = 1 => ~Queued(x)'
    BY <1>1 DEF Inv, Exclusive
  <2>2. \A x \in Ops : Sole(ready', x)
    BY <1>1 DEF Inv, Exclusive
  <2> QED BY <1>2, <2>1, <2>2 DEF Inv, Exclusive, Ops
<1>6. Writing'
  BY <1>2 DEF Inv, Writing, Ops
<1>7. Phases'
  BY DEF Inv, Ending, Phases, Opened
<1>8. Ending'
  BY <1>1, <1>2, <1>3, <1>7, Pairs, EndingStays DEF Inv
<1>9. Waiting'
  BY <1>3 DEF Waiting, WatchedBy
<1> QED BY <1>4, <1>5, <1>6, <1>8, <1>9 DEF Inv

\* Answering a close frame keeps the invariant.
LEMMA CloseFrameKeeps ==
  ASSUME Inv, send_close_ack
  PROVE  Inv'
<1>1. /\ pc = "frames" /\ used < Len(stream) /\ used' = used + 1 /\ state \in {"open", "closing"}
      /\ UNCHANGED <<pc, stream, pending, cancelled>>
      /\ send_close_frame("close")
  BY DEF send_close_ack, Consume
<1>2. used' \in 0 .. Len(stream) /\ "close" \in Msgs
  BY <1>1 DEF Inv, TypeOK, Msgs
<1>3. Consumed
  BY <1>1, <1>2, Consumes DEF send_close_frame
<1> QED BY <1>1, <1>2, <1>3, CloseKeeps

\* terminate within handle_read_frame.
LEMMA TerminateInFrames ==
  ASSUME Inv, pc = "frames", pc' = "loop", terminate(timer), used' \in 0 .. Len(stream),
         UNCHANGED <<ready, received, stream, cancelled, writeVars>>
  PROVE  Inv'
<1> USE DEF writeVars
<1>1. \A g : Queued(g)' <=> Queued(g)
  BY DEF Queued
<1>2. timer \in [Timers -> Kinds]
  BY DEF Inv, TypeOK, Kinds
<1>3. /\ timer' \in [Timers -> Kinds]
      /\ pending' \in [Ops -> 0 .. 1]
      /\ \A x \in Ops \ Shutdowns : pending'[x] = pending[x]
      /\ \A s \in Shutdowns : pending'[s] = 1 => ~Queued(s)
      /\ state' = "closed" /\ hsTimer' = "none" /\ UNCHANGED <<istate, ended>>
      /\ Ending'
  BY <1>1, <1>2, TerminatePhases, Terminates DEF terminate
<1>4. \A x \in Ops \ Shutdowns : Busy(x)' <=> Busy(x)
  BY <1>1, <1>3 DEF Busy
<1>5. TypeOK'
  BY <1>3 DEF Inv, TypeOK, Kinds
<1>6. Exclusive'
  BY <1>1, <1>3, <1>4 DEF Inv, Exclusive, Ops, Shutdowns
<1>7. Writing'
  BY <1>4 DEF Inv, Writing, Ops, Shutdowns
<1>8. Waiting'
  BY <1>3 DEF Waiting
<1> QED BY <1>3, <1>5, <1>6, <1>7, <1>8 DEF Inv

\* A frame that breaks the protocol keeps the invariant.
LEMMA ErrorKeeps ==
  ASSUME Inv, ProtocolError
  PROVE  Inv'
<1>1. used' \in 0 .. Len(stream) /\ pc = "frames" /\ pc' = "loop" /\ UNCHANGED <<stream, cancelled>>
  BY DEF ProtocolError, Inv, TypeOK
<1>2. CASE state = "open"
  <2>1. send_close_frame("lastClose") /\ UNCHANGED pending
    BY <1>2 DEF ProtocolError
  <2>2. Consumed
    BY <1>1, <2>1, Consumes DEF send_close_frame, Msgs
  <2> QED BY <1>1, <1>2, <2>1, <2>2, CloseKeeps DEF Msgs
<1>3. CASE state # "open"
  BY <1>1, <1>3, TerminateInFrames DEF ProtocolError
<1> QED BY <1>2, <1>3

\* Issuing the next read keeps the invariant.
LEMMA ReadAgainKeeps ==
  ASSUME Inv, read_frame
  PROVE  Inv'
<1> USE DEF read_frame, sessionVars, writeVars, readVars
<1>1. \A g : Queued(g)' <=> Queued(g)
  BY DEF Queued
<1>2. pending \in [Ops -> 0 .. 1] /\ pending["read"] = 0 /\ ~Queued("read")
      /\ istate = "PROCESS_CONNECTION" /\ "read" \in Ops
  BY DEF Inv, TypeOK, Exclusive, Busy, Ops
<1>3. pending' \in [Ops -> 0 .. 1] /\ \A x \in Ops : x # "read" => pending'[x] = pending[x]
  BY <1>2 DEF Issue
<1>4. TypeOK'
  BY <1>3 DEF Inv, TypeOK
<1>5. Exclusive'
  BY <1>1, <1>2, <1>3 DEF Inv, Exclusive, Busy, Ops, Stage, Shutdowns
<1>6. Writing'
  BY <1>1, <1>3 DEF Inv, Writing, Busy, Ops
<1>7. Ending'
  <2>1. \A s \in Shutdowns : Busy(s)' <=> Busy(s)
    BY <1>1, <1>3 DEF Busy, Ops, Shutdowns
  <2> QED BY <1>1, <2>1, EndingStays DEF Inv, Opened
<1>8. Waiting'
  BY <1>1 DEF Inv, Waiting, WatchedBy
<1> QED BY <1>4, <1>5, <1>6, <1>7, <1>8 DEF Inv

\* Of the frames waiting, a batch is written.
LEMMA StartsWrite ==
  ASSUME Inv, StartWrite
  PROVE  /\ current' \in Seq(Msgs) /\ current' # <<>> /\ sendQ' \in Seq(Msgs)
         /\ pending' = Issue("write") /\ writeFlag' = TRUE /\ UNCHANGED wire
<1>1. PICK n \in 1 .. Len(sendQ) : /\ current' = SubSeq(sendQ, 1, n)
                                   /\ sendQ' = SubSeq(sendQ, n + 1, Len(sendQ))
                                   /\ pending' = Issue("write") /\ writeFlag' = TRUE /\ UNCHANGED wire
  BY DEF StartWrite
<1>2. sendQ \in Seq(Msgs) /\ Len(sendQ) \in Nat /\ n \in Nat
  BY DEF Inv, TypeOK
<1>3. \A i \in 1 .. Len(sendQ) : sendQ[i] \in Msgs
  BY <1>2
<1>4. current' \in Seq(Msgs) /\ Len(current') = n
  <2>1. 1 \in Int /\ n \in Int /\ \A i \in 1 .. n : sendQ[i] \in Msgs
    BY <1>2, <1>3
  <2>2. SubSeq(sendQ, 1, n) \in Seq(Msgs) /\ Len(SubSeq(sendQ, 1, n)) = n
    BY <1>2, <2>1, SubSeqProperties
  <2> QED BY <1>1, <2>2
<1>5. sendQ' \in Seq(Msgs)
  <2>1. n + 1 \in Int /\ Len(sendQ) \in Int /\ \A i \in n + 1 .. Len(sendQ) : sendQ[i] \in Msgs
    BY <1>2, <1>3
  <2>2. SubSeq(sendQ, n + 1, Len(sendQ)) \in Seq(Msgs)
    BY <2>1, SubSeqProperties
  <2> QED BY <1>1, <2>2
<1>6. current' # <<>>
  BY <1>4
<1> QED BY <1>1, <1>4, <1>5, <1>6

\* Starting a write keeps the invariant.
LEMMA WriteKeeps ==
  ASSUME Inv, write_frame
  PROVE  Inv'
<1> USE DEF sessionVars, readVars, Handler
<1>1. Dequeued("write_frame")
  BY Dequeue DEF Inv, write_frame
<1>2. /\ \A g : g # "write_frame" => (Queued(g)' <=> Queued(g))
      /\ ready' \in Seq(Item)
  BY <1>1 DEF Dequeued, Queued
<1>3. istate = "PROCESS_CONNECTION"
  BY <1>1 DEF Dequeued, Inv, Exclusive
<1>4. UNCHANGED <<cancelled, timer, sessionVars, pc, readVars>>
  BY DEF write_frame
<1>5. CASE UNCHANGED <<pending, writeVars>>
  <2> USE DEF writeVars
  <2>1. Settled("write_frame", {})
    BY <1>1, <1>5, SettlesIdle
  <2>2. TypeOK'
    BY <1>2, <1>4, <1>5 DEF Inv, TypeOK
  <2>3. Exclusive'
    BY <1>2, <1>3, <1>4, <1>5, <2>1 DEF Settled, Inv, Exclusive, Ops
  <2>4. Writing'
    BY <1>5, <2>1 DEF Settled, Inv, Writing, Ops
  <2>5. Ending'
    BY <1>1, <1>4, <2>1, StopsLast DEF Inv, Opened, Stops
  <2>6. Waiting'
    BY <1>2, <1>4 DEF Inv, Waiting, WatchedBy
  <2> QED BY <2>2, <2>3, <2>4, <2>5, <2>6 DEF Inv
<1>6. CASE ~writeFlag /\ StartWrite
  <2>1. /\ current' \in Seq(Msgs) /\ current' # <<>> /\ sendQ' \in Seq(Msgs)
        /\ pending' = Issue("write") /\ writeFlag' = TRUE /\ UNCHANGED wire
    BY <1>6, StartsWrite
  <2>2. ~Busy("write")
    BY <1>6 DEF Inv, Writing
  <2>3. Settled("write_frame", {"write"})
    BY <1>1, <2>1, <2>2, SettlesOne DEF Ops
  <2>4. TypeOK'
    BY <1>2, <1>4, <2>1, <2>3 DEF Settled, Inv, TypeOK
  <2>5. Exclusive'
    BY <1>2, <1>3, <1>4, <2>3 DEF Settled, Inv, Exclusive, Ops, Stage, Shutdowns
  <2>6. Writing'
    BY <2>1, <2>3 DEF Settled, Writing, Ops
  <2>7. Ending'
    <3>1. {"write"} \in SUBSET (Ops \ Shutdowns) /\ "write_frame" \notin Stops
      BY DEF Ops, Shutdowns, Stops
    <3> QED BY <1>1, <1>4, <2>3, <3>1, StopsLast DEF Inv, Opened
  <2>8. Waiting'
    BY <1>2, <1>4 DEF Inv, Waiting, WatchedBy
  <2> QED BY <2>4, <2>5, <2>6, <2>7, <2>8 DEF Inv
<1> QED BY <1>5, <1>6 DEF write_frame

\* A write has ended the connection: it failed, or it was the last.
LEMMA LastWriteKeeps ==
  ASSUME Inv, Dequeued("write"), terminate(timer),
         UNCHANGED <<pc, readVars, cancelled, sendQ, writeFlag>>, current' = <<>>, wire' \in Seq(Msgs)
  PROVE  Inv'
<1> USE DEF readVars
<1>1. /\ \A g : g # "write" => (Queued(g)' <=> Queued(g))
      /\ \A g : Sole(ready, g) => Sole(ready', g)
      /\ ready' \in Seq(Item)
  BY DEF Dequeued, Queued
<1>2. /\ timer' \in [Timers -> Kinds]
      /\ UNCHANGED pending \/ \E s \in Shutdowns : pending' = Issue(s) /\ ~Busy(s)
      /\ state' = "closed" /\ hsTimer' = "none" /\ UNCHANGED <<istate, ended>>
      /\ Ending'
  <2>1. timer \in [Timers -> Kinds] /\ "write" \notin Stops \cup Shutdowns
    BY DEF Inv, TypeOK, Kinds, Stops, Shutdowns
  <2> QED BY <1>1, <2>1, TerminatePhases, Terminates DEF terminate
<1>3. /\ pending' \in [Ops -> 0 .. 1]
      /\ \A x \in Ops : /\ x \notin Shutdowns => (Busy(x)' <=> Busy(x) /\ x # "write")
                        /\ pending'[x] = 1 => ~Queued(x)'
                        /\ Sole(ready', x)
  BY <1>2, SettlesEnd
<1>4. TypeOK'
  <2>1. <<>> \in Seq(Msgs)
    OBVIOUS
  <2> QED BY <1>1, <1>2, <1>3, <2>1 DEF Inv, TypeOK, Kinds
<1>5. Exclusive'
  BY <1>1, <1>2, <1>3 DEF Inv, Exclusive, Ops, Shutdowns
<1>6. Writing'
  BY <1>3 DEF Writing, Ops, Shutdowns
<1>7. Waiting'
  BY <1>2 DEF Waiting
<1> QED BY <1>2, <1>4, <1>5, <1>6, <1>7 DEF Inv

\* A write is done, and the next may begin.
LEMMA NextWriteKeeps ==
  ASSUME Inv, Runs("write", "ok"), wire' \in Seq(Msgs), current' = <<>>, writeFlag' = FALSE,
         \/ ready' = Tail(ready)
         \/ sendQ # <<>> /\ ready' = Append(Tail(ready), <<"write_frame", "post">>),
         UNCHANGED <<pc, readVars, cancelled, sendQ, pending, timer, sessionVars>>
  PROVE  Inv'
<1> USE DEF readVars, sessionVars
<1> DEFINE t == Tail(ready)
<1>1. ready \in Seq(Item) /\ ready # <<>> /\ Head(ready) = <<"write", "ok">>
  BY DEF Inv, TypeOK, Runs
<1>2. /\ t \in Seq(Item) /\ QueuedIn(ready, "write")
      /\ \A g : g # "write" => (QueuedIn(t, g) <=> QueuedIn(ready, g))
      /\ \A g : Sole(ready, g) => Sole(t, g)
      /\ Sole(ready, "write") => ~QueuedIn(t, "write")
  BY <1>1, QueueTail
<1>3. /\ ready' \in Seq(Item)
      /\ \A g : g # "write_frame" => (QueuedIn(ready', g) <=> QueuedIn(t, g)) /\ (Sole(t, g) => Sole(ready', g))
      /\ ~QueuedIn(t, "write_frame") /\ sendQ = <<>> => ~QueuedIn(ready', "write_frame")
  <2>1. CASE ready' = t
    BY <2>1, <1>2
  <2>2. CASE sendQ # <<>> /\ ready' = Append(t, <<"write_frame", "post">>)
    <3>1. "write_frame" \in Names /\ "post" \in Results
      BY DEF Names, Results
    <3> HIDE DEF t
    <3> QED BY <1>2, <2>2, <3>1, QueueAppend
  <2> QED BY <2>1, <2>2
<1> HIDE DEF t
<1>4. Sole(ready, "write") /\ pending["write"] = 0 /\ "write" \in Ops /\ "write_frame" \notin Ops
  BY <1>2 DEF Inv, TypeOK, Exclusive, Queued, Ops
<1>5. /\ \A g : g \notin {"write", "write_frame"} => (Queued(g)' <=> Queued(g))
      /\ ~Queued("write")'
      /\ \A x \in Ops : Sole(ready', x)
      /\ \A g : g # "write_frame" /\ Sole(ready, g) => Sole(ready', g)
  BY <1>2, <1>3, <1>4 DEF Queued, Inv, Exclusive
<1>6. /\ \A x \in Ops : /\ Busy(x)' <=> Busy(x) /\ x # "write"
                        /\ pending'[x] = 1 => ~Queued(x)'
      /\ Busy("write")
  <2>1. ASSUME NEW x \in Ops PROVE (Busy(x)' <=> Busy(x) /\ x # "write") /\ (pending'[x] = 1 => ~Queued(x)')
    <3>1. x = "write" \/ (x # "write" /\ (Queued(x)' <=> Queued(x)))
      BY <1>4, <1>5
    <3>2. pending'[x] = pending[x] /\ (pending[x] = 1 => ~Queued(x))
      BY DEF Inv, Exclusive
    <3> QED BY <1>4, <1>5, <3>1, <3>2 DEF Busy
  <2> QED BY <1>2, <2>1 DEF Busy, Queued
<1>7. TypeOK'
  <2>1. <<>> \in Seq(Msgs)
    OBVIOUS
  <2> QED BY <1>3, <2>1 DEF Inv, TypeOK
<1>8. istate = "PROCESS_CONNECTION"
  BY <1>4, <1>6 DEF Inv, Exclusive, Stage, Ops, Shutdowns
<1>9. Exclusive'
  BY <1>5, <1>6, <1>8 DEF Inv, Exclusive, Ops
<1>10. Writing'
  BY <1>4, <1>6 DEF Writing
<1>11. Ending'
  <2>1. \A u \in Stops : u \notin {"write", "write_frame"}
    BY DEF Stops
  <2> QED BY <1>5, <1>6, <2>1, Pairs, EndingStays DEF Inv, Opened
<1>12. Waiting'
  BY <1>5 DEF Inv, Waiting, WatchedBy
<1> QED BY <1>7, <1>9, <1>10, <1>11, <1>12 DEF Inv

\* The completion of a write keeps the invariant.
LEMMA WrittenKeeps ==
  ASSUME Inv, NEW r \in {"ok"} \cup Failures, handle_write_frame(r)
  PROVE  Inv'
<1>1. wire' \in Seq(Msgs)
  BY ConcatProperties DEF handle_write_frame, Inv, TypeOK
<1>2. Runs("write", r) /\ current' = <<>> /\ UNCHANGED <<pc, readVars, cancelled, sendQ>>
  BY DEF handle_write_frame
<1>3. CASE r \in Failures \/ current[Len(current)] = "lastClose"
  <2>1. ready' = Tail(ready) /\ UNCHANGED writeFlag
        /\ terminate(timer)
    BY <1>3 DEF handle_write_frame
  <2>2. Dequeued("write")
    BY <1>2, <2>1, Dequeue DEF Inv
  <2> QED BY <1>1, <1>2, <2>1, <2>2, LastWriteKeeps
<1>4. CASE ~(r \in Failures \/ current[Len(current)] = "lastClose")
  <2>1. /\ writeFlag' = FALSE /\ UNCHANGED <<pending, timer, sessionVars>>
        /\ \/ ready' = Tail(ready)
           \/ sendQ # <<>> /\ ready' = Append(Tail(ready), <<"write_frame", "post">>)
    BY <1>4 DEF handle_write_frame
  <2>2. r = "ok"
    BY <1>4
  <2> QED BY <1>1, <1>2, <2>1, <2>2, NextWriteKeeps
<1> QED BY <1>3, <1>4

\* An end is reported.
LEMMA ReportKeeps ==
  ASSUME Inv, NEW n \in DOMAIN why, NEW h \in {Shutdown[n], Stop[n]}, Dequeued(h),
         handle_terminate(n), cancelled' \subseteq Ops, UNCHANGED <<pc, readVars>>,
         timer' \in [Timers -> Kinds], ~Over(Stop[n]), Over(Stop[n])',
         Queued(Stop[n])' => timer'[Stop[n]] = "expired",
         timer'[Stop[n]] = "cancelled" => ~Busy(Shutdown[n])',
         \A t \in Timers \ {Stop[n]} : timer'[t] = timer[t]
  PROVE  Inv'
<1> USE DEF handle_terminate, writeVars, readVars
<1>1. /\ n \in {1, 2} /\ Len(why) >= n /\ Len(why) \in Nat
      /\ \A m \in DOMAIN why : m \in {1, 2} /\ (m # n => why[m] # why[n])
      /\ DOMAIN why = 1 .. Len(why)
  BY Ends12
<1>2. /\ Stop[n] \in Stops /\ Shutdown[n] \in Shutdowns /\ Stops \subseteq Timers /\ Shutdowns \subseteq Ops
      /\ Stopping(n) /\ why[n] \in Ways
  BY <1>1, Pairs, Ends12 DEF Inv, Ending, Ways
<1>3. h \notin {"dns", "con", "post", "open", "close1", "close2", "write", "write_frame"}
      /\ Stop[n] \notin {"dns", "con", "post", "open", "close1", "close2"}
  BY <1>2 DEF Stops, Shutdowns
<1>4. Settled(h, {})
  BY SettlesIdle
<1>5. /\ \A g : g # h => (Queued(g)' <=> Queued(g))
      /\ \A g : (Queued(g)' => Queued(g)) /\ (Sole(ready, g) => Sole(ready', g))
      /\ ready' \in Seq(Item)
  BY DEF Dequeued, Queued
<1>6. TypeOK'
  BY <1>4, <1>5 DEF Settled, Inv, TypeOK, Kinds
<1>7. Exclusive'
  BY <1>2, <1>3, <1>4, <1>5 DEF Settled, Inv, Exclusive, Ops, Shutdowns, Stops
<1>8. Writing'
  BY <1>3, <1>4 DEF Settled, Inv, Writing, Ops
<1>9. ended' = Append(ended, why[n]) /\ ended \in Seq(Ways) /\ ~Reported(why[n])
  BY <1>1, <1>2 DEF Inv, Ending, Reporting, Stopping
<1>10. /\ ended' \in Seq(Ways) /\ DOMAIN ended = 1 .. Len(ended) /\ DOMAIN ended' = 1 .. Len(ended) + 1
       /\ Len(ended) \in Nat /\ ended'[Len(ended) + 1] = why[n]
       /\ \A k \in DOMAIN ended : ended'[k] = ended[k]
  BY <1>2, <1>9, AppendProperties
<1>11. \A how : Reported(how)' <=> Reported(how) \/ how = why[n]
  BY <1>10 DEF Reported
<1>12. Reporting'
  <2>1. \A k \in DOMAIN ended' : \E m \in DOMAIN why : ended'[k] = why[m]
    BY <1>10 DEF Inv, Ending, Reporting
  <2>2. \A k \in DOMAIN ended : ended[k] # why[n]
    BY <1>9 DEF Reported
  <2>3. \A j, k \in DOMAIN ended' : j # k => ended'[j] # ended'[k]
    BY <1>10, <2>2 DEF Inv, Ending, Reporting
  <2> QED BY <1>10, <2>1, <2>3 DEF Reporting
<1>13. ASSUME NEW m \in {1, 2} PROVE Stopping(m)'
  <2>1. Stopping(m) /\ Stop[m] \in Stops /\ Shutdown[m] \in Shutdowns
    BY Pairs DEF Inv, Ending
  <2>2. Busy(Shutdown[m])' => Busy(Shutdown[m])
    BY <1>2, <1>4, <2>1 DEF Settled
  <2>3. CASE m = n
    <3>1. Reported(why[m])' /\ Over(Stop[m])' /\ timer'[Stop[m]] \in {"cancelled", "expired"}
      BY <1>11, <2>3 DEF Over
    <3> QED BY <1>1, <1>5, <2>1, <2>2, <2>3, <3>1 DEF Stopping
  <2>4. CASE m # n
    <3>1. Stop[m] # Stop[n] /\ Stop[m] # h
      <4>1. Stop[m] # Shutdown[n]
        BY <1>2, <2>1 DEF Stops, Shutdowns
      <4> QED BY <1>1, <2>4, <4>1, Pairs
    <3>2. timer'[Stop[m]] = timer[Stop[m]] /\ (Queued(Stop[m])' <=> Queued(Stop[m]))
      BY <1>2, <1>5, <2>1, <3>1
    <3>3. Over(Stop[m])' <=> Over(Stop[m])
      BY <3>2 DEF Over
    <3>4. Len(why) >= m => (Reported(why[m])' <=> Reported(why[m]))
      BY <1>1, <1>11, <2>4
    <3> QED BY <1>5, <2>1, <2>2, <3>2, <3>3, <3>4 DEF Stopping
  <2> QED BY <2>3, <2>4
<1>14. Ending'
  <2>1. Phases'
    BY DEF Inv, Ending, Phases, Opened
  <2> QED BY <1>12, <1>13, <2>1 DEF Ending
<1>15. Waiting'
  BY <1>3, <1>5 DEF Inv, Waiting, WatchedBy, Timers
<1> QED BY <1>6, <1>7, <1>8, <1>14, <1>15 DEF Inv

\* The shutdown is over: its handler ends the connection unless the timer has.
LEMMA ShutdownKeeps ==
  ASSUME Inv, NEW n \in DOMAIN why, handle_async_shutdown(n)
  PROVE  Inv'
<1> USE DEF handle_async_shutdown, Handler
<1>1. Dequeued(Shutdown[n])
  BY Dequeue DEF Inv
<1>2. /\ Stop[n] \in Stops /\ Shutdown[n] \in Shutdowns /\ Stops \subseteq Timers /\ Shutdowns \subseteq Ops
      /\ Stopping(n)
  BY Ends12, Pairs DEF Inv, Ending
<1>3. Busy(Shutdown[n]) /\ UNCHANGED pending
  BY <1>1 DEF Dequeued, Busy, handle_terminate
<1>4. ~Busy(Shutdown[n])'
  BY <1>1, <1>2, <1>3, SettlesIdle DEF Settled
<1>5. timer[Stop[n]] = "armed" /\ ~Queued(Stop[n])
  BY <1>2, <1>3 DEF Stopping, is_neg
<1>6. /\ timer \in [Timers -> Kinds] /\ timer' \in [Timers -> Kinds] /\ timer'[Stop[n]] = "cancelled"
      /\ \A t \in Timers \ {Stop[n]} : timer'[t] = timer[t]
  BY <1>2, <1>5 DEF Inv, TypeOK, Stopped, Kinds
<1>7. ~Queued(Stop[n])'
  BY <1>1, <1>2, <1>5 DEF Dequeued, Queued, Stops, Shutdowns
<1>8. ~Over(Stop[n]) /\ Over(Stop[n])' /\ cancelled' \subseteq Ops
  BY <1>5, <1>6 DEF Over, Inv, TypeOK
<1> QED BY <1>1, <1>4, <1>6, <1>7, <1>8, ReportKeeps

\* The expiry of the shutdown's timer keeps the invariant.
LEMMA ShutdownTimeoutKeeps ==
  ASSUME Inv, NEW n \in DOMAIN why, handle_async_shutdown_timeout(n)
  PROVE  Inv'
<1> USE DEF handle_async_shutdown_timeout, Handler
<1>1. Dequeued(Stop[n])
  BY Dequeue DEF Inv
<1>2. Stopping(n)
  BY Ends12 DEF Inv, Ending
<1>3. Queued(Stop[n]) /\ timer[Stop[n]] = "expired" /\ ~Queued(Stop[n])' /\ UNCHANGED timer
  BY <1>1, <1>2 DEF Dequeued, Stopping, Queued
<1>4. ~Over(Stop[n]) /\ Over(Stop[n])'
  BY <1>3 DEF Over
<1>5. cancelled' \subseteq Ops /\ timer \in [Timers -> Kinds]
  BY DEF cancel_socket, Inv, TypeOK, Kinds
<1> QED BY <1>1, <1>3, <1>4, <1>5, ReportKeeps

\* A step that leaves all but the thread alone: the return of run, a stutter.
LEMMA StandsStill ==
  ASSUME Inv, pc' \in {pc, "returned"},
         UNCHANGED <<pending, cancelled, timer, ready, sessionVars, writeVars, readVars>>
  PROVE  Inv'
<1> USE DEF sessionVars, writeVars, readVars
<1>1. \A g : Queued(g)' <=> Queued(g)
  BY DEF Queued
<1>2. TypeOK'
  BY DEF Inv, TypeOK
<1>3. Exclusive'
  BY <1>1 DEF Inv, Exclusive, Busy
<1>4. Writing'
  BY <1>1 DEF Inv, Writing, Busy
<1>5. Ending'
  BY <1>1, EndingStays DEF Inv, Busy, Opened
<1>6. Waiting'
  BY <1>1 DEF Inv, Waiting, WatchedBy
<1> QED BY <1>2, <1>3, <1>4, <1>5, <1>6 DEF Inv

\* The invariant holds at first.
LEMMA InitInv == Init => Inv
<1> SUFFICES ASSUME Init PROVE Inv
  OBVIOUS
<1> USE DEF Init
<1>1. \A g : ~Queued(g) /\ Sole(ready, g)
  BY DEF Queued, QueuedIn, Sole
<1>2. \A op \in Ops : Busy(op) <=> op = "resolve"
  BY <1>1 DEF Busy, Ops
<1>3. TypeOK
  <2>1. /\ pending \in [Ops -> 0 .. 1]
        /\ timer \in [Timers -> Kinds]
        /\ cancelled \subseteq Ops
    BY DEF Kinds
  <2>2. /\ ready \in Seq(Item) /\ sendQ \in Seq(Msgs) /\ current \in Seq(Msgs)
        /\ wire \in Seq(Msgs) /\ stream \in Seq(Frames) /\ received \in Seq(Nat)
        /\ used \in 0 .. Len(stream)
    OBVIOUS
  <2> QED BY <2>1, <2>2 DEF TypeOK, Stages, Kinds
<1>4. Exclusive
  BY <1>1, <1>2 DEF Exclusive, Stage, Ops
<1>5. Writing
  BY <1>2 DEF Writing, Ops
<1>6. Ending
  <2>1. ASSUME NEW n \in {1, 2} PROVE Stopping(n)
    <3>1. Stop[n] \in Timers /\ Stop[n] # "dns" /\ Shutdown[n] \in Ops /\ Shutdown[n] # "resolve"
      BY Pairs DEF Stops, Shutdowns
    <3>2. timer[Stop[n]] = "off" /\ ~Busy(Shutdown[n])
      BY <1>2, <3>1
    <3> QED BY <1>1, <3>2 DEF Stopping
  <2>2. Phases /\ Reporting
    BY DEF Phases, Reporting, Opened
  <2> QED BY <2>1, <2>2 DEF Ending
<1>7. Waiting
  BY DEF Waiting, WatchedBy, Timers
<1> QED BY <1>3, <1>4, <1>5, <1>6, <1>7 DEF Inv

\* Completions and expiries keep the invariant.
LEMMA CompletingKeeps ==
  ASSUME Inv, Completions
  PROVE  Inv'
<1>1. ASSUME NEW op \in Ops, OpCompletes(op) PROVE Inv'
  <2>1. PICK r \in {"ok", "error", "aborted", "done"} : Complete(op, r)
    BY <1>1 DEF OpCompletes
  <2>2. UNCHANGED readVars /\ Elsewhere /\ r \in Results \ {"post"}
    BY <1>1 DEF OpCompletes, Results
  <2> QED BY <2>1, <2>2, CompletionsKeep DEF readVars, Inv, TypeOK
<1>2. ASSUME NEW op \in Ops, NoFrame(op) PROVE Inv'
  <2>1. PICK r \in {"eof", "error", "aborted", "partial", "bad"} : Complete(op, r)
    BY <1>2 DEF NoFrame, Failures
  <2>2. UNCHANGED readVars /\ Elsewhere /\ r \in Results \ {"post"}
    BY <1>2 DEF NoFrame, Results
  <2> QED BY <2>1, <2>2, CompletionsKeep DEF readVars, Inv, TypeOK
<1>3. ASSUME NEW op \in Ops, FramesArrive(op) PROVE Inv'
  <2>0. PICK r \in {"data", "badExtensions"}, m \in Nat : Arrive(op, r, m)
    BY <1>3, ConnectionAssumption DEF FramesArrive
  <2>1. PICK b \in Batches : stream' = stream \o b
    BY <2>0 DEF Arrive
  <2>2. b \in Seq(Frames)
    <3>1. PICK n \in 0 .. MaxBatch : b \in [1 .. n -> Frames]
      BY <2>1 DEF Batches
    <3>2. n \in Nat
      BY <3>1, ConnectionAssumption
    <3> QED BY <3>1, <3>2
  <2>3. stream \in Seq(Frames) /\ used \in 0 .. Len(stream)
    BY DEF Inv, TypeOK
  <2>4. stream' \in Seq(Frames) /\ used \in 0 .. Len(stream')
    BY <2>1, <2>2, <2>3, ConcatProperties
  <2>5. Complete(op, r) /\ Elsewhere /\ UNCHANGED <<used, received>> /\ r \in Results \ {"post"}
    BY <2>0 DEF Arrive, Results
  <2> QED BY <2>4, <2>5, CompletionsKeep
<1>4. ASSUME NEW t \in Timers, TimerExpires(t) PROVE Inv'
  BY <1>4, ExpireKeeps
<1> QED BY <1>1, <1>2, <1>3, <1>4 DEF Completions, ReadCompletes, Ops

\* Every handler keeps the invariant.
LEMMA HandlersKeep ==
  ASSUME Inv, Handlers
  PROVE  Inv'
<1>1. CASE handle_resolve \/ handle_connect \/ handle_transport_init
           \/ handle_send_http_request \/ PartialResponse
  BY <1>1, ConnectKeeps
<1>2. CASE \/ \E op \in Attempts : AttemptFails(op)
           \/ handle_resolve_timeout \/ handle_connect_timeout \/ handle_post_init_timeout
  <2>1. \E op \in Attempts : AttemptFails(op) \/ AttemptTimeout(op)
    BY <1>2 DEF handle_resolve_timeout, handle_connect_timeout, handle_post_init_timeout, Attempts
  <2> QED BY <2>1, AttemptKeeps
<1>3. CASE \E op \in DOMAIN Guard : TooLate(op)
  <2>1. PICK op \in {"resolve", "connect", "tls", "shutdown1", "shutdown2"} : TooLate(op)
    BY <1>3 DEF Guard
  <2>2. \E r : Ignore(op, r)
    BY <2>1 DEF TooLate
  <2>3. op \in Ops \ {"write"}
    BY DEF Ops
  <2> QED BY <2>2, <2>3, IgnoreKeeps
<1>4. CASE BadResponse \/ handle_open_handshake_timeout \/ ReadError
           \/ handle_close_handshake_timeout
  <2>1. \E h \in {"response", "open", "read", "close1", "close2"} : \E r : Fails(h, r)
    BY <1>4 DEF BadResponse, handle_open_handshake_timeout, ReadError, handle_close_handshake_timeout
  <2> QED BY <2>1, FailsKeeps DEF Stops, Shutdowns
<1>5. CASE handle_read_http_response \/ NegotiationFails
  BY <1>5, OpenKeeps, NegotiationKeeps
<1>6. CASE HandshakeEnds \/ ReadEof
  <2>1. \E h \in {"request", "response", "read"} : \E r : Ignore(h, r) \/ Fails(h, r)
    BY <1>6 DEF HandshakeEnds, ReadEof
  <2>2. \A h \in {"request", "response", "read"} :
          h \in Ops \ {"write"} /\ h \notin Stops \cup Shutdowns \cup {"write"}
    BY DEF Ops, Stops, Shutdowns
  <2> QED BY <2>1, <2>2, FailsKeeps, IgnoreKeeps
<1>7. CASE handle_read_frame
  BY <1>7, ReadKeeps
<1>8. CASE DropFrame \/ pong \/ CloseAcked
  BY <1>8, ConsumeKeeps
<1>9. CASE send_close_ack
  BY <1>9, CloseFrameKeeps
<1>10. CASE ProtocolError
  BY <1>10, ErrorKeeps
<1>11. CASE read_frame
  BY <1>11, ReadAgainKeeps
<1>12. CASE write_frame
  BY <1>12, WriteKeeps
<1>13. CASE \E r \in {"ok"} \cup Failures : handle_write_frame(r)
  BY <1>13, WrittenKeeps
<1>14. CASE \E n \in DOMAIN why : handle_async_shutdown(n) \/ handle_async_shutdown_timeout(n)
  BY <1>14, ShutdownKeeps, ShutdownTimeoutKeeps
<1> QED
  BY <1>1, <1>2, <1>3, <1>4, <1>5, <1>6, <1>7, <1>8, <1>9, <1>10, <1>11, <1>12, <1>13, <1>14
     DEF Handlers

\* Every step keeps the invariant.
LEMMA NextInv == Inv /\ [Next]_connectionVars => Inv'
<1> SUFFICES ASSUME Inv, [Next]_connectionVars PROVE Inv'
  OBVIOUS
<1>1. CASE Completions
  BY <1>1, CompletingKeeps
<1>2. CASE Handlers
  BY <1>2, HandlersKeep
<1>3. CASE DataMessage
  BY <1>3, ConsumeKeeps
<1>4. CASE RunReturns
  BY <1>4, StandsStill DEF RunReturns, Return, Elsewhere
<1>5. CASE UNCHANGED connectionVars
  BY <1>5, StandsStill DEF connectionVars, loopVars
<1> QED BY <1>1, <1>2, <1>3, <1>4, <1>5 DEF Next

\* The invariant holds always.
LEMMA SpecInv == Spec => []Inv
BY InitInv, NextInv, PTL DEF Spec

\* Every variable of the connection keeps its type.
THEOREM ConnectionTyped == Spec => []TypeOK
<1>1. Inv => TypeOK
  BY DEF Inv
<1> QED BY <1>1, SpecInv, PTL

\* Whichever of a shutdown and its timer comes first, the end is reported once; and
\* a connection whose extensions were not refused ends once, and closed.
THEOREM ConnectionEndsOnce == Spec => []EndedOnce
<1>1. Inv => EndedOnce
  <2> SUFFICES ASSUME Inv PROVE EndedOnce
    OBVIOUS
  <2>1. /\ ended \in Seq(Ways) /\ \A k \in DOMAIN ended : \E n \in DOMAIN why : ended[k] = why[n]
        /\ \A j, k \in DOMAIN ended : j # k => ended[j] # ended[k]
        /\ Phases /\ state \in {"connecting", "open", "closing", "closed"}
    BY DEF Inv, TypeOK, Ending, Reporting
  <2>2. ASSUME NEW k \in DOMAIN ended, ended[k] = "closed" \/ ~Refused
        PROVE  state = "closed"
    <3> SUFFICES ASSUME state # "closed" PROVE FALSE
      OBVIOUS
    <3>1. PICK n \in DOMAIN why : ended[k] = why[n]
      BY <2>1
    <3>2. why = <<"failed">> /\ istate = "PROCESS_CONNECTION"
      <4>1. why # <<>>
        BY <3>1
      <4> QED BY <2>1, <4>1 DEF Phases, Opened
    <3>3. why[n] = "failed" /\ why[1] = "failed" /\ why # <<>>
      BY <3>1, <3>2
    <3> QED BY <2>2, <3>1, <3>2, <3>3 DEF Refused
  <2>3. ASSUME ~Refused PROVE Len(ended) <= 1
    <3> SUFFICES ASSUME ~(Len(ended) <= 1) PROVE FALSE
      OBVIOUS
    <3>1. 1 \in DOMAIN ended /\ 2 \in DOMAIN ended
      BY <2>1
    <3>2. \E m, n \in DOMAIN why : why[m] # why[n]
      BY <2>1, <3>1
    <3>3. why = <<"failed", "closed">>
      <4>1. why \in {<<>>, <<"failed">>, <<"closed">>, <<"failed", "closed">>}
        BY Ends12
      <4>2. why \notin {<<>>, <<"failed">>, <<"closed">>}
        BY <3>2
      <4> QED BY <4>1, <4>2
    <3>4. Len(why) = 2 /\ why[1] = "failed" /\ why # <<>>
      BY <3>3
    <3>5. why \notin {<<>>, <<"failed">>}
      BY <3>4
    <3> QED BY <2>1, <2>3, <3>4, <3>5 DEF Phases, Refused, Opened
  <2> QED BY <2>1, <2>2, <2>3 DEF EndedOnce
<1> QED BY <1>1, SpecInv, PTL

\* Operations that share a buffer or the write flag are never outstanding together,
\* two shutdowns only after refused extensions (connection_impl.hpp:1619).
THEOREM ConnectionOneAtATime == Spec => []OneAtATime
<1>1. Inv => OneAtATime
  <2> SUFFICES ASSUME Inv PROVE OneAtATime
    OBVIOUS
  <2>1. \A op \in Ops : Outstanding(op) <=> Busy(op)
    BY DEF Inv, TypeOK, Outstanding, Busy
  <2>2. \A op \in {"request", "write", "response", "read"} : Busy(op) => istate = Stage[op]
    BY DEF Inv, Exclusive, Ops, Shutdowns
  <2>3. {"request", "write", "response", "read"} \subseteq Ops
    BY DEF Ops
  <2>4. ASSUME Outstanding("shutdown1"), Outstanding("shutdown2") PROVE Refused
    <3>1. Stopping(2) /\ Phases /\ Shutdown[2] = "shutdown2"
      BY DEF Inv, Ending, Shutdown
    <3>2. Busy("shutdown2")
      BY <2>1, <2>4 DEF Ops
    <3>3. ~(Len(why) < 2)
      BY <3>1, <3>2 DEF Stopping
    <3>4. why = <<"failed", "closed">>
      <4>1. why \in {<<>>, <<"failed">>, <<"closed">>, <<"failed", "closed">>}
        BY Ends12
      <4>2. why # <<>>
        BY <3>3
      <4>3. ASSUME why = <<"failed">> \/ why = <<"closed">> PROVE FALSE
        <5>1. Len(why) = 1
          BY <4>3
        <5> QED BY <3>3, <5>1
      <4> QED BY <4>1, <4>2, <4>3
    <3>5. why[1] = "failed" /\ why # <<>> /\ why # <<"failed">>
      BY <3>4
    <3> QED BY <3>1, <3>5 DEF Inv, TypeOK, Phases, Refused, Opened
  <2> QED BY <2>1, <2>2, <2>3, <2>4 DEF Inv, Exclusive, Writing, OneAtATime, Stage
<1> QED BY <1>1, SpecInv, PTL

\* A connection that waits for the server has a timer that will end the wait, and so
\* has each of its ends.
THEOREM ConnectionWatched == Spec => []Watched
<1>1. Inv => Watched
  <2> SUFFICES ASSUME Inv PROVE Watched
    OBVIOUS
  <2>1. ASSUME NEW n \in DOMAIN why
        PROVE  (\E k \in DOMAIN ended : ended[k] = why[n]) \/ WatchedBy(Stop[n])
    <3>1. n \in {1, 2} /\ Len(why) \in Nat /\ Len(why) >= n
      BY Ends12
    <3>2. Stopping(n) /\ timer[Stop[n]] \in Kinds
      BY <3>1, Pairs DEF Inv, TypeOK, Ending, Kinds
    <3> QED BY <3>1, <3>2 DEF Stopping, Over, Reported, Kinds, WatchedBy
  <2> QED BY <2>1 DEF Inv, Waiting, Watched
<1> QED BY <1>1, SpecInv, PTL
-----------------------------------------------------------------------------
(* Every step of the connection is a step of Session, or none. *)

Heeds == [S!SessionNext]_(S!sessionState)

\* Nothing the program could notice.
LEMMA Unnoticed ==
  ASSUME UNCHANGED <<state, received, ended>>, Opened' <=> Opened, Refused' <=> Refused
  PROVE  Heeds
BY DEF Heeds, S!sessionState, Opened

\* The first end stays the first.
LEMMA RefusedStays ==
  ASSUME Inv, NEW tm, Terminated(tm), UNCHANGED istate, state # "connecting"
  PROVE  Refused' <=> Refused
<1>1. CASE UNCHANGED why
  BY <1>1 DEF Refused
<1>2. CASE why' = Append(why, "closed")
  <2>1. CASE why = <<>>
    <3>1. why'[1] = "closed"
      BY <1>2, <2>1
    <3> QED BY <2>1, <3>1 DEF Refused
  <2>2. CASE why # <<>>
    <3>1. why \in {<<"failed">>, <<"closed">>, <<"failed", "closed">>}
      BY <2>2, Ends12
    <3>2. why'[1] = why[1] /\ why' # <<>>
      BY <1>2, <3>1
    <3> QED BY <2>2, <3>2 DEF Refused
  <2> QED BY <2>1, <2>2
<1> QED BY <1>1, <1>2 DEF Terminated

\* Terminating is a step of the session, or none.
LEMMA TerminateHeeds ==
  ASSUME Inv, NEW tm, terminate(tm), UNCHANGED received
  PROVE  Heeds
<1>1. state' = "closed" /\ UNCHANGED <<istate, ended>> /\ Terminated(tm)
  BY DEF terminate, Terminated
<1>2. Refused' <=> Refused
  <2>1. CASE state # "connecting"
    BY <1>1, <2>1, RefusedStays
  <2>2. CASE state = "connecting"
    BY <1>1, <2>2 DEF Inv, Ending, Phases, Opened, Refused
  <2> QED BY <2>1, <2>2
<1>3. CASE state = "closed"
  BY <1>1, <1>2, <1>3, Unnoticed DEF Opened
<1>4. CASE state # "closed"
  BY <1>1, <1>2, <1>4 DEF Heeds, S!SessionNext, S!Close, Refused
<1> QED BY <1>3, <1>4

\* Sending a close frame is a step of the session, or none.
LEMMA CloseFrameHeeds ==
  ASSUME NEW m, send_close_frame(m), state \in {"open", "closing"}
  PROVE  Heeds
<1>1. state' = "closing" /\ UNCHANGED <<istate, received, ended, why>>
  BY DEF send_close_frame
<1>2. CASE state = "closing"
  BY <1>1, <1>2, Unnoticed DEF Opened, Refused
<1>3. CASE state = "open"
  BY <1>1, <1>3 DEF Heeds, S!SessionNext, S!StartClosing, Refused
<1> QED BY <1>2, <1>3

\* Reporting the end is a step of the session.
LEMMA TellHeeds ==
  ASSUME Inv, NEW n \in DOMAIN why, handle_async_shutdown(n) \/ handle_async_shutdown_timeout(n)
  PROVE  Heeds
<1>1. Stopping(n) /\ Len(why) \in Nat /\ Len(why) >= n /\ Phases
  BY Ends12 DEF Inv, Ending
<1>2. ~Reported(why[n])
  <2>1. CASE handle_async_shutdown(n)
    <3>1. Busy(Shutdown[n])
      BY <2>1, Dequeue DEF Inv, handle_async_shutdown, Handler, Dequeued, Busy
    <3> QED BY <1>1, <2>1, <3>1 DEF Stopping, Over, handle_async_shutdown, is_neg
  <2>2. CASE handle_async_shutdown_timeout(n)
    <3>1. Queued(Stop[n])
      BY <2>2, Dequeue DEF Inv, handle_async_shutdown_timeout, Handler, Dequeued
    <3> QED BY <1>1, <3>1 DEF Stopping, Over
  <2> QED BY <2>1, <2>2
<1>3. ended' = Append(ended, why[n]) /\ UNCHANGED <<state, istate, why, received>>
  BY DEF handle_async_shutdown, handle_async_shutdown_timeout, handle_terminate, Handler, readVars
<1>4. (Refused' <=> Refused) /\ ~\E k \in DOMAIN ended : ended[k] = why[n]
  BY <1>2, <1>3 DEF Refused, Reported
<1>5. /\ why \in {<<>>, <<"failed">>, <<"closed">>, <<"failed", "closed">>}
      /\ why[n] \in {"failed", "closed"} /\ n \in {1, 2}
  BY Ends12
<1>6. CASE why[n] = "failed"
  <2>1. Refused \/ (state = "closed" /\ ~Opened)
    <3>1. why # <<>> /\ why # <<"closed">> /\ why[1] = "failed"
      BY <1>5, <1>6
    <3> QED BY <1>1, <3>1 DEF Inv, TypeOK, Phases, Refused, Opened
  <2> QED BY <1>3, <1>4, <1>6, <2>1 DEF Heeds, S!SessionNext, S!Tell, S!TellRefused, S!TellIt, S!Told, Opened, Refused
<1>7. CASE why[n] = "closed"
  <2>1. why # <<>> /\ why # <<"failed">>
    BY <1>7
  <2>2. state = "closed" /\ Opened
    BY <1>1, <2>1 DEF Inv, TypeOK, Phases
  <2> QED BY <1>3, <1>4, <1>7, <2>2 DEF Heeds, S!SessionNext, S!Tell, S!TellIt, S!Told, Opened, Refused
<1> QED BY <1>5, <1>6, <1>7

\* The handlers of the attempt take no step of the session.
LEMMA ConnectHeeds ==
  ASSUME Inv, \/ handle_resolve \/ handle_connect \/ handle_transport_init
              \/ handle_send_http_request \/ PartialResponse
  PROVE  Heeds
<1>1. \E h \in {"resolve", "connect", "tls", "request", "response"} : \E r : Runs(h, r) /\ ready' = Tail(ready)
  BY DEF handle_resolve, handle_connect, handle_transport_init, handle_send_http_request,
         PartialResponse, GoesOn, Handler
<1>2. \E h \in {"resolve", "connect", "tls", "request", "response"} : Queued(h)
  BY <1>1, Dequeue DEF Inv, Dequeued
<1>3. istate # "PROCESS_CONNECTION"
  BY <1>2 DEF Inv, Exclusive, Busy, Ops, Stage, Shutdowns
<1>4. istate' # "PROCESS_CONNECTION" /\ UNCHANGED <<state, received, ended>>
  BY <1>3 DEF handle_resolve, handle_connect, handle_transport_init, handle_send_http_request,
              PartialResponse, GoesOn, Handler, sessionVars, readVars
<1> QED BY <1>3, <1>4, Unnoticed DEF Opened, Refused

\* Every handler is a step of the session, or none.
LEMMA HandlersHeed ==
  ASSUME Inv, Handlers \/ DataMessage
  PROVE  Heeds
<1>1. CASE \/ handle_resolve \/ handle_connect \/ handle_transport_init
           \/ handle_send_http_request \/ PartialResponse
  BY <1>1, ConnectHeeds
<1>2. CASE \/ \E op \in Attempts : AttemptFails(op)
           \/ handle_resolve_timeout \/ handle_connect_timeout \/ handle_post_init_timeout
  <2>1. UNCHANGED received /\ \E tm : terminate(tm)
    BY <1>2 DEF AttemptFails, AttemptTimeout, Handler, readVars, handle_resolve_timeout,
                handle_connect_timeout, handle_post_init_timeout
  <2> QED BY <2>1, TerminateHeeds
<1>3. CASE \/ \E op \in DOMAIN Guard : TooLate(op)
           \/ BadResponse \/ HandshakeEnds \/ handle_open_handshake_timeout
           \/ ReadEof \/ ReadError \/ handle_close_handshake_timeout
  <2>1. \E h, r : Ignore(h, r) \/ Fails(h, r)
    BY <1>3 DEF TooLate, BadResponse, HandshakeEnds, handle_open_handshake_timeout, ReadEof,
                ReadError, handle_close_handshake_timeout
  <2>2. CASE \E h, r : Ignore(h, r)
    BY <2>2, Unnoticed DEF Ignore, Handler, sessionVars, readVars, Opened, Refused
  <2>3. CASE \E h, r : Fails(h, r)
    <3>1. UNCHANGED received /\ \E tm : terminate(tm)
      BY <2>3 DEF Fails, Handler, readVars
    <3> QED BY <3>1, TerminateHeeds
  <2> QED BY <2>1, <2>2, <2>3
<1>4. CASE handle_read_http_response \/ NegotiationFails
  <2>1. state = "connecting" /\ state' = "open" /\ istate' = "PROCESS_CONNECTION"
        /\ UNCHANGED <<received, ended>>
    BY <1>4 DEF handle_read_http_response, NegotiationFails, Terminated, readVars
  <2>2. why = <<>> /\ ~Refused
    BY <2>1 DEF Inv, Ending, Phases, Refused
  <2>3. CASE handle_read_http_response
    <3>1. ~Refused'
      BY <2>2, <2>3 DEF handle_read_http_response, Refused
    <3> QED BY <2>1, <2>2, <3>1 DEF Heeds, S!SessionNext, S!Open, S!Opens, Refused
  <2>4. CASE NegotiationFails
    <3>1. why' = Append(why, "failed")
      BY <2>1, <2>4 DEF NegotiationFails, Terminated
    <3>2. why' = <<"failed">>
      BY <2>2, <3>1
    <3>3. why'[1] = "failed" /\ why' # <<>>
      BY <3>2
    <3>4. Refused'
      BY <2>1, <3>3 DEF Refused
    <3> QED BY <2>1, <3>4 DEF Heeds, S!SessionNext, S!Refuse, S!Opens, Refused
  <2> QED BY <1>4, <2>3, <2>4
<1>5. CASE DataMessage
  <2>1. state = "open" /\ received' = Append(received, used') /\ UNCHANGED <<state, istate, ended, why>>
    BY <1>5 DEF DataMessage, sessionVars
  <2>2. received \in Seq(Nat)
    BY DEF Inv, TypeOK
  <2>3. Len(received') = Len(received) + 1
    BY <2>1, <2>2
  <2> QED BY <2>1, <2>3 DEF Heeds, S!SessionNext, S!Hear, Refused
<1>6. CASE handle_read_frame \/ DropFrame \/ pong \/ CloseAcked \/ read_frame \/ write_frame
  <2>1. UNCHANGED <<sessionVars, received>>
    BY <1>6 DEF handle_read_frame, DropFrame, pong, CloseAcked, read_frame, write_frame,
                Handler, readVars
  <2> QED BY <2>1, Unnoticed DEF sessionVars, Opened, Refused
<1>7. CASE send_close_ack
  <2>1. state \in {"open", "closing"} /\ send_close_frame("close")
    BY <1>7 DEF send_close_ack
  <2> QED BY <2>1, CloseFrameHeeds
<1>8. CASE ProtocolError
  <2>1. CASE state = "open"
    <3>1. send_close_frame("lastClose")
      BY <1>8, <2>1 DEF ProtocolError
    <3> QED BY <2>1, <3>1, CloseFrameHeeds
  <2>2. CASE state # "open"
    <3>1. terminate(timer) /\ UNCHANGED received
      BY <1>8, <2>2 DEF ProtocolError
    <3> QED BY <3>1, TerminateHeeds
  <2> QED BY <2>1, <2>2
<1>9. CASE \E r \in {"ok"} \cup Failures : handle_write_frame(r)
  <2>1. UNCHANGED received /\ (UNCHANGED sessionVars \/ \E tm : terminate(tm))
    BY <1>9 DEF handle_write_frame, readVars
  <2> QED BY <2>1, TerminateHeeds, Unnoticed DEF sessionVars, Opened, Refused
<1>10. CASE \E n \in DOMAIN why : handle_async_shutdown(n) \/ handle_async_shutdown_timeout(n)
  BY <1>10, TellHeeds
<1> QED BY <1>1, <1>2, <1>3, <1>4, <1>5, <1>6, <1>7, <1>8, <1>9, <1>10 DEF Handlers

\* Every step is a step of the session, or none.
LEMMA NextHeeds == Inv /\ [Next]_connectionVars => [S!SessionNext]_(S!sessionState)
<1> SUFFICES ASSUME Inv, [Next]_connectionVars PROVE Heeds
  BY DEF Heeds
<1>1. CASE Completions
  <2>1. UNCHANGED <<sessionVars, received>>
    BY <1>1 DEF Completions, OpCompletes, ReadCompletes, NoFrame, FramesArrive, Arrive, TimerExpires,
                Elsewhere, readVars
  <2> QED BY <2>1, Unnoticed DEF sessionVars, Opened, Refused
<1>2. CASE Handlers \/ DataMessage
  BY <1>2, HandlersHeed
<1>3. CASE RunReturns \/ UNCHANGED connectionVars
  <2>1. UNCHANGED <<sessionVars, received>>
    BY <1>3 DEF RunReturns, Elsewhere, readVars, connectionVars
  <2> QED BY <2>1, Unnoticed DEF sessionVars, Opened, Refused
<1> QED BY <1>1, <1>2, <1>3 DEF Next

\* The connection gives its program what Session promises, liveness apart: an
\* opening or a failure (both for refused extensions), messages only while open,
\* one report of each end, and the right one.
THEOREM ConnectionSession == Spec => S!SessionSafe
<1>1. Init => S!SessionInit
  BY DEF Init, S!SessionInit, Refused
<1>2. Inv /\ [Next]_connectionVars => [S!SessionNext]_(S!sessionState)
  BY NextHeeds
<1> QED BY <1>1, <1>2, SpecInv, PTL DEF Spec, S!SessionSafe
-----------------------------------------------------------------------------
(* The order of what is sent. *)

InOrder(q) == \A i, j \in DOMAIN q : i < j /\ q[i] # "pong" => q[j] # "pong"
Pongs(q) == \A i \in DOMAIN q : q[i] = "pong"
Ends(q) == \A i \in DOMAIN q : q[i] # "pong"

\* Of what was written, is being written and waits, each is in order, none has a
\* pong after an end of another; while open there is no end at all.
SentInv ==
  /\ InOrder(wire) /\ InOrder(current) /\ InOrder(sendQ)
  /\ Pongs(wire) \/ Ends(current)
  /\ (Pongs(wire) /\ Pongs(current)) \/ Ends(sendQ)
  /\ state \in {"connecting", "open"} => Pongs(wire) /\ Pongs(current) /\ Pongs(sendQ)

\* Two queues one after the other.
LEMMA ConcatInOrder ==
  ASSUME NEW p \in Seq(Msgs), NEW q \in Seq(Msgs)
  PROVE  /\ p \o q \in Seq(Msgs)
         /\ InOrder(p) /\ InOrder(q) /\ (Pongs(p) \/ Ends(q)) => InOrder(p \o q)
         /\ Pongs(p) /\ Pongs(q) => Pongs(p \o q)
<1> DEFINE r == p \o q
<1>1. /\ r \in Seq(Msgs) /\ DOMAIN r = 1 .. Len(p) + Len(q)
      /\ \A i \in DOMAIN r : r[i] = IF i <= Len(p) THEN p[i] ELSE q[i - Len(p)]
      /\ DOMAIN p = 1 .. Len(p) /\ DOMAIN q = 1 .. Len(q) /\ Len(p) \in Nat /\ Len(q) \in Nat
  BY ConcatProperties
<1> HIDE DEF r
<1>2. \A i \in DOMAIN r : \/ i \in DOMAIN p /\ r[i] = p[i]
                          \/ i > Len(p) /\ i - Len(p) \in DOMAIN q /\ r[i] = q[i - Len(p)]
  BY <1>1
<1>3. ASSUME InOrder(p), InOrder(q), Pongs(p) \/ Ends(q) PROVE InOrder(r)
  <2> SUFFICES ASSUME NEW i \in DOMAIN r, NEW j \in DOMAIN r, i < j, r[i] # "pong"
               PROVE  r[j] # "pong"
    BY DEF InOrder
  <2>1. CASE i \in DOMAIN p /\ r[i] = p[i]
    <3>1. ~Pongs(p)
      BY <2>1 DEF Pongs
    <3>2. CASE j \in DOMAIN p /\ r[j] = p[j]
      BY <1>3, <2>1, <3>2 DEF InOrder
    <3>3. CASE j - Len(p) \in DOMAIN q /\ r[j] = q[j - Len(p)]
      BY <1>3, <3>1, <3>3 DEF Ends
    <3> QED
      BY <1>2, <3>2, <3>3
  <2>2. CASE i > Len(p) /\ i - Len(p) \in DOMAIN q /\ r[i] = q[i - Len(p)]
    <3>1. j - Len(p) \in DOMAIN q /\ r[j] = q[j - Len(p)] /\ i - Len(p) < j - Len(p)
      BY <1>1, <2>2
    <3> QED
      BY <1>3, <2>2, <3>1 DEF InOrder
  <2> QED
    BY <1>2, <2>1, <2>2
<1>4. Pongs(p) /\ Pongs(q) => Pongs(r)
  BY <1>2 DEF Pongs
<1> QED
  BY <1>1, <1>3, <1>4 DEF r

\* Nothing is in order, and is all pongs, and all ends.
LEMMA NothingSent == InOrder(<<>>) /\ Pongs(<<>>) /\ Ends(<<>>)
BY DEF InOrder, Pongs, Ends

\* A step that sends nothing and does not go back to the open state.
LEMMA SentSame ==
  ASSUME SentInv, UNCHANGED writeVars,
         state' = state \/ state' \in {"closing", "closed"} \/ state = "connecting"
  PROVE  SentInv'
BY DEF SentInv, InOrder, Pongs, Ends, writeVars

\* Queueing a message keeps what is known of the sent ones.
LEMMA SendSent ==
  ASSUME TypeOK, SentInv, NEW m \in Msgs, Send(m),
         \/ m = "pong" /\ state = "open"
         \/ m # "pong" /\ state' = "closing"
  PROVE  SentInv'
<1>1. /\ DOMAIN sendQ' = 1 .. Len(sendQ) + 1 /\ Len(sendQ) \in Nat
      /\ DOMAIN sendQ = 1 .. Len(sendQ) /\ sendQ'[Len(sendQ) + 1] = m
      /\ \A i \in DOMAIN sendQ : sendQ'[i] = sendQ[i]
  BY AppendProperties DEF TypeOK, Send
<1>2. \A i \in DOMAIN sendQ' : i \in DOMAIN sendQ \/ i = Len(sendQ) + 1
  BY <1>1
<1>3. wire' = wire /\ current' = current
  BY DEF Send
<1>4. CASE m = "pong" /\ state = "open"
  <2>1. Pongs(wire) /\ Pongs(current) /\ Pongs(sendQ) /\ InOrder(wire) /\ InOrder(current)
    BY <1>4 DEF SentInv
  <2>2. \A i \in DOMAIN sendQ' : sendQ'[i] = "pong"
    BY <1>1, <1>2, <1>4, <2>1 DEF Pongs
  <2> QED
    BY <1>3, <2>1, <2>2 DEF SentInv, Pongs, InOrder
<1>5. CASE m # "pong" /\ state' = "closing"
  <2>1. Ends(sendQ) => \A i \in DOMAIN sendQ' : sendQ'[i] # "pong"
    BY <1>1, <1>2, <1>5 DEF Ends
  <2>2. \A i, j \in DOMAIN sendQ' : i < j /\ sendQ'[i] # "pong" => sendQ'[j] # "pong"
    <3> SUFFICES ASSUME NEW i \in DOMAIN sendQ', NEW j \in DOMAIN sendQ', i < j,
                        sendQ'[i] # "pong"
                 PROVE  sendQ'[j] # "pong"
      OBVIOUS
    <3>1. i \in DOMAIN sendQ
      BY <1>1
    <3> QED
      BY <1>1, <1>2, <1>5, <3>1 DEF SentInv, InOrder
  <2> QED
    BY <1>3, <1>5, <2>1, <2>2 DEF SentInv, Pongs, InOrder, Ends
<1> QED
  BY <1>4, <1>5

\* What is popped is the head of the queue, and nothing was being written.
LEMMA StartSent ==
  ASSUME Inv, SentInv, StartWrite, ~writeFlag, state' = state
  PROVE  SentInv'
<1>1. PICK n \in 1 .. Len(sendQ) : /\ current' = SubSeq(sendQ, 1, n)
                                   /\ sendQ' = SubSeq(sendQ, n + 1, Len(sendQ))
  BY DEF StartWrite
<1>2. wire' = wire /\ current = <<>>
  BY DEF StartWrite, Inv, Writing
<1>3. sendQ \in Seq(Msgs) /\ DOMAIN sendQ = 1 .. Len(sendQ) /\ Len(sendQ) \in Nat
  BY DEF Inv, TypeOK
<1>4. /\ DOMAIN current' = 1 .. n /\ DOMAIN sendQ' = 1 .. Len(sendQ) - n
      /\ \A i \in DOMAIN current' : i \in DOMAIN sendQ /\ current'[i] = sendQ[i]
      /\ \A i \in DOMAIN sendQ' : n + i \in DOMAIN sendQ /\ sendQ'[i] = sendQ[n + i]
  BY <1>1, <1>3
<1>5. (InOrder(current) /\ InOrder(sendQ) /\ (Pongs(current) \/ Ends(sendQ)))'
  <2>1. InOrder(sendQ)
    BY DEF SentInv
  <2>2. InOrder(current)'
    BY <1>4, <2>1 DEF InOrder
  <2>3. InOrder(sendQ)'
    BY <1>3, <1>4, <2>1 DEF InOrder
  <2>4. (Pongs(current) \/ Ends(sendQ))'
    <3> SUFFICES ASSUME NEW i \in DOMAIN current', current'[i] # "pong",
                        NEW j \in DOMAIN sendQ'
                 PROVE  sendQ'[j] # "pong"
      BY DEF Pongs, Ends
    <3>1. i < n + j
      BY <1>4
    <3> QED
      BY <1>4, <2>1, <3>1 DEF InOrder
  <2> QED
    BY <2>2, <2>3, <2>4
<1>6. Pongs(sendQ) => Pongs(current)' /\ Pongs(sendQ)'
  BY <1>4 DEF Pongs
<1>7. Ends(sendQ) => Ends(current)' /\ Ends(sendQ)'
  BY <1>4 DEF Ends
<1>8. /\ InOrder(wire) /\ (Pongs(wire) \/ Ends(sendQ))
      /\ state \in {"connecting", "open"} => Pongs(wire) /\ Pongs(sendQ)
  BY DEF SentInv
<1>9. (InOrder(wire) <=> InOrder(wire)') /\ (Pongs(wire) <=> Pongs(wire)')
  BY <1>2 DEF InOrder, Pongs
<1> QED
  BY <1>5, <1>6, <1>7, <1>8, <1>9 DEF SentInv

\* A write that ends has written what it held, or lost it.
LEMMA WrittenSent ==
  ASSUME Inv, SentInv, NEW r, handle_write_frame(r)
  PROVE  SentInv'
<1>1. sendQ' = sendQ /\ current' = <<>> /\ (wire' = wire \o current \/ wire' = wire)
  BY DEF handle_write_frame
<1>2. wire \in Seq(Msgs) /\ current \in Seq(Msgs)
  BY DEF Inv, TypeOK
<1>3. /\ InOrder(wire')
      /\ Pongs(wire) /\ Pongs(current) => Pongs(wire')
  <2>1. InOrder(wire) /\ InOrder(current) /\ (Pongs(wire) \/ Ends(current))
    BY DEF SentInv
  <2>2. CASE wire' = wire
    BY <2>1, <2>2
  <2>3. CASE wire' = wire \o current
    BY <1>2, <2>1, <2>3, ConcatInOrder
  <2> QED
    BY <1>1, <2>2, <2>3
<1>4. state' = state \/ state' = "closed"
  BY DEF handle_write_frame, terminate, sessionVars
<1>5. InOrder(current') /\ Pongs(current') /\ Ends(current')
  BY <1>1, NothingSent
<1>6. /\ InOrder(sendQ')
      /\ (Pongs(wire) /\ Pongs(current)) \/ Ends(sendQ')
      /\ state \in {"connecting", "open"} => Pongs(wire) /\ Pongs(current) /\ Pongs(sendQ')
  BY <1>1 DEF SentInv
<1>7. SentInv' <=>
        /\ InOrder(wire') /\ InOrder(current') /\ InOrder(sendQ')
        /\ Pongs(wire') \/ Ends(current')
        /\ (Pongs(wire') /\ Pongs(current')) \/ Ends(sendQ')
        /\ state' \in {"connecting", "open"} => Pongs(wire') /\ Pongs(current') /\ Pongs(sendQ')
  BY DEF SentInv, InOrder, Pongs, Ends
<1> QED
  BY <1>3, <1>4, <1>5, <1>6, <1>7

\* Every handler keeps what is known of the sent messages.
LEMMA HandlersSent ==
  ASSUME Inv, SentInv, Handlers
  PROVE  SentInv'
<1>1. CASE \/ handle_resolve \/ handle_connect \/ handle_transport_init
           \/ handle_send_http_request \/ PartialResponse \/ handle_read_http_response
           \/ NegotiationFails
  <2>1. UNCHANGED writeVars /\ (state' = state \/ state = "connecting")
    BY <1>1 DEF handle_resolve, handle_connect, handle_transport_init, GoesOn,
                handle_send_http_request, PartialResponse, handle_read_http_response,
                NegotiationFails, sessionVars
  <2> QED BY <2>1, SentSame
<1>2. CASE \/ \E op \in Attempts : AttemptFails(op)
           \/ handle_resolve_timeout \/ handle_connect_timeout \/ handle_post_init_timeout
  <2>1. UNCHANGED writeVars /\ \E tm : terminate(tm)
    BY <1>2 DEF AttemptFails, AttemptTimeout, handle_resolve_timeout, handle_connect_timeout,
                handle_post_init_timeout
  <2> QED BY <2>1, SentSame DEF terminate
<1>3. CASE \/ \E op \in DOMAIN Guard : TooLate(op)
           \/ BadResponse \/ HandshakeEnds \/ handle_open_handshake_timeout
           \/ ReadEof \/ ReadError \/ handle_close_handshake_timeout
  <2>1. \E h, r : Ignore(h, r) \/ Fails(h, r)
    BY <1>3 DEF TooLate, BadResponse, HandshakeEnds, handle_open_handshake_timeout, ReadEof,
                ReadError, handle_close_handshake_timeout
  <2>2. UNCHANGED writeVars /\ (state' = state \/ state' = "closed")
    BY <2>1 DEF Ignore, Fails, terminate, sessionVars
  <2> QED BY <2>2, SentSame
<1>4. CASE handle_read_frame \/ DropFrame \/ CloseAcked \/ read_frame
  <2>1. UNCHANGED writeVars /\ state' = state
    BY <1>4 DEF handle_read_frame, DropFrame, CloseAcked, read_frame, sessionVars
  <2> QED BY <2>1, SentSame
<1>5. CASE pong
  <2>1. state = "open" /\ Send("pong")
    BY <1>5 DEF pong
  <2> QED BY <2>1, SendSent DEF Inv, Msgs
<1>6. CASE send_close_ack
  <2>1. Send("close") /\ state' = "closing"
    BY <1>6 DEF send_close_ack, send_close_frame
  <2> QED BY <2>1, SendSent DEF Inv, Msgs
<1>7. CASE ProtocolError
  <2>1. CASE state = "open"
    <3>1. Send("lastClose") /\ state' = "closing"
      BY <1>7, <2>1 DEF ProtocolError, send_close_frame
    <3> QED BY <3>1, SendSent DEF Inv, Msgs
  <2>2. CASE state # "open"
    <3>1. UNCHANGED writeVars /\ state' = "closed"
      BY <1>7, <2>2 DEF ProtocolError, terminate
    <3> QED BY <3>1, SentSame
  <2> QED BY <2>1, <2>2
<1>8. CASE write_frame
  <2>1. state' = state
    BY <1>8 DEF write_frame, sessionVars
  <2>2. UNCHANGED writeVars \/ (~writeFlag /\ StartWrite)
    BY <1>8 DEF write_frame, Inv, TypeOK
  <2> QED BY <2>1, <2>2, SentSame, StartSent
<1>9. CASE \E r \in {"ok"} \cup Failures : handle_write_frame(r)
  BY <1>9, WrittenSent
<1>10. CASE \E n \in DOMAIN why : handle_async_shutdown(n) \/ handle_async_shutdown_timeout(n)
  <2>1. UNCHANGED writeVars /\ state' = state
    BY <1>10 DEF handle_async_shutdown, handle_async_shutdown_timeout, handle_terminate
  <2> QED BY <2>1, SentSame
<1> QED BY <1>1, <1>2, <1>3, <1>4, <1>5, <1>6, <1>7, <1>8, <1>9, <1>10 DEF Handlers

\* Every step keeps what is known of the sent messages.
LEMMA NextSent == Inv /\ SentInv /\ [Next]_connectionVars => SentInv'
<1> SUFFICES ASSUME Inv, SentInv, [Next]_connectionVars PROVE SentInv'
  OBVIOUS
<1>1. CASE Handlers
  BY <1>1, HandlersSent
<1>2. CASE Completions \/ DataMessage \/ RunReturns \/ UNCHANGED connectionVars
  <2>1. UNCHANGED writeVars /\ state' = state
    BY <1>2 DEF Completions, OpCompletes, ReadCompletes, NoFrame, FramesArrive, Arrive, TimerExpires,
                DataMessage, RunReturns, Elsewhere, connectionVars, sessionVars
  <2> QED BY <2>1, SentSame
<1> QED BY <1>1, <1>2 DEF Next

\* The client answers a ping before it sends its close frame, or not at all:
\* whatever is queued, written or lost, no pong follows a close frame.
THEOREM ConnectionClosesLast == Spec => []CloseIsLast
<1>1. Init => SentInv
  BY NothingSent DEF Init, SentInv
<1>2. Inv /\ SentInv => CloseIsLast
  <2> SUFFICES ASSUME Inv, SentInv PROVE InOrder(Sent)
    BY DEF CloseIsLast, InOrder
  <2>1. wire \in Seq(Msgs) /\ current \in Seq(Msgs) /\ sendQ \in Seq(Msgs)
    BY DEF Inv, TypeOK
  <2>2. /\ wire \o current \in Seq(Msgs) /\ InOrder(wire \o current)
        /\ Pongs(wire) /\ Pongs(current) => Pongs(wire \o current)
    BY <2>1, ConcatInOrder DEF SentInv
  <2>3. InOrder((wire \o current) \o sendQ)
    BY <2>1, <2>2, ConcatInOrder DEF SentInv
  <2> QED
    BY <2>3 DEF Sent
<1> QED
  BY <1>1, <1>2, SpecInv, NextSent, PTL DEF Spec
-----------------------------------------------------------------------------
(* What is delivered and answered. *)

\* The frames up to n, where the open state ended or has come to: a message that waits
\* or is written has not left Sent, so only a failed write loses a pong.
AnsweredUpto(n) ==
  /\ {received[k] : k \in DOMAIN received} = Upto(Texts, n)
  /\ \A j, k \in DOMAIN received : j < k => received[j] < received[k]
  /\ Upto(Closes, n) = {}
  /\ state \in {"connecting", "open"} => n = used
  /\ Cardinality(PongsIn(Sent)) <= Cardinality(Upto({"ping"}, n))
  /\ state # "closed" => Cardinality(PongsIn(Sent)) = Cardinality(Upto({"ping"}, n))

AnsweredInv == \E n \in 0 .. used : AnsweredUpto(n)

\* Pings and pongs can be counted.
LEMMA Countable ==
  ASSUME NEW kinds, NEW n \in Nat, NEW s \in Seq(Msgs)
  PROVE  /\ IsFiniteSet(Upto(kinds, n)) /\ Cardinality(Upto(kinds, n)) \in Nat
         /\ IsFiniteSet(PongsIn(s)) /\ Cardinality(PongsIn(s)) \in Nat
<1>1. IsFiniteSet(1 .. n) /\ IsFiniteSet(1 .. Len(s)) /\ DOMAIN s = 1 .. Len(s)
  BY FS_Interval
<1>2. Upto(kinds, n) \in SUBSET (1 .. n) /\ PongsIn(s) \in SUBSET (1 .. Len(s))
  BY <1>1 DEF Upto, PongsIn
<1>3. IsFiniteSet(Upto(kinds, n)) /\ IsFiniteSet(PongsIn(s))
  BY <1>1, <1>2, FS_Subset
<1> QED BY <1>3, FS_CardinalityType

\* One more frame is one more of its kind.
LEMMA UptoNext ==
  ASSUME NEW kinds, NEW n \in Nat
  PROVE  /\ stream[n + 1] \notin kinds => Upto(kinds, n + 1) = Upto(kinds, n)
         /\ stream[n + 1] \in kinds =>
              /\ Upto(kinds, n + 1) = Upto(kinds, n) \cup {n + 1}
              /\ Cardinality(Upto(kinds, n + 1)) = Cardinality(Upto(kinds, n)) + 1
<1>1. 1 .. n + 1 = (1 .. n) \cup {n + 1}
  OBVIOUS
<1>2. stream[n + 1] \notin kinds => Upto(kinds, n + 1) = Upto(kinds, n)
  BY <1>1 DEF Upto
<1>3. ASSUME stream[n + 1] \in kinds
      PROVE  Upto(kinds, n + 1) = Upto(kinds, n) \cup {n + 1} /\ n + 1 \notin Upto(kinds, n)
  BY <1>1, <1>3 DEF Upto
<1>4. <<>> \in Seq(Msgs)
  OBVIOUS
<1>5. IsFiniteSet(Upto(kinds, n))
  BY <1>4, Countable
<1> QED BY <1>2, <1>3, <1>5, FS_AddElement

\* One more message is one more pong, if it is one.
LEMMA PongsAppend ==
  ASSUME NEW s \in Seq(Msgs), NEW m \in Msgs
  PROVE  /\ m = "pong" => Cardinality(PongsIn(Append(s, m))) = Cardinality(PongsIn(s)) + 1
         /\ m # "pong" => Cardinality(PongsIn(Append(s, m))) = Cardinality(PongsIn(s))
<1> DEFINE t == Append(s, m)
<1>1. /\ DOMAIN s = 1 .. Len(s) /\ DOMAIN t = (1 .. Len(s)) \cup {Len(s) + 1} /\ Len(s) \in Nat
      /\ t[Len(s) + 1] = m /\ \A i \in 1 .. Len(s) : t[i] = s[i]
  BY AppendProperties
<1> HIDE DEF t
<1>2. m # "pong" => PongsIn(t) = PongsIn(s)
  BY <1>1 DEF PongsIn
<1>3. m = "pong" => PongsIn(t) = PongsIn(s) \cup {Len(s) + 1} /\ Len(s) + 1 \notin PongsIn(s)
  BY <1>1 DEF PongsIn
<1>4. IsFiniteSet(PongsIn(s))
  BY Countable, 0 \in Nat
<1> QED BY <1>2, <1>3, <1>4, FS_AddElement DEF t

\* Without a part in the middle there are no more pongs.
LEMMA PongsWithout ==
  ASSUME NEW p \in Seq(Msgs), NEW q \in Seq(Msgs), NEW r \in Seq(Msgs)
  PROVE  Cardinality(PongsIn(p \o r)) <= Cardinality(PongsIn((p \o q) \o r))
<1> DEFINE pq == p \o q
           pr == p \o r
           all == pq \o r
<1>1. /\ pq \in Seq(Msgs) /\ DOMAIN pq = 1 .. Len(p) + Len(q) /\ Len(pq) = Len(p) + Len(q)
      /\ \A i \in DOMAIN pq : pq[i] = IF i <= Len(p) THEN p[i] ELSE q[i - Len(p)]
      /\ Len(p) \in Nat /\ Len(q) \in Nat /\ Len(r) \in Nat
  BY ConcatProperties
<1>2. /\ pr \in Seq(Msgs) /\ DOMAIN pr = 1 .. Len(p) + Len(r)
      /\ \A i \in DOMAIN pr : pr[i] = IF i <= Len(p) THEN p[i] ELSE r[i - Len(p)]
  BY ConcatProperties
<1> HIDE DEF pq
<1>3. /\ all \in Seq(Msgs) /\ DOMAIN all = 1 .. Len(pq) + Len(r)
      /\ \A i \in DOMAIN all : all[i] = IF i <= Len(pq) THEN pq[i] ELSE r[i - Len(pq)]
  <2>1. pq \in Seq(Msgs)
    BY <1>1
  <2> HIDE DEF pr
  <2> QED BY <2>1, ConcatProperties
<1> HIDE DEF pr, all
<1> DEFINE to(i) == IF i <= Len(p) THEN i ELSE i + Len(q)
           f == [i \in PongsIn(pr) |-> to(i)]
<1>4. ASSUME NEW i \in DOMAIN pr
      PROVE  to(i) \in DOMAIN all /\ all[to(i)] = pr[i]
  <2>1. CASE i <= Len(p)
    <3>1. i \in DOMAIN pq /\ i <= Len(pq) /\ i \in DOMAIN all
      BY <1>1, <1>2, <1>3, <2>1
    <3>2. all[i] = pq[i] /\ pq[i] = p[i] /\ pr[i] = p[i]
      BY <1>1, <1>2, <1>3, <2>1, <3>1
    <3> QED BY <2>1, <3>1, <3>2
  <2>2. CASE i > Len(p)
    <3>1. /\ i + Len(q) \in DOMAIN all /\ ~(i + Len(q) <= Len(pq)) /\ ~(i <= Len(p))
          /\ (i + Len(q)) - Len(pq) = i - Len(p)
      BY <1>1, <1>2, <1>3, <2>2
    <3>2. all[i + Len(q)] = r[i - Len(p)] /\ pr[i] = r[i - Len(p)]
      BY <1>2, <1>3, <3>1
    <3> QED BY <3>1, <3>2
  <2> QED BY <1>1, <1>2, <2>1, <2>2
<1>5. f \in [PongsIn(pr) -> PongsIn(all)]
  BY <1>4 DEF PongsIn
<1>6. ASSUME NEW i \in PongsIn(pr), NEW j \in PongsIn(pr), f[i] = f[j] PROVE i = j
  <2>1. i \in 1 .. Len(p) + Len(r) /\ j \in 1 .. Len(p) + Len(r)
    BY <1>2 DEF PongsIn
  <2>2. to(i) = to(j)
    BY <1>6
  <2> QED BY <1>1, <2>1, <2>2
<1>7. f \in Injection(PongsIn(pr), PongsIn(all))
  <2> HIDE DEF f
  <2> QED BY <1>5, <1>6 DEF Injection, IsInjective
<1>8. IsFiniteSet(PongsIn(all))
  BY <1>3, Countable, 0 \in Nat
<1>9. Cardinality(PongsIn(pr)) <= Cardinality(PongsIn(all))
  <2> HIDE DEF f
  <2> QED BY <1>7, <1>8, FS_Injection
<1> QED BY <1>9 DEF pr, all, pq

\* A step that delivers nothing, and answers nothing unless it ends the connection.
LEMMA AnsweredKeeps ==
  ASSUME TypeOK, TypeOK', AnsweredInv, received' = received, used <= used',
         \A k \in 1 .. used : stream'[k] = stream[k],
         \/ Cardinality(PongsIn(Sent))' = Cardinality(PongsIn(Sent))
         \/ state' = "closed" /\ Cardinality(PongsIn(Sent))' <= Cardinality(PongsIn(Sent)),
         state' \in {"connecting", "open"} => state \in {"connecting", "open"} /\ used' = used,
         state' # "closed" => state # "closed"
  PROVE  AnsweredInv'
<1>1. used \in Nat /\ used' \in Nat
  BY DEF TypeOK
<1>2. PICK n \in 0 .. used : AnsweredUpto(n)
  BY DEF AnsweredInv
<1>3. n \in Nat /\ n \in 0 .. used' /\ \A k \in 1 .. n : stream'[k] = stream[k]
  BY <1>1, <1>2
<1>5. Upto(Texts, n)' = Upto(Texts, n) /\ Upto(Closes, n)' = Upto(Closes, n)
      /\ Upto({"ping"}, n)' = Upto({"ping"}, n)
  BY <1>3 DEF Upto
<1>6. /\ Cardinality(PongsIn(Sent)) \in Nat /\ Cardinality(PongsIn(Sent))' \in Nat
      /\ Cardinality(Upto({"ping"}, n)) \in Nat
  <2>1. Sent \in Seq(Msgs) /\ Sent' \in Seq(Msgs)
    BY DEF TypeOK, Sent
  <2> QED BY <1>3, <2>1, Countable
<1>7. Cardinality(PongsIn(Sent)) <= Cardinality(Upto({"ping"}, n))
      /\ (state # "closed" => Cardinality(PongsIn(Sent)) = Cardinality(Upto({"ping"}, n)))
  BY <1>2 DEF AnsweredUpto
<1>8. Cardinality(PongsIn(Sent))' <= Cardinality(Upto({"ping"}, n))
      /\ (state' # "closed" => Cardinality(PongsIn(Sent))' = Cardinality(Upto({"ping"}, n)))
  BY <1>6, <1>7
<1>9. /\ {received[k] : k \in DOMAIN received} = Upto(Texts, n)
      /\ \A j, k \in DOMAIN received : j < k => received[j] < received[k]
      /\ Upto(Closes, n) = {}
      /\ state \in {"connecting", "open"} => n = used
  BY <1>2 DEF AnsweredUpto
<1>10. state' \in {"connecting", "open"} => n = used'
  BY <1>9
<1>11. AnsweredUpto(n)'
  BY <1>5, <1>8, <1>9, <1>10 DEF AnsweredUpto
<1> QED BY <1>3, <1>11 DEF AnsweredInv

\* The same, when nothing is sent either.
LEMMA AnsweredQuiet ==
  ASSUME TypeOK, TypeOK', AnsweredInv, UNCHANGED writeVars, received' = received, used <= used',
         \A k \in 1 .. used : stream'[k] = stream[k],
         state' \in {"connecting", "open"} => state \in {"connecting", "open"} /\ used' = used,
         state' # "closed" => state # "closed"
  PROVE  AnsweredInv'
<1>1. Sent' = Sent
  BY DEF Sent, writeVars
<1>2. Cardinality(PongsIn(Sent))' = Cardinality(PongsIn(Sent))
  BY <1>1 DEF PongsIn
<1> QED BY <1>2, AnsweredKeeps

\* A queued message is the last one sent.
LEMMA SendsLast ==
  ASSUME TypeOK, NEW m \in Msgs, Send(m)
  PROVE  Sent' = Append(Sent, m) /\ Sent \in Seq(Msgs)
<1>1. wire \in Seq(Msgs) /\ current \in Seq(Msgs) /\ sendQ \in Seq(Msgs)
  BY DEF TypeOK
<1> DEFINE p == wire \o current
<1>2. p \in Seq(Msgs)
  BY <1>1
<1>3. Sent' = p \o Append(sendQ, m) /\ Sent = p \o sendQ
  BY DEF Sent, Send
<1> HIDE DEF p
<1>4. p \o Append(sendQ, m) = Append(p \o sendQ, m)
  BY <1>1, <1>2
<1> QED BY <1>1, <1>2, <1>3, <1>4

\* A text is delivered behind all that were, a ping gets the last pong.
LEMMA AnsweredNext ==
  ASSUME TypeOK, TypeOK', AnsweredInv, state = "open", state' = "open", stream' = stream,
         used < Len(stream), used' = used + 1,
         \/ /\ stream[used + 1] \in Texts
            /\ received' = Append(received, used + 1) /\ UNCHANGED writeVars
         \/ stream[used + 1] = "ping" /\ received' = received /\ Send("pong")
  PROVE  AnsweredInv'
<1>1. used \in Nat /\ used' \in Nat /\ received \in Seq(Nat)
  BY DEF TypeOK
<1>2. AnsweredUpto(used)
  BY DEF AnsweredInv, AnsweredUpto
<1>3. /\ {received[k] : k \in DOMAIN received} = Upto(Texts, used)
      /\ \A j, k \in DOMAIN received : j < k => received[j] < received[k]
      /\ Upto(Closes, used) = {}
      /\ Cardinality(PongsIn(Sent)) = Cardinality(Upto({"ping"}, used))
  BY <1>2 DEF AnsweredUpto
<1>4. Upto(Closes, used + 1) = {}
  BY <1>1, <1>3, UptoNext DEF Texts, Closes
<1>5. \A kinds, n : Upto(kinds, n)' = Upto(kinds, n)
  BY DEF Upto
<1>6. Cardinality(Upto({"ping"}, used + 1)) \in Nat
  <2>1. <<>> \in Seq(Msgs) /\ used + 1 \in Nat
    BY <1>1
  <2> QED BY <2>1, Countable
<1>7. CASE stream[used + 1] \in Texts /\ received' = Append(received, used + 1) /\ UNCHANGED writeVars
  <2>1. PongsIn(Sent)' = PongsIn(Sent)
    BY <1>7 DEF PongsIn, Sent, writeVars
  <2>2. Upto({"ping"}, used + 1) = Upto({"ping"}, used)
    BY <1>1, <1>7, UptoNext DEF Texts
  <2>3. Upto(Texts, used + 1) = Upto(Texts, used) \cup {used + 1}
    BY <1>1, <1>7, UptoNext
  <2>4. /\ DOMAIN received = 1 .. Len(received) /\ Len(received) \in Nat
        /\ DOMAIN received' = (1 .. Len(received)) \cup {Len(received) + 1}
        /\ received'[Len(received) + 1] = used + 1
        /\ \A k \in 1 .. Len(received) : received'[k] = received[k]
    BY <1>1, <1>7, AppendProperties
  <2>5. {received'[k] : k \in DOMAIN received'} = Upto(Texts, used + 1)
    BY <1>3, <2>3, <2>4
  <2>6. \A k \in 1 .. Len(received) : received[k] <= used /\ received[k] \in Nat
    <3>1. \A k \in 1 .. Len(received) : received[k] \in Upto(Texts, used)
      BY <1>3, <2>4
    <3> QED BY <1>1, <3>1 DEF Upto
  <2>7. ASSUME NEW j \in DOMAIN received', NEW k \in DOMAIN received', j < k
        PROVE  received'[j] < received'[k]
    <3>1. j \in 1 .. Len(received)
      BY <2>4, <2>7
    <3>2. CASE k \in 1 .. Len(received)
      BY <1>3, <2>4, <2>7, <3>1, <3>2
    <3>3. CASE k = Len(received) + 1
      BY <1>1, <2>4, <2>6, <3>1, <3>3
    <3> QED BY <2>4, <3>2, <3>3
  <2>8. Cardinality(PongsIn(Sent))' = Cardinality(Upto({"ping"}, used + 1))
    BY <1>3, <2>1, <2>2
  <2>9. AnsweredUpto(used)'
    <3>1. \A kinds : Upto(kinds, used)' = Upto(kinds, used + 1)
      BY <1>5
    <3> QED BY <1>4, <1>6, <2>5, <2>7, <2>8, <3>1 DEF AnsweredUpto
  <2> QED BY <1>1, <2>9 DEF AnsweredInv
<1>8. CASE stream[used + 1] = "ping" /\ received' = received /\ Send("pong")
  <2>1. Sent' = Append(Sent, "pong") /\ Sent \in Seq(Msgs)
    BY <1>8, SendsLast DEF Msgs
  <2>2. Cardinality(PongsIn(Sent))' = Cardinality(PongsIn(Sent)) + 1
    <3>1. Cardinality(PongsIn(Append(Sent, "pong"))) = Cardinality(PongsIn(Sent)) + 1
      BY <2>1, PongsAppend DEF Msgs
    <3>2. PongsIn(Sent)' = PongsIn(Append(Sent, "pong"))
      BY <2>1 DEF PongsIn
    <3> QED BY <3>1, <3>2
  <2>3. Cardinality(Upto({"ping"}, used + 1)) = Cardinality(Upto({"ping"}, used)) + 1
    BY <1>1, <1>8, UptoNext
  <2>4. Upto(Texts, used + 1) = Upto(Texts, used)
    BY <1>1, <1>8, UptoNext DEF Texts
  <2>5. Cardinality(PongsIn(Sent))' = Cardinality(Upto({"ping"}, used + 1))
    BY <1>3, <2>2, <2>3
  <2>6. AnsweredUpto(used)'
    <3>1. \A kinds : Upto(kinds, used)' = Upto(kinds, used + 1)
      BY <1>5
    <3> QED BY <1>3, <1>4, <1>6, <1>8, <2>4, <2>5, <3>1 DEF AnsweredUpto
  <2> QED BY <1>1, <2>6 DEF AnsweredInv
<1> QED BY <1>7, <1>8

\* A message popped from the queue is written next: what is sent stays the same.
LEMMA StartAnswered ==
  ASSUME Inv, StartWrite, ~writeFlag
  PROVE  Sent' = Sent
<1>1. PICK n \in 1 .. Len(sendQ) : /\ current' = SubSeq(sendQ, 1, n)
                                   /\ sendQ' = SubSeq(sendQ, n + 1, Len(sendQ))
  BY DEF StartWrite
<1>2. wire' = wire /\ current = <<>> /\ wire \in Seq(Msgs) /\ sendQ \in Seq(Msgs)
  BY DEF StartWrite, Inv, Writing, TypeOK
<1>3. Sent = wire \o sendQ
  BY <1>2 DEF Sent
<1>4. SubSeq(sendQ, 1, n) \o SubSeq(sendQ, n + 1, Len(sendQ)) = sendQ
  BY <1>1, <1>2
<1>5. (wire \o SubSeq(sendQ, 1, n)) \o SubSeq(sendQ, n + 1, Len(sendQ)) = wire \o sendQ
  <2> DEFINE a == SubSeq(sendQ, 1, n)
             b == SubSeq(sendQ, n + 1, Len(sendQ))
  <2>1. a \in Seq(Msgs) /\ b \in Seq(Msgs)
    BY <1>1, <1>2
  <2> HIDE DEF a, b
  <2>2. (wire \o a) \o b = wire \o (a \o b)
    BY <1>2, <2>1
  <2> QED BY <1>4, <2>2 DEF a, b
<1> QED BY <1>1, <1>2, <1>3, <1>5 DEF Sent

\* A write that ends: all of it is on the wire, or the connection is closed.
LEMMA WrittenAnswered ==
  ASSUME Inv, TypeOK', AnsweredInv, NEW r \in {"ok"} \cup Failures, handle_write_frame(r)
  PROVE  AnsweredInv'
<1>1. sendQ' = sendQ /\ current' = <<>> /\ wire' = IF r = "ok" THEN wire \o current ELSE wire
  BY DEF handle_write_frame
<1>2. wire \in Seq(Msgs) /\ current \in Seq(Msgs) /\ sendQ \in Seq(Msgs)
  BY DEF Inv, TypeOK
<1>3. UNCHANGED readVars /\ (state' = state \/ state' = "closed") /\ (r \in Failures => state' = "closed")
  BY DEF handle_write_frame, terminate, sessionVars
<1>4. used \in Nat
  BY DEF Inv, TypeOK
<1>5. CASE r = "ok"
  <2>1. Sent' = Sent
    BY <1>1, <1>2, <1>5 DEF Sent
  <2>2. Cardinality(PongsIn(Sent))' = Cardinality(PongsIn(Sent))
    BY <2>1 DEF PongsIn
  <2> QED BY <1>3, <1>4, <2>2, AnsweredKeeps DEF readVars, Inv
<1>6. CASE r \in Failures
  <2>0. r # "ok"
    BY <1>6 DEF Failures
  <2>1. Sent' = wire \o sendQ
    BY <1>1, <1>2, <2>0 DEF Sent
  <2>2. Cardinality(PongsIn(wire \o sendQ)) <= Cardinality(PongsIn(Sent))
    BY <1>2, PongsWithout DEF Sent
  <2>3. PongsIn(Sent)' = PongsIn(wire \o sendQ)
    BY <2>1 DEF PongsIn
  <2>4. Cardinality(PongsIn(Sent))' <= Cardinality(PongsIn(Sent))
    BY <2>2, <2>3
  <2> QED BY <1>3, <1>4, <1>6, <2>4, AnsweredKeeps DEF readVars, Inv
<1> QED BY <1>5, <1>6

\* Every handler keeps what is known of the answers.
LEMMA HandlersAnswered ==
  ASSUME Inv, TypeOK', AnsweredInv, Handlers
  PROVE  AnsweredInv'
<1>1. TypeOK /\ used \in Nat /\ used <= Len(stream)
  BY DEF Inv, TypeOK
<1>2. pc = "frames" => state # "connecting"
  BY DEF Inv, Exclusive, Ending, Phases, Opened
<1>3. CASE \/ handle_resolve \/ handle_connect \/ handle_transport_init
           \/ handle_send_http_request \/ PartialResponse \/ handle_read_http_response
           \/ NegotiationFails
           \/ handle_read_frame \/ read_frame
  <2>1. UNCHANGED <<writeVars, readVars>> /\ (state' = state \/ (state = "connecting" /\ state' = "open"))
    BY <1>3 DEF handle_resolve, handle_connect, handle_transport_init, GoesOn, Handler,
                handle_send_http_request, PartialResponse, handle_read_http_response, NegotiationFails,
                handle_read_frame, read_frame, sessionVars
  <2> QED BY <1>1, <2>1, AnsweredQuiet DEF readVars
<1>4. CASE \/ \E op \in Attempts : AttemptFails(op)
           \/ handle_resolve_timeout \/ handle_connect_timeout \/ handle_post_init_timeout
           \/ \E op \in DOMAIN Guard : TooLate(op)
           \/ BadResponse \/ HandshakeEnds \/ handle_open_handshake_timeout
           \/ ReadEof \/ ReadError \/ handle_close_handshake_timeout
  <2>1. \/ \E h, r : Ignore(h, r) \/ Fails(h, r)
        \/ UNCHANGED <<writeVars, readVars>> /\ \E tm : terminate(tm)
    BY <1>4 DEF AttemptFails, AttemptTimeout, handle_resolve_timeout, handle_connect_timeout,
                handle_post_init_timeout, Handler,
                TooLate, BadResponse, HandshakeEnds, handle_open_handshake_timeout, ReadEof,
                ReadError, handle_close_handshake_timeout
  <2>2. UNCHANGED <<writeVars, readVars>> /\ (state' = state \/ state' = "closed")
    BY <2>1 DEF Ignore, Fails, Handler, terminate, sessionVars
  <2> QED BY <1>1, <2>2, AnsweredQuiet DEF readVars
<1>5. CASE DropFrame \/ CloseAcked
  <2>1. /\ pc = "frames" /\ state # "open" /\ state' = state /\ UNCHANGED <<writeVars, stream, received>>
        /\ used' = used + 1
    BY <1>5 DEF DropFrame, CloseAcked, Consume, sessionVars
  <2> QED BY <1>1, <1>2, <2>1, AnsweredQuiet
<1>6. CASE pong
  <2>1. /\ state = "open" /\ state' = "open" /\ UNCHANGED <<stream, received>> /\ Send("pong")
        /\ used < Len(stream) /\ stream[used + 1] = "ping" /\ used' = used + 1
    BY <1>6 DEF pong, Consume, sessionVars
  <2> QED BY <1>1, <2>1, AnsweredNext
<1>7. ASSUME NEW m \in Msgs, m # "pong", Send(m), state' = "closing", state # "closed",
             UNCHANGED <<stream, received>>, used <= used'
      PROVE  AnsweredInv'
  <2>1. Sent' = Append(Sent, m) /\ Sent \in Seq(Msgs)
    BY <1>1, <1>7, SendsLast
  <2>2. PongsIn(Sent)' = PongsIn(Append(Sent, m))
    BY <2>1 DEF PongsIn
  <2>3. Cardinality(PongsIn(Sent))' = Cardinality(PongsIn(Sent))
    BY <1>7, <2>1, <2>2, PongsAppend
  <2> QED BY <1>1, <1>7, <2>3, AnsweredKeeps
<1>8. CASE send_close_ack
  <2>1. /\ Send("close") /\ state' = "closing" /\ state # "closed"
        /\ UNCHANGED <<stream, received>> /\ used' = used + 1
    BY <1>8 DEF send_close_ack, send_close_frame, Consume
  <2> QED BY <1>1, <1>7, <2>1 DEF Msgs
<1>9. CASE ProtocolError
  <2>1. stream' = stream /\ used' = Len(stream) /\ Len(stream) \in Nat
    BY <1>9 DEF ProtocolError, Inv, TypeOK
  <2>2. CASE state = "open"
    <3>1. Send("lastClose") /\ state' = "closing" /\ received' = received
      BY <1>9, <2>2 DEF ProtocolError, send_close_frame
    <3> QED BY <1>1, <1>7, <2>1, <2>2, <3>1 DEF Msgs
  <2>3. CASE state # "open"
    <3>1. UNCHANGED writeVars /\ state' = "closed" /\ received' = received
      BY <1>9, <2>3 DEF ProtocolError, terminate
    <3> QED BY <1>1, <2>1, <3>1, AnsweredQuiet
  <2> QED BY <2>2, <2>3
<1>10. CASE write_frame
  <2>1. UNCHANGED readVars /\ state' = state
    BY <1>10 DEF write_frame, Handler, sessionVars
  <2>2. CASE UNCHANGED writeVars
    BY <1>1, <2>1, <2>2, AnsweredQuiet DEF readVars
  <2>3. CASE ~writeFlag /\ StartWrite
    <3>1. Sent' = Sent
      BY <2>3, StartAnswered
    <3>2. Cardinality(PongsIn(Sent))' = Cardinality(PongsIn(Sent))
      BY <3>1 DEF PongsIn
    <3> QED BY <1>1, <2>1, <3>2, AnsweredKeeps DEF readVars
  <2> QED BY <1>10, <2>2, <2>3 DEF write_frame, Inv, TypeOK
<1>11. CASE \E r \in {"ok"} \cup Failures : handle_write_frame(r)
  BY <1>11, WrittenAnswered
<1>12. CASE \E n \in DOMAIN why : handle_async_shutdown(n) \/ handle_async_shutdown_timeout(n)
  <2>1. UNCHANGED <<writeVars, readVars>> /\ state' = state
    BY <1>12 DEF handle_async_shutdown, handle_async_shutdown_timeout, handle_terminate, Handler
  <2> QED BY <1>1, <2>1, AnsweredQuiet DEF readVars
<1> QED
  BY <1>3, <1>4, <1>5, <1>6, <1>8, <1>9, <1>10, <1>11, <1>12 DEF Handlers

\* Every step keeps what is known of the answers.
LEMMA NextAnswered == Inv /\ AnsweredInv /\ [Next]_connectionVars => AnsweredInv'
<1> SUFFICES ASSUME Inv, AnsweredInv, [Next]_connectionVars PROVE AnsweredInv'
  OBVIOUS
<1>1. TypeOK /\ TypeOK' /\ used \in Nat
  BY NextInv DEF Inv, TypeOK
<1>2. CASE Handlers
  BY <1>1, <1>2, HandlersAnswered
<1>3. CASE DataMessage
  <2>1. /\ state = "open" /\ state' = "open" /\ UNCHANGED <<stream, writeVars>>
        /\ used < Len(stream) /\ stream[used + 1] \in Texts /\ used' = used + 1
        /\ received' = Append(received, used + 1)
    BY <1>3 DEF DataMessage, Consume, sessionVars
  <2> QED BY <1>1, <2>1, AnsweredNext
<1>4. CASE Completions
  <2>1. /\ UNCHANGED <<writeVars, used, received>> /\ state' = state
        /\ stream' = stream \/ \E b \in Batches : stream' = stream \o b
    BY <1>4 DEF Completions, OpCompletes, ReadCompletes, NoFrame, FramesArrive, Arrive, TimerExpires,
                Elsewhere, sessionVars, readVars
  <2>2. \A k \in 1 .. used : stream'[k] = stream[k]
    <3>1. CASE stream' = stream
      BY <3>1
    <3>2. CASE \E b \in Batches : stream' = stream \o b
      <4>1. PICK b \in Batches : stream' = stream \o b
        BY <3>2
      <4>2. PICK n \in 0 .. MaxBatch : b \in [1 .. n -> Frames]
        BY DEF Batches
      <4>3. n \in Nat
        BY <4>2, ConnectionAssumption
      <4>4. b \in Seq(Frames) /\ stream \in Seq(Frames) /\ used \in 0 .. Len(stream)
        BY <1>1, <4>2, <4>3 DEF TypeOK
      <4> QED BY <4>1, <4>4, ConcatProperties
    <3> QED BY <2>1, <3>1, <3>2
  <2> QED BY <1>1, <2>1, <2>2, AnsweredQuiet
<1>5. CASE RunReturns \/ UNCHANGED connectionVars
  <2>1. UNCHANGED <<writeVars, readVars>> /\ state' = state
    BY <1>5 DEF RunReturns, Elsewhere, connectionVars, sessionVars
  <2> QED BY <1>1, <2>1, AnsweredQuiet DEF readVars
<1> QED BY <1>2, <1>3, <1>4, <1>5 DEF Next

\* Whatever the frames and the reads: the program gets every text up to the first frame
\* that ends the open state, in order and once; each ping gets one pong, which only the
\* end of the connection can lose; nothing else gets one.
THEOREM ConnectionAnswers == Spec => []Answered
<1>1. Init => AnsweredInv
  <2> SUFFICES ASSUME Init PROVE AnsweredInv
    OBVIOUS
  <2>1. /\ used = 0 /\ received = <<>> /\ Sent = <<>>
    BY DEF Init, Sent
  <2>2. \A kinds : Upto(kinds, 0) = {}
    BY DEF Upto
  <2>3. PongsIn(Sent) = {}
    BY <2>1 DEF PongsIn
  <2>4. Cardinality({}) = 0
    BY FS_EmptySet
  <2>5. DOMAIN received = {} /\ {received[k] : k \in DOMAIN received} = {}
    <3>1. DOMAIN received = {}
      BY <2>1
    <3> QED BY <3>1
  <2>6. Cardinality(PongsIn(Sent)) = 0 /\ Cardinality(Upto({"ping"}, 0)) = 0
    BY <2>2, <2>3, <2>4
  <2>7. AnsweredUpto(0)
    BY <2>1, <2>2, <2>5, <2>6 DEF AnsweredUpto
  <2> QED BY <2>1, <2>7 DEF AnsweredInv
<1>2. AnsweredInv => Answered
  BY DEF AnsweredInv, AnsweredUpto, Answered
<1> QED
  BY <1>1, <1>2, SpecInv, NextAnswered, PTL DEF Spec
-----------------------------------------------------------------------------
\* Positions of the stream, the consumed ones first.
StreamInv ==
  /\ stream \in Seq(Frames) /\ used \in 0 .. Len(stream)
  /\ received \in Seq(Nat)
  /\ \A n \in 1 .. Len(received) : received[n] \in 1 .. used

\* q holds positions of consumed JSON messages, in order.
Rising(q) ==
  /\ q \in Seq(Nat)
  /\ \A i \in 1 .. Len(q) : q[i] \in 1 .. used /\ stream[q[i]] = "json"
  /\ \A i, j \in 1 .. Len(q) : i < j => q[i] < q[j]

FeedInv ==
  /\ Rising(arrived) /\ Rising(outbox)
  /\ \A i \in 1 .. Len(arrived), j \in 1 .. Len(outbox) : arrived[i] < outbox[j]

ProviderInv == StreamInv /\ ThrowsOnNoise /\ FeedInv
-----------------------------------------------------------------------------
(* What the steps do to the stream. *)

\* A step that consumes frames of a grown stream and gives the program none.
Quiet ==
  /\ received' = received /\ used \in Nat /\ used' \in used .. Len(stream')
  /\ stream' \in Seq(Frames) /\ Len(stream) <= Len(stream')
  /\ \A n \in 1 .. Len(stream) : stream'[n] = stream[n]
  /\ pc' = "threw" <=> pc = "threw"

\* No handler but the program's own gives it a message.
LEMMA HandlersQuiet == ASSUME StreamInv, Handlers PROVE Quiet
<1> DEFINE Same == UNCHANGED readVars /\ pc # "threw" /\ pc' # "threw"
<1>0. Same => Quiet
  BY DEF Quiet, StreamInv, readVars
<1>1. CASE \/ handle_resolve \/ handle_connect \/ handle_transport_init
           \/ handle_send_http_request \/ PartialResponse \/ handle_read_http_response
           \/ NegotiationFails
           \/ handle_read_frame \/ write_frame
  <2>1. Same
    BY <1>1 DEF handle_resolve, handle_connect, handle_transport_init, GoesOn,
                handle_send_http_request, PartialResponse, handle_read_http_response, NegotiationFails,
                handle_read_frame, write_frame, Handler, Runs
  <2> QED BY <1>0, <2>1
<1>2. CASE \/ \E op \in Attempts : AttemptFails(op)
           \/ handle_resolve_timeout \/ handle_connect_timeout \/ handle_post_init_timeout
  <2>1. \E h, r : Handler(h, r)
    BY <1>2 DEF AttemptFails, AttemptTimeout, handle_resolve_timeout, handle_connect_timeout,
                handle_post_init_timeout
  <2> QED BY <1>0, <2>1 DEF Handler, Runs
<1>3. CASE \/ \E op \in DOMAIN Guard : TooLate(op)
           \/ BadResponse \/ HandshakeEnds \/ handle_open_handshake_timeout
           \/ ReadEof \/ ReadError \/ handle_close_handshake_timeout
  <2>1. \E h, r : Ignore(h, r) \/ Fails(h, r)
    BY <1>3 DEF TooLate, BadResponse, HandshakeEnds, handle_open_handshake_timeout, ReadEof,
                ReadError, handle_close_handshake_timeout
  <2>2. \E h, r : Handler(h, r)
    BY <2>1 DEF Ignore, Fails
  <2> QED BY <1>0, <2>2 DEF Handler, Runs
<1>4. CASE \E n \in DOMAIN why : handle_async_shutdown(n) \/ handle_async_shutdown_timeout(n)
  <2>1. \E h, r : Handler(h, r)
    BY <1>4 DEF handle_async_shutdown, handle_async_shutdown_timeout
  <2> QED BY <1>0, <2>1 DEF Handler, Runs
<1>5. CASE \E r \in {"ok"} \cup Failures : handle_write_frame(r)
  BY <1>0, <1>5 DEF handle_write_frame, Runs
<1>6. CASE read_frame
  BY <1>0, <1>6 DEF read_frame
<1>7. CASE DropFrame \/ pong \/ send_close_ack \/ CloseAcked
  <2>1. received' = received /\ \E kinds : Consume(kinds)
    BY <1>7 DEF DropFrame, pong, send_close_ack, send_close_frame, CloseAcked
  <2>2. used < Len(stream) /\ used' = used + 1 /\ stream' = stream /\ pc = "frames" /\ pc' = pc
    BY <2>1 DEF Consume
  <2> QED BY <2>1, <2>2 DEF Quiet, StreamInv
<1>8. CASE ProtocolError
  <2>1. received' = received
    BY <1>8 DEF ProtocolError, send_close_frame
  <2>2. used' = Len(stream) /\ stream' = stream /\ pc = "frames" /\ pc' = "loop"
    BY <1>8 DEF ProtocolError
  <2> QED BY <2>1, <2>2 DEF Quiet, StreamInv
<1> QED
  BY <1>1, <1>2, <1>3, <1>4, <1>5, <1>6, <1>7, <1>8 DEF Handlers

\* Frames arrive behind those that are there.
LEMMA CompletionsQuiet == ASSUME StreamInv, Completions PROVE Quiet
<1>1. pc' = pc /\ UNCHANGED <<used, received>>
  BY DEF Completions, OpCompletes, ReadCompletes, NoFrame, FramesArrive, Arrive, TimerExpires,
         Complete, Expire, readVars
<1>2. stream' = stream \/ \E b \in Batches : stream' = stream \o b
  BY DEF Completions, OpCompletes, ReadCompletes, NoFrame, FramesArrive, Arrive, TimerExpires, readVars
<1>3. CASE stream' = stream
  BY <1>1, <1>3 DEF Quiet, StreamInv
<1>4. CASE \E b \in Batches : stream' = stream \o b
  <2>1. PICK b \in Batches : stream' = stream \o b
    BY <1>4
  <2>2. PICK n \in 0 .. MaxBatch : b \in [1 .. n -> Frames]
    BY Zenon DEF Batches
  <2>3. b \in Seq(Frames) /\ stream \in Seq(Frames)
    BY <2>2, ConnectionAssumption DEF StreamInv
  <2>4. /\ stream' \in Seq(Frames) /\ Len(stream') = Len(stream) + Len(b)
        /\ \A i \in 1 .. Len(stream) : stream'[i] = stream[i]
        /\ Len(b) \in Nat /\ Len(stream) \in Nat
    BY <2>1, <2>3, ConcatProperties
  <2> QED BY <1>1, <2>4 DEF Quiet, StreamInv
<1> QED BY <1>2, <1>3, <1>4

\* The positions that are known stay what they are.
LEMMA QuietKeeps ==
  ASSUME ProviderInv, Quiet, UNCHANGED pusherVars
  PROVE  ProviderInv'
<1>1. StreamInv'
  BY DEF ProviderInv, StreamInv, Quiet
<1>2. \A n \in 1 .. used : stream'[n] = stream[n] /\ n \in 1 .. used'
  BY DEF ProviderInv, StreamInv, Quiet
<1>3. ThrowsOnNoise'
  <2>1. received' = received /\ (pc' = "threw" <=> pc = "threw")
    BY DEF Quiet
  <2>2. \A n \in DOMAIN received : stream'[received[n]] = stream[received[n]]
    BY <1>2 DEF ProviderInv, StreamInv
  <2> QED BY <2>1, <2>2 DEF ProviderInv, ThrowsOnNoise
<1>4. FeedInv'
  BY <1>2 DEF ProviderInv, FeedInv, Rising, pusherVars
<1> QED BY <1>1, <1>3, <1>4 DEF ProviderInv

\* A message of kind k is consumed and given to the program.
Delivers(k) ==
  /\ used < Len(stream) /\ stream[used + 1] = k /\ used' = used + 1
  /\ received' = Append(received, used + 1) /\ stream' = stream

\* Delivering message k appends it to the stream and to the received.
LEMMA DeliversStream ==
  ASSUME StreamInv, NEW k, Delivers(k)
  PROVE  /\ StreamInv' /\ stream'[used'] = k
         /\ Len(received') = Len(received) + 1 /\ received'[Len(received')] = used'
         /\ \A n \in 1 .. Len(received) : received'[n] = received[n]
         /\ DOMAIN received' = 1 .. Len(received) + 1 /\ Len(received) \in Nat
<1>1. used + 1 \in Nat /\ received \in Seq(Nat)
  BY DEF StreamInv
<1>2. /\ received' \in Seq(Nat) /\ Len(received') = Len(received) + 1
      /\ received'[Len(received) + 1] = used + 1
      /\ \A n \in 1 .. Len(received) : received'[n] = received[n]
      /\ Len(received) \in Nat
  BY <1>1, AppendProperties DEF Delivers
<1>3. DOMAIN received' = 1 .. Len(received) + 1
  BY <1>2
<1>4. StreamInv'
  <2>1. \A n \in 1 .. Len(received') : n \in 1 .. Len(received) \/ n = Len(received) + 1
    BY <1>2
  <2>2. \A n \in 1 .. Len(received') : received'[n] \in 1 .. used'
    BY <1>1, <1>2, <2>1 DEF StreamInv, Delivers
  <2> QED BY <1>2, <2>2 DEF StreamInv, Delivers
<1> QED BY <1>2, <1>3, <1>4 DEF Delivers

\* A JSON message is the newest of the feed.
LEMMA MessageKeeps == ASSUME ProviderInv, on_message PROVE ProviderInv'
<1>1. Delivers("json") /\ pc = "frames" /\ pc' = "frames"
  BY DEF on_message, DataMessage, Consume, Delivers
<1>2. StreamInv /\ ThrowsOnNoise /\ FeedInv
  BY DEF ProviderInv
<1>3. /\ StreamInv' /\ stream'[used'] = "json"
      /\ Len(received') = Len(received) + 1 /\ received'[Len(received')] = used'
      /\ \A n \in 1 .. Len(received) : received'[n] = received[n]
      /\ DOMAIN received' = 1 .. Len(received) + 1 /\ Len(received) \in Nat
  BY <1>1, <1>2, DeliversStream
<1>4. ThrowsOnNoise'
  <2> SUFFICES ASSUME NEW n \in 1 .. Len(received) + 1
               PROVE  stream'[received'[n]] # "noise"
    BY <1>1, <1>3 DEF ThrowsOnNoise
  <2>1. CASE n \in 1 .. Len(received)
    <3>1. received'[n] = received[n] /\ n \in DOMAIN received
      BY <1>2, <1>3, <2>1 DEF StreamInv
    <3> QED BY <1>1, <1>2, <3>1 DEF ThrowsOnNoise, Delivers
  <2>2. CASE n = Len(received) + 1
    BY <1>3, <2>2
  <2> QED BY <1>3, <2>1, <2>2
<1>5. FeedInv'
  <2>1. /\ outbox' = Append(outbox, used') /\ arrived' = arrived
        /\ used' = used + 1 /\ used \in Nat /\ stream' = stream
    BY <1>1, <1>2 DEF on_message, Delivers, StreamInv
  <2>2. outbox \in Seq(Nat) /\ used' \in Nat /\ Len(outbox) \in Nat
    BY <1>2, <2>1 DEF FeedInv, Rising
  <2>3. /\ outbox' \in Seq(Nat) /\ Len(outbox') = Len(outbox) + 1
        /\ outbox'[Len(outbox) + 1] = used'
        /\ \A n \in 1 .. Len(outbox) : outbox'[n] = outbox[n]
    BY <2>1, <2>2, AppendProperties
  <2>4. \A n \in 1 .. Len(outbox') : n \in 1 .. Len(outbox) \/ n = Len(outbox) + 1
    BY <2>2, <2>3
  <2>5. Rising(arrived)'
    BY <1>2, <2>1 DEF FeedInv, Rising
  <2>6. Rising(outbox)'
    <3>1. \A n \in 1 .. Len(outbox') : outbox'[n] \in 1 .. used' /\ stream'[outbox'[n]] = "json"
      BY <1>2, <1>3, <2>1, <2>3, <2>4 DEF FeedInv, Rising
    <3>2. ASSUME NEW i \in 1 .. Len(outbox'), NEW j \in 1 .. Len(outbox'), i < j
          PROVE  outbox'[i] < outbox'[j]
      <4>1. i \in 1 .. Len(outbox)
        BY <2>2, <2>3, <3>2
      <4>2. outbox'[i] = outbox[i] /\ outbox[i] <= used
        BY <1>2, <2>3, <4>1 DEF FeedInv, Rising
      <4>3. CASE j \in 1 .. Len(outbox)
        BY <1>2, <2>3, <3>2, <4>1, <4>3 DEF FeedInv, Rising
      <4>4. CASE j = Len(outbox) + 1
        BY <1>2, <2>1, <2>2, <2>3, <4>1, <4>2, <4>4 DEF FeedInv, Rising
      <4> QED BY <2>4, <4>3, <4>4
    <3> QED BY <2>3, <3>1, <3>2 DEF Rising
  <2>7. ASSUME NEW i \in 1 .. Len(arrived), NEW j \in 1 .. Len(outbox')
        PROVE  arrived[i] < outbox'[j]
    <3>1. arrived[i] \in 1 .. used
      BY <1>2 DEF FeedInv, Rising
    <3>2. CASE j \in 1 .. Len(outbox)
      BY <1>2, <2>3, <3>2 DEF FeedInv
    <3>3. CASE j = Len(outbox) + 1
      BY <2>1, <2>3, <3>1, <3>3
    <3> QED BY <2>4, <3>2, <3>3
  <2> QED BY <2>1, <2>5, <2>6, <2>7 DEF FeedInv
<1> QED BY <1>3, <1>4, <1>5 DEF ProviderInv

\* What is not JSON ends the process, and leaves the pipe to nobody.
LEMMA ThrowKeeps == ASSUME ProviderInv, on_message_throws PROVE ProviderInv'
<1>1. Delivers("noise") /\ pc = "frames" /\ pc' = "threw"
  BY DEF on_message_throws, Delivers
<1>2. StreamInv /\ ThrowsOnNoise /\ FeedInv
  BY DEF ProviderInv
<1>3. /\ StreamInv' /\ stream'[used'] = "noise"
      /\ Len(received') = Len(received) + 1 /\ received'[Len(received')] = used'
      /\ \A n \in 1 .. Len(received) : received'[n] = received[n]
      /\ DOMAIN received' = 1 .. Len(received) + 1 /\ Len(received) \in Nat
  BY <1>1, <1>2, DeliversStream
<1>4. ThrowsOnNoise'
  <2> SUFFICES ASSUME NEW n \in 1 .. Len(received) + 1
               PROVE  stream'[received'[n]] = "noise" <=> n = Len(received) + 1
    BY <1>1, <1>3 DEF ThrowsOnNoise
  <2>1. CASE n \in 1 .. Len(received)
    <3>1. received'[n] = received[n] /\ n \in DOMAIN received /\ n # Len(received) + 1
      BY <1>2, <1>3, <2>1 DEF StreamInv
    <3> QED BY <1>1, <1>2, <3>1 DEF ThrowsOnNoise, Delivers
  <2>2. CASE n = Len(received) + 1
    BY <1>3, <2>2
  <2> QED BY <1>3, <2>1, <2>2
<1>5. FeedInv'
  <2>1. outbox' = <<>> /\ arrived' = arrived /\ stream' = stream /\ used' = used + 1 /\ used \in Nat
    BY <1>1, <1>2 DEF on_message_throws, Delivers, StreamInv
  <2>2. Rising(outbox)'
    BY <2>1 DEF Rising
  <2>3. Rising(arrived)'
    BY <1>2, <2>1 DEF FeedInv, Rising
  <2> QED BY <2>1, <2>2, <2>3 DEF FeedInv
<1> QED BY <1>3, <1>4, <1>5 DEF ProviderInv

\* The oldest message moves from the pipe to the aggregator.
LEMMA TransferKeeps == ASSUME ProviderInv, Transfer PROVE ProviderInv'
<1>1. /\ outbox \in Seq(Nat) /\ outbox # <<>> /\ arrived \in Seq(Nat)
      /\ arrived' = Append(arrived, Head(outbox)) /\ outbox' = Tail(outbox)
      /\ UNCHANGED <<stream, used, received, pc>>
  BY DEF ProviderInv, FeedInv, Rising, Transfer, connectionVars, readVars, loopVars
<1>2. /\ Head(outbox) = outbox[1] /\ Len(outbox) \in Nat \ {0} /\ outbox[1] \in Nat
      /\ outbox' \in Seq(Nat) /\ Len(outbox') = Len(outbox) - 1
      /\ \A n \in 1 .. Len(outbox') : outbox'[n] = outbox[n + 1]
  BY <1>1
<1>3. /\ arrived' \in Seq(Nat) /\ Len(arrived') = Len(arrived) + 1 /\ Len(arrived) \in Nat
      /\ arrived'[Len(arrived) + 1] = outbox[1]
      /\ \A n \in 1 .. Len(arrived) : arrived'[n] = arrived[n]
  BY <1>1, <1>2, AppendProperties
<1>4. \A n \in 1 .. Len(arrived') : n \in 1 .. Len(arrived) \/ n = Len(arrived) + 1
  BY <1>3
<1>5. \A n \in 1 .. Len(outbox') : n + 1 \in 1 .. Len(outbox) /\ 1 < n + 1
  BY <1>2
<1>6. 1 \in 1 .. Len(outbox) /\ FeedInv
  BY <1>2 DEF ProviderInv
<1> DEFINE Json1(x) == x \in 1 .. used /\ stream[x] = "json"
<1>6a. /\ \A n \in 1 .. Len(arrived) : Json1(arrived[n])
       /\ \A n \in 1 .. Len(outbox) : Json1(outbox[n])
  BY <1>6 DEF FeedInv, Rising
<1>7. Rising(arrived)'
  <2>1. \A n \in 1 .. Len(arrived') : Json1(arrived'[n])
    <3> HIDE DEF Json1
    <3> QED BY <1>3, <1>4, <1>6, <1>6a
  <2>2. ASSUME NEW i \in 1 .. Len(arrived'), NEW j \in 1 .. Len(arrived'), i < j
        PROVE  arrived'[i] < arrived'[j]
    <3>1. i \in 1 .. Len(arrived)
      BY <1>3, <2>2
    <3>2. CASE j \in 1 .. Len(arrived)
      BY <1>3, <1>6, <2>2, <3>1, <3>2 DEF FeedInv, Rising
    <3>3. CASE j = Len(arrived) + 1
      BY <1>3, <1>6, <3>1, <3>3 DEF FeedInv
    <3> QED BY <1>4, <3>2, <3>3
  <2> QED BY <1>1, <1>3, <2>1, <2>2 DEF Rising
<1>8. Rising(outbox)'
  <2>1. \A n \in 1 .. Len(outbox') : Json1(outbox'[n])
    <3> HIDE DEF Json1
    <3> QED BY <1>2, <1>5, <1>6a
  <2>2. ASSUME NEW i \in 1 .. Len(outbox'), NEW j \in 1 .. Len(outbox'), i < j
        PROVE  outbox'[i] < outbox'[j]
    <3>1. i + 1 \in 1 .. Len(outbox) /\ j + 1 \in 1 .. Len(outbox) /\ i + 1 < j + 1
      BY <1>5, <2>2
    <3> QED BY <1>2, <1>6, <3>1 DEF FeedInv, Rising
  <2> QED BY <1>1, <1>2, <2>1, <2>2 DEF Rising
<1>9. ASSUME NEW i \in 1 .. Len(arrived'), NEW j \in 1 .. Len(outbox')
      PROVE  arrived'[i] < outbox'[j]
  <2>1. CASE i \in 1 .. Len(arrived)
    BY <1>2, <1>3, <1>5, <1>6, <2>1 DEF FeedInv
  <2>2. CASE i = Len(arrived) + 1
    BY <1>2, <1>3, <1>5, <1>6, <2>2 DEF FeedInv, Rising
  <2> QED BY <1>4, <2>1, <2>2
<1>10. StreamInv' /\ ThrowsOnNoise'
  BY <1>1 DEF ProviderInv, StreamInv, ThrowsOnNoise
<1> QED BY <1>7, <1>8, <1>9, <1>10 DEF ProviderInv, FeedInv

\* What an aggregator that stops had not read yet is lost.
LEMMA StopKeeps == ASSUME ProviderInv, AggregatorStops PROVE ProviderInv'
<1>1. PICK o \in 1 .. Len(outbox) + 1 : outbox' = SubSeq(outbox, o, Len(outbox))
  BY DEF AggregatorStops
<1>2. UNCHANGED <<arrived, stream, used, received, pc>>
  BY DEF AggregatorStops, connectionVars, readVars, loopVars
<1>3. outbox \in Seq(Nat) /\ Len(outbox) \in Nat /\ FeedInv
  BY DEF ProviderInv, FeedInv, Rising
<1>4. /\ outbox' \in Seq(Nat) /\ Len(outbox') = Len(outbox) - o + 1
      /\ \A n \in 1 .. Len(outbox') : outbox'[n] = outbox[n + (o - 1)]
  BY <1>1, <1>3
<1>5. \A n \in 1 .. Len(outbox') : n + (o - 1) \in 1 .. Len(outbox)
  BY <1>3, <1>4
<1>6. Rising(outbox)'
  <2>1. \A n \in 1 .. Len(outbox') : outbox'[n] \in 1 .. used /\ stream[outbox'[n]] = "json"
    BY <1>3, <1>4, <1>5 DEF FeedInv, Rising
  <2>2. ASSUME NEW i \in 1 .. Len(outbox'), NEW j \in 1 .. Len(outbox'), i < j
        PROVE  outbox'[i] < outbox'[j]
    <3>1. i + (o - 1) < j + (o - 1)
      BY <2>2
    <3> QED BY <1>3, <1>4, <1>5, <3>1 DEF FeedInv, Rising
  <2> QED BY <1>2, <1>4, <2>1, <2>2 DEF Rising
<1>7. Rising(arrived)'
  BY <1>2, <1>3 DEF FeedInv, Rising
<1>8. \A i \in 1 .. Len(arrived'), j \in 1 .. Len(outbox') : arrived'[i] < outbox'[j]
  BY <1>2, <1>3, <1>4, <1>5 DEF FeedInv
<1>9. StreamInv' /\ ThrowsOnNoise'
  BY <1>2 DEF ProviderInv, StreamInv, ThrowsOnNoise
<1> QED BY <1>6, <1>7, <1>8, <1>9 DEF ProviderInv, FeedInv

\* The invariant holds at first.
LEMMA InitProvider == ProviderInit => ProviderInv
BY DEF ProviderInit, Init, ProviderInv, StreamInv, ThrowsOnNoise, FeedInv, Rising

\* Every step keeps the invariant.
LEMMA NextProvider == ProviderInv /\ [ProviderNext]_providerVars => ProviderInv'
<1> SUFFICES ASSUME ProviderInv, [ProviderNext]_providerVars PROVE ProviderInv'
  OBVIOUS
<1>1. CASE Steps
  BY <1>1, HandlersQuiet, CompletionsQuiet, QuietKeeps DEF Steps, ProviderInv
<1>2. CASE on_message \/ on_message_throws
  BY <1>2, MessageKeeps, ThrowKeeps
<1>3. CASE Transfer \/ AggregatorStops
  BY <1>3, TransferKeeps, StopKeeps
<1>4. CASE \/ RunReturns /\ UNCHANGED pusherVars
           \/ AggregatorStarts
           \/ UNCHANGED providerVars
  <2>1. /\ UNCHANGED <<stream, used, received, outbox, arrived>>
        /\ pc' = "threw" <=> pc = "threw"
    BY <1>4 DEF RunReturns, Return, AggregatorStarts, providerVars, pusherVars,
                connectionVars, readVars, loopVars
  <2> QED BY <2>1 DEF ProviderInv, StreamInv, ThrowsOnNoise, FeedInv, Rising
<1> QED BY <1>1, <1>2, <1>3, <1>4 DEF ProviderNext
-----------------------------------------------------------------------------
\* json::parse (provider.cpp:43) lets no message pass that is not JSON: the first
\* such message is the last the program sees, however the frames came.
THEOREM NoiseIsFatal == ProviderSpec => []ThrowsOnNoise
<1>1. ProviderInv => ThrowsOnNoise
  BY DEF ProviderInv
<1> QED BY <1>1, InitProvider, NextProvider, PTL DEF ProviderSpec

\* However often the push blocked (provider.cpp:35) and the aggregator was
\* stopped: what it received, and what waits for it, are JSON messages of the
\* server, in the server's order, none twice.
THEOREM FeedKeepsOrder == ProviderSpec => []FeedOrdered
<1>1. ProviderInv => FeedOrdered
  <2> SUFFICES ASSUME ProviderInv PROVE FeedOrdered
    OBVIOUS
  <2>1. arrived \in Seq(Nat) /\ outbox \in Seq(Nat) /\ FeedInv
    BY DEF ProviderInv, FeedInv, Rising
  <2>2. /\ DOMAIN Feed = 1 .. Len(arrived) + Len(outbox)
        /\ \A i \in DOMAIN Feed : Feed[i] = IF i <= Len(arrived) THEN arrived[i]
                                                             ELSE outbox[i - Len(arrived)]
        /\ Len(arrived) \in Nat /\ Len(outbox) \in Nat
    BY <2>1, ConcatProperties DEF Feed
  <2>3. \A i \in DOMAIN Feed :
          \/ i \in 1 .. Len(arrived) /\ Feed[i] = arrived[i]
          \/ /\ i > Len(arrived) /\ i - Len(arrived) \in 1 .. Len(outbox)
             /\ Feed[i] = outbox[i - Len(arrived)]
    BY <2>2
  <2>4. \A i \in DOMAIN Feed : stream[Feed[i]] = "json"
    BY <2>1, <2>3 DEF FeedInv, Rising
  <2>5. ASSUME NEW i \in DOMAIN Feed, NEW j \in DOMAIN Feed, i < j
        PROVE  Feed[i] < Feed[j]
    <3>1. CASE j \in 1 .. Len(arrived) /\ Feed[j] = arrived[j]
      <4>1. i \in 1 .. Len(arrived) /\ Feed[i] = arrived[i]
        BY <2>2, <2>3, <2>5, <3>1
      <4> QED BY <2>1, <2>5, <3>1, <4>1 DEF FeedInv, Rising
    <3>2. CASE j - Len(arrived) \in 1 .. Len(outbox) /\ Feed[j] = outbox[j - Len(arrived)]
      <4>1. CASE i \in 1 .. Len(arrived) /\ Feed[i] = arrived[i]
        BY <2>1, <3>2, <4>1 DEF FeedInv
      <4>2. CASE i - Len(arrived) \in 1 .. Len(outbox) /\ Feed[i] = outbox[i - Len(arrived)]
        <5>1. i - Len(arrived) < j - Len(arrived)
          BY <2>2, <2>5
        <5> QED BY <2>1, <3>2, <4>2, <5>1 DEF FeedInv, Rising
      <4> QED BY <2>3, <4>1, <4>2
    <3> QED BY <2>3, <3>1, <3>2
  <2> QED BY <2>4, <2>5 DEF FeedOrdered
<1> QED BY <1>1, InitProvider, NextProvider, PTL DEF ProviderSpec
-----------------------------------------------------------------------------
(* Nothing is passed over. *)

CompleteInv == stopped \in Nat /\ FeedComplete

\* Appending x adds x to the items.
LEMMA ItemsAppend ==
  ASSUME NEW q \in Seq(Nat), NEW x \in Nat
  PROVE  Items(Append(q, x)) = Items(q) \cup {x}
<1> DEFINE a == Append(q, x)
<1>1. /\ a \in Seq(Nat) /\ Len(a) = Len(q) + 1 /\ Len(q) \in Nat
      /\ a[Len(q) + 1] = x /\ \A n \in 1 .. Len(q) : a[n] = q[n]
  BY AppendProperties
<1>2. DOMAIN a = 1 .. Len(q) + 1 /\ DOMAIN q = 1 .. Len(q)
  BY <1>1
<1> HIDE DEF a
<1>3. \A n \in DOMAIN a : n \in DOMAIN q \/ n = Len(q) + 1
  BY <1>1, <1>2
<1>4. Len(q) + 1 \in DOMAIN a /\ \A n \in DOMAIN q : n \in DOMAIN a
  BY <1>1, <1>2
<1>5. Items(a) = Items(q) \cup {x}
  BY <1>1, <1>2, <1>3, <1>4 DEF Items
<1> QED BY <1>5 DEF a

\* The head of a queue and the items of its tail are those of the queue.
LEMMA ItemsTail ==
  ASSUME NEW q \in Seq(Nat), q # <<>>
  PROVE  Items(q) = {Head(q)} \cup Items(Tail(q))
<1> DEFINE t == Tail(q)
<1>1. /\ t \in Seq(Nat) /\ Len(t) = Len(q) - 1 /\ Len(q) \in Nat \ {0} /\ Head(q) = q[1]
      /\ \A n \in 1 .. Len(t) : t[n] = q[n + 1]
  OBVIOUS
<1>2. DOMAIN t = 1 .. Len(q) - 1 /\ DOMAIN q = 1 .. Len(q)
  BY <1>1
<1> HIDE DEF t
<1>3. ASSUME NEW n \in DOMAIN q, n # 1
      PROVE  n - 1 \in DOMAIN t /\ t[n - 1] = q[n]
  <2>1. n - 1 \in 1 .. Len(q) - 1 /\ (n - 1) + 1 = n
    BY <1>1, <1>2, <1>3
  <2> QED BY <1>1, <1>2, <2>1
<1>4. 1 \in DOMAIN q /\ \A n \in DOMAIN t : n + 1 \in DOMAIN q /\ t[n] = q[n + 1]
  BY <1>1, <1>2
<1>5. Items(q) = {q[1]} \cup Items(t)
  BY <1>3, <1>4 DEF Items
<1> QED BY <1>1, <1>5 DEF t

\* A suffix of a queue has no other items.
LEMMA ItemsSuffix ==
  ASSUME NEW q \in Seq(Nat), NEW o \in 1 .. Len(q) + 1
  PROVE  Items(SubSeq(q, o, Len(q))) \subseteq Items(q)
<1> DEFINE r == SubSeq(q, o, Len(q))
<1>1. /\ r \in Seq(Nat) /\ Len(r) = Len(q) - o + 1 /\ Len(q) \in Nat
      /\ \A n \in 1 .. Len(r) : r[n] = q[n + (o - 1)]
  OBVIOUS
<1>2. DOMAIN r = 1 .. Len(r) /\ DOMAIN q = 1 .. Len(q)
  BY <1>1
<1> HIDE DEF r
<1>3. ASSUME NEW n \in DOMAIN r
      PROVE  n + (o - 1) \in DOMAIN q /\ r[n] = q[n + (o - 1)]
  <2>1. n \in 1 .. Len(q) - o + 1 /\ r[n] = q[n + (o - 1)]
    BY <1>1, <1>2
  <2>2. n + (o - 1) \in 1 .. Len(q)
    BY <1>1, <2>1
  <2> QED BY <1>2, <2>1, <2>2
<1>4. Items(r) \subseteq Items(q)
  BY <1>3 DEF Items
<1> QED BY <1>4 DEF r

\* A step that gives the program nothing, and feeds nothing, passes over nothing.
LEMMA QuietCompletes ==
  ASSUME StreamInv, CompleteInv, UNCHANGED <<received, arrived, outbox, stopped>>,
         pc' = "threw" <=> pc = "threw",
         \A n \in 1 .. used : stream'[n] = stream[n]
  PROVE  CompleteInv'
<1>1. Fed' = Fed /\ Items(received)' = Items(received)
  BY DEF Fed, Items
<1>2. \A k \in Items(received) : stream'[k] = stream[k]
  BY DEF Items, StreamInv
<1> QED BY <1>1, <1>2 DEF CompleteInv, FeedComplete

\* Every step keeps it: what the pipe lost when the program threw is newer than
\* what had arrived.
LEMMA NextCompletes ==
  ProviderInv /\ CompleteInv /\ [ProviderNext]_providerVars => CompleteInv'
<1> SUFFICES ASSUME ProviderInv, CompleteInv, [ProviderNext]_providerVars
             PROVE  CompleteInv'
  OBVIOUS
<1>1. /\ StreamInv /\ FeedInv /\ ThrowsOnNoise
      /\ received \in Seq(Nat) /\ arrived \in Seq(Nat) /\ outbox \in Seq(Nat)
      /\ used \in Nat /\ stopped \in Nat /\ FeedComplete
  BY DEF ProviderInv, StreamInv, FeedInv, Rising, CompleteInv
<1>2. CASE Steps
  <2>1. Quiet /\ UNCHANGED pusherVars
    BY <1>1, <1>2, HandlersQuiet, CompletionsQuiet DEF Steps
  <2>2. \A n \in 1 .. used : stream'[n] = stream[n]
    <3>1. used \in 0 .. Len(stream)
      BY <1>1 DEF StreamInv
    <3>2. \A n \in 1 .. used : n \in 1 .. Len(stream)
      BY <3>1
    <3> QED BY <2>1, <3>2 DEF Quiet
  <2> QED BY <1>1, <2>1, <2>2, QuietCompletes DEF Quiet, pusherVars
<1>3. CASE on_message
  <2>1. Delivers("json") /\ pc = "frames" /\ pc' = "frames"
        /\ outbox' = Append(outbox, used + 1) /\ UNCHANGED <<arrived, stopped>>
    BY <1>3 DEF on_message, DataMessage, Consume, Delivers
  <2>2. Items(received)' = Items(received) \cup {used + 1}
    BY <1>1, <2>1, ItemsAppend DEF Delivers
  <2>3. Items(outbox)' = Items(outbox) \cup {used + 1} /\ Items(arrived)' = Items(arrived)
    BY <1>1, <2>1, ItemsAppend
  <2>4. stream' = stream
    BY <2>1 DEF Delivers
  <2> QED BY <1>1, <2>1, <2>2, <2>3, <2>4 DEF CompleteInv, FeedComplete, Fed
<1>4. CASE on_message_throws
  <2>1. Delivers("noise") /\ pc = "frames" /\ pc' = "threw"
        /\ outbox' = <<>> /\ UNCHANGED <<arrived, stopped>>
    BY <1>4 DEF on_message_throws, Delivers
  <2>2. Items(received)' = Items(received) \cup {used + 1} /\ stream' = stream
    BY <1>1, <2>1, ItemsAppend DEF Delivers
  <2>3. Fed' = Items(arrived)
    BY <2>1 DEF Fed, Items
  <2>4. \A k \in Items(outbox), l \in Items(arrived) : l < k /\ k \in Nat /\ l \in Nat
    <3>1. /\ DOMAIN arrived = 1 .. Len(arrived) /\ DOMAIN outbox = 1 .. Len(outbox)
          /\ \A i \in DOMAIN arrived : arrived[i] \in Nat
          /\ \A i \in DOMAIN outbox : outbox[i] \in Nat
      BY <1>1
    <3>2. \A i \in DOMAIN arrived, j \in DOMAIN outbox : arrived[i] < outbox[j]
      BY <1>1, <3>1 DEF FeedInv
    <3> QED BY <3>1, <3>2 DEF Items
  <2>5. stream[used + 1] = "noise"
    BY <2>1 DEF Delivers
  <2>6. Items(arrived) \subseteq Items(received)
    BY <1>1 DEF FeedComplete, Fed
  <2>7. ASSUME stopped = 0, NEW k \in Items(received)', stream[k] = "json",
               NEW l \in Items(arrived), k <= l
        PROVE  k \in Items(arrived)
    <3>1. k \in Items(received)
      BY <2>2, <2>5, <2>7
    <3>2. k \in Items(arrived) \/ k \in Items(outbox)
      BY <1>1, <2>1, <2>7, <3>1 DEF FeedComplete, Fed
    <3> QED BY <2>4, <2>7, <3>2
  <2> QED BY <1>1, <2>1, <2>2, <2>3, <2>6, <2>7 DEF CompleteInv, FeedComplete
<1>5. CASE Transfer
  <2>1. /\ arrived' = Append(arrived, Head(outbox)) /\ outbox' = Tail(outbox) /\ outbox # <<>>
        /\ UNCHANGED <<stream, used, received, pc, stopped>>
    BY <1>5 DEF Transfer, connectionVars, readVars, loopVars
  <2>2. Head(outbox) \in Nat
    BY <1>1, <2>1
  <2>3. Items(arrived)' = Items(arrived) \cup {Head(outbox)}
    BY <1>1, <2>1, <2>2, ItemsAppend
  <2>4. Items(outbox) = {Head(outbox)} \cup Items(outbox)'
    BY <1>1, <2>1, ItemsTail
  <2>5. Fed' = Fed
    BY <2>3, <2>4 DEF Fed
  <2>6. Items(received)' = Items(received)
    BY <2>1
  <2> QED BY <1>1, <2>1, <2>5, <2>6 DEF CompleteInv, FeedComplete
<1>6. CASE AggregatorStops
  <2>1. /\ UNCHANGED <<arrived, received>>
        /\ stopped' = stopped + 1
        /\ \E o \in 1 .. Len(outbox) + 1 : outbox' = SubSeq(outbox, o, Len(outbox))
    BY <1>6 DEF AggregatorStops, connectionVars, readVars, loopVars
  <2>2. Items(outbox)' \subseteq Items(outbox)
    BY <1>1, <2>1, ItemsSuffix
  <2>3. Fed' \subseteq Fed /\ Items(received)' = Items(received)
    BY <2>1, <2>2 DEF Fed
  <2>4. stopped' \in Nat /\ stopped' # 0
    BY <1>1, <2>1
  <2> QED BY <1>1, <2>3, <2>4 DEF CompleteInv, FeedComplete
<1>7. CASE \/ RunReturns /\ UNCHANGED pusherVars
           \/ AggregatorStarts
           \/ UNCHANGED providerVars
  <2>1. /\ UNCHANGED <<stream, received, outbox, arrived, stopped>>
        /\ pc' = "threw" <=> pc = "threw"
    BY <1>7 DEF RunReturns, Return, AggregatorStarts, providerVars, pusherVars,
                connectionVars, readVars, loopVars
  <2> QED BY <1>1, <2>1, QuietCompletes
<1> QED BY <1>2, <1>3, <1>4, <1>5, <1>6, <1>7 DEF ProviderNext

\* Nothing JSON is lost between the server and the aggregator but by a stop of
\* the aggregator, or behind the last message that reached it before a throw.
THEOREM FeedIsComplete == ProviderSpec => []FeedInOrder
<1>1. ProviderInit => CompleteInv
  <2> SUFFICES ASSUME ProviderInit PROVE CompleteInv
    OBVIOUS
  <2>1. received = <<>> /\ arrived = <<>> /\ outbox = <<>> /\ stopped = 0
    BY DEF ProviderInit, Init
  <2> QED BY <2>1 DEF CompleteInv, FeedComplete, Fed, Items
<1>2. CompleteInv /\ FeedOrdered => FeedInOrder
  BY DEF CompleteInv, FeedInOrder
<1> QED
  BY <1>1, <1>2, FeedKeepsOrder, InitProvider, NextProvider, NextCompletes, PTL DEF ProviderSpec
=============================================================================
