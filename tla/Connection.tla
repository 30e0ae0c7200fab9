----------------------------- MODULE Connection -----------------------------
(***************************************************************************)
(* The websocket connection of the provider: websocketpp::connection as a  *)
(* client over transport/asio and TLS, from c.connect(con) to the return   *)
(* of c.run().  One action per completion handler.                         *)
(*                                                                         *)
(* The server may do anything: answer or not, well or badly, send frames   *)
(* in any order and number up to a bound, stop reading, hang up.  Payloads,*)
(* headers and close codes are left out, and m_ec with the other error     *)
(* codes, which reach nothing but the log; a read delivers whole frames.   *)
(***************************************************************************)
EXTENDS EventLoop, FiniteSets

CONSTANTS MaxFrames,   \* bound: frames the server sends
          MaxRefused,  \* the same for a server whose extensions are refused
          MaxBatch     \* bound: frames that arrive in one read

ASSUME ConnectionAssumption ==
  MaxFrames \in Nat /\ MaxRefused \in Nat /\ MaxBatch \in Nat \ {0}

\* "noise" is a text message that is not JSON, "badClose" a close frame with an
\* invalid code or reason, "violation" what consume() reports an error for.
Texts == {"json", "noise"}
Closes == {"close", "badClose", "violation"}
Frames == Texts \cup {"ping"} \cup Closes
MaxCloses == 2  \* bound: as many of them as there are close timers

VARIABLES
  state,     \* m_state
  istate,    \* m_internal_state
  hsTimer,   \* m_handshake_timer: the timer it points to, or "none"
  sendQ,     \* m_send_queue: "pong", "close" or, flagged terminal, "lastClose"
  current,   \* m_current_msgs
  writeFlag, \* m_write_flag
  stream,    \* the frames read from the server so far
  used,      \* how many of them handle_read_frame has consumed or dropped
  received,  \* positions in stream of the messages given to the handler
  wire,      \* frames written to the socket
  why,       \* per shutdown of the transport: the terminate_status it is bound to
  ended      \* the handlers handle_terminate called, by terminate_status

sessionVars == <<state, istate, hsTimer, why, ended>>
writeVars == <<sendQ, current, writeFlag, wire>>
readVars == <<stream, used, received>>
connectionVars == <<loopVars, sessionVars, writeVars, readVars>>

\* What async_connect leaves behind: resolving, and a timer on it.
Init ==
  /\ pending = [op \in Ops |-> IF op = "resolve" THEN 1 ELSE 0]
  /\ timer = [t \in Timers |-> IF t = "dns" THEN "armed" ELSE "off"]
  /\ cancelled = {} /\ ready = <<>> /\ pc = "loop"
  /\ state = "connecting" /\ istate = "USER_INIT"
  /\ hsTimer = "none" /\ why = <<>> /\ ended = <<>>
  /\ sendQ = <<>> /\ current = <<>> /\ writeFlag = FALSE /\ wire = <<>>
  /\ stream = <<>> /\ used = 0 /\ received = <<>>

\* A handler that runs to its end without consuming frames.
Handler(h, r) == Runs(h, r) /\ ready' = Tail(ready) /\ UNCHANGED <<pc, readVars>>
-----------------------------------------------------------------------------
\* The two shutdowns a connection can come to: a refused one is terminated again.
Shutdown == <<"shutdown1", "shutdown2">>
Shutdowns == {"shutdown1", "shutdown2"}
Stop == <<"stop1", "stop2">>
Nth == IF why = <<>> THEN 1 ELSE 2

\* Mutant: no test for a connection that was terminated before.
TerminatedTwice(tm) ==
  LET cancelledToo == IF hsTimer = "none" THEN tm ELSE Stopped(tm, hsTimer)
  IN /\ hsTimer' = "none"
     /\ timer' = Armed(cancelledToo, Stop[Nth])
     /\ pending' = Issue(Shutdown[Nth])
     /\ why' = Append(why, IF state = "connecting" THEN "failed" ELSE "closed")
     /\ UNCHANGED ended

\* connection::terminate by a handler that has brought the timers to tm, but for
\* the state it leaves: it starts a shutdown of the transport, under a timer of
\* its own, unless the connection is closed already.
Terminated(tm) ==
  LET cancelledToo == IF hsTimer = "none" THEN tm ELSE Stopped(tm, hsTimer)
  IN /\ hsTimer' = "none"
     /\ IF state = "closed"
          THEN timer' = cancelledToo /\ UNCHANGED <<pending, why>>
          ELSE /\ timer' = Armed(cancelledToo, Stop[Nth])
               /\ pending' = Issue(Shutdown[Nth])
               /\ why' = Append(why, IF state = "connecting" THEN "failed" ELSE "closed")
     /\ UNCHANGED ended

terminate(tm) == Terminated(tm) /\ state' = "closed" /\ UNCHANGED istate

Ignore(h, r) ==
  /\ Handler(h, r)
  /\ UNCHANGED <<pending, cancelled, timer, sessionVars, writeVars>>

Fails(h, r) ==
  /\ Handler(h, r)
  /\ terminate(timer)
  /\ UNCHANGED <<cancelled, writeVars>>

\* What an operation that failed is told.
Failures == {"error", "aborted"}
-----------------------------------------------------------------------------
\* Resolving, connecting, the TLS handshake and the shutdowns, each under a timer.
\* A handler that finds its timer expired, or its operation aborted, leaves the
\* failure to the timer's handler.
Guard == [resolve |-> "dns", connect |-> "con", tls |-> "post",
          shutdown1 |-> "stop1", shutdown2 |-> "stop2"]
Attempts == {"resolve", "connect", "tls"}

TooLate(op) ==
  \E r \in {"ok", "done"} \cup Failures :
    (r = "aborted" \/ is_neg(Guard[op])) /\ Ignore(op, r)

\* The next operation is issued, under the next timer.
GoesOn(op, next) ==
  /\ ~is_neg(Guard[op])
  /\ Handler(op, "ok")
  /\ pending' = Issue(next)
  /\ UNCHANGED <<cancelled, state, why, ended, writeVars>>

handle_resolve ==
  /\ GoesOn("resolve", "connect")
  /\ timer' = Armed(Stopped(timer, "dns"), "con")
  /\ UNCHANGED <<istate, hsTimer>>

handle_connect ==
  /\ GoesOn("connect", "tls")
  /\ timer' = Armed(Stopped(timer, "con"), "post")
  /\ istate' = "TRANSPORT_INIT"
  /\ UNCHANGED hsTimer

handle_transport_init ==
  /\ GoesOn("tls", "request")
  /\ timer' = Armed(Stopped(timer, "post"), "open")
  /\ istate' = "WRITE_HTTP_REQUEST"
  /\ hsTimer' = "open"

AttemptFails(op) ==
  /\ ~is_neg(Guard[op])
  /\ Handler(op, "error")
  /\ terminate(Stopped(timer, Guard[op]))
  /\ UNCHANGED <<cancelled, writeVars>>

\* Cancelling a resolver does not make it give up.
AttemptTimeout(op) ==
  /\ Handler(Guard[op], "expired")
  /\ cancelled' = IF op = "resolve" THEN cancelled ELSE cancel_socket
  /\ terminate(timer)
  /\ UNCHANGED writeVars

handle_resolve_timeout == AttemptTimeout("resolve")
handle_connect_timeout == AttemptTimeout("connect")
handle_post_init_timeout == AttemptTimeout("tls")
-----------------------------------------------------------------------------
\* The opening handshake.
handle_send_http_request ==
  /\ state = "connecting"
  /\ Handler("request", "ok")
  /\ istate' = "READ_HTTP_RESPONSE"
  /\ pending' = Issue("response")
  /\ UNCHANGED <<cancelled, timer, state, hsTimer, why, ended, writeVars>>

\* The headers are not complete: read on.
PartialResponse ==
  /\ state = "connecting"
  /\ Handler("response", "partial")
  /\ pending' = Issue("response")
  /\ UNCHANGED <<cancelled, timer, sessionVars, writeVars>>

BadResponse == state = "connecting" /\ Fails("response", "bad")

\* The connection is open; frames that came with the response are consumed.
handle_read_http_response ==
  /\ state = "connecting"
  /\ Runs("response", "data") /\ ready' = Tail(ready) /\ pc' = "frames"
  /\ timer' = IF hsTimer = "none" THEN timer ELSE Stopped(timer, hsTimer)
  /\ hsTimer' = "none"
  /\ istate' = "PROCESS_CONNECTION"
  /\ state' = "open"
  /\ UNCHANGED <<pending, cancelled, why, ended, writeVars, readVars>>

\* The response is valid but for its extensions.  The connection is terminated,
\* and opens all the same: nothing returns after the call of terminate.
NegotiationFails ==
  /\ state = "connecting"
  /\ Runs("response", "badExtensions") /\ ready' = Tail(ready) /\ pc' = "frames"
  /\ Terminated(timer)
  /\ istate' = "PROCESS_CONNECTION"
  /\ state' = "open"
  /\ UNCHANGED <<cancelled, writeVars, readVars>>

\* The extensions were refused: terminated, but open then or later.
Refused == istate = "PROCESS_CONNECTION" /\ why # <<>> /\ why[1] = "failed"

HandshakeEnds ==
  \/ \E h \in {"request", "response"}, r \in Failures : Fails(h, r)
  \/ state # "closed" /\ Fails("response", "eof")
  \/ /\ state = "closed"
     /\ \/ Ignore("request", "ok")
        \/ \E r \in {"partial", "bad", "badExtensions", "data", "eof"} :
             Ignore("response", r)

handle_open_handshake_timeout == Fails("open", "expired")
-----------------------------------------------------------------------------
\* Frames: handle_read_frame consumes one after the other what was read.
handle_read_frame ==
  /\ Runs("read", "data")
  /\ ready' = Tail(ready) /\ pc' = "frames"
  /\ UNCHANGED <<pending, cancelled, timer, sessionVars, writeVars, readVars>>

\* The peer hangs up: expected once closing (by a client) or closed.
ReadEof ==
  \/ state = "closed" /\ Ignore("read", "eof")
  \/ state = "closing" /\ Fails("read", "eof")
  \/ state = "open" /\ Fails("read", "eof")

ReadError == \E r \in Failures : Fails("read", r)

Consume(kinds) ==
  /\ pc = "frames" /\ used < Len(stream) /\ stream[used + 1] \in kinds
  /\ used' = used + 1
  /\ UNCHANGED <<pc, stream, pending, cancelled>>

\* Mutant: messages are delivered until the connection is closed.
DataMessageClosing ==
  /\ state # "closed" /\ Consume(Texts)
  /\ received' = Append(received, used')
  /\ UNCHANGED <<timer, ready, sessionVars, writeVars>>

\* A data message is given to the message handler, or dropped if not open.
DataMessage ==
  /\ state = "open" /\ Consume(Texts)
  /\ received' = Append(received, used')
  /\ UNCHANGED <<timer, ready, sessionVars, writeVars>>

\* Data or a ping when closing or closed.
DropFrame ==
  /\ state # "open"
  /\ Consume(Texts \cup {"ping"} \cup IF state = "closed" THEN {"close", "badClose"} ELSE {})
  /\ UNCHANGED <<received, timer, ready, sessionVars, writeVars>>

\* write_push, and a dispatch of write_frame unless a write is outstanding.
Send(m) ==
  /\ sendQ' = Append(sendQ, m)
  /\ ready' = IF writeFlag THEN ready ELSE Append(ready, <<"write_frame", "post">>)
  /\ UNCHANGED <<current, writeFlag, wire>>

\* Mutant: pings are answered while closing too.
pongClosing ==
  /\ state # "closed" /\ Consume({"ping"})
  /\ Send("pong")
  /\ UNCHANGED <<received, timer, sessionVars>>

pong ==
  /\ state = "open" /\ Consume({"ping"})
  /\ Send("pong")
  /\ UNCHANGED <<received, timer, sessionVars>>

\* Mutant: the close handshake is not timed.
send_close_frameUntimed(m) ==
  /\ Send(m)
  /\ state' = "closing"
  /\ UNCHANGED <<timer, hsTimer, istate, why, ended, received>>

\* m_handshake_timer points to the new timer, whatever it pointed to.
send_close_frame(m) ==
  /\ Send(m)
  /\ state' = "closing"
  /\ hsTimer' = IF timer["close1"] = "off" THEN "close1" ELSE "close2"
  /\ timer' = Armed(timer, hsTimer')
  /\ UNCHANGED <<istate, why, ended, received>>

send_close_ack ==
  \/ state = "open" /\ Consume({"close"}) /\ send_close_frame("close")
  \/ state \in {"open", "closing"} /\ Consume({"badClose"}) /\ send_close_frame("close")

\* The acknowledgement of our close, or a spurious close frame.
CloseAcked ==
  /\ state = "closing" /\ Consume({"close"})
  /\ UNCHANGED <<received, timer, ready, sessionVars, writeVars>>

\* consume() reports an error: the rest of what was read is dropped and nothing
\* more is read.  Only an open connection can say why it closes.
ProtocolError ==
  /\ pc = "frames" /\ used < Len(stream) /\ stream[used + 1] = "violation"
  /\ pc' = "loop" /\ used' = Len(stream)
  /\ IF state = "open"
       THEN send_close_frame("lastClose") /\ UNCHANGED pending
       ELSE terminate(timer) /\ UNCHANGED <<ready, received, writeVars>>
  /\ UNCHANGED <<stream, cancelled>>

read_frame ==
  /\ pc = "frames" /\ used = Len(stream)
  /\ pc' = "loop"
  /\ pending' = Issue("read")
  /\ UNCHANGED <<cancelled, timer, ready, sessionVars, writeVars, readVars>>

handle_close_handshake_timeout ==
  \E t \in {"close1", "close2"} : Fails(t, "expired")
-----------------------------------------------------------------------------
\* What is popped from the queue: everything, or up to a terminal message.
Popped(n) == /\ \A k \in 1 .. n - 1 : sendQ[k] # "lastClose"
             /\ n = Len(sendQ) \/ sendQ[n] = "lastClose"

\* Mutant: the write flag is not set.
StartWriteUnflagged ==
  \E n \in 1 .. Len(sendQ) :
    /\ Popped(n)
    /\ current' = SubSeq(sendQ, 1, n)
    /\ sendQ' = SubSeq(sendQ, n + 1, Len(sendQ))
    /\ pending' = Issue("write")
    /\ UNCHANGED <<writeFlag, wire>>

StartWrite ==
  \E n \in 1 .. Len(sendQ) :
    /\ Popped(n)
    /\ current' = SubSeq(sendQ, 1, n)
    /\ sendQ' = SubSeq(sendQ, n + 1, Len(sendQ))
    /\ writeFlag' = TRUE
    /\ pending' = Issue("write")
    /\ UNCHANGED wire

write_frame ==
  /\ Handler("write_frame", "post")
  /\ IF writeFlag \/ sendQ = <<>> THEN UNCHANGED <<pending, writeVars>> ELSE StartWrite
  /\ UNCHANGED <<cancelled, timer, sessionVars>>

\* The write flag stays set when the write failed or was the last.
handle_write_frame(r) ==
  /\ Runs("write", r) /\ UNCHANGED <<pc, readVars, cancelled, sendQ>>
  /\ current' = <<>>
  /\ wire' = IF r = "ok" THEN wire \o current ELSE wire
  /\ IF r \in Failures \/ current[Len(current)] = "lastClose"
       THEN /\ terminate(timer)
            /\ ready' = Tail(ready)
            /\ UNCHANGED writeFlag
       ELSE /\ writeFlag' = FALSE
            /\ ready' = IF sendQ = <<>> THEN Tail(ready)
                        ELSE Append(Tail(ready), <<"write_frame", "post">>)
            /\ UNCHANGED <<pending, timer, sessionVars>>
-----------------------------------------------------------------------------
\* The end: the transport is shut down, or that takes too long.
handle_terminate(n) ==
  /\ ended' = Append(ended, why[n])
  /\ UNCHANGED <<state, istate, hsTimer, why, pending, writeVars>>

\* Mutant: an expired timer is not left to its own handler.
handle_async_shutdownLate(n) ==
  /\ Handler(Shutdown[n], "done")
  /\ timer' = Stopped(timer, Stop[n])
  /\ handle_terminate(n)
  /\ UNCHANGED cancelled

handle_async_shutdown(n) ==
  /\ ~is_neg(Stop[n])
  /\ Handler(Shutdown[n], "done")
  /\ timer' = Stopped(timer, Stop[n])
  /\ handle_terminate(n)
  /\ UNCHANGED cancelled

\* Mutant: the socket is cancelled and nobody called back.
handle_async_shutdown_timeoutMute(n) ==
  /\ Handler(Stop[n], "expired")
  /\ cancelled' = cancel_socket
  /\ UNCHANGED <<timer, pending, sessionVars, writeVars>>

handle_async_shutdown_timeout(n) ==
  /\ Handler(Stop[n], "expired")
  /\ cancelled' = cancel_socket
  /\ handle_terminate(n)
  /\ UNCHANGED timer
-----------------------------------------------------------------------------
\* The kernel, OpenSSL and the server.
Elsewhere == UNCHANGED <<sessionVars, writeVars>>

\* A shutdown is done with or without an error (then, it may be, before a read
\* that is outstanding): which of the two, only the log is told.
OpCompletes(op) ==
  /\ \E r \in {"aborted"} \cup IF op \in Shutdowns THEN {"done"} ELSE {"ok", "error"} :
       Complete(op, r)
  /\ UNCHANGED readVars /\ Elsewhere

\* A read ends without a frame.
NoFrame(op) ==
  /\ \E r \in {"eof"} \cup Failures \cup IF op = "response" THEN {"partial", "bad"} ELSE {} :
       Complete(op, r)
  /\ UNCHANGED readVars /\ Elsewhere

\* At most n of them, not more close frames than there are timers for.
Admissible(s, n) ==
  /\ Len(s) <= n
  /\ Cardinality({k \in DOMAIN s : s[k] \in Closes}) <= MaxCloses

Batches == UNION {[1 .. n -> Frames] : n \in 0 .. MaxBatch}

\* A read, told r, brings frames after which the server has sent at most n.
Arrive(op, r, n) ==
  /\ Complete(op, r)
  /\ \E b \in Batches : /\ b # <<>> \/ op = "response"
                        /\ Admissible(stream \o b, n)
                        /\ stream' = stream \o b
  /\ UNCHANGED <<used, received>> /\ Elsewhere

FramesArrive(op) ==
  \/ Arrive(op, "data", IF Refused THEN MaxRefused ELSE MaxFrames)
  \/ op = "response" /\ Arrive(op, "badExtensions", MaxRefused)

ReadCompletes(op) == NoFrame(op) \/ FramesArrive(op)
TimerExpires(t) == Expire(t) /\ UNCHANGED readVars /\ Elsewhere
RunReturns == Return /\ UNCHANGED readVars /\ Elsewhere

Completions ==
  \/ \E op \in Ops \ {"response", "read"} : OpCompletes(op)
  \/ \E op \in {"response", "read"} : ReadCompletes(op)
  \/ \E t \in Timers : TimerExpires(t)

\* The handlers, all but the one that calls into the program.
Handlers ==
  \/ handle_resolve \/ handle_connect \/ handle_transport_init
  \/ \E op \in Attempts : AttemptFails(op)
  \/ handle_resolve_timeout \/ handle_connect_timeout \/ handle_post_init_timeout
  \/ \E op \in DOMAIN Guard : TooLate(op)
  \/ handle_send_http_request \/ PartialResponse \/ BadResponse
  \/ handle_read_http_response \/ NegotiationFails \/ HandshakeEnds
  \/ handle_open_handshake_timeout
  \/ handle_read_frame \/ ReadEof \/ ReadError
  \/ DropFrame \/ pong \/ send_close_ack \/ CloseAcked \/ ProtocolError \/ read_frame
  \/ handle_close_handshake_timeout
  \/ write_frame \/ \E r \in {"ok"} \cup Failures : handle_write_frame(r)
  \/ \E n \in DOMAIN why : handle_async_shutdown(n) \/ handle_async_shutdown_timeout(n)

Next == Completions \/ Handlers \/ DataMessage \/ RunReturns

Spec == Init /\ [][Next]_connectionVars

\* Handlers run, timers expire, a cancelled operation fails and a resolver gives
\* up; nothing else is owed, and least of all by the server.
Owed(op) == op = "resolve" \/ op \in cancelled

FairSpec ==
  /\ Spec
  /\ WF_connectionVars(Handlers \/ DataMessage)
  /\ WF_connectionVars(RunReturns)
  /\ \A t \in Timers : WF_connectionVars(TimerExpires(t))
  /\ \A op \in Ops \ {"response", "read"} : WF_connectionVars(Owed(op) /\ OpCompletes(op))
  /\ \A op \in {"response", "read"} : WF_connectionVars(Owed(op) /\ ReadCompletes(op))

\* A server that reads what it is sent.
ReadingSpec ==
  /\ FairSpec
  /\ \A op \in {"request", "write", "shutdown1", "shutdown2"} : WF_connectionVars(OpCompletes(op))
-----------------------------------------------------------------------------
Names == Ops \cup Timers \cup {"write_frame"}
Results == {"ok", "done", "error", "aborted", "eof", "data", "partial", "bad",
            "badExtensions", "expired", "post"}
Item == Names \X Results
Msgs == {"pong", "close", "lastClose"}
Stages == {"USER_INIT", "TRANSPORT_INIT", "WRITE_HTTP_REQUEST", "READ_HTTP_RESPONSE",
           "PROCESS_CONNECTION"}

TypeOK ==
  /\ pending \in [Ops -> 0 .. 1] /\ cancelled \subseteq Ops
  /\ timer \in [Timers -> {"off", "armed", "expired", "cancelled"}]
  /\ ready \in Seq(Item) /\ pc \in {"loop", "frames", "returned"}
  /\ state \in {"connecting", "open", "closing", "closed"} /\ istate \in Stages
  /\ hsTimer \in {"none", "open", "close1", "close2"}
  /\ sendQ \in Seq(Msgs) /\ current \in Seq(Msgs) /\ wire \in Seq(Msgs)
  /\ writeFlag \in BOOLEAN
  /\ stream \in Seq(Frames) /\ received \in Seq(Nat) /\ used \in 0 .. Len(stream)

QueuedIn(q, h) == \E n \in DOMAIN q : q[n][1] = h
Queued(h) == QueuedIn(ready, h)
\* h is queued once at most.
Sole(q, h) == \A m, n \in DOMAIN q : q[m][1] = h /\ q[n][1] = h => m = n
Outstanding(op) == pending[op] > 0 \/ Queued(op)

\* Each end is reported once, an established connection's only when it is closed.
\* Unless its extensions were refused, a connection has one end, and is closed then.
EndedOnce ==
  /\ \A j, k \in DOMAIN ended : j # k => ended[j] # ended[k]
  /\ \A k \in DOMAIN ended : ended[k] = "closed" \/ ~Refused => state = "closed"
  /\ ~Refused => Len(ended) <= 1

\* No operation is issued while another of its kind, or one that shares its
\* buffer (the request and the frames: m_bufs; the response and the frames:
\* m_buf), is outstanding; two shutdowns are after refused extensions only.
\* m_current_msgs holds messages exactly during a write.
OneAtATime ==
  /\ \A op \in Ops : (pending[op] = 1 => ~Queued(op)) /\ Sole(ready, op)
  /\ ~(Outstanding("request") /\ Outstanding("write"))
  /\ ~(Outstanding("response") /\ Outstanding("read"))
  /\ Outstanding("shutdown1") /\ Outstanding("shutdown2") => Refused
  /\ pc = "frames" => ~Outstanding("read")
  /\ Outstanding("write") <=> current # <<>>
  /\ current # <<>> => writeFlag

\* A connection that waits for the server is watched: a timer runs, or has
\* expired and is queued, whose handler ends the wait.  So is every end until it
\* is reported.
WatchedBy(t) == timer[t] = "armed" \/ Queued(t)
Watched ==
  /\ state = "connecting" =>
       \E t \in {"dns", "con", "post", "open"} : WatchedBy(t)
  /\ state = "closing" => \E t \in {"close1", "close2"} : WatchedBy(t)
  /\ \A n \in DOMAIN why :
       (\E k \in DOMAIN ended : ended[k] = why[n]) \/ WatchedBy(Stop[n])

Upto(kinds, n) == {k \in 1 .. n : stream[k] \in kinds}
Sent == wire \o current \o sendQ
PongsIn(s) == {i \in DOMAIN s : s[i] = "pong"}

\* Frames are answered in order up to the first that ends the open state: every
\* text is given to the program, once; every ping gets its pong, and nothing else one.
Answered ==
  \E n \in 0 .. used :
    /\ {received[k] : k \in DOMAIN received} = Upto(Texts, n)
    /\ \A j, k \in DOMAIN received : j < k => received[j] < received[k]
    /\ Upto(Closes, n) = {}
    /\ state = "open" => n = used
    /\ Cardinality(PongsIn(Sent)) <= Cardinality(Upto({"ping"}, n))
    /\ state \in {"open", "closing"} =>
         Cardinality(PongsIn(Sent)) = Cardinality(Upto({"ping"}, n))

\* Nothing but close frames follows a close frame.
CloseIsLast ==
  \A i, j \in DOMAIN Sent : i < j /\ Sent[i] # "pong" => Sent[j] # "pong"

S == INSTANCE Session
       WITH phase <- state, opened <- (istate = "PROCESS_CONNECTION"),
            refused <- Refused, heard <- Len(received), told <- ended

\* connection.hpp:51-79: the open and fail handlers, the close handler exactly
\* once, and no end of a connection for which nobody is told -- but that one whose
\* extensions are refused both opens and fails.
KeepsPromise == S!SessionSpec

\* connection.hpp:54, 74: "Either the fail handler or the open handler will be
\* called for each WebSocket connection attempt", not both.
OpensOrFails ==
  ~(istate = "PROCESS_CONNECTION" /\ \E k \in DOMAIN ended : ended[k] = "failed")

\* provider.cpp:249-250: "c.run() will exit when this connection is closed".
RunExitsWhenClosed == state = "closed" ~> pc = "returned"
=============================================================================
