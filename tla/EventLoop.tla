----------------------------- MODULE EventLoop -----------------------------
(***************************************************************************)
(* The event loop of the websocket client: asio's io_service, run by one   *)
(* thread, as the transport of websocketpp (transport/asio) uses it.       *)
(*                                                                         *)
(* An operation is issued with a handler, completes at some time in the    *)
(* kernel or in OpenSSL, and its handler is queued; handlers run one after *)
(* the other, in queue order, each to its end.  The loop looks for         *)
(* completed operations and expired timers only between handlers.          *)
(*                                                                         *)
(* cancel() on a timer that has already been queued has no effect, and     *)
(* what was queued as expired runs as expired.  The handler of a timer     *)
(* cancelled in time only returns: it is not queued here.                  *)
(***************************************************************************)
EXTENDS Naturals, Sequences

Ops == {"resolve", "connect", "tls", "request", "response", "read", "write",
        "shutdown1", "shutdown2"}
Timers == {"dns", "con", "post", "open", "close1", "close2", "stop1", "stop2"}

VARIABLES pending,    \* per operation: how many are outstanding
          cancelled,  \* operations outstanding when the socket was cancelled
          timer,      \* per timer: "off", "armed", "expired" or "cancelled"
          ready,      \* handlers to run, oldest first: <<name, result>>
          pc          \* the thread: "loop", "frames" (in handle_read_frame),
                      \*   "returned" (from run), "threw" (out of run)

loopVars == <<pending, cancelled, timer, ready, pc>>

Issue(op) == [pending EXCEPT ![op] = @ + 1]
Armed(tm, t) == [tm EXCEPT ![t] = "armed"]
Stopped(tm, t) == [tm EXCEPT ![t] = IF @ = "armed" THEN "cancelled" ELSE @]
cancel_socket == {op \in Ops \ {"resolve"} : pending[op] > 0}
is_neg(t) == timer[t] = "expired"

\* Operation op completes; its handler will be told r, and of a cancelled
\* operation that it was aborted.
Complete(op, r) ==
  /\ pc = "loop"
  /\ pending[op] > 0
  /\ op \in cancelled <=> r = "aborted"
  /\ pending' = [pending EXCEPT ![op] = @ - 1]
  /\ cancelled' = cancelled \ {op}
  /\ ready' = Append(ready, <<op, r>>)
  /\ UNCHANGED <<timer, pc>>

Expire(t) ==
  /\ pc = "loop"
  /\ timer[t] = "armed"
  /\ timer' = [timer EXCEPT ![t] = "expired"]
  /\ ready' = Append(ready, <<t, "expired">>)
  /\ UNCHANGED <<pending, cancelled, pc>>

\* The handler h, told r, is at the head of the queue and starts.
Runs(h, r) == pc = "loop" /\ ready # <<>> /\ Head(ready) = <<h, r>>

Idle == /\ ready = <<>>
        /\ \A op \in Ops : pending[op] = 0
        /\ \A t \in Timers : timer[t] # "armed"

\* run() returns when no handler can ever become ready.
Return ==
  /\ pc = "loop"
  /\ Idle
  /\ pc' = "returned"
  /\ UNCHANGED <<pending, cancelled, timer, ready>>
=============================================================================
