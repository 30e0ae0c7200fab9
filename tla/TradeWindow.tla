---------------------------- MODULE TradeWindow ----------------------------
(***************************************************************************)
(* What CircularQueue (aggregator.cpp) promises to its two threads, with   *)
(* counters in the place of the modular indices: a log of accepted trades  *)
(* of which a prefix has been collected.  At most Capacity trades wait     *)
(* between the two; a trade that finds the window full is dropped, and is  *)
(* dropped for no other reason.                                            *)
(***************************************************************************)
EXTENDS Integers, Sequences

CONSTANTS Trades,    \* the trades that can be offered
          Capacity   \* size - 1: "there'll always be one empty slot"

VARIABLES log,       \* the accepted trades, oldest first
          collected, \* how many of them have been collected
          dropped    \* how many trades were refused

vars == <<log, collected, dropped>>

Waiting == Len(log) - collected

Init == /\ log = <<>>
        /\ collected = 0
        /\ dropped = 0

Accept(t) == /\ Waiting < Capacity
             /\ log' = Append(log, t)
             /\ UNCHANGED <<collected, dropped>>

Drop == /\ Waiting = Capacity
        /\ dropped' = dropped + 1
        /\ UNCHANGED <<log, collected>>

\* The collector may take less than what is there when it finishes: trades go
\* on arriving between its read of `end` and its write of `start`.
Collect(n) == /\ n \in collected .. Len(log)
              /\ collected' = n
              /\ UNCHANGED <<log, dropped>>

Next == \/ \E t \in Trades : Accept(t)
        \/ Drop
        \/ \E n \in 0 .. Len(log) : Collect(n)

Spec == Init /\ [][Next]_vars
=============================================================================
