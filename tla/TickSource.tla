---------------------------- MODULE TickSource -----------------------------
(***************************************************************************)
(* What an aggregator process promises to the aligner: a stream of ticks   *)
(* stamped with consecutive multiples of the interval.  The first tick is  *)
(* sent as soon as the process starts; every later one is not sent before  *)
(* the time it is stamped with.  Nothing is promised about when a tick is  *)
(* sent at the latest, and a price may be null.                            *)
(***************************************************************************)
EXTENDS Integers, Sequences

CONSTANTS Interval, Prices, Hwm

VARIABLES now,    \* the system clock
          up,     \* is the process running?
          t0,     \* the stamp of the first tick of this process
          next,   \* the stamp of the next tick
          out     \* ticks sent and not yet received

vars == <<now, up, t0, next, out>>

Init == /\ now \in Nat
        /\ up = TRUE
        /\ t0 = next
        /\ next % Interval = 0
        /\ next \in now + 1 .. now + Interval
        /\ out = <<>>

Emit(p) == /\ up
           /\ next = t0 \/ next <= now
           /\ Len(out) < Hwm
           /\ out' = Append(out, [T |-> next, p |-> p])
           /\ next' = next + Interval
           /\ UNCHANGED <<now, up, t0>>

Receive == /\ out # <<>>
           /\ out' = Tail(out)
           /\ UNCHANGED <<now, up, t0, next>>

Tick == /\ now' = now + 1
        /\ UNCHANGED <<up, t0, next, out>>

Die == /\ up
       /\ up' = FALSE
       /\ UNCHANGED <<now, t0, next, out>>

Next == (\E p \in Prices : Emit(p)) \/ Receive \/ Tick \/ Die

Spec == Init /\ [][Next]_vars
=============================================================================
