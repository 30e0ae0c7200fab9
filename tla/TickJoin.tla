------------------------------ MODULE TickJoin ------------------------------
(***************************************************************************)
(* What the aligner promises to the strategy: the join, on their stamps,   *)
(* of the ticks received from two sources.  A stamp is delivered once,     *)
(* only after both sources have sent it, in increasing order, and no stamp *)
(* that could be delivered is passed over.                                 *)
(***************************************************************************)
EXTENDS Integers, Sequences

CONSTANTS Sources, Stamps

VARIABLES received,  \* source -> the stamps received from it
          delivered  \* the stamps delivered to the strategy, in order

vars == <<received, delivered>>

Joinable(r) == {T \in Stamps : \A s \in Sources : T \in r[s]}

Init == /\ received = [s \in Sources |-> {}]
        /\ delivered = <<>>

Receive(s, T) ==
  /\ T \notin received[s]
  /\ received' = [received EXCEPT ![s] = @ \cup {T}]
  /\ UNCHANGED delivered

Deliver(T) ==
  /\ T \in Joinable(received)
  /\ \A i \in DOMAIN delivered : delivered[i] < T
  /\ \A t \in Joinable(received) : t < T => \E i \in DOMAIN delivered : delivered[i] = t
  /\ delivered' = Append(delivered, T)
  /\ UNCHANGED received

Next == \/ \E s \in Sources, T \in Stamps : Receive(s, T)
        \/ \E T \in Joinable(received) : Deliver(T)

Spec == Init /\ [][Next]_vars
=============================================================================
