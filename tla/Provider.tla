------------------------------ MODULE Provider ------------------------------
(***************************************************************************)
(* The provider process: main runs the event loop of Connection in its one *)
(* thread, and the message handler parses each message and pushes it to    *)
(* the aggregator.  The push blocks while the pipe is full, and with it    *)
(* the event loop.  A message that is not JSON ends the process.           *)
(***************************************************************************)
EXTENDS Connection

CONSTANTS Hwm,      \* messages the pipe to the aggregator holds
          MaxStops  \* bound: times the aggregator is stopped

ASSUME ProviderAssumption == Hwm \in Nat \ {0} /\ MaxStops \in Nat

VARIABLES outbox,   \* Pusher::sender's pipe: positions in stream
          arrived,  \* what the aggregator process received
          up,       \* an aggregator is bound to the port
          stopped   \* how often it was stopped

pusherVars == <<outbox, arrived, up, stopped>>
providerVars == <<connectionVars, pusherVars>>

ProviderInit ==
  Init /\ outbox = <<>> /\ arrived = <<>> /\ up \in BOOLEAN /\ stopped = 0

\* Mutant: a send that drops the message when the pipe is full.
on_messageDontWait ==
  /\ DataMessage
  /\ stream[used'] = "json"
  /\ outbox' = IF Len(outbox) < Hwm THEN Append(outbox, used') ELSE outbox
  /\ UNCHANGED <<arrived, up, stopped>>

\* Mutant: the pipe is full one message early.
on_messageShort ==
  /\ DataMessage
  /\ stream[used'] = "json"
  /\ Len(outbox) + 1 < Hwm
  /\ outbox' = Append(outbox, used')
  /\ UNCHANGED <<arrived, up, stopped>>

\* on_message of a JSON text: parse, dump, and a send that may block.
on_message ==
  /\ DataMessage
  /\ stream[used'] = "json"
  /\ Len(outbox) < Hwm
  /\ outbox' = Append(outbox, used')
  /\ UNCHANGED <<arrived, up, stopped>>

\* Mutant: the exception is caught, and the message is left out.
on_message_throwsCaught ==
  /\ DataMessage
  /\ stream[used'] = "noise"
  /\ UNCHANGED pusherVars

\* json::parse throws; main catches websocketpp::exception only, so the process
\* is terminated, with what the pipe still holds.
on_message_throws ==
  /\ state = "open" /\ pc = "frames" /\ used < Len(stream)
  /\ stream[used + 1] = "noise"
  /\ used' = used + 1
  /\ received' = Append(received, used')
  /\ pc' = "threw"
  /\ outbox' = <<>>
  /\ UNCHANGED <<pending, cancelled, timer, ready, sessionVars, writeVars, stream,
                 arrived, up, stopped>>

\* zmq's own thread; it goes on after main has returned, until the pipe is empty.
Transfer ==
  /\ up /\ outbox # <<>>
  /\ arrived' = Append(arrived, Head(outbox))
  /\ outbox' = Tail(outbox)
  /\ UNCHANGED <<connectionVars, up, stopped>>

AggregatorStarts ==
  /\ ~up /\ up' = TRUE
  /\ UNCHANGED <<connectionVars, outbox, arrived, stopped>>

\* Messages on their way to an aggregator that stops are lost.
AggregatorStops ==
  /\ up /\ stopped < MaxStops
  /\ up' = FALSE /\ stopped' = stopped + 1
  /\ \E n \in 1 .. Len(outbox) + 1 : outbox' = SubSeq(outbox, n, Len(outbox))
  /\ UNCHANGED <<connectionVars, arrived>>

Steps == (Completions \/ Handlers) /\ UNCHANGED pusherVars

ProviderNext ==
  \/ Steps \/ on_message \/ on_message_throws
  \/ RunReturns /\ UNCHANGED pusherVars
  \/ Transfer \/ AggregatorStarts \/ AggregatorStops

ProviderSpec == ProviderInit /\ [][ProviderNext]_providerVars

\* The program's own steps, and an aggregator that is there and receives.
ProviderFairSpec ==
  /\ ProviderSpec
  /\ WF_providerVars((Handlers /\ UNCHANGED pusherVars) \/ on_message \/ on_message_throws)
  /\ SF_providerVars(Transfer)
  /\ WF_providerVars(AggregatorStarts)
-----------------------------------------------------------------------------
Feed == arrived \o outbox
Items(q) == {q[i] : i \in DOMAIN q}
Fed == Items(arrived) \cup Items(outbox)

\* What is fed is JSON, each message once, in the order of the stream.
FeedOrdered ==
  /\ \A i, j \in DOMAIN Feed : i < j => Feed[i] < Feed[j]
  /\ \A i \in DOMAIN Feed : stream[Feed[i]] = "json"

\* The program was given what it fed, and passed over no JSON message -- or, once
\* it threw, none before a message that reached the aggregator.
FeedComplete ==
  /\ Fed \subseteq Items(received)
  /\ stopped = 0 =>
       \A k \in Items(received) :
         /\ stream[k] = "json"
         /\ pc = "threw" => \E l \in Fed : k <= l
         => k \in Fed

\* provider.cpp:41-45: the aggregator gets the trades in the order the server
\* sent them, none twice; and all of them, unless it was stopped itself or a
\* message that is not JSON ended the provider.
FeedInOrder == FeedOrdered /\ FeedComplete

\* provider.cpp:43: what is not JSON is the last message the program ever sees.
ThrowsOnNoise ==
  \A n \in DOMAIN received :
    stream[received[n]] = "noise" <=> (n = Len(received) /\ pc = "threw")

\* provider.cpp:35: a push that blocks holds up the whole event loop, the answers
\* to pings and the timers; while an aggregator is there in the end, never for ever.
LoopReleased == pc = "frames" ~> pc # "frames"
=============================================================================
