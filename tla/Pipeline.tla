------------------------------ MODULE Pipeline ------------------------------
(***************************************************************************)
(* The aggregation pipeline as the Makefile starts it: one aggregator      *)
(* process per exchange, the aligner, and a strategy.  Each aggregator is  *)
(* the tick stream of TickSource, which Aggregator implements; the aligner *)
(* is the process of Aligner, action for action.                           *)
(*                                                                         *)
(* Nothing is persisted and nothing supervises the processes: any of them  *)
(* may be stopped and started by hand (make stop, make run) while the      *)
(* others go on.  A process that dies takes with it what it had queued to  *)
(* send and what it had received and not handled.  An aggregator process   *)
(* is a pipe of Aligner; a restarted one is another pipe of the same       *)
(* exchange.  The unit of time is the aggregation interval, so that        *)
(* get_closest_tp at time now is now + 1.                                  *)
(***************************************************************************)
EXTENDS Aligner

CONSTANT MaxStops   \* bounds on `stops`

Kinds == {"aggregator", "aligner", "strategy"}

ASSUME PipelineAssumption == MaxStops \in [Kinds -> Nat]

VARIABLES now,    \* system clock, common to all processes
          state,  \* per pipe: the aggregator is "idle", "up" or "down"
          stops   \* aggregators and strategies stopped, aligners replaced, so far

envVars == <<now, state, stops>>
pipelineVars == <<alignerVars, envVars>>

Stop(k) == stops[k] < MaxStops[k] /\ stops' = [stops EXCEPT ![k] = @ + 1]

\* What is left of a queue when its sender, or its receiver, dies.
Prefixes(q) == {SubSeq(q, 1, n) : n \in 0 .. Len(q)}
Suffixes(q) == {SubSeq(q, n, Len(q)) : n \in 1 .. Len(q) + 1}
-----------------------------------------------------------------------------
PipelineInit ==
  /\ t0 = [c \in Pipes |-> 0] /\ next = t0
  /\ chan = [c \in Pipes |-> <<>>]
  /\ tickMap = EmptyMap /\ pc = "recv" /\ ts = 0
  /\ peer = FALSE /\ out = <<>> /\ delivered = <<>>
  /\ now = 0 /\ state = [c \in Pipes |-> "idle"] /\ stops = [k \in Kinds |-> 0]

\* Two aggregators of one exchange never run together: both bind its port.
StartAggregator(c) ==
  /\ state[c] = "idle"
  /\ \A d \in Pipes : IdOf[d] = IdOf[c] => state[d] # "up"
  /\ now < MaxStamp
  /\ state' = [state EXCEPT ![c] = "up"]
  /\ t0' = [t0 EXCEPT ![c] = now + 1]
  /\ next' = [next EXCEPT ![c] = now + 1]
  /\ UNCHANGED <<chan, mapVars, downVars, now, stops>>

\* send_every: the first tick is sent at once, the others when they are due.
DueAnyTime(c) == TRUE
Due(c) == next[c] = t0[c] \/ next[c] <= now

SendTick(c, p) ==
  /\ state[c] = "up"
  /\ Due(c)
  /\ Arrive(c, p)
  /\ UNCHANGED envVars

\* An aggregator stops (or is terminated by an exception in its main thread):
\* the newest of its ticks may not have left it.
StopAggregator(c) ==
  /\ state[c] = "up"
  /\ Stop("aggregator")
  /\ state' = [state EXCEPT ![c] = "down"]
  /\ \E q \in Prefixes(chan[c]) : chan' = [chan EXCEPT ![c] = q]
  /\ UNCHANGED <<sourceVars, mapVars, downVars, now>>

AlignerStep ==
  /\ \/ \E c \in Pipes : RecvTick(c)
     \/ SendAligned
     \/ StrategyConnect
     \/ StrategyRecv
  /\ UNCHANGED envVars

StopAligner ==
  /\ Alive
  /\ tickMap' = EmptyMap /\ pc' = "terminated"
  /\ UNCHANGED <<sourceVars, chan, ts, downVars, envVars>>

\* A new aligner: an empty map, and the aggregators and the strategy connect
\* again.  The oldest ticks of a running aggregator, and all of a stopped one,
\* were in the memory of the old aligner; so were the newest aligned ticks.
RestartAligner ==
  /\ ~Alive
  /\ Stop("aligner")
  /\ pc' = "recv"
  /\ \E f \in [Pipes -> UNION {Suffixes(chan[c]) : c \in Pipes}] :
       /\ \A c \in Pipes : IF state[c] = "up" THEN f[c] \in Suffixes(chan[c])
                                              ELSE f[c] = <<>>
       /\ chan' = f
  /\ out' \in Prefixes(out)
  /\ peer' = FALSE
  /\ UNCHANGED <<sourceVars, tickMap, ts, delivered, now, state>>

\* The strategy goes away: the pipe to it goes too, with what it holds.
StopStrategy ==
  /\ peer
  /\ Stop("strategy")
  /\ peer' = FALSE
  /\ out' = <<>>
  /\ UNCHANGED <<sourceVars, chan, mapVars, delivered, now, state>>

ClockTick ==
  /\ now < MaxStamp
  /\ now' = now + 1
  /\ UNCHANGED <<alignerVars, state, stops>>

PipelineNext ==
  \/ \E c \in Pipes : \/ StartAggregator(c)
                      \/ StopAggregator(c)
                      \/ \E p \in {<<c, next[c]>>, Null} : SendTick(c, p)
  \/ AlignerStep
  \/ StopAligner
  \/ RestartAligner
  \/ StopStrategy
  \/ ClockTick

PipelineSpec == PipelineInit /\ [][PipelineNext]_pipelineVars

\* The processes that run are scheduled; a strategy is eventually connected
\* and receives.  Nobody need restart anything.
PipelineFairSpec ==
  /\ PipelineSpec
  /\ \A c \in Pipes :
       /\ WF_pipelineVars(\E p \in {<<c, next[c]>>, Null} : SendTick(c, p))
       /\ WF_pipelineVars(RecvTick(c) /\ UNCHANGED envVars)
  /\ WF_pipelineVars(SendAligned /\ UNCHANGED envVars)
  /\ WF_pipelineVars(StrategyConnect /\ UNCHANGED envVars)
  /\ WF_pipelineVars(StrategyRecv /\ UNCHANGED envVars)
  /\ WF_pipelineVars(ClockTick)
-----------------------------------------------------------------------------
\* What the pairs of aligned ticks were made of.
PipeOf(i, s) == delivered[i].prices[s][1]

\* aligner.cpp:76-99 sends a stamp a second time only if both aggregators were
\* restarted within the interval it closes: each exchange then has two
\* processes whose first tick, sent ahead of its time, carries that stamp.
RedeliveryNeedsRestarts ==
  \A i, j \in DOMAIN delivered :
    (i < j /\ delivered[i].T = delivered[j].T) =>
      \A s \in Sources : \E c, d \in Pipes :
        /\ c # d /\ IdOf[c] = s /\ IdOf[d] = s
        /\ t0[c] = delivered[i].T /\ t0[d] = delivered[i].T

\* The strategy's stream goes back in time, or stands still, only where it
\* passes from one aggregator process to another: whatever the aligner lost or
\* received late, two pairs of the same two processes come in increasing order.
OrderWithinProcesses ==
  \A i, j \in DOMAIN delivered :
    (i < j /\ delivered[i].T >= delivered[j].T) =>
      \E s \in Sources : PipeOf(i, s) # PipeOf(j, s)

\* An aggregator of each exchange runs that was started before T.
Covered(T) == \E c, d \in Pipes :
                /\ IdOf[c] = 1 /\ state[c] = "up" /\ t0[c] <= T
                /\ IdOf[d] = 2 /\ state[d] = "up" /\ t0[d] <= T
Undisturbed == Alive /\ stops["aggregator"] = 0 /\ stops["aligner"] = 0

\* Two aggregators that both run, and cover instant T, get it delivered once T
\* has passed, however long the strategy was away and the sockets were full:
\* blocking at the high-water mark delays ticks and loses none.  Only the end
\* of an aggregator or of the aligner releases from this.
EveryCommonTickDelivered ==
  \A T \in 1 .. MaxStamp :
    (Covered(T) /\ T <= now)
      ~> (~Undisturbed \/ \E i \in DOMAIN delivered : delivered[i].T = T)
=============================================================================
