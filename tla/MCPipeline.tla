----------------------------- MODULE MCPipeline -----------------------------
(* Two processes per exchange, the second a restart of the first, for TLC. *)
EXTENDS Pipeline, TLC

CONSTANTS binance, binance2, bitmex, bitmex2

MCPipes == {binance, binance2, bitmex, bitmex2}
MCIdOf  == [c \in MCPipes |-> IF c \in {binance, binance2} THEN 1 ELSE 2]

\* The two processes of an exchange are interchangeable.
MCSymmetry == Permutations({binance, binance2}) \cup Permutations({bitmex, bitmex2})

MCStops == [k \in Kinds |-> IF k = "strategy" THEN 0 ELSE 2]

\* One process per exchange, for liveness.
MCPair   == {binance, bitmex}
MCPairId == [c \in MCPair |-> IF c = binance THEN 1 ELSE 2]
MCPairStops == [k \in Kinds |-> IF k = "strategy" THEN 2 ELSE 1]
=============================================================================
