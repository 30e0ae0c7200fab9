----------------------------- MODULE MCAligner ------------------------------
(* One aggregator per exchange, for TLC. *)
EXTENDS Aligner

CONSTANTS binance, bitmex

MCPipes == {binance, bitmex}
MCIdOf  == [c \in MCPipes |-> IF c = binance THEN 1 ELSE 2]
=============================================================================
