---------------------------- MODULE MCOrderBook ----------------------------
(* OrderBook with two price levels that the changes set in turns.          *)
EXTENDS OrderBook

CONSTANTS l1, l2

MCLevelOf == [i \in 1..MaxChanges |-> IF i % 3 = 0 THEN l2 ELSE l1]
=============================================================================
