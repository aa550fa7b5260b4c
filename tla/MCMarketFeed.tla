---------------------------- MODULE MCMarketFeed ----------------------------
(* MarketFeed with two contracts, the second added at any moment, and      *)
(* trades that are not in the order of their times.                        *)
EXTENDS MarketFeed, TLC

TradeTimes == <<2, 1, 3>>

Symmetry == Permutations(Symbols)
=============================================================================
