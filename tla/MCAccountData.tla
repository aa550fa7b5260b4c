---------------------------- MODULE MCAccountData ----------------------------
(* AccountData with two fills of before the start, the first of them of an *)
(* order that is not the gateway's, and one that changes the side of the   *)
(* position while the gateway runs.                                        *)
EXTENDS AccountData

SizesAfterFills == <<1, -1, 1>>
=============================================================================
