-------------------------- MODULE MCOrderRequests ---------------------------
(* OrderRequests with orders in different contracts.                       *)
EXTENDS OrderRequests

CONSTANTS o1, s1, s2

Contracts == [o \in Orders |-> IF o = o1 THEN s1 ELSE s2]
=============================================================================
