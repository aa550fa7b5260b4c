---------------------------- MODULE FrameCounts ----------------------------
(* How many frames of given types a queue holds.                           *)
EXTENDS Naturals, Sequences, FiniteSets

Count(frames, types) == Cardinality({i \in DOMAIN frames : frames[i].type \in types})
=============================================================================
