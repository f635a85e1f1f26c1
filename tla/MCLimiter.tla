------------------------------ MODULE MCLimiter ------------------------------
(* Small instances of Limiter for TLC.                                     *)
EXTENDS Limiter

CONSTANTS o1, o2, o3

MCOps     == {o1, o2, o3}
MCTwoOps  == {o1, o2}
OneEach   == [t \in Tiers |-> 1]
=============================================================================
