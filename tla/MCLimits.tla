------------------------------ MODULE MCLimits ------------------------------
(* Instance of Limits for TLC.  Connections are interchangeable. *)
EXTENDS Limits, TLC

LimitsSymmetry == Permutations(Conn)
=============================================================================
