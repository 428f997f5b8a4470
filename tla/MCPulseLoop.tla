---------------------------- MODULE MCPulseLoop ----------------------------
(* Instance of PulseLoop for TLC: the connections are model values.  They are *)
(* interchangeable, but the run checks liveness too, so no symmetry is used.  *)
EXTENDS PulseLoop
=============================================================================
