---------------------------- MODULE MCEventQueue ----------------------------
(* Instance of EventQueue for TLC: the timers are one refused value, one that
   means the next tick, and one that skips a tick. *)
EXTENDS EventQueue

MCTimers == {-1, 0, 2}
MCNamed == (SUBSET (Npc \cup Pc)) \ {{}}
=============================================================================
