---------------------------- MODULE MCCommands ----------------------------
(* An instance of Commands for TLC: three slots, five lines, one lag.      *)
EXTENDS Commands
=============================================================================
