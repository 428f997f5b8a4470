------------------------------ MODULE MCLogin ------------------------------
(* Instance of Login for TLC.  Connections, addresses, names and numbers are *)
(* interchangeable.                                                          *)
EXTENDS Login, TLC

LoginSymmetry == Permutations(Conn) \cup Permutations(Body) \cup Permutations(Name)
                   \cup Permutations(Id)
=============================================================================
