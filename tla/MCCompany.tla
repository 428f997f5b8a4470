---------------------------- MODULE MCCompany ----------------------------
(* Instances of Company for TLC: players are alike, and so are mobiles.    *)
EXTENDS Company

CompanySymmetry == Permutations(Npc) \cup Permutations(Pc)
=============================================================================
