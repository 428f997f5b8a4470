------------------------------- MODULE Lists -------------------------------
(* What is left of a list when elements are erased from it (std::list::erase, *)
(* on the owning lists): the others, in their order.  And what a walk along a *)
(* list makes of r, when body[r][e] is what its body makes of r at e.         *)
EXTENDS Naturals, Sequences

Without(s, gone) ==
    LET kept[i \in 0..Len(s)] == IF i = 0 THEN <<>>
                                 ELSE IF s[i] \in gone THEN kept[i - 1]
                                 ELSE Append(kept[i - 1], s[i])
    IN  kept[Len(s)]

After(body, r, s) ==
    LET reached[i \in 0..Len(s)] == IF i = 0 THEN r ELSE body[reached[i - 1]][s[i]]
    IN  reached[Len(s)]
=============================================================================
