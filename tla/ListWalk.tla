------------------------------ MODULE ListWalk ------------------------------
(***************************************************************************)
(* Walking a global entity list while its entities come and go             *)
(* (code/entity/list_cursor.h).  char_list, object_list and                *)
(* descriptor_list are each one such list.  Every update pass and a great  *)
(* many commands walk them, the body of a walk may extract any entity, and *)
(* may run another walk inside the first.                                  *)
(*                                                                         *)
(* A node is the address of a list element, so an erased node can come     *)
(* back as a new element.  owed and visited are history: the elements a    *)
(* walk started with and has yet to reach, and those it has handed out.    *)
(***************************************************************************)
EXTENDS Naturals, SequencesExt

CONSTANTS Node,       \* addresses of list elements
          END,        \* list.end()
          MaxDepth    \* bound: walks in flight at once

VARIABLES list,       \* the elements, front to back
          walks       \* the walks in flight, innermost last

vars == <<list, walks>>

Walk == [current : Node \cup {END}, next : Node \cup {END},
         owed : SUBSET Node, visited : SUBSET Node]

Init == list = <<>> /\ walks = <<>>

-----------------------------------------------------------------------------
First == IF list = <<>> THEN END ELSE Head(list)

PositionOf(n) == CHOOSE i \in DOMAIN list : list[i] = n

\* std::next of a node on the list.
Successor(n) == IF PositionOf(n) = Len(list) THEN END ELSE list[PositionOf(n) + 1]

\* The elements from n to the end of the list.
From(n) == IF n = END THEN {} ELSE {list[i] : i \in PositionOf(n)..Len(list)}

\* Moves a walk onto n: the constructor, and Step.
Arrive(n, w) == [w EXCEPT !.current = n,
                          !.next    = IF n = END THEN END ELSE Successor(n),
                          !.owed    = @ \ {n},
                          !.visited = @ \cup ({n} \ {END})]

Done(w) == w.current = END

\* The code that may change the list: the body of the innermost walk, which
\* has an element in hand, or code outside any walk.
InBody == walks # <<>> => ~Done(Last(walks))

StartWalk == /\ InBody /\ Len(walks) < MaxDepth
             /\ LET w == [current |-> END, next |-> END, owed |-> ToSet(list), visited |-> {}]
                IN  walks' = Append(walks, Arrive(First, w))
             /\ UNCHANGED list

Step == /\ walks # <<>> /\ ~Done(Last(walks))
        /\ LET w == Last(walks)
           IN  walks' = Append(Front(walks), Arrive(w.next, w))
        /\ UNCHANGED list

\* The loop ends, or breaks or returns early: the destructor unregisters.
EndWalk == /\ walks # <<>>
           /\ walks' = Front(walks)
           /\ UNCHANGED list

\* Characters and objects enter at the front, descriptors at the back.
PushFront(n) == /\ InBody /\ n \notin ToSet(list)
                /\ list' = <<n>> \o list
                /\ UNCHANGED walks

PushBack(n) == /\ InBody /\ n \notin ToSet(list)
               /\ list' = Append(list, n)
               /\ UNCHANGED walks

\* Faults for the run's mutants: only the innermost walk is advanced, which is
\* what the d_next global amounted to; the walk is advanced onto the end, or onto
\* the front.
AdvanceInnermost(n, i) ==
    [walks[i] EXCEPT !.next = IF @ = n /\ i = Len(walks) THEN Successor(n) ELSE @,
                     !.owed = @ \ {n}, !.visited = @ \ {n}]
AdvanceToEnd(n, i) ==
    [walks[i] EXCEPT !.next = IF @ = n THEN END ELSE @,
                     !.owed = @ \ {n}, !.visited = @ \ {n}]
StayBehind(n, i) ==
    [walks[i] EXCEPT !.next = IF @ = n THEN First ELSE @,
                     !.owed = @ \ {n}, !.visited = @ \ {n}]

\* Registry Advance: every registered successor that names the node moves on.
Advanced(n, i) ==
    [walks[i] EXCEPT !.next = IF @ = n THEN Successor(n) ELSE @,
                     !.owed = @ \ {n}, !.visited = @ \ {n}]

\* Extraction: Advance while the node still links to its successor, then erase.
Erase(n) == /\ InBody /\ n \in ToSet(list)
            /\ walks' = [i \in DOMAIN walks |-> Advanced(n, i)]
            /\ list' = RemoveAt(list, PositionOf(n))

Next == \/ StartWalk \/ Step \/ EndWalk
        \/ \E n \in Node : PushFront(n) \/ PushBack(n) \/ Erase(n)

Spec == Init /\ [][Next]_vars

-----------------------------------------------------------------------------
\* Type invariant; a node is on the list at most once.
TypeOK == /\ list \in Seq(Node) /\ IsInjective(list)
          /\ walks \in Seq(Walk) /\ Len(walks) <= MaxDepth

\* "Stepping onto it reads freed memory" (list_cursor.h:22-24): no walk in
\* flight, however deeply nested, has saved a successor that left the list.
CursorsOnList == \A i \in DOMAIN walks : walks[i].next \in ToSet(list) \cup {END}

\* "The walk still visits exactly the entities that are still on the list when
\* it reaches them" (list_cursor.h:93-95): whatever the bodies extract, an
\* element the list had when the walk began and still has is ahead of the walk
\* until the walk hands it out ...
NothingSkipped == \A i \in DOMAIN walks : walks[i].owed \subseteq From(walks[i].next)

\* ... and an element it has handed out is behind it.
NothingVisitedTwice == \A i \in DOMAIN walks :
                          walks[i].visited \cap From(walks[i].next) = {}
=============================================================================
