---------------------------- MODULE ObjectLists ----------------------------
(***************************************************************************)
(* Where objects are (code/handler.c): what a character carries, what lies *)
(* in the room, what a container holds.  Each is a list kept by hand, with *)
(* the two totals of a character, carry_number and carry_weight, adjusted  *)
(* at every change and never recomputed.                                   *)
(*                                                                         *)
(* The operators take the belongings b, a record with at least the fields  *)
(* below, and return them as the function of that name leaves them, so a   *)
(* handler is the composition of the calls it makes.                       *)
(***************************************************************************)
EXTENDS Integers, FiniteSets, SequencesExt, Lists

CONSTANTS Object,       \* addresses of objects
          Char,         \* the characters that may carry
          NoChar,       \* Deref(obj->carried_by) == nullptr
          OwnWeight,    \* obj->weight, of each object
          Uncounted     \* gems and jewelry, which count as no item

ASSUME ObjectListsAssumption == /\ IsFiniteSet(Object)
                                /\ NoChar \notin Char
                                /\ Uncounted \subseteq Object
                                /\ OwnWeight \in [Object -> Nat]

CarriedBy(b, o) ==
    IF \E c \in Char : o \in ToSet(b.carrying[c])
    THEN CHOOSE c \in Char : o \in ToSet(b.carrying[c]) ELSE NoChar
InRoom(b, o)    == o \in ToSet(b.contents)
Holders(b, o)   == {k \in Object : o \in ToSet(b.contains[k])}   \* in_obj
Exists(b, o)    == CarriedBy(b, o) # NoChar \/ InRoom(b, o) \/ Holders(b, o) # {}

\* Everything inside o, at any depth, and o; no nesting is deeper than there are
\* objects.
Opened(contains) == [S \in SUBSET Object |-> [n \in Nat |->
                        S \cup UNION {ToSet(contains[k]) : k \in S}]]
Inside(contains, o) ==
    After(Opened(contains), {o}, [n \in 1..Cardinality(Object) |-> n])
Within(b, o) == Inside(b.contains, o)

get_obj_number(o) == IF o \in Uncounted THEN 0 ELSE 1

\* An object weighs what it does and all it contains.
get_obj_weight(b, o) == SumFunctionOnSet(OwnWeight, Within(b, o))

\* Who carries o, or one of the containers around it.
Bears(b, c, o) == \E k \in ToSet(b.carrying[c]) : o \in Within(b, k)
Bearer(b, o)   == IF \E c \in Char : Bears(b, c, o)
                  THEN CHOOSE c \in Char : Bears(b, c, o) ELSE NoChar

Burden(b, c, n) == IF c = NoChar THEN b ELSE [b EXCEPT !.weight[c] = @ + n]

-----------------------------------------------------------------------------
obj_to_char(b, o, c) == [b EXCEPT !.carrying[c] = <<o>> \o @,
                                  !.number[c]   = @ + get_obj_number(o),
                                  !.weight[c]   = @ + get_obj_weight(b, o)]

\* The rest of obj_from_char, once the object is off (Equipment).
unlink_from_char(b, o) ==
    LET c == CarriedBy(b, o)
    IN  IF c = NoChar THEN b
        ELSE [b EXCEPT !.carrying[c] = Without(@, {o}),
                       !.number[c]   = @ - get_obj_number(o),
                       !.weight[c]   = @ - get_obj_weight(b, o)]

obj_to_room(b, o)   == [b EXCEPT !.contents = <<o>> \o @]
obj_from_room(b, o) == [b EXCEPT !.contents = Without(@, {o})]

\* Fault for the run's mutant: the bearer is told of the object, not of what it holds.
to_obj_shallow(b, o, k) ==
    Burden([b EXCEPT !.contains[k] = <<o>> \o @], Bearer(b, k), OwnWeight[o])

obj_to_obj(b, o, k) ==
    Burden([b EXCEPT !.contains[k] = <<o>> \o @], Bearer(b, k), get_obj_weight(b, o))

obj_from_obj(b, o) ==
    Burden([b EXCEPT !.contains = [k \in Object |-> Without(b.contains[k], {o})]],
           Bearer(b, o), -get_obj_weight(b, o))

\* Fault for the run's mutant: a container within the container is not emptied.
destroyed_shallow(b, o) == [b EXCEPT !.contains[o] = <<>>]

\* extract_obj, once the object is detached: the contents, one after the other,
\* are taken out of it and destroyed.
Destroyed(b, o) ==
    [b EXCEPT !.contains = [k \in Object |-> IF k \in Within(b, o) THEN <<>> ELSE @[k]]]
=============================================================================
