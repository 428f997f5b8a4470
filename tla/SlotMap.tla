------------------------------ MODULE SlotMap ------------------------------
(***************************************************************************)
(* The slot map that issues the generational handles of the game           *)
(* (code/stdlibs/handle.h).  charHandles, objHandles and the other maps of *)
(* code/entity/handles.h are instances of it; every cross-reference kept   *)
(* between entities is a handle read through Deref.                        *)
(*                                                                         *)
(* Slots are numbered from 1, so NO_SLOT is 0.  The free list is threaded  *)
(* through the slots exactly as in the code.  `issued' is a history        *)
(* variable: the handles callers may still hold copies of.                 *)
(***************************************************************************)
EXTENDS Integers, Sequences, FiniteSets

CONSTANTS Entity,     \* addresses of entities; an address may be reused
          Null,       \* nullptr
          MaxGen,     \* numeric_limits<GenT>::max()
          MaxSlots    \* bound: slots ever allocated (SlotCount)

ASSUME SlotMapAssumption == /\ MaxGen \in Nat \ {0}
                            /\ MaxSlots \in Nat \ {0}
                            /\ Null \notin Entity

VARIABLES slots,      \* std::vector<Slot>
          freeHead,   \* top of the free list, or NO_SLOT
          liveCount,  \* entities registered now
          issued      \* history: every handle Add returned for an entity

vars == <<slots, freeHead, liveCount, issued>>

NO_SLOT == 0

Slot == [entity : Entity \cup {Null}, generation : 1..MaxGen,
         nextFree : 0..MaxSlots]

\* A handle's index may be anything a caller wrote over it; its generation 0
\* is reserved for the null handle.
Handle == [index : 0..MaxSlots, generation : 0..MaxGen]
NullHandle == [index |-> 0, generation |-> 0]

Init == /\ slots = <<>>
        /\ freeHead = NO_SLOT
        /\ liveCount = 0
        /\ issued = {}

\* Find: the handle is not null, not malformed, of the slot's generation, and
\* the slot is occupied.
Find(h) == /\ h.generation # 0
           /\ h.index \in DOMAIN slots
           /\ slots[h.index].generation = h.generation
           /\ slots[h.index].entity # Null

Deref(h) == IF Find(h) THEN slots[h.index].entity ELSE Null

\* Add: pops the free list, or allocates a slot of generation 1 when the list
\* is empty.  A null entity consumes no slot and gets the null handle.
TakeSlot(i, gen, e) ==
    /\ liveCount' = liveCount + 1
    /\ issued' = issued \cup {[index |-> i, generation |-> gen]}
    /\ LET taken == [entity |-> e, generation |-> gen, nextFree |-> NO_SLOT]
       IN  slots' = IF i \in DOMAIN slots THEN [slots EXCEPT ![i] = taken]
                                          ELSE Append(slots, taken)

AddFresh(e) == /\ freeHead = NO_SLOT
               /\ Len(slots) < MaxSlots
               /\ TakeSlot(Len(slots) + 1, 1, e)
               /\ UNCHANGED freeHead

AddReused(e) == /\ freeHead # NO_SLOT
                /\ TakeSlot(freeHead, slots[freeHead].generation, e)
                /\ freeHead' = slots[freeHead].nextFree

AddNull == UNCHANGED vars

\* Faults for the run's mutants: a spent counter wraps to 1 and the slot is
\* recycled, and a recycled slot keeps its generation.
WrapSpentSlot(h) ==
    /\ slots[h.index].generation = MaxGen
    /\ slots' = [slots EXCEPT ![h.index] =
                   [entity |-> Null, generation |-> 1, nextFree |-> freeHead]]
    /\ freeHead' = h.index
RecycleWithoutBump(h) ==
    /\ slots[h.index].generation # MaxGen
    /\ slots' = [slots EXCEPT ![h.index].entity = Null,
                              ![h.index].nextFree = freeHead]
    /\ freeHead' = h.index

\* Remove: a silent no-op unless the handle is live.  A slot whose counter is
\* spent stays off the free list for good.
Retire(h) == /\ slots[h.index].generation = MaxGen
             /\ slots' = [slots EXCEPT ![h.index].entity = Null]
             /\ UNCHANGED freeHead

Recycle(h) == /\ slots[h.index].generation # MaxGen
              /\ slots' = [slots EXCEPT ![h.index] =
                             [entity     |-> Null,
                              generation |-> @.generation + 1,
                              nextFree   |-> freeHead]]
              /\ freeHead' = h.index

RemoveLive(h) == /\ Find(h)
                 /\ liveCount' = liveCount - 1
                 /\ Retire(h) \/ Recycle(h)
                 /\ UNCHANGED issued

RemoveStale(h) == ~Find(h) /\ UNCHANGED vars

Remove(h) == RemoveLive(h) \/ RemoveStale(h)

Next == \/ \E e \in Entity : AddFresh(e) \/ AddReused(e)
        \/ AddNull
        \/ \E h \in Handle : Remove(h)

Spec == Init /\ [][Next]_vars

-----------------------------------------------------------------------------
LiveSlots == {i \in DOMAIN slots : slots[i].entity # Null}

\* Type invariant of the map.
TypeOK == /\ slots \in Seq(Slot) /\ Len(slots) <= MaxSlots
          /\ freeHead \in 0..Len(slots)
          /\ liveCount \in Nat
          /\ issued \subseteq Handle

\* f is the free list: it starts at freeHead, follows nextFree, ends in
\* NO_SLOT and meets no slot twice.
IsFreeList(n, f) ==
    /\ freeHead = IF n = 0 THEN NO_SLOT ELSE f[1]
    /\ \A k \in 1..n : slots[f[k]].nextFree = IF k = n THEN NO_SLOT ELSE f[k + 1]
    /\ \A j, k \in 1..n : f[j] = f[k] => j = k

\* f lists the unoccupied slots, under generations no caller was ever given,
\* and every unoccupied slot it misses is retired with its counter spent.
Accounts(n, f) ==
    /\ IsFreeList(n, f)
    /\ \A i \in DOMAIN slots :
         IF \E k \in 1..n : f[k] = i
         THEN /\ slots[i].entity = Null
              /\ [index |-> i, generation |-> slots[i].generation] \notin issued
         ELSE slots[i].entity = Null => slots[i].generation = MaxGen

\* Every slot is in exactly one of three places: occupied by an entity, on the
\* free list, or retired.  A second Remove of the same handle, which the
\* callers may well make, must not thread a slot onto the list twice.
SlotsAccounted == \E n \in 0..Len(slots) :
                     \E f \in [1..n -> 1..Len(slots)] : Accounts(n, f)

\* liveCount, which the program reports and never recomputes, is the number of
\* occupied slots.
LiveCountExact == liveCount = Cardinality(LiveSlots)

\* "A handle to a freed entity resolves to null forever ... no chance of
\* resolving to the entity's replacement" (handle.h:22-24): whatever a caller
\* does, what an issued handle resolves to either stays or becomes null.
ResolutionOnlyDecays ==
    [][\A h \in issued : Deref(h)' \in {Deref(h), Null}]_vars

\* The promise of the map as a whole: a fresh handle for every registration
\* and a final death for every handle.
Registry == INSTANCE HandleRegistry WITH
    HandleValue <- [index : 1..MaxSlots, generation : 1..MaxGen],
    live <- [h \in {k \in issued : Find(k)} |-> Deref(h)]
ImplementsRegistry == Registry!RegistrySpec
=============================================================================
