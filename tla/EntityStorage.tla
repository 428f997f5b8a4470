---------------------------- MODULE EntityStorage ----------------------------
(***************************************************************************)
(* Where entities live: each is found through the slot map its handles go  *)
(* through and, once it is in the world, on the list that owns it and that *)
(* the update passes walk (new_char, free_char, extract_obj, close_socket).*)
(* One list with its map stands for each of the three, of characters, of   *)
(* objects and of descriptors.                                             *)
(***************************************************************************)
EXTENDS SlotMap

CONSTANTS END,        \* list.end()
          MaxDepth    \* bound: walks in flight at once

ASSUME StorageAssumption == END \notin Entity /\ MaxDepth \in Nat \ {0}

VARIABLES list, walks,      \* the list and the walks over it
          self              \* self[e]: the handle e was given, null while e is no entity

W == INSTANCE ListWalk WITH Node <- Entity

walkVars    == <<list, walks>>
storageVars == <<vars, walkVars, self>>

Entities == {e \in Entity : self[e] # NullHandle}
Listed   == {list[i] : i \in DOMAIN list}

StorageInit == Init /\ W!Init /\ self = [e \in Entity |-> NullHandle]

\* The handle Add is about to return.
NextHandle == IF freeHead = NO_SLOT
              THEN [index |-> Len(slots) + 1, generation |-> 1]
              ELSE [index |-> freeHead, generation |-> slots[freeHead].generation]

\* new_char, new_obj, new_descriptor: registered, and on no list yet.
New(e) == /\ W!InBody /\ e \notin Entities
          /\ AddFresh(e) \/ AddReused(e)
          /\ self' = [self EXCEPT ![e] = NextHandle]
          /\ UNCHANGED walkVars

\* create_mobile, create_object, CON_READ_MOTD in front; init_descriptor behind.
Link(e) == /\ e \in Entities
           /\ W!PushFront(e) \/ W!PushBack(e)
           /\ UNCHANGED <<vars, self>>

\* Fault for the run's mutant: an entity that is extracted keeps its slot.
extract_unretired(e) == RemoveStale(self[e]) \/ (Find(self[e]) /\ UNCHANGED vars)

\* free_char, free_obj of what never came onto the list.
Delete(e) == W!InBody /\ e \notin Listed /\ UNCHANGED walkVars

\* The destructor expires the handles.
Destroyed(e) == Remove(self[e])

\* free_char, extract_obj, close_socket: walks first, then the node, and with the
\* node the entity.
Free(e) == /\ e \in Entities
           /\ W!Erase(e) \/ Delete(e)
           /\ Destroyed(e)
           /\ self' = [self EXCEPT ![e] = NullHandle]

\* A second Remove of a handle long given up, which the map allows.
RemoveAgain(h) == /\ W!InBody /\ \A e \in Entities : self[e] # h
                  /\ Remove(h)
                  /\ UNCHANGED <<walkVars, self>>

\* A walk begins, goes on or ends.
WalkOn == (W!StartWalk \/ W!Step \/ W!EndWalk) /\ UNCHANGED <<vars, self>>

StorageNext == \/ \E e \in Entity : New(e) \/ Link(e) \/ Free(e)
               \/ \E h \in Handle : RemoveAgain(h)
               \/ WalkOn

StorageSpec == StorageInit /\ [][StorageNext]_storageVars

-----------------------------------------------------------------------------
\* Type invariant of the slots, the list, its walks and the entities' own handles.
StorageTypeOK == TypeOK /\ W!TypeOK /\ self \in [Entity -> Handle]

\* "An entity is registered for exactly the span during which it is not on a free
\* list" (handles.h:12): each occupied slot is the one its entity names as self, and
\* each entity has one.  The list owns only what is there: all that a walk meets is
\* an entity whose handle resolves, whatever was freed and created again at the same
\* address.
RegisteredOnce ==
    /\ StorageTypeOK
    /\ \A i \in LiveSlots :
         self[slots[i].entity] = [index |-> i, generation |-> slots[i].generation]
    /\ \A e \in Entities \cup Listed : Deref(self[e]) = e

\* No walk in flight, however deeply nested, has saved a successor that left.
CursorsOnList       == W!CursorsOnList
\* What a walk began with and is still there lies ahead of it until handed out ...
NothingSkipped      == W!NothingSkipped
\* ... and what it has handed out lies behind it.
NothingVisitedTwice == W!NothingVisitedTwice
=============================================================================
