--------------------------- MODULE HandleRegistry ---------------------------
(***************************************************************************)
(* What the generational handles of code/stdlibs/handle.h promise to the   *)
(* rest of the program, with no slots and no free list: registering an     *)
(* entity yields a handle that was never issued before, the handle         *)
(* resolves to that entity until it is removed, and from then on it        *)
(* resolves to nothing for good.  SlotMap implements this specification.   *)
(***************************************************************************)
CONSTANTS Entity,       \* addresses an entity can be allocated at
          HandleValue   \* the values a handle can have

VARIABLES issued,       \* every handle ever returned for an entity
          live          \* the handles that resolve, and what they resolve to

registryVars == <<issued, live>>

RegistryTypeOK == /\ issued \subseteq HandleValue
                  /\ DOMAIN live \subseteq issued
                  /\ \A h \in DOMAIN live : live[h] \in Entity

RegistryInit == issued = {} /\ live = [h \in {} |-> {}]

Register(e) == \E h \in HandleValue \ issued :
    /\ issued' = issued \cup {h}
    /\ live' = [k \in DOMAIN live \cup {h} |-> IF k = h THEN e ELSE live[k]]

Expire(h) == /\ h \in DOMAIN live
             /\ live' = [k \in DOMAIN live \ {h} |-> live[k]]
             /\ UNCHANGED issued

RegistryNext == \/ \E e \in Entity : Register(e)
                \/ \E h \in issued : Expire(h)

RegistrySpec == RegistryInit /\ [][RegistryNext]_registryVars
=============================================================================
