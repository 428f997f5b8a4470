------------------------ MODULE EntityStorageProofs ------------------------
(***************************************************************************)
(* Proofs about EntityStorage, for any number of addresses, slots and      *)
(* walks.  First the slot map by itself: its inductive invariant adds to   *)
(* SlotsAccounted how the handles in circulation relate to the slots.      *)
(* Then the walks: the list changes under them, so the operators on it are *)
(* restated over any list s, and what each change does to the part from a  *)
(* node on is a lemma.  Last, both at once: every step of the storage is a *)
(* step of the map and a step of the list, and what relates them is that   *)
(* an occupied slot and the handle its entity keeps name each other.       *)
(***************************************************************************)
EXTENDS EntityStorage, FiniteSetTheorems, SequenceTheorems, TLAPS

IssuedInv == /\ \A h \in issued : /\ h.index \in 1..Len(slots)
                                  /\ h.generation \in 1..slots[h.index].generation
             /\ \A i \in LiveSlots :
                  [index |-> i, generation |-> slots[i].generation] \in issued

IInv == TypeOK /\ SlotsAccounted /\ LiveCountExact /\ IssuedInv

-----------------------------------------------------------------------------
\* A free list that misses an occupied slot is shorter than the slot vector.
LEMMA FreeListRoom ==
  ASSUME NEW len \in Nat, NEW n \in 0..len, NEW idx \in 1..len,
         NEW f \in [1..n -> 1..len],
         \A k \in 1..n : f[k] # idx,
         \A j, k \in 1..n : f[j] = f[k] => j = k
  PROVE  n + 1 \in 0..len
<1>. DEFINE S == 1..len
            T == (1..len) \ {idx}
<1>1. SUFFICES ASSUME n = len PROVE FALSE
  OBVIOUS
<1>2. /\ IsFiniteSet(1..len) /\ Cardinality(1..len) = len
  <2>1. len >= 1
    OBVIOUS
  <2>. QED  BY <2>1, FS_Interval
<1>3. /\ IsFiniteSet((1..len) \ {idx}) /\ Cardinality((1..len) \ {idx}) = len - 1
  BY <1>2, FS_RemoveElement
<1>4. f \in [1..len -> (1..len) \ {idx}]
  BY <1>1
<1>5. Cardinality((1..len) \ {idx}) < Cardinality(1..len)
  BY <1>2, <1>3
<1>6. \E x, y \in S : x # y /\ f[x] = f[y]
  <2>1. IsFiniteSet(S) /\ IsFiniteSet(T) /\ Cardinality(T) < Cardinality(S) /\ f \in [S -> T]
    BY <1>2, <1>3, <1>4, <1>5
  <2>. HIDE DEF S, T
  <2>. QED  BY ONLY <2>1, FS_PigeonHole
<1>. QED  BY <1>1, <1>6

-----------------------------------------------------------------------------
LEMMA InitIInv == Init => IInv
<1>. SUFFICES ASSUME Init PROVE IInv
  OBVIOUS
<1>1. TypeOK
  BY SlotMapAssumption DEF Init, TypeOK, NO_SLOT
<1>2. SlotsAccounted
  <2>. DEFINE g == [k \in 1..0 |-> k]
  <2>1. g \in [1..0 -> 1..Len(slots)] /\ 0 \in 0..Len(slots)
    BY DEF Init
  <2>2. Accounts(0, g)
    BY DEF Init, IsFreeList, Accounts
  <2>. HIDE DEF g
  <2>. QED  BY <2>1, <2>2 DEF SlotsAccounted
<1>3. IssuedInv
  BY DEF Init, IssuedInv, LiveSlots
<1>4. LiveCountExact
  <2>1. LiveSlots = {}
    BY DEF Init, LiveSlots
  <2>. QED  BY <2>1, FS_EmptySet DEF Init, LiveCountExact
<1>. QED  BY <1>1, <1>2, <1>3, <1>4 DEF IInv

\* Occupying an unoccupied slot, or vacating an occupied one, moves the number
\* of occupied slots by one.
LEMMA LiveSlotsFinite ==
  ASSUME TypeOK
  PROVE  IsFiniteSet(LiveSlots) /\ Cardinality(LiveSlots) \in Nat
<1>1. LiveSlots \subseteq 1..Len(slots) /\ Len(slots) \in Int
  BY DEF TypeOK, LiveSlots
<1>2. IsFiniteSet(1..Len(slots))
  BY <1>1, FS_Interval
<1>. QED  BY <1>1, <1>2, FS_Subset, FS_CardinalityType

LEMMA OccupyCount ==
  ASSUME IInv, NEW i, i \notin LiveSlots,
         LiveSlots' = LiveSlots \cup {i}, liveCount' = liveCount + 1
  PROVE  LiveCountExact' /\ liveCount' \in Nat
BY LiveSlotsFinite, FS_AddElement DEF IInv, LiveCountExact

LEMMA VacateCount ==
  ASSUME IInv, NEW i \in LiveSlots,
         LiveSlots' = LiveSlots \ {i}, liveCount' = liveCount - 1
  PROVE  LiveCountExact' /\ liveCount' \in Nat
<1>1. Cardinality(LiveSlots \ {i}) = Cardinality(LiveSlots) - 1
  BY LiveSlotsFinite, FS_RemoveElement DEF IInv
<1>2. IsFiniteSet(LiveSlots \ {i}) /\ Cardinality(LiveSlots \ {i}) \in Nat
  BY LiveSlotsFinite, FS_RemoveElement, FS_CardinalityType DEF IInv
<1>. QED  BY <1>1, <1>2 DEF IInv, LiveCountExact

\* An empty list head means an empty list; otherwise the head names an
\* unoccupied slot whose current generation was never issued.
LEMMA HeadOfList ==
  ASSUME IInv, freeHead # NO_SLOT
  PROVE  /\ freeHead \in 1..Len(slots)
         /\ slots[freeHead] \in Slot
         /\ slots[freeHead].entity = Null
         /\ [index |-> freeHead, generation |-> slots[freeHead].generation] \notin issued
<1>0. PICK n \in 0..Len(slots) : \E f \in [1..n -> 1..Len(slots)] : Accounts(n, f)
  BY DEF IInv, SlotsAccounted
<1>1. PICK f \in [1..n -> 1..Len(slots)] : Accounts(n, f)
  BY <1>0
<1>3. n # 0 /\ freeHead = f[1]
  BY <1>1 DEF Accounts, IsFreeList
<1>4. 1 \in 1..n /\ f[1] \in 1..Len(slots)
  BY <1>3
<1>5. DOMAIN slots = 1..Len(slots) /\ slots[freeHead] \in Slot
  BY <1>3, <1>4 DEF IInv, TypeOK
<1>. QED  BY <1>1, <1>3, <1>4, <1>5 DEF Accounts

LEMMA AddFreshIInv ==
  ASSUME IInv, NEW e \in Entity, AddFresh(e)
  PROVE  IInv'
<1>. DEFINE new == [entity |-> e, generation |-> 1, nextFree |-> NO_SLOT]
<1>. DEFINE len == Len(slots)
<1>0. /\ slots \in Seq(Slot) /\ len \in Nat /\ len < MaxSlots
      /\ DOMAIN slots = 1..len /\ new \in Slot /\ e # Null
  BY SlotMapAssumption DEF IInv, TypeOK, AddFresh, Slot, NO_SLOT
<1>1. /\ slots' = Append(slots, new)
      /\ freeHead' = freeHead /\ freeHead = NO_SLOT
      /\ liveCount' = liveCount + 1
      /\ issued' = issued \cup {[index |-> len + 1, generation |-> 1]}
  BY <1>0 DEF AddFresh, TakeSlot
<1>2. /\ Len(slots') = len + 1 /\ DOMAIN slots' = 1..(len + 1)
      /\ slots' \in Seq(Slot)
      /\ \A i \in 1..len : slots'[i] = slots[i]
      /\ slots'[len + 1] = new
  BY <1>0, <1>1
<1>3. TypeOK'
  BY <1>0, <1>1, <1>2, SlotMapAssumption DEF IInv, TypeOK, Handle, NO_SLOT
<1>4. SlotsAccounted'
  <2>0. PICK n \in 0..len : \E f \in [1..n -> 1..len] : Accounts(n, f)
    BY DEF IInv, SlotsAccounted
  <2>1. PICK f \in [1..n -> 1..len] : Accounts(n, f)
    BY <2>0
  <2>2. n = 0
    <3>1. n # 0 => f[1] = freeHead /\ f[1] \in 1..len
      BY <2>1 DEF Accounts, IsFreeList
    <3>. QED  BY <3>1, <1>0, <1>1 DEF NO_SLOT
  <2>3. \A i \in 1..len : slots[i].entity = Null => slots[i].generation = MaxGen
    BY <2>1, <2>2, <1>0 DEF Accounts
  <2>4. \A i \in DOMAIN slots' : slots'[i].entity = Null => slots'[i].generation = MaxGen
    BY <2>3, <1>0, <1>2
  <2>. DEFINE g == [k \in 1..0 |-> k]
  <2>5. 0 \in 0..Len(slots') /\ g \in [1..0 -> 1..Len(slots')] /\ ~(\E k \in 1..0 : TRUE)
    BY <1>2, <1>0
  <2>6. IsFreeList(0, g)'
    BY <1>1 DEF IsFreeList
  <2>7. Accounts(0, g)'
    BY <2>4, <2>5, <2>6 DEF Accounts
  <2>. QED  BY <2>5, <2>7 DEF SlotsAccounted
<1>5. IssuedInv'
  <2>1. \A h \in issued' : /\ h.index \in 1..Len(slots')
                           /\ h.generation \in 1..slots'[h.index].generation
    BY <1>0, <1>1, <1>2 DEF IInv, IssuedInv
  <2>2. \A i \in LiveSlots' :
          [index |-> i, generation |-> slots'[i].generation] \in issued'
    BY <1>0, <1>1, <1>2 DEF IInv, IssuedInv, LiveSlots
  <2>. QED  BY <2>1, <2>2 DEF IssuedInv
<1>6. LiveCountExact'
  <2>1. LiveSlots' = LiveSlots \cup {len + 1} /\ len + 1 \notin LiveSlots
    BY <1>0, <1>2 DEF LiveSlots
  <2>. QED  BY <2>1, <1>1, OccupyCount
<1>. QED  BY <1>3, <1>4, <1>5, <1>6 DEF IInv

LEMMA AddReusedIInv ==
  ASSUME IInv, NEW e \in Entity, AddReused(e)
  PROVE  IInv'
<1>. DEFINE idx == freeHead
<1>. DEFINE gen == slots[idx].generation
<1>. DEFINE new == [entity |-> e, generation |-> gen, nextFree |-> NO_SLOT]
<1>. DEFINE len == Len(slots)
<1>0. /\ idx \in 1..len /\ slots[idx] \in Slot /\ slots[idx].entity = Null
      /\ [index |-> idx, generation |-> gen] \notin issued
  BY HeadOfList DEF AddReused
<1>1. /\ slots \in Seq(Slot) /\ len \in Nat /\ DOMAIN slots = 1..len
      /\ gen \in 1..MaxGen /\ new \in Slot /\ e # Null
  BY <1>0, SlotMapAssumption DEF IInv, TypeOK, Slot, NO_SLOT
<1>2. /\ slots' = [slots EXCEPT ![idx] = new]
      /\ freeHead' = slots[idx].nextFree
      /\ liveCount' = liveCount + 1
      /\ issued' = issued \cup {[index |-> idx, generation |-> gen]}
  BY <1>0, <1>1 DEF AddReused, TakeSlot
<1>3. /\ Len(slots') = len /\ DOMAIN slots' = 1..len
      /\ slots' \in Seq(Slot)
      /\ \A i \in 1..len : i # idx => slots'[i] = slots[i]
      /\ slots'[idx] = new
  BY <1>0, <1>1, <1>2
<1>3a. PICK n \in 0..len : \E f \in [1..n -> 1..len] : Accounts(n, f)
  BY DEF IInv, SlotsAccounted
<1>4. PICK f \in [1..n -> 1..len] : Accounts(n, f)
  BY <1>3a
<1>5. /\ IsFreeList(n, f)
      /\ \A i \in DOMAIN slots :
           IF \E k \in 1..n : f[k] = i
           THEN /\ slots[i].entity = Null
                /\ [index |-> i, generation |-> slots[i].generation] \notin issued
           ELSE slots[i].entity = Null => slots[i].generation = MaxGen
  BY <1>4 DEF Accounts
<1>6. /\ n \in 1..len /\ f[1] = idx
      /\ freeHead' = IF n = 1 THEN NO_SLOT ELSE f[2]
  <2>1. freeHead = IF n = 0 THEN NO_SLOT ELSE f[1]
    BY <1>5 DEF IsFreeList
  <2>2. n # 0
    BY <2>1 DEF AddReused
  <2>3. n \in 1..len /\ 1 \in 1..n
    BY <2>2
  <2>4. slots[f[1]].nextFree = IF 1 = n THEN NO_SLOT ELSE f[1 + 1]
    BY <2>3, <1>5 DEF IsFreeList
  <2>. QED  BY <2>1, <2>2, <2>3, <2>4, <1>2
<1>. DEFINE g == [k \in 1..(n - 1) |-> f[k + 1]]
<1>7. n - 1 \in 0..Len(slots') /\ g \in [1..(n - 1) -> 1..Len(slots')]
  BY <1>1, <1>3, <1>6
<1>8. \A k \in 1..(n - 1) : g[k] # idx
  BY <1>5, <1>6 DEF IsFreeList
<1>9. IsFreeList(n - 1, g)'
  <2>1. freeHead' = IF n - 1 = 0 THEN NO_SLOT ELSE g[1]
    BY <1>6
  <2>2. \A k \in 1..(n - 1) :
          slots'[g[k]].nextFree = IF k = n - 1 THEN NO_SLOT ELSE g[k + 1]
    BY <1>3, <1>5, <1>6, <1>7, <1>8 DEF IsFreeList
  <2>3. \A j, k \in 1..(n - 1) : g[j] = g[k] => j = k
    BY <1>5, <1>6 DEF IsFreeList
  <2>. QED  BY <2>1, <2>2, <2>3 DEF IsFreeList
<1>10. \A i \in DOMAIN slots' :
          IF \E k \in 1..(n - 1) : g[k] = i
          THEN /\ slots'[i].entity = Null
               /\ [index |-> i, generation |-> slots'[i].generation] \notin issued'
          ELSE slots'[i].entity = Null => slots'[i].generation = MaxGen
  <2>. SUFFICES ASSUME NEW i \in 1..len
                PROVE  IF \E k \in 1..(n - 1) : g[k] = i
                       THEN /\ slots'[i].entity = Null
                            /\ [index |-> i, generation |-> slots'[i].generation] \notin issued'
                       ELSE slots'[i].entity = Null => slots'[i].generation = MaxGen
    BY <1>3
  <2>1. CASE i = idx
    BY <2>1, <1>1, <1>3, <1>8
  <2>2. CASE i # idx
    <3>1. (\E k \in 1..n : f[k] = i) <=> (\E k \in 1..(n - 1) : g[k] = i)
      <4>1. ASSUME NEW k \in 1..n, f[k] = i
            PROVE  k - 1 \in 1..(n - 1) /\ g[k - 1] = i
        BY <4>1, <2>2, <1>6
      <4>2. ASSUME NEW k \in 1..(n - 1), g[k] = i
            PROVE  k + 1 \in 1..n /\ f[k + 1] = i
        BY <4>2, <1>6
      <4>. QED  BY <4>1, <4>2
    <3>2. slots'[i] = slots[i] /\ i \in DOMAIN slots
      BY <2>2, <1>1, <1>3
    <3>3. [index |-> i, generation |-> slots[i].generation] \in issued' =>
            [index |-> i, generation |-> slots[i].generation] \in issued
      BY <2>2, <1>2
    <3>. QED  BY <3>1, <3>2, <3>3, <1>5
  <2>. QED  BY <2>1, <2>2
<1>11. SlotsAccounted'
  <2>1. Accounts(n - 1, g)'
    BY <1>9, <1>10 DEF Accounts
  <2>. HIDE DEF g
  <2>. QED  BY <2>1, <1>7 DEF SlotsAccounted
<1>12. TypeOK'
  <2>1. freeHead' \in 0..Len(slots')
    BY <1>3, <1>6 DEF NO_SLOT
  <2>2. [index |-> idx, generation |-> gen] \in Handle
    BY <1>0, <1>1, SlotMapAssumption DEF Handle, IInv, TypeOK
  <2>. QED  BY <2>1, <2>2, <1>2, <1>3 DEF IInv, TypeOK
<1>13. IssuedInv'
  <2>1. \A h \in issued' : /\ h.index \in 1..Len(slots')
                           /\ h.generation \in 1..slots'[h.index].generation
    BY <1>0, <1>1, <1>2, <1>3 DEF IInv, IssuedInv
  <2>2. \A i \in LiveSlots' :
          [index |-> i, generation |-> slots'[i].generation] \in issued'
    BY <1>1, <1>2, <1>3 DEF IInv, IssuedInv, LiveSlots
  <2>. QED  BY <2>1, <2>2 DEF IssuedInv
<1>14. LiveCountExact'
  <2>1. LiveSlots' = LiveSlots \cup {idx} /\ idx \notin LiveSlots
    BY <1>0, <1>1, <1>3 DEF LiveSlots
  <2>. QED  BY <2>1, <1>2, OccupyCount
<1>. QED  BY <1>11, <1>12, <1>13, <1>14 DEF IInv

\* Removing a live handle leaves the free list either as it was (the slot is
\* retired) or with the slot in front under a generation never issued.
LEMMA RemoveIInv ==
  ASSUME IInv, NEW h \in Handle, RemoveLive(h)
  PROVE  IInv'
<1>. DEFINE idx == h.index
<1>. DEFINE gen == slots[idx].generation
<1>. DEFINE len == Len(slots)
<1>0. /\ slots \in Seq(Slot) /\ len \in Nat /\ len <= MaxSlots /\ DOMAIN slots = 1..len
      /\ freeHead \in 0..len /\ liveCount \in Nat
      /\ idx \in 1..len /\ slots[idx] \in Slot /\ slots[idx].entity # Null
      /\ gen \in 1..MaxGen /\ gen = h.generation
      /\ MaxGen \in Nat /\ MaxSlots \in Nat
  <2>1. slots \in Seq(Slot) /\ DOMAIN slots = 1..len /\ len \in Nat
    BY DEF IInv, TypeOK
  <2>2. idx \in 1..len /\ slots[idx].entity # Null /\ gen = h.generation
    BY <2>1 DEF RemoveLive, Find
  <2>3. slots[idx] \in Slot
    BY <2>1, <2>2
  <2>. QED  BY <2>1, <2>2, <2>3, SlotMapAssumption DEF IInv, TypeOK, Slot
<1>1. PICK n \in 0..len : \E f \in [1..n -> 1..len] : Accounts(n, f)
  BY DEF IInv, SlotsAccounted
<1>2. PICK f \in [1..n -> 1..len] : Accounts(n, f)
  BY <1>1
<1>3. \A k \in 1..n : f[k] # idx
  BY <1>0, <1>2 DEF Accounts
<1>4. issued' = issued
  BY DEF RemoveLive
<1>5. LiveSlots' = LiveSlots \ {idx} => LiveCountExact' /\ liveCount' \in Nat
  BY <1>0, VacateCount DEF RemoveLive, LiveSlots
<1>A. CASE Retire(h)
  <2>. DEFINE new == [slots[idx] EXCEPT !.entity = Null]
  <2>1. /\ slots' = [slots EXCEPT ![idx] = new]
        /\ freeHead' = freeHead /\ gen = MaxGen
        /\ new \in Slot
        /\ new.entity = Null /\ new.generation = gen /\ new.nextFree = slots[idx].nextFree
    BY <1>0, <1>A DEF Retire, Slot
  <2>2. /\ Len(slots') = len /\ DOMAIN slots' = 1..len
        /\ slots' \in Seq(Slot)
        /\ \A i \in 1..len : /\ i # idx => slots'[i] = slots[i]
                             /\ slots'[i].nextFree = slots[i].nextFree
                             /\ slots'[i].generation = slots[i].generation
        /\ slots'[idx].entity = Null
    BY <1>0, <2>1
  <2>3. Accounts(n, f)'
    <3>1. IsFreeList(n, f)'
      BY <1>2, <2>1, <2>2 DEF Accounts, IsFreeList
    <3>2. \A i \in DOMAIN slots' :
            IF \E k \in 1..n : f[k] = i
            THEN /\ slots'[i].entity = Null
                 /\ [index |-> i, generation |-> slots'[i].generation] \notin issued'
            ELSE slots'[i].entity = Null => slots'[i].generation = MaxGen
      BY <1>0, <1>2, <1>3, <1>4, <2>1, <2>2 DEF Accounts
    <3>. QED  BY <3>1, <3>2 DEF Accounts
  <2>4. SlotsAccounted'
    BY <2>2, <2>3 DEF SlotsAccounted
  <2>5. IssuedInv'
    BY <1>0, <1>4, <2>2 DEF IInv, IssuedInv, LiveSlots
  <2>6. LiveSlots' = LiveSlots \ {idx}
    BY <1>0, <2>2 DEF LiveSlots
  <2>. QED  BY <1>0, <1>4, <1>5, <2>1, <2>2, <2>4, <2>5, <2>6 DEF IInv, TypeOK
<1>B. CASE Recycle(h)
  <2>. DEFINE new == [entity |-> Null, generation |-> gen + 1, nextFree |-> freeHead]
  <2>1. /\ slots' = [slots EXCEPT ![idx] = new]
        /\ freeHead' = idx /\ gen # MaxGen
        /\ new \in Slot
    <3>1. gen # MaxGen /\ freeHead' = idx /\ slots' = [slots EXCEPT ![idx] = new]
      BY <1>B, <1>0 DEF Recycle
    <3>2. gen + 1 \in 1..MaxGen /\ freeHead \in 0..MaxSlots
      BY <3>1, <1>0
    <3>. QED  BY <3>1, <3>2 DEF Slot
  <2>2. /\ Len(slots') = len /\ DOMAIN slots' = 1..len
        /\ slots' \in Seq(Slot)
        /\ \A i \in 1..len : i # idx => slots'[i] = slots[i]
        /\ slots'[idx] = new
    BY <1>0, <2>1
  <2>3. [index |-> idx, generation |-> gen + 1] \notin issued
    BY <1>0 DEF IInv, IssuedInv
  <2>. DEFINE g == [k \in 1..(n + 1) |-> IF k = 1 THEN idx ELSE f[k - 1]]
  <2>4. n + 1 \in 0..Len(slots') /\ g \in [1..(n + 1) -> 1..Len(slots')]
    <3>1. n + 1 \in 0..len
      BY <1>0, <1>2, <1>3, FreeListRoom DEF Accounts, IsFreeList
    <3>. QED  BY <3>1, <1>0, <2>2
  <2>5. IsFreeList(n + 1, g)'
    <3>1. freeHead' = IF n + 1 = 0 THEN NO_SLOT ELSE g[1]
      BY <2>1
    <3>2. \A k \in 1..(n + 1) :
            slots'[g[k]].nextFree = IF k = n + 1 THEN NO_SLOT ELSE g[k + 1]
      <4>. SUFFICES ASSUME NEW k \in 1..(n + 1)
                    PROVE  slots'[g[k]].nextFree = IF k = n + 1 THEN NO_SLOT ELSE g[k + 1]
        OBVIOUS
      <4>1. CASE k = 1
        BY <4>1, <1>2, <2>2 DEF Accounts, IsFreeList
      <4>2. CASE k # 1
        <5>1. k - 1 \in 1..n /\ g[k] = f[k - 1] /\ f[k - 1] # idx /\ f[k - 1] \in 1..len
          BY <4>2, <1>3
        <5>2. slots[f[k - 1]].nextFree = IF k - 1 = n THEN NO_SLOT ELSE f[k]
          BY <5>1, <1>2 DEF Accounts, IsFreeList
        <5>3. k # n + 1 => g[k + 1] = f[k]
          OBVIOUS
        <5>4. slots'[g[k]].nextFree = slots[f[k - 1]].nextFree
          BY <5>1, <2>2
        <5>. QED  BY <5>2, <5>3, <5>4
      <4>. QED  BY <4>1, <4>2
    <3>3. \A j, k \in 1..(n + 1) : g[j] = g[k] => j = k
      BY <1>2, <1>3 DEF Accounts, IsFreeList
    <3>. QED  BY <3>1, <3>2, <3>3 DEF IsFreeList
  <2>6. \A i \in DOMAIN slots' :
          IF \E k \in 1..(n + 1) : g[k] = i
          THEN /\ slots'[i].entity = Null
               /\ [index |-> i, generation |-> slots'[i].generation] \notin issued'
          ELSE slots'[i].entity = Null => slots'[i].generation = MaxGen
    <3>. SUFFICES ASSUME NEW i \in 1..len
                  PROVE  IF \E k \in 1..(n + 1) : g[k] = i
                         THEN /\ slots'[i].entity = Null
                              /\ [index |-> i, generation |-> slots'[i].generation] \notin issued'
                         ELSE slots'[i].entity = Null => slots'[i].generation = MaxGen
      BY <2>2
    <3>1. CASE i = idx
      BY <3>1, <2>2, <2>3, <1>4, SMTT(40)
    <3>2. CASE i # idx
      <4>1. ASSUME NEW k \in 1..n, f[k] = i
            PROVE  k + 1 \in 1..(n + 1) /\ g[k + 1] = i
        BY <4>1
      <4>2. ASSUME NEW k \in 1..(n + 1), g[k] = i
            PROVE  k - 1 \in 1..n /\ f[k - 1] = i
        BY <4>2, <3>2
      <4>3. (\E k \in 1..n : f[k] = i) <=> (\E k \in 1..(n + 1) : g[k] = i)
        BY <4>1, <4>2
      <4>4. slots'[i] = slots[i] /\ i \in DOMAIN slots
        BY <3>2, <1>0, <2>2
      <4>. QED  BY <4>3, <4>4, <1>2, <1>4 DEF Accounts
    <3>. QED  BY <3>1, <3>2
  <2>7. SlotsAccounted'
    <3>1. Accounts(n + 1, g)'
      BY <2>5, <2>6 DEF Accounts
    <3>. HIDE DEF g
    <3>. QED  BY <3>1, <2>4 DEF SlotsAccounted
  <2>8. IssuedInv'
    <3>1. \A k \in issued : /\ k.index \in 1..len
                            /\ k.generation \in 1..slots'[k.index].generation
      <4>. SUFFICES ASSUME NEW k \in issued
                    PROVE  /\ k.index \in 1..len
                           /\ k.generation \in 1..slots'[k.index].generation
        OBVIOUS
      <4>1. k.index \in 1..len /\ k.generation \in 1..slots[k.index].generation
        BY DEF IInv, IssuedInv
      <4>2. CASE k.index = idx
        BY <4>1, <4>2, <1>0, <2>2
      <4>3. CASE k.index # idx
        BY <4>1, <4>3, <2>2
      <4>. QED  BY <4>2, <4>3
    <3>2. \A i \in LiveSlots' :
            [index |-> i, generation |-> slots'[i].generation] \in issued
      BY <2>2 DEF IInv, IssuedInv, LiveSlots
    <3>. QED  BY <3>1, <3>2, <1>4, <2>2 DEF IssuedInv
  <2>9. LiveSlots' = LiveSlots \ {idx}
    BY <1>0, <2>2 DEF LiveSlots
  <2>. QED  BY <1>0, <1>4, <1>5, <2>1, <2>2, <2>7, <2>8, <2>9 DEF IInv, TypeOK
<1>. QED  BY <1>A, <1>B DEF RemoveLive

-----------------------------------------------------------------------------
LEMMA NextIInv ==
  ASSUME IInv, [Next]_vars
  PROVE  IInv'
<1>1. ASSUME NEW e \in Entity, AddFresh(e) PROVE IInv'
  BY <1>1, AddFreshIInv
<1>2. ASSUME NEW e \in Entity, AddReused(e) PROVE IInv'
  BY <1>2, AddReusedIInv
<1>3. ASSUME NEW h \in Handle, RemoveLive(h) PROVE IInv'
  BY <1>3, RemoveIInv
<1>4. CASE UNCHANGED vars
  <2>1. slots' = slots /\ freeHead' = freeHead /\ liveCount' = liveCount /\ issued' = issued
    BY <1>4 DEF vars
  <2>2. TypeOK' /\ LiveCountExact' /\ IssuedInv'
    BY <2>1 DEF IInv, TypeOK, LiveCountExact, LiveSlots, IssuedInv
  <2>3. SlotsAccounted'
    <3>1. ASSUME NEW n, NEW f, Accounts(n, f) PROVE Accounts(n, f)'
      BY <2>1, <3>1 DEF Accounts, IsFreeList
    <3>. QED  BY <2>1, <3>1 DEF IInv, SlotsAccounted
  <2>. QED  BY <2>2, <2>3 DEF IInv
<1>5. CASE AddNull
  BY <1>4, <1>5 DEF AddNull
<1>6. ASSUME NEW h \in Handle, RemoveStale(h) PROVE IInv'
  BY <1>4, <1>6 DEF RemoveStale
<1>. QED  BY <1>1, <1>2, <1>3, <1>4, <1>5, <1>6 DEF Next, Remove

THEOREM InductiveInvariant == Spec => []IInv
BY InitIInv, NextIInv, PTL DEF Spec

\* The type invariant of the slot map.
THEOREM TypeCorrect == Spec => []TypeOK
BY InductiveInvariant, PTL DEF IInv

\* No slot is lost and none is threaded onto the free list twice, whatever
\* handles the callers remove and however often.
THEOREM NoSlotLost == Spec => []SlotsAccounted
BY InductiveInvariant, PTL DEF IInv

\* liveCount is the number of registered entities.
THEOREM LiveCountCorrect == Spec => []LiveCountExact
BY InductiveInvariant, PTL DEF IInv

-----------------------------------------------------------------------------
\* What each step does to the resolution of the handles already issued.
LEMMA AddKeepsResolution ==
  ASSUME IInv, NEW e \in Entity, AddFresh(e) \/ AddReused(e)
  PROVE  \E new \in Handle \ issued :
           /\ new.index \in 1..MaxSlots /\ new.generation \in 1..MaxGen
           /\ issued' = issued \cup {new}
           /\ Find(new)' /\ Deref(new)' = e
           /\ \A h \in issued : (Find(h)' <=> Find(h)) /\ Deref(h)' = Deref(h)
<1>0. /\ slots \in Seq(Slot) /\ Len(slots) \in Nat /\ DOMAIN slots = 1..Len(slots)
      /\ issued \subseteq Handle /\ e # Null /\ MaxGen \in Nat \ {0} /\ MaxSlots \in Nat
      /\ Len(slots) <= MaxSlots
  BY SlotMapAssumption DEF IInv, TypeOK
<1>A. CASE AddFresh(e)
  <2>0. PICK new : new = [index |-> Len(slots) + 1, generation |-> 1]
    OBVIOUS
  <2>1. /\ slots' = Append(slots, [entity |-> e, generation |-> 1, nextFree |-> NO_SLOT])
        /\ issued' = issued \cup {new} /\ Len(slots) < MaxSlots
    BY <1>0, <1>A, <2>0 DEF AddFresh, TakeSlot
  <2>2. /\ DOMAIN slots' = 1..(Len(slots) + 1)
        /\ \A i \in 1..Len(slots) : slots'[i] = slots[i]
        /\ slots'[Len(slots) + 1] = [entity |-> e, generation |-> 1, nextFree |-> NO_SLOT]
    BY <1>0, <2>1
  <2>3. new \in Handle \ issued /\ new.index \in 1..MaxSlots /\ new.generation \in 1..MaxGen
    BY <1>0, <2>0, <2>1 DEF Handle, IInv, IssuedInv
  <2>4. Find(new)' /\ Deref(new)' = e
    BY <1>0, <2>0, <2>2 DEF Find, Deref
  <2>5. \A h \in issued : (Find(h)' <=> Find(h)) /\ Deref(h)' = Deref(h)
    BY <1>0, <2>2 DEF Find, Deref, IInv, IssuedInv
  <2>. QED  BY <2>1, <2>3, <2>4, <2>5
<1>B. CASE AddReused(e)
  <2>0. PICK idx, gen, new : /\ idx = freeHead /\ gen = slots[freeHead].generation
                            /\ new = [index |-> idx, generation |-> gen]
    OBVIOUS
  <2>1. /\ idx \in 1..Len(slots) /\ slots[idx] \in Slot /\ slots[idx].entity = Null
        /\ gen = slots[idx].generation /\ new \notin issued
    BY <1>B, <2>0, HeadOfList DEF AddReused
  <2>2. /\ slots' = [slots EXCEPT ![idx] =
                       [entity |-> e, generation |-> gen, nextFree |-> NO_SLOT]]
        /\ issued' = issued \cup {new}
    BY <1>0, <1>B, <2>0, <2>1 DEF AddReused, TakeSlot
  <2>3. new \in Handle /\ new.index \in 1..MaxSlots /\ new.generation \in 1..MaxGen
    BY <1>0, <2>0, <2>1 DEF Handle, Slot
  <2>4. Find(new)' /\ Deref(new)' = e
    BY <1>0, <2>0, <2>1, <2>2, <2>3 DEF Find, Deref
  <2>5. ASSUME NEW h \in issued
        PROVE  (Find(h)' <=> Find(h)) /\ Deref(h)' = Deref(h)
    <3>1. CASE h.index = idx
      <4>1. h.generation # gen
        BY <1>0, <2>0, <2>1, <3>1 DEF Handle
      <4>. QED  BY <4>1, <1>0, <2>1, <2>2, <3>1 DEF Find, Deref
    <3>2. CASE h.index # idx
      BY <1>0, <2>2, <3>2 DEF Find, Deref
    <3>. QED  BY <3>1, <3>2
  <2>. QED  BY <2>1, <2>2, <2>3, <2>4, <2>5
<1>. QED  BY <1>A, <1>B

LEMMA RemoveExpiresOne ==
  ASSUME IInv, NEW h \in Handle, RemoveLive(h)
  PROVE  /\ h \in issued /\ Find(h) /\ issued' = issued /\ ~Find(h)' /\ Deref(h)' = Null
         /\ \A k \in issued : k # h => (Find(k)' <=> Find(k)) /\ Deref(k)' = Deref(k)
<1>0. /\ slots \in Seq(Slot) /\ DOMAIN slots = 1..Len(slots) /\ issued \subseteq Handle
      /\ h.index \in 1..Len(slots) /\ slots[h.index] \in Slot
      /\ slots[h.index].generation = h.generation /\ slots[h.index].entity # Null
      /\ Find(h) /\ issued' = issued
  BY DEF IInv, TypeOK, RemoveLive, Find
<1>1. h \in issued
  <2>1. [index |-> h.index, generation |-> h.generation] \in issued
    BY <1>0 DEF IInv, IssuedInv, LiveSlots
  <2>. QED  BY <2>1 DEF Handle
<1>2. /\ DOMAIN slots' = DOMAIN slots
      /\ \A i \in 1..Len(slots) : i # h.index => slots'[i] = slots[i]
      /\ slots'[h.index].entity = Null
  BY <1>0, SMTT(40) DEF RemoveLive, Retire, Recycle, Slot
<1>3. ~Find(h)' /\ Deref(h)' = Null
  BY <1>2 DEF Find, Deref
<1>4. ASSUME NEW k \in issued, k # h
      PROVE  (Find(k)' <=> Find(k)) /\ Deref(k)' = Deref(k)
  <2>1. CASE k.index = h.index
    <3>1. k.generation # h.generation
      BY <1>0, <1>4, <2>1 DEF Handle
    <3>. QED  BY <3>1, <1>0, <1>2, <2>1 DEF Find, Deref
  <2>2. CASE k.index # h.index
    BY <1>0, <1>2, <2>2 DEF Find, Deref
  <2>. QED  BY <2>1, <2>2
<1>. QED  BY <1>0, <1>1, <1>3, <1>4

\* A handle to a freed entity never comes to name the entity's replacement.
THEOREM ResolutionDecays == Spec => ResolutionOnlyDecays
<1>. DEFINE Decay == \A h \in issued : Deref(h)' \in {Deref(h), Null}
<1>1. ASSUME IInv, [Next]_vars PROVE [Decay]_vars
  <2>1. ASSUME NEW e \in Entity, AddFresh(e) \/ AddReused(e) PROVE Decay
    BY <1>1, <2>1, AddKeepsResolution
  <2>2. ASSUME NEW h \in Handle, RemoveLive(h) PROVE Decay
    BY <1>1, <2>2, RemoveExpiresOne
  <2>3. ASSUME NEW h \in Handle, RemoveStale(h) PROVE UNCHANGED vars
    BY <2>3 DEF RemoveStale
  <2>4. CASE AddNull
    BY <2>4 DEF AddNull
  <2>. QED  BY <1>1, <2>1, <2>2, <2>3, <2>4 DEF Next, Remove
<1>. QED  BY <1>1, InductiveInvariant, PTL DEF Spec, ResolutionOnlyDecays

\* The slot map keeps the promise of HandleRegistry: every registration gets a
\* handle never issued before, and every handle dies once.
THEOREM SlotMapImplements == Spec => ImplementsRegistry
<1>. DEFINE L == [h \in {k \in issued : Find(k)} |-> Deref(h)]
<1>1. ASSUME Init PROVE Registry!RegistryInit
  <2>1. issued = {} /\ {k \in issued : Find(k)} = {}
    BY <1>1 DEF Init
  <2>. QED  BY <2>1 DEF Registry!RegistryInit
<1>2. ASSUME IInv, [Next]_vars PROVE [Registry!RegistryNext]_(Registry!registryVars)
  <2>1. ASSUME NEW e \in Entity, AddFresh(e) \/ AddReused(e) PROVE Registry!Register(e)
    <3>1. PICK new \in Handle \ issued :
           /\ new.index \in 1..MaxSlots /\ new.generation \in 1..MaxGen
           /\ issued' = issued \cup {new}
           /\ Find(new)' /\ Deref(new)' = e
           /\ \A h \in issued : (Find(h)' <=> Find(h)) /\ Deref(h)' = Deref(h)
      BY <1>2, <2>1, AddKeepsResolution
    <3>2. new \in [index : 1..MaxSlots, generation : 1..MaxGen] \ issued
      BY <3>1 DEF Handle
    <3>3. {k \in issued' : Find(k)'} = {k \in issued : Find(k)} \cup {new}
      BY <3>1
    <3>4. L' = [k \in DOMAIN L \cup {new} |-> IF k = new THEN e ELSE L[k]]
      BY <3>1, <3>3
    <3>. QED  BY <3>1, <3>2, <3>4 DEF Registry!Register
  <2>2. ASSUME NEW h \in Handle, RemoveLive(h) PROVE h \in issued /\ Registry!Expire(h)
    <3>1. /\ h \in issued /\ Find(h) /\ issued' = issued /\ ~Find(h)'
          /\ \A k \in issued : k # h => (Find(k)' <=> Find(k)) /\ Deref(k)' = Deref(k)
      BY <1>2, <2>2, RemoveExpiresOne
    <3>2. {k \in issued' : Find(k)'} = {k \in issued : Find(k)} \ {h}
      BY <3>1
    <3>3. L' = [k \in DOMAIN L \ {h} |-> L[k]]
      BY <3>1, <3>2
    <3>. QED  BY <3>1, <3>3 DEF Registry!Expire
  <2>3. CASE UNCHANGED vars
    <3>1. issued' = issued /\ slots' = slots
      BY <2>3 DEF vars
    <3>2. L' = L
      BY <3>1 DEF Find, Deref
    <3>. QED  BY <3>1, <3>2 DEF Registry!registryVars
  <2>4. ASSUME NEW h \in Handle, RemoveStale(h) PROVE UNCHANGED vars
    BY <2>4 DEF RemoveStale
  <2>5. CASE AddNull
    BY <2>3, <2>5 DEF AddNull
  <2>. QED  BY <1>2, <2>1, <2>2, <2>3, <2>4, <2>5 DEF Next, Remove, Registry!RegistryNext
<1>. QED  BY <1>1, <1>2, InductiveInvariant, PTL DEF Spec, ImplementsRegistry, Registry!RegistrySpec

-----------------------------------------------------------------------------
Pos(s, n)  == CHOOSE i \in DOMAIN s : s[i] = n
Succ(s, n) == IF Pos(s, n) = Len(s) THEN END ELSE s[Pos(s, n) + 1]
Rest(s, n) == IF n = END THEN {} ELSE {s[i] : i \in Pos(s, n)..Len(s)}

\* A list with no repetition.
IsList(s) == s \in Seq(Entity) /\ W!IsInjective(s)

\* What a walk w may know of the list s.
Sound(w, s) == /\ w \in W!Walk
               /\ w.next \in W!ToSet(s) \cup {END}
               /\ w.owed \subseteq Rest(s, w.next)
               /\ w.visited \subseteq W!ToSet(s) \ Rest(s, w.next)

WalksInv == /\ IsList(list)
            /\ walks \in Seq(W!Walk)
            /\ \A i \in DOMAIN walks : Sound(walks[i], list)

-----------------------------------------------------------------------------
\* A node has one position on a list.
LEMMA PosIs ==
    ASSUME NEW s, IsList(s), NEW n \in W!ToSet(s)
    PROVE  /\ Pos(s, n) \in 1..Len(s) /\ s[Pos(s, n)] = n
           /\ \A i \in 1..Len(s) : s[i] = n => i = Pos(s, n)
           /\ n \in Entity
BY DEF IsList, W!ToSet, W!IsInjective, Pos

\* The nodes from n on are n and those from its successor on, and n is not
\* among these.
LEMMA RestSplits ==
    ASSUME NEW s, IsList(s), NEW n \in W!ToSet(s), END \notin Entity
    PROVE  /\ Succ(s, n) \in W!ToSet(s) \cup {END}
           /\ Succ(s, n) # n
           /\ Rest(s, n) = {n} \cup Rest(s, Succ(s, n))
           /\ n \notin Rest(s, Succ(s, n))
           /\ Rest(s, n) \subseteq W!ToSet(s)
           /\ Rest(s, Succ(s, n)) \subseteq W!ToSet(s)
<1>1. /\ Pos(s, n) \in 1..Len(s) /\ s[Pos(s, n)] = n /\ n # END
      /\ Len(s) \in Nat /\ DOMAIN s = 1..Len(s)
  BY PosIs DEF IsList
<1>2. W!ToSet(s) = {s[i] : i \in 1..Len(s)}
  BY <1>1 DEF W!ToSet
<1>3. Rest(s, n) = {s[i] : i \in Pos(s, n)..Len(s)}
  BY <1>1 DEF Rest
<1>4. CASE Pos(s, n) = Len(s)
  <2>1. Succ(s, n) = END /\ Rest(s, Succ(s, n)) = {}
    BY <1>4 DEF Succ, Rest
  <2>2. Rest(s, n) = {n}
    BY <1>1, <1>3, <1>4
  <2> QED
    BY <2>1, <2>2, <1>1
<1>5. CASE Pos(s, n) # Len(s)
  <2> DEFINE p == Pos(s, n)
             m == s[p + 1]
  <2>1. p \in 1..Len(s) /\ p + 1 \in 1..Len(s)
    BY <1>1, <1>5
  <2>2. Succ(s, n) = m /\ m \in W!ToSet(s)
    BY <2>1, <1>2, <1>5 DEF Succ
  <2>3. Pos(s, m) = p + 1 /\ m # END
    BY <2>1, <2>2, PosIs
  <2>4. Rest(s, m) = {s[i] : i \in (p + 1)..Len(s)}
    BY <2>3 DEF Rest
  <2>5. \A i \in (p + 1)..Len(s) : s[i] # n
    BY <1>1, <2>1 DEF IsList, W!IsInjective
  <2> HIDE DEF p, m
  <2>6. p..Len(s) = {p} \cup ((p + 1)..Len(s)) /\ s[p] = n /\ (p + 1)..Len(s) \subseteq 1..Len(s)
    BY <1>1, <2>1 DEF p
  <2>7. Rest(s, n) = {n} \cup Rest(s, m)
    BY <1>3, <2>4, <2>6 DEF p
  <2>8. Rest(s, m) \subseteq W!ToSet(s) /\ n \notin Rest(s, m) /\ m # n
    BY <2>4, <2>5, <2>6, <2>1, <1>2 DEF m
  <2> QED
    BY <2>2, <2>7, <2>8
<1> QED
  BY <1>4, <1>5

\* From the first node on, and from the end on.
LEMMA RestFromFirst ==
    ASSUME NEW s, IsList(s), s # <<>>, END \notin Entity
    PROVE  Head(s) \in W!ToSet(s) /\ Rest(s, Head(s)) = W!ToSet(s)
<1>1. Len(s) \in Nat \ {0} /\ DOMAIN s = 1..Len(s) /\ Head(s) = s[1]
  BY DEF IsList
<1>2. Head(s) \in W!ToSet(s)
  BY <1>1 DEF W!ToSet
<1>3. Pos(s, Head(s)) = 1 /\ Head(s) # END
  BY <1>1, <1>2, PosIs
<1> QED
  BY <1>1, <1>2, <1>3 DEF Rest, W!ToSet

-----------------------------------------------------------------------------
\* A node put in front of a list is behind every walk over it ...
LEMMA FrontIsBehind ==
    ASSUME NEW s, IsList(s), NEW n \in Entity \ W!ToSet(s), END \notin Entity
    PROVE  /\ IsList(<<n>> \o s) /\ W!ToSet(<<n>> \o s) = W!ToSet(s) \cup {n}
           /\ \A m \in W!ToSet(s) \cup {END} : Rest(<<n>> \o s, m) = Rest(s, m)
<1> DEFINE t == <<n>> \o s
<1>1. /\ t \in Seq(Entity) /\ Len(t) = Len(s) + 1 /\ t[1] = n /\ Len(s) \in Nat
      /\ \A i \in 1..Len(s) : t[i + 1] = s[i]
      /\ DOMAIN t = 1..Len(t) /\ DOMAIN s = 1..Len(s)
  BY DEF IsList
<1> HIDE DEF t
<1>2. \A i \in 2..Len(t) : i - 1 \in 1..Len(s) /\ t[i] = s[i - 1]
  BY <1>1
<1>3. \A i \in 1..Len(s) : s[i] # n
  BY <1>1 DEF W!ToSet
<1>4. IsList(t)
  <2> SUFFICES ASSUME NEW i \in 1..Len(t), NEW j \in 1..Len(t), t[i] = t[j]
               PROVE  i = j
    BY <1>1 DEF IsList, W!IsInjective
  <2>1. CASE i = 1 \/ j = 1
    BY <2>1, <1>1, <1>2, <1>3
  <2>2. CASE i # 1 /\ j # 1
    <3>1. s[i - 1] = s[j - 1] /\ i - 1 \in 1..Len(s) /\ j - 1 \in 1..Len(s)
      BY <2>2, <1>1, <1>2
    <3>2. i - 1 = j - 1
      BY <3>1, <1>1 DEF IsList, W!IsInjective
    <3> QED
      BY <3>2
  <2> QED
    BY <2>1, <2>2
<1>5. W!ToSet(t) = W!ToSet(s) \cup {n}
  <2>1. ASSUME NEW x \in W!ToSet(t) PROVE x \in W!ToSet(s) \cup {n}
    <3> PICK i \in 1..Len(t) : x = t[i]
      BY <1>1 DEF W!ToSet
    <3> QED
      BY <1>1, <1>2 DEF W!ToSet
  <2>2. ASSUME NEW x \in W!ToSet(s) PROVE x \in W!ToSet(t)
    <3> PICK i \in 1..Len(s) : x = s[i]
      BY <1>1 DEF W!ToSet
    <3> i + 1 \in 1..Len(t) /\ t[i + 1] = x
      BY <1>1
    <3> QED
      BY <1>1 DEF W!ToSet
  <2>3. n \in W!ToSet(t)
    BY <1>1 DEF W!ToSet
  <2> QED
    BY <2>1, <2>2, <2>3
<1>6. ASSUME NEW m \in W!ToSet(s) PROVE Rest(t, m) = Rest(s, m)
  <2>1. /\ Pos(s, m) \in 1..Len(s) /\ s[Pos(s, m)] = m
        /\ Pos(t, m) \in 1..Len(t) /\ t[Pos(t, m)] = m /\ m # END
        /\ \A i \in 1..Len(t) : t[i] = m => i = Pos(t, m)
    BY <1>4, <1>5, PosIs
  <2>2. Pos(t, m) = Pos(s, m) + 1
    BY <2>1, <1>1
  <2>3. Rest(t, m) = {t[i] : i \in (Pos(s, m) + 1)..Len(t)}
    BY <2>1, <2>2 DEF Rest
  <2>4. Rest(s, m) = {s[i] : i \in Pos(s, m)..Len(s)}
    BY <2>1 DEF Rest
  <2>5. ASSUME NEW x \in Rest(t, m) PROVE x \in Rest(s, m)
    <3>1. PICK i \in (Pos(s, m) + 1)..Len(t) : x = t[i]
      BY <2>3
    <3>2. i \in 2..Len(t) /\ i - 1 \in Pos(s, m)..Len(s)
      BY <2>1, <1>1
    <3>3. t[i] = s[i - 1]
      BY <3>2, <1>2
    <3> QED
      BY <2>4, <3>1, <3>2, <3>3
  <2>6. ASSUME NEW x \in Rest(s, m) PROVE x \in Rest(t, m)
    <3>1. PICK i \in Pos(s, m)..Len(s) : x = s[i]
      BY <2>4
    <3>2. i + 1 \in (Pos(s, m) + 1)..Len(t) /\ i \in 1..Len(s)
      BY <2>1, <1>1
    <3>3. t[i + 1] = s[i]
      BY <3>2, <1>1
    <3> QED
      BY <2>3, <3>1, <3>2, <3>3
  <2> QED
    BY <2>5, <2>6
<1>7. Rest(t, END) = Rest(s, END)
  BY DEF Rest
<1> QED
  BY <1>4, <1>5, <1>6, <1>7 DEF t

\* ... and one put behind it is ahead of every walk that has not come to the end.
LEMMA BackIsAhead ==
    ASSUME NEW s, IsList(s), NEW n \in Entity \ W!ToSet(s), END \notin Entity
    PROVE  /\ IsList(Append(s, n)) /\ W!ToSet(Append(s, n)) = W!ToSet(s) \cup {n}
           /\ \A m \in W!ToSet(s) : Rest(Append(s, n), m) = Rest(s, m) \cup {n}
           /\ Rest(Append(s, n), END) = {}
<1> DEFINE t == Append(s, n)
<1>1. /\ t \in Seq(Entity) /\ Len(t) = Len(s) + 1 /\ t[Len(s) + 1] = n /\ Len(s) \in Nat
      /\ \A i \in 1..Len(s) : t[i] = s[i]
      /\ DOMAIN t = 1..Len(t) /\ DOMAIN s = 1..Len(s)
  BY DEF IsList
<1> HIDE DEF t
<1>2. 1..Len(t) = (1..Len(s)) \cup {Len(s) + 1}
  BY <1>1
<1>3. \A i \in 1..Len(s) : s[i] # n
  BY <1>1 DEF W!ToSet
<1>4. IsList(t)
  BY <1>1, <1>2, <1>3 DEF IsList, W!IsInjective
<1>5. W!ToSet(t) = W!ToSet(s) \cup {n}
  BY <1>1, <1>2 DEF W!ToSet
<1>6. ASSUME NEW m \in W!ToSet(s) PROVE Rest(t, m) = Rest(s, m) \cup {n}
  <2>1. /\ Pos(s, m) \in 1..Len(s) /\ s[Pos(s, m)] = m
        /\ Pos(t, m) \in 1..Len(t) /\ t[Pos(t, m)] = m /\ m # END
        /\ \A i \in 1..Len(t) : t[i] = m => i = Pos(t, m)
    BY <1>4, <1>5, PosIs
  <2>2. Pos(t, m) = Pos(s, m)
    BY <2>1, <1>1
  <2>3. /\ Pos(s, m)..Len(t) = (Pos(s, m)..Len(s)) \cup {Len(s) + 1}
        /\ Pos(s, m)..Len(s) \subseteq 1..Len(s)
    BY <2>1, <1>1
  <2>4. Rest(t, m) = {t[i] : i \in Pos(s, m)..Len(t)} /\ Rest(s, m) = {s[i] : i \in Pos(s, m)..Len(s)}
    BY <2>1, <2>2 DEF Rest
  <2> QED
    BY <2>3, <2>4, <1>1
<1> QED
  BY <1>4, <1>5, <1>6 DEF t, Rest

\* A node erased is gone from the list and from what is ahead of each walk; the
\* node after it now follows what came before.
LEMMA EraseStepsOver ==
    ASSUME NEW s, IsList(s), NEW n \in W!ToSet(s), END \notin Entity,
           NEW t, t = W!RemoveAt(s, Pos(s, n))
    PROVE  /\ IsList(t) /\ W!ToSet(t) = W!ToSet(s) \ {n}
           /\ \A m \in (W!ToSet(s) \ {n}) \cup {END} : Rest(t, m) = Rest(s, m) \ {n}
<1> DEFINE p == Pos(s, n)
<1>1. p \in 1..Len(s) /\ s[p] = n /\ n # END /\ Len(s) \in Nat /\ DOMAIN s = 1..Len(s)
  BY PosIs DEF IsList
<1>2. \A i \in 1..Len(s) : s[i] = n => i = p
  BY PosIs
<1> DEFINE before == SubSeq(s, 1, p - 1)
           after == SubSeq(s, p + 1, Len(s))
<1>3. t = before \o after
  BY DEF W!RemoveAt
<1> HIDE DEF p
<1>4. /\ before \in Seq(Entity) /\ Len(before) = p - 1
      /\ \A i \in 1..(p - 1) : before[i] = s[i]
  BY <1>1 DEF IsList
<1>5. /\ after \in Seq(Entity) /\ Len(after) = Len(s) - p
      /\ \A i \in 1..(Len(s) - p) : after[i] = s[i + p]
  <2>1. \A i \in (p + 1)..Len(s) : s[i] \in Entity
    BY <1>1 DEF IsList
  <2>2. /\ after \in Seq(Entity) /\ Len(after) = IF p + 1 <= Len(s) THEN Len(s) - (p + 1) + 1 ELSE 0
        /\ \A i \in 1..(Len(s) - (p + 1) + 1) : after[i] = s[(p + 1) + i - 1]
    BY <2>1, <1>1, SubSeqProperties
  <2> HIDE DEF before, after
  <2>3. ASSUME NEW i \in 1..(Len(s) - p) PROVE after[i] = s[i + p]
    <3>1. i \in 1..(Len(s) - (p + 1) + 1) /\ (p + 1) + i - 1 = i + p
      BY <1>1
    <3> QED
      BY <3>1, <2>2
  <2>4. Len(after) = Len(s) - p
    <3>1. p \in Int /\ Len(s) \in Int /\ p <= Len(s)
      BY <1>1
    <3>2. CASE p + 1 <= Len(s)
      <4>1. Len(after) = Len(s) - (p + 1) + 1
        BY <3>2, <2>2, Zenon
      <4> QED
        BY ONLY <4>1, <3>1
    <3>3. CASE ~(p + 1 <= Len(s))
      <4>1. Len(after) = 0
        BY <3>3, <2>2, Zenon
      <4> QED
        BY ONLY <4>1, <3>1, <3>3
    <3> QED
      BY <3>2, <3>3
  <2> QED
    BY <2>2, <2>3, <2>4
<1> HIDE DEF before, after
<1>6. /\ t \in Seq(Entity) /\ Len(t) = Len(s) - 1 /\ DOMAIN t = 1..Len(t)
      /\ \A i \in 1..Len(t) : t[i] = IF i <= Len(before) THEN before[i] ELSE after[i - Len(before)]
  <2>1. /\ t \in Seq(Entity) /\ Len(t) = Len(before) + Len(after)
        /\ \A i \in 1..(Len(before) + Len(after)) :
              t[i] = IF i <= Len(before) THEN before[i] ELSE after[i - Len(before)]
    <3>1. before \in Seq(Entity) /\ after \in Seq(Entity)
      BY <1>4, <1>5
    <3> QED
      BY ONLY <3>1, <1>3, ConcatProperties, Zenon
  <2> QED
    BY <2>1, <1>1, <1>4, <1>5
<1>7. \A i \in 1..Len(t) : t[i] = IF i < p THEN s[i] ELSE s[i + 1]
  <2> TAKE i \in 1..Len(t)
  <2>1. CASE i < p
    <3>1. t[i] = before[i]
      BY <2>1, <1>1, <1>4, <1>6
    <3> QED
      BY <3>1, <2>1, <1>1, <1>4
  <2>2. CASE i >= p
    <3>1. t[i] = after[i - (p - 1)] /\ i - (p - 1) \in 1..(Len(s) - p)
      BY <2>2, <1>1, <1>4, <1>6
    <3>2. after[i - (p - 1)] = s[i - (p - 1) + p] /\ i - (p - 1) + p = i + 1
      BY <3>1, <1>5, <1>1
    <3> QED
      BY <3>1, <3>2, <2>2, <1>1
  <2> QED
    BY <2>1, <2>2, <1>1
\* Where a place of the shorter list was in the longer, and back.
<1> DEFINE up(i) == IF i < p THEN i ELSE i + 1
           down(i) == IF i < p THEN i ELSE i - 1
<1>8. \A i \in 1..Len(t) : up(i) \in 1..Len(s) /\ up(i) # p /\ t[i] = s[up(i)]
  BY <1>1, <1>6, <1>7
<1>9. \A i \in 1..Len(s) : i # p => down(i) \in 1..Len(t) /\ t[down(i)] = s[i] /\ up(down(i)) = i
  BY <1>1, <1>6, <1>7
<1>10. IsList(t)
  <2> SUFFICES ASSUME NEW i \in 1..Len(t), NEW j \in 1..Len(t), t[i] = t[j]
               PROVE  i = j
    BY <1>6 DEF IsList, W!IsInjective
  <2>1. up(i) = up(j)
    <3>1. up(i) \in 1..Len(s) /\ up(j) \in 1..Len(s) /\ s[up(i)] = s[up(j)]
      BY <1>8
    <3> HIDE DEF up
    <3> QED
      BY <3>1, <1>1 DEF IsList, W!IsInjective
  <2> QED
    BY <2>1, <1>1, <1>6
<1>11. W!ToSet(t) = W!ToSet(s) \ {n}
  <2>1. ASSUME NEW x \in W!ToSet(t) PROVE x \in W!ToSet(s) \ {n}
    <3> PICK i \in 1..Len(t) : x = t[i]
      BY <1>6 DEF W!ToSet
    <3>1. up(i) \in 1..Len(s) /\ up(i) # p /\ x = s[up(i)]
      BY <1>8
    <3> HIDE DEF up
    <3> QED
      BY <3>1, <1>1, <1>2 DEF W!ToSet
  <2>2. ASSUME NEW x \in W!ToSet(s) \ {n} PROVE x \in W!ToSet(t)
    <3>1. PICK i \in 1..Len(s) : x = s[i]
      BY <1>1 DEF W!ToSet
    <3>2. i # p
      BY <3>1, <1>1
    <3>3. down(i) \in 1..Len(t) /\ t[down(i)] = x
      BY <3>1, <3>2, <1>9
    <3> HIDE DEF down
    <3> QED
      BY <3>3, <1>6 DEF W!ToSet
  <2> QED
    BY <2>1, <2>2
<1>12. ASSUME NEW m \in W!ToSet(s) \ {n} PROVE Rest(t, m) = Rest(s, m) \ {n}
  <2>1. /\ Pos(s, m) \in 1..Len(s) /\ s[Pos(s, m)] = m /\ m # END
        /\ Pos(t, m) \in 1..Len(t) /\ t[Pos(t, m)] = m
        /\ \A i \in 1..Len(s) : s[i] = m => i = Pos(s, m)
    BY <1>10, <1>11, PosIs
  <2>2. up(Pos(t, m)) = Pos(s, m)
    BY <2>1, <1>8
  <2>3. Rest(t, m) = {t[i] : i \in Pos(t, m)..Len(t)} /\ Rest(s, m) = {s[i] : i \in Pos(s, m)..Len(s)}
    BY <2>1 DEF Rest
  <2>4. ASSUME NEW x \in Rest(t, m) PROVE x \in Rest(s, m) \ {n}
    <3>1. PICK i \in Pos(t, m)..Len(t) : x = t[i]
      BY <2>3
    <3>2. i \in 1..Len(t) /\ up(i) \in Pos(s, m)..Len(s)
      BY <2>1, <2>2, <1>1, <1>6
    <3>3. x = s[up(i)] /\ up(i) # p /\ up(i) \in 1..Len(s)
      BY <3>1, <3>2, <1>8
    <3> HIDE DEF up
    <3> QED
      BY <2>3, <3>2, <3>3, <1>2
  <2>5. ASSUME NEW x \in Rest(s, m) \ {n} PROVE x \in Rest(t, m)
    <3>1. PICK i \in Pos(s, m)..Len(s) : x = s[i]
      BY <2>3
    <3>2. i \in 1..Len(s) /\ i # p
      BY <3>1, <2>1, <1>1
    <3>3. down(i) \in 1..Len(t) /\ t[down(i)] = x /\ up(down(i)) = i
      BY <3>1, <3>2, <1>9
    <3>4. down(i) \in Pos(t, m)..Len(t)
      BY <3>1, <3>2, <3>3, <2>1, <2>2, <1>1, <1>6
    <3> HIDE DEF up, down
    <3> QED
      BY <2>3, <3>3, <3>4
  <2> QED
    BY <2>4, <2>5
<1> QED
  BY <1>10, <1>11, <1>12 DEF Rest

-----------------------------------------------------------------------------
\* The model's operators are these, on the list as it is.
LEMMA OnTheList ==
    /\ \A n : W!PositionOf(n) = Pos(list, n) /\ W!Successor(n) = Succ(list, n)
    /\ \A n : W!From(n) = Rest(list, n)
BY DEF W!PositionOf, Pos, W!Successor, Succ, W!From, Rest

\* A walk that moves onto the node it had saved is as sound as it was.
LEMMA ArriveSound ==
    ASSUME IsList(list), END \notin Entity, NEW w \in W!Walk, NEW n \in W!ToSet(list) \cup {END},
           w.owed \subseteq Rest(list, n), w.visited \subseteq W!ToSet(list) \ Rest(list, n)
    PROVE  Sound(W!Arrive(n, w), list)
<1>1. W!Successor(n) = Succ(list, n)
  BY OnTheList
<1>2. W!ToSet(list) \subseteq Entity
  BY DEF IsList, W!ToSet
<1>3. CASE n = END
  <2>1. Rest(list, END) = {} /\ w.owed = {}
    BY <1>3 DEF Rest
  <2>2. W!Arrive(n, w) = [w EXCEPT !.current = END, !.next = END, !.owed = {}]
    BY <1>3, <2>1 DEF W!Arrive, W!Walk
  <2> HIDE DEF W!Arrive
  <2> QED
    BY <2>1, <2>2, <1>3 DEF Sound, W!Walk
<1>4. CASE n # END
  <2>1. /\ Succ(list, n) \in W!ToSet(list) \cup {END}
        /\ Rest(list, n) = {n} \cup Rest(list, Succ(list, n))
        /\ n \notin Rest(list, Succ(list, n))
    BY <1>4, RestSplits
  <2>2. W!Arrive(n, w) = [w EXCEPT !.current = n, !.next = Succ(list, n),
                                 !.owed = @ \ {n}, !.visited = @ \cup {n}]
    BY <1>1, <1>4 DEF W!Arrive
  <2> DEFINE a == W!Arrive(n, w)
  <2>3. n \in Entity /\ Succ(list, n) \in Entity \cup {END}
    BY <2>1, <1>2, <1>4
  <2>4. a \in W!Walk
    BY <2>2, <2>3, ZenonT(40) DEF W!Walk
  <2>5. a.next = Succ(list, n) /\ a.owed = w.owed \ {n} /\ a.visited = w.visited \cup {n}
    BY <2>2 DEF W!Walk
  <2> HIDE DEF a
  <2>6. a.owed \subseteq Rest(list, a.next) /\ a.visited \subseteq W!ToSet(list) \ Rest(list, a.next)
    BY <2>1, <2>5, <1>4
  <2> QED
    BY <2>1, <2>4, <2>5, <2>6 DEF Sound, a
<1> QED
  BY <1>3, <1>4

\* What Advance makes of a walk is sound over the list without the node.
LEMMA AdvanceSound ==
    ASSUME IsList(list), END \notin Entity, NEW n \in W!ToSet(list), NEW t,
           t = W!RemoveAt(list, W!PositionOf(n)),
           NEW i \in DOMAIN walks, Sound(walks[i], list)
    PROVE  Sound(W!Advanced(n, i), t)
<1> DEFINE w == walks[i]
           m == IF w.next = n THEN Succ(list, n) ELSE w.next
<1>1. /\ W!ToSet(t) = W!ToSet(list) \ {n}
      /\ \A k \in (W!ToSet(list) \ {n}) \cup {END} : Rest(t, k) = Rest(list, k) \ {n}
  BY OnTheList, EraseStepsOver
<1>2. /\ Succ(list, n) \in (W!ToSet(list) \ {n}) \cup {END}
      /\ Rest(list, n) = {n} \cup Rest(list, Succ(list, n))
      /\ n \notin Rest(list, Succ(list, n))
  BY RestSplits
<1>3. n # END /\ W!ToSet(list) \subseteq Entity
  BY DEF IsList, W!ToSet
<1>4. /\ m \in W!ToSet(t) \cup {END}
      /\ Rest(t, m) = Rest(list, w.next) \ {n}
  BY <1>1, <1>2, <1>3 DEF Sound
<1>5. W!Advanced(n, i) = [w EXCEPT !.next = m, !.owed = @ \ {n}, !.visited = @ \ {n}]
  BY OnTheList DEF W!Advanced
<1> DEFINE a == W!Advanced(n, i)
<1> HIDE DEF m
<1>6. w \in W!Walk /\ m \in Entity \cup {END}
  BY <1>1, <1>3, <1>4 DEF Sound
<1>7. a \in W!Walk
  BY <1>5, <1>6 DEF W!Walk
<1>8. a.next = m /\ a.owed = w.owed \ {n} /\ a.visited = w.visited \ {n}
  BY <1>5, <1>6 DEF W!Walk
<1> HIDE DEF a
<1>9. a.owed \subseteq Rest(t, m) /\ a.visited \subseteq W!ToSet(t) \ Rest(t, m)
  BY <1>1, <1>4, <1>8 DEF Sound
<1> QED
  BY <1>4, <1>7, <1>8, <1>9 DEF Sound, a

-----------------------------------------------------------------------------
\* The walks in flight but for the innermost.
LEMMA FrontIs ==
    ASSUME walks \in Seq(W!Walk), walks # <<>>
    PROVE  /\ W!Front(walks) \in Seq(W!Walk) /\ Len(W!Front(walks)) = Len(walks) - 1
           /\ \A i \in 1..(Len(walks) - 1) : W!Front(walks)[i] = walks[i]
<1>1. Len(walks) \in Nat \ {0} /\ \A i \in 1..(Len(walks) - 1) : walks[i] \in W!Walk
  OBVIOUS
<1> DEFINE k == Len(walks) - 1
<1>2. k \in Nat /\ 1 \in Int /\ k \in Int
  BY <1>1
<1> HIDE DEF k
<1>3. /\ SubSeq(walks, 1, k) \in Seq(W!Walk)
      /\ Len(SubSeq(walks, 1, k)) = IF 1 <= k THEN k - 1 + 1 ELSE 0
      /\ \A i \in 1..(k - 1 + 1) : SubSeq(walks, 1, k)[i] = walks[1 + i - 1]
  BY <1>1, <1>2, SubSeqProperties DEF k
<1>4. Len(SubSeq(walks, 1, k)) = k
  BY <1>2, <1>3
<1>5. \A i \in 1..k : SubSeq(walks, 1, k)[i] = walks[i]
  BY <1>2, <1>3
<1> QED
  BY <1>3, <1>4, <1>5 DEF W!Front, k

LEMMA InitSound == W!Init => WalksInv
<1>1. <<>> \in Seq(Entity) /\ <<>> \in Seq(W!Walk) /\ DOMAIN <<>> = {}
  OBVIOUS
<1> QED
  BY <1>1 DEF W!Init, WalksInv, IsList, W!IsInjective

\* No step makes a walk lose its place.
LEMMA NextSound ==
    ASSUME END \notin Entity, WalksInv, [W!Next]_(W!vars)
    PROVE  WalksInv'
<1> USE DEF WalksInv
<1>1. CASE W!StartWalk
  <2> DEFINE w == [current |-> END, next |-> END, owed |-> W!ToSet(list), visited |-> {}]
  <2>1. list' = list /\ walks' = Append(walks, W!Arrive(W!First, w))
    BY <1>1 DEF W!StartWalk
  <2>2. w \in W!Walk
    BY DEF W!Walk, IsList, W!ToSet
  <2>3. W!First \in W!ToSet(list) \cup {END} /\ W!ToSet(list) = Rest(list, W!First)
    <3>1. CASE list = <<>>
      BY <3>1 DEF W!First, W!ToSet, Rest
    <3>2. CASE list # <<>>
      BY <3>2, RestFromFirst DEF W!First
    <3> QED
      BY <3>1, <3>2
  <2>4. Sound(W!Arrive(W!First, w), list)
    <3> HIDE DEF w
    <3>1. w.owed = W!ToSet(list) /\ w.visited = {}
      BY DEF w
    <3> QED
      BY <2>2, <2>3, <3>1, ArriveSound
  <2> HIDE DEF w
  <2>5. W!Arrive(W!First, w) \in W!Walk
    BY <2>4 DEF Sound
  <2> QED
    BY <2>1, <2>4, <2>5
<1>2. CASE W!Step
  <2> DEFINE k == Len(walks)
             w == walks[k]
  <2>1. /\ list' = list /\ walks # <<>>
        /\ walks' = Append(W!Front(walks), W!Arrive(w.next, w))
    BY <1>2 DEF W!Step, W!Last
  <2>2. k \in Nat \ {0} /\ DOMAIN walks = 1..k
    BY <2>1
  <2>3. Sound(w, list) /\ w \in W!Walk
    BY <2>2 DEF Sound
  <2>4. Sound(W!Arrive(w.next, w), list) /\ W!Arrive(w.next, w) \in W!Walk
    <3>1. Sound(W!Arrive(w.next, w), list)
      BY <2>3, ArriveSound DEF Sound
    <3> QED
      BY <3>1 DEF Sound
  <2>5. /\ W!Front(walks) \in Seq(W!Walk) /\ Len(W!Front(walks)) = k - 1
        /\ \A i \in 1..(k - 1) : W!Front(walks)[i] = walks[i]
    BY <2>1, FrontIs
  <2> HIDE DEF k, w
  <2>6. /\ walks' \in Seq(W!Walk) /\ Len(walks') = k
        /\ \A i \in 1..(k - 1) : walks'[i] = walks[i]
        /\ walks'[k] = W!Arrive(w.next, w)
    BY <2>1, <2>2, <2>4, <2>5
  <2> QED
    BY <2>1, <2>2, <2>4, <2>6
<1>3. CASE W!EndWalk
  <2>1. list' = list /\ walks # <<>> /\ walks' = W!Front(walks)
    BY <1>3 DEF W!EndWalk
  <2>2. /\ walks' \in Seq(W!Walk) /\ Len(walks') = Len(walks) - 1
        /\ \A i \in 1..(Len(walks) - 1) : walks'[i] = walks[i]
    BY <2>1, FrontIs
  <2> QED
    BY <2>1, <2>2
<1>4. ASSUME NEW n \in Entity, W!PushFront(n) PROVE WalksInv'
  <2>1. list' = <<n>> \o list /\ walks' = walks /\ n \notin W!ToSet(list)
    BY <1>4 DEF W!PushFront
  <2>2. /\ IsList(list') /\ W!ToSet(list') = W!ToSet(list) \cup {n}
        /\ \A m \in W!ToSet(list) \cup {END} : Rest(list', m) = Rest(list, m)
    BY <2>1, FrontIsBehind
  <2>3. n \notin W!ToSet(list) /\ \A m \in W!ToSet(list) \cup {END} : Rest(list, m) \subseteq W!ToSet(list)
    BY <2>1, RestSplits DEF Rest
  <2> QED
    BY <2>1, <2>2, <2>3 DEF Sound
<1>5. ASSUME NEW n \in Entity, W!PushBack(n) PROVE WalksInv'
  <2>1. list' = Append(list, n) /\ walks' = walks /\ n \notin W!ToSet(list)
    BY <1>5 DEF W!PushBack
  <2>2. /\ IsList(list') /\ W!ToSet(list') = W!ToSet(list) \cup {n}
        /\ \A m \in W!ToSet(list) : Rest(list', m) = Rest(list, m) \cup {n}
        /\ Rest(list', END) = {} /\ Rest(list, END) = {}
    <3>1. Rest(list, END) = {}
      BY DEF Rest
    <3> QED
      BY <2>1, <3>1, BackIsAhead
  <2>3. ASSUME NEW i \in DOMAIN walks PROVE Sound(walks[i], list')
    <3>1. CASE walks[i].next = END
      BY <2>2, <3>1 DEF Sound
    <3>2. CASE walks[i].next # END
      BY <2>1, <2>2, <3>2 DEF Sound
    <3> QED
      BY <3>1, <3>2
  <2> QED
    BY <2>1, <2>2, <2>3
<1>6. ASSUME NEW n \in Entity, W!Erase(n) PROVE WalksInv'
  <2>1. /\ n \in W!ToSet(list) /\ list' = W!RemoveAt(list, W!PositionOf(n))
        /\ walks' = [i \in DOMAIN walks |-> W!Advanced(n, i)]
    BY <1>6 DEF W!Erase
  <2>2. IsList(list')
    BY <2>1, OnTheList, EraseStepsOver
  <2>3. \A i \in DOMAIN walks : Sound(W!Advanced(n, i), list') /\ W!Advanced(n, i) \in W!Walk
    <3> TAKE i \in DOMAIN walks
    <3>1. Sound(W!Advanced(n, i), list')
      BY <2>1, AdvanceSound
    <3> QED
      BY <3>1 DEF Sound
  <2>4. walks' \in Seq(W!Walk) /\ DOMAIN walks' = DOMAIN walks
    <3>1. DOMAIN walks = 1..Len(walks) /\ Len(walks) \in Nat
      OBVIOUS
    <3> QED
      BY <2>1, <2>3, <3>1
  <2> QED
    BY <2>1, <2>2, <2>3, <2>4
<1>7. CASE UNCHANGED W!vars
  BY <1>7 DEF W!vars
<1> QED
  BY <1>1, <1>2, <1>3, <1>4, <1>5, <1>6, <1>7 DEF W!Next

\* What is sound is what the properties say.
LEMMA SoundSuffices ==
    WalksInv => W!CursorsOnList /\ W!NothingSkipped /\ W!NothingVisitedTwice
BY OnTheList DEF WalksInv, Sound, W!CursorsOnList, W!NothingSkipped, W!NothingVisitedTwice

-----------------------------------------------------------------------------
\* In the table of slots tbl, h is the handle of the entity e.
Names(tbl, h, e) == /\ h.generation # 0 /\ h.index \in DOMAIN tbl
                    /\ tbl[h.index].generation = h.generation
                    /\ tbl[h.index].entity = e

\* Slots and entities name each other, and the list holds entities.
SelfInv == /\ self \in [Entity -> Handle]
           /\ \A e \in Entities : Names(slots, self[e], e)
           /\ \A h \in issued, e \in Entity : Names(slots, h, e) => e \in Entities /\ self[e] = h
           /\ Listed \subseteq Entities

StorageInv == /\ IInv
              /\ WalksInv
              /\ Len(walks) <= MaxDepth
              /\ SelfInv

-----------------------------------------------------------------------------
\* So what a step does to the list keeps the walks sound.
LEMMA WalkStep ==
    ASSUME WalksInv, Len(walks) <= MaxDepth,
           \/ W!StartWalk \/ W!Step \/ W!EndWalk \/ UNCHANGED walkVars
           \/ \E e \in Entity : W!PushFront(e) \/ W!PushBack(e) \/ W!Erase(e)
    PROVE  WalksInv' /\ Len(walks') <= MaxDepth
<1>1. WalksInv'
  <2>1. [W!Next]_(W!vars)
    BY Zenon DEF W!Next, W!vars, walkVars
  <2> QED
    BY <2>1, StorageAssumption, NextSound
<1>2. walks \in Seq(W!Walk) /\ Len(walks) \in Nat /\ MaxDepth \in Nat
  BY StorageAssumption DEF WalksInv
<1>3. CASE W!StartWalk
  <2>1. PICK w : walks' = Append(walks, w)
    BY <1>3 DEF W!StartWalk
  <2>2. Len(walks) < MaxDepth
    BY <1>3 DEF W!StartWalk
  <2> QED
    BY <1>1, <1>2, <2>1, <2>2
<1>4. CASE W!Step
  <2>1. PICK w : walks' = Append(W!Front(walks), w)
    BY <1>4, Zenon DEF W!Step
  <2>2. walks # <<>>
    BY <1>4 DEF W!Step
  <2>3. Len(W!Front(walks)) = Len(walks) - 1 /\ W!Front(walks) \in Seq(W!Walk)
    BY <1>2, <2>2, FrontIs
  <2> QED
    BY <1>1, <1>2, <2>1, <2>3
<1>5. CASE W!EndWalk
  <2>1. walks' = W!Front(walks) /\ walks # <<>>
    BY <1>5, Zenon DEF W!EndWalk
  <2>2. Len(W!Front(walks)) = Len(walks) - 1
    BY <1>2, <2>1, FrontIs
  <2> QED
    BY <1>1, <1>2, <2>1, <2>2
<1>6. CASE UNCHANGED walkVars \/ \E e \in Entity : W!PushFront(e) \/ W!PushBack(e)
  BY <1>1, <1>6 DEF walkVars, W!PushFront, W!PushBack
<1>7. ASSUME NEW e \in Entity, W!Erase(e) PROVE Len(walks') <= MaxDepth
  <2>1. walks' = [i \in 1..Len(walks) |-> W!Advanced(e, i)]
    BY <1>2, <1>7 DEF W!Erase
  <2> QED
    BY <1>2, <2>1
<1> QED
  BY <1>1, <1>3, <1>4, <1>5, <1>6, <1>7

\* What the list holds, as the composition and the list's module call it.
LEMMA ListedIs == Listed = W!ToSet(list) /\ Listed' = W!ToSet(list')
BY DEF Listed, W!ToSet

-----------------------------------------------------------------------------
\* Names is what the map's Find and Deref say, before and after a step.
LEMMA NamesIs ==
    /\ \A h, e : e \in Entity => (Names(slots, h, e) <=> Find(h) /\ Deref(h) = e)
    /\ \A h, e : e \in Entity => (Names(slots', h, e) <=> Find(h)' /\ Deref(h)' = e)
<1>1. \A e \in Entity : e # Null
  BY SlotMapAssumption
<1>2. ASSUME NEW h, NEW e \in Entity PROVE Names(slots, h, e) <=> Find(h) /\ Deref(h) = e
  BY <1>1 DEF Names, Find, Deref
<1>3. ASSUME NEW h, NEW e \in Entity PROVE Names(slots', h, e) <=> Find(h)' /\ Deref(h)' = e
  BY <1>1 DEF Names, Find, Deref
<1> QED
  BY <1>2, <1>3

\* A handle that names an entity has been issued.
LEMMA NamedIsIssued ==
    ASSUME IInv, NEW h \in Handle, NEW e \in Entity, Names(slots, h, e)
    PROVE  h \in issued
<1>1. h.index \in LiveSlots /\ h = [index |-> h.index, generation |-> slots[h.index].generation]
  BY SlotMapAssumption DEF Names, LiveSlots, Handle
<1> QED
  BY <1>1 DEF IInv, IssuedInv

\* The handle Add returns is the next one, which nobody was given.
LEMMA AddReturns ==
    ASSUME IInv, NEW e \in Entity, AddFresh(e) \/ AddReused(e), NEW h, h = NextHandle
    PROVE  /\ h \in Handle \ issued
           /\ issued' = issued \cup {h}
           /\ Names(slots', h, e)
           /\ \A x \in Entity : Names(slots', h, x) => x = e
           /\ \A k \in issued, x \in Entity : Names(slots', k, x) <=> Names(slots, k, x)
<1>1. PICK new \in Handle \ issued :
        /\ issued' = issued \cup {new}
        /\ Find(new)' /\ Deref(new)' = e
        /\ \A k \in issued : (Find(k)' <=> Find(k)) /\ Deref(k)' = Deref(k)
  BY AddKeepsResolution
<1>2. issued' = issued \cup {h}
  BY DEF AddFresh, AddReused, TakeSlot, NextHandle
<1>3. new = h
  BY <1>1, <1>2
<1> QED
  BY <1>1, <1>3, NamesIs

-----------------------------------------------------------------------------
LEMMA InitEstablishes == StorageInit => StorageInv
<1> SUFFICES ASSUME StorageInit PROVE StorageInv
  OBVIOUS
<1>1. IInv
  BY InitIInv DEF StorageInit
<1>2. WalksInv
  BY InitSound DEF StorageInit
<1>3. list = <<>> /\ walks = <<>> /\ issued = {}
  BY DEF StorageInit, W!Init, Init
<1>4. self \in [Entity -> Handle] /\ Entities = {}
  BY SlotMapAssumption DEF StorageInit, Entities, NullHandle, Handle
<1>5. Listed = {}
  BY <1>3 DEF Listed
<1>6. Len(walks) <= MaxDepth
  BY <1>3, StorageAssumption
<1> QED
  BY <1>1, <1>2, <1>3, <1>4, <1>5, <1>6 DEF StorageInv, SelfInv

\* new_char and the like: the entity gets the handle of its slot.
LEMMA NewKeeps ==
    ASSUME StorageInv, NEW e \in Entity, New(e)
    PROVE  StorageInv'
<1>0. IInv /\ WalksInv /\ Len(walks) <= MaxDepth /\ SelfInv
  BY DEF StorageInv
<1>1. PICK h : h = NextHandle
  OBVIOUS
<1>2. /\ AddFresh(e) \/ AddReused(e)
      /\ self' = [self EXCEPT ![e] = h]
      /\ UNCHANGED walkVars /\ e \notin Entities
  BY <1>1 DEF New
<1>3. IInv'
  BY <1>0, <1>2, AddFreshIInv, AddReusedIInv
<1>4. WalksInv' /\ Len(walks') <= MaxDepth
  BY <1>0, <1>2, WalkStep, Zenon
<1>5. /\ h \in Handle \ issued
      /\ issued' = issued \cup {h}
      /\ Names(slots', h, e)
      /\ \A x \in Entity : Names(slots', h, x) => x = e
      /\ \A k \in issued, x \in Entity : Names(slots', k, x) <=> Names(slots, k, x)
  BY <1>0, <1>1, <1>2, AddReturns
<1>6. /\ self' \in [Entity -> Handle] /\ self'[e] = h
      /\ \A x \in Entity : x # e => self'[x] = self[x]
  BY <1>0, <1>2, <1>5 DEF SelfInv
<1>7. Entities' = Entities \cup {e}
  <2>1. h # NullHandle
    BY <1>5 DEF Names, NullHandle
  <2> QED
    BY <2>1, <1>6 DEF Entities
<1>8. \A x \in Entities : x \in Entity /\ self[x] \in issued
  BY <1>0, NamedIsIssued DEF SelfInv, Entities
<1>9. \A x \in Entities' : Names(slots', self'[x], x)
  BY <1>0, <1>2, <1>5, <1>6, <1>7, <1>8 DEF SelfInv
<1>10. \A k \in issued', x \in Entity : Names(slots', k, x) => x \in Entities' /\ self'[x] = k
  BY <1>0, <1>2, <1>5, <1>6, <1>7 DEF SelfInv
<1>11. Listed' \subseteq Entities'
  BY <1>0, <1>2, <1>7 DEF Listed, walkVars, SelfInv
<1> QED
  BY <1>3, <1>4, <1>6, <1>9, <1>10, <1>11 DEF SelfInv, StorageInv

\* create_mobile and the like: a node for an entity.
LEMMA LinkKeeps ==
    ASSUME StorageInv, NEW e \in Entity, Link(e)
    PROVE  StorageInv'
<1>0. IInv /\ WalksInv /\ Len(walks) <= MaxDepth /\ SelfInv
  BY DEF StorageInv
<1>1. e \in Entities /\ (W!PushFront(e) \/ W!PushBack(e)) /\ UNCHANGED <<vars, self>>
  BY DEF Link
<1>2. WalksInv' /\ Len(walks') <= MaxDepth
  BY <1>0, <1>1, WalkStep, Zenon
<1>3. IInv'
  <2>1. UNCHANGED vars
    BY <1>1
  <2> QED
    BY <1>0, <2>1, NextIInv
<1>4. Listed' = Listed \cup {e}
  <2>1. list \in Seq(Entity) /\ IsList(list)
    BY <1>0 DEF WalksInv, IsList
  <2>2. e \in Entity \ W!ToSet(list)
    BY <1>1 DEF W!PushFront, W!PushBack
  <2>3. list' = <<e>> \o list \/ list' = Append(list, e)
    BY <1>1 DEF W!PushFront, W!PushBack
  <2>4. W!ToSet(list') = W!ToSet(list) \cup {e}
    <3>1. END \notin Entity
      BY StorageAssumption
    <3>2. W!ToSet(<<e>> \o list) = W!ToSet(list) \cup {e}
      BY <2>1, <2>2, <3>1, FrontIsBehind, Zenon
    <3>3. W!ToSet(Append(list, e)) = W!ToSet(list) \cup {e}
      BY <2>1, <2>2, <3>1, BackIsAhead, Zenon
    <3> QED
      BY <2>3, <3>2, <3>3, Zenon
  <2> QED
    BY <2>4, ListedIs
<1>5. SelfInv'
  <2>1. slots' = slots /\ issued' = issued /\ self' = self
    BY <1>1 DEF vars
  <2>2. Entities' = Entities
    BY <2>1 DEF Entities
  <2> QED
    BY <1>0, <1>1, <1>4, <2>1, <2>2 DEF SelfInv
<1> QED
  BY <1>2, <1>3, <1>5 DEF StorageInv

\* free_char and the like: the node goes, and the handle expires.
LEMMA FreeKeeps ==
    ASSUME StorageInv, NEW e \in Entity, Free(e)
    PROVE  StorageInv'
<1>0. IInv /\ WalksInv /\ Len(walks) <= MaxDepth /\ SelfInv
  BY DEF StorageInv
<1>1. PICK h : h = self[e]
  OBVIOUS
<1>2. /\ e \in Entities /\ (W!Erase(e) \/ Delete(e))
      /\ Remove(h) /\ self' = [self EXCEPT ![e] = NullHandle]
  BY <1>1 DEF Free, Destroyed
<1>3. h \in Handle /\ Names(slots, h, e) /\ h \in issued
  BY <1>0, <1>1, <1>2, NamedIsIssued DEF SelfInv
<1>4. RemoveLive(h)
  BY <1>2, <1>3, NamesIs DEF Remove, RemoveStale
<1>5. IInv'
  BY <1>0, <1>3, <1>4, RemoveIInv
<1>6. /\ issued' = issued
      /\ \A x \in Entity : ~Names(slots', h, x)
      /\ \A k \in issued, x \in Entity : k # h => (Names(slots', k, x) <=> Names(slots, k, x))
  <2>1. /\ issued' = issued /\ ~Find(h)'
        /\ \A k \in issued : k # h => (Find(k)' <=> Find(k)) /\ Deref(k)' = Deref(k)
    BY <1>0, <1>3, <1>4, RemoveExpiresOne
  <2> QED
    BY <2>1, NamesIs
<1>7. WalksInv' /\ Len(walks') <= MaxDepth
  <2>1. CASE W!Erase(e)
    BY <1>0, <2>1, WalkStep, Zenon
  <2>2. CASE Delete(e)
    <3>1. UNCHANGED walkVars
      BY <2>2 DEF Delete
    <3> QED
      BY <1>0, <3>1, WalkStep, Zenon
  <2> QED
    BY <1>2, <2>1, <2>2
<1>8. Listed' = Listed \ {e}
  <2>1. CASE W!Erase(e)
    <3>1. IsList(list)
      BY <1>0 DEF WalksInv
    <3>2. e \in W!ToSet(list) /\ list' = W!RemoveAt(list, Pos(list, e))
      BY <2>1, OnTheList DEF W!Erase
    <3>3. W!ToSet(list') = W!ToSet(list) \ {e}
      BY <3>1, <3>2, StorageAssumption, EraseStepsOver
    <3> QED
      BY <3>3, ListedIs
  <2>2. CASE Delete(e)
    BY <2>2 DEF Delete, walkVars, Listed
  <2> QED
    BY <1>2, <2>1, <2>2
<1>9. /\ self' \in [Entity -> Handle] /\ self'[e] = NullHandle
      /\ \A x \in Entity : x # e => self'[x] = self[x]
  <2>1. NullHandle \in Handle
    BY SlotMapAssumption DEF NullHandle, Handle
  <2> QED
    BY <1>0, <1>2, <2>1 DEF SelfInv
<1>10. Entities' = Entities \ {e}
  BY <1>9 DEF Entities
<1>11. \A x \in Entities' : Names(slots', self'[x], x)
  <2> TAKE x \in Entities'
  <2>1. x \in Entities /\ x \in Entity /\ x # e /\ self'[x] = self[x]
    BY <1>9, <1>10 DEF Entities
  <2>2. Names(slots, self[x], x) /\ self[x] \in issued
    BY <1>0, <2>1, NamedIsIssued DEF SelfInv
  <2>3. self[x] # h
    BY <1>3, <2>1, <2>2 DEF Names
  <2> QED
    BY <1>6, <2>1, <2>2, <2>3
<1>12. \A k \in issued', x \in Entity : Names(slots', k, x) => x \in Entities' /\ self'[x] = k
  <2> SUFFICES ASSUME NEW k \in issued', NEW x \in Entity, Names(slots', k, x)
               PROVE  x \in Entities' /\ self'[x] = k
    OBVIOUS
  <2>1. k \in issued /\ k # h /\ Names(slots, k, x)
    BY <1>6
  <2>2. x \in Entities /\ self[x] = k
    BY <1>0, <2>1 DEF SelfInv
  <2> QED
    BY <1>1, <1>9, <1>10, <2>1, <2>2
<1>13. Listed' \subseteq Entities'
  BY <1>0, <1>8, <1>10 DEF SelfInv
<1> QED
  BY <1>5, <1>7, <1>9, <1>11, <1>12, <1>13 DEF SelfInv, StorageInv

\* Removing a handle that no entity keeps changes nothing.
LEMMA RemoveAgainIsIdle ==
    ASSUME StorageInv, NEW h \in Handle, RemoveAgain(h)
    PROVE  UNCHANGED storageVars
<1>1. IInv /\ SelfInv /\ Remove(h) /\ UNCHANGED <<walkVars, self>>
  BY DEF StorageInv, RemoveAgain
<1>2. ASSUME RemoveLive(h) PROVE FALSE
  <2>1. Find(h) /\ h \in issued
    BY <1>1, <1>2, RemoveExpiresOne
  <2>2. Deref(h) \in Entity
    <3>1. h.index \in DOMAIN slots /\ slots \in Seq(Slot) /\ Deref(h) = slots[h.index].entity
      BY <1>1, <2>1 DEF Find, Deref, IInv, TypeOK
    <3>2. slots[h.index] \in Slot /\ slots[h.index].entity # Null
      BY <2>1, <3>1 DEF Find
    <3> QED
      BY <3>1, <3>2 DEF Slot
  <2>3. Deref(h) \in Entities /\ self[Deref(h)] = h
    BY <1>1, <2>1, <2>2, NamesIs DEF SelfInv
  <2> QED
    BY <2>3 DEF RemoveAgain
<1> QED
  BY <1>1, <1>2 DEF Remove, RemoveStale, storageVars

\* A step of a walk, and no step at all.
LEMMA WalkOnKeeps ==
    ASSUME StorageInv, WalkOn \/ UNCHANGED storageVars
    PROVE  StorageInv'
<1>0. IInv /\ WalksInv /\ Len(walks) <= MaxDepth /\ SelfInv
  BY DEF StorageInv
<1>1. UNCHANGED vars /\ self' = self
  BY DEF WalkOn, storageVars
<1>2. IInv'
  BY <1>0, <1>1, NextIInv
<1>3. WalksInv' /\ Len(walks') <= MaxDepth
  <2>1. W!StartWalk \/ W!Step \/ W!EndWalk \/ UNCHANGED walkVars
    BY DEF WalkOn, storageVars
  <2> QED
    BY <1>0, <2>1, WalkStep, Zenon
<1>4. list' = list
  BY DEF WalkOn, storageVars, walkVars, W!StartWalk, W!Step, W!EndWalk
<1>5. SelfInv'
  <2>1. slots' = slots /\ issued' = issued /\ Listed' = Listed /\ Entities' = Entities
    BY <1>1, <1>4 DEF vars, Listed, Entities
  <2> QED
    BY <1>0, <1>1, <2>1 DEF SelfInv
<1> QED
  BY <1>2, <1>3, <1>5 DEF StorageInv

LEMMA NextKeeps == StorageInv /\ [StorageNext]_storageVars => StorageInv'
<1> SUFFICES ASSUME StorageInv, [StorageNext]_storageVars PROVE StorageInv'
  OBVIOUS
<1>1. ASSUME NEW e \in Entity, New(e) \/ Link(e) \/ Free(e) PROVE StorageInv'
  BY <1>1, NewKeeps, LinkKeeps, FreeKeeps
<1>2. ASSUME NEW h \in Handle, RemoveAgain(h) PROVE StorageInv'
  BY <1>2, RemoveAgainIsIdle, WalkOnKeeps
<1>3. CASE WalkOn \/ UNCHANGED storageVars
  BY <1>3, WalkOnKeeps
<1> QED
  BY <1>1, <1>2, <1>3 DEF StorageNext

THEOREM StorageInvariant == StorageSpec => []StorageInv
BY InitEstablishes, NextKeeps, PTL DEF StorageSpec

-----------------------------------------------------------------------------
\* Whatever the bodies of walks create, link and free, the storage uses its slot
\* map as the map is meant to be used (new_char, extract_obj, close_socket), ...
THEOREM StorageUsesSlotMap == StorageSpec => Spec
<1>1. StorageInit => Init
  BY DEF StorageInit
<1>2. StorageInv /\ [StorageNext]_storageVars => [Next]_vars
  <2> SUFFICES ASSUME StorageInv, [StorageNext]_storageVars PROVE [Next]_vars
    OBVIOUS
  <2>1. ASSUME NEW e \in Entity, New(e) PROVE Next
    BY <2>1 DEF New, Next
  <2>2. ASSUME NEW e \in Entity, Link(e) PROVE UNCHANGED vars
    BY <2>2 DEF Link
  <2>3. ASSUME NEW e \in Entity, Free(e) PROVE Next
    <3>1. self[e] \in Handle /\ Remove(self[e])
      BY <2>3 DEF Free, Destroyed, StorageInv, SelfInv
    <3> QED
      BY <3>1 DEF Next
  <2>4. ASSUME NEW h \in Handle, RemoveAgain(h) PROVE Next
    BY <2>4 DEF RemoveAgain, Next
  <2>5. CASE WalkOn \/ UNCHANGED storageVars
    BY <2>5 DEF WalkOn, storageVars
  <2> QED
    BY <2>1, <2>2, <2>3, <2>4, <2>5 DEF StorageNext
<1> QED
  BY <1>1, <1>2, StorageInvariant, PTL DEF StorageSpec, Spec

\* ... so that no slot of it is lost, no handle given out comes to name another
\* entity, and it keeps the registry's promise (SlotMap, code/stdlibs/handle.h).
THEOREM StorageKeepsHandles ==
    StorageSpec => []SlotsAccounted /\ ResolutionOnlyDecays /\ ImplementsRegistry
BY StorageUsesSlotMap, NoSlotLost, ResolutionDecays, SlotMapImplements, PTL

\* An entity is registered for exactly the span in which it is one, under the
\* handle it keeps, and the list holds nothing else (handles.h:12).
THEOREM EntitiesRegisteredOnce == StorageSpec => []RegisteredOnce
<1>1. StorageInv => RegisteredOnce
  <2> SUFFICES ASSUME StorageInv PROVE RegisteredOnce
    OBVIOUS
  <2>0. IInv /\ WalksInv /\ Len(walks) <= MaxDepth /\ SelfInv
    BY DEF StorageInv
  <2>1. StorageTypeOK
    <3>1. TypeOK /\ self \in [Entity -> Handle]
      BY <2>0 DEF IInv, SelfInv
    <3>2. W!TypeOK
      BY <2>0, Zenon DEF WalksInv, IsList, W!Walk, W!Walk, W!TypeOK, W!IsInjective, W!IsInjective
    <3> QED
      BY <3>1, <3>2 DEF StorageTypeOK
  <2>2. ASSUME NEW i \in LiveSlots
        PROVE  self[slots[i].entity] = [index |-> i, generation |-> slots[i].generation]
    <3> DEFINE h == [index |-> i, generation |-> slots[i].generation]
    <3>1. h \in issued /\ i \in DOMAIN slots /\ slots[i] \in Slot /\ slots[i].entity # Null
      BY <2>0 DEF IInv, IssuedInv, TypeOK, LiveSlots
    <3>2. slots[i].entity \in Entity /\ Names(slots, h, slots[i].entity)
      BY <3>1, SlotMapAssumption DEF Names, Slot
    <3> QED
      BY <2>0, <3>1, <3>2 DEF SelfInv
  <2>3. \A e \in Entities \cup Listed : Deref(self[e]) = e
    <3> TAKE e \in Entities \cup Listed
    <3>1. e \in Entities /\ e \in Entity
      BY <2>0 DEF SelfInv, Entities
    <3>2. Names(slots, self[e], e)
      BY <2>0, <3>1 DEF SelfInv
    <3> QED
      BY <3>1, <3>2, NamesIs
  <2> QED
    BY <2>1, <2>2, <2>3 DEF RegisteredOnce
<1> QED
  BY <1>1, StorageInvariant, PTL

\* What the storage's invariant says of the walks.
LEMMA WalksKeepPlace == StorageInv => CursorsOnList /\ NothingSkipped /\ NothingVisitedTwice
BY SoundSuffices DEF StorageInv, CursorsOnList, NothingSkipped, NothingVisitedTwice

\* Whatever the bodies of walks create, link and free, and however deeply the walks
\* are nested: no walk has saved a node that has been freed (list_cursor.h:22-24), ...
THEOREM WalksFollowNoFreedNode == StorageSpec => []CursorsOnList
BY WalksKeepPlace, StorageInvariant, PTL

\* ... none has passed an entity that was there when it began and still is
\* (list_cursor.h:93-95), ...
THEOREM WalksSkipNothing == StorageSpec => []NothingSkipped
BY WalksKeepPlace, StorageInvariant, PTL

\* ... and none is about to meet an entity it has handed out already (Advance).
THEOREM WalksRepeatNothing == StorageSpec => []NothingVisitedTwice
BY WalksKeepPlace, StorageInvariant, PTL
=============================================================================
