-------------------------- MODULE MCRoomOccupancy --------------------------
(* Instance of RoomOccupancy for TLC: three rooms, two of them of one area, so
   that a move may leave an area, stay in it, or return to the same room. *)
EXTENDS RoomOccupancy

CONSTANTS r1, r2, r3, a1, a2
MCRoom == {r1, r2, r3}
MCAreaOf == [r \in MCRoom |-> IF r = r3 THEN a2 ELSE a1]
=============================================================================
