------------------------------- MODULE Limits -------------------------------
(***************************************************************************)
(* The count of a limited object: OBJ_INDEX_DATA's limcount, for one       *)
(* prototype.  A reset creates another object only while the count is      *)
(* below limtotal, so the count is meant to cover every object there is:   *)
(* those in the world, and those in the files of players who are not       *)
(* (create_object in code/db.c, extract_obj and extract_char in            *)
(* code/handler.c, fread_obj in code/save.c, the login in code/comm.c, the *)
(* boot in code/mud.c).                                                    *)
(*                                                                         *)
(* Reading a player file adds nothing, since the file was counted; so a    *)
(* login that comes to nothing has to be balanced where its body is freed, *)
(* because ~char_data extracts what the body carries, and extract_obj      *)
(* counts each object out.                                                 *)
(*                                                                         *)
(* loose is history: whether a step has been taken that the count does not *)
(* follow, or that creates objects beside it.                              *)
(***************************************************************************)
EXTENDS Integers, FiniteSetsExt, Functions

CONSTANTS Conn, Player,
          Novice,        \* players below level 10
          Absent,
          LimTotal,      \* limtotal
          MaxObjects     \* bound: objects in one place, and how far the count may go

ASSUME LimitsAssumption == /\ Novice \subseteq Player
                           /\ IsFiniteSet(Player) /\ IsFiniteSet(Conn)
                           /\ Absent \notin Int \cup [who : Player, held : Int]
                           /\ LimTotal \in Nat \ {0} /\ MaxObjects \in Nat

VARIABLES limcount,
          ground,        \* objects in rooms, corpses and on mobiles
          carried,       \* what a player in the world carries, or Absent
          file,          \* objects in a player's file
          login,         \* the body a connection has at a login prompt, or Absent
          loose

vars == <<limcount, ground, carried, file, login, loose>>

Place == 0..MaxObjects
Body == [who : Player, held : Place]

Init == /\ limcount = 0 /\ ground = 0
        /\ carried = [p \in Player |-> Absent]
        /\ file = [p \in Player |-> 0]
        /\ login = [d \in Conn |-> Absent]
        /\ loose = FALSE

-----------------------------------------------------------------------------
InWorld == {p \in Player : carried[p] # Absent}
LoginsOf(p) == {d \in Conn : login[d] # Absent /\ login[d].who = p}

\* The number of objects there are.  A body at a prompt is a copy of a file.
Held      == [p \in Player |-> IF p \in InWorld THEN carried[p] ELSE file[p]]
Existing  == ground + SumFunctionOnSet(Held, Player)
InFiles   == SumFunctionOnSet(file, Player)
HeldAt(S) == SumFunctionOnSet([d \in S |-> login[d].held], S)

\* How far the count is from what it counts.
Drift == limcount - Existing

CountBecomes(n) == n \in -MaxObjects..(LimTotal + MaxObjects) /\ limcount' = n

\* create_object, then fread_obj's own decrement, object by object.
ReadIn(n) == (limcount + n) - n

\* extract_obj, or ~char_data for a whole body.
Extracted(n) == limcount - n

\* extract_char(ch, true) of a player: each object is counted in, then extracted.
ExtractedWithPlayer(n) == (limcount + n) - n

Forget(S) == login' = [d \in Conn |-> IF d \in S THEN Absent ELSE login[d]]

-----------------------------------------------------------------------------
\* reset_room's O, P, E and G, on a mobile that keeps no shop.
Reset == /\ limcount < LimTotal /\ ground < MaxObjects
         /\ CountBecomes(limcount + 1) /\ ground' = ground + 1
         /\ UNCHANGED <<carried, file, login, loose>>

\* do_oload, and the stock of shops: whatever the count.
Load == /\ ground < MaxObjects
        /\ CountBecomes(limcount + 1) /\ ground' = ground + 1
        /\ loose' = TRUE
        /\ UNCHANGED <<carried, file, login>>

\* extract_obj of an object that rots, is sacrificed, or is junked.
Decay == /\ ground > 0
         /\ CountBecomes(Extracted(1)) /\ ground' = ground - 1
         /\ UNCHANGED <<carried, file, login, loose>>

Get(p) == /\ p \in InWorld /\ ground > 0 /\ carried[p] < MaxObjects
          /\ ground' = ground - 1 /\ carried' = [carried EXCEPT ![p] = @ + 1]
          /\ UNCHANGED <<limcount, file, login, loose>>

Drop(p) == /\ p \in InWorld /\ carried[p] > 0 /\ ground < MaxObjects
           /\ ground' = ground + 1 /\ carried' = [carried EXCEPT ![p] = @ - 1]
           /\ UNCHANGED <<limcount, file, login, loose>>

\* make_corpse: while the count is above limtotal the objects vaporize, one at a
\* time; the rest go into the corpse.  The player stays in the world.
Die(p) == /\ p \in InWorld
          /\ LET excess == Max({0, limcount - LimTotal})
                 gone == Min({carried[p], excess})
             IN  /\ CountBecomes(Extracted(gone))
                 /\ ground + carried[p] - gone \in Place
                 /\ ground' = ground + carried[p] - gone
          /\ carried' = [carried EXCEPT ![p] = 0]
          /\ UNCHANGED <<file, login, loose>>

Save(p) == /\ p \in InWorld
           /\ file' = [file EXCEPT ![p] = carried[p]]
           /\ UNCHANGED <<limcount, ground, carried, login, loose>>

-----------------------------------------------------------------------------
\* What do_quit_new extracts before it saves.
Confiscated(p) == IF p \in Novice THEN carried[p] ELSE 0

\* do_quit_new: confiscates, saves, and extracts the player, and then every
\* other body of theirs, which is at a login prompt.
LeaveWorld(p) ==
    /\ p \in InWorld
    /\ CountBecomes(ExtractedWithPlayer(HeldAt(LoginsOf(p)) + carried[p] - Confiscated(p))
                    - Confiscated(p))
    /\ carried' = [carried EXCEPT ![p] = Absent]
    /\ Forget(LoginsOf(p))

\* Fault for the run's mutants: the objects are saved before they are confiscated.
QuitSavingFirst(p) == /\ LeaveWorld(p)
                      /\ file' = [file EXCEPT ![p] = carried[p]]
                      /\ UNCHANGED <<ground, loose>>

Quit(p) == /\ LeaveWorld(p)
           /\ file' = [file EXCEPT ![p] = carried[p] - Confiscated(p)]
           /\ UNCHANGED <<ground, loose>>

\* delete_char after that: nothing counts out what was in the file.
Delete(p) == /\ LeaveWorld(p)
             /\ file' = [file EXCEPT ![p] = 0]
             /\ UNCHANGED <<ground, loose>>

\* do_purge of a player: saved unless at the first level.
Purge(p) == /\ p \in InWorld
            /\ CountBecomes(ExtractedWithPlayer(carried[p]))
            /\ carried' = [carried EXCEPT ![p] = Absent]
            /\ file' \in {file, [file EXCEPT ![p] = carried[p]]}
            /\ loose' = TRUE
            /\ UNCHANGED <<ground, login>>

-----------------------------------------------------------------------------
\* CON_GET_NAME: load_char_obj, or a new character.
GiveName(d, p) == /\ login[d] = Absent
                  /\ CountBecomes(ReadIn(file[p]))
                  /\ login' = [login EXCEPT ![d] = [who |-> p, held |-> file[p]]]
                  /\ UNCHANGED <<ground, carried, file, loose>>

\* Fault for the run's mutants: the body is freed and no more.
FreedOnly(d) == /\ login[d] # Absent
                /\ CountBecomes(Extracted(login[d].held))
                /\ Forget({d})
                /\ UNCHANGED <<ground, carried, file, loose>>

\* CON_GET_OLD_PASSWORD with a wrong one counts the objects in before
\* close_socket frees the body.
WrongPassword(d) == /\ login[d] # Absent
                    /\ CountBecomes((limcount + login[d].held) - login[d].held)
                    /\ Forget({d})
                    /\ UNCHANGED <<ground, carried, file, loose>>

\* Every other way a login ends: refused, declined, or broken by another
\* connection, which may take several with it.  free_char only.
Discard(S) == /\ CountBecomes(Extracted(HeldAt(S)))
              /\ Forget(S)
              /\ loose' = TRUE
              /\ UNCHANGED <<ground, carried, file>>

\* The link is lost at a prompt: the game loop saves the body, then frees it.
LinkLost(d) == /\ login[d] # Absent
               /\ CountBecomes(Extracted(login[d].held))
               /\ file' = [file EXCEPT ![login[d].who] = login[d].held]
               /\ Forget({d})
               /\ loose' = TRUE
               /\ UNCHANGED <<ground, carried>>

\* A body whose file has been written since it was read.
Stale(d) == login[d].held # file[login[d].who]

\* CON_READ_MOTD; Login!OneBodyPerPlayer is why the player is not in the world.
EnterGame(d) == /\ login[d] # Absent
                /\ LET p == login[d].who
                       kept == IF p \in Novice THEN 0 ELSE login[d].held
                   IN  /\ p \notin InWorld
                       /\ CountBecomes(Extracted(login[d].held - kept))
                       /\ carried' = [carried EXCEPT ![p] = kept]
                       /\ loose' = (loose \/ Stale(d))
                /\ Forget({d})
                /\ UNCHANGED <<ground, file>>

\* check_reconnect(d, name, true): the body read from the file is freed, and the
\* objects that the body in the world carries are counted in.  After
\* CON_BREAK_CONNECT the player's other logins have been closed.
Reconnect(d) == /\ login[d] # Absent /\ login[d].who \in InWorld
                /\ \E broken \in {{d}, LoginsOf(login[d].who)} :
                      /\ CountBecomes(Extracted(HeldAt(broken)) + carried[login[d].who])
                      /\ Forget(broken)
                /\ loose' = TRUE
                /\ UNCHANGED <<ground, carried, file>>

-----------------------------------------------------------------------------
\* do_llimit counts the world without what players carry, and then the files.
Recount == /\ CountBecomes(ground + InFiles)
           /\ loose' = TRUE
           /\ UNCHANGED <<ground, carried, file, login>>

\* The program stops, at any time, and starts again: LoadObjLimits.
Reboot == /\ CountBecomes(InFiles)
          /\ ground' = 0
          /\ carried' = [p \in Player |-> Absent]
          /\ Forget(Conn)
          /\ loose' = (InFiles > LimTotal)
          /\ UNCHANGED file

Next == \/ Reset \/ Load \/ Decay \/ Recount \/ Reboot
        \/ \E p \in Player : \/ Get(p) \/ Drop(p) \/ Die(p) \/ Save(p)
                             \/ Quit(p) \/ Delete(p) \/ Purge(p)
                             \/ \E S \in SUBSET LoginsOf(p) \ {{}} : Discard(S)
        \/ \E d \in Conn : \/ WrongPassword(d) \/ LinkLost(d) \/ EnterGame(d) \/ Reconnect(d)
                           \/ \E p \in Player : GiveName(d, p)

Spec == Init /\ [][Next]_vars

-----------------------------------------------------------------------------
\* Type invariant.
TypeOK == /\ limcount \in -MaxObjects..(LimTotal + MaxObjects) /\ ground \in Place
          /\ carried \in [Player -> Place \cup {Absent}]
          /\ file \in [Player -> Place]
          /\ login \in [Conn -> Body \cup {Absent}]
          /\ loose \in BOOLEAN

\* The steps after which the count may be wrong by another amount than before.
Unsettling == \/ \E p \in Player : \/ Delete(p) \/ Purge(p)
                                   \/ \E S \in SUBSET LoginsOf(p) \ {{}} : Discard(S)
              \/ \E d \in Conn : LinkLost(d) \/ Reconnect(d) \/ (EnterGame(d) /\ Stale(d))
              \/ Recount

\* Whatever players do with the objects in between, the count keeps its distance
\* from the number of objects when they change hands, rot, are lost in death,
\* saved, taken away, read from a file, brought back into the world, or refused
\* for a bad password ("This  should hopefully handle the pfile obj->limcount bug
\* with bad pwds", comm.c:1478), and a boot sets it right.
CountKept == [][Drift' = Drift \/ (Reboot /\ Drift' = 0) \/ Unsettling]_vars

\* With no login given up or taken over, no recount, and nothing created past
\* the limit on purpose, there are never more objects than the limit, across
\* saves, deaths, quits, deletions and boots.
LimitHolds == TypeOK /\ (loose \/ Existing <= LimTotal)

\* "Limit crap to balance reconnect objects from extracted link object"
\* (comm.c:2895): a reconnection leaves the count as right or wrong as it was.
ReconnectBalances == [][\A d \in Conn : Reconnect(d) => Drift' = Drift]_vars
=============================================================================
