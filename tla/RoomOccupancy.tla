--------------------------- MODULE RoomOccupancy ---------------------------
(***************************************************************************)
(* Where characters are (char_from_room, char_to_room in code/handler.c):  *)
(* the list of people a room threads through its occupants, the count of   *)
(* players an area keeps, the flag that puts an area's mobs to sleep, and  *)
(* the light that worn lamps give a room.  All of it is kept up to date by *)
(* hand, by two functions that a hundred callers must pair.                *)
(*                                                                         *)
(* A character may also be moved by the event queue, which runs the two    *)
(* functions as entries of their own (queued).  The queue itself is        *)
(* module EventQueue; here it is its promise, that the entries of one tick *)
(* run in the order queued with no command between them.                   *)
(***************************************************************************)
EXTENDS Integers, Sequences, FiniteSets, FiniteSetsExt, Functions, Lists

CONSTANTS Npc, Pc,   \* characters, by kind
          NoChar,    \* nullptr
          Room, Nowhere,
          Area, AreaOf,  \* the area a room belongs to
          Altar,     \* the room the dead are sent to
          MaxLamps   \* bound: lamps a character wears

ASSUME RoomAssumption == /\ Npc \cap Pc = {} /\ NoChar \notin Npc \cup Pc
                         /\ IsFiniteSet(Npc \cup Pc)
                         /\ Nowhere \notin Room /\ Altar \in Room
                         /\ AreaOf \in [Room -> Area]
                         /\ MaxLamps \in Nat

Char == Npc \cup Pc

VARIABLES world,   \* the fields below, of every character, room and area
          queued,  \* room entries in the event queue, due on one tick
          firing   \* that tick's entries are being run

vars == <<world, queued, firing>>

Init == /\ world = [inRoom  |-> [c \in Char |-> Nowhere],   \* ch->in_room
                    next    |-> [c \in Char |-> NoChar],    \* ch->next_in_room
                    lamps   |-> [c \in Char |-> 0],         \* worn lights
                    people  |-> [r \in Room |-> NoChar],    \* room->people
                    light   |-> [r \in Room |-> 0],         \* room->light
                    nplayer |-> [a \in Area |-> 0],         \* area->nplayer
                    empty   |-> [a \in Area |-> FALSE]]     \* area->empty
        /\ queued = <<>> /\ firing = FALSE

-----------------------------------------------------------------------------
\* The n-th link of the list that starts at room->people.
Link(w, r) == LET link[n \in 0..Cardinality(Char)] ==
                    IF n = 0 THEN w.people[r]
                    ELSE IF link[n - 1] = NoChar THEN NoChar ELSE w.next[link[n - 1]]
              IN  link
Listed(w, r) == {Link(w, r)[n] : n \in 0..Cardinality(Char)} \ {NoChar}

\* Takes c off its room's list: the head, or the first link that names it.
Unlinked(w, c, r) ==
    LET link == Link(w, r)
        before == {n \in DOMAIN link : link[n] # NoChar /\ w.next[link[n]] = c}
    IN  IF w.people[r] = c THEN [w EXCEPT !.people[r] = w.next[c]]
        ELSE IF before = {} THEN w
        ELSE [w EXCEPT !.next[link[Min(before)]] = w.next[c]]

\* room->light after k lamps are gone.  Each takes 3, but never below zero.
Dimmed(light, k) == Max({0, light - 3 * k})

AsPlayer(c) == IF c \in Pc THEN 1 ELSE 0

\* Faults for the run's mutants: the count is not taken back, the list is not
\* mended, the lamps are left shining.
FromRoomStillCounted(w, c) ==
    LET r == w.inRoom[c]
    IN  IF r = Nowhere THEN w
        ELSE [Unlinked(w, c, r) EXCEPT !.light[r] = Dimmed(@, w.lamps[c]),
                                       !.inRoom[c] = Nowhere, !.next[c] = NoChar]
FromRoomStillListed(w, c) ==
    LET r == w.inRoom[c]
    IN  IF r = Nowhere THEN w
        ELSE [w EXCEPT !.nplayer[AreaOf[r]] = @ - AsPlayer(c),
                       !.light[r] = Dimmed(@, w.lamps[c]),
                       !.inRoom[c] = Nowhere, !.next[c] = NoChar]
FromRoomStillLit(w, c) ==
    LET r == w.inRoom[c]
    IN  IF r = Nowhere THEN w
        ELSE [Unlinked(w, c, r) EXCEPT !.nplayer[AreaOf[r]] = @ - AsPlayer(c),
                                       !.inRoom[c] = Nowhere, !.next[c] = NoChar]

CharFromRoom(w, c) ==
    LET r == w.inRoom[c]
    IN  IF r = Nowhere THEN w
        ELSE [Unlinked(w, c, r) EXCEPT !.nplayer[AreaOf[r]] = @ - AsPlayer(c),
                                       !.light[r] = Dimmed(@, w.lamps[c]),
                                       !.inRoom[c] = Nowhere,
                                       !.next[c] = NoChar]

CharToRoom(w, c, r) ==
    [w EXCEPT !.inRoom[c] = r,
              !.next[c] = w.people[r],
              !.people[r] = c,
              !.nplayer[AreaOf[r]] = @ + AsPlayer(c),
              !.empty[AreaOf[r]] = @ /\ c \notin Pc,
              !.light[r] = @ + 3 * w.lamps[c]]

\* c's things are extracted, or go to its corpse; each lamp is unequipped.
Stripped(w, c) ==
    LET r == w.inRoom[c]
        bare == [w EXCEPT !.lamps[c] = 0]
    IN  IF r = Nowhere THEN bare ELSE [bare EXCEPT !.light[r] = Dimmed(@, w.lamps[c])]

-----------------------------------------------------------------------------
Placed(c) == world.inRoom[c] # Nowhere
HasQueuePending(c) == \E i \in DOMAIN queued : queued[i].ch = c

\* Commands and updates run between the ticks that fire entries.
Command(w) == ~firing /\ world' = w /\ UNCHANGED <<queued, firing>>

\* A login, a loaded mobile, a pet.
Enter(c, r) == /\ ~Placed(c) /\ ~HasQueuePending(c)
               /\ Command(CharToRoom(world, c, r))

Move(c, r) == /\ Placed(c)
              /\ Command(CharToRoom(CharFromRoom(world, c), c, r))

\* raw_kill of a player: the corpse takes its things, extract_char (fPull
\* false) sends it to the altar, and raw_kill moves it on to its recall.
Die(c, recall) ==
    /\ Placed(c)
    /\ LET dead == CharToRoom(CharFromRoom(Stripped(world, c), c), c, Altar)
       IN  Command(CharToRoom(CharFromRoom(dead, c), c, recall))

\* extract_char (fPull true).  A mobile's queued entries are cancelled; that a
\* player may leave with entries queued is module EventQueue's finding.
Extract(c) == /\ ~firing /\ (Placed(c) \/ HasQueuePending(c))
              /\ c \in Pc => ~HasQueuePending(c)
              /\ world' = CharFromRoom(Stripped(world, c), c)
              /\ queued' = Without(queued, {e \in Range(queued) : e.ch = c})
              /\ UNCHANGED firing

WearLamp(c) == /\ Placed(c) /\ world.lamps[c] < MaxLamps
               /\ Command([world EXCEPT !.lamps[c] = @ + 1,
                                        !.light[world.inRoom[c]] = @ + 3])

RemoveLamp(c) == /\ Placed(c) /\ world.lamps[c] > 0
                 /\ Command([world EXCEPT !.lamps[c] = @ - 1,
                                          !.light[world.inRoom[c]] = Dimmed(@, 1)])

\* char_update puts out a player's spent lamp and extracts it.  Extracting it
\* unequips it, which dims the room a second time.
BurnOut(c) == /\ Placed(c) /\ world.lamps[c] > 0
              /\ Command([world EXCEPT !.lamps[c] = @ - 1,
                                       !.light[world.inRoom[c]] = Dimmed(Dimmed(@, 1), 1)])

\* area_update, once an area minute.
AreaUpdate == Command([world EXCEPT !.empty = [a \in Area |-> world.nplayer[a] = 0]])

-----------------------------------------------------------------------------
Entry(do, c, r) == [do |-> do, ch |-> c, room |-> r]

\* A script queues one move at a time.
Idle == ~firing /\ queued = <<>>

\* verb_prog_turn_wyntran: a mobile is created now and placed in 4 ticks.
QueueArrival(c, r) == /\ Idle /\ ~Placed(c)
                      /\ queued' = <<Entry("to", c, r)>>
                      /\ UNCHANGED <<world, firing>>

\* verb_prog_antava_touch_hand, fight_prog_law_subdue and
\* give_prog_ilopheth_hermit queue a player's move last step first.
QueueMove(c, r) == /\ Idle /\ Placed(c)
                   /\ queued' = <<Entry("to", c, r), Entry("from", c, Nowhere)>>
                   /\ UNCHANGED <<world, firing>>

\* The tick comes; once it has, its entries run one after the other.
FireEntry == /\ queued # <<>>
             /\ LET e == Head(queued)
                IN  world' = IF e.do = "to" THEN CharToRoom(world, e.ch, e.room)
                                            ELSE CharFromRoom(world, e.ch)
             /\ queued' = Tail(queued)
             /\ firing' = (Len(queued) > 1)

Next == \/ \E c \in Char, r \in Room : Enter(c, r) \/ Move(c, r)
        \/ \E c \in Pc, r \in Room : Die(c, r)
        \/ \E c \in Char : Extract(c) \/ WearLamp(c) \/ RemoveLamp(c)
        \/ \E c \in Pc : BurnOut(c)
        \/ \E c \in Npc, r \in Room : QueueArrival(c, r)
        \/ AreaUpdate \/ FireEntry

\* Commands, updates and queued arrivals; with the scripts that move a player.
Spec == Init /\ [][Next]_vars
ScriptedSpec == Init /\ [][Next \/ \E c \in Pc, r \in Room : QueueMove(c, r)]_vars

-----------------------------------------------------------------------------
TypeOK == /\ world.inRoom \in [Char -> Room \cup {Nowhere}]
          /\ world.next \in [Char -> Char \cup {NoChar}]
          /\ world.lamps \in [Char -> 0..MaxLamps]
          /\ world.people \in [Room -> Char \cup {NoChar}]
          /\ world.light \in [Room -> Nat]
          /\ world.nplayer \in [Area -> Nat]
          /\ world.empty \in [Area -> BOOLEAN]
          /\ firing => queued # <<>>

\* Following a room's list meets the characters whose in_room is that room,
\* each once, and comes to an end.
RoomListsExact ==
    TypeOK /\ \A r \in Room :
                LET link == Link(world, r)
                    here == {c \in Char : world.inRoom[c] = r}
                IN  /\ Listed(world, r) = here
                    /\ link[Cardinality(here)] = NoChar

\* An area's count, which decides whether its mobs act and how often it resets,
\* is the number of players in its rooms; and an area marked empty, whose mobs
\* mobile_update skips, has none.
PlayersCounted ==
    \A a \in Area : LET players == {c \in Pc : Placed(c) /\ AreaOf[world.inRoom[c]] = a}
                    IN  /\ world.nplayer[a] = Cardinality(players)
                        /\ world.empty[a] => players = {}

\* A room is not lit by lamps that have left it.
NoLightWithoutLamp ==
    \A r \in Room : world.light[r] <=
        3 * SumFunctionOnSet(world.lamps, {c \in Char : world.inRoom[c] = r})

\* The queue promises that entries run in the order queued (queue.c:52), which
\* "callers depend on" (queue.h:101): a script that moves a player moves it, and
\* nobody is left nowhere.
ScriptMovesPlayer ==
    [][(queued # <<>> /\ queued' = <<>> /\ firing) => world'.inRoom[Head(queued).ch] # Nowhere]_vars
=============================================================================
