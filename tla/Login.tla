------------------------------- MODULE Login -------------------------------
(***************************************************************************)
(* Connections, the characters they drive, and player files: from the name *)
(* prompt into the world and out again (nanny, check_playing,              *)
(* check_reconnect and close_socket in code/comm.c; load_char_obj and      *)
(* save_char_obj in code/save.c; do_quit_new in code/act_comm.c).          *)
(*                                                                         *)
(* Anybody may name a player at any time, several times over, and go no    *)
(* further: each time a body is built from the player file as it is then,  *)
(* and waits at the password prompt while the player plays on, saves, loses *)
(* the link, or quits.  The passwords given may be right or wrong.         *)
(*                                                                         *)
(* The questions of character creation are one state, Creating; the two    *)
(* pages of news another, ReadMotd.  old and purged are history: whether a *)
(* copy of a player is behind what the player has since saved, and which   *)
(* players an immortal has removed from the world.                         *)
(***************************************************************************)
EXTENDS Lists, SequencesExt

CONSTANTS Conn, Body,    \* descriptors; addresses of characters
          Name, Id,      \* players' names and numbers
          None,
          MaxRows        \* bound: rows of one name in the players table


VARIABLES connected,     \* a connection's state
          character,     \* the body it holds
          body,          \* what is at an address
          charList,      \* char_list's players, front first
          pfile,         \* the player files
          retired,       \* names in dead_char
          rows,          \* rows per name in the players table
          purged

vars == <<connected, character, body, charList, pfile, retired, rows, purged>>

LoginStates == {"GetName", "OldPassword", "BreakConnect", "Creating", "ReadMotd"}
Character == [name : Name, id : Id, new : BOOLEAN, old : BOOLEAN]
PlayerFile == [id : Id, old : BOOLEAN]

ASSUME LoginAssumption == /\ MaxRows \in Nat \ {0}
                          /\ None \notin Body \cup Character \cup PlayerFile

Init == /\ connected = [d \in Conn |-> "Closed"]
        /\ character = [d \in Conn |-> None]
        /\ body = [b \in Body |-> None]
        /\ charList = <<>>
        /\ pfile = [n \in Name |-> None]
        /\ retired = {} /\ purged = {}
        /\ rows = [n \in Name |-> 0]

-----------------------------------------------------------------------------
Linked == ToSet(charList)
Built == {b \in Body : body[b] # None}
Holding == {d \in Conn : character[d] # None}
NameOn(d) == body[character[d]].name

\* The connections that hold a body of the player id.
HoldersOf(id) == {d \in Holding : body[character[d]].id = id}
DriversOf(b) == {d \in Holding : character[d] = b}

\* get_pc_id: later than any before it.
FreshIds == Id \ ({body[b].id : b \in Built} \cup purged
                  \cup {pfile[n].id : n \in {m \in Name : pfile[m] # None}})

\* A player's new save puts every copy still at a login screen behind.
Outdate(id) == [b \in Body |-> IF b \in Built \ Linked /\ body[b].id = id
                               THEN [body[b] EXCEPT !.old = TRUE] ELSE body[b]]

Saved(b) == [pfile EXCEPT ![body[b].name] = [id |-> body[b].id, old |-> body[b].old]]

\* The bodies that go with the connections in S: only a playing connection's
\* outlives it.
LoginBodies(S) == {character[d] : d \in {e \in S \cap Holding : connected[e] # "Playing"}}

\* The connections in closing close and the bodies in freed are destroyed; bodies
\* is what was at each address just before.
Leave(closing, freed, bodies) ==
    /\ connected' = [d \in Conn |-> IF d \in closing THEN "Closed" ELSE connected[d]]
    /\ character' = [d \in Conn |-> IF d \in closing THEN None ELSE character[d]]
    /\ body' = [b \in Body |-> IF b \in freed THEN None ELSE bodies[b]]
    /\ charList' = Without(charList, freed)

-----------------------------------------------------------------------------
\* init_descriptor.
Connect(d) == /\ connected[d] = "Closed"
              /\ connected' = [connected EXCEPT ![d] = "GetName"]
              /\ UNCHANGED <<character, body, charList, pfile, retired, rows, purged>>

\* load_char_obj: the body of the player file of that name, or a blank one.
Loaded(n, id) == IF pfile[n] # None
                 THEN [name |-> n, id |-> pfile[n].id, new |-> FALSE, old |-> pfile[n].old]
                 ELSE [name |-> n, id |-> id, new |-> TRUE, old |-> FALSE]

\* CON_GET_NAME.  check_reconnect(d, name, false) finds the player in the world.
GiveName(d, n) ==
    /\ connected[d] = "GetName" /\ n \notin retired
    /\ \E b \in Body \ Built, id \in FreshIds :
          /\ body' = [body EXCEPT ![b] = Loaded(n, id)]
          /\ character' = [character EXCEPT ![d] = b]
    /\ LET known == pfile[n] # None \/ \E b \in Linked : body[b].name = n
       IN  connected' = [connected EXCEPT ![d] = IF known THEN "OldPassword" ELSE "Creating"]
    /\ UNCHANGED <<charList, pfile, retired, rows, purged>>

\* Fault for the run's mutants: the body is forgotten rather than freed.
LeakToName(d) ==
    /\ connected' = [connected EXCEPT ![d] = "GetName"]
    /\ character' = [character EXCEPT ![d] = None]
    /\ UNCHANGED <<body, charList>>

\* A connection goes back to the name prompt, its body freed.
BackToName(d) ==
    /\ connected' = [connected EXCEPT ![d] = "GetName"]
    /\ character' = [character EXCEPT ![d] = None]
    /\ body' = [body EXCEPT ![character[d]] = None]
    /\ UNCHANGED charList

\* The body in the world, of the name on d and with nobody driving it, that
\* check_reconnect comes to first once the connections in closing have closed.
LinkDead(d, closing) ==
    Without(charList, {b \in Linked : body[b].name # NameOn(d) \/ ~(DriversOf(b) \subseteq closing)})

\* Fault for the run's mutants: the connections that should close are left open.
ReconnectAlongside(d, closing) ==
    /\ connected' = [connected EXCEPT ![d] = "Playing"]
    /\ character' = [character EXCEPT ![d] = Head(LinkDead(d, closing))]
    /\ body' = [body EXCEPT ![character[d]] = None]
    /\ UNCHANGED charList

\* check_reconnect(d, name, true), after close_socket of those in closing.
Reconnect(d, closing) ==
    LET b == Head(LinkDead(d, closing))
    IN  /\ connected' = [e \in Conn |-> IF e = d THEN "Playing"
                                        ELSE IF e \in closing THEN "Closed" ELSE connected[e]]
        /\ character' = [e \in Conn |-> IF e = d THEN b
                                        ELSE IF e \in closing THEN None ELSE character[e]]
        /\ body' = [c \in Body |-> IF c \in LoginBodies(closing \cup {d}) THEN None ELSE body[c]]
        /\ UNCHANGED charList

\* Fault for the run's mutants: only those already in the game count.
OthersInGame(d) == {e \in Holding \ {d} : connected[e] = "Playing" /\ NameOn(e) = NameOn(d)}

\* check_playing: somebody is past the password as the player d has named.
OthersPlaying(d) == {e \in Holding \ {d} : connected[e] # "OldPassword" /\ NameOn(e) = NameOn(d)}

\* CON_GET_OLD_PASSWORD, with the right one.
RightPassword(d) ==
    /\ connected[d] = "OldPassword"
    /\ IF OthersPlaying(d) = {} /\ LinkDead(d, {}) # <<>>
       THEN Reconnect(d, {})
       ELSE /\ connected' = [connected EXCEPT ![d] = IF OthersPlaying(d) # {} THEN "BreakConnect"
                                                                              ELSE "ReadMotd"]
            /\ UNCHANGED <<character, body, charList>>
    /\ UNCHANGED <<pfile, retired, rows, purged>>

\* CON_BREAK_CONNECT, Y: every other connection in that name is closed, whatever
\* its state.
BreakYes(d) ==
    /\ connected[d] = "BreakConnect"
    /\ LET others == {e \in Holding \ {d} : NameOn(e) = NameOn(d)}
       IN  IF LinkDead(d, others) # <<>>
           THEN Reconnect(d, others)
           ELSE /\ connected' = [e \in Conn |-> IF e = d THEN "GetName"
                                     ELSE IF e \in others THEN "Closed" ELSE connected[e]]
                /\ character' = [e \in Conn |-> IF e \in others \cup {d} THEN None
                                                                         ELSE character[e]]
                /\ body' = [c \in Body |-> IF c \in LoginBodies(others \cup {d}) THEN None
                                                                               ELSE body[c]]
                /\ UNCHANGED charList
    /\ UNCHANGED <<pfile, retired, rows, purged>>

\* CON_BREAK_CONNECT, CON_CONFIRM_NEW_NAME and CON_LEGIT_NAME, N.
Decline(d) == /\ connected[d] \in {"BreakConnect", "Creating"}
              /\ BackToName(d)
              /\ UNCHANGED <<pfile, retired, rows, purged>>

\* The last question of character creation answered.
FinishCreating(d) == /\ connected[d] = "Creating"
                     /\ connected' = [connected EXCEPT ![d] = "ReadMotd"]
                     /\ UNCHANGED <<character, body, charList, pfile, retired, rows, purged>>

\* CON_READ_MOTD: the login hands the body over to the world.  A new player gets
\* a row in the players table and a player file.
EnterGame(d) ==
    LET b == character[d]
        n == NameOn(d)
    IN  /\ connected[d] = "ReadMotd"
        /\ connected' = [connected EXCEPT ![d] = "Playing"]
        /\ charList' = <<b>> \o charList
        /\ IF body[b].new
           THEN /\ rows[n] < MaxRows
                /\ rows' = [rows EXCEPT ![n] = @ + 1]
                /\ pfile' = Saved(b)
                /\ body' = [body EXCEPT ![b].new = FALSE]
           ELSE UNCHANGED <<rows, pfile, body>>
        /\ UNCHANGED <<character, retired, purged>>

\* close_socket: a wrong password, a refusal, a player at their first level.
CloseSocket(d) == /\ connected[d] # "Closed"
                  /\ Leave({d}, LoginBodies({d}), body)
                  /\ UNCHANGED <<pfile, retired, rows, purged>>

\* The game loop finds the link lost: it saves the body the connection holds, in
\* the world or not, if that is above the first level, before it closes.
LinkLost(d) ==
    /\ d \in Holding /\ ~body[character[d]].new
    /\ pfile' = Saved(character[d])
    /\ Leave({d}, LoginBodies({d}),
             IF character[d] \in Linked THEN Outdate(body[character[d]].id) ELSE body)
    /\ UNCHANGED <<retired, rows, purged>>

-----------------------------------------------------------------------------
\* The player's own command, or the game's periodic save.
Save(b) == /\ b \in Linked
           /\ pfile' = Saved(b)
           /\ body' = Outdate(body[b].id)
           /\ UNCHANGED <<connected, character, charList, retired, rows, purged>>

\* Fault for the run's mutants: only the player's own connection is closed.
OwnConnection(b) == DriversOf(b)

\* do_quit_new closes the player's connection, and every other that holds a body
\* of the same player.
ToastedBy(b) == HoldersOf(body[b].id)

\* do_quit_new, of a player who asked for it or has idled or died for good.
Extract(b) == Leave(ToastedBy(b), {b} \cup {character[d] : d \in ToastedBy(b)}, Outdate(body[b].id))

Quit(b) == /\ b \in Linked
           /\ Extract(b)
           /\ pfile' = Saved(b)
           /\ UNCHANGED <<retired, rows, purged>>

\* delete_char after a quit: the file is removed, or moved to dead_char.
Delete(b) == /\ b \in Linked
             /\ Extract(b)
             /\ pfile' = [pfile EXCEPT ![body[b].name] = None]
             /\ rows' = [rows EXCEPT ![body[b].name] = 0]
             /\ retired' \in {retired, retired \cup {body[b].name}}
             /\ UNCHANGED purged

\* do_purge of a player: saved if above the first level, and extracted; only the
\* connection that drives the body is closed.
Purge(b) == /\ b \in Linked
            /\ \/ /\ Leave(DriversOf(b), {b}, Outdate(body[b].id))
                  /\ pfile' = Saved(b)
               \/ Leave(DriversOf(b), {b}, body) /\ UNCHANGED pfile
            /\ purged' = purged \cup {body[b].id}
            /\ UNCHANGED <<retired, rows>>

\* do_rename, of a player who is not link-dead.
Rename(b, n) ==
    /\ b \in Linked /\ DriversOf(b) # {}
    /\ pfile[n] = None /\ \A c \in Linked : body[c].name # n
    /\ LET old == body[b].name
       IN  /\ body' = [Outdate(body[b].id) EXCEPT ![b].name = n]
           /\ pfile' = [pfile EXCEPT ![n] = [id |-> body[b].id, old |-> body[b].old], ![old] = None]
           /\ rows' = [rows EXCEPT ![n] = @ + rows[old], ![old] = 0]
    /\ UNCHANGED <<connected, character, charList, retired, purged>>

Next == \/ \E d \in Conn : \/ Connect(d) \/ RightPassword(d) \/ BreakYes(d) \/ Decline(d)
                           \/ FinishCreating(d) \/ EnterGame(d)
                           \/ CloseSocket(d) \/ LinkLost(d)
                           \/ \E n \in Name : GiveName(d, n)
        \/ \E b \in Body : Save(b) \/ Quit(b) \/ Delete(b) \/ Purge(b)

Spec == Init /\ [][Next]_vars

\* With an immortal who renames players.
NextRenaming == Next \/ \E b \in Body, n \in Name : Rename(b, n)

SpecRenaming == Init /\ [][NextRenaming]_vars

-----------------------------------------------------------------------------
\* Type invariant.
TypeOK == /\ connected \in [Conn -> LoginStates \cup {"Closed", "Playing"}]
          /\ character \in [Conn -> Body \cup {None}]
          /\ body \in [Body -> Character \cup {None}]
          /\ charList \in Seq(Built) /\ IsInjective(charList)
          /\ pfile \in [Name -> PlayerFile \cup {None}]
          /\ retired \subseteq Name /\ purged \subseteq Id
          /\ rows \in [Name -> 0..MaxRows]

\* "The login hands the character over to the world here.  Everything before this
\* point can still reject it and free it outright" (CON_READ_MOTD): no two
\* connections hold the same body, and a body is in the world exactly when its
\* connection is playing, so close_socket and free_char never free what another
\* connection or the list still owns.
OneOwner == /\ TypeOK
            /\ \A d, e \in Holding : character[d] = character[e] => d = e
            /\ \A d \in Conn : connected[d] = "Playing" <=> character[d] \in Linked
            /\ \A d \in Conn : connected[d] \in LoginStates \ {"GetName"} => character[d] \in Built

\* Nothing else owns a body before that, so one that no connection holds any more
\* would never be freed: it is in the world, link-dead, or it is gone.
NothingOrphaned == Built \subseteq Linked \cup {character[d] : d \in Holding}

\* A player is in the world once, however many connections have named them and
\* in whatever order those give the password, break each other's connection, and
\* read the news.  ("Id: Unique player id", docs/player-file-format.md:129.)
OneBodyPerPlayer == \A b, c \in Linked : body[b].id = body[c].id => b = c

\* No body enters the world with less than the player had saved when it does:
\* quitting closes the logins that loaded the player earlier.  Only an
\* immortal's purge leaves them.
FreshEntry == [][\A b \in ToSet(charList') \ Linked : body[b].old => body[b].id \in purged]_vars

\* A player file that a dropped login has put back in time does not stay so: the
\* player is in the world still, and is saved on the way out.
RolledBackIsInWorld == \A n \in Name : pfile[n] # None /\ pfile[n].old =>
                          pfile[n].id \in purged \cup {body[b].id : b \in Linked}

\* "Keyed on the unique name" (repositories/playerrepository.c:37): the players
\* table has a single row for a name.
RowPerName == \A n \in Name : rows[n] <= 1
=============================================================================
