-------------------------- MODULE ConnectionProofs ---------------------------
(***************************************************************************)
(* Proofs about Login, for any numbers of connections, players and bodies: *)
(* one owner for every body, one body for every player, and no entry with  *)
(* a copy that the player has since saved over.  And about PulseLoop, for  *)
(* any number of connections: the walks of a pulse keep to the list of     *)
(* connections, and what overflows in a pulse is silent and is closed by   *)
(* its end.                                                                *)
(***************************************************************************)
EXTENDS Login, PulseLoop, CollectionProofs

IsBuilt(bd) == {b \in Body : bd[b] # None}

\* Connections and the world between them own every body, each one once.
Held(conn, char, bd, world) ==
    /\ \A d \in Conn : /\ char[d] = None <=> conn[d] \in {"Closed", "GetName"}
                       /\ char[d] # None => char[d] \in IsBuilt(bd)
                       /\ conn[d] = "Playing" <=> char[d] \in world
    /\ \A d, e \in Conn : char[d] # None /\ char[d] = char[e] => d = e
    /\ \A b \in IsBuilt(bd) : b \in world \/ \E d \in Conn : char[d] = b

\* A player's number goes with one name, in bodies and in files.
OneName(bd, pf) ==
    /\ \A b, c \in IsBuilt(bd) : bd[b].id = bd[c].id => bd[b].name = bd[c].name
    /\ \A b \in IsBuilt(bd), n \in Name : pf[n] # None /\ pf[n].id = bd[b].id => bd[b].name = n
    /\ \A n, m \in Name : pf[n] # None /\ pf[m] # None /\ pf[n].id = pf[m].id => n = m

\* Nobody else has the number of a player who has not played yet, nor a file.
Unplayed(conn, char, bd, pf, world) ==
    /\ \A b \in IsBuilt(bd) : bd[b].new =>
          /\ b \notin world /\ ~bd[b].old
          /\ \A c \in IsBuilt(bd) : bd[c].id = bd[b].id => c = b
          /\ \A n \in Name : pf[n] # None => pf[n].id # bd[b].id
    /\ \A d \in Conn : conn[d] = "Creating" => bd[char[d]].new

\* A player is in the world once, and not at all while a connection that is past
\* the password reads the news; and there is one such connection.
Entering(conn, char, bd, world) ==
    /\ \A b, c \in world : bd[b].id = bd[c].id => b = c
    /\ \A d \in Conn : conn[d] = "ReadMotd" =>
          /\ \A b \in world : bd[b].id # bd[char[d]].id
          /\ \A e \in Conn : conn[e] = "ReadMotd" /\ bd[char[e]].id = bd[char[d]].id => e = d

\* A copy or a file is behind only while the player is in the world, whose copy is
\* not, unless the player has been purged.
Behind(bd, pf, world, pg) ==
    /\ \A b \in IsBuilt(bd) : bd[b].old =>
          bd[b].id \in pg \/ (b \notin world /\ \E c \in world : bd[c].id = bd[b].id)
    /\ \A n \in Name : pf[n] # None /\ pf[n].old =>
          pf[n].id \in pg \/ \E c \in world : bd[c].id = pf[n].id

IInv == /\ TypeOK
        /\ Held(connected, character, body, Linked)
        /\ OneName(body, pfile)
        /\ Unplayed(connected, character, body, pfile, Linked)
        /\ Entering(connected, character, body, Linked)
        /\ Behind(body, pfile, Linked, purged)

\* The types, with the list in the world taken as a set.
Types == /\ connected \in [Conn -> LoginStates \cup {"Closed", "Playing"}]
         /\ character \in [Conn -> Body \cup {None}]
         /\ body \in [Body -> Character \cup {None}]
         /\ pfile \in [Name -> PlayerFile \cup {None}]
         /\ retired \subseteq Name /\ purged \subseteq Id
         /\ rows \in [Name -> 0..MaxRows]
         /\ charList \in Seq(Body) /\ IsInjective(charList) /\ Linked \subseteq IsBuilt(body)

LEMMA SeqOfSubset ==
    ASSUME NEW S, NEW s \in Seq(S), NEW T, ToSet(s) \subseteq T
    PROVE  s \in Seq(T)
<1>1. \A i \in 1..Len(s) : s[i] \in T
  BY DEF ToSet
<1>2. Len(s) \in Nat /\ s = [i \in 1..Len(s) |-> s[i]]
  OBVIOUS
<1> QED
  BY <1>1, <1>2

LEMMA TypesIs == TypeOK <=> Types
<1>1. Built = IsBuilt(body)
  BY DEF Built, IsBuilt
<1>2. ASSUME TypeOK PROVE Types
  <2>1. charList \in Seq(Built)
    BY <1>2 DEF TypeOK
  <2>2. \A i \in 1..Len(charList) : charList[i] \in Built
    BY <2>1
  <2>3. ToSet(charList) \subseteq Built
    BY <2>1, <2>2 DEF ToSet
  <2>4. ToSet(charList) \subseteq Body
    BY <2>3 DEF Built
  <2>5. charList \in Seq(Body)
    BY <2>1, <2>4, SeqOfSubset
  <2> QED
    BY <1>1, <1>2, <2>3, <2>5 DEF TypeOK, Types, Linked
<1>3. ASSUME Types PROVE TypeOK
  <2>1. charList \in Seq(Built)
    BY <1>1, <1>3, SeqOfSubset DEF Types, Linked
  <2> QED
    BY <1>3, <2>1 DEF TypeOK, Types
<1> QED
  BY <1>2, <1>3

LEMMA InitEstablishes == Init => IInv
<1> SUFFICES ASSUME Init PROVE IInv
  OBVIOUS
<1>1. Linked = {}
  BY DEF Init, Linked, ToSet
<1>2. Types
  <2>1. <<>> \in Seq(Body) /\ IsInjective(<<>>)
    BY DEF IsInjective
  <2>2. Linked \subseteq IsBuilt(body)
    BY <1>1
  <2> QED
    BY <2>1, <2>2, LoginAssumption DEF Init, Types
<1>3. IsBuilt(body) = {}
  BY DEF Init, IsBuilt
<1>4. /\ Held(connected, character, body, Linked)
      /\ OneName(body, pfile)
      /\ Unplayed(connected, character, body, pfile, Linked)
      /\ Entering(connected, character, body, Linked)
      /\ Behind(body, pfile, Linked, purged)
  BY <1>1, <1>3, LoginAssumption DEF Init, Held, OneName, Unplayed, Entering, Behind
<1> QED
  BY <1>2, <1>4, TypesIs DEF IInv

-----------------------------------------------------------------------------
\* Facts about a state that satisfies the invariant, which most steps rest on.
LEMMA Facts ==
    ASSUME IInv
    PROVE  /\ Types /\ Linked \subseteq IsBuilt(body) /\ Built = IsBuilt(body)
           /\ \A b \in Built : body[b] \in Character
           /\ \A d \in Holding : character[d] \in Built /\ d \in Conn
           /\ \A d \in Holding : connected[d] = "Playing" <=> character[d] \in Linked
           /\ \A b \in Linked : ~body[b].new
<1>1. Types /\ Built = IsBuilt(body)
  BY TypesIs DEF IInv, Built, IsBuilt
<1>2. \A b \in Built : body[b] \in Character
  BY <1>1 DEF Types, Built
<1>3. \A d \in Holding : /\ character[d] \in Built /\ d \in Conn
                         /\ connected[d] = "Playing" <=> character[d] \in Linked
  BY <1>1 DEF Holding, IInv, Held
<1>4. \A b \in Linked : ~body[b].new
  BY <1>1 DEF IInv, Unplayed, Types
<1> QED
  BY <1>1, <1>2, <1>3, <1>4 DEF Types

\* What Leave does to the list in the world.
LEMMA LeaveEffect ==
    ASSUME IInv, NEW closing, NEW freed, NEW bodies, Leave(closing, freed, bodies)
    PROVE  /\ charList' \in Seq(Body) /\ IsInjective(charList')
           /\ Linked' = Linked \ freed
<1>1. charList \in Seq(Body) /\ IsInjective(charList)
  BY Facts DEF Types
<1>2. /\ Without(charList, freed) \in Seq(Body) /\ IsInjective(Without(charList, freed))
      /\ ToSet(Without(charList, freed)) = ToSet(charList) \ freed
  BY <1>1, WithoutKeeps
<1> QED
  BY <1>2 DEF Leave, Linked

\* The bodies are as before, but that some copies are now behind.
SameBodies(bodies) ==
    /\ bodies \in [Body -> Character \cup {None}]
    /\ IsBuilt(bodies) = IsBuilt(body)
    /\ \A b \in IsBuilt(body) : /\ bodies[b].name = body[b].name /\ bodies[b].id = body[b].id
                                /\ bodies[b].new = body[b].new
                                /\ ~body[b].old /\ (b \in Linked \/ body[b].new) => ~bodies[b].old

\* A file is as before, or gone, or written by one who has played.
SameFiles(pf) ==
    /\ pf \in [Name -> PlayerFile \cup {None}]
    /\ \A n \in Name :
          \/ pf[n] = None \/ pf[n] = pfile[n]
          \/ \E b \in Built : ~body[b].new /\ n = body[b].name /\ pf[n].id = body[b].id

LEMMA OutdateIsSame ==
    ASSUME IInv, NEW b \in Linked
    PROVE  /\ SameBodies(Outdate(body[b].id)) /\ SameBodies(body)
           /\ \A c \in Built : Outdate(body[b].id)[c].old =>
                 body[c].old \/ (c \notin Linked /\ body[c].id = body[b].id)
<1>1. /\ body \in [Body -> Character \cup {None}] /\ Linked \subseteq Built
      /\ Built = IsBuilt(body) /\ \A c \in Built : body[c] \in Character
      /\ Built \subseteq Body
  BY Facts DEF Types, Built
<1> DEFINE o == Outdate(body[b].id)
<1>2. \A c \in Body : o[c] = IF c \in Built \ Linked /\ body[c].id = body[b].id
                             THEN [body[c] EXCEPT !.old = TRUE] ELSE body[c]
  BY DEF Outdate
<1>3. \A c \in Built : /\ [body[c] EXCEPT !.old = TRUE] \in Character
                       /\ [body[c] EXCEPT !.old = TRUE].name = body[c].name
                       /\ [body[c] EXCEPT !.old = TRUE].id = body[c].id
                       /\ [body[c] EXCEPT !.old = TRUE].new = body[c].new
  BY <1>1 DEF Character
<1>4. o = [c \in Body |-> o[c]]
  BY DEF Outdate
<1> HIDE DEF o
<1>5. o \in [Body -> Character \cup {None}]
  BY <1>1, <1>2, <1>3, <1>4
<1>6. IsBuilt(o) = IsBuilt(body)
  <2>1. \A c \in Body : o[c] # None <=> body[c] # None
    <3>1. \A c \in Built : [body[c] EXCEPT !.old = TRUE] # None
      BY <1>3, LoginAssumption
    <3> QED
      BY <1>2, <3>1 DEF Built
  <2> QED
    BY <2>1 DEF IsBuilt
<1>7. \A c \in Built : /\ o[c].name = body[c].name /\ o[c].id = body[c].id /\ o[c].new = body[c].new
                       /\ o[c].old => body[c].old \/ (c \notin Linked /\ body[c].id = body[b].id)
  BY <1>1, <1>2, <1>3
<1>8. \A c \in Built : body[c].new => body[c].id # body[b].id
  BY <1>1, Facts DEF IInv, Unplayed
<1>9. SameBodies(body)
  BY <1>1 DEF SameBodies
<1>10. SameBodies(o)
  <2>1. \A c \in Built : ~body[c].old /\ (c \in Linked \/ body[c].new) => ~o[c].old
    BY <1>7, <1>8
  <2> QED
    BY <1>1, <1>5, <1>6, <1>7, <2>1 DEF SameBodies
<1> QED
  BY <1>7, <1>9, <1>10 DEF o

\* What Leave makes of the connections, the bodies and the world.
Closes(closing, freed, bodies, conn, char, bd, world) ==
    /\ conn = [d \in Conn |-> IF d \in closing THEN "Closed" ELSE connected[d]]
    /\ char = [d \in Conn |-> IF d \in closing THEN None ELSE character[d]]
    /\ bd = [b \in Body |-> IF b \in freed THEN None ELSE bodies[b]]
    /\ world = Linked \ freed

\* Of the connections that close, the bodies that are not in the world are freed, and
\* none that another connection holds.
MayClose(closing, freed) ==
    /\ closing \in SUBSET Conn /\ freed \in SUBSET Body
    /\ \A d \in closing \cap Holding : connected[d] # "Playing" => character[d] \in freed
    /\ \A d \in Holding : character[d] \in freed => d \in closing

\* All of the invariant but what is behind.
Kept(conn, char, bd, pf, world) ==
    /\ conn \in [Conn -> LoginStates \cup {"Closed", "Playing"}]
    /\ char \in [Conn -> Body \cup {None}]
    /\ bd \in [Body -> Character \cup {None}]
    /\ Held(conn, char, bd, world)
    /\ OneName(bd, pf)
    /\ Unplayed(conn, char, bd, pf, world)
    /\ Entering(conn, char, bd, world)

LEMMA ClosingKeeps ==
    ASSUME IInv, NEW closing, NEW freed, NEW bodies, NEW pf,
           NEW conn, NEW char, NEW bd, NEW world,
           Closes(closing, freed, bodies, conn, char, bd, world),
           MayClose(closing, freed), SameBodies(bodies), SameFiles(pf)
    PROVE  Kept(conn, char, bd, pf, world)
<1>0. /\ closing \in SUBSET Conn /\ freed \in SUBSET Body
      /\ \A d \in closing \cap Holding : connected[d] # "Playing" => character[d] \in freed
      /\ \A d \in Holding : character[d] \in freed => d \in closing
  BY DEF MayClose
<1>1. /\ Types /\ Linked \subseteq Built /\ Built = IsBuilt(body) /\ Built \subseteq Body
      /\ \A b \in Built : body[b] \in Character
      /\ \A b \in Linked : ~body[b].new
  BY Facts DEF Built
<1>2. world = Linked \ freed
  BY DEF Closes
<1>3. /\ conn = [d \in Conn |-> IF d \in closing THEN "Closed" ELSE connected[d]]
      /\ char = [d \in Conn |-> IF d \in closing THEN None ELSE character[d]]
      /\ bd = [b \in Body |-> IF b \in freed THEN None ELSE bodies[b]]
  BY DEF Closes
<1>4. /\ bodies \in [Body -> Character \cup {None}] /\ IsBuilt(bodies) = Built
      /\ \A b \in Built : /\ bodies[b].name = body[b].name /\ bodies[b].id = body[b].id
                          /\ bodies[b].new = body[b].new
                          /\ ~body[b].old /\ (b \in Linked \/ body[b].new) => ~bodies[b].old
  BY <1>1 DEF SameBodies
<1>5. IsBuilt(bd) = Built \ freed
  BY <1>3, <1>4 DEF IsBuilt
<1>6. \A b \in Built \ freed : /\ bd[b] = bodies[b]
                               /\ bd[b].name = body[b].name /\ bd[b].id = body[b].id
                               /\ bd[b].new = body[b].new
                               /\ ~body[b].old /\ body[b].new => ~bd[b].old
  BY <1>1, <1>3, <1>4
<1>7. /\ conn \in [Conn -> LoginStates \cup {"Closed", "Playing"}]
      /\ char \in [Conn -> Body \cup {None}]
      /\ bd \in [Body -> Character \cup {None}]
  BY <1>1, <1>3, <1>4 DEF Types
<1>9. \A d \in Conn : /\ d \in closing => conn[d] = "Closed" /\ char[d] = None
                      /\ d \notin closing => /\ conn[d] = connected[d]
                                             /\ char[d] = character[d]
  BY <1>3
<1>10. Held(conn, char, bd, world)
  <2>1. Held(connected, character, body, Linked)
    BY DEF IInv
  <2>2. \A d \in Conn \ closing : character[d] # None => character[d] \in Built \ freed
    BY <1>0, <1>1, <2>1 DEF Held, Holding
  <2>3. None \notin world
    BY <1>1, <1>2, LoginAssumption
  <2>4. \A d \in Conn : /\ char[d] = None <=> conn[d] \in {"Closed", "GetName"}
                        /\ char[d] # None => char[d] \in IsBuilt(bd)
    BY <1>2, <1>5, <1>9, <2>1, <2>2 DEF Held
  <2>5. \A d \in Conn : conn[d] = "Playing" <=> char[d] \in world
    <3> SUFFICES ASSUME NEW d \in Conn PROVE conn[d] = "Playing" <=> char[d] \in world
      OBVIOUS
    <3>1. CASE d \in closing
      BY <1>9, <2>3, <3>1
    <3>2. CASE d \notin closing
      BY <1>1, <1>2, <1>9, <2>1, <2>2, <3>2, LoginAssumption DEF Held
    <3> QED
      BY <3>1, <3>2
  <2>6. \A d, e \in Conn : char[d] # None /\ char[d] = char[e] => d = e
    BY <1>9, <2>1 DEF Held
  <2>7. \A b \in IsBuilt(bd) : b \in world \/ \E d \in Conn : char[d] = b
    <3> SUFFICES ASSUME NEW b \in Built \ freed, b \notin Linked
                 PROVE  \E d \in Conn : char[d] = b
      BY <1>2, <1>5
    <3>1. PICK d \in Conn : character[d] = b
      BY <1>1, <1>2, <2>1 DEF Held
    <3>2. d \in Holding /\ connected[d] # "Playing"
      BY <1>1, <1>2, <2>1, <3>1, LoginAssumption DEF Held, Holding
    <3>3. d \notin closing
      BY <1>0, <3>1, <3>2
    <3> QED
      BY <1>9, <3>1, <3>3
  <2> QED
    BY <2>4, <2>5, <2>6, <2>7 DEF Held
<1>11. \A n \in Name : \/ pf[n] = None \/ pf[n] = pfile[n]
                       \/ \E b \in Built : ~body[b].new /\ n = body[b].name /\ pf[n].id = body[b].id
  BY DEF SameFiles
<1>12. OneName(bd, pf)
  <2>1. OneName(body, pfile)
    BY DEF IInv
  <2>2. \A b, c \in IsBuilt(bd) : bd[b].id = bd[c].id => bd[b].name = bd[c].name
    BY <1>1, <1>2, <1>5, <1>6, <2>1 DEF OneName
  <2>3. \A b \in Built, n \in Name : pf[n] # None /\ pf[n].id = body[b].id => body[b].name = n
    BY <1>1, <1>2, <1>11, <2>1 DEF OneName
  <2>4. \A n, m \in Name : pf[n] # None /\ pf[m] # None /\ pf[n].id = pf[m].id => n = m
    BY <1>1, <1>2, <1>11, <2>1, <2>3 DEF OneName
  <2> QED
    BY <1>2, <1>5, <1>6, <2>2, <2>3, <2>4 DEF OneName
<1>13. Unplayed(conn, char, bd, pf, world)
  <2>1. Unplayed(connected, character, body, pfile, Linked)
    BY DEF IInv
  <2>2. \A b \in Built : body[b].new =>
           /\ \A c \in Built : body[c].id = body[b].id => c = b
           /\ \A n \in Name : pf[n] # None => pf[n].id # body[b].id
    BY <1>1, <1>2, <1>11, <2>1 DEF Unplayed
  <2>3. \A b \in Built : body[b].new => b \notin Linked /\ ~body[b].old
    BY <1>1, <1>2, <2>1 DEF Unplayed
  <2>4. \A b \in IsBuilt(bd) : bd[b].new =>
          /\ b \notin world /\ ~bd[b].old
          /\ \A c \in IsBuilt(bd) : bd[c].id = bd[b].id => c = b
          /\ \A n \in Name : pf[n] # None => pf[n].id # bd[b].id
    BY <1>2, <1>5, <1>6, <2>2, <2>3
  <2>5. \A d \in Conn : conn[d] = "Creating" => bd[char[d]].new
    <3> SUFFICES ASSUME NEW d \in Conn, conn[d] = "Creating"
                 PROVE  bd[char[d]].new
      OBVIOUS
    <3>1. d \notin closing /\ connected[d] = "Creating" /\ char[d] = character[d]
      BY <1>9
    <3>2. char[d] \in IsBuilt(bd)
      BY <1>9, <1>10, <3>1 DEF Held
    <3> QED
      BY <1>2, <1>5, <1>6, <2>1, <3>1, <3>2 DEF Unplayed
  <2> QED
    BY <2>4, <2>5 DEF Unplayed
<1>14. Entering(conn, char, bd, world)
  <2>1. Entering(connected, character, body, Linked)
    BY DEF IInv
  <2>2. \A b, c \in world : bd[b].id = bd[c].id => b = c
    BY <1>1, <1>2, <1>6, <2>1 DEF Entering
  <2>3. \A d \in Conn : conn[d] = "ReadMotd" =>
           /\ d \notin closing /\ connected[d] = "ReadMotd" /\ char[d] = character[d]
           /\ character[d] \in Built \ freed
    BY <1>2, <1>5, <1>9, <1>10 DEF Held
  <2>4. ASSUME NEW d \in Conn, conn[d] = "ReadMotd"
        PROVE  /\ \A b \in world : bd[b].id # bd[char[d]].id
               /\ \A e \in Conn : /\ conn[e] = "ReadMotd"
                                  /\ bd[char[e]].id = bd[char[d]].id
                                  => e = d
    BY <1>1, <1>2, <1>6, <2>1, <2>3, <2>4 DEF Entering
  <2> QED
    BY <2>2, <2>4 DEF Entering
<1> QED
  BY <1>7, <1>10, <1>12, <1>13, <1>14 DEF Kept


LEMMA LeaveKeeps ==
    ASSUME IInv, NEW closing \in SUBSET Conn, NEW freed \in SUBSET Body, NEW bodies,
           Leave(closing, freed, bodies), SameBodies(bodies), SameFiles(pfile'),
           \A d \in closing \cap Holding : connected[d] # "Playing" => character[d] \in freed,
           \A d \in Holding : character[d] \in freed => d \in closing,
           retired' \subseteq Name, purged' \subseteq Id, rows' \in [Name -> 0..MaxRows]
    PROVE  /\ Types'
           /\ Kept(connected', character', body', pfile', Linked')
           /\ IsBuilt(body') = Built \ freed
           /\ \A b \in Built \ freed : body'[b] = bodies[b]
<1>1. /\ charList' \in Seq(Body) /\ IsInjective(charList')
      /\ Linked' = Linked \ freed
  BY LeaveEffect
<1>2. body' = [b \in Body |-> IF b \in freed THEN None ELSE bodies[b]]
  BY DEF Leave
<1>3. Kept(connected', character', body', pfile', Linked')
  <2>1. Closes(closing, freed, bodies, connected', character', body', Linked')
    BY <1>1 DEF Leave, Closes
  <2>2. MayClose(closing, freed)
    BY DEF MayClose
  <2> QED
    BY <2>1, <2>2, ClosingKeeps
<1>4. /\ IsBuilt(body') = Built \ freed
      /\ \A b \in Built \ freed : body'[b] = bodies[b]
  <2>1. IsBuilt(bodies) = Built
    BY Facts DEF SameBodies
  <2> QED
    BY <1>2, <2>1 DEF IsBuilt
<1>5. pfile' \in [Name -> PlayerFile \cup {None}] /\ Linked' \subseteq IsBuilt(body')
  BY <1>1, <1>4, Facts DEF SameFiles
<1> QED
  BY <1>1, <1>3, <1>4, <1>5 DEF Types, Kept

LEMMA IInvIs ==
    ASSUME Types', Kept(connected', character', body', pfile', Linked'),
           Behind(body', pfile', Linked', purged')
    PROVE  IInv'
<1>1. TypeOK' <=> Types'
  BY TypesIs, PTL
<1> QED
  BY <1>1 DEF IInv, Kept

\* One connection closes, and nobody leaves the world.
LEMMA OneCloses ==
    ASSUME IInv, NEW d \in Conn, NEW bodies, Leave({d}, LoginBodies({d}), bodies),
           SameBodies(bodies), SameFiles(pfile'), UNCHANGED <<retired, rows, purged>>,
           \A b \in Built : bodies[b].old =>
              body[b].old \/ (b \notin Linked /\ \E c \in Linked : body[c].id = body[b].id),
           \A n \in Name : pfile'[n] # None /\ pfile'[n].old =>
              pfile'[n].id \in purged \/ \E c \in Linked : body[c].id = pfile'[n].id
    PROVE  IInv'
<1> DEFINE freed == LoginBodies({d})
<1>1. /\ Types /\ Linked \subseteq Built /\ Built = IsBuilt(body) /\ Built \subseteq Body
      /\ \A e \in Holding : character[e] \in Built /\ e \in Conn
      /\ \A e \in Holding : connected[e] = "Playing" <=> character[e] \in Linked
  BY Facts DEF Built
<1>2. \A c \in freed : c \in Body /\ c \notin Linked /\ d \in Holding /\ c = character[d]
  BY <1>1 DEF LoginBodies
<1>3. d \in Holding /\ connected[d] # "Playing" => character[d] \in freed
  BY DEF LoginBodies
<1>4. \A e \in Holding : character[e] \in freed => e = d
  BY <1>1, <1>2 DEF Holding, IInv, Held
<1> HIDE DEF freed
<1>5. freed \in SUBSET Body /\ {d} \in SUBSET Conn
  BY <1>2
<1>6. Leave({d}, freed, bodies)
  BY DEF freed
<1>7. retired' \subseteq Name /\ purged' \subseteq Id /\ rows' \in [Name -> 0..MaxRows]
  BY <1>1 DEF Types
<1>8. /\ Types'
      /\ Kept(connected', character', body', pfile', Linked')
      /\ IsBuilt(body') = Built \ freed
      /\ \A b \in Built \ freed : body'[b] = bodies[b]
  <2>1. \A e \in {d} \cap Holding : connected[e] # "Playing" => character[e] \in freed
    BY <1>3
  <2>2. \A e \in Holding : character[e] \in freed => e \in {d}
    BY <1>4
  <2> QED
    BY <1>5, <1>6, <1>7, <2>1, <2>2, LeaveKeeps
<1>9. Linked' = Linked
  <2>1. Linked' = Linked \ freed
    BY <1>6, LeaveEffect
  <2> QED
    BY <1>2, <2>1
<1>10. \A b \in Built : bodies[b].id = body[b].id
  BY <1>1 DEF SameBodies
<1>11. Behind(body', pfile', Linked', purged')
  <2>1. Behind(body, pfile, Linked, purged)
    BY DEF IInv
  <2>2. \A c \in Linked : c \in Built \ freed /\ body'[c].id = body[c].id
    BY <1>1, <1>2, <1>8, <1>10
  <2>3. \A b \in IsBuilt(body') : body'[b].old =>
           body'[b].id \in purged \/ (b \notin Linked /\ \E c \in Linked : body'[c].id = body'[b].id)
    BY <1>1, <1>8, <1>10, <2>1, <2>2 DEF Behind
  <2>4. \A n \in Name : pfile'[n] # None /\ pfile'[n].old =>
           pfile'[n].id \in purged \/ \E c \in Linked : body'[c].id = pfile'[n].id
    BY <2>2
  <2> QED
    BY <1>9, <2>3, <2>4 DEF Behind
<1> QED
  BY <1>8, <1>11, IInvIs

\* A player leaves the world: with every body and file of theirs, or purged.
LEMMA PlayerLeaves ==
    ASSUME IInv, NEW b \in Linked, NEW closing \in SUBSET Conn, NEW freed \in SUBSET Built,
           NEW bodies \in {body, Outdate(body[b].id)}, Leave(closing, freed, bodies), SameFiles(pfile'),
           \A d \in closing \cap Holding : connected[d] # "Playing" => character[d] \in freed,
           \A d \in Holding : character[d] \in freed => d \in closing,
           retired' \subseteq Name, purged' \subseteq Id, rows' \in [Name -> 0..MaxRows],
           \A c \in freed : body[c].id = body[b].id,
           purged \subseteq purged',
           \A n \in Name : \/ pfile'[n] \in {None, pfile[n]}
                           \/ pfile'[n].id = body[b].id /\ pfile'[n].old = body[b].old,
           \/ body[b].id \in purged'
           \/ /\ \A c \in Built : body[c].id = body[b].id => c \in freed
              /\ \/ pfile'[body[b].name] = None
                 \/ /\ pfile'[body[b].name].id = body[b].id
                    /\ pfile'[body[b].name].old = body[b].old
    PROVE  IInv'
<1>1. /\ Types /\ Linked \subseteq Built /\ Built = IsBuilt(body) /\ Built \subseteq Body
  BY Facts DEF Built
<1>2. /\ SameBodies(bodies)
      /\ \A c \in Built : bodies[c].old => body[c].old \/ body[c].id = body[b].id
  BY OutdateIsSame
<1>3. freed \in SUBSET Body
  BY <1>1
<1>4. /\ Types'
      /\ Kept(connected', character', body', pfile', Linked')
      /\ IsBuilt(body') = Built \ freed
      /\ \A c \in Built \ freed : body'[c] = bodies[c]
  BY <1>2, <1>3, LeaveKeeps
<1>5. Linked' = Linked \ freed
  BY LeaveEffect
<1>6. \A c \in Built \ freed : body'[c].id = body[c].id
  BY <1>1, <1>2, <1>4 DEF SameBodies
<1>7. Behind(body, pfile, Linked, purged) /\ OneName(body, pfile)
  BY DEF IInv
<1>8. body[b].old => body[b].id \in purged
  BY <1>1, <1>7 DEF Behind
<1>9. \A i : (\E w \in Linked : body[w].id = i) /\ i # body[b].id =>
               \E w \in Linked' : body'[w].id = i
  BY <1>1, <1>5, <1>6
<1>10. ASSUME NEW c \in IsBuilt(body'), body'[c].old
       PROVE  body'[c].id \in purged' \/ (c \notin Linked' /\ \E w \in Linked' : body'[w].id = body'[c].id)
  <2>1. c \in Built \ freed /\ body'[c].id = body[c].id /\ (body[c].old \/ body[c].id = body[b].id)
    BY <1>2, <1>4, <1>6, <1>10
  <2>2. CASE body[c].id = body[b].id
    BY <2>1, <2>2
  <2>3. CASE body[c].id # body[b].id
    <3>1. body[c].id \in purged \/ (c \notin Linked /\ \E w \in Linked : body[w].id = body[c].id)
      BY <1>1, <1>7, <2>1, <2>3 DEF Behind
    <3> QED
      BY <1>5, <1>9, <2>1, <2>3, <3>1
  <2> QED
    BY <2>2, <2>3
<1>11. ASSUME NEW n \in Name, pfile'[n] # None, pfile'[n].old
       PROVE  pfile'[n].id \in purged' \/ \E w \in Linked' : body'[w].id = pfile'[n].id
  <2>1. CASE pfile'[n].id = body[b].id /\ pfile'[n].old = body[b].old
    BY <1>8, <1>11, <2>1
  <2>2. CASE pfile'[n] = pfile[n] /\ pfile[n].id # body[b].id
    <3>1. pfile[n].id \in purged \/ \E w \in Linked : body[w].id = pfile[n].id
      BY <1>7, <1>11, <2>2 DEF Behind
    <3>2. \A i : i = pfile[n].id => i \in purged' \/ \E w \in Linked' : body'[w].id = i
      BY <1>9, <2>2, <3>1
    <3> QED
      BY <2>2, <3>2
  <2>3. CASE pfile'[n] = pfile[n] /\ pfile[n].id = body[b].id
    <3>1. body[b].name = n
      BY <1>1, <1>7, <1>11, <2>3 DEF OneName
    <3> QED
      BY <1>8, <1>11, <2>3, <3>1
  <2> QED
    BY <1>11, <2>1, <2>2, <2>3
<1>12. Behind(body', pfile', Linked', purged')
  BY <1>10, <1>11 DEF Behind
<1> QED
  BY <1>4, <1>12, IInvIs

\* A player's own file, written.
LEMMA SavedIsSame ==
    ASSUME IInv, NEW b \in Built, ~body[b].new
    PROVE  /\ SameFiles(Saved(b)) /\ SameFiles(pfile)
           /\ \A n \in Name : \/ Saved(b)[n] = pfile[n] /\ n # body[b].name
                              \/ /\ n = body[b].name /\ Saved(b)[n] # None
                                 /\ Saved(b)[n].id = body[b].id /\ Saved(b)[n].old = body[b].old
           /\ body[b].name \in Name
<1>1. pfile \in [Name -> PlayerFile \cup {None}] /\ body[b] \in Character
  BY Facts DEF Types
<1> DEFINE file == [id |-> body[b].id, old |-> body[b].old]
<1>2. file \in PlayerFile /\ file # None
  BY <1>1, LoginAssumption DEF Character, PlayerFile
<1>3. /\ Saved(b) \in [Name -> PlayerFile \cup {None}]
      /\ \A n \in Name : Saved(b)[n] = IF n = body[b].name THEN file ELSE pfile[n]
  BY <1>1, <1>2 DEF Saved
<1>4. body[b].name \in Name
  BY <1>1 DEF Character
<1>5. \A n \in Name : n = body[b].name => Saved(b)[n].id = body[b].id /\ Saved(b)[n].old = body[b].old
  BY <1>3
<1> QED
  BY <1>1, <1>2, <1>3, <1>4, <1>5 DEF SameFiles

LEMMA ByCloseSocket == ASSUME IInv, NEW d \in Conn, CloseSocket(d) PROVE IInv'
<1>1. Types /\ Built = IsBuilt(body)
  BY Facts
<1>2. SameBodies(body) /\ SameFiles(pfile')
  BY <1>1, Facts DEF SameBodies, SameFiles, Types, CloseSocket
<1>3. \A b \in Built : body[b].old =>
         body[b].old \/ (b \notin Linked /\ \E c \in Linked : body[c].id = body[b].id)
  OBVIOUS
<1>4. \A n \in Name : pfile'[n] # None /\ pfile'[n].old =>
         pfile'[n].id \in purged \/ \E c \in Linked : body[c].id = pfile'[n].id
  BY DEF IInv, Behind, CloseSocket
<1> QED
  BY <1>2, <1>3, <1>4, OneCloses DEF CloseSocket

LEMMA ByLinkLost == ASSUME IInv, NEW d \in Conn, LinkLost(d) PROVE IInv'
<1> DEFINE b == character[d]
           bodies == IF b \in Linked THEN Outdate(body[b].id) ELSE body
<1>1. b \in Built /\ ~body[b].new /\ pfile' = Saved(b) /\ Leave({d}, LoginBodies({d}), bodies)
  BY Facts DEF LinkLost
<1>2. Built = IsBuilt(body)
  BY Facts
<1> HIDE DEF b
<1>3. /\ SameFiles(pfile')
      /\ \A n \in Name : \/ pfile'[n] = pfile[n]
                         \/ pfile'[n].id = body[b].id /\ pfile'[n].old = body[b].old
  BY <1>1, SavedIsSame
<1>4. \A n \in Name : pfile'[n] # None /\ pfile'[n].old =>
         pfile'[n].id \in purged \/ \E c \in Linked : body[c].id = pfile'[n].id
  BY <1>1, <1>2, <1>3 DEF IInv, Behind
<1>5. /\ SameBodies(bodies)
      /\ \A c \in Built : bodies[c].old =>
            body[c].old \/ (c \notin Linked /\ \E w \in Linked : body[w].id = body[c].id)
  <2>1. CASE b \in Linked
    <3>1. bodies = Outdate(body[b].id)
      BY <2>1
    <3> HIDE DEF bodies
    <3> QED
      BY <2>1, <3>1, OutdateIsSame
  <2>2. CASE b \notin Linked
    BY <1>2, <2>2, Facts DEF SameBodies, Types
  <2> QED
    BY <2>1, <2>2
<1> HIDE DEF bodies
<1> QED
  BY <1>1, <1>3, <1>4, <1>5, OneCloses DEF LinkLost

\* What Extract takes out of the world.
LEMMA ExtractFacts ==
    ASSUME IInv, NEW b \in Linked
    PROVE  LET freed == {b} \cup {character[d] : d \in ToastedBy(b)}
           IN  /\ ToastedBy(b) \in SUBSET Conn /\ freed \in SUBSET Built
               /\ \A d \in ToastedBy(b) : character[d] \in freed
               /\ \A d \in Holding : character[d] \in freed => d \in ToastedBy(b)
               /\ \A c \in freed : body[c].id = body[b].id
               /\ \A c \in Built : body[c].id = body[b].id => c \in freed
<1> DEFINE freed == {b} \cup {character[d] : d \in ToastedBy(b)}
<1>1. /\ Linked \subseteq Built /\ Built = IsBuilt(body)
      /\ \A d \in Holding : character[d] \in Built /\ d \in Conn
  BY Facts
<1>2. \A d : d \in ToastedBy(b) <=> d \in Holding /\ body[character[d]].id = body[b].id
  BY DEF ToastedBy, HoldersOf
<1>3. freed \in SUBSET Built /\ \A c \in freed : body[c].id = body[b].id
  BY <1>1, <1>2
<1>4. \A d \in Holding : character[d] \in freed => d \in ToastedBy(b)
  BY <1>2, <1>3
<1>5. ASSUME NEW c \in Built, body[c].id = body[b].id PROVE c \in freed
  <2>1. CASE c \in Linked
    BY <1>5, <2>1 DEF IInv, Entering
  <2>2. CASE c \notin Linked
    <3>1. PICK d \in Conn : character[d] = c
      BY <1>1, <2>2 DEF IInv, Held
    <3>2. d \in Holding
      BY <1>1, <3>1, LoginAssumption DEF Holding, Built
    <3> QED
      BY <1>2, <1>5, <3>1, <3>2
  <2> QED
    BY <2>1, <2>2
<1>6. ToastedBy(b) \in SUBSET Conn
  BY <1>1, <1>2
<1> QED
  BY <1>3, <1>4, <1>5, <1>6

LEMMA ByQuit == ASSUME IInv, NEW b \in Body, Quit(b) PROVE IInv'
<1> DEFINE freed == {b} \cup {character[d] : d \in ToastedBy(b)}
<1>1. /\ b \in Linked /\ Leave(ToastedBy(b), freed, Outdate(body[b].id)) /\ pfile' = Saved(b)
      /\ retired' = retired /\ rows' = rows /\ purged' = purged
  BY DEF Quit, Extract
<1>2. b \in Built /\ ~body[b].new /\ Types
  BY <1>1, Facts
<1>3. /\ ToastedBy(b) \in SUBSET Conn /\ freed \in SUBSET Built
      /\ \A d \in ToastedBy(b) : character[d] \in freed
      /\ \A d \in Holding : character[d] \in freed => d \in ToastedBy(b)
      /\ \A c \in freed : body[c].id = body[b].id
      /\ \A c \in Built : body[c].id = body[b].id => c \in freed
  BY <1>1, ExtractFacts
<1> HIDE DEF freed
<1>4. /\ SameFiles(pfile')
      /\ \A n \in Name : \/ pfile'[n] = pfile[n]
                         \/ pfile'[n].id = body[b].id /\ pfile'[n].old = body[b].old
      /\ pfile'[body[b].name].id = body[b].id /\ pfile'[body[b].name].old = body[b].old
  BY <1>1, <1>2, SavedIsSame
<1>5. retired' \subseteq Name /\ purged' \subseteq Id /\ rows' \in [Name -> 0..MaxRows]
  BY <1>1, <1>2 DEF Types
<1> QED
  BY <1>1, <1>3, <1>4, <1>5, PlayerLeaves

LEMMA ByDelete == ASSUME IInv, NEW b \in Body, Delete(b) PROVE IInv'
<1> DEFINE freed == {b} \cup {character[d] : d \in ToastedBy(b)}
<1>1. /\ b \in Linked /\ Leave(ToastedBy(b), freed, Outdate(body[b].id)) /\ purged' = purged
      /\ pfile' = [pfile EXCEPT ![body[b].name] = None]
      /\ rows' = [rows EXCEPT ![body[b].name] = 0]
      /\ retired' \in {retired, retired \cup {body[b].name}}
  BY DEF Delete, Extract
<1>2. Types /\ body[b].name \in Name
  BY <1>1, Facts DEF Character
<1>3. /\ ToastedBy(b) \in SUBSET Conn /\ freed \in SUBSET Built
      /\ \A d \in ToastedBy(b) : character[d] \in freed
      /\ \A d \in Holding : character[d] \in freed => d \in ToastedBy(b)
      /\ \A c \in freed : body[c].id = body[b].id
      /\ \A c \in Built : body[c].id = body[b].id => c \in freed
  BY <1>1, ExtractFacts
<1> HIDE DEF freed
<1>4. /\ pfile' \in [Name -> PlayerFile \cup {None}]
      /\ \A n \in Name : pfile'[n] \in {None, pfile[n]}
      /\ pfile'[body[b].name] = None
  BY <1>1, <1>2 DEF Types
<1>5. SameFiles(pfile')
  BY <1>4 DEF SameFiles
<1>6. retired' \subseteq Name /\ purged' \subseteq Id /\ rows' \in [Name -> 0..MaxRows]
  BY <1>1, <1>2, LoginAssumption DEF Types
<1>7. b \in Linked /\ Leave(ToastedBy(b), freed, Outdate(body[b].id)) /\ purged \subseteq purged'
  BY <1>1
<1>8. \A n \in Name :
         \/ pfile'[n] \in {None, pfile[n]}
         \/ pfile'[n].id = body[b].id /\ pfile'[n].old = body[b].old
  BY <1>4
<1> QED
  BY <1>3, <1>4, <1>5, <1>6, <1>7, <1>8, PlayerLeaves

LEMMA ByPurge == ASSUME IInv, NEW b \in Body, Purge(b) PROVE IInv'
<1>1. PICK bodies \in {body, Outdate(body[b].id)} :
         /\ b \in Linked /\ Leave(DriversOf(b), {b}, bodies)
         /\ pfile' = Saved(b) \/ pfile' = pfile
         /\ purged' = purged \cup {body[b].id} /\ retired' = retired /\ rows' = rows
  BY DEF Purge
<1>2. b \in Built /\ ~body[b].new /\ Types /\ body[b].id \in Id
  BY <1>1, Facts DEF Character
<1>3. /\ DriversOf(b) \in SUBSET Conn /\ {b} \in SUBSET Built
      /\ \A d \in DriversOf(b) : character[d] \in {b}
      /\ \A d \in Holding : character[d] \in {b} => d \in DriversOf(b)
      /\ \A c \in {b} : body[c].id = body[b].id
  BY <1>2 DEF DriversOf, Holding
<1>4. /\ SameFiles(pfile')
      /\ \A n \in Name : \/ pfile'[n] = pfile[n]
                         \/ pfile'[n].id = body[b].id /\ pfile'[n].old = body[b].old
  BY <1>1, <1>2, SavedIsSame
<1>5. retired' \subseteq Name /\ purged' \subseteq Id /\ rows' \in [Name -> 0..MaxRows]
  BY <1>1, <1>2 DEF Types
<1>6. purged \subseteq purged' /\ body[b].id \in purged'
  BY <1>1
<1> QED
  BY <1>1, <1>3, <1>4, <1>5, <1>6, PlayerLeaves, SMTT(40)

-----------------------------------------------------------------------------
\* The steps in which a connection goes on.

\* Nobody leaves or enters the world, and every copy and file is as it was.
SameWorld == /\ charList' = charList /\ pfile' = pfile
             /\ retired' = retired /\ purged' = purged /\ rows' = rows

LEMMA SameWorldKeeps ==
    ASSUME IInv, SameWorld, Kept(connected', character', body', pfile, Linked),
           \A b \in IsBuilt(body') : body'[b].old =>
              body'[b].id \in purged \/ (b \notin Linked /\ \E c \in Linked : body[c].id = body'[b].id),
           \A b \in Linked : b \in IsBuilt(body') /\ body'[b].id = body[b].id
    PROVE  IInv'
<1>1. Linked' = Linked
  BY DEF SameWorld, Linked
<1>2. pfile' = pfile /\ purged' = purged
  BY DEF SameWorld
<1>3. Types'
  BY <1>1, Facts DEF SameWorld, Types, Kept
<1>4. Behind(body', pfile, Linked, purged)
  <2>1. Behind(body, pfile, Linked, purged)
    BY DEF IInv
  <2>2. \A i : (\E c \in Linked : body[c].id = i) => \E c \in Linked : body'[c].id = i
    OBVIOUS
  <2> QED
    BY <2>1, <2>2 DEF Behind
<1> QED
  BY <1>1, <1>2, <1>3, <1>4, IInvIs

LEMMA KeptNow == IInv => Kept(connected, character, body, pfile, Linked)
  BY Facts DEF IInv, Types, Kept

\* A connection that holds nothing may as well be at the name prompt.
LEMMA ToTheName ==
    ASSUME NEW conn, NEW char, NEW bd, NEW pf, NEW world, Kept(conn, char, bd, pf, world),
           NEW d \in Conn, conn[d] = "Closed"
    PROVE  Kept([conn EXCEPT ![d] = "GetName"], char, bd, pf, world)
<1> DEFINE to == [conn EXCEPT ![d] = "GetName"]
<1>1. /\ to \in [Conn -> LoginStates \cup {"Closed", "Playing"}]
      /\ to[d] = "GetName" /\ \A e \in Conn \ {d} : to[e] = conn[e]
  BY DEF Kept, LoginStates
<1> HIDE DEF to
<1>2. /\ Held(to, char, bd, world) /\ Unplayed(to, char, bd, pf, world)
      /\ Entering(to, char, bd, world)
  BY <1>1 DEF Kept, Held, Unplayed, Entering
<1>3. Kept(to, char, bd, pf, world)
  BY <1>1, <1>2 DEF Kept
<1> QED
  BY <1>3 DEF to

\* A connection that holds nothing takes over a body in the world that nobody holds.
LEMMA TakesOver ==
    ASSUME NEW conn, NEW char, NEW bd, NEW pf, NEW world, Kept(conn, char, bd, pf, world),
           NEW d \in Conn, conn[d] = "Closed", NEW b \in world, world \subseteq IsBuilt(bd),
           \A e \in Conn : char[e] # b
    PROVE  Kept([conn EXCEPT ![d] = "Playing"], [char EXCEPT ![d] = b], bd, pf, world)
<1> DEFINE to == [conn EXCEPT ![d] = "Playing"]
           of == [char EXCEPT ![d] = b]
<1>1. b \in Body /\ b # None
  BY LoginAssumption DEF IsBuilt
<1>2. /\ to \in [Conn -> LoginStates \cup {"Closed", "Playing"}]
      /\ of \in [Conn -> Body \cup {None}]
      /\ to[d] = "Playing" /\ of[d] = b
      /\ \A e \in Conn \ {d} : to[e] = conn[e] /\ of[e] = char[e]
  BY <1>1 DEF Kept
<1> HIDE DEF to, of
<1>3. Held(to, of, bd, world)
  <2>1. Held(conn, char, bd, world)
    BY DEF Kept
  <2>2. char[d] = None
    BY <2>1 DEF Held
  <2>3. \A e \in Conn : /\ of[e] = None <=> to[e] \in {"Closed", "GetName"}
                        /\ of[e] # None => of[e] \in IsBuilt(bd)
                        /\ to[e] = "Playing" <=> of[e] \in world
    BY <1>1, <1>2, <2>1 DEF Held
  <2>4. \A e, g \in Conn : of[e] # None /\ of[e] = of[g] => e = g
    BY <1>2, <2>1 DEF Held
  <2>5. \A c \in IsBuilt(bd) : c \in world \/ \E e \in Conn : of[e] = c
    <3> SUFFICES ASSUME NEW c \in IsBuilt(bd), c \notin world PROVE \E e \in Conn : of[e] = c
      OBVIOUS
    <3>1. PICK e \in Conn : char[e] = c
      BY <2>1 DEF Held
    <3>2. e # d
      BY <2>2, <3>1, LoginAssumption DEF IsBuilt
    <3> QED
      BY <1>2, <3>1, <3>2
  <2> QED
    BY <2>3, <2>4, <2>5 DEF Held
<1>4. Unplayed(to, of, bd, pf, world) /\ Entering(to, of, bd, world)
  <2>1. Unplayed(conn, char, bd, pf, world) /\ Entering(conn, char, bd, world)
    BY DEF Kept
  <2>2. \A e \in Conn : to[e] \in {"Creating", "ReadMotd"} => e # d /\ to[e] = conn[e] /\ of[e] = char[e]
    BY <1>2
  <2> QED
    BY <2>1, <2>2 DEF Unplayed, Entering
<1>5. Kept(to, of, bd, pf, world)
  BY <1>2, <1>3, <1>4 DEF Kept
<1> QED
  BY <1>5 DEF to, of

\* Connections of players who are not in the world by them close, their bodies freed.
LEMMA LoginsClose ==
    ASSUME IInv, NEW closing, closing \in SUBSET Conn,
           NEW conn, conn = [d \in Conn |-> IF d \in closing THEN "Closed" ELSE connected[d]],
           NEW char, char = [d \in Conn |-> IF d \in closing THEN None ELSE character[d]],
           NEW bd, bd = [b \in Body |-> IF b \in LoginBodies(closing) THEN None ELSE body[b]]
    PROVE  /\ Kept(conn, char, bd, pfile, Linked)
           /\ \A b \in IsBuilt(bd) : b \in Built /\ bd[b] = body[b]
           /\ \A b \in Linked : b \in IsBuilt(bd) /\ bd[b] = body[b]
<1> DEFINE freed == LoginBodies(closing)
<1>1. /\ Types /\ Linked \subseteq Built /\ Built = IsBuilt(body) /\ Built \subseteq Body
      /\ \A e \in Holding : character[e] \in Built /\ e \in Conn
      /\ \A e \in Holding : connected[e] = "Playing" <=> character[e] \in Linked
  BY Facts DEF Built
<1>2. freed \in SUBSET Body /\ \A c \in freed : c \notin Linked
  BY <1>1 DEF LoginBodies
<1>3. \A d \in closing \cap Holding : connected[d] # "Playing" => character[d] \in freed
  BY DEF LoginBodies
<1>4. \A d \in Holding : character[d] \in freed => d \in closing
  BY DEF LoginBodies, Holding, IInv, Held
<1> HIDE DEF freed
<1>5. MayClose(closing, freed)
  BY <1>2, <1>3, <1>4 DEF MayClose
<1>6. bd = [b \in Body |-> IF b \in freed THEN None ELSE body[b]]
  BY DEF freed
<1>7. Closes(closing, freed, body, conn, char, bd, Linked)
  BY <1>2, <1>6 DEF Closes
<1>8. SameBodies(body) /\ SameFiles(pfile)
  BY <1>1, Facts DEF SameBodies, SameFiles, Types
<1>9. Kept(conn, char, bd, pfile, Linked)
  BY <1>5, <1>7, <1>8, ClosingKeeps
<1> QED
  BY <1>1, <1>2, <1>6, <1>9 DEF IsBuilt

\* No copy is newly behind.
LEMMA NoneBehind ==
    ASSUME IInv, NEW bd, \A b \in IsBuilt(bd) : b \in Built /\ bd[b] = body[b],
           NEW b \in IsBuilt(bd), bd[b].old
    PROVE  bd[b].id \in purged \/ (b \notin Linked /\ \E c \in Linked : body[c].id = bd[b].id)
  BY Facts DEF IInv, Behind

LEMMA ByConnect == ASSUME IInv, NEW d \in Conn, Connect(d) PROVE IInv'
<1>1. /\ SameWorld /\ connected[d] = "Closed" /\ connected' = [connected EXCEPT ![d] = "GetName"]
      /\ character' = character /\ body' = body
  BY DEF Connect, SameWorld
<1>2. Kept(connected', character', body', pfile, Linked)
  BY <1>1, KeptNow, ToTheName
<1>3. \A b \in IsBuilt(body') : b \in Built /\ body'[b] = body[b]
  BY <1>1, Facts
<1>4. \A b \in Linked : b \in IsBuilt(body') /\ body'[b].id = body[b].id
  BY <1>1, Facts
<1> QED
  BY <1>1, <1>2, <1>3, <1>4, NoneBehind, SameWorldKeeps

\* Back at the name prompt, with the connections in others closed.
BackAtName(d, others) ==
    /\ connected' = [e \in Conn |-> IF e = d THEN "GetName"
                              ELSE IF e \in others THEN "Closed" ELSE connected[e]]
    /\ character' = [e \in Conn |-> IF e \in others \cup {d} THEN None ELSE character[e]]
    /\ body' = [c \in Body |-> IF c \in LoginBodies(others \cup {d}) THEN None ELSE body[c]]

LEMMA ByBackAtName ==
    ASSUME IInv, SameWorld, NEW d \in Conn, NEW others \in SUBSET Conn, BackAtName(d, others)
    PROVE  IInv'
<1> DEFINE closing == others \cup {d}
           conn == [e \in Conn |-> IF e \in closing THEN "Closed" ELSE connected[e]]
<1>1. conn[d] = "Closed" /\ connected' = [conn EXCEPT ![d] = "GetName"]
  BY DEF BackAtName
<1>2. closing \in SUBSET Conn
  OBVIOUS
<1>3. /\ character' = [e \in Conn |-> IF e \in closing THEN None ELSE character[e]]
      /\ body' = [c \in Body |-> IF c \in LoginBodies(closing) THEN None ELSE body[c]]
  BY DEF BackAtName
<1>4. /\ Kept(conn, character', body', pfile, Linked)
      /\ \A b \in IsBuilt(body') : b \in Built /\ body'[b] = body[b]
      /\ \A b \in Linked : b \in IsBuilt(body') /\ body'[b] = body[b]
  BY <1>2, <1>3, LoginsClose
<1> HIDE DEF conn
<1>5. Kept(connected', character', body', pfile, Linked)
  BY <1>1, <1>4, ToTheName
<1> QED
  BY <1>4, <1>5, NoneBehind, SameWorldKeeps

LEMMA ByDecline == ASSUME IInv, NEW d \in Conn, Decline(d) PROVE IInv'
<1>1. SameWorld /\ BackToName(d) /\ connected[d] \in {"BreakConnect", "Creating"}
  BY DEF Decline, BackToName, SameWorld
<1>2. Types
  BY Facts
<1>3. d \in Holding
  BY <1>1 DEF Holding, IInv, Held
<1>4. LoginBodies({} \cup {d}) = {character[d]}
  BY <1>1, <1>3 DEF LoginBodies
<1>5. BackAtName(d, {})
  BY <1>1, <1>2, <1>4 DEF BackToName, BackAtName, Types
<1> QED
  BY <1>1, <1>5, ByBackAtName

\* The body that check_reconnect comes to.
LEMMA LinkDeadFacts ==
    ASSUME IInv, NEW d \in Conn, NEW closing
    PROVE  /\ LinkDead(d, closing) # <<>> =>
                /\ Head(LinkDead(d, closing)) \in Linked
                /\ DriversOf(Head(LinkDead(d, closing))) \subseteq closing
           /\ LinkDead(d, closing) = <<>> =>
                \A b \in Linked : body[b].name = NameOn(d) => ~(DriversOf(b) \subseteq closing)
<1> DEFINE gone == {b \in Linked : body[b].name # NameOn(d) \/ ~(DriversOf(b) \subseteq closing)}
           s == Without(charList, gone)
<1>1. charList \in Seq(Body) /\ IsInjective(charList)
  BY Facts DEF Types
<1>2. s \in Seq(Body) /\ ToSet(s) = Linked \ gone
  BY <1>1, WithoutKeeps DEF Linked
<1>3. s = LinkDead(d, closing)
  BY DEF LinkDead
<1> HIDE DEF s
<1>4. s # <<>> => Head(s) \in ToSet(s)
  <2>1. s # <<>> => 1 \in 1..Len(s) /\ Head(s) = s[1]
    BY <1>2
  <2> QED
    BY <2>1 DEF ToSet
<1>5. s = <<>> => ToSet(s) = {}
  BY DEF ToSet
<1> QED
  BY <1>2, <1>3, <1>4, <1>5

LEMMA ByReconnect ==
    ASSUME IInv, SameWorld, NEW d \in Conn, NEW closing \in SUBSET Conn,
           LinkDead(d, closing) # <<>>, Reconnect(d, closing)
    PROVE  IInv'
<1> DEFINE b == Head(LinkDead(d, closing))
           all == closing \cup {d}
           conn == [e \in Conn |-> IF e \in all THEN "Closed" ELSE connected[e]]
           char == [e \in Conn |-> IF e \in all THEN None ELSE character[e]]
<1>1. b \in Linked /\ DriversOf(b) \subseteq closing
  BY LinkDeadFacts
<1>2. /\ connected' = [e \in Conn |-> IF e = d THEN "Playing"
                              ELSE IF e \in closing THEN "Closed" ELSE connected[e]]
      /\ character' = [e \in Conn |-> IF e = d THEN b
                              ELSE IF e \in closing THEN None ELSE character[e]]
      /\ body' = [c \in Body |-> IF c \in LoginBodies(all) THEN None ELSE body[c]]
  BY DEF Reconnect
<1> HIDE DEF b
<1>3. /\ conn[d] = "Closed" /\ connected' = [conn EXCEPT ![d] = "Playing"]
      /\ character' = [char EXCEPT ![d] = b]
  BY <1>2
<1>4. all \in SUBSET Conn
  OBVIOUS
<1>5. /\ Kept(conn, char, body', pfile, Linked)
      /\ \A c \in IsBuilt(body') : c \in Built /\ body'[c] = body[c]
      /\ \A c \in Linked : c \in IsBuilt(body') /\ body'[c] = body[c]
  BY <1>2, <1>4, LoginsClose
<1>6. \A e \in Conn : char[e] # b
  BY <1>1, Facts, LoginAssumption DEF DriversOf, Holding, Built
<1> HIDE DEF conn, char
<1>7. Kept(connected', character', body', pfile, Linked)
  BY <1>1, <1>3, <1>5, <1>6, TakesOver
<1> QED
  BY <1>5, <1>7, NoneBehind, SameWorldKeeps

LEMMA ByBreakYes == ASSUME IInv, NEW d \in Conn, BreakYes(d) PROVE IInv'
<1> DEFINE others == {e \in Holding \ {d} : NameOn(e) = NameOn(d)}
<1>1. others \in SUBSET Conn
  BY DEF Holding
<1>2. SameWorld
  BY DEF BreakYes, SameWorld, Reconnect
<1>3. CASE LinkDead(d, others) # <<>>
  BY <1>1, <1>2, <1>3, ByReconnect DEF BreakYes
<1>4. CASE LinkDead(d, others) = <<>>
  <2>1. BackAtName(d, others)
    BY <1>4 DEF BreakYes, BackAtName
  <2> QED
    BY <1>1, <1>2, <2>1, ByBackAtName
<1> QED
  BY <1>3, <1>4

\* A connection that holds a body answers; it may read the news if its player is not
\* in the world and nobody else of that name reads it.
LEMMA ByAnswer ==
    ASSUME IInv, SameWorld, NEW d \in Conn, connected[d] \in {"OldPassword", "Creating"},
           NEW to \in {"BreakConnect", "ReadMotd"},
           connected' = [connected EXCEPT ![d] = to], character' = character, body' = body,
           to = "ReadMotd" =>
              /\ \A b \in Linked : body[b].id # body[character[d]].id
              /\ \A e \in Conn : /\ connected[e] = "ReadMotd"
                                 /\ body[character[e]].id = body[character[d]].id
                                 => e = d
    PROVE  IInv'
<1>1. Types /\ Held(connected, character, body, Linked) /\ Built = IsBuilt(body)
      /\ Linked \subseteq Built
  BY Facts DEF IInv
<1>2. /\ connected' \in [Conn -> LoginStates \cup {"Closed", "Playing"}]
      /\ connected'[d] = to /\ \A e \in Conn \ {d} : connected'[e] = connected[e]
  BY <1>1 DEF Types, LoginStates
<1>3. Held(connected', character, body, Linked)
  BY <1>1, <1>2 DEF Held
<1>4. Unplayed(connected', character, body, pfile, Linked)
  BY <1>2 DEF IInv, Unplayed
<1>5. Entering(connected', character, body, Linked)
  <2>1. Entering(connected, character, body, Linked)
    BY DEF IInv
  <2>2. ASSUME NEW e \in Conn, connected'[e] = "ReadMotd"
        PROVE  /\ \A b \in Linked : body[b].id # body[character[e]].id
               /\ \A g \in Conn : /\ connected'[g] = "ReadMotd"
                                  /\ body[character[g]].id = body[character[e]].id
                                  => g = e
    <3>1. CASE e = d
      BY <1>2, <2>1, <2>2, <3>1 DEF Entering
    <3>2. CASE e # d
      BY <1>2, <2>1, <2>2, <3>2 DEF Entering
    <3> QED
      BY <3>1, <3>2
  <2> QED
    BY <2>1, <2>2 DEF Entering
<1>6. Kept(connected', character', body', pfile, Linked)
  BY <1>1, <1>2, <1>3, <1>4, <1>5 DEF Kept, Types, IInv
<1>7. \A b \in IsBuilt(body') : b \in Built /\ body'[b] = body[b]
  BY <1>1
<1>8. \A b \in Linked : b \in IsBuilt(body') /\ body'[b].id = body[b].id
  BY <1>1
<1> QED
  BY <1>6, <1>7, <1>8, NoneBehind, SameWorldKeeps

LEMMA ByRightPassword == ASSUME IInv, NEW d \in Conn, RightPassword(d) PROVE IInv'
<1>1. /\ Held(connected, character, body, Linked) /\ OneName(body, pfile)
      /\ Built = IsBuilt(body) /\ Linked \subseteq Built
  BY Facts DEF IInv
<1>2. SameWorld /\ connected[d] = "OldPassword"
  BY DEF RightPassword, SameWorld, Reconnect
<1>3. d \in Holding /\ character[d] \in Built
  BY <1>1, <1>2 DEF Held, Holding
<1>4. CASE OthersPlaying(d) = {} /\ LinkDead(d, {}) # <<>>
  BY <1>2, <1>4, ByReconnect DEF RightPassword
<1>5. CASE OthersPlaying(d) # {}
  <2>1. connected' = [connected EXCEPT ![d] = "BreakConnect"] /\ character' = character /\ body' = body
    BY <1>5 DEF RightPassword
  <2> QED
    BY <1>2, <2>1, ByAnswer
<1>6. CASE OthersPlaying(d) = {} /\ LinkDead(d, {}) = <<>>
  <2>1. connected' = [connected EXCEPT ![d] = "ReadMotd"] /\ character' = character /\ body' = body
    BY <1>6 DEF RightPassword
  <2>2. ASSUME NEW b \in Linked, body[b].id = body[character[d]].id PROVE FALSE
    <3>1. body[b].name = NameOn(d)
      BY <1>1, <1>3, <2>2 DEF OneName, NameOn
    <3>2. PICK e \in DriversOf(b) : TRUE
      BY <1>6, <3>1, LinkDeadFacts
    <3>3. e \in Holding /\ e \in Conn /\ character[e] = b
      BY <3>2 DEF DriversOf, Holding
    <3>4. connected[e] = "Playing"
      BY <1>1, <3>3 DEF Held
    <3>5. e \in OthersPlaying(d)
      BY <1>2, <3>1, <3>3, <3>4 DEF OthersPlaying, NameOn
    <3> QED
      BY <1>6, <3>5
  <2>3. ASSUME NEW e \in Conn, connected[e] = "ReadMotd",
               body[character[e]].id = body[character[d]].id
        PROVE  e = d
    <3>1. e \in Holding /\ character[e] \in Built
      BY <1>1, <2>3 DEF Held, Holding
    <3>2. NameOn(e) = NameOn(d)
      BY <1>1, <1>3, <2>3, <3>1 DEF OneName, NameOn
    <3> QED
      BY <1>6, <2>3, <3>1, <3>2 DEF OthersPlaying
  <2> QED
    BY <1>2, <2>1, <2>2, <2>3, ByAnswer
<1> QED
  BY <1>4, <1>5, <1>6

LEMMA ByFinishCreating == ASSUME IInv, NEW d \in Conn, FinishCreating(d) PROVE IInv'
<1>1. /\ Held(connected, character, body, Linked) /\ Unplayed(connected, character, body, pfile, Linked)
      /\ Built = IsBuilt(body) /\ Linked \subseteq Built
  BY Facts DEF IInv
<1>2. /\ SameWorld /\ connected[d] = "Creating"
      /\ connected' = [connected EXCEPT ![d] = "ReadMotd"] /\ character' = character /\ body' = body
  BY DEF FinishCreating, SameWorld
<1>3. character[d] \in Built /\ body[character[d]].new /\ character[d] # None
  BY <1>1, <1>2 DEF Held, Unplayed
<1>4. \A b \in Built : body[b].id = body[character[d]].id => b = character[d]
  BY <1>1, <1>3 DEF Unplayed
<1>5. \A b \in Linked : body[b].id # body[character[d]].id
  BY <1>1, <1>3, <1>4 DEF Unplayed
<1>6. \A e \in Conn : /\ connected[e] = "ReadMotd"
                      /\ body[character[e]].id = body[character[d]].id
                      => e = d
  BY <1>1, <1>3, <1>4 DEF Held
<1> QED
  BY <1>2, <1>5, <1>6, ByAnswer

LEMMA BySave == ASSUME IInv, NEW b \in Body, Save(b) PROVE IInv'
<1>1. /\ b \in Linked /\ pfile' = Saved(b) /\ body' = Outdate(body[b].id)
      /\ connected' = connected /\ character' = character /\ charList' = charList
      /\ retired' = retired /\ rows' = rows /\ purged' = purged
  BY DEF Save
<1>2. /\ Types /\ b \in Built /\ ~body[b].new /\ Built = IsBuilt(body) /\ Linked \subseteq Built
      /\ Held(connected, character, body, Linked)
  BY <1>1, Facts DEF IInv
<1>3. /\ SameBodies(body')
      /\ \A c \in Built : body'[c].old =>
            body[c].old \/ (c \notin Linked /\ body[c].id = body[b].id)
  BY <1>1, OutdateIsSame
<1>4. /\ SameFiles(pfile')
      /\ \A n \in Name : \/ pfile'[n] = pfile[n]
                         \/ pfile'[n].id = body[b].id /\ pfile'[n].old = body[b].old
  BY <1>1, <1>2, SavedIsSame
<1>5. Linked' = Linked
  BY <1>1 DEF Linked
<1>6. Kept(connected', character', body', pfile', Linked)
  <2>1. MayClose({}, {})
    BY DEF MayClose
  <2>2. body' = [c \in Body |-> IF c \in {} THEN None ELSE body'[c]]
    BY <1>1 DEF Outdate
  <2>3. Closes({}, {}, body', connected', character', body', Linked)
    BY <1>1, <1>2, <2>2 DEF Closes, Types
  <2> QED
    BY <1>3, <1>4, <2>1, <2>3, ClosingKeeps
<1>7. IsBuilt(body') = Built /\ \A c \in Built : body'[c].id = body[c].id
  BY <1>2, <1>3 DEF SameBodies
<1>8. Types'
  BY <1>1, <1>2, <1>4, <1>5, <1>6, <1>7 DEF Types, Kept, SameFiles
<1>9. Behind(body', pfile', Linked, purged)
  <2>1. Behind(body, pfile, Linked, purged)
    BY DEF IInv
  <2>2. \A c \in Built : body'[c].old =>
           body'[c].id \in purged \/ (c \notin Linked /\ \E w \in Linked : body'[w].id = body'[c].id)
    BY <1>1, <1>2, <1>3, <1>7, <2>1 DEF Behind
  <2>3. \A n \in Name : pfile'[n] # None /\ pfile'[n].old =>
           pfile'[n].id \in purged \/ \E w \in Linked : body'[w].id = pfile'[n].id
    BY <1>1, <1>2, <1>4, <1>7, <2>1 DEF Behind
  <2> QED
    BY <1>7, <2>2, <2>3 DEF Behind
<1> QED
  BY <1>1, <1>5, <1>6, <1>8, <1>9, IInvIs

LEMMA ByGiveName == ASSUME IInv, NEW d \in Conn, NEW n \in Name, GiveName(d, n) PROVE IInv'
<1>1. PICK b \in Body \ Built, id \in FreshIds :
         /\ body' = [body EXCEPT ![b] = Loaded(n, id)]
         /\ character' = [character EXCEPT ![d] = b]
  BY DEF GiveName
<1> DEFINE x == Loaded(n, id)
           to == connected'[d]
<1>2. /\ Types /\ Held(connected, character, body, Linked) /\ OneName(body, pfile)
      /\ Unplayed(connected, character, body, pfile, Linked)
      /\ Entering(connected, character, body, Linked) /\ Behind(body, pfile, Linked, purged)
      /\ Built = IsBuilt(body) /\ Linked \subseteq Built
      /\ \A c \in Built : body[c] \in Character
  BY Facts DEF IInv
<1>3. /\ SameWorld /\ connected[d] = "GetName" /\ to \in {"OldPassword", "Creating"}
      /\ \A e \in Conn \ {d} : connected'[e] = connected[e] /\ character'[e] = character[e]
      /\ character'[d] = b
      /\ to = "Creating" => pfile[n] = None
      /\ connected' \in [Conn -> LoginStates \cup {"Closed", "Playing"}]
      /\ character' \in [Conn -> Body \cup {None}]
  BY <1>1, <1>2 DEF GiveName, SameWorld, Types, LoginStates
<1>4. /\ x \in Character /\ x # None /\ x.name = n
      /\ pfile[n] # None => x.id = pfile[n].id /\ ~x.new /\ x.old = pfile[n].old
      /\ pfile[n] = None => x.id = id /\ x.new /\ ~x.old
  <2>1. pfile[n] \in PlayerFile \cup {None} /\ id \in Id
    BY <1>2 DEF Types, FreshIds
  <2>2. CASE pfile[n] # None
    <3>1. pfile[n].id \in Id /\ pfile[n].old \in BOOLEAN
      BY <2>1, <2>2 DEF PlayerFile
    <3>2. x = [name |-> n, id |-> pfile[n].id, new |-> FALSE, old |-> pfile[n].old]
      BY <2>2 DEF Loaded
    <3>3. x \in Character /\ x.name = n /\ x.id = pfile[n].id /\ x.new = FALSE /\ x.old = pfile[n].old
      BY <3>1, <3>2 DEF Character
    <3> QED
      BY <2>2, <3>3, LoginAssumption
  <2>3. CASE pfile[n] = None
    <3>1. x = [name |-> n, id |-> id, new |-> TRUE, old |-> FALSE]
      BY <2>3 DEF Loaded
    <3>2. x \in Character /\ x.name = n /\ x.id = id /\ x.new = TRUE /\ x.old = FALSE
      BY <2>1, <3>1 DEF Character
    <3> QED
      BY <2>3, <3>2, LoginAssumption
  <2> QED
    BY <2>2, <2>3
<1>5. /\ \A c \in Built : body[c].id # id
      /\ \A m \in Name : pfile[m] # None => pfile[m].id # id
  BY DEF FreshIds
<1> HIDE DEF x, to
<1>6. /\ body'[b] = x /\ \A c \in Body \ {b} : body'[c] = body[c]
      /\ body' \in [Body -> Character \cup {None}]
  BY <1>1, <1>2, <1>4 DEF Types, x
<1>7. b \in Body /\ b \notin Built /\ b \notin Linked /\ b # None
  BY <1>1, <1>2, LoginAssumption
<1>8. IsBuilt(body') = Built \cup {b} /\ \A c \in Built : c # b /\ body'[c] = body[c]
  BY <1>4, <1>6, <1>7 DEF IsBuilt, Built
<1>9. Held(connected', character', body', Linked)
  <2>1. character[d] = None
    BY <1>2, <1>3 DEF Held
  <2>2. \A e \in Conn : character[e] # b
    BY <1>2, <1>7 DEF Held
  <2>3. \A e \in Conn : /\ character'[e] = None <=> connected'[e] \in {"Closed", "GetName"}
                        /\ character'[e] # None => character'[e] \in IsBuilt(body')
                        /\ connected'[e] = "Playing" <=> character'[e] \in Linked
    <3> SUFFICES ASSUME NEW e \in Conn
                 PROVE  /\ character'[e] = None <=> connected'[e] \in {"Closed", "GetName"}
                        /\ character'[e] # None => character'[e] \in IsBuilt(body')
                        /\ connected'[e] = "Playing" <=> character'[e] \in Linked
      OBVIOUS
    <3>1. CASE e = d
      BY <1>3, <1>7, <1>8, <3>1 DEF to
    <3>2. CASE e # d
      BY <1>2, <1>3, <1>8, <3>2 DEF Held
    <3> QED
      BY <3>1, <3>2
  <2>4. \A e, g \in Conn : character'[e] # None /\ character'[e] = character'[g] => e = g
    BY <1>2, <1>3, <2>2 DEF Held
  <2>5. \A c \in IsBuilt(body') : c \in Linked \/ \E e \in Conn : character'[e] = c
    <3> SUFFICES ASSUME NEW c \in IsBuilt(body'), c \notin Linked
                 PROVE  \E e \in Conn : character'[e] = c
      OBVIOUS
    <3>1. CASE c = b
      BY <1>3, <3>1
    <3>2. CASE c # b
      <4>1. c \in Built
        BY <1>8, <3>2
      <4>2. PICK e \in Conn : character[e] = c
        BY <1>2, <4>1 DEF Held
      <4>3. e # d
        BY <1>7, <2>1, <4>1, <4>2, LoginAssumption DEF Built
      <4> QED
        BY <1>3, <4>2, <4>3
    <3> QED
      BY <3>1, <3>2
  <2> QED
    BY <2>3, <2>4, <2>5 DEF Held
<1>10. OneName(body', pfile)
  <2>1. \A c \in Built : body[c].id = x.id => body[c].name = n
    BY <1>2, <1>4, <1>5 DEF OneName
  <2>2. \A m \in Name : pfile[m] # None /\ pfile[m].id = x.id => m = n
    BY <1>2, <1>4, <1>5 DEF OneName
  <2> QED
    BY <1>2, <1>4, <1>6, <1>8, <2>1, <2>2 DEF OneName
<1>11. Unplayed(connected', character', body', pfile, Linked)
  <2>1. ASSUME NEW c \in IsBuilt(body'), body'[c].new
        PROVE  /\ c \notin Linked /\ ~body'[c].old
               /\ \A a \in IsBuilt(body') : body'[a].id = body'[c].id => a = c
               /\ \A m \in Name : pfile[m] # None => pfile[m].id # body'[c].id
    <3>1. CASE c = b
      BY <1>4, <1>5, <1>6, <1>7, <1>8, <2>1, <3>1
    <3>2. CASE c # b
      <4>1. c \in Built /\ body'[c] = body[c] /\ body[c].new
        BY <1>8, <2>1, <3>2
      <4>2. x.id # body[c].id
        BY <1>2, <1>4, <1>5, <4>1 DEF Unplayed
      <4> QED
        BY <1>2, <1>6, <1>8, <4>1, <4>2 DEF Unplayed
    <3> QED
      BY <3>1, <3>2
  <2>2. ASSUME NEW e \in Conn, connected'[e] = "Creating" PROVE body'[character'[e]].new
    <3>1. CASE e = d
      BY <1>3, <1>4, <1>6, <2>2, <3>1 DEF to
    <3>2. CASE e # d
      <4>1. connected[e] = "Creating" /\ character'[e] = character[e]
        BY <1>3, <2>2, <3>2
      <4>2. character[e] \in Built /\ body[character[e]].new
        BY <1>2, <4>1 DEF Held, Unplayed
      <4> QED
        BY <1>8, <4>1, <4>2
    <3> QED
      BY <3>1, <3>2
  <2> QED
    BY <2>1, <2>2 DEF Unplayed
<1>12. Entering(connected', character', body', Linked)
  <2>1. \A e \in Conn : connected'[e] = "ReadMotd" =>
           /\ connected[e] = "ReadMotd" /\ character'[e] = character[e] /\ character[e] \in Built
    BY <1>2, <1>3 DEF Held, to
  <2> QED
    BY <1>2, <1>8, <2>1 DEF Entering
<1>13. Kept(connected', character', body', pfile, Linked)
  BY <1>3, <1>6, <1>9, <1>10, <1>11, <1>12 DEF Kept
<1>14. ASSUME NEW c \in IsBuilt(body'), body'[c].old
       PROVE  body'[c].id \in purged \/ (c \notin Linked /\ \E w \in Linked : body[w].id = body'[c].id)
  <2>1. CASE c = b
    BY <1>2, <1>4, <1>6, <1>7, <1>14, <2>1 DEF Behind
  <2>2. CASE c # b
    BY <1>2, <1>8, <1>14, <2>2 DEF Behind
  <2> QED
    BY <2>1, <2>2
<1>15. \A c \in Linked : c \in IsBuilt(body') /\ body'[c].id = body[c].id
  BY <1>2, <1>8
<1> QED
  BY <1>3, <1>13, <1>14, <1>15, SameWorldKeeps

LEMMA ByEnterGame == ASSUME IInv, NEW d \in Conn, EnterGame(d) PROVE IInv'
<1> DEFINE b == character[d]
<1>1. /\ Types /\ Held(connected, character, body, Linked) /\ OneName(body, pfile)
      /\ Unplayed(connected, character, body, pfile, Linked)
      /\ Entering(connected, character, body, Linked) /\ Behind(body, pfile, Linked, purged)
      /\ Built = IsBuilt(body) /\ Linked \subseteq Built
      /\ \A c \in Built : body[c] \in Character
  BY Facts DEF IInv
<1>2. /\ connected[d] = "ReadMotd" /\ connected' = [connected EXCEPT ![d] = "Playing"]
      /\ character' = character /\ charList' = <<b>> \o charList
      /\ retired' = retired /\ purged' = purged
  BY DEF EnterGame
<1>3. /\ b \in Built /\ b \in Body /\ b # None /\ b \notin Linked
      /\ \A c \in Linked : body[c].id # body[b].id
      /\ \A e \in Conn : connected[e] = "ReadMotd" /\ body[character[e]].id = body[b].id => e = d
      /\ \A e \in Conn : character[e] = b => e = d
      /\ body[b] \in Character
  BY <1>1, <1>2 DEF Held, Entering, IsBuilt
<1>4. body[b].new => /\ pfile' = Saved(b) /\ body' = [body EXCEPT ![b].new = FALSE]
                     /\ rows[NameOn(d)] < MaxRows /\ rows' = [rows EXCEPT ![NameOn(d)] = @ + 1]
  BY DEF EnterGame
<1>5. ~body[b].new => pfile' = pfile /\ body' = body /\ rows' = rows
  BY DEF EnterGame
<1>6. NameOn(d) = body[b].name /\ NameOn(d) \in Name
  BY <1>3 DEF NameOn, Character
<1> HIDE DEF b
<1>7. Linked' = Linked \cup {b} /\ charList' \in Seq(Body) /\ IsInjective(charList')
  BY <1>1, <1>2, <1>3, InFront DEF Types, Linked
<1>8. /\ body' \in [Body -> Character \cup {None}]
      /\ \A c \in Body \ {b} : body'[c] = body[c]
      /\ body'[b].name = body[b].name /\ body'[b].id = body[b].id /\ body'[b].old = body[b].old
      /\ body'[b].new = FALSE /\ body'[b] # None
  <2>1. CASE body[b].new
    <3>1. body' = [body EXCEPT ![b] = [body[b] EXCEPT !.new = FALSE]]
      BY <1>4, <2>1
    <3>2. [body[b] EXCEPT !.new = FALSE] \in Character
      BY <1>3 DEF Character
    <3> QED
      BY <1>1, <1>3, <3>1, <3>2, LoginAssumption DEF Types, Character
  <2>2. CASE ~body[b].new
    <3>1. body[b].new \in BOOLEAN
      BY <1>3 DEF Character
    <3> QED
      BY <1>1, <1>3, <1>5, <2>2, <3>1, LoginAssumption DEF Types
  <2> QED
    BY <2>1, <2>2
<1>9. IsBuilt(body') = Built
  BY <1>1, <1>3, <1>8 DEF IsBuilt
<1>10. \A c \in Built : /\ body'[c].name = body[c].name /\ body'[c].id = body[c].id
                        /\ body'[c].old = body[c].old
                        /\ body'[c].new => c # b /\ body[c].new
  BY <1>8 DEF Built
<1>11. /\ pfile' \in [Name -> PlayerFile \cup {None}]
       /\ \A n \in Name :
             \/ pfile'[n] = pfile[n]
             \/ /\ body[b].new /\ n = body[b].name
                /\ pfile'[n].id = body[b].id /\ pfile'[n].old = body[b].old
  <2>1. CASE body[b].new
    <3> DEFINE file == [id |-> body[b].id, old |-> body[b].old]
    <3>1. file \in PlayerFile
      BY <1>3 DEF Character, PlayerFile
    <3>2. pfile' = [pfile EXCEPT ![body[b].name] = file]
      BY <1>4, <2>1 DEF Saved
    <3> QED
      BY <1>1, <2>1, <3>1, <3>2 DEF Types
  <2>2. CASE ~body[b].new
    BY <1>1, <1>5, <2>2 DEF Types
  <2> QED
    BY <2>1, <2>2
<1>12. rows' \in [Name -> 0..MaxRows]
  <2>1. CASE body[b].new
    <3>1. rows \in [Name -> 0..MaxRows] /\ rows[NameOn(d)] \in 0..MaxRows
      BY <1>1, <1>6 DEF Types
    <3>2. rows[NameOn(d)] + 1 \in 0..MaxRows
      BY <1>4, <2>1, <3>1, LoginAssumption
    <3> QED
      BY <1>4, <2>1, <3>1, <3>2
  <2>2. CASE ~body[b].new
    BY <1>1, <1>5, <2>2 DEF Types
  <2> QED
    BY <2>1, <2>2
<1>13. /\ connected' \in [Conn -> LoginStates \cup {"Closed", "Playing"}]
       /\ connected'[d] = "Playing" /\ \A e \in Conn \ {d} : connected'[e] = connected[e]
  BY <1>1, <1>2 DEF Types
<1>14. Held(connected', character', body', Linked')
  <2>1. \A e \in Conn : /\ character[e] = None <=> connected'[e] \in {"Closed", "GetName"}
                        /\ character[e] # None => character[e] \in Built
                        /\ connected'[e] = "Playing" <=> character[e] \in Linked'
    <3> SUFFICES ASSUME NEW e \in Conn
                 PROVE  /\ character[e] = None <=> connected'[e] \in {"Closed", "GetName"}
                        /\ character[e] # None => character[e] \in Built
                        /\ connected'[e] = "Playing" <=> character[e] \in Linked'
      OBVIOUS
    <3>1. CASE e = d
      BY <1>3, <1>7, <1>13, <3>1 DEF b
    <3>2. CASE e # d
      BY <1>1, <1>3, <1>7, <1>13, <3>2 DEF Held
    <3> QED
      BY <3>1, <3>2
  <2> QED
    BY <1>1, <1>2, <1>7, <1>9, <2>1 DEF Held
<1>15. OneName(body', pfile')
  <2>1. \A c \in Built, n \in Name : pfile'[n] # None /\ pfile'[n].id = body[c].id => body[c].name = n
    BY <1>1, <1>3, <1>11 DEF OneName
  <2>2. \A n, m \in Name : pfile'[n] # None /\ pfile'[m] # None /\ pfile'[n].id = pfile'[m].id => n = m
    BY <1>1, <1>3, <1>11, <2>1 DEF OneName
  <2> QED
    BY <1>1, <1>9, <1>10, <2>1, <2>2 DEF OneName
<1>16. Unplayed(connected', character', body', pfile', Linked')
  <2>1. ASSUME NEW c \in Built, body'[c].new
        PROVE  /\ c \notin Linked' /\ ~body'[c].old
               /\ \A a \in Built : body'[a].id = body'[c].id => a = c
               /\ \A n \in Name : pfile'[n] # None => pfile'[n].id # body'[c].id
    <3>1. c # b /\ body[c].new /\ c \notin Linked /\ ~body[c].old
      BY <1>1, <1>10, <2>1 DEF Unplayed
    <3>2. \A a \in Built : body[a].id = body[c].id => a = c
      BY <1>1, <3>1 DEF Unplayed
    <3>3. \A n \in Name : pfile'[n] # None => pfile'[n].id # body[c].id
      BY <1>1, <1>3, <1>11, <3>1, <3>2 DEF Unplayed
    <3> QED
      BY <1>7, <1>10, <2>1, <3>1, <3>2, <3>3
  <2>2. ASSUME NEW e \in Conn, connected'[e] = "Creating" PROVE body'[character[e]].new
    <3>1. e # d /\ connected[e] = "Creating"
      BY <1>13, <2>2
    <3>2. character[e] # b /\ character[e] \in Built /\ body[character[e]].new
      BY <1>1, <1>3, <3>1 DEF Held, Unplayed
    <3> QED
      BY <1>8, <3>2 DEF Built
  <2> QED
    BY <1>2, <1>9, <2>1, <2>2 DEF Unplayed
<1>17. Entering(connected', character', body', Linked')
  <2>1. \A a, c \in Linked' : body'[a].id = body'[c].id => a = c
    BY <1>1, <1>3, <1>7, <1>10 DEF Entering
  <2>2. ASSUME NEW e \in Conn, connected'[e] = "ReadMotd"
        PROVE  /\ \A a \in Linked' : body'[a].id # body'[character[e]].id
               /\ \A g \in Conn : connected'[g] = "ReadMotd" /\ body'[character[g]].id = body'[character[e]].id
                                  => g = e
    <3>1. \A g \in Conn : connected'[g] = "ReadMotd" =>
             /\ g # d /\ connected[g] = "ReadMotd" /\ character[g] \in Built
             /\ body'[character[g]].id = body[character[g]].id
      BY <1>1, <1>10, <1>13 DEF Held
    <3>2. body[character[e]].id # body[b].id
      BY <1>3, <2>2, <3>1
    <3>3. \A a \in Linked' : body'[a].id # body'[character[e]].id
      BY <1>1, <1>3, <1>7, <1>10, <2>2, <3>1, <3>2 DEF Entering
    <3>4. \A g \in Conn : connected'[g] = "ReadMotd" /\ body'[character[g]].id = body'[character[e]].id
                          => g = e
      BY <1>1, <2>2, <3>1 DEF Entering
    <3> QED
      BY <3>3, <3>4
  <2> QED
    BY <1>2, <2>1, <2>2 DEF Entering
<1>18. Behind(body', pfile', Linked', purged')
  <2>1. \A i : (\E w \in Linked : body[w].id = i) => \E w \in Linked' : body'[w].id = i
    BY <1>1, <1>7, <1>10
  <2>2. body[b].old => body[b].id \in purged
    BY <1>1, <1>3 DEF Behind
  <2>3. ASSUME NEW c \in Built, body'[c].old
        PROVE  body'[c].id \in purged \/ (c \notin Linked' /\ \E w \in Linked' : body'[w].id = body'[c].id)
    <3>1. CASE c = b
      BY <1>10, <2>2, <2>3, <3>1
    <3>2. CASE c # b
      BY <1>1, <1>7, <1>10, <2>1, <2>3, <3>2 DEF Behind
    <3> QED
      BY <3>1, <3>2
  <2>4. ASSUME NEW n \in Name, pfile'[n] # None, pfile'[n].old
        PROVE  pfile'[n].id \in purged \/ \E w \in Linked' : body'[w].id = pfile'[n].id
    <3>1. CASE pfile'[n] = pfile[n]
      <4>1. pfile[n].id \in purged \/ \E w \in Linked : body[w].id = pfile[n].id
        BY <1>1, <2>4, <3>1 DEF Behind
      <4> QED
        BY <2>1, <3>1, <4>1
    <3>2. CASE pfile'[n].id = body[b].id /\ pfile'[n].old = body[b].old
      BY <2>2, <2>4, <3>2
    <3> QED
      BY <1>11, <3>1, <3>2
  <2> QED
    BY <1>2, <1>9, <2>3, <2>4 DEF Behind
<1>19. Kept(connected', character', body', pfile', Linked')
  <2>1. character' \in [Conn -> Body \cup {None}]
    BY <1>1, <1>2 DEF Types
  <2> QED
    BY <1>8, <1>13, <1>14, <1>15, <1>16, <1>17, <2>1 DEF Kept
<1>20. Types'
  <2>1. Linked' \subseteq IsBuilt(body')
    BY <1>1, <1>3, <1>7, <1>9
  <2> QED
    BY <1>1, <1>2, <1>7, <1>11, <1>12, <1>19, <2>1 DEF Types, Kept
<1> QED
  BY <1>18, <1>19, <1>20, IInvIs

-----------------------------------------------------------------------------
\* Every step keeps the invariant.
LEMMA StepKeeps == IInv /\ [Next]_vars => IInv'
<1> SUFFICES ASSUME IInv, [Next]_vars PROVE IInv'
  OBVIOUS
<1>1. CASE Next
  <2>1. ASSUME NEW d \in Conn,
               \/ Connect(d) \/ RightPassword(d) \/ BreakYes(d) \/ Decline(d)
               \/ FinishCreating(d) \/ EnterGame(d) \/ CloseSocket(d) \/ LinkLost(d)
               \/ \E n \in Name : GiveName(d, n)
        PROVE  IInv'
    BY <2>1, ByConnect, ByRightPassword, ByBreakYes, ByDecline, ByFinishCreating, ByEnterGame,
       ByCloseSocket, ByLinkLost, ByGiveName
  <2>2. ASSUME NEW b \in Body, Save(b) \/ Quit(b) \/ Delete(b) \/ Purge(b)
        PROVE  IInv'
    BY <2>2, BySave, ByQuit, ByDelete, ByPurge
  <2> QED
    BY <1>1, <2>1, <2>2 DEF Next
<1>2. CASE UNCHANGED vars
  <2>1. Linked' = Linked /\ charList' = charList /\ connected' = connected /\ character' = character
        /\ body' = body /\ pfile' = pfile /\ retired' = retired /\ rows' = rows /\ purged' = purged
    BY <1>2 DEF vars, Linked
  <2>2. Types' /\ Behind(body', pfile', Linked', purged')
    BY <2>1, Facts DEF IInv, Types
  <2>3. Kept(connected', character', body', pfile', Linked')
    BY <2>1, KeptNow
  <2> QED
    BY <2>2, <2>3, IInvIs
<1> QED
  BY <1>1, <1>2

\* In every state that the connections can reach, in whatever order they name players,
\* give passwords, close and play, the bodies, files and the world agree as IInv says.
THEOREM InductiveInvariant == Spec => []IInv
<1>1. Init => IInv
  BY InitEstablishes
<1>2. IInv /\ [Next]_vars => IInv'
  BY StepKeeps
<1> QED
  BY <1>1, <1>2, PTL DEF Spec

\* No two connections hold the same body, and one is in the world exactly when its
\* connection plays: close_socket never frees what another owns.
THEOREM BodiesHaveOneOwner == Spec => []OneOwner
<1>1. IInv => OneOwner
  <2> SUFFICES ASSUME IInv PROVE OneOwner
    OBVIOUS
  <2>1. Held(connected, character, body, Linked) /\ TypeOK /\ Built = IsBuilt(body)
    BY Facts DEF IInv
  <2> QED
    BY <2>1 DEF OneOwner, Held, Holding, LoginStates
<1> QED
  BY <1>1, InductiveInvariant, PTL

\* A body that no connection holds is in the world, or it has been freed.
THEOREM BodiesAreNotOrphaned == Spec => []NothingOrphaned
<1>1. IInv => NothingOrphaned
  <2> SUFFICES ASSUME IInv, NEW b \in Built, b \notin Linked
               PROVE  \E d \in Holding : character[d] = b
    BY DEF NothingOrphaned
  <2>1. PICK d \in Conn : character[d] = b
    BY Facts DEF IInv, Held
  <2> QED
    BY <2>1, LoginAssumption DEF Holding, Built
<1> QED
  BY <1>1, InductiveInvariant, PTL

\* check_playing and check_reconnect let a player into the world once.
THEOREM PlayersPlayOnce == Spec => []OneBodyPerPlayer
<1>1. IInv => OneBodyPerPlayer
  BY DEF IInv, Entering, OneBodyPerPlayer
<1> QED
  BY <1>1, InductiveInvariant, PTL

\* A file that is behind its player is the file of one who is still in the world, and
\* will be saved, or of one purged.
THEOREM FilesCatchUp == Spec => []RolledBackIsInWorld
<1>1. IInv => RolledBackIsInWorld
  <2> SUFFICES ASSUME IInv, NEW n \in Name, pfile[n] # None, pfile[n].old
               PROVE  pfile[n].id \in purged \cup {body[b].id : b \in Linked}
    BY DEF RolledBackIsInWorld
  <2> QED
    BY DEF IInv, Behind
<1> QED
  BY <1>1, InductiveInvariant, PTL

\* CON_READ_MOTD never puts into the world a copy that the player has saved over.
THEOREM EntriesAreFresh == Spec => FreshEntry
<1> DEFINE Fresh == \A b \in ToSet(charList') \ Linked : body[b].old => body[b].id \in purged
<1>1. IInv /\ [Next]_vars => [Fresh]_vars
  <2> SUFFICES ASSUME IInv, Next, NEW b \in Linked' \ Linked, body[b].old
               PROVE  body[b].id \in purged
    BY DEF Linked
  <2>1. ASSUME NEW d \in Conn, EnterGame(d) PROVE body[b].id \in purged
    <3>1. /\ charList' = <<character[d]>> \o charList /\ connected[d] = "ReadMotd"
      BY <2>1 DEF EnterGame
    <3>2. charList \in Seq(Body) /\ IsInjective(charList)
      BY Facts DEF Types
    <3>3. /\ character[d] \in Built /\ character[d] \notin Linked /\ Built \subseteq Body
          /\ \A c \in Linked : body[c].id # body[character[d]].id
      BY <3>1, Facts DEF IInv, Held, Entering, IsBuilt
    <3>4. Linked' = Linked \cup {character[d]}
      BY <3>1, <3>2, <3>3, InFront DEF Linked
    <3>5. b = character[d]
      BY <3>4
    <3> QED
      BY <3>3, <3>5, Facts DEF IInv, Behind
  <2>2. ASSUME NEW closing, NEW freed, NEW bodies, Leave(closing, freed, bodies) PROVE FALSE
    BY <2>2, LeaveEffect
  <2>3. ASSUME charList' = charList PROVE FALSE
    BY <2>3 DEF Linked
  <2>4. ASSUME NEW d \in Conn,
               \/ Connect(d) \/ RightPassword(d) \/ BreakYes(d) \/ Decline(d)
               \/ FinishCreating(d) \/ \E n \in Name : GiveName(d, n)
        PROVE  FALSE
    BY <2>3, <2>4 DEF Connect, RightPassword, BreakYes, Decline, BackToName, FinishCreating,
                      GiveName, Reconnect
  <2>5. ASSUME NEW d \in Conn, CloseSocket(d) \/ LinkLost(d) PROVE FALSE
    BY <2>2, <2>5 DEF CloseSocket, LinkLost
  <2>6. ASSUME NEW c \in Body, Save(c) \/ Quit(c) \/ Delete(c) \/ Purge(c) PROVE FALSE
    BY <2>2, <2>3, <2>6 DEF Save, Quit, Delete, Purge, Extract
  <2> QED
    BY <2>1, <2>4, <2>5, <2>6 DEF Next
<1>2. Spec => [][Fresh]_vars
  BY <1>1, InductiveInvariant, PTL DEF Spec
<1> QED
  BY <1>2 DEF FreshEntry

-----------------------------------------------------------------------------
\* The inductive invariant: the type invariant; that outside of walks nothing is left
\* of one; and that a sweep which has closed nothing has yet to come to whatever is
\* marked, so the last pass of the last sweep leaves nobody marked.
LoopIInv == /\ list \in Seq(Descriptor) /\ IsInjective(list)
            /\ InOrder(list, todo)
            /\ playing \cup out \cup closePending \cup fcommand \cup polled \subseteq Listed
            /\ phase \in Phases /\ closedAny \in BOOLEAN
            /\ closePending \cap out = {}
            /\ phase \in {"poll", "accept"} => closePending = {} /\ todo = <<>>
            /\ phase = "resweep" /\ ~closedAny => closePending \subseteq ToSet(todo)

LEMMA LoopStarts == LoopInit => LoopIInv
<1> SUFFICES ASSUME LoopInit PROVE LoopIInv
  OBVIOUS
<1>1. <<>> \in Seq(Descriptor) /\ IsInjective(<<>>)
  BY DEF IsInjective
<1>2. InOrder(list, todo)
  BY <1>1, NothingInOrder DEF LoopInit
<1> QED
  BY <1>1, <1>2 DEF LoopInit, LoopIInv, Phases

\* Whatever is written, what is marked stays silent; only who was written to is
\* newly marked.
LEMMA WriteToKeeps ==
    ASSUME LoopIInv, NEW audience, NEW emptied, NEW gone,
           audience \subseteq Listed, audience \cap gone = {}, gone \subseteq emptied,
           WriteTo(audience, emptied, gone)
    PROVE  /\ closePending' \cap out' = {}
           /\ out' \subseteq Listed \ emptied
           /\ closePending' \subseteq Listed \ gone
BY DEF LoopIInv, WriteTo, TakesOutput

LEMMA CloseSocketKeeps ==
    ASSUME LoopIInv, NEW d, todo # <<>>, d = Head(todo), close_socket(d),
           phase' = phase, closedAny' \in BOOLEAN, phase \notin {"poll", "accept"},
           phase = "resweep" => closedAny'
    PROVE  LoopIInv'
<1>1. /\ list \in Seq(Descriptor) /\ IsInjective(list) /\ InOrder(list, todo)
      /\ playing \subseteq Listed
  BY DEF LoopIInv
<1>2. InOrder(list, Tail(todo)) /\ d \in Listed
  BY <1>1, TailInOrder DEF Listed
<1>3. /\ list' \in Seq(Descriptor) /\ IsInjective(list') /\ ToSet(list') = Listed \ {d}
      /\ InOrder(list', todo')
  BY <1>1, <1>2, ErasedInOrder DEF close_socket, Erase, Listed
<1>4. /\ closePending' \cap out' = {}
      /\ out' \subseteq Listed \ {d} /\ closePending' \subseteq Listed \ {d}
  <2> DEFINE audience == IF d \in playing THEN playing \ {d} ELSE {}
  <2>1. audience \subseteq Listed /\ audience \cap {d} = {}
    BY <1>1
  <2>2. WriteTo(audience, {d}, {d})
    BY DEF close_socket
  <2> HIDE DEF audience
  <2> QED
    BY <2>1, <2>2, WriteToKeeps
<1>5. playing' \cup fcommand' \cup polled' \subseteq Listed \ {d}
  BY DEF close_socket, Erase, LoopIInv
<1> QED
  BY <1>3, <1>4, <1>5 DEF LoopIInv, Listed, Phases

LEMMA PassKeeps ==
    ASSUME LoopIInv, todo # <<>>, Pass, fcommand' \subseteq fcommand, phase \notin {"poll", "accept"},
           phase = "resweep" => Head(todo) \notin closePending
    PROVE  LoopIInv'
<1>1. list \in Seq(Descriptor) /\ IsInjective(list) /\ InOrder(list, todo)
  BY DEF LoopIInv
<1>2. InOrder(list, Tail(todo)) /\ ToSet(Tail(todo)) = ToSet(todo) \ {Head(todo)}
  BY <1>1, TailInOrder
<1> QED
  BY <1>2 DEF LoopIInv, Pass, Listed, Phases

LEMMA CommandKeeps ==
    ASSUME LoopIInv, NEW d, Command(d)
    PROVE  LoopIInv'
<1>1. /\ list \in Seq(Descriptor) /\ IsInjective(list) /\ InOrder(list, todo)
      /\ todo # <<>> /\ d = Head(todo) /\ phase = "input"
      /\ playing \subseteq Listed /\ fcommand \subseteq Listed /\ polled \subseteq Listed
  BY DEF LoopIInv, Command, At
<1>2. InOrder(list, Tail(todo)) /\ d \in Listed
  BY <1>1, TailInOrder DEF Listed
<1>3. PICK gone \in SUBSET Listed, enters \in SUBSET {d}, typed \in SUBSET {d} :
          /\ WriteTo((playing \cup {d}) \ gone, gone, gone)
          /\ playing' = (playing \cup enters) \ gone
          /\ list' = Without(list, gone)
          /\ todo' = Without(Tail(todo), gone)
          /\ polled' = polled \ gone
          /\ fcommand' = ((fcommand \ {d}) \cup typed) \ gone
  BY DEF Command
<1>4. /\ list' \in Seq(Descriptor) /\ IsInjective(list') /\ ToSet(list') = Listed \ gone
      /\ InOrder(list', todo')
  BY <1>1, <1>2, <1>3, ErasedInOrder DEF Listed
<1>5. /\ closePending' \cap out' = {}
      /\ out' \subseteq Listed \ gone /\ closePending' \subseteq Listed \ gone
  <2> DEFINE audience == (playing \cup {d}) \ gone
  <2>1. audience \subseteq Listed /\ audience \cap gone = {}
    BY <1>1, <1>2
  <2>2. WriteTo(audience, gone, gone)
    BY <1>3
  <2> HIDE DEF audience
  <2> QED
    BY <2>1, <2>2, WriteToKeeps
<1>6. playing' \cup fcommand' \cup polled' \subseteq Listed \ gone
  BY <1>1, <1>2, <1>3
<1>7. phase' = "input" /\ closedAny' = closedAny
  BY <1>1 DEF Command
<1> QED
  BY <1>4, <1>5, <1>6, <1>7 DEF LoopIInv, Listed, Phases

LEMMA UpdateKeeps ==
    ASSUME LoopIInv, UpdateWorld
    PROVE  LoopIInv'
<1>1. /\ list \in Seq(Descriptor) /\ IsInjective(list) /\ InOrder(list, list)
      /\ playing \subseteq Listed
  BY WholeInOrder DEF LoopIInv
<1>2. PICK gone \in SUBSET playing :
          /\ WriteTo(playing \ gone, gone, gone)
          /\ playing' = playing \ gone
          /\ Erase(gone, list)
  BY DEF UpdateWorld
<1>3. /\ list' \in Seq(Descriptor) /\ IsInjective(list') /\ ToSet(list') = Listed \ gone
      /\ InOrder(list', todo')
  BY <1>1, <1>2, ErasedInOrder DEF Erase, Listed
<1>4. /\ closePending' \cap out' = {}
      /\ out' \subseteq Listed \ gone /\ closePending' \subseteq Listed \ gone
  <2>1. playing \ gone \subseteq Listed /\ (playing \ gone) \cap gone = {}
    BY <1>1
  <2> QED
    BY <1>2, <2>1, WriteToKeeps
<1>5. playing' \cup fcommand' \cup polled' \subseteq Listed \ gone
  BY <1>1, <1>2 DEF Erase, LoopIInv
<1>6. phase' = "sweep" /\ closedAny' = FALSE
  BY DEF UpdateWorld
<1> QED
  BY <1>3, <1>4, <1>5, <1>6 DEF LoopIInv, Listed, Phases

LEMMA FlushKeeps ==
    ASSUME LoopIInv, NEW d, Flush(d)
    PROVE  LoopIInv'
<1>1. /\ list \in Seq(Descriptor) /\ IsInjective(list) /\ InOrder(list, todo)
      /\ todo # <<>> /\ d = Head(todo) /\ phase = "flush" /\ playing \subseteq Listed
  BY DEF LoopIInv, Flush, At
<1>2. InOrder(list, Tail(todo)) /\ d \in Listed
  BY <1>1, TailInOrder DEF Listed
<1>3. PICK snooper \in SUBSET (playing \ {d}) : WriteTo(snooper \cup {d}, {d}, {})
  BY DEF Flush
<1>4. /\ closePending' \cap out' = {}
      /\ out' \subseteq Listed \ {d} /\ closePending' \subseteq Listed \ {}
  <2>1. snooper \cup {d} \subseteq Listed /\ (snooper \cup {d}) \cap {} = {} /\ {} \subseteq {d}
    BY <1>1, <1>2
  <2> QED
    BY <1>3, <2>1, WriteToKeeps
<1>5. /\ todo' = Tail(todo) /\ list' = list /\ playing' = playing /\ fcommand' = fcommand
      /\ polled' = polled /\ phase' = "flush" /\ closedAny' = closedAny
  BY <1>1 DEF Flush
<1> QED
  BY <1>1, <1>2, <1>4, <1>5 DEF LoopIInv, Listed, Phases

LEMMA AcceptKeeps ==
    ASSUME LoopIInv, Accept
    PROVE  LoopIInv'
<1>1. /\ list \in Seq(Descriptor) /\ IsInjective(list) /\ phase = "accept"
      /\ closePending = {} /\ phase' = "exceptional" /\ todo' = list'
      /\ UNCHANGED <<playing, closePending, fcommand, polled, closedAny>>
  BY DEF LoopIInv, Accept
<1>2. CASE UNCHANGED <<list, out>>
  <2>1. InOrder(list, list)
    BY <1>1, WholeInOrder
  <2> QED
    BY <1>1, <1>2, <2>1 DEF LoopIInv, Listed, Phases
<1>3. CASE \E d \in Descriptor \ Listed : list' = Append(list, d) /\ out' = out \cup {d}
  <2>1. PICK d \in Descriptor \ Listed : list' = Append(list, d) /\ out' = out \cup {d}
    BY <1>3
  <2>2. list' \in Seq(Descriptor) /\ IsInjective(list') /\ ToSet(list') = Listed \cup {d}
    BY <1>1, <2>1, AppendElements DEF Listed
  <2>3. InOrder(list', list')
    BY <2>2, WholeInOrder
  <2> QED
    BY <1>1, <2>1, <2>2, <2>3 DEF LoopIInv, Listed, Phases
<1> QED
  BY <1>2, <1>3 DEF Accept

LEMMA EndWalkKeeps ==
    ASSUME LoopIInv, EndWalk
    PROVE  LoopIInv'
<1>1. /\ list \in Seq(Descriptor) /\ IsInjective(list)
      /\ phase \in {"exceptional", "input", "sweep", "flush", "resweep"} /\ todo = <<>>
      /\ phase' = IF AnotherPass THEN phase ELSE AfterWalk[phase]
      /\ todo' = IF phase' \in {"update", "poll"} THEN <<>> ELSE list
      /\ closedAny' = FALSE
      /\ UNCHANGED <<list, playing, out, closePending, fcommand, polled>>
  BY DEF LoopIInv, EndWalk, AfterWalk
<1>2. InOrder(list, list) /\ InOrder(list, <<>>)
  BY <1>1, WholeInOrder, NothingInOrder
<1>3. ToSet(<<>>) = {}
  BY DEF ToSet
<1>4. phase' \in Phases \ {"accept"}
  BY <1>1 DEF AfterWalk, AnotherPass, Phases
<1>5. phase' = "poll" => phase = "resweep" /\ ~closedAny
  BY <1>1 DEF AfterWalk, AnotherPass
<1>6. phase' = "poll" => closePending' = {}
  BY <1>1, <1>3, <1>5 DEF LoopIInv
<1>7. phase' = "resweep" => todo' = list' /\ closePending' \subseteq Listed'
  BY <1>1 DEF LoopIInv, Listed
<1> QED
  BY <1>1, <1>2, <1>4, <1>6, <1>7 DEF LoopIInv, Listed

LEMMA LoopSteps == LoopIInv /\ [LoopNext]_loopVars => LoopIInv'
<1> SUFFICES ASSUME LoopIInv, [LoopNext]_loopVars PROVE LoopIInv'
  OBVIOUS
<1>1. CASE PollDescriptors
  BY <1>1 DEF LoopIInv, PollDescriptors, Listed, Phases
<1>2. CASE Accept
  BY <1>2, AcceptKeeps
<1>3. CASE UpdateWorld
  BY <1>3, UpdateKeeps
<1>4. CASE EndWalk
  BY <1>4, EndWalkKeeps
<1>5. ASSUME NEW d \in Descriptor, DropExceptional(d) PROVE LoopIInv'
  <2>1. /\ phase = "exceptional" /\ todo # <<>> /\ d = Head(todo) /\ closedAny \in BOOLEAN
    BY <1>5 DEF DropExceptional, At, LoopIInv
  <2>2. CASE close_socket(d) /\ UNCHANGED <<phase, closedAny>>
    BY <2>1, <2>2, CloseSocketKeeps
  <2>3. CASE Pass /\ UNCHANGED fcommand
    BY <2>1, <2>3, PassKeeps
  <2> QED
    BY <1>5, <2>2, <2>3 DEF DropExceptional
<1>6. ASSUME NEW d \in Descriptor, ReadFails(d) PROVE LoopIInv'
  <2>1. /\ phase = "input" /\ todo # <<>> /\ d = Head(todo) /\ closedAny \in BOOLEAN
    BY <1>6 DEF ReadFails, At, LoopIInv
  <2> QED
    BY <1>6, <2>1, CloseSocketKeeps DEF ReadFails
<1>7. ASSUME NEW d \in Descriptor, NoCommand(d) PROVE LoopIInv'
  <2>1. phase = "input" /\ todo # <<>> /\ fcommand' \subseteq fcommand
    BY <1>7 DEF NoCommand, At
  <2> QED
    BY <1>7, <2>1, PassKeeps DEF NoCommand
<1>8. ASSUME NEW d \in Descriptor, Command(d) PROVE LoopIInv'
  BY <1>8, CommandKeeps
<1>9. ASSUME NEW d \in Descriptor, Sweep(d) PROVE LoopIInv'
  <2>1. /\ phase \in {"sweep", "resweep"} /\ todo # <<>> /\ d = Head(todo)
    BY <1>9 DEF Sweep, At
  <2>2. CASE d \in closePending
    BY <1>9, <2>1, <2>2, CloseSocketKeeps DEF Sweep
  <2>3. CASE d \notin closePending
    BY <1>9, <2>1, <2>3, PassKeeps DEF Sweep
  <2> QED
    BY <2>2, <2>3
<1>10. ASSUME NEW d \in Descriptor, Flush(d) PROVE LoopIInv'
  BY <1>10, FlushKeeps
<1>11. ASSUME NEW d \in Descriptor, FlushFails(d) PROVE LoopIInv'
  <2>1. /\ phase = "flush" /\ todo # <<>> /\ d = Head(todo) /\ closedAny \in BOOLEAN
    BY <1>11 DEF FlushFails, At, LoopIInv
  <2> QED
    BY <1>11, <2>1, CloseSocketKeeps DEF FlushFails
<1>12. ASSUME NEW d \in Descriptor, NotFlushed(d) PROVE LoopIInv'
  <2>1. phase = "flush" /\ todo # <<>>
    BY <1>12 DEF NotFlushed, At
  <2> QED
    BY <1>12, <2>1, PassKeeps DEF NotFlushed
<1>13. CASE UNCHANGED loopVars
  BY <1>13 DEF loopVars, LoopIInv, Listed
<1> QED
  BY <1>1, <1>2, <1>3, <1>4, <1>5, <1>6, <1>7, <1>8, <1>9, <1>10, <1>11, <1>12, <1>13 DEF LoopNext

\* Every reachable state of the loop over the connections satisfies the invariant.
THEOREM LoopInvariant == LoopSpec => []LoopIInv
BY LoopStarts, LoopSteps, PTL DEF LoopSpec

-----------------------------------------------------------------------------
\* Whoever overflows in a pulse, at whichever phase, is closed before the next poll
\* (ProcessOutput, ClosePendingConnections); and no walk of the pulse, and no flag,
\* names a connection that has been closed, whose memory the next may be given.
THEOREM ClosedByThePulse == LoopSpec => []NonePendingBetweenPulses
<1>1. LoopIInv => NonePendingBetweenPulses
  BY DEF LoopIInv, InOrder, NonePendingBetweenPulses, LoopTypeOK, Listed
<1> QED
  BY <1>1, LoopInvariant, PTL

\* What has overflowed is sent nothing more (write_to_buffer), so close_socket has
\* nothing to flush down its link.
THEOREM MarkedIsSilent == LoopSpec => []PendingIsSilent
<1>1. LoopIInv => PendingIsSilent
  BY DEF LoopIInv, PendingIsSilent
<1> QED
  BY <1>1, LoopInvariant, PTL
=============================================================================
