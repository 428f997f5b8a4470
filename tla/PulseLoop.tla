----------------------------- MODULE PulseLoop -----------------------------
(***************************************************************************)
(* One pulse of the game loop over the connections (code/gameloop.c), and  *)
(* the deferred closing of those whose output overflows (code/comm.c).     *)
(*                                                                         *)
(* A pulse polls the sockets, accepts at most one newcomer, drops the      *)
(* exceptional ones, runs at most one command per connection, updates the  *)
(* world, closes what overflowed, flushes, and closes again.  Any write    *)
(* may overflow the connection it is made to, which then may not be closed *)
(* on the spot: its writer still holds it.                                 *)
(*                                                                         *)
(* todo is the rest of the walk a phase is in the middle of; what it may   *)
(* be is ListWalk's promise: erased elements drop out of it.               *)
(***************************************************************************)
EXTENDS Lists, FiniteSets, SequencesExt

CONSTANT Descriptor      \* connections

VARIABLES list,          \* descriptor_list
          playing,       \* connections in CON_PLAYING
          out,           \* those with buffered output: outtop > 0
          closePending,
          fcommand,      \* those whose command ran this pulse
          polled,        \* those select() was asked about this pulse
          phase, todo,   \* where the pulse is, and the rest of its walk
          closedAny      \* ClosePendingConnections' flag

loopVars == <<list, playing, out, closePending, fcommand, polled, phase, todo, closedAny>>

Phases == {"poll", "accept", "exceptional", "input", "update", "sweep", "flush", "resweep"}

LoopInit == /\ list = <<>> /\ todo = <<>>
            /\ playing = {} /\ out = {} /\ closePending = {} /\ fcommand = {} /\ polled = {}
            /\ phase = "poll" /\ closedAny = FALSE

-----------------------------------------------------------------------------
Listed == ToSet(list)

\* Fault for the run's mutants: write_to_buffer without its first test.
EveryoneTakesOutput(audience) == audience

\* write_to_buffer: a connection waiting to close takes nothing more.
TakesOutput(audience) == audience \ closePending

\* What some of the audience have been written by the time the connections in
\* gone have left the list, and the buffers of those in emptied are empty.  Past
\* the ceiling a buffer is emptied and its connection marked.
WriteTo(audience, emptied, gone) ==
    \E heard \in SUBSET TakesOutput(audience) : \E overflowed \in SUBSET heard :
        /\ out' = (out \cup heard) \ (overflowed \cup emptied)
        /\ closePending' = (closePending \cup overflowed) \ gone

\* The end of close_socket: the connections in gone leave the list, and what is
\* left of the walk in progress steps over them.
Erase(gone, rest) ==
    /\ list' = Without(list, gone)
    /\ todo' = Without(rest, gone)
    /\ fcommand' = fcommand \ gone /\ polled' = polled \ gone

\* close_socket, of the connection the walk is at: the room and the immortals
\* are told that a playing character lost the link, and a snooper that the
\* victim has left.  Nobody hears a login go.
close_socket(d) == /\ WriteTo(IF d \in playing THEN playing \ {d} ELSE {}, {d}, {d})
                   /\ playing' = playing \ {d}
                   /\ Erase({d}, Tail(todo))

\* The walk's body is at d; and it leaves the connection as it is.
At(p, d) == phase = p /\ todo # <<>> /\ d = Head(todo)

Pass == /\ todo' = Tail(todo)
        /\ UNCHANGED <<list, playing, out, closePending, polled, phase, closedAny>>

-----------------------------------------------------------------------------
PollDescriptors == /\ phase = "poll"
                   /\ polled' = Listed
                   /\ phase' = "accept"
                   /\ UNCHANGED <<list, playing, out, closePending, fcommand, todo, closedAny>>

\* init_descriptor, when somebody is waiting and is not turned away: the
\* newcomer is greeted.  It was not among the sockets polled.
Accept == /\ phase = "accept"
          /\ \/ UNCHANGED <<list, out>>
             \/ \E d \in Descriptor \ Listed : list' = Append(list, d) /\ out' = out \cup {d}
          /\ phase' = "exceptional" /\ todo' = list'
          /\ UNCHANGED <<playing, closePending, fcommand, polled, closedAny>>

DropExceptional(d) == /\ At("exceptional", d)
                      /\ \/ d \in polled /\ close_socket(d) /\ UNCHANGED <<phase, closedAny>>
                         \/ Pass /\ UNCHANGED fcommand

ReadFails(d) == /\ At("input", d) /\ d \in polled
                /\ close_socket(d)
                /\ UNCHANGED <<phase, closedAny>>

\* Nothing typed, or a connection that is waiting to close.
NoCommand(d) == /\ At("input", d)
                /\ fcommand' = fcommand \ {d}
                /\ Pass

\* A command may close its own connection (quit, a refused password), others (a
\* second login, an immortal's disconnect), write to anyone playing, and bring
\* its character into play.  One that was queued is run without being typed.
Command(d) ==
    /\ At("input", d) /\ d \in polled \ closePending
    /\ \E gone \in SUBSET Listed, enters, typed \in SUBSET {d} :
          /\ typed = {} => d \in playing
          /\ WriteTo((playing \cup {d}) \ gone, gone, gone)
          /\ playing' = (playing \cup enters) \ gone
          /\ list' = Without(list, gone)
          /\ todo' = Without(Tail(todo), gone)
          /\ polled' = polled \ gone
          /\ fcommand' = ((fcommand \ {d}) \cup typed) \ gone
    /\ UNCHANGED <<phase, closedAny>>

\* update_handler: anyone playing may hear of it, and idlers are made to quit.
UpdateWorld == /\ phase = "update"
               /\ \E gone \in SUBSET playing :
                     /\ WriteTo(playing \ gone, gone, gone)
                     /\ playing' = playing \ gone
                     /\ Erase(gone, list)
               /\ phase' = "sweep" /\ closedAny' = FALSE

\* ClosePendingConnections' walk.
Sweep(d) == /\ At("sweep", d) \/ At("resweep", d)
            /\ IF d \in closePending
               THEN close_socket(d) /\ closedAny' = TRUE /\ UNCHANGED phase
               ELSE Pass /\ UNCHANGED fcommand

\* process_output: the prompt may overflow the connection itself, the copy of
\* what it sends its snooper.
Flush(d) == /\ At("flush", d) /\ d \in polled \cap (fcommand \cup out)
            /\ \E snooper \in SUBSET (playing \ {d}) :
                  Cardinality(snooper) <= 1 /\ WriteTo(snooper \cup {d}, {d}, {})
            /\ todo' = Tail(todo)
            /\ UNCHANGED <<list, playing, fcommand, polled, phase, closedAny>>

FlushFails(d) == /\ At("flush", d) /\ d \in polled \cap (fcommand \cup out)
                 /\ close_socket(d)
                 /\ UNCHANGED <<phase, closedAny>>

\* Nothing to send, or the socket cannot take it now.
NotFlushed(d) == At("flush", d) /\ Pass /\ UNCHANGED fcommand

\* Faults for the run's mutants: one pass of ClosePendingConnections is taken
\* for enough; and every pass for one that closed something.
OnePassIsEnough == FALSE
NeverEnough == phase \in {"sweep", "resweep"}

\* while (closedAny): a close can mark a connection the pass is already beyond.
AnotherPass == phase \in {"sweep", "resweep"} /\ closedAny

AfterWalk == [exceptional |-> "input", input |-> "update", sweep |-> "flush",
              flush |-> "resweep", resweep |-> "poll"]

EndWalk == /\ phase \in DOMAIN AfterWalk /\ todo = <<>>
           /\ phase' = IF AnotherPass THEN phase ELSE AfterWalk[phase]
           /\ todo' = IF phase' \in {"update", "poll"} THEN <<>> ELSE list
           /\ closedAny' = FALSE
           /\ UNCHANGED <<list, playing, out, closePending, fcommand, polled>>

LoopNext == \/ PollDescriptors \/ Accept \/ UpdateWorld \/ EndWalk
            \/ \E d \in Descriptor :
                 \/ DropExceptional(d) \/ ReadFails(d) \/ NoCommand(d)
                 \/ Command(d) \/ Sweep(d)
                 \/ Flush(d) \/ FlushFails(d) \/ NotFlushed(d)

LoopSpec == LoopInit /\ [][LoopNext]_loopVars

\* The loop has one thread and blocks on nothing: both selects have timeouts.
LiveSpec == LoopSpec /\ WF_loopVars(LoopNext)

-----------------------------------------------------------------------------
\* Type invariant.  What is left of a walk is linked, in list order, and no flag
\* outlives its connection, whose memory the next newcomer may be given.
LoopTypeOK == /\ list \in Seq(Descriptor) /\ IsInjective(list)
              /\ todo = Without(list, Listed \ ToSet(todo))
              /\ playing \cup out \cup closePending \cup fcommand \cup polled \subseteq Listed
              /\ phase \in Phases /\ closedAny \in BOOLEAN

\* "Together they close everything that overflowed this pulse before the next
\* begins" (ProcessOutput): whoever overflows, at whichever phase, and whatever
\* further overflows its closing sets off, is closed by the next poll.
NonePendingBetweenPulses == LoopTypeOK /\ (phase \in {"poll", "accept"} => closePending = {})

\* write_to_buffer drops what a marked connection is told, so its buffer is empty
\* when the sweep closes it: close_socket's own flush has nothing to send down a
\* link whose output is already truncated, and a flush cannot unmark it.
PendingIsSilent == closePending \cap out = {}

\* "Every pass that continues has closed at least one connection, so this ends"
\* (ClosePendingConnections): the pulse always gets round to the next poll.
PulseCompletes == []<>(phase = "poll")
=============================================================================
