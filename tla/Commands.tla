------------------------------ MODULE Commands ------------------------------
(***************************************************************************)
(* One player's lines on their way to execution (code/gameloop.c,          *)
(* code/interp.c): a line a pulse is read while the player is free to act, *)
(* and put by in pcdata->queue while a command's wait is running down.     *)
(*                                                                         *)
(* The lines of a connection are numbered as they are typed; what a line   *)
(* says is chosen when it is read.  A command is told apart by what it     *)
(* does to the wait and to the queue: one that takes no time, one that     *)
(* does, one that runs another command within (do_dash), and leaving.      *)
(***************************************************************************)
EXTENDS Integers

CONSTANTS MAX_QUEUE,
          Lag,              \* the waits commands impose, in pulses
          PULSE_VIOLENCE,
          Within,           \* what a dash may run when it arrives
          MaxTyped,         \* bound: lines typed
          MaxMeddling       \* bound: what others make of a player's wait and lines

ASSUME CommandsAssumption ==
    /\ MAX_QUEUE \in Nat \ {0}
    /\ PULSE_VIOLENCE \in Nat
    /\ MaxTyped \in Nat /\ MaxMeddling \in Nat
    /\ Lag \subseteq Nat

Command == {"look", "bash", "dash", "quit"}
Line    == [n : 0..MaxTyped, what : Command]    \* n = 0: another's command
NoLine  == [n |-> 0, what |-> "none"]           \* queue[i][0] == '\0'

VARIABLES link,         \* "up"; "closing", while closePending; "down"
          typed, read,  \* lines typed, and those of them read_from_buffer returned
          wait,
          queue, write_next, pending,
          meddled,      \* what others did so far
          ran, gone     \* history: lines executed; refused, given up or lost

queueVars == <<queue, write_next, pending>>
lineVars == <<link, typed, read, wait, queue, write_next, pending, meddled, ran, gone>>

Index      == 0..(MAX_QUEUE - 1)
EmptyQueue == [i \in Index |-> NoLine]

\* The lines of the connection that wait in the queue.
Waiting == {queue[i].n : i \in {j \in Index : j < write_next}} \ {0}

LinesInit == /\ link = "up"
             /\ typed = 0 /\ read = 0
             /\ wait = 0
             /\ queue = EmptyQueue /\ write_next = 0 /\ pending = FALSE
             /\ meddled = 0
             /\ ran = {} /\ gone = {}

\* Past a write ahead of the queue nothing is promised.
Sound == write_next >= 0

-----------------------------------------------------------------------------
\* clear_cmd_queue.
clear_cmd_queue == /\ queue' = EmptyQueue
                   /\ write_next' = 0
                   /\ pending' = FALSE

\* The wait a command leaves its player with; WAIT_STATE takes the longer one.
Imposes(what) == IF what \in {"look", "quit"} THEN {0} ELSE Lag
Longer(w, n)  == IF w < n THEN n ELSE w

\* ProcessConnectionInput counts the wait down before anything else.
Countdown == IF wait > 0 THEN wait - 1 ELSE wait

\* Faults for the run's mutants: a line waits in the first slot whatever is there,
\* or waits unannounced.
queued_first(l) == /\ write_next <= MAX_QUEUE - 1
                   /\ queue' = [queue EXCEPT ![0] = l]
                   /\ write_next' = write_next + 1
                   /\ pending' = TRUE
queued_unflagged(l) == /\ write_next <= MAX_QUEUE - 1
                       /\ queue' = [queue EXCEPT ![write_next] = l]
                       /\ write_next' = write_next + 1
                       /\ UNCHANGED pending

\* interpret, while the player waits.
Queued(l) == /\ write_next <= MAX_QUEUE - 1
             /\ queue' = [queue EXCEPT ![write_next] = l]
             /\ write_next' = write_next + 1
             /\ pending' = TRUE
Full      == write_next > MAX_QUEUE - 1

\* Faults for the run's mutants: the last slot keeps its line; two lines go at once.
shuffled_short(q, next)  == [i \in Index |-> IF i + 1 < next THEN q[i + 1] ELSE q[i]]
shuffled_by_two(q, next) == [i \in Index |-> IF i + 2 < next THEN q[i + 2] ELSE NoLine]

\* The loop that closes the gap at the front, for a queue of next lines.
Shuffled(q, next) == [i \in Index |-> IF i + 1 < next THEN q[i + 1] ELSE NoLine]

\* The player leaves: what they had waiting goes with them, and load_char_obj
\* will begin with an empty queue.
Left(executed) == /\ link' = "down" /\ wait' = 0
                  /\ clear_cmd_queue
                  /\ read' = typed
                  /\ ran' = ran \cup executed
                  /\ gone' = (1..typed) \ ran'
                  /\ UNCHANGED <<typed, meddled>>

-----------------------------------------------------------------------------
\* A line arrives from the player's end.
Type == /\ Sound /\ link = "up" /\ typed < MaxTyped
        /\ typed' = typed + 1
        /\ UNCHANGED <<link, read, wait, queueVars, meddled, ran, gone>>

\* ProcessConnectionInput takes a queued line, or else reads one, unless there is
\* neither.  Fault for the run's mutant: it reads one even so.
Served     == Sound /\ link = "up"
reads_anew == Served /\ read < typed
TakesTurn == Served /\ Countdown <= 0 /\ pending
Reads     == Served /\ ~(Countdown <= 0 /\ pending) /\ read < typed

Lull == /\ Served /\ ~(Countdown <= 0 /\ pending) /\ read = typed /\ wait > 0
        /\ wait' = Countdown
        /\ UNCHANGED <<link, typed, read, queueVars, meddled, ran, gone>>

\* A blank line, or one that the pager or an editor takes.
ReadBlank == /\ Reads
             /\ wait' = Countdown
             /\ read' = read + 1
             /\ gone' = gone \cup {read + 1}
             /\ UNCHANGED <<link, typed, queueVars, meddled, ran>>

\* "qc" is looked at before the wait is.
ReadClear == /\ Reads
             /\ wait' = Countdown
             /\ read' = read + 1
             /\ clear_cmd_queue
             /\ ran' = ran \cup {read + 1}
             /\ gone' = gone \cup Waiting
             /\ UNCHANGED <<link, typed, meddled>>

ReadQueue(what) == /\ Reads /\ Countdown > 0
                   /\ wait' = Countdown
                   /\ read' = read + 1
                   /\ Queued([n |-> read + 1, what |-> what])
                   /\ UNCHANGED <<link, typed, meddled, ran, gone>>

ReadRefuse == /\ Reads /\ Countdown > 0 /\ Full
              /\ wait' = Countdown
              /\ read' = read + 1
              /\ gone' = gone \cup {read + 1}
              /\ UNCHANGED <<link, typed, queueVars, meddled, ran>>

ReadRun(what) == /\ Reads /\ Countdown <= 0
                 /\ \E lag \in Imposes(what) : wait' = Longer(0, lag)
                 /\ read' = read + 1
                 /\ ran' = ran \cup {read + 1}
                 /\ UNCHANGED <<link, typed, queueVars, meddled, gone>>

ReadQuit == Reads /\ Countdown <= 0 /\ Left({read + 1})

-----------------------------------------------------------------------------
\* The first of the queue is run, and the queue shuffled up.
Ran(l) == ran \cup ({l.n} \ {0})

RunQueued == /\ TakesTurn
             /\ \E lag \in Imposes(queue[0].what) : wait' = Longer(0, lag)
             /\ ran' = Ran(queue[0])
             /\ queue' = Shuffled(queue, write_next)
             /\ write_next' = write_next - 1
             /\ pending' = (pending /\ write_next - 1 # 0)
             /\ UNCHANGED <<link, typed, read, meddled, gone>>

\* A dash that clears the queue from within: the shuffle then finds it empty, and
\* its loop begins one slot ahead of it.
RunQueuedClear == /\ TakesTurn
                  /\ queue[0].what = "dash" /\ "qc" \in Within
                  /\ \E lag \in Lag : wait' = Longer(0, lag)
                  /\ ran' = Ran(queue[0])
                  /\ gone' = gone \cup (Waiting \ ran')
                  /\ queue' = Shuffled(EmptyQueue, 0)
                  /\ write_next' = 0 - 1
                  /\ pending' = FALSE
                  /\ UNCHANGED <<link, typed, read, meddled>>

RunQueuedQuit == /\ TakesTurn
                 /\ \/ queue[0].what = "quit"
                    \/ queue[0].what = "dash" /\ "quit" \in Within
                 /\ Left({queue[0].n} \ {0})

-----------------------------------------------------------------------------
\* Others: a blow that lags the player, a spell that frees them, and a command in
\* their name (do_force, do_order, command_execute_delay), at once or queued.
Meddling == Sound /\ meddled < MaxMeddling /\ meddled' = meddled + 1

LagChar(n) == /\ Meddling /\ wait' = Longer(wait, n)
              /\ UNCHANGED <<link, typed, read, queueVars, ran, gone>>
Release    == /\ Meddling /\ wait > 0 /\ wait' = 0
              /\ UNCHANGED <<link, typed, read, queueVars, ran, gone>>
ForceQueue(what) == /\ Meddling /\ wait > 0
                    /\ Queued([n |-> 0, what |-> what])
                    /\ UNCHANGED <<link, typed, read, wait, ran, gone>>
ForceRun(what) == /\ Meddling /\ wait <= 0
                  /\ \E lag \in Imposes(what) : wait' = lag
                  /\ UNCHANGED <<link, typed, read, queueVars, ran, gone>>
ForceClear == /\ Meddling
              /\ wait' \in {wait} \cup (IF wait <= 0 THEN Lag ELSE {})    \* a dash's
              /\ clear_cmd_queue
              /\ gone' = gone \cup Waiting
              /\ UNCHANGED <<link, typed, read, ran>>

\* The connection's output overflows; it, or any other, closes; another takes its
\* place.  What was not read is lost, what is queued stays with the body.
Overflow  == /\ Sound /\ link = "up" /\ link' = "closing"
             /\ UNCHANGED <<typed, read, wait, queueVars, meddled, ran, gone>>
LinkLost  == /\ Sound /\ link # "down" /\ link' = "down"
             /\ read' = typed
             /\ gone' = gone \cup ((read + 1)..typed)
             /\ UNCHANGED <<typed, wait, queueVars, meddled, ran>>
Reconnect == /\ Sound /\ link = "down" /\ link' = "up"
             /\ UNCHANGED <<typed, read, wait, queueVars, meddled, ran, gone>>

\* multi_hit counts down for one who is not connected.
Unattended == /\ Sound /\ link = "down" /\ wait > 0
              /\ wait' = Longer(0, wait - PULSE_VIOLENCE)
              /\ UNCHANGED <<link, typed, read, queueVars, meddled, ran, gone>>

Broken == ~Sound /\ UNCHANGED lineVars

-----------------------------------------------------------------------------
\* ProcessConnectionInput, once a pulse.
Pulse == \/ Lull \/ ReadBlank \/ ReadClear \/ ReadRefuse \/ ReadQuit
         \/ \E what \in Command : ReadQueue(what) \/ ReadRun(what)
         \/ RunQueued \/ RunQueuedClear \/ RunQueuedQuit

Others == \/ \E n \in Lag : LagChar(n)
          \/ Release \/ ForceClear
          \/ \E what \in Command : ForceQueue(what) \/ ForceRun(what)

LinesNext == \/ Type \/ Pulse \/ Others
             \/ Overflow \/ LinkLost \/ Reconnect \/ Unattended
             \/ Broken

LinesSpec == LinesInit /\ [][LinesNext]_lineVars

\* The loop comes round to every connection that is up.
LiveSpec == LinesSpec /\ WF_lineVars(Pulse)

-----------------------------------------------------------------------------
\* Type invariant.
LinesTypeOK == /\ link \in {"up", "closing", "down"}
               /\ typed \in 0..MaxTyped /\ read \in 0..typed
               /\ wait \in Nat
               /\ queue \in [Index -> Line \cup {NoLine}]
               /\ write_next \in -1..MAX_QUEUE
               /\ pending \in BOOLEAN
               /\ meddled \in 0..MaxMeddling
               /\ ran \subseteq 1..MaxTyped /\ gone \subseteq 1..MaxTyped

\* The index counts the lines, which are at the front with nothing behind them,
\* and the flag says whether there are any: it is by pending that a line is run
\* and by write_next that one is put by.
QueueExact == Sound =>
    /\ pending <=> write_next > 0
    /\ \A i \in Index : queue[i] # NoLine <=> i < write_next

\* A line that was read waits, was executed, or was refused or given up: exactly
\* one of these, through every shuffle, clearing and loss of the connection.
Accounted == /\ ran \cap gone = {} /\ Waiting \cap (ran \cup gone) = {}
             /\ Waiting \cup ran \cup gone = 1..read

\* No line is executed while one typed before it still waits, whether the two met
\* in the queue or one came straight from the connection.
InOrder == [][\A n \in ran' \ ran : 1..(n - 1) \subseteq ran \cup gone']_lineVars

\* The command queue is never written outside of its slots: what follows a queued
\* command "only shuffles the command queue" (gameloop.c:218).
InTheQueue == write_next \in 0..MAX_QUEUE

\* Every line typed is answered, whatever waits it runs into, as long as the link
\* stays up and others leave the player alone in the end.
LinesAnswered == \A n \in 1..MaxTyped :
    (n <= typed /\ n \notin ran \cup gone)
        ~> (n \in ran \cup gone \/ link # "up" \/ ~Sound)

\* The array, its index and its flag are the queue that LineQueue promises.
Abstract == INSTANCE LineQueue WITH waiting <- [i \in 1..write_next |-> queue[i - 1]]
ImplementsQueue == Abstract!QueueSpec
=============================================================================
