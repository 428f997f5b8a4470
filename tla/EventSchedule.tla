--------------------------- MODULE EventSchedule ---------------------------
(***************************************************************************)
(* What the event queue of code/queue.c promises, with no buckets, no      *)
(* tombstones and no index.  An event set for a tick runs on exactly that  *)
(* tick, after the events set for it earlier, unless it is cancelled       *)
(* first; cancelling for a character cancels every pending event naming    *)
(* it, the ones due later in the tick being processed included.            *)
(***************************************************************************)
EXTENDS Naturals

CONSTANTS Char,       \* characters events can name
          MaxTick,    \* bound: the last tick
          MaxPerTick  \* bound: events set for one tick

VARIABLES now,        \* the tick being or last processed
          pending     \* the events still to run

scheduleVars == <<now, pending>>

Event == [due : 1..MaxTick, ord : 1..MaxPerTick, chars : SUBSET Char]

ScheduleInit == now = 0 /\ pending = {}

Set(e) == /\ e.due > now
          /\ \A p \in pending : p.due = e.due => p.ord < e.ord
          /\ pending' = pending \cup {e}
          /\ UNCHANGED now

Cancel(c) == /\ pending' = {p \in pending : c \notin p.chars}
             /\ UNCHANGED now

Run(e) == /\ e \in pending /\ e.due = now
          /\ \A p \in pending : p.due = now => p.ord >= e.ord
          /\ pending' = pending \ {e}
          /\ UNCHANGED now

\* Time moves on only when everything due has run.
Tick == /\ \A p \in pending : p.due > now
        /\ now' = now + 1
        /\ UNCHANGED pending

ScheduleNext == \/ \E e \in Event : Set(e) \/ Run(e)
                \/ \E c \in Char : Cancel(c)
                \/ Tick

ScheduleSpec == ScheduleInit /\ [][ScheduleNext]_scheduleVars
=============================================================================
