----------------------------- MODULE EventQueue -----------------------------
(***************************************************************************)
(* The event queue (code/queue.h, code/queue.c): delayed calls kept in     *)
(* buckets by the tick they fire on, drained once a pulse, and cancelled   *)
(* by the characters they name.  A callee runs game code, so while it runs *)
(* it may queue events, cancel events and extract characters; the game     *)
(* code that runs between two pulses may do the same.                      *)
(*                                                                         *)
(* An entry keeps handles to its characters for the index, and captures    *)
(* the raw pointers for the call.  A character that left is gone for good: *)
(* the next one at its address has another handle (module SlotMap).        *)
(***************************************************************************)
EXTENDS Integers, Sequences, FiniteSets, FiniteSetsExt

CONSTANTS Npc, Pc,    \* characters, by kind
          Named,      \* the sets of characters a queued call can name
          Timers,     \* the nTimer arguments callers pass
          MaxTick,    \* bound: pulses processed
          MaxPerTick  \* bound: entries queued for one tick

ASSUME EventQueueAssumption == /\ Npc \cap Pc = {}
                               /\ Named \subseteq SUBSET (Npc \cup Pc)
                               /\ Timers \subseteq Int
                               /\ MaxTick \in Nat /\ MaxPerTick \in Nat

VARIABLES currentTick,  \* the tick being or last processed
          buckets,      \* tick -> its entries, in queueing order
          charIndex,    \* character -> refs of its pending entries
          drain,        \* where ProcessQueue is
          fate          \* what became of each character

vars == <<currentTick, buckets, charIndex, drain, fate>>

Char == Npc \cup Pc
Entry == [chars : SUBSET Char, cancelled : BOOLEAN]
Ref == [tick : 1..MaxTick, index : 1..MaxPerTick]

\* idle: outside ProcessQueue.  walk: about to look at entry `index' of the
\* due bucket.  call: that entry's function is running.
Idle == [at |-> "idle", tick |-> 0, index |-> 0]
Walk(t, i) == [at |-> "walk", tick |-> t, index |-> i]

Init == /\ currentTick = 0
        /\ buckets = [t \in {} |-> <<>>]
        /\ charIndex = [c \in Char |-> {}]
        /\ drain = Idle
        /\ fate = [c \in Char |-> "here"]

-----------------------------------------------------------------------------
\* Game code is running: a callee, or the rest of the pulse.
GameCode == drain.at \in {"idle", "call"}

Here(c) == fate[c] = "here"

Bucket(t) == IF t \in DOMAIN buckets THEN buckets[t] ELSE <<>>

\* ResolveEntry finds an entry.
Resolves(ref) == ref.tick \in DOMAIN buckets /\ ref.index \in DOMAIN buckets[ref.tick]
EntryAt(ref) == buckets[ref.tick][ref.index]

HasQueuePending(c) == charIndex[c] # {}

\* Fault for the run's mutants: a timer of 0 means the tick being drained.
ExpiryThisTick(nTimer) == currentTick + nTimer

\* Timers of 0 and 1 both mean the next tick.
Expiry(nTimer) == currentTick + (IF nTimer < 1 THEN 1 ELSE nTimer)

\* Fault for the run's mutants: an entry is indexed under its first character.
RegisterFirst(chs, ref) ==
    charIndex' = [c \in Char |-> IF chs # {} /\ c = CHOOSE x \in chs : TRUE
                                 THEN charIndex[c] \cup {ref} ELSE charIndex[c]]

RegisterEntry(chs, ref) ==
    charIndex' = [c \in Char |-> IF c \in chs THEN charIndex[c] \cup {ref}
                                              ELSE charIndex[c]]

AddToQueue(nTimer, chs) ==
    /\ GameCode /\ nTimer >= 0
    /\ \A c \in chs : Here(c)
    /\ Expiry(nTimer) <= MaxTick
    /\ LET due == Expiry(nTimer)
           bucket == Append(Bucket(due), [chars |-> chs, cancelled |-> FALSE])
       IN  /\ Len(bucket) <= MaxPerTick
           /\ buckets' = [t \in DOMAIN buckets \cup {due} |->
                            IF t = due THEN bucket ELSE buckets[t]]
           /\ RegisterEntry(chs, [tick |-> due, index |-> Len(bucket)])
    /\ UNCHANGED <<currentTick, drain, fate>>

\* A negative timer queues nothing.
AddRefused(nTimer) == GameCode /\ nTimer < 0 /\ UNCHANGED vars

\* Removes the entries' refs from the index of every character they name.
DropEntryRefs(refs) ==
    charIndex' = [c \in Char |->
                    {r \in charIndex[c] : ~(r \in refs /\ c \in EntryAt(r).chars)}]

\* Fault for the run's mutants: the entries are erased, so later ones move up.
EraseEvents(c) ==
    /\ buckets' = [t \in DOMAIN buckets |-> SelectSeq(buckets[t], LAMBDA e : c \notin e.chars)]
    /\ charIndex' = [charIndex EXCEPT ![c] = {}]

\* DeleteQueuedEventsInvolving: tombstones, so that the walk is not disturbed.
CancelEvents(c) ==
    LET doomed == {r \in charIndex[c] : Resolves(r) /\ ~EntryAt(r).cancelled}
    IN  /\ buckets' = [t \in DOMAIN buckets |->
              [i \in DOMAIN buckets[t] |->
                 IF [tick |-> t, index |-> i] \in doomed
                 THEN [buckets[t][i] EXCEPT !.cancelled = TRUE]
                 ELSE buckets[t][i]]]
        /\ DropEntryRefs(doomed)

DeleteQueuedEventsInvolving(c) == /\ GameCode /\ Here(c)
                                  /\ CancelEvents(c)
                                  /\ UNCHANGED <<currentTick, drain, fate>>

-----------------------------------------------------------------------------
\* ProcessQueue, one loop iteration at a time.
\* Fault for the run's mutants: the walk stops one tick short of the current.
OnlyThisTick(ticks, now) == IF \E t \in ticks : t < now THEN Walk(Min(ticks), 1) ELSE Idle

FirstDue(ticks, now) == IF \E t \in ticks : t <= now THEN Walk(Min(ticks), 1) ELSE Idle

BeginPulse == /\ drain.at = "idle" /\ currentTick < MaxTick
              /\ currentTick' = currentTick + 1
              /\ drain' = FirstDue(DOMAIN buckets, currentTick')
              /\ UNCHANGED <<buckets, charIndex, fate>>

AtEntry == drain.at = "walk" /\ drain.index <= Len(buckets[drain.tick])
DueRef == [tick |-> drain.tick, index |-> drain.index]

SkipCancelled == /\ AtEntry /\ EntryAt(DueRef).cancelled
                 /\ drain' = [drain EXCEPT !.index = @ + 1]
                 /\ UNCHANGED <<currentTick, buckets, charIndex, fate>>

\* Unregistered before it runs.
RunEntry == /\ AtEntry /\ ~EntryAt(DueRef).cancelled
            /\ DropEntryRefs({DueRef})
            /\ drain' = [drain EXCEPT !.at = "call"]
            /\ UNCHANGED <<currentTick, buckets, fate>>

CalleeReturns == /\ drain.at = "call"
                 /\ drain' = Walk(drain.tick, drain.index + 1)
                 /\ UNCHANGED <<currentTick, buckets, charIndex, fate>>

EraseBucket == /\ drain.at = "walk" /\ drain.index > Len(buckets[drain.tick])
               /\ LET rest == DOMAIN buckets \ {drain.tick}
                  IN  /\ buckets' = [t \in rest |-> buckets[t]]
                      /\ drain' = FirstDue(rest, currentTick)
               /\ UNCHANGED <<currentTick, charIndex, fate>>

-----------------------------------------------------------------------------
\* Fault for the run's mutants: a mob's events are left queued.
ExtractNpcKeepingEvents(c) == /\ GameCode /\ Here(c)
                              /\ fate' = [fate EXCEPT ![c] = "extracted"]
                              /\ UNCHANGED <<currentTick, buckets, charIndex, drain>>

\* extract_char of a mobile cancels what it has queued, then frees it.
ExtractNpc(c) == /\ GameCode /\ Here(c)
                 /\ CancelEvents(c)
                 /\ fate' = [fate EXCEPT ![c] = "extracted"]
                 /\ UNCHANGED <<currentTick, drain>>

\* do_quit refuses while events are pending.
Quit(c) == /\ GameCode /\ Here(c) /\ ~HasQueuePending(c)
           /\ fate' = [fate EXCEPT ![c] = "quit"]
           /\ UNCHANGED <<currentTick, buckets, charIndex, drain>>

\* The other ways a player is extracted (purge, a second session of a player
\* who quits) reach extract_char without asking, and extract_char cancels for
\* mobiles only.
ExtractPc(c) == /\ GameCode /\ Here(c)
                /\ fate' = [fate EXCEPT ![c] = "extracted"]
                /\ UNCHANGED <<currentTick, buckets, charIndex, drain>>

Drain == BeginPulse \/ SkipCancelled \/ RunEntry \/ CalleeReturns \/ EraseBucket

Next == \/ Drain
        \/ \E n \in Timers, chs \in Named : AddToQueue(n, chs)
        \/ \E n \in Timers : AddRefused(n)
        \/ \E c \in Char : DeleteQueuedEventsInvolving(c)
        \/ \E c \in Npc : ExtractNpc(c)
        \/ \E c \in Pc : Quit(c) \/ ExtractPc(c)

\* The pulse loop calls ProcessQueue every pulse, and every callee returns.
Fairness == WF_vars(Drain)

Spec == Init /\ [][Next]_vars
FairSpec == Spec /\ Fairness

-----------------------------------------------------------------------------
TypeOK == /\ currentTick \in 0..MaxTick
          /\ DOMAIN buckets \subseteq 1..MaxTick
          /\ \A t \in DOMAIN buckets : /\ buckets[t] \in Seq(Entry)
                                       /\ Len(buckets[t]) \in 1..MaxPerTick
          /\ charIndex \in [Char -> SUBSET Ref]
          /\ drain.at \in {"idle", "walk", "call"}
          /\ drain.at # "idle" => drain.tick \in DOMAIN buckets /\ drain.tick = currentTick
          /\ fate \in [Char -> {"here", "quit", "extracted"}]

\* An entry that has begun to run, or was passed over, in the draining bucket.
Begun(ref) == /\ drain.at # "idle" /\ ref.tick = drain.tick
              /\ IF drain.at = "call" THEN ref.index <= drain.index
                                      ELSE ref.index < drain.index

\* The entries that can still run.
LiveRefs == {r \in Ref : Resolves(r) /\ ~EntryAt(r).cancelled /\ ~Begun(r)}

\* "A non-empty entry here means the character genuinely has work pending"
\* (queue.h:104-106): the index holds exactly the entries that can still run,
\* under every character they name, also while a callee cancels and queues.
IndexExact == TypeOK /\ \A c \in Char : charIndex[c] = {r \in LiveRefs : c \in EntryAt(r).chars}

\* No entry that can still run names a mobile that was extracted or a player
\* who quit; its captured pointers would be dangling.
PendingNamesPresent == \A r \in LiveRefs : \A c \in EntryAt(r).chars :
                          fate[c] = "here" \/ (c \in Pc /\ fate[c] = "extracted")

\* "Nothing can be appended to it" (queue.c:55-56): the walk over the due bucket
\* holds a reference to it across the calls.
DrainingBucketStable ==
    [][drain.at # "idle" /\ drain.tick \in DOMAIN buckets' =>
          Len(buckets'[drain.tick]) = Len(buckets[drain.tick])]_vars

\* The schedule the queue implements: every event runs on its tick, in the
\* order queued, unless cancelled.
Schedule == INSTANCE EventSchedule WITH
    now <- currentTick,
    pending <- {[due |-> r.tick, ord |-> r.index, chars |-> EntryAt(r).chars] : r \in LiveRefs}
ImplementsSchedule == Schedule!ScheduleSpec

\* An event queued is run or cancelled in the end.
NothingStranded == \A r \in Ref : (r \in LiveRefs) ~> (r \notin LiveRefs)

\* An event's characters are in the world when it starts to run: extract_char
\* cancels a departing character's events "before free_char clears the handle"
\* (queue.c:114-116), and quitting is refused "while events requiring your
\* presence are pending" (act_comm.c:1859).
EventsNameThePresent ==
    [][drain.at = "walk" /\ drain'.at = "call" =>
          \A c \in EntryAt(DueRef).chars : Here(c)]_vars
=============================================================================
