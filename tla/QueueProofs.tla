---------------------------- MODULE QueueProofs ----------------------------
(***************************************************************************)
(* Proofs about the two queues a pulse serves, each of them for every      *)
(* value of its constants.                                                 *)
(*                                                                         *)
(* Commands: the array, the index and the flag stay a queue; what makes    *)
(* the order of execution inductive is that the lines in the array are     *)
(* those of one connection in the order they were typed, with another's    *)
(* commands between them.                                                  *)
(*                                                                         *)
(* EventQueue: what can still run is restated over any buckets bk and      *)
(* place dr of ProcessQueue; each action adds to it, takes from it or      *)
(* leaves it, and the index follows.  That a bucket never lies behind the  *)
(* tick being drained is what keeps a callee's new events out of that      *)
(* bucket.                                                                 *)
(***************************************************************************)
EXTENDS Commands, EventQueue, SequenceTheorems, TLAPS

\* The lines of the player in the queue stand in the order they were typed.
Ascending == \A i, j \in Index :
    (i < j /\ j < write_next /\ queue[i].n # 0 /\ queue[j].n # 0)
        => queue[i].n < queue[j].n

LinesInv == LinesTypeOK /\ QueueExact /\ Ascending /\ Accounted

-----------------------------------------------------------------------------
\* The waits that commands impose and that are counted down are numbers.
LEMMA WaitsAreNat ==
    ASSUME wait \in Nat
    PROVE  /\ Countdown \in Nat
           /\ \A n \in Lag : n \in Nat /\ Longer(0, n) \in Nat /\ Longer(wait, n) \in Nat
           /\ \A what \in Command : \A lag \in Imposes(what) :
                 lag \in Nat /\ Longer(0, lag) \in Nat
BY CommandsAssumption DEF Countdown, Longer, Imposes

\* A line that stands in the queue, and none of the others, is a line.
LEMMA QueuedAreLines ==
    ASSUME LinesTypeOK, QueueExact, Sound, NEW i \in Index
    PROVE  i < write_next => queue[i] \in Line
BY DEF LinesTypeOK, QueueExact, NoLine, Line, Command

\* What is accounted for is within what was typed.
LEMMA NumbersRead ==
    ASSUME LinesInv, NEW i \in Index, i < write_next
    PROVE  queue[i].n = 0 \/ queue[i].n \in 1..read
BY DEF LinesInv, Accounted, Waiting

-----------------------------------------------------------------------------
\* Clearing the queue keeps the four parts, whatever becomes of the lines in it
\* as long as it is accounted for.
LEMMA ClearKeeps ==
    ASSUME LinesInv, clear_cmd_queue,
           link' \in {"up", "closing", "down"}, typed' = typed, read' \in 0..typed,
           wait' \in Nat, meddled' \in 0..MaxMeddling,
           ran' \subseteq 1..MaxTyped, gone' \subseteq 1..MaxTyped,
           ran' \cap gone' = {}, ran' \cup gone' = 1..read'
    PROVE  LinesInv'
<1> USE DEF LinesInv
<1>a. queue' = [i \in Index |-> NoLine] /\ write_next' = 0 /\ pending' = FALSE
  BY Zenon DEF clear_cmd_queue, EmptyQueue
<1>b. queue' \in [Index -> Line \cup {NoLine}]
  BY <1>a
<1>1. LinesTypeOK'
  <2>1. write_next' \in -1..MAX_QUEUE
    BY <1>a, CommandsAssumption
  <2>2. pending' \in BOOLEAN
    BY <1>a, Zenon
  <2>3. typed' \in 0..MaxTyped /\ read' \in 0..typed'
    BY DEF LinesTypeOK
  <2> QED BY <1>b, <2>1, <2>2, <2>3 DEF LinesTypeOK
<1>2. QueueExact'
  BY <1>a DEF QueueExact, Index
<1>3. Ascending'
  BY <1>a DEF Ascending, Index
<1>4. Accounted'
  <2>1. Waiting' = {}
    BY <1>a DEF Waiting, Index
  <2> QED BY <2>1 DEF Accounted
<1> QED BY <1>1, <1>2, <1>3, <1>4

\* Putting a line by keeps the shape of the queue.
LEMMA QueuedShape ==
    ASSUME LinesInv, Sound, NEW l \in Line, Queued(l), l.n = 0 \/ l.n > read
    PROVE  /\ queue' \in [Index -> Line \cup {NoLine}]
           /\ write_next' \in 0..MAX_QUEUE /\ pending' \in BOOLEAN
           /\ QueueExact' /\ Ascending'
           /\ Waiting' = Waiting \cup ({l.n} \ {0})
<1> USE CommandsAssumption DEF LinesInv, Queued, Sound
<1>1. write_next \in Index /\ queue' = [queue EXCEPT ![write_next] = l]
  BY DEF LinesTypeOK, Index
<1>2. queue' \in [Index -> Line \cup {NoLine}] /\ write_next' \in 0..MAX_QUEUE /\ pending' \in BOOLEAN
  BY <1>1 DEF LinesTypeOK
<1>3. l # NoLine
  BY DEF Line, Command, NoLine
<1>4. QueueExact'
  BY <1>1, <1>3 DEF QueueExact, LinesTypeOK, Index
<1>5. Ascending'
  <2> SUFFICES ASSUME NEW i \in Index, NEW j \in Index, i < j, j < write_next',
                      queue'[i].n # 0, queue'[j].n # 0
               PROVE  queue'[i].n < queue'[j].n
    BY DEF Ascending
  <2>1. queue'[i] = queue[i] /\ i < write_next
    BY <1>1 DEF LinesTypeOK, Index
  <2>2. queue[i].n \in 1..read
    BY <2>1, NumbersRead
  <2>3. CASE j = write_next
    BY <2>1, <2>2, <2>3, <1>1 DEF LinesTypeOK, Line
  <2>4. CASE j # write_next
    BY <2>1, <2>4, <1>1 DEF Ascending, LinesTypeOK, Index
  <2> QED BY <2>3, <2>4
<1>6. Waiting' = Waiting \cup ({l.n} \ {0})
  BY <1>1, SMTT(40) DEF Waiting, LinesTypeOK, Index
<1> QED BY <1>2, <1>4, <1>5, <1>6

\* Running the first line and closing the gap keeps the shape of the queue.
LEMMA ShuffledShape ==
    ASSUME LinesInv, Sound, pending,
           queue' = Shuffled(queue, write_next), write_next' = write_next - 1,
           pending' = (pending /\ write_next - 1 # 0)
    PROVE  /\ 0 \in Index /\ queue[0] \in Line
           /\ queue' \in [Index -> Line \cup {NoLine}]
           /\ write_next' \in 0..MAX_QUEUE /\ pending' \in BOOLEAN
           /\ QueueExact' /\ Ascending'
           /\ Waiting' = Waiting \ {queue[0].n}
           /\ queue[0].n # 0 => queue[0].n \in Waiting
           /\ \A m \in Waiting : queue[0].n <= m
<1> USE CommandsAssumption DEF LinesInv, Sound
<1>1. 0 \in Index /\ 0 < write_next /\ write_next \in 1..MAX_QUEUE
  BY DEF LinesTypeOK, QueueExact, Index
<1>2. queue[0] \in Line
  BY <1>1, QueuedAreLines
<1>3. \A i \in Index : queue'[i] = IF i + 1 < write_next THEN queue[i + 1] ELSE NoLine
  BY DEF Shuffled
<1>4. \A i \in Index : i + 1 < write_next => i + 1 \in Index
  BY <1>1 DEF Index
<1>5. queue' \in [Index -> Line \cup {NoLine}]
  <2>1. queue' = [i \in Index |-> IF i + 1 < write_next THEN queue[i + 1] ELSE NoLine]
    BY DEF Shuffled
  <2> QED BY <2>1, <1>4 DEF LinesTypeOK
<1>6. write_next' \in 0..MAX_QUEUE /\ pending' \in BOOLEAN
  BY <1>1 DEF LinesTypeOK
<1>7. QueueExact'
  <2>1. pending' <=> write_next' > 0
    <3>1. write_next - 1 # 0 <=> write_next' > 0
      BY <1>1
    <3> QED BY <3>1, Zenon
  <2>2. ASSUME NEW i \in Index PROVE queue'[i] # NoLine <=> i < write_next'
    BY <1>1, <1>3, <1>4 DEF QueueExact, Index
  <2> QED BY <2>1, <2>2 DEF QueueExact
<1>8. Ascending'
  <2> SUFFICES ASSUME NEW i \in Index, NEW j \in Index, i < j, j < write_next',
                      queue'[i].n # 0, queue'[j].n # 0
               PROVE  queue'[i].n < queue'[j].n
    BY DEF Ascending
  <2>1. /\ i + 1 \in Index /\ j + 1 \in Index /\ i + 1 < j + 1 /\ j + 1 < write_next
        /\ queue'[i] = queue[i + 1] /\ queue'[j] = queue[j + 1]
    BY <1>1, <1>3, <1>4 DEF Index
  <2> QED BY <2>1 DEF Ascending
<1>9. \A j \in Index : (0 < j /\ j < write_next /\ queue[j].n # 0) => queue[0].n < queue[j].n
  <2> SUFFICES ASSUME NEW j \in Index, 0 < j, j < write_next, queue[j].n # 0
               PROVE  queue[0].n < queue[j].n
    OBVIOUS
  <2>1. queue[j].n \in 1..read /\ read \in Nat
    BY NumbersRead DEF LinesTypeOK
  <2>2. CASE queue[0].n = 0
    BY <2>1, <2>2
  <2>3. CASE queue[0].n # 0
    BY <2>3, <1>1 DEF Ascending
  <2> QED BY <2>2, <2>3
<1>10. \A i \in Index : i < write_next => queue[i].n \in Nat
  BY QueuedAreLines DEF Line
<1>11. Waiting' = Waiting \ {queue[0].n}
  <2>1. ASSUME NEW m \in Waiting' PROVE m \in Waiting \ {queue[0].n}
    <3>1. PICK i \in Index : i < write_next' /\ queue'[i].n = m /\ m # 0
      BY <2>1 DEF Waiting
    <3>2. i + 1 \in Index /\ i + 1 < write_next /\ queue[i + 1].n = m /\ 0 < i + 1
      BY <3>1, <1>1, <1>3, <1>4 DEF Index
    <3>3. queue[0].n < m
      BY <3>1, <3>2, <1>9
    <3>4. queue[0].n # m
      BY <3>2, <3>3, <1>1, <1>10
    <3> QED BY <3>1, <3>2, <3>4 DEF Waiting
  <2>2. ASSUME NEW m \in Waiting, m # queue[0].n PROVE m \in Waiting'
    <3>1. PICK j \in Index : j < write_next /\ queue[j].n = m /\ m # 0
      BY <2>2 DEF Waiting
    <3>2. j # 0
      BY <3>1, <2>2
    <3>3. /\ j - 1 \in Index /\ j - 1 < write_next'
          /\ queue'[j - 1] = queue[j]
      BY <3>1, <3>2, <1>1, <1>3 DEF Index
    <3> QED BY <3>1, <3>3 DEF Waiting
  <2> QED BY <2>1, <2>2
<1>12. queue[0].n # 0 => queue[0].n \in Waiting
  BY <1>1 DEF Waiting
<1>13. ASSUME NEW m \in Waiting PROVE queue[0].n <= m
  <2>1. PICK j \in Index : j < write_next /\ queue[j].n = m /\ m # 0
    BY <1>13 DEF Waiting
  <2>2. CASE j = 0
    BY <2>1, <2>2, <1>10, <1>1
  <2>3. CASE j # 0
    BY <2>1, <2>3, <1>9, <1>10, <1>1 DEF Index
  <2> QED BY <2>2, <2>3
<1> QED BY <1>1, <1>2, <1>5, <1>6, <1>7, <1>8, <1>11, <1>12, <1>13

-----------------------------------------------------------------------------
\* A step that leaves the queue alone, with the other variables in their type.
LEMMA KeptQueue ==
    ASSUME LinesInv, UNCHANGED queueVars,
           link' \in {"up", "closing", "down"},
           typed' \in 0..MaxTyped, read' \in 0..typed',
           wait' \in Nat, meddled' \in 0..MaxMeddling,
           ran' \subseteq 1..MaxTyped, gone' \subseteq 1..MaxTyped,
           ran' \cap gone' = {}, Waiting \cap (ran' \cup gone') = {},
           Waiting \cup ran' \cup gone' = 1..read'
    PROVE  LinesInv'
<1> USE DEF LinesInv, queueVars
<1>1. LinesTypeOK'
  BY DEF LinesTypeOK
<1>2. QueueExact'
  BY DEF QueueExact, Sound
<1>3. Ascending'
  BY DEF Ascending
<1>4. Waiting' = Waiting
  BY DEF Waiting
<1> QED BY <1>1, <1>2, <1>3, <1>4 DEF Accounted

\* The line that a turn reads is one not accounted for so far.
LEMMA NextLine ==
    ASSUME LinesInv, read < typed
    PROVE  /\ read + 1 \in 1..MaxTyped /\ read + 1 \in 0..typed
           /\ read + 1 \notin ran \cup gone \cup Waiting
           /\ 1..(read + 1) = (1..read) \cup {read + 1}
           /\ read + 1 > read
<1>1. typed \in 0..MaxTyped /\ read \in 0..typed /\ MaxTyped \in Nat
  BY CommandsAssumption DEF LinesInv, LinesTypeOK
<1>2. read + 1 \notin 1..read
  BY <1>1
<1>3. 1..(read + 1) = (1..read) \cup {read + 1}
  BY <1>1
<1> QED BY <1>1, <1>2, <1>3 DEF LinesInv, Accounted

\* Everything read is within what can be typed.
LEMMA ReadTyped ==
    ASSUME LinesInv
    PROVE  /\ 1..read \subseteq 1..MaxTyped /\ 1..typed \subseteq 1..MaxTyped
           /\ ran \cup gone \cup Waiting = 1..read
           /\ typed \in 0..typed
           /\ 1..read \subseteq 1..typed
<1>1. typed \in 0..MaxTyped /\ read \in 0..typed /\ MaxTyped \in Nat
  BY CommandsAssumption DEF LinesInv, LinesTypeOK
<1> QED BY <1>1 DEF LinesInv, Accounted

\* Leaving the game accounts for every line of the connection.
LEMMA LeftKeeps ==
    ASSUME LinesInv, NEW executed, executed \subseteq 1..typed, Left(executed)
    PROVE  LinesInv'
<1>1. ran' \subseteq 1..typed /\ gone' = (1..typed) \ ran'
  BY ReadTyped DEF Left
<1>2. ran' \subseteq 1..MaxTyped /\ gone' \subseteq 1..MaxTyped
  BY <1>1, ReadTyped
<1>3. ran' \cap gone' = {} /\ ran' \cup gone' = 1..typed
  BY <1>1
<1>4. /\ clear_cmd_queue /\ link' = "down" /\ wait' = 0 /\ read' = typed
      /\ typed' = typed /\ meddled' = meddled
  BY DEF Left
<1>5. meddled' \in 0..MaxMeddling /\ read' \in 0..typed /\ wait' \in Nat
  BY <1>4, ReadTyped DEF LinesInv, LinesTypeOK
<1> QED BY <1>2, <1>3, <1>4, <1>5, ClearKeeps

-----------------------------------------------------------------------------
\* The turns of the connection preserve the invariant.
LEMMA PulsePreserves ==
    ASSUME LinesInv, Pulse
    PROVE  LinesInv'
<1> USE DEF LinesInv
<1>t. /\ link \in {"up", "closing", "down"} /\ typed \in 0..MaxTyped /\ read \in 0..typed
      /\ wait \in Nat /\ meddled \in 0..MaxMeddling
      /\ ran \subseteq 1..MaxTyped /\ gone \subseteq 1..MaxTyped
  BY DEF LinesTypeOK
<1>a. /\ ran \cap gone = {} /\ Waiting \cap (ran \cup gone) = {}
      /\ Waiting \cup ran \cup gone = 1..read
  BY DEF Accounted
<1>c. Countdown \in Nat
  BY <1>t, WaitsAreNat
<1>1. CASE Lull
  <2>1. UNCHANGED <<link, typed, read, queueVars, meddled, ran, gone>> /\ wait' = Countdown
    BY <1>1 DEF Lull
  <2> QED BY <2>1, <1>t, <1>a, <1>c, KeptQueue
<1>2. CASE ReadBlank
  <2>1. /\ read < typed /\ wait' = Countdown /\ read' = read + 1 /\ gone' = gone \cup {read + 1}
        /\ UNCHANGED <<link, typed, queueVars, meddled, ran>>
    BY <1>2 DEF ReadBlank, Reads
  <2>2. /\ gone' \subseteq 1..MaxTyped /\ ran' \cap gone' = {}
        /\ Waiting \cap (ran' \cup gone') = {} /\ Waiting \cup ran' \cup gone' = 1..read'
        /\ read' \in 0..typed'
    BY <2>1, <1>t, <1>a, NextLine
  <2> QED BY <2>1, <2>2, <1>t, <1>c, KeptQueue
<1>3. CASE ReadClear
  <2>1. /\ read < typed /\ wait' = Countdown /\ read' = read + 1 /\ clear_cmd_queue
        /\ ran' = ran \cup {read + 1} /\ gone' = gone \cup Waiting
        /\ UNCHANGED <<link, typed, meddled>>
    BY <1>3 DEF ReadClear, Reads
  <2>2. ran' \subseteq 1..MaxTyped /\ gone' \subseteq 1..MaxTyped /\ read' \in 0..typed
    BY <2>1, <1>t, NextLine, ReadTyped
  <2>3. ran' \cap gone' = {} /\ ran' \cup gone' = 1..read'
    BY <2>1, <1>a, NextLine
  <2> QED BY <2>1, <2>2, <2>3, <1>t, <1>c, ClearKeeps
<1>4. CASE ReadRefuse
  <2>1. /\ read < typed /\ wait' = Countdown /\ read' = read + 1 /\ gone' = gone \cup {read + 1}
        /\ UNCHANGED <<link, typed, queueVars, meddled, ran>>
    BY <1>4 DEF ReadRefuse, Reads
  <2>2. /\ gone' \subseteq 1..MaxTyped /\ ran' \cap gone' = {}
        /\ Waiting \cap (ran' \cup gone') = {} /\ Waiting \cup ran' \cup gone' = 1..read'
        /\ read' \in 0..typed'
    BY <2>1, <1>t, <1>a, NextLine
  <2> QED BY <2>1, <2>2, <1>t, <1>c, KeptQueue
<1>5. CASE ReadQuit
  <2>1. read < typed /\ Left({read + 1})
    BY <1>5 DEF ReadQuit, Reads
  <2>2. {read + 1} \subseteq 1..typed
    BY <2>1, <1>t
  <2> QED BY <2>1, <2>2, LeftKeeps
<1>6. ASSUME NEW what \in Command, ReadQueue(what) PROVE LinesInv'
  <2> DEFINE l == [n |-> read + 1, what |-> what]
  <2>1. /\ Sound /\ read < typed /\ wait' = Countdown /\ read' = read + 1 /\ Queued(l)
        /\ UNCHANGED <<link, typed, meddled, ran, gone>>
    BY <1>6 DEF ReadQueue, Reads, Served
  <2>2. l \in Line /\ l.n > read /\ l.n = read + 1 /\ {l.n} \ {0} = {read + 1}
    BY <2>1, <1>t, NextLine DEF Line
  <2> HIDE DEF l
  <2>3. /\ queue' \in [Index -> Line \cup {NoLine}]
        /\ write_next' \in 0..MAX_QUEUE /\ pending' \in BOOLEAN
        /\ QueueExact' /\ Ascending' /\ Waiting' = Waiting \cup ({l.n} \ {0})
    BY <2>1, <2>2, QueuedShape
  <2>4. Accounted'
    BY <2>1, <2>2, <2>3, <1>a, NextLine DEF Accounted
  <2>5. LinesTypeOK'
    <3>1. write_next' \in -1..MAX_QUEUE
      BY <2>3, CommandsAssumption
    <3>2. read' \in 0..typed' /\ typed' \in 0..MaxTyped
      BY <2>1, <1>t, NextLine
    <3> QED BY <3>1, <3>2, <2>1, <2>3, <1>t, <1>c DEF LinesTypeOK
  <2> QED BY <2>3, <2>4, <2>5
<1>7. ASSUME NEW what \in Command, ReadRun(what) PROVE LinesInv'
  <2>1. /\ read < typed /\ read' = read + 1 /\ ran' = ran \cup {read + 1}
        /\ \E lag \in Imposes(what) : wait' = Longer(0, lag)
        /\ UNCHANGED <<link, typed, queueVars, meddled, gone>>
    BY <1>7 DEF ReadRun, Reads
  <2>2. wait' \in Nat
    BY <2>1, <1>t, WaitsAreNat
  <2>3. /\ ran' \subseteq 1..MaxTyped /\ ran' \cap gone' = {}
        /\ Waiting \cap (ran' \cup gone') = {} /\ Waiting \cup ran' \cup gone' = 1..read'
        /\ read' \in 0..typed'
    BY <2>1, <1>t, <1>a, NextLine
  <2> QED BY <2>1, <2>2, <2>3, <1>t, KeptQueue
<1>8. CASE RunQueued
  <2>1. /\ Sound /\ pending /\ ran' = Ran(queue[0])
        /\ \E lag \in Imposes(queue[0].what) : wait' = Longer(0, lag)
        /\ queue' = Shuffled(queue, write_next) /\ write_next' = write_next - 1
        /\ pending' = (pending /\ write_next - 1 # 0)
        /\ UNCHANGED <<link, typed, read, meddled, gone>>
    BY <1>8 DEF RunQueued, TakesTurn, Served
  <2>2. /\ 0 \in Index /\ queue[0] \in Line
        /\ queue' \in [Index -> Line \cup {NoLine}]
        /\ write_next' \in 0..MAX_QUEUE /\ pending' \in BOOLEAN
        /\ QueueExact' /\ Ascending'
        /\ Waiting' = Waiting \ {queue[0].n}
        /\ queue[0].n # 0 => queue[0].n \in Waiting
    BY <2>1, ShuffledShape
  <2>3. wait' \in Nat
    <3>1. queue[0].what \in Command
      BY <2>2 DEF Line
    <3> QED BY <3>1, <2>1, <1>t, WaitsAreNat
  <2>4. ran' = ran \cup ({queue[0].n} \ {0}) /\ 0 \notin Waiting
    BY <2>1 DEF Ran, Waiting
  <2>5. ran' \subseteq 1..MaxTyped
    BY <2>2, <2>4, <1>t, ReadTyped
  <2>6. Accounted'
    BY <2>1, <2>2, <2>4, <1>a DEF Accounted
  <2>7. LinesTypeOK'
    <3>1. write_next' \in -1..MAX_QUEUE
      BY <2>2, CommandsAssumption
    <3> QED BY <3>1, <2>1, <2>2, <2>3, <2>5, <1>t DEF LinesTypeOK
  <2> QED BY <2>2, <2>6, <2>7
<1>9. CASE RunQueuedClear
  <2>1. /\ Sound /\ pending /\ ran' = Ran(queue[0])
        /\ \E lag \in Lag : wait' = Longer(0, lag)
        /\ gone' = gone \cup (Waiting \ ran')
        /\ queue' = Shuffled(EmptyQueue, 0) /\ write_next' = 0 - 1 /\ pending' = FALSE
        /\ UNCHANGED <<link, typed, read, meddled>>
    BY <1>9 DEF RunQueuedClear, TakesTurn, Served
  <2>2. \A i \in Index : i \in Nat
    BY CommandsAssumption DEF Index
  <2>3. queue' = [i \in Index |-> NoLine]
    BY <2>1, <2>2 DEF Shuffled
  <2>4. ~Sound' /\ write_next' = -1
    BY <2>1 DEF Sound
  <2>5. QueueExact' /\ Ascending' /\ Waiting' = {}
    BY <2>2, <2>4 DEF QueueExact, Ascending, Waiting
  <2>6. ran' \subseteq ran \cup Waiting /\ ran \subseteq ran'
    <3>1. queue[0].n # 0 => queue[0].n \in Waiting
      <4>1. 0 \in Index /\ 0 < write_next
        BY <2>1, CommandsAssumption DEF QueueExact, Index
      <4> QED BY <4>1 DEF Waiting
    <3> QED BY <2>1, <3>1 DEF Ran
  <2>7. ran' \subseteq 1..MaxTyped /\ gone' \subseteq 1..MaxTyped
    BY <2>1, <2>6, <1>t, ReadTyped
  <2>8. Accounted'
    BY <2>1, <2>5, <2>6, <1>a DEF Accounted
  <2>9. LinesTypeOK'
    <3>1. wait' \in Nat
      BY <2>1, <1>t, WaitsAreNat
    <3>2. write_next' \in -1..MAX_QUEUE
      BY <2>4, CommandsAssumption
    <3>3. queue' \in [Index -> Line \cup {NoLine}]
      BY <2>3
    <3>4. pending' \in BOOLEAN
      BY <2>1, Zenon
    <3> QED BY <3>1, <3>2, <3>3, <3>4, <2>1, <2>7, <1>t DEF LinesTypeOK
  <2> QED BY <2>5, <2>8, <2>9
<1>10. CASE RunQueuedQuit
  <2>1. Sound /\ pending /\ Left({queue[0].n} \ {0})
    BY <1>10 DEF RunQueuedQuit, TakesTurn, Served
  <2>2. 0 \in Index /\ 0 < write_next
    BY <2>1, CommandsAssumption DEF QueueExact, Index
  <2>3. {queue[0].n} \ {0} \subseteq 1..typed
    BY <2>2, NumbersRead, ReadTyped
  <2> HIDE DEF LinesInv
  <2> QED BY <2>1, <2>3, LeftKeeps
<1> QED BY <1>1, <1>2, <1>3, <1>4, <1>5, <1>6, <1>7, <1>8, <1>9, <1>10 DEF Pulse

\* What others do, the player's typing and the fate of the link preserve it.
LEMMA OthersPreserve ==
    ASSUME LinesInv, Type \/ Others \/ Overflow \/ LinkLost \/ Reconnect \/ Unattended \/ Broken
    PROVE  LinesInv'
<1> USE DEF LinesInv
<1>t. /\ link \in {"up", "closing", "down"} /\ typed \in 0..MaxTyped /\ read \in 0..typed
      /\ wait \in Nat /\ meddled \in 0..MaxMeddling
      /\ ran \subseteq 1..MaxTyped /\ gone \subseteq 1..MaxTyped
      /\ MaxTyped \in Nat /\ MaxMeddling \in Nat
  BY CommandsAssumption DEF LinesTypeOK
<1>a. /\ ran \cap gone = {} /\ Waiting \cap (ran \cup gone) = {}
      /\ Waiting \cup ran \cup gone = 1..read
  BY DEF Accounted
<1>m. ASSUME Meddling PROVE meddled' \in 0..MaxMeddling /\ Sound
  BY <1>m, <1>t DEF Meddling
<1>1. CASE Type
  <2>1. typed' \in 0..MaxTyped /\ read' \in 0..typed'
        /\ UNCHANGED <<link, read, wait, queueVars, meddled, ran, gone>>
    BY <1>1, <1>t DEF Type
  <2> QED BY <2>1, <1>t, <1>a, KeptQueue
<1>2. ASSUME NEW n \in Lag, LagChar(n) PROVE LinesInv'
  <2>1. wait' \in Nat /\ Meddling /\ UNCHANGED <<link, typed, read, queueVars, ran, gone>>
    BY <1>2, <1>t, WaitsAreNat DEF LagChar
  <2> QED BY <2>1, <1>t, <1>a, <1>m, KeptQueue
<1>3. CASE Release
  <2>1. wait' \in Nat /\ Meddling /\ UNCHANGED <<link, typed, read, queueVars, ran, gone>>
    BY <1>3 DEF Release
  <2> QED BY <2>1, <1>t, <1>a, <1>m, KeptQueue
<1>4. ASSUME NEW what \in Command, ForceQueue(what) PROVE LinesInv'
  <2> DEFINE l == [n |-> 0, what |-> what]
  <2>1. Meddling /\ Queued(l) /\ UNCHANGED <<link, typed, read, wait, ran, gone>>
    BY <1>4 DEF ForceQueue
  <2>2. l \in Line /\ l.n = 0 /\ {l.n} \ {0} = {}
    BY <1>t DEF Line
  <2> HIDE DEF l
  <2>3. /\ queue' \in [Index -> Line \cup {NoLine}]
        /\ write_next' \in 0..MAX_QUEUE /\ pending' \in BOOLEAN
        /\ QueueExact' /\ Ascending' /\ Waiting' = Waiting \cup ({l.n} \ {0})
    BY <2>1, <2>2, <1>m, QueuedShape
  <2>4. Accounted'
    BY <2>1, <2>2, <2>3, <1>a DEF Accounted
  <2>5. LinesTypeOK'
    <3>1. write_next' \in -1..MAX_QUEUE
      BY <2>3, CommandsAssumption
    <3> QED BY <3>1, <2>1, <2>3, <1>t, <1>m DEF LinesTypeOK
  <2> QED BY <2>3, <2>4, <2>5
<1>5. ASSUME NEW what \in Command, ForceRun(what) PROVE LinesInv'
  <2>1. Meddling /\ UNCHANGED <<link, typed, read, queueVars, ran, gone>>
        /\ \E lag \in Imposes(what) : wait' = lag
    BY <1>5 DEF ForceRun
  <2>2. wait' \in Nat
    BY <2>1, <1>t, WaitsAreNat
  <2> QED BY <2>1, <2>2, <1>t, <1>a, <1>m, KeptQueue
<1>6. CASE ForceClear
  <2>1. /\ Meddling /\ clear_cmd_queue /\ gone' = gone \cup Waiting
        /\ UNCHANGED <<link, typed, read, ran>>
        /\ wait' \in {wait} \cup (IF wait <= 0 THEN Lag ELSE {})
    BY <1>6 DEF ForceClear
  <2>2. wait' \in Nat
    BY <2>1, <1>t, CommandsAssumption
  <2>3. gone' \subseteq 1..MaxTyped /\ ran' \cap gone' = {} /\ ran' \cup gone' = 1..read'
    BY <2>1, <1>t, <1>a, ReadTyped
  <2> QED BY <2>1, <2>2, <2>3, <1>t, <1>m, ClearKeeps
<1>7. CASE Overflow
  <2>1. link' = "closing" /\ UNCHANGED <<typed, read, wait, queueVars, meddled, ran, gone>>
    BY <1>7 DEF Overflow
  <2> QED BY <2>1, <1>t, <1>a, KeptQueue
<1>8. CASE LinkLost
  <2>1. /\ link' = "down" /\ read' = typed /\ gone' = gone \cup ((read + 1)..typed)
        /\ UNCHANGED <<typed, wait, queueVars, meddled, ran>>
    BY <1>8 DEF LinkLost
  <2>2. /\ 1..typed = (1..read) \cup ((read + 1)..typed)
        /\ (1..read) \cap ((read + 1)..typed) = {}
    BY <1>t
  <2>3. /\ gone' \subseteq 1..MaxTyped /\ ran' \cap gone' = {} /\ read' \in 0..typed'
        /\ Waiting \cap (ran' \cup gone') = {} /\ Waiting \cup ran' \cup gone' = 1..read'
    BY <2>1, <2>2, <1>t, <1>a
  <2> QED BY <2>1, <2>3, <1>t, KeptQueue
<1>9. CASE Reconnect
  <2>1. link' = "up" /\ UNCHANGED <<typed, read, wait, queueVars, meddled, ran, gone>>
    BY <1>9 DEF Reconnect
  <2> QED BY <2>1, <1>t, <1>a, KeptQueue
<1>10. CASE Unattended
  <2>1. /\ wait' = Longer(0, wait - PULSE_VIOLENCE)
        /\ UNCHANGED <<link, typed, read, queueVars, meddled, ran, gone>>
    BY <1>10 DEF Unattended
  <2>2. wait' \in Nat
    BY <2>1, <1>t, CommandsAssumption DEF Longer
  <2> QED BY <2>1, <2>2, <1>t, <1>a, KeptQueue
<1>11. CASE Broken
  <2>1. UNCHANGED <<link, typed, read, wait, queueVars, meddled, ran, gone>>
    BY <1>11 DEF Broken, lineVars, queueVars
  <2> QED BY <2>1, <1>t, <1>a, KeptQueue
<1> QED BY <1>1, <1>2, <1>3, <1>4, <1>5, <1>6, <1>7, <1>8, <1>9, <1>10, <1>11 DEF Others

LEMMA LinesInitially == LinesInit => LinesInv
<1> SUFFICES ASSUME LinesInit PROVE LinesInv
  OBVIOUS
<1> USE CommandsAssumption
<1>1. /\ link = "up" /\ typed = 0 /\ read = 0 /\ wait = 0 /\ meddled = 0
      /\ write_next = 0 /\ ran = {} /\ gone = {}
      /\ queue = [i \in Index |-> NoLine]
  BY DEF LinesInit, EmptyQueue
<1>2. pending = FALSE
  BY Zenon DEF LinesInit
<1>3. pending \in BOOLEAN
  BY <1>2, Zenon
<1>4. LinesTypeOK
  BY <1>1, <1>3 DEF LinesTypeOK
<1>5. QueueExact /\ Ascending
  BY <1>1, <1>2 DEF QueueExact, Ascending, Index
<1>6. Accounted
  <2>1. Waiting = {}
    BY <1>1 DEF Waiting, Index
  <2>2. 1..0 = {}
    OBVIOUS
  <2> QED BY <1>1, <2>1, <2>2 DEF Accounted
<1> QED BY <1>4, <1>5, <1>6 DEF LinesInv

LEMMA LinesPreserved == LinesInv /\ [LinesNext]_lineVars => LinesInv'
<1> SUFFICES ASSUME LinesInv, [LinesNext]_lineVars PROVE LinesInv'
  OBVIOUS
<1>1. CASE Pulse
  BY <1>1, PulsePreserves
<1>2. CASE Type \/ Others \/ Overflow \/ LinkLost \/ Reconnect \/ Unattended \/ Broken
  BY <1>2, OthersPreserve
<1>3. CASE UNCHANGED lineVars
  BY <1>3 DEF lineVars, LinesInv, LinesTypeOK, QueueExact, Ascending, Accounted, Waiting, Sound
<1> QED BY <1>1, <1>2, <1>3 DEF LinesNext

-----------------------------------------------------------------------------
\* Every reachable state of the command queue satisfies the invariant: the array
\* holds the lines not yet executed, in the order they were typed.
THEOREM LinesInductive == LinesSpec => []LinesInv
BY LinesInitially, LinesPreserved, PTL DEF LinesSpec

\* The array, its index, its flag and the two histories have their types.
THEOREM TypeCorrect == LinesSpec => []LinesTypeOK
<1>1. LinesInv => LinesTypeOK
  BY DEF LinesInv
<1> QED BY <1>1, LinesInductive, PTL

\* The index counts the lines, the lines are in front, the flag tells of them.
THEOREM QueueIsExact == LinesSpec => []QueueExact
<1>1. LinesInv => QueueExact
  BY DEF LinesInv
<1> QED BY <1>1, LinesInductive, PTL

\* Every line read is in exactly one of three places.
THEOREM LinesAccounted == LinesSpec => []Accounted
<1>1. LinesInv => Accounted
  BY DEF LinesInv
<1> QED BY <1>1, LinesInductive, PTL

-----------------------------------------------------------------------------
\* With no line in the queue, everything that was read is done with.
LEMMA EmptyMeansDone ==
    ASSUME LinesInv, Sound, ~pending
    PROVE  1..read \subseteq ran \cup gone
<1>1. write_next = 0
  BY DEF LinesInv, LinesTypeOK, QueueExact, Sound
<1>2. Waiting = {}
  BY <1>1, CommandsAssumption DEF Waiting, Index
<1> QED BY <1>2 DEF LinesInv, Accounted

\* No line is executed before one that was typed ahead of it is accounted for.
THEOREM RunsInOrder == LinesSpec => InOrder
<1> DEFINE Orderly == \A n \in ran' \ ran : 1..(n - 1) \subseteq ran \cup gone'
<1>1. ASSUME LinesInv, [LinesNext]_lineVars PROVE [Orderly]_lineVars
  <2>t. read \in Nat /\ typed \in Nat /\ read <= typed /\ MaxTyped \in Nat
    BY <1>1, CommandsAssumption DEF LinesInv, LinesTypeOK
  <2>a. 1..read = ran \cup gone \cup Waiting
    BY <1>1, ReadTyped
  <2>1. CASE ReadClear
    <3>1. ran' = ran \cup {read + 1} /\ gone' = gone \cup Waiting
      BY <2>1 DEF ReadClear
    <3>2. ASSUME NEW n \in ran' \ ran PROVE 1..(n - 1) \subseteq ran \cup gone'
      <4>1. n = read + 1 /\ n - 1 = read
        BY <3>1, <3>2, <2>t
      <4> QED BY <4>1, <3>1, <2>a
    <3> QED BY <3>2
  <2>2. ASSUME NEW what \in Command, ReadRun(what) PROVE Orderly
    <3>1. /\ Sound /\ ~pending /\ ran' = ran \cup {read + 1} /\ gone' = gone
      BY <2>2 DEF ReadRun, Reads, Served
    <3>2. ASSUME NEW n \in ran' \ ran PROVE 1..(n - 1) \subseteq ran \cup gone'
      <4>1. n = read + 1 /\ n - 1 = read
        BY <3>1, <3>2, <2>t
      <4> QED BY <4>1, <3>1, <1>1, EmptyMeansDone
    <3> QED BY <3>2
  <2>3. ASSUME NEW k \in 1..typed, Left({k}) PROVE Orderly
    <3>1. ran' = ran \cup {k} /\ gone' = (1..typed) \ ran'
      BY <2>3 DEF Left
    <3>2. ASSUME NEW n \in ran' \ ran PROVE 1..(n - 1) \subseteq ran \cup gone'
      <4>1. n = k /\ 1..(n - 1) \subseteq 1..typed /\ n \notin 1..(n - 1)
        BY <3>1, <3>2, <2>t
      <4> QED BY <4>1, <3>1
    <3> QED BY <3>2
  <2>4. ASSUME TakesTurn, ran' = Ran(queue[0])
        PROVE  /\ Sound /\ pending /\ 0 \in Index /\ 0 < write_next
               /\ \A n \in ran' \ ran : n = queue[0].n /\ n \in 1..read
    <3>1. 0 \in Index /\ 0 < write_next /\ Sound /\ pending
      BY <1>1, <2>4, CommandsAssumption DEF LinesInv, QueueExact, LinesTypeOK, Index, TakesTurn, Served
    <3>2. queue[0].n = 0 \/ queue[0].n \in 1..read
      BY <3>1, <1>1, NumbersRead
    <3>3. ran' = ran \cup ({queue[0].n} \ {0})
      BY <2>4 DEF Ran
    <3> QED BY <3>1, <3>2, <3>3
  <2>5. CASE RunQueued
    <3>1. /\ TakesTurn /\ ran' = Ran(queue[0]) /\ gone' = gone
          /\ queue' = Shuffled(queue, write_next) /\ write_next' = write_next - 1
          /\ pending' = (pending /\ write_next - 1 # 0)
      BY <2>5 DEF RunQueued
    <3>2. \A m \in Waiting : queue[0].n <= m
      BY <3>1, <2>4, <1>1, ShuffledShape
    <3>3. ASSUME NEW n \in ran' \ ran, NEW m \in 1..(n - 1) PROVE m \in ran \cup gone'
      <4>1. n = queue[0].n /\ n \in 1..read
        BY <3>1, <2>4, <3>3
      <4>2. m \in 1..read /\ ~(n <= m)
        BY <4>1, <2>t
      <4>3. m \notin Waiting
        BY <4>1, <4>2, <3>2
      <4> QED BY <4>2, <4>3, <3>1, <2>a
    <3> QED BY <3>3
  <2>6. CASE RunQueuedClear
    <3>1. TakesTurn /\ ran' = Ran(queue[0]) /\ gone' = gone \cup (Waiting \ ran')
      BY <2>6 DEF RunQueuedClear
    <3>2. ASSUME NEW n \in ran' \ ran, NEW m \in 1..(n - 1) PROVE m \in ran \cup gone'
      <4>1. n = queue[0].n /\ n \in 1..read
        BY <3>1, <2>4, <3>2
      <4>2. m \in 1..read /\ m # n
        BY <4>1, <2>t
      <4>3. m \in ran' => m \in ran
        BY <4>1, <4>2, <3>1, <2>4
      <4> QED BY <4>2, <4>3, <3>1, <2>a
    <3> QED BY <3>2
  <2>7. CASE ReadQuit
    <3>1. read + 1 \in 1..typed /\ Left({read + 1})
      BY <2>7, <2>t DEF ReadQuit, Reads
    <3> QED BY <3>1, <2>3
  <2>8. CASE RunQueuedQuit
    <3>1. TakesTurn /\ Left({queue[0].n} \ {0})
      BY <2>8 DEF RunQueuedQuit
    <3>2. 0 \in Index /\ 0 < write_next
      BY <3>1, <1>1, CommandsAssumption DEF LinesInv, QueueExact, LinesTypeOK, Index, TakesTurn, Served
    <3>3. queue[0].n = 0 \/ queue[0].n \in 1..read
      BY <3>2, <1>1, NumbersRead
    <3>4. CASE queue[0].n = 0
      <4>1. {queue[0].n} \ {0} = {} /\ ran' = ran
        BY <3>1, <3>4 DEF Left
      <4> QED BY <4>1
    <3>5. CASE queue[0].n \in 1..read
      <4>1. {queue[0].n} \ {0} = {queue[0].n} /\ queue[0].n \in 1..typed
        BY <3>5, <2>t
      <4> QED BY <4>1, <3>1, <2>3
    <3> QED BY <3>3, <3>4, <3>5
  <2>9. CASE Lull \/ ReadBlank \/ ReadRefuse \/ \E what \in Command : ReadQueue(what)
    <3>1. ran' = ran
      BY <2>9 DEF Lull, ReadBlank, ReadRefuse, ReadQueue
    <3> QED BY <3>1
  <2>10. CASE Type \/ Others \/ Overflow \/ LinkLost \/ Reconnect \/ Unattended
    <3>1. ran' = ran
      BY <2>10 DEF Type, Others, LagChar, Release, ForceClear, ForceQueue, ForceRun,
                   Overflow, LinkLost, Reconnect, Unattended
    <3> QED BY <3>1
  <2>11. CASE Broken
    BY <2>11 DEF Broken
  <2> HIDE DEF Orderly
  <2> QED BY <1>1, <2>1, <2>2, <2>5, <2>6, <2>7, <2>8, <2>9, <2>10, <2>11 DEF LinesNext, Pulse
<1> QED BY <1>1, LinesInductive, PTL DEF LinesSpec, InOrder

-----------------------------------------------------------------------------
\* One element more at the end, and one less in front.
LEMMA AppendIs ==
    ASSUME NEW S, NEW s \in Seq(S), NEW l \in S, NEW t,
           t = [i \in 1..(Len(s) + 1) |-> IF i = Len(s) + 1 THEN l ELSE s[i]]
    PROVE  t = Append(s, l)
<1>1. Append(s, l) \in Seq(S) /\ Len(Append(s, l)) = Len(s) + 1 /\ Len(s) \in Nat
  OBVIOUS
<1>2. t \in Seq(S) /\ Len(t) = Len(s) + 1
  <2>1. \A i \in 1..(Len(s) + 1) : t[i] \in S
    BY <1>1
  <2> QED BY <1>1, <2>1
<1>3. \A i \in 1..(Len(s) + 1) : Append(s, l)[i] = IF i = Len(s) + 1 THEN l ELSE s[i]
  BY <1>1
<1> QED BY <1>1, <1>2, <1>3, SeqEqual

LEMMA TailIs ==
    ASSUME NEW S, NEW s \in Seq(S), s # <<>>, NEW t,
           t = [i \in 1..(Len(s) - 1) |-> s[i + 1]]
    PROVE  t = Tail(s)
<1>1. Tail(s) \in Seq(S) /\ Len(Tail(s)) = Len(s) - 1 /\ Len(s) \in Nat
  OBVIOUS
<1>2. t \in Seq(S) /\ Len(t) = Len(s) - 1
  <2>1. Len(s) - 1 \in Nat /\ \A i \in 1..(Len(s) - 1) : t[i] \in S
    BY <1>1
  <2> QED BY <2>1
<1>3. \A i \in 1..(Len(s) - 1) : Tail(s)[i] = s[i + 1]
  BY <1>1
<1> QED BY <1>1, <1>2, <1>3, SeqEqual

\* What a step makes of the queue: nothing, one line more, one line less, or none.
LEMMA QueueSteps ==
    ASSUME LinesInv, [LinesNext]_lineVars
    PROVE  \/ queue' = queue /\ write_next' = write_next
           \/ Sound /\ \E l \in Line : Queued(l)
           \/ /\ Sound /\ pending
              /\ queue' = Shuffled(queue, write_next) /\ write_next' = write_next - 1
           \/ write_next' \in {0, -1}
<1>1. CASE Lull \/ ReadBlank \/ ReadRefuse \/ \E what \in Command : ReadRun(what)
  BY <1>1 DEF Lull, ReadBlank, ReadRefuse, ReadRun, queueVars
<1>2. CASE Type \/ Overflow \/ LinkLost \/ Reconnect \/ Unattended \/ Broken \/ UNCHANGED lineVars
  BY <1>2 DEF Type, Overflow, LinkLost, Reconnect, Unattended, Broken, lineVars, queueVars
<1>3. CASE Release \/ (\E n \in Lag : LagChar(n)) \/ \E what \in Command : ForceRun(what)
  BY <1>3 DEF Release, LagChar, ForceRun, queueVars
<1>4. CASE ReadClear \/ ReadQuit \/ RunQueuedQuit \/ ForceClear
  BY <1>4 DEF ReadClear, ReadQuit, RunQueuedQuit, ForceClear, Left, clear_cmd_queue
<1>5. CASE RunQueuedClear
  BY <1>5 DEF RunQueuedClear
<1>6. CASE RunQueued
  BY <1>6 DEF RunQueued, TakesTurn, Served
<1>7. ASSUME NEW what \in Command, ReadQueue(what)
      PROVE  Sound /\ \E l \in Line : Queued(l)
  <2>1. Sound /\ read < typed /\ Queued([n |-> read + 1, what |-> what])
    BY <1>7 DEF ReadQueue, Reads, Served
  <2>2. [n |-> read + 1, what |-> what] \in Line
    BY <1>1, <2>1, NextLine, CommandsAssumption DEF Line
  <2> QED BY <2>1, <2>2
<1>8. ASSUME NEW what \in Command, ForceQueue(what)
      PROVE  Sound /\ \E l \in Line : Queued(l)
  <2>1. Sound /\ Queued([n |-> 0, what |-> what])
    BY <1>8 DEF ForceQueue, Meddling
  <2>2. [n |-> 0, what |-> what] \in Line
    BY CommandsAssumption DEF Line
  <2> QED BY <2>1, <2>2
<1> QED BY <1>1, <1>2, <1>3, <1>4, <1>5, <1>6, <1>7, <1>8 DEF LinesNext, Pulse, Others

\* The array with its index is a queue of lines: the promise of LineQueue.
THEOREM CommandsImplementsQueue == LinesSpec => ImplementsQueue
<1> DEFINE W == [i \in 1..write_next |-> queue[i - 1]]
<1>1. ASSUME LinesInit PROVE Abstract!QueueInit
  <2>1. write_next = 0
    BY <1>1 DEF LinesInit
  <2> QED BY <2>1 DEF Abstract!QueueInit
<1>2. ASSUME LinesInv, [LinesNext]_lineVars PROVE [Abstract!QueueNext]_W
  <2>1. CASE queue' = queue /\ write_next' = write_next
    BY <2>1
  <2>2. ASSUME Sound, NEW l \in Line, Queued(l) PROVE Abstract!Enqueue
    <3>1. /\ write_next \in Nat /\ write_next < MAX_QUEUE /\ write_next \in Index
          /\ queue' = [queue EXCEPT ![write_next] = l] /\ write_next' = write_next + 1
          /\ queue \in [Index -> Line \cup {NoLine}]
      BY <1>2, <2>2, CommandsAssumption DEF LinesInv, LinesTypeOK, Queued, Sound, Index
    <3>2. W \in Seq(Line) /\ Len(W) = write_next
      <4>1. \A i \in 1..write_next : queue[i - 1] \in Line
        BY <1>2, <2>2, <3>1, CommandsAssumption, QueuedAreLines DEF LinesInv, Index
      <4> QED BY <3>1, <4>1
    <3>3. W' = Append(W, l)
      <4>1. W' = [i \in 1..(write_next + 1) |-> IF i = write_next + 1 THEN l ELSE W[i]]
        BY <3>1 DEF Index
      <4>2. PICK new : new = W'
        OBVIOUS
      <4> HIDE DEF W
      <4>3. new = Append(W, l)
        BY <4>1, <4>2, <3>2, AppendIs, ZenonT(40)
      <4> QED BY <4>2, <4>3
    <3> QED BY <3>1, <3>2, <3>3 DEF Abstract!Enqueue
  <2>3. CASE /\ Sound /\ pending
             /\ queue' = Shuffled(queue, write_next) /\ write_next' = write_next - 1
    <3>1. write_next \in Nat \ {0} /\ write_next <= MAX_QUEUE
      BY <1>2, <2>3, CommandsAssumption DEF LinesInv, LinesTypeOK, QueueExact
    <3>2. W \in Seq(Line) /\ Len(W) = write_next /\ W # <<>>
      <4>1. \A i \in 1..write_next : queue[i - 1] \in Line
        BY <1>2, <2>3, <3>1, CommandsAssumption, QueuedAreLines DEF LinesInv, Index
      <4> QED BY <3>1, <4>1
    <3>3. W' = Tail(W)
      <4>1. \A i \in 1..(write_next - 1) : queue'[i - 1] = queue[i]
        BY <2>3, <3>1, CommandsAssumption DEF Shuffled, Index
      <4>2. W' = [i \in 1..(write_next - 1) |-> W[i + 1]]
        BY <2>3, <3>1, <4>1
      <4>3. PICK new : new = W'
        OBVIOUS
      <4> HIDE DEF W
      <4>4. new = Tail(W)
        BY <4>2, <4>3, <3>2, TailIs
      <4> QED BY <4>3, <4>4
    <3> QED BY <3>2, <3>3 DEF Abstract!Dequeue, Abstract!QueueNext
  <2>4. CASE write_next' \in {0, -1}
    <3>1. W' = <<>>
      BY <2>4
    <3> QED BY <3>1 DEF Abstract!GiveUp, Abstract!QueueNext
  <2>5. \/ queue' = queue /\ write_next' = write_next
        \/ Sound /\ \E l \in Line : Queued(l)
        \/ /\ Sound /\ pending
           /\ queue' = Shuffled(queue, write_next) /\ write_next' = write_next - 1
        \/ write_next' \in {0, -1}
    BY <1>2, QueueSteps
  <2>6. W' = W \/ Abstract!QueueNext
    BY <2>1, <2>2, <2>3, <2>4, <2>5 DEF Abstract!QueueNext
  <2> QED BY <2>6
<1> QED BY <1>1, <1>2, LinesInductive, PTL
        DEF LinesSpec, ImplementsQueue, Abstract!QueueSpec

-----------------------------------------------------------------------------
BegunIn(dr, r) == /\ dr.at # "idle" /\ r.tick = dr.tick
                  /\ IF dr.at = "call" THEN r.index <= dr.index ELSE r.index < dr.index

ResolvesIn(bk, r) == r.tick \in DOMAIN bk /\ r.index \in DOMAIN bk[r.tick]

LiveIn(bk, dr) == {r \in Ref : /\ ResolvesIn(bk, r)
                               /\ ~bk[r.tick][r.index].cancelled
                               /\ ~BegunIn(dr, r)}

CharsIn(bk, r) == bk[r.tick][r.index].chars

\* The index ci holds what can still run, under each character it names.
IndexOf(ci, bk, dr) == /\ ci \in [Char -> SUBSET Ref]
                       /\ \A c \in Char : ci[c] = {r \in LiveIn(bk, dr) : c \in CharsIn(bk, r)}

\* What can still run names those present, but for players extracted.
NamesPresent(bk, dr, ft) ==
    \A r \in LiveIn(bk, dr) : \A c \in CharsIn(bk, r) :
        ft[c] = "here" \/ (c \in Pc /\ ft[c] = "extracted")

IsBuckets(bk) == /\ DOMAIN bk \subseteq 1..MaxTick
                 /\ \A t \in DOMAIN bk : bk[t] \in Seq(Entry) /\ Len(bk[t]) \in 1..MaxPerTick

\* Between pulses every bucket is ahead; within one the bucket drained is the
\* current tick's, and first.
IsDrain(dr, bk, now) ==
    /\ dr \in [at : {"idle", "walk", "call"}, tick : Nat, index : Nat]
    /\ dr.at = "idle" => \A t \in DOMAIN bk : t > now
    /\ dr.at # "idle" => /\ dr.tick = now /\ now \in DOMAIN bk
                         /\ \A t \in DOMAIN bk : t >= now
                         /\ dr.index >= 1

IInv == /\ currentTick \in 0..MaxTick
        /\ fate \in [Char -> {"here", "quit", "extracted"}]
        /\ IsBuckets(buckets)
        /\ IsDrain(drain, buckets, currentTick)
        /\ IndexOf(charIndex, buckets, drain)
        /\ NamesPresent(buckets, drain, fate)

-----------------------------------------------------------------------------
\* The model's operators are these, before and after a step.
LEMMA LiveIs ==
    /\ LiveRefs = LiveIn(buckets, drain) /\ LiveRefs' = LiveIn(buckets', drain')
    /\ \A r : EntryAt(r).chars = CharsIn(buckets, r)
    /\ \A r : (EntryAt(r).chars)' = CharsIn(buckets', r)
    /\ \A r : Resolves(r) <=> ResolvesIn(buckets, r)
BY DEF LiveRefs, LiveIn, Resolves, ResolvesIn, EntryAt, Begun, BegunIn, CharsIn

\* A bucket's entries.
LEMMA BucketIs ==
    ASSUME NEW bk, IsBuckets(bk), NEW t \in DOMAIN bk
    PROVE  /\ t \in Nat \ {0} /\ Len(bk[t]) \in Nat \ {0} /\ DOMAIN bk[t] = 1..Len(bk[t])
           /\ \A i \in 1..Len(bk[t]) : /\ bk[t][i] \in Entry
                                       /\ [tick |-> t, index |-> i] \in Ref
<1>1. t \in 1..MaxTick /\ bk[t] \in Seq(Entry) /\ Len(bk[t]) \in 1..MaxPerTick
  BY DEF IsBuckets
<1>2. MaxTick \in Nat /\ MaxPerTick \in Nat
  BY EventQueueAssumption
<1> QED
  BY <1>1, <1>2 DEF Ref

\* What a live entry names are characters.
LEMMA CharsAre ==
    ASSUME NEW bk, IsBuckets(bk), NEW dr, NEW r \in LiveIn(bk, dr)
    PROVE  r \in Ref /\ CharsIn(bk, r) \subseteq Char
<1>1. r \in Ref /\ ResolvesIn(bk, r)
  BY DEF LiveIn
<1>2. bk[r.tick][r.index] \in Entry
  BY <1>1, BucketIs DEF ResolvesIn
<1> QED
  BY <1>1, <1>2 DEF CharsIn, Entry

\* An index stays exact when what can run, and what it names, stay.
LEMMA IndexKept ==
    ASSUME NEW ci, NEW bk, NEW dr, NEW bk2, NEW dr2, NEW ft,
           LiveIn(bk2, dr2) = LiveIn(bk, dr),
           \A r \in LiveIn(bk, dr) : CharsIn(bk2, r) = CharsIn(bk, r)
    PROVE  /\ IndexOf(ci, bk, dr) => IndexOf(ci, bk2, dr2)
           /\ NamesPresent(bk, dr, ft) => NamesPresent(bk2, dr2, ft)
BY DEF IndexOf, NamesPresent

\* Where ProcessQueue goes next, when no bucket is behind.
LEMMA FirstDueIs ==
    ASSUME NEW bk, IsBuckets(bk), NEW now \in Nat, \A t \in DOMAIN bk : t >= now
    PROVE  /\ IsDrain(FirstDue(DOMAIN bk, now), bk, now)
           /\ FirstDue(DOMAIN bk, now).at # "call"
           /\ FirstDue(DOMAIN bk, now).at = "walk" => FirstDue(DOMAIN bk, now).index = 1
<1>1. \A t \in DOMAIN bk : t \in Nat
  BY BucketIs
<1>2. CASE \E t \in DOMAIN bk : t <= now
  <2>1. now \in DOMAIN bk
    BY <1>1, <1>2
  <2>2. Min(DOMAIN bk) = now
    BY <1>1, <2>1 DEF Min
  <2>3. FirstDue(DOMAIN bk, now) = Walk(now, 1)
    BY <1>2, <2>2 DEF FirstDue
  <2> QED
    BY <2>1, <2>3 DEF Walk, IsDrain
<1>3. CASE ~\E t \in DOMAIN bk : t <= now
  <2>1. FirstDue(DOMAIN bk, now) = Idle
    BY <1>3 DEF FirstDue
  <2>2. \A t \in DOMAIN bk : t > now
    BY <1>1, <1>3
  <2> QED
    BY <2>1, <2>2 DEF Idle, IsDrain
<1> QED
  BY <1>2, <1>3

-----------------------------------------------------------------------------
\* Queueing adds one entry to what can run, behind those of its tick.
LEMMA AddEffect ==
    ASSUME IInv, NEW n \in Timers, NEW chs \in SUBSET Char, AddToQueue(n, chs)
    PROVE  \E due \in Nat, ref \in Ref :
             /\ ref.tick = due /\ due > currentTick
             /\ \A r \in LiveIn(buckets, drain) : r.tick = due => r.index < ref.index
             /\ LiveIn(buckets', drain') = LiveIn(buckets, drain) \cup {ref}
             /\ \A r \in LiveIn(buckets, drain) : CharsIn(buckets', r) = CharsIn(buckets, r)
             /\ CharsIn(buckets', ref) = chs
             /\ IndexOf(charIndex', buckets', drain')
             /\ IsBuckets(buckets') /\ IsDrain(drain', buckets', currentTick)
<1> DEFINE due == Expiry(n)
           e == [chars |-> chs, cancelled |-> FALSE]
           bucket == Append(Bucket(due), e)
           ref == [tick |-> due, index |-> Len(bucket)]
<1>0. /\ currentTick \in 0..MaxTick /\ MaxTick \in Nat /\ MaxPerTick \in Nat /\ n \in Int
      /\ IsBuckets(buckets) /\ IsDrain(drain, buckets, currentTick)
      /\ IndexOf(charIndex, buckets, drain)
  BY EventQueueAssumption DEF IInv
<1>1. /\ n >= 0 /\ due <= MaxTick /\ Len(bucket) <= MaxPerTick /\ drain' = drain
      /\ buckets' = [t \in DOMAIN buckets \cup {due} |-> IF t = due THEN bucket ELSE buckets[t]]
      /\ charIndex' = [c \in Char |-> IF c \in chs THEN charIndex[c] \cup {ref} ELSE charIndex[c]]
  BY DEF AddToQueue, RegisterEntry
<1>2. due \in 1..MaxTick /\ due > currentTick /\ due \in Nat
  BY <1>0, <1>1 DEF Expiry
<1>3. e \in Entry /\ e.chars = chs /\ e.cancelled = FALSE
  BY DEF Entry
<1>4. Bucket(due) \in Seq(Entry)
  BY <1>0 DEF Bucket, IsBuckets
<1> HIDE DEF due, e
<1>5. /\ bucket \in Seq(Entry) /\ Len(bucket) = Len(Bucket(due)) + 1 /\ Len(bucket) \in 1..MaxPerTick
      /\ DOMAIN bucket = 1..Len(bucket) /\ DOMAIN Bucket(due) = 1..Len(Bucket(due))
      /\ \A i \in 1..Len(Bucket(due)) : bucket[i] = Bucket(due)[i]
      /\ bucket[Len(bucket)] = e
  <2>1. Len(Bucket(due)) \in Nat
    BY <1>4
  <2> QED
    BY <1>0, <1>1, <1>3, <1>4, <2>1
<1> HIDE DEF bucket
<1>6. ref \in Ref /\ ref.tick = due /\ ref.index = Len(bucket)
  BY <1>2, <1>5 DEF Ref
<1> HIDE DEF ref
<1>7. IsBuckets(buckets') /\ IsDrain(drain', buckets', currentTick)
  <2>1. IsBuckets(buckets')
    BY <1>0, <1>1, <1>2, <1>5 DEF IsBuckets
  <2>2. IsDrain(drain', buckets', currentTick)
    BY <1>0, <1>1, <1>2 DEF IsDrain
  <2> QED
    BY <2>1, <2>2
<1>8. \A r \in Ref : /\ r # ref => (ResolvesIn(buckets', r) <=> ResolvesIn(buckets, r))
                     /\ ResolvesIn(buckets, r) => /\ r # ref
                                                  /\ buckets'[r.tick][r.index] = buckets[r.tick][r.index]
                                                  /\ r.tick = due => r.index < ref.index
  <2> TAKE r \in Ref
  <2>1. CASE r.tick # due
    BY <2>1, <1>1, <1>6 DEF ResolvesIn
  <2>2. CASE r.tick = due
    <3>1. buckets'[due] = bucket /\ due \in DOMAIN buckets'
      BY <1>1
    <3>2. Bucket(due) = IF due \in DOMAIN buckets THEN buckets[due] ELSE <<>>
      BY DEF Bucket
    <3>3. r # ref => r.index # Len(bucket)
      BY <2>2, <1>6 DEF Ref
    <3>4. r.index \in Nat /\ Len(Bucket(due)) \in Nat
      BY <1>4, EventQueueAssumption DEF Ref
    <3>5. ResolvesIn(buckets', r) <=> r.index \in 1..Len(bucket)
      BY <2>2, <3>1, <1>5 DEF ResolvesIn
    <3>6. ResolvesIn(buckets, r) <=> r.index \in 1..Len(Bucket(due))
      BY <2>2, <3>2, <1>5 DEF ResolvesIn
    <3>7. ResolvesIn(buckets, r) => buckets[r.tick] = Bucket(due)
      BY <2>2, <3>2 DEF ResolvesIn
    <3> QED
      BY <2>2, <3>1, <3>3, <3>4, <3>5, <3>6, <3>7, <1>5, <1>6
  <2> QED
    BY <2>1, <2>2
<1>9. ResolvesIn(buckets', ref) /\ buckets'[ref.tick][ref.index] = e
  BY <1>1, <1>5, <1>6 DEF ResolvesIn
<1>10. ~BegunIn(drain, ref)
  BY <1>0, <1>2, <1>6 DEF BegunIn, IsDrain
<1>11. LiveIn(buckets', drain') = LiveIn(buckets, drain) \cup {ref}
  BY <1>1, <1>3, <1>6, <1>8, <1>9, <1>10 DEF LiveIn
<1>12. /\ \A r \in LiveIn(buckets, drain) : CharsIn(buckets', r) = CharsIn(buckets, r)
       /\ \A r \in LiveIn(buckets, drain) : r.tick = due => r.index < ref.index
       /\ CharsIn(buckets', ref) = chs
  BY <1>3, <1>8, <1>9 DEF CharsIn, LiveIn
<1>13. IndexOf(charIndex', buckets', drain')
  <2>1. charIndex' \in [Char -> SUBSET Ref]
    BY <1>0, <1>1, <1>6 DEF IndexOf
  <2>2. ASSUME NEW c \in Char
        PROVE  charIndex'[c] = {r \in LiveIn(buckets', drain') : c \in CharsIn(buckets', r)}
    BY <1>0, <1>1, <1>11, <1>12 DEF IndexOf
  <2> QED
    BY <2>1, <2>2 DEF IndexOf
<1> QED
  BY <1>2, <1>6, <1>7, <1>11, <1>12, <1>13

\* Cancelling for a character takes from what can run all that names it.
LEMMA CancelEffect ==
    ASSUME IInv, NEW c \in Char, CancelEvents(c), drain' = drain
    PROVE  /\ LiveIn(buckets', drain') = {r \in LiveIn(buckets, drain) : c \notin CharsIn(buckets, r)}
           /\ \A r \in LiveIn(buckets, drain) : CharsIn(buckets', r) = CharsIn(buckets, r)
           /\ IndexOf(charIndex', buckets', drain')
           /\ IsBuckets(buckets') /\ IsDrain(drain', buckets', currentTick)
           /\ DOMAIN buckets' = DOMAIN buckets
           /\ \A t \in DOMAIN buckets : Len(buckets'[t]) = Len(buckets[t])
<1> DEFINE doomed == {r \in charIndex[c] : Resolves(r) /\ ~EntryAt(r).cancelled}
           after(t, i) == IF [tick |-> t, index |-> i] \in doomed
                          THEN [buckets[t][i] EXCEPT !.cancelled = TRUE]
                          ELSE buckets[t][i]
<1>0. /\ IsBuckets(buckets) /\ IsDrain(drain, buckets, currentTick)
      /\ IndexOf(charIndex, buckets, drain)
  BY DEF IInv
<1>1. /\ buckets' = [t \in DOMAIN buckets |-> [i \in DOMAIN buckets[t] |-> after(t, i)]]
      /\ charIndex' = [d \in Char |->
                         {r \in charIndex[d] : ~(r \in doomed /\ d \in EntryAt(r).chars)}]
  BY DEF CancelEvents, DropEntryRefs
<1>2. doomed = {r \in LiveIn(buckets, drain) : c \in CharsIn(buckets, r)}
  BY <1>0 DEF IndexOf, LiveIn, Resolves, ResolvesIn, EntryAt
<1> HIDE DEF doomed
<1>3. ASSUME NEW t \in DOMAIN buckets
      PROVE  /\ buckets'[t] \in Seq(Entry) /\ Len(buckets'[t]) = Len(buckets[t])
             /\ DOMAIN buckets'[t] = DOMAIN buckets[t]
             /\ \A i \in DOMAIN buckets[t] : /\ buckets'[t][i] = after(t, i)
                                             /\ buckets[t][i] \in Entry
  <2>1. /\ Len(buckets[t]) \in Nat /\ DOMAIN buckets[t] = 1..Len(buckets[t])
        /\ \A i \in 1..Len(buckets[t]) : buckets[t][i] \in Entry
    BY <1>0, BucketIs
  <2>2. buckets'[t] = [i \in 1..Len(buckets[t]) |-> after(t, i)]
    BY <1>1, <2>1
  <2>3. \A i \in 1..Len(buckets[t]) : after(t, i) \in Entry
    BY <2>1 DEF Entry
  <2> HIDE DEF after
  <2> QED
    BY <2>1, <2>2, <2>3
<1>4. DOMAIN buckets' = DOMAIN buckets
  BY <1>1
<1>5. IsBuckets(buckets')
  BY <1>0, <1>3, <1>4 DEF IsBuckets
<1>6. IsDrain(drain', buckets', currentTick)
  BY <1>0, <1>4 DEF IsDrain
<1>7. ASSUME NEW r \in Ref
      PROVE  /\ ResolvesIn(buckets', r) <=> ResolvesIn(buckets, r)
             /\ ResolvesIn(buckets, r) =>
                  /\ CharsIn(buckets', r) = CharsIn(buckets, r)
                  /\ buckets'[r.tick][r.index].cancelled
                       <=> (r \in doomed \/ buckets[r.tick][r.index].cancelled)
  <2>1. ResolvesIn(buckets', r) <=> ResolvesIn(buckets, r)
    BY <1>3, <1>4 DEF ResolvesIn
  <2>2. ASSUME ResolvesIn(buckets, r)
        PROVE  /\ CharsIn(buckets', r) = CharsIn(buckets, r)
               /\ buckets'[r.tick][r.index].cancelled
                    <=> (r \in doomed \/ buckets[r.tick][r.index].cancelled)
    <3>1. r = [tick |-> r.tick, index |-> r.index]
      BY DEF Ref
    <3>2. /\ buckets'[r.tick][r.index] = after(r.tick, r.index)
          /\ buckets[r.tick][r.index] \in Entry
      BY <2>2, <1>3 DEF ResolvesIn
    <3>3. CASE r \in doomed
      BY <3>1, <3>2, <3>3 DEF CharsIn, Entry
    <3>4. CASE r \notin doomed
      BY <3>1, <3>2, <3>4 DEF CharsIn, Entry
    <3> QED
      BY <3>3, <3>4
  <2> QED
    BY <2>1, <2>2
<1>8. LiveIn(buckets', drain') = LiveIn(buckets, drain) \ doomed
  BY <1>7 DEF LiveIn
<1>9. \A r \in LiveIn(buckets, drain) : CharsIn(buckets', r) = CharsIn(buckets, r)
  BY <1>7 DEF LiveIn
<1>10. LiveIn(buckets', drain') = {r \in LiveIn(buckets, drain) : c \notin CharsIn(buckets, r)}
  BY <1>2, <1>8
<1>11. IndexOf(charIndex', buckets', drain')
  <2>1. charIndex' \in [Char -> SUBSET Ref]
    BY <1>0, <1>1 DEF IndexOf
  <2>2. ASSUME NEW d \in Char
        PROVE  charIndex'[d] = {r \in LiveIn(buckets', drain') : d \in CharsIn(buckets', r)}
    <3>1. charIndex[d] = {r \in LiveIn(buckets, drain) : d \in CharsIn(buckets, r)}
      BY <1>0 DEF IndexOf
    <3>2. charIndex'[d] = {r \in charIndex[d] : ~(r \in doomed /\ d \in CharsIn(buckets, r))}
      BY <1>1, LiveIs
    <3> QED
      BY <3>1, <3>2, <1>8, <1>9
  <2> QED
    BY <2>1, <2>2 DEF IndexOf
<1> QED
  BY <1>3, <1>4, <1>5, <1>6, <1>9, <1>10, <1>11

\* Running an entry takes it from what can run.  All else there stays.
LEMMA RunEffect ==
    ASSUME IInv, RunEntry
    PROVE  /\ DueRef \in LiveIn(buckets, drain) /\ DueRef.tick = currentTick
           /\ LiveIn(buckets', drain') = LiveIn(buckets, drain) \ {DueRef}
           /\ \A r \in LiveIn(buckets, drain) : r.tick = currentTick => r.index >= DueRef.index
           /\ IndexOf(charIndex', buckets', drain')
           /\ IsDrain(drain', buckets', currentTick) /\ buckets' = buckets
<1>0. /\ IsBuckets(buckets) /\ IsDrain(drain, buckets, currentTick)
      /\ IndexOf(charIndex, buckets, drain)
  BY DEF IInv
<1>1. /\ drain.at = "walk" /\ drain.index <= Len(buckets[drain.tick])
      /\ ~buckets[drain.tick][drain.index].cancelled
      /\ drain' = [drain EXCEPT !.at = "call"] /\ buckets' = buckets
      /\ charIndex' = [d \in Char |->
                         {r \in charIndex[d] : ~(r \in {DueRef} /\ d \in EntryAt(r).chars)}]
  BY DEF RunEntry, AtEntry, EntryAt, DueRef, DropEntryRefs
<1>2. /\ drain.tick = currentTick /\ drain.tick \in DOMAIN buckets
      /\ drain.index \in Nat /\ drain.index >= 1
      /\ drain \in [at : {"idle", "walk", "call"}, tick : Nat, index : Nat]
  BY <1>0, <1>1 DEF IsDrain
<1>3. drain.index \in 1..Len(buckets[drain.tick]) /\ DueRef \in Ref
  BY <1>0, <1>1, <1>2, BucketIs DEF DueRef
<1>4. DueRef.tick = drain.tick /\ DueRef.index = drain.index
  BY DEF DueRef
<1>5. DueRef \in LiveIn(buckets, drain)
  BY <1>0, <1>1, <1>2, <1>3, <1>4, BucketIs DEF LiveIn, ResolvesIn, BegunIn
<1>6. drain'.at = "call" /\ drain'.tick = drain.tick /\ drain'.index = drain.index
  BY <1>1, <1>2
<1>7. ASSUME NEW r \in Ref
      PROVE  /\ BegunIn(drain', r) <=> BegunIn(drain, r) \/ r = DueRef
             /\ r.tick = drain.tick /\ ~BegunIn(drain, r) => r.index >= DueRef.index
  <2>1. r.index \in Nat /\ (r = DueRef <=> r.tick = drain.tick /\ r.index = drain.index)
    BY DEF Ref, DueRef
  <2> QED
    BY <2>1, <1>1, <1>2, <1>4, <1>6 DEF BegunIn
<1>8. LiveIn(buckets', drain') = LiveIn(buckets, drain) \ {DueRef}
  BY <1>1, <1>7 DEF LiveIn
<1>9. IndexOf(charIndex', buckets', drain')
  <2>1. charIndex' \in [Char -> SUBSET Ref]
    BY <1>0, <1>1 DEF IndexOf
  <2>2. ASSUME NEW d \in Char
        PROVE  charIndex'[d] = {r \in LiveIn(buckets', drain') : d \in CharsIn(buckets', r)}
    <3>1. charIndex[d] = {r \in LiveIn(buckets, drain) : d \in CharsIn(buckets, r)}
      BY <1>0 DEF IndexOf
    <3>2. charIndex'[d] = {r \in charIndex[d] : ~(r = DueRef /\ d \in CharsIn(buckets, r))}
      BY <1>1, LiveIs
    <3> QED
      BY <3>1, <3>2, <1>1, <1>8
  <2> QED
    BY <2>1, <2>2 DEF IndexOf
<1>10. IsDrain(drain', buckets', currentTick)
  BY <1>0, <1>1, <1>2, <1>6 DEF IsDrain
<1> QED
  BY <1>1, <1>2, <1>4, <1>5, <1>7, <1>8, <1>9, <1>10 DEF LiveIn

\* The other steps of ProcessQueue leave what can run as it is.
LEMMA WalkEffect ==
    ASSUME IInv, BeginPulse \/ SkipCancelled \/ CalleeReturns \/ EraseBucket
    PROVE  /\ LiveIn(buckets', drain') = LiveIn(buckets, drain)
           /\ \A r \in LiveIn(buckets, drain) : CharsIn(buckets', r) = CharsIn(buckets, r)
           /\ IsBuckets(buckets') /\ IsDrain(drain', buckets', currentTick')
           /\ currentTick' \in 0..MaxTick /\ charIndex' = charIndex /\ fate' = fate
<1>0. /\ IsBuckets(buckets) /\ IsDrain(drain, buckets, currentTick)
      /\ currentTick \in 0..MaxTick /\ currentTick \in Nat /\ MaxTick \in Nat
  BY EventQueueAssumption DEF IInv
<1>1. drain \in [at : {"idle", "walk", "call"}, tick : Nat, index : Nat]
  BY <1>0 DEF IsDrain
<1>2. CASE BeginPulse
  <2>1. /\ drain.at = "idle" /\ currentTick < MaxTick /\ currentTick' = currentTick + 1
        /\ drain' = FirstDue(DOMAIN buckets, currentTick')
        /\ buckets' = buckets /\ charIndex' = charIndex /\ fate' = fate
    BY <1>2 DEF BeginPulse
  <2>2. \A t \in DOMAIN buckets : t >= currentTick'
    BY <1>0, <2>1, BucketIs DEF IsDrain
  <2>3. currentTick' \in Nat /\ currentTick' \in 0..MaxTick
    BY <1>0, <2>1
  <2>4. /\ IsDrain(drain', buckets, currentTick') /\ drain'.at # "call"
        /\ drain'.at = "walk" => drain'.index = 1
    BY <1>0, <2>1, <2>2, <2>3, FirstDueIs, Zenon
  <2>5. \A r \in Ref : ~BegunIn(drain, r) /\ ~BegunIn(drain', r)
    <3>1. \A r \in Ref : r.index >= 1 /\ r.index \in Nat
      BY EventQueueAssumption DEF Ref
    <3> QED
      BY <2>1, <2>4, <3>1 DEF BegunIn, IsDrain
  <2> QED
    BY <1>0, <2>1, <2>3, <2>4, <2>5 DEF LiveIn
<1>3. CASE SkipCancelled
  <2>1. /\ drain.at = "walk" /\ buckets[drain.tick][drain.index].cancelled
        /\ drain' = [drain EXCEPT !.index = @ + 1]
        /\ buckets' = buckets /\ charIndex' = charIndex /\ fate' = fate /\ currentTick' = currentTick
    BY <1>3 DEF SkipCancelled, AtEntry, EntryAt, DueRef
  <2>2. drain'.at = "walk" /\ drain'.tick = drain.tick /\ drain'.index = drain.index + 1
    BY <1>1, <2>1
  <2>3. IsDrain(drain', buckets, currentTick)
    BY <1>0, <1>1, <2>1, <2>2 DEF IsDrain
  <2>4. ASSUME NEW r \in Ref
        PROVE  BegunIn(drain', r) <=> BegunIn(drain, r) \/ (r.tick = drain.tick /\ r.index = drain.index)
    <3>1. r.index \in Nat /\ drain.index \in Nat
      BY <1>1, EventQueueAssumption DEF Ref
    <3> QED
      BY <3>1, <2>1, <2>2 DEF BegunIn
  <2> QED
    BY <1>0, <2>1, <2>3, <2>4 DEF LiveIn
<1>4. CASE CalleeReturns
  <2>1. /\ drain.at = "call" /\ drain' = Walk(drain.tick, drain.index + 1)
        /\ buckets' = buckets /\ charIndex' = charIndex /\ fate' = fate /\ currentTick' = currentTick
    BY <1>4 DEF CalleeReturns
  <2>2. drain'.at = "walk" /\ drain'.tick = drain.tick /\ drain'.index = drain.index + 1
    BY <2>1 DEF Walk
  <2>3. IsDrain(drain', buckets, currentTick)
    BY <1>0, <1>1, <2>1, <2>2 DEF IsDrain, Walk
  <2>4. ASSUME NEW r \in Ref PROVE BegunIn(drain', r) <=> BegunIn(drain, r)
    <3>1. r.index \in Nat /\ drain.index \in Nat
      BY <1>1, EventQueueAssumption DEF Ref
    <3> QED
      BY <3>1, <2>1, <2>2 DEF BegunIn
  <2> QED
    BY <1>0, <2>1, <2>3, <2>4 DEF LiveIn
<1>5. CASE EraseBucket
  <2> DEFINE rest == DOMAIN buckets \ {drain.tick}
  <2>1. /\ drain.at = "walk" /\ drain.index > Len(buckets[drain.tick])
        /\ buckets' = [t \in rest |-> buckets[t]] /\ drain' = FirstDue(rest, currentTick)
        /\ charIndex' = charIndex /\ fate' = fate /\ currentTick' = currentTick
    BY <1>5 DEF EraseBucket
  <2>2. drain.tick = currentTick /\ currentTick \in DOMAIN buckets /\ drain.index \in Nat
    BY <1>0, <1>1, <2>1 DEF IsDrain
  <2>3. DOMAIN buckets' = rest /\ IsBuckets(buckets') /\ \A t \in rest : t > currentTick
    BY <1>0, <2>1, <2>2, BucketIs DEF IsDrain, IsBuckets
  <2>4. drain' = Idle
    BY <1>0, <2>1, <2>3, BucketIs DEF FirstDue
  <2>5. IsDrain(drain', buckets', currentTick)
    BY <2>3, <2>4 DEF IsDrain, Idle
  <2>6. ASSUME NEW r \in Ref
        PROVE  r \in LiveIn(buckets, drain) <=> r \in LiveIn(buckets', drain')
    <3>1. CASE r.tick = drain.tick
      <4>1. ~ResolvesIn(buckets', r)
        BY <3>1, <2>3 DEF ResolvesIn
      <4>2. ResolvesIn(buckets, r) => BegunIn(drain, r)
        BY <3>1, <1>0, <2>1, <2>2, BucketIs DEF ResolvesIn, BegunIn
      <4> QED
        BY <4>1, <4>2 DEF LiveIn
    <3>2. CASE r.tick # drain.tick
      <4>1. ~BegunIn(drain, r) /\ ~BegunIn(drain', r)
        BY <3>2, <2>4 DEF BegunIn, Idle
      <4>2. ResolvesIn(buckets, r) => r.tick \in rest /\ buckets'[r.tick] = buckets[r.tick]
        BY <3>2, <2>1 DEF ResolvesIn
      <4>3. ResolvesIn(buckets', r) <=> ResolvesIn(buckets, r)
        BY <3>2, <2>1, <2>3, <4>2 DEF ResolvesIn
      <4> QED
        BY <4>1, <4>2, <4>3 DEF LiveIn
    <3> QED
      BY <3>1, <3>2
  <2>7. ASSUME NEW r \in LiveIn(buckets, drain) PROVE CharsIn(buckets', r) = CharsIn(buckets, r)
    <3>1. r.tick \in rest
      BY <2>3, <2>6 DEF LiveIn, ResolvesIn
    <3> QED
      BY <3>1, <2>1 DEF CharsIn
  <2>8. LiveIn(buckets', drain') = LiveIn(buckets, drain)
    BY <2>6 DEF LiveIn
  <2> QED
    BY <1>0, <2>1, <2>3, <2>5, <2>7, <2>8
<1> QED
  BY <1>2, <1>3, <1>4, <1>5

-----------------------------------------------------------------------------
LEMMA InitEstablishes == Init => IInv
<1> SUFFICES ASSUME Init PROVE IInv
  OBVIOUS
<1>1. DOMAIN buckets = {}
  BY DEF Init
<1>2. LiveIn(buckets, drain) = {}
  BY <1>1 DEF LiveIn, ResolvesIn
<1>3. IsBuckets(buckets) /\ IsDrain(drain, buckets, currentTick)
  BY <1>1 DEF Init, IsBuckets, IsDrain, Idle
<1>4. IndexOf(charIndex, buckets, drain) /\ NamesPresent(buckets, drain, fate)
  BY <1>2 DEF Init, IndexOf, NamesPresent
<1>5. currentTick \in 0..MaxTick /\ fate \in [Char -> {"here", "quit", "extracted"}]
  BY EventQueueAssumption DEF Init
<1> QED
  BY <1>3, <1>4, <1>5 DEF IInv

\* What each action of the game code does to the invariant.
LEMMA AddPreserves ==
    ASSUME IInv, NEW n \in Timers, NEW chs \in Named, AddToQueue(n, chs)
    PROVE  IInv'
<1>1. chs \in SUBSET Char
  BY EventQueueAssumption DEF Char
<1>2. PICK due \in Nat, ref \in Ref :
        /\ LiveIn(buckets', drain') = LiveIn(buckets, drain) \cup {ref}
        /\ \A r \in LiveIn(buckets, drain) : CharsIn(buckets', r) = CharsIn(buckets, r)
        /\ CharsIn(buckets', ref) = chs
        /\ IndexOf(charIndex', buckets', drain')
        /\ IsBuckets(buckets') /\ IsDrain(drain', buckets', currentTick)
  BY <1>1, AddEffect
<1>3. /\ currentTick' = currentTick /\ fate' = fate
      /\ \A c \in chs : fate[c] = "here"
  BY DEF AddToQueue, Here
<1>4. NamesPresent(buckets', drain', fate')
  BY <1>2, <1>3 DEF IInv, NamesPresent
<1> QED
  BY <1>2, <1>3, <1>4 DEF IInv

LEMMA CancelPreserves ==
    ASSUME IInv, NEW c \in Char, DeleteQueuedEventsInvolving(c) \/ (c \in Npc /\ ExtractNpc(c))
    PROVE  IInv'
<1>1. /\ CancelEvents(c) /\ drain' = drain /\ currentTick' = currentTick
      /\ fate' = fate \/ fate' = [fate EXCEPT ![c] = "extracted"]
  BY DEF DeleteQueuedEventsInvolving, ExtractNpc
<1>2. /\ LiveIn(buckets', drain') = {r \in LiveIn(buckets, drain) : c \notin CharsIn(buckets, r)}
      /\ \A r \in LiveIn(buckets, drain) : CharsIn(buckets', r) = CharsIn(buckets, r)
      /\ IndexOf(charIndex', buckets', drain')
      /\ IsBuckets(buckets') /\ IsDrain(drain', buckets', currentTick)
  BY <1>1, CancelEffect
<1>3. /\ fate' \in [Char -> {"here", "quit", "extracted"}]
      /\ \A d \in Char : d # c => fate'[d] = fate[d]
  BY <1>1 DEF IInv
<1>4. NamesPresent(buckets', drain', fate')
  BY <1>2, <1>3, CharsAre DEF IInv, NamesPresent
<1> QED
  BY <1>1, <1>2, <1>3, <1>4 DEF IInv

LEMMA LeavePreserves ==
    ASSUME IInv, NEW c \in Pc, Quit(c) \/ ExtractPc(c)
    PROVE  IInv'
<1>1. /\ buckets' = buckets /\ drain' = drain /\ charIndex' = charIndex
      /\ currentTick' = currentTick
  BY DEF Quit, ExtractPc
<1>2. c \in Char
  BY DEF Char
<1>3. \/ charIndex[c] = {} /\ fate' = [fate EXCEPT ![c] = "quit"]
      \/ fate' = [fate EXCEPT ![c] = "extracted"]
  BY DEF Quit, ExtractPc, HasQueuePending
<1>4. /\ fate' \in [Char -> {"here", "quit", "extracted"}]
      /\ \A d \in Char : d # c => fate'[d] = fate[d]
      /\ fate'[c] = "extracted" \/ charIndex[c] = {}
  BY <1>2, <1>3 DEF IInv
<1>5. charIndex[c] = {} => \A r \in LiveIn(buckets, drain) : c \notin CharsIn(buckets, r)
  BY <1>2 DEF IInv, IndexOf
<1>6. NamesPresent(buckets, drain, fate')
  BY <1>4, <1>5, CharsAre DEF IInv, NamesPresent
<1> QED
  BY <1>1, <1>4, <1>6 DEF IInv

LEMMA DrainPreserves ==
    ASSUME IInv, Drain
    PROVE  IInv'
<1>1. CASE RunEntry
  <2>1. /\ LiveIn(buckets', drain') = LiveIn(buckets, drain) \ {DueRef}
        /\ IndexOf(charIndex', buckets', drain')
        /\ IsDrain(drain', buckets', currentTick) /\ buckets' = buckets
    BY <1>1, RunEffect
  <2>2. currentTick' = currentTick /\ fate' = fate
    BY <1>1 DEF RunEntry
  <2>3. NamesPresent(buckets', drain', fate')
    BY <2>1, <2>2 DEF IInv, NamesPresent
  <2> QED
    BY <2>1, <2>2, <2>3 DEF IInv
<1>2. CASE BeginPulse \/ SkipCancelled \/ CalleeReturns \/ EraseBucket
  <2>1. /\ LiveIn(buckets', drain') = LiveIn(buckets, drain)
        /\ \A r \in LiveIn(buckets, drain) : CharsIn(buckets', r) = CharsIn(buckets, r)
        /\ IsBuckets(buckets') /\ IsDrain(drain', buckets', currentTick')
        /\ currentTick' \in 0..MaxTick /\ charIndex' = charIndex /\ fate' = fate
    BY <1>2, WalkEffect
  <2>2. IndexOf(charIndex, buckets', drain') /\ NamesPresent(buckets', drain', fate)
    BY <2>1, IndexKept DEF IInv
  <2> QED
    BY <2>1, <2>2 DEF IInv
<1> QED
  BY <1>1, <1>2 DEF Drain

LEMMA NextPreserves == IInv /\ [Next]_vars => IInv'
<1> SUFFICES ASSUME IInv, [Next]_vars PROVE IInv'
  OBVIOUS
<1>1. CASE Drain
  BY <1>1, DrainPreserves
<1>2. ASSUME NEW n \in Timers, NEW chs \in Named, AddToQueue(n, chs) PROVE IInv'
  BY <1>2, AddPreserves
<1>3. ASSUME NEW c \in Char, DeleteQueuedEventsInvolving(c) PROVE IInv'
  BY <1>3, CancelPreserves
<1>4. ASSUME NEW c \in Npc, ExtractNpc(c) PROVE IInv'
  BY <1>4, CancelPreserves DEF Char
<1>5. ASSUME NEW c \in Pc, Quit(c) \/ ExtractPc(c) PROVE IInv'
  BY <1>5, LeavePreserves
<1>6. CASE UNCHANGED vars
  BY <1>6 DEF vars, IInv
<1>7. ASSUME NEW n \in Timers, AddRefused(n) PROVE IInv'
  BY <1>6, <1>7 DEF AddRefused
<1> QED
  BY <1>1, <1>2, <1>3, <1>4, <1>5, <1>6, <1>7 DEF Next

THEOREM InductiveInvariant == Spec => []IInv
BY InitEstablishes, NextPreserves, PTL DEF Spec

-----------------------------------------------------------------------------
\* The index holds what can still run, and nothing else, under every character it
\* names, also while a callee queues, cancels and extracts (queue.h:104-106).
THEOREM IndexIsExact == Spec => []IndexExact
<1>1. IInv => IndexExact
  <2> SUFFICES ASSUME IInv PROVE IndexExact
    OBVIOUS
  <2>1. TypeOK
    BY DEF IInv, IsBuckets, IsDrain, IndexOf, TypeOK
  <2>2. \A c \in Char : charIndex[c] = {r \in LiveRefs : c \in EntryAt(r).chars}
    BY LiveIs DEF IInv, IndexOf
  <2> QED
    BY <2>1, <2>2 DEF IndexExact
<1> QED
  BY <1>1, InductiveInvariant, PTL

\* Nothing that can still run names a mobile that was extracted, or a player who
\* quit: extract_char cancels for the one, do_quit waits for the other.
THEOREM PendingArePresent == Spec => []PendingNamesPresent
<1>1. IInv => PendingNamesPresent
  BY LiveIs DEF IInv, NamesPresent, PendingNamesPresent
<1> QED
  BY <1>1, InductiveInvariant, PTL

\* The bucket ProcessQueue walks is neither lengthened nor shortened by what the
\* calls it makes queue and cancel (queue.c:55-56).
THEOREM DrainIsStable == Spec => DrainingBucketStable
<1> DEFINE Stable == drain.at # "idle" /\ drain.tick \in DOMAIN buckets' =>
                        Len(buckets'[drain.tick]) = Len(buckets[drain.tick])
<1>1. ASSUME IInv, [Next]_vars PROVE [Stable]_vars
  <2>0. drain.at # "idle" => drain.tick = currentTick /\ currentTick \in DOMAIN buckets
    BY <1>1 DEF IInv, IsDrain
  <2>1. ASSUME NEW n \in Timers, NEW chs \in Named, AddToQueue(n, chs) PROVE Stable
    <3>1. Expiry(n) > currentTick
      BY <1>1, EventQueueAssumption DEF IInv, Expiry
    <3>2. \A t \in DOMAIN buckets : t # Expiry(n) => buckets'[t] = buckets[t]
      BY <2>1 DEF AddToQueue
    <3>3. currentTick # Expiry(n)
      BY <1>1, <3>1, EventQueueAssumption DEF IInv
    <3> QED
      BY <2>0, <3>2, <3>3
  <2>2. ASSUME NEW c \in Char, DeleteQueuedEventsInvolving(c) PROVE Stable
    BY <1>1, <2>0, <2>2, CancelEffect DEF DeleteQueuedEventsInvolving
  <2>3. ASSUME NEW c \in Npc, ExtractNpc(c) PROVE Stable
    BY <1>1, <2>0, <2>3, CancelEffect DEF ExtractNpc, Char
  <2>4. ASSUME NEW c \in Pc, Quit(c) \/ ExtractPc(c) PROVE Stable
    BY <2>4 DEF Quit, ExtractPc
  <2>5. CASE Drain
    BY <2>5 DEF Drain, BeginPulse, SkipCancelled, RunEntry, CalleeReturns, EraseBucket
  <2>6. ASSUME NEW n \in Timers, AddRefused(n) PROVE UNCHANGED vars
    BY <2>6 DEF AddRefused
  <2> QED
    BY <1>1, <2>1, <2>2, <2>3, <2>4, <2>5, <2>6 DEF Next
<1> QED
  BY <1>1, InductiveInvariant, PTL DEF Spec, DrainingBucketStable

-----------------------------------------------------------------------------
\* What can run, as the schedule has it.
PendingIn(bk, dr) == {[due |-> r.tick, ord |-> r.index, chars |-> CharsIn(bk, r)] :
                         r \in LiveIn(bk, dr)}

LEMMA PendingIs ==
    /\ {[due |-> r.tick, ord |-> r.index, chars |-> EntryAt(r).chars] : r \in LiveRefs}
         = PendingIn(buckets, drain)
    /\ {[due |-> r.tick, ord |-> r.index, chars |-> EntryAt(r).chars] : r \in LiveRefs}'
         = PendingIn(buckets', drain')
BY LiveIs DEF PendingIn

\* Buckets, tombstones and index implement the schedule: what is queued runs on its
\* tick, after what was queued for it before, unless it is cancelled.
THEOREM QueueImplementsSchedule == Spec => ImplementsSchedule
<1> DEFINE S == PendingIn(buckets, drain)
           T == PendingIn(buckets', drain')
<1>1. ASSUME Init PROVE Schedule!ScheduleInit
  <2>1. LiveIn(buckets, drain) = {} /\ currentTick = 0
    BY <1>1 DEF Init, LiveIn, ResolvesIn
  <2> QED
    BY <2>1, PendingIs DEF PendingIn, Schedule!ScheduleInit
<1>2. ASSUME IInv, [Next]_vars PROVE [Schedule!ScheduleNext]_(Schedule!scheduleVars)
  <2>0. /\ \A r \in LiveIn(buckets, drain) : r \in Ref
        /\ currentTick \in Nat
    BY <1>2, EventQueueAssumption DEF LiveIn, IInv
  <2>1. ASSUME NEW n \in Timers, NEW chs \in Named, AddToQueue(n, chs)
        PROVE  \E e \in Schedule!Event : Schedule!Set(e)
    <3>1. chs \in SUBSET Char
      BY EventQueueAssumption DEF Char
    <3>2. PICK due \in Nat, ref \in Ref :
             /\ ref.tick = due /\ due > currentTick
             /\ \A r \in LiveIn(buckets, drain) : r.tick = due => r.index < ref.index
             /\ LiveIn(buckets', drain') = LiveIn(buckets, drain) \cup {ref}
             /\ \A r \in LiveIn(buckets, drain) : CharsIn(buckets', r) = CharsIn(buckets, r)
             /\ CharsIn(buckets', ref) = chs
      BY <1>2, <2>1, <3>1, AddEffect
    <3> DEFINE e == [due |-> ref.tick, ord |-> ref.index, chars |-> chs]
    <3>3. e \in Schedule!Event
      BY <3>1 DEF Schedule!Event, Ref
    <3>4. T = S \cup {e}
      BY <3>2 DEF PendingIn
    <3>5. \A p \in S : p.due = e.due => p.ord < e.ord
      BY <3>2 DEF PendingIn
    <3>6. currentTick' = currentTick
      BY <2>1 DEF AddToQueue
    <3> QED
      BY <3>2, <3>3, <3>4, <3>5, <3>6, PendingIs DEF Schedule!Set
  <2>2. ASSUME NEW c \in Char, DeleteQueuedEventsInvolving(c) \/ (c \in Npc /\ ExtractNpc(c))
        PROVE  Schedule!Cancel(c)
    <3>1. /\ LiveIn(buckets', drain') = {r \in LiveIn(buckets, drain) : c \notin CharsIn(buckets, r)}
          /\ \A r \in LiveIn(buckets, drain) : CharsIn(buckets', r) = CharsIn(buckets, r)
          /\ currentTick' = currentTick
      BY <1>2, <2>2, CancelEffect DEF DeleteQueuedEventsInvolving, ExtractNpc
    <3>2. T = {p \in S : c \notin p.chars}
      BY <3>1 DEF PendingIn
    <3> QED
      BY <3>1, <3>2, PendingIs DEF Schedule!Cancel
  <2>3. ASSUME RunEntry
        PROVE  \E e \in Schedule!Event : Schedule!Run(e)
    <3>1. /\ DueRef \in LiveIn(buckets, drain) /\ DueRef.tick = currentTick
          /\ LiveIn(buckets', drain') = LiveIn(buckets, drain) \ {DueRef}
          /\ \A r \in LiveIn(buckets, drain) : r.tick = currentTick => r.index >= DueRef.index
          /\ buckets' = buckets /\ currentTick' = currentTick
      BY <1>2, <2>3, RunEffect DEF RunEntry
    <3> DEFINE e == [due |-> DueRef.tick, ord |-> DueRef.index, chars |-> CharsIn(buckets, DueRef)]
    <3>2. e \in S /\ e.due = currentTick
      BY <3>1 DEF PendingIn
    <3>3. T = S \ {e}
      <4>1. \A r, q \in Ref : r.tick = q.tick /\ r.index = q.index => r = q
        BY DEF Ref
      <4>2. \A r \in LiveIn(buckets, drain) :
               [due |-> r.tick, ord |-> r.index, chars |-> CharsIn(buckets, r)] = e => r = DueRef
        BY <2>0, <3>1, <4>1
      <4> QED
        BY <3>1, <4>2 DEF PendingIn
    <3>4. \A p \in S : p.due = currentTick => p.ord >= e.ord
      BY <3>1 DEF PendingIn
    <3>5. e \in Schedule!Event
      <4>1. DueRef \in Ref /\ CharsIn(buckets, DueRef) \subseteq Char
        BY <1>2, <3>1, CharsAre DEF IInv
      <4> QED
        BY <4>1 DEF Schedule!Event, Ref
    <3>6. Schedule!Run(e)
      BY <3>1, <3>2, <3>3, <3>4, PendingIs DEF Schedule!Run
    <3> HIDE DEF e
    <3> QED
      BY <3>5, <3>6 DEF Schedule!Run
  <2>4. CASE BeginPulse \/ SkipCancelled \/ CalleeReturns \/ EraseBucket
    <3>1. /\ LiveIn(buckets', drain') = LiveIn(buckets, drain)
          /\ \A r \in LiveIn(buckets, drain) : CharsIn(buckets', r) = CharsIn(buckets, r)
      BY <1>2, <2>4, WalkEffect
    <3>2. T = S
      BY <3>1 DEF PendingIn
    <3>3. CASE BeginPulse
      <4>1. /\ drain.at = "idle" /\ currentTick' = currentTick + 1
            /\ \A t \in DOMAIN buckets : t > currentTick
        BY <1>2, <3>3 DEF BeginPulse, IInv, IsDrain
      <4>2. \A p \in S : p.due > currentTick
        BY <4>1 DEF PendingIn, LiveIn, ResolvesIn
      <4> QED
        BY <3>2, <4>1, <4>2, PendingIs DEF Schedule!Tick, Schedule!ScheduleNext
    <3>4. CASE SkipCancelled \/ CalleeReturns \/ EraseBucket
      <4>1. currentTick' = currentTick
        BY <3>4 DEF SkipCancelled, CalleeReturns, EraseBucket
      <4> QED
        BY <3>2, <4>1, PendingIs DEF Schedule!scheduleVars
    <3> QED
      BY <2>4, <3>3, <3>4
  <2>5. ASSUME UNCHANGED <<currentTick, buckets, drain>>
        PROVE  UNCHANGED Schedule!scheduleVars
    BY <2>5, PendingIs DEF Schedule!scheduleVars
  <2>6. ASSUME NEW c \in Pc, Quit(c) \/ ExtractPc(c)
        PROVE  UNCHANGED <<currentTick, buckets, drain>>
    BY <2>6 DEF Quit, ExtractPc
  <2>7. ASSUME \/ UNCHANGED vars
               \/ \E n \in Timers : AddRefused(n)
        PROVE  UNCHANGED <<currentTick, buckets, drain>>
    BY <2>7 DEF vars, AddRefused
  <2>8. ASSUME NEW c \in Npc, ExtractNpc(c) PROVE c \in Char /\ Schedule!Cancel(c)
    BY <2>2, <2>8 DEF Char
  <2> QED
    BY <1>2, <2>1, <2>2, <2>3, <2>4, <2>5, <2>6, <2>7, <2>8
       DEF Next, Drain, Schedule!ScheduleNext
<1> QED
  BY <1>1, <1>2, InductiveInvariant, PTL
     DEF Spec, ImplementsSchedule, Schedule!ScheduleSpec
=============================================================================
