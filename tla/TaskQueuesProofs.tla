--------------------------- MODULE TaskQueuesProofs ---------------------------
(***************************************************************************)
(* What TLAPS proves of the engine's task queues, for any queues, callers  *)
(* and bounds: merges stay one level deep, no wake-up is lost, tasks are   *)
(* started in order, and nothing is added to the queue of an ended loop.   *)
(***************************************************************************)
EXTENDS TaskQueues, TLAPS

-----------------------------------------------------------------------------
(* Types *)

LEMMA InitQueues == Init => QueuesInv
<1>. SUFFICES ASSUME Init PROVE QueuesInv
  OBVIOUS
<1>. USE QueuesAssumption DEF QueuesAssumption
<1>1. TypeOK
  BY DEF Init, TypeOK, Times, Never, At, Pc
<1>2. MergedOneLevel /\ OneQueuePerTask /\ PausableTop /\ PausesCounted
  BY DEF Init, MergedOneLevel, OneQueuePerTask, PausableTop, PausesCounted
<1>3. DoneTerminated
  BY DEF Init, DoneTerminated, At
<1>4. NoLostWakeup
  BY DEF Init, NoLostWakeup, Pending, Served, Runnable
<1>. QED
  BY <1>1, <1>2, <1>3, <1>4 DEF QueuesInv

LEMMA PendingTasks ==
    ASSUME TypeOK, NEW q \in Queues
    PROVE  /\ Server(q) \in Queues \cup {NoQueue}
           /\ Served(q) \subseteq Queues /\ Pending(q) \subseteq Tasks
           /\ \A t \in Pending(q) : t.time \in Nat /\ t.time \in 0..Never /\ t.order \in Nat
<1>. USE QueuesAssumption DEF QueuesAssumption
<1>1. Server(q) \in Queues \cup {NoQueue} /\ Served(q) \subseteq Queues
  BY DEF TypeOK, Served, Server
<1>2. \A s \in Queues : source[s] \subseteq Tasks
  BY DEF TypeOK
<1>3. Pending(q) \subseteq Tasks
  BY <1>1, <1>2 DEF Pending, Runnable
<1>4. \A t \in Tasks : t.time \in Nat /\ t.time \in 0..Never /\ t.order \in Nat
  BY DEF Tasks, Times, Never
<1>. QED
  BY <1>1, <1>3, <1>4

\* The same after a step.
LEMMA PendingTasksAfter ==
    ASSUME TypeOK', NEW q \in Queues
    PROVE  \A t \in Pending(q)' : t.time \in Nat /\ t.time \in 0..Never /\ t.order \in Nat
<1>. USE QueuesAssumption DEF QueuesAssumption
<1>1. \A s \in Queues : source'[s] \subseteq Tasks
  BY DEF TypeOK
<1>2. Served(q)' \subseteq Queues
  BY DEF TypeOK, Served
<1>3. Pending(q)' \subseteq Tasks
  BY <1>1, <1>2 DEF Pending, Runnable
<1>4. \A t \in Tasks : t.time \in Nat /\ t.time \in 0..Never /\ t.order \in Nat
  BY DEF Tasks, Times, Never
<1>. QED
  BY <1>3, <1>4

\* A loop serves the queues whose server it is.
LEMMA ServedIffServer ==
    ASSUME TypeOK, MergedOneLevel, NEW q \in Queues, NEW s \in Queues
    PROVE  /\ s \in Served(q) <=> q = Server(s)
           /\ Server(s) \in Queues
  BY QueuesAssumption DEF QueuesAssumption, TypeOK, MergedOneLevel, Served, Server

\* A loop that is woken has its timer set for all it has to run.
LEMMA Woken ==
    ASSUME TypeOK', NEW q \in Queues, NEW time, WokenAt(q, time), timer[q] \in 0..Never
    PROVE  time \in 0..Never /\ \A t \in Pending(q)' : time <= t.time
<1>1. CASE Pending(q)' = {}
  BY <1>1 DEF WokenAt
<1>2. CASE Pending(q)' # {}
  <2>1. PICK t \in Pending(q)' : IsTop(q, t)' /\ time = t.time
    BY <1>2 DEF WokenAt
  <2>2. \A u \in Pending(q)' : u.time \in Nat /\ u.time \in 0..Never
    BY PendingTasksAfter
  <2>. QED
    BY <2>1, <2>2 DEF IsTop, Before
<1>. QED
  BY <1>1, <1>2

-----------------------------------------------------------------------------
(* The clock and the callers *)

\* What a step that leaves the queues and loops alone keeps.
LEMMA SameQueuesKeep ==
    ASSUME QueuesInv, TypeOK',
           UNCHANGED <<source, ownerOf, subsumedBy, timer, loop>>,
           \A q \in Queues : pauses'[q] >= pauses[q], terminated' = terminated,
           PausesCounted'
    PROVE  QueuesInv'
<1>1. \A q \in Queues : pauses[q] \in Nat /\ pauses'[q] \in Nat
  BY QueuesAssumption DEF QueuesAssumption, QueuesInv, TypeOK
<1>2. \A q \in Queues : Served(q)' = Served(q) /\ Served(q) \subseteq Queues
  BY PendingTasks DEF Served, QueuesInv
<1>3. ASSUME NEW q \in Queues PROVE Pending(q)' \subseteq Pending(q)
  BY <1>1, <1>2 DEF Pending, Runnable
<1>4. NoLostWakeup'
  BY <1>3 DEF QueuesInv, NoLostWakeup
<1>5. MergedOneLevel' /\ OneQueuePerTask' /\ DoneTerminated' /\ PausableTop'
  BY DEF QueuesInv, MergedOneLevel, OneQueuePerTask, DoneTerminated, PausableTop
<1>. QED
  BY <1>4, <1>5 DEF QueuesInv

LEMMA TickKeeps == ASSUME QueuesInv, Tick PROVE QueuesInv'
<1>1. TypeOK'
  BY QueuesAssumption DEF QueuesAssumption, QueuesInv, TypeOK, Tick, queueVars, Times
<1>2. PausesCounted' /\ \A q \in Queues : pauses'[q] >= pauses[q]
  BY QueuesAssumption
     DEF QueuesAssumption, QueuesInv, TypeOK, PausesCounted, Tick, queueVars
<1>. QED
  BY <1>1, <1>2, SameQueuesKeep DEF Tick, queueVars

LEMMA PostTaskKeeps ==
    ASSUME QueuesInv, NEW c \in Callers, NEW p \in Posts, PostTask(c, p)
    PROVE  QueuesInv'
<1>1. TypeOK'
  BY DEF QueuesInv, TypeOK, PostTask, queueVars
<1>2. PausesCounted' /\ \A q \in Queues : pauses'[q] >= pauses[q]
  BY QueuesAssumption
     DEF QueuesAssumption, QueuesInv, TypeOK, PausesCounted, PostTask, queueVars
<1>. QED
  BY <1>1, <1>2, SameQueuesKeep DEF PostTask, queueVars

LEMMA PauseKeeps ==
    ASSUME QueuesInv, NEW q \in Pausable, PauseSecondarySource(q)
    PROVE  QueuesInv'
<1>. USE QueuesAssumption DEF QueuesAssumption
<1>1. TypeOK'
  BY DEF QueuesInv, TypeOK, PausesCounted, PauseSecondarySource
<1>2. PausesCounted' /\ \A p \in Queues : pauses'[p] >= pauses[p]
  BY DEF QueuesInv, TypeOK, PausesCounted, PauseSecondarySource
<1>. QED
  BY <1>1, <1>2, SameQueuesKeep DEF PauseSecondarySource

-----------------------------------------------------------------------------
(* The steps that wake a loop *)

LEMMA WakeUpSets ==
    ASSUME TypeOK, NEW q \in Queues, WakeUp(q)
    PROVE  \E time \in 0..Never :
              WokenAt(q, time) /\ timer'[q] = time /\ timer' \in [Queues -> 0..Never]
              /\ \A p \in Queues \ {q} : timer'[p] = timer[p]
<1>1. PICK time \in 0..Never : WokenAt(q, time) /\ timer' = [timer EXCEPT ![q] = time]
  BY DEF WakeUp
<1>2. timer \in [Queues -> 0..Never]
  BY DEF TypeOK
<1>. QED
  BY <1>1, <1>2

LEMMA RegisterKeeps ==
    ASSUME QueuesInv, NEW c \in Callers, RegisterTask(c)
    PROVE  QueuesInv'
<1>. USE QueuesAssumption DEF QueuesAssumption
<1>. DEFINE p == poster[c]
            t == [order |-> order, time |-> p.time, grade |-> p.grade]
<1>1. p \in Posts /\ p.queue \in Queues /\ order \in Nat /\ order < MaxTasks /\ TypeOK
  BY DEF RegisterTask, QueuesInv, TypeOK, Posts
<1>2. t \in Tasks /\ t.order = order
  BY <1>1 DEF Posts, Tasks
<1>3. PICK q \in Queues :
      /\ source' = [source EXCEPT ![p.queue] = @ \cup {t}] /\ order' = order + 1
      /\ poster' = [poster EXCEPT ![c] = Idle] /\ q = Server(p.queue) /\ WakeUp(q)
      /\ UNCHANGED <<clock, pauses, ownerOf, subsumedBy, loop, terminated, merges, paused>>
  BY <1>1 DEF RegisterTask
<1>. HIDE DEF t, p
<1>4. PICK time \in 0..Never :
         WokenAt(q, time) /\ timer'[q] = time /\ timer' \in [Queues -> 0..Never]
         /\ \A r \in Queues \ {q} : timer'[r] = timer[r]
  BY <1>1, <1>2, <1>3, WakeUpSets
<1>5. source \in [Queues -> SUBSET Tasks]
  BY <1>1 DEF TypeOK
<1>6. /\ source' \in [Queues -> SUBSET Tasks] /\ source'[p.queue] = source[p.queue] \cup {t}
      /\ \A r \in Queues \ {p.queue} : source'[r] = source[r]
  BY <1>1, <1>2, <1>3, <1>5
<1>7. \A r \in Queues : \A u \in source[r] : u.order < order /\ u.order \in Nat
  BY <1>1, <1>5 DEF TypeOK, Tasks
<1>8. \A r \in Queues : \A u \in source'[r] : u.order < order'
  BY <1>1, <1>2, <1>3, <1>6, <1>7
<1>9. TypeOK'
  BY <1>1, <1>3, <1>4, <1>6, <1>8 DEF TypeOK
<1>10. OneQueuePerTask'
  BY <1>1, <1>2, <1>6, <1>7 DEF QueuesInv, OneQueuePerTask
<1>11. MergedOneLevel' /\ DoneTerminated' /\ PausableTop' /\ PausesCounted'
  BY <1>3 DEF QueuesInv, MergedOneLevel, DoneTerminated, PausableTop, PausesCounted
<1>12. ASSUME NEW r \in Queues, r # q PROVE Pending(r)' \subseteq Pending(r) /\ timer'[r] = timer[r]
  <2>1. p.queue \notin Served(r) /\ Served(r) \subseteq Queues /\ Served(r)' = Served(r)
    BY <1>1, <1>3, <1>12, ServedIffServer, PendingTasks DEF QueuesInv, Served
  <2>2. \A s \in Served(r) : source'[s] = source[s] /\ pauses'[s] = pauses[s]
    BY <1>3, <1>6, <2>1
  <2>. QED
    BY <1>4, <1>12, <2>1, <2>2 DEF Pending, Runnable
<1>13. \A u \in Pending(q)' : timer'[q] <= u.time
  <2>1. timer[q] \in 0..Never
    BY <1>1, <1>2 DEF TypeOK
  <2>. QED
    BY <1>2, <1>4, <1>9, <2>1, Woken
<1>14. NoLostWakeup'
  <2>. SUFFICES ASSUME NEW r \in Queues, NEW u \in Pending(r)'
                PROVE  timer'[r] <= u.time \/ loop'[r].pc \in {"flush", "run", "done"}
    BY DEF NoLostWakeup
  <2>1. CASE r = q
    BY <1>13, <2>1
  <2>2. CASE r # q
    BY <1>3, <1>12, <2>2 DEF QueuesInv, NoLostWakeup
  <2>. QED
    BY <2>1, <2>2
<1>. QED
  BY <1>9, <1>10, <1>11, <1>14 DEF QueuesInv

\* What a step does that wakes the loops of W and adds nothing to the others.
LEMMA WakingKeeps ==
    ASSUME NoLostWakeup, NEW W \in SUBSET Queues, loop' = loop,
           \A q \in W : \A u \in Pending(q)' : timer'[q] <= u.time,
           \A r \in Queues \ W : Pending(r)' \subseteq Pending(r) /\ timer'[r] = timer[r]
    PROVE  NoLostWakeup'
<1>. SUFFICES ASSUME NEW r \in Queues, NEW u \in Pending(r)'
              PROVE  timer'[r] <= u.time \/ loop'[r].pc \in {"flush", "run", "done"}
  BY DEF NoLostWakeup
<1>1. CASE r \in W
  BY <1>1
<1>2. CASE r \notin W
  BY <1>2 DEF NoLostWakeup
<1>. QED
  BY <1>1, <1>2

LEMMA ResumeKeeps ==
    ASSUME QueuesInv, NEW q \in Pausable, ResumeSecondarySource(q)
    PROVE  QueuesInv'
<1>. USE QueuesAssumption DEF QueuesAssumption
<1>1. TypeOK /\ q \in Queues /\ pauses \in [Queues -> 0..MaxPauses] /\ subsumedBy[q] = NoQueue
  BY DEF QueuesInv, TypeOK, PausableTop
<1>2. /\ pauses[q] > 0 /\ pauses' = [pauses EXCEPT ![q] = @ - 1] /\ WakeUp(q)
      /\ UNCHANGED <<clock, order, source, ownerOf, subsumedBy, loop, terminated, poster,
                     merges, paused>>
  BY DEF ResumeSecondarySource
<1>3. /\ pauses' \in [Queues -> 0..MaxPauses]
      /\ \A r \in Queues \ {q} : pauses'[r] = pauses[r]
      /\ pauses'[q] <= pauses[q]
  BY <1>1, <1>2
<1>4. PICK time \in 0..Never :
         WokenAt(q, time) /\ timer'[q] = time /\ timer' \in [Queues -> 0..Never]
         /\ \A r \in Queues \ {q} : timer'[r] = timer[r]
  BY <1>1, <1>2, WakeUpSets
<1>5. TypeOK'
  BY <1>1, <1>2, <1>3, <1>4 DEF TypeOK
<1>6. MergedOneLevel' /\ OneQueuePerTask' /\ DoneTerminated' /\ PausableTop'
  BY <1>2 DEF QueuesInv, MergedOneLevel, OneQueuePerTask, DoneTerminated, PausableTop
<1>7. PausesCounted'
  <2>1. \A r \in Queues : pauses[r] <= paused /\ pauses'[r] <= pauses[r]
    BY <1>1, <1>3 DEF QueuesInv, PausesCounted
  <2>. QED
    BY <1>1, <1>2, <1>3, <2>1 DEF PausesCounted, TypeOK
<1>8. ASSUME NEW r \in Queues, r # q PROVE Pending(r)' \subseteq Pending(r) /\ timer'[r] = timer[r]
  <2>1. q \notin Served(r) /\ Served(r) \subseteq Queues /\ Served(r)' = Served(r)
    BY <1>1, <1>2, <1>8, ServedIffServer, PendingTasks DEF QueuesInv, Served, Server
  <2>2. \A s \in Served(r) : source'[s] = source[s] /\ pauses'[s] = pauses[s]
    BY <1>2, <1>3, <2>1
  <2>. QED
    BY <1>4, <1>8, <2>1, <2>2 DEF Pending, Runnable
<1>9. \A u \in Pending(q)' : timer'[q] <= u.time
  <2>1. timer[q] \in 0..Never
    BY <1>1 DEF TypeOK
  <2>. QED
    BY <1>1, <1>4, <1>5, <2>1, Woken
<1>10. NoLostWakeup'
  <2>. DEFINE W == {q}
  <2>1. W \subseteq Queues /\ loop' = loop /\ NoLostWakeup
    BY <1>1, <1>2 DEF QueuesInv
  <2>2. \A x \in W : \A u \in Pending(x)' : timer'[x] <= u.time
    BY <1>9
  <2>3. \A r \in Queues \ W : Pending(r)' \subseteq Pending(r) /\ timer'[r] = timer[r]
    BY <1>8
  <2>. HIDE DEF W
  <2>. QED
    BY <2>1, <2>2, <2>3, WakingKeeps
<1>. QED
  BY <1>5, <1>6, <1>7, <1>10 DEF QueuesInv

LEMMA MergeKeeps ==
    ASSUME QueuesInv, NEW o \in Queues, NEW s \in Queues \ Pausable, Merge(o, s)
    PROVE  QueuesInv'
<1>. USE QueuesAssumption DEF QueuesAssumption
<1>1. /\ TypeOK /\ MergedOneLevel
      /\ ownerOf \in [Queues -> SUBSET Queues]
      /\ subsumedBy \in [Queues -> Queues \cup {NoQueue}]
  BY DEF QueuesInv, TypeOK
<1>2. /\ o # s /\ merges < MaxMerges /\ subsumedBy[o] = NoQueue /\ ownerOf[s] = {}
      /\ subsumedBy[s] = NoQueue /\ merges' = merges + 1
      /\ ownerOf' = [ownerOf EXCEPT ![o] = @ \cup {s}]
      /\ subsumedBy' = [subsumedBy EXCEPT ![s] = o] /\ WakeUp(o)
      /\ UNCHANGED <<clock, order, source, pauses, loop, terminated, poster, paused>>
  BY DEF Merge
<1>3. /\ ownerOf' \in [Queues -> SUBSET Queues] /\ ownerOf'[o] = ownerOf[o] \cup {s}
      /\ subsumedBy' \in [Queues -> Queues \cup {NoQueue}] /\ subsumedBy'[s] = o
      /\ \A r \in Queues \ {o} : ownerOf'[r] = ownerOf[r]
      /\ \A r \in Queues \ {s} : subsumedBy'[r] = subsumedBy[r]
  BY <1>1, <1>2
<1>4. PICK time \in 0..Never :
         WokenAt(o, time) /\ timer'[o] = time /\ timer' \in [Queues -> 0..Never]
         /\ \A r \in Queues \ {o} : timer'[r] = timer[r]
  BY <1>1, <1>2, WakeUpSets
<1>5. TypeOK'
  BY <1>1, <1>2, <1>3, <1>4 DEF TypeOK
<1>6. MergedOneLevel'
  BY <1>1, <1>2, <1>3 DEF MergedOneLevel
<1>7. OneQueuePerTask' /\ DoneTerminated' /\ PausableTop' /\ PausesCounted'
  BY <1>2, <1>3 DEF QueuesInv, OneQueuePerTask, DoneTerminated, PausableTop, PausesCounted
<1>8. ASSUME NEW r \in Queues, r # o PROVE Pending(r)' \subseteq Pending(r) /\ timer'[r] = timer[r]
  <2>1. Served(r)' \subseteq Served(r)
    BY <1>2, <1>3, <1>8 DEF Served
  <2>2. \A x \in Queues : Runnable(x)' = Runnable(x)
    BY <1>2 DEF Runnable
  <2>. QED
    BY <1>1, <1>4, <1>8, <2>1, <2>2, PendingTasks DEF Pending
<1>9. \A u \in Pending(o)' : timer'[o] <= u.time
  <2>1. timer[o] \in 0..Never
    BY <1>1 DEF TypeOK
  <2>. QED
    BY <1>1, <1>4, <1>5, <2>1, Woken
<1>10. NoLostWakeup'
  <2>. DEFINE W == {o}
  <2>1. W \subseteq Queues /\ loop' = loop /\ NoLostWakeup
    BY <1>2 DEF QueuesInv
  <2>2. \A x \in W : \A u \in Pending(x)' : timer'[x] <= u.time
    BY <1>9
  <2>3. \A r \in Queues \ W : Pending(r)' \subseteq Pending(r) /\ timer'[r] = timer[r]
    BY <1>8
  <2>. HIDE DEF W
  <2>. QED
    BY <2>1, <2>2, <2>3, WakingKeeps
<1>. QED
  BY <1>5, <1>6, <1>7, <1>10 DEF QueuesInv

LEMMA UnmergeKeeps ==
    ASSUME QueuesInv, NEW o \in Queues, NEW s \in Queues, Unmerge(o, s)
    PROVE  QueuesInv'
<1>. USE QueuesAssumption DEF QueuesAssumption
<1>1. /\ TypeOK /\ MergedOneLevel
      /\ ownerOf \in [Queues -> SUBSET Queues] /\ timer \in [Queues -> 0..Never]
      /\ subsumedBy \in [Queues -> Queues \cup {NoQueue}]
  BY DEF QueuesInv, TypeOK
<1>2. PICK x \in 0..Never, y \in 0..Never :
      /\ subsumedBy[o] = NoQueue /\ s \in ownerOf[o]
      /\ ownerOf' = [ownerOf EXCEPT ![o] = @ \ {s}]
      /\ subsumedBy' = [subsumedBy EXCEPT ![s] = NoQueue]
      /\ WokenAt(o, x) /\ WokenAt(s, y) /\ timer' = [timer EXCEPT ![o] = x, ![s] = y]
      /\ UNCHANGED <<clock, order, source, pauses, loop, terminated, poster, merges, paused>>
  BY DEF Unmerge
<1>3. /\ ownerOf' \in [Queues -> SUBSET Queues] /\ ownerOf'[o] = ownerOf[o] \ {s}
      /\ subsumedBy' \in [Queues -> Queues \cup {NoQueue}] /\ subsumedBy'[s] = NoQueue
      /\ \A r \in Queues \ {o} : ownerOf'[r] = ownerOf[r]
      /\ \A r \in Queues \ {s} : subsumedBy'[r] = subsumedBy[r]
  BY <1>1, <1>2
<1>4. o # s
  BY <1>1, <1>2 DEF MergedOneLevel
<1>5. /\ timer' \in [Queues -> 0..Never] /\ timer'[o] = x /\ timer'[s] = y
      /\ \A r \in Queues \ {o, s} : timer'[r] = timer[r]
  BY <1>1, <1>2, <1>4
<1>6. TypeOK'
  BY <1>1, <1>2, <1>3, <1>5 DEF TypeOK
<1>7. MergedOneLevel'
  BY <1>1, <1>2, <1>3 DEF MergedOneLevel
<1>8. OneQueuePerTask' /\ DoneTerminated' /\ PausableTop' /\ PausesCounted'
  BY <1>2, <1>3 DEF QueuesInv, OneQueuePerTask, DoneTerminated, PausableTop, PausesCounted
<1>9. ASSUME NEW r \in Queues \ {o, s}
      PROVE  Pending(r)' \subseteq Pending(r) /\ timer'[r] = timer[r]
  <2>1. Served(r)' \subseteq Served(r)
    BY <1>2, <1>3 DEF Served
  <2>2. \A z \in Queues : Runnable(z)' = Runnable(z)
    BY <1>2 DEF Runnable
  <2>. QED
    BY <1>1, <1>5, <2>1, <2>2, PendingTasks DEF Pending
<1>10. (\A u \in Pending(o)' : timer'[o] <= u.time) /\ (\A u \in Pending(s)' : timer'[s] <= u.time)
  <2>1. timer[o] \in 0..Never /\ timer[s] \in 0..Never
    BY <1>1
  <2>. QED
    BY <1>2, <1>5, <1>6, <2>1, Woken
<1>11. NoLostWakeup'
  <2>. DEFINE W == {o, s}
  <2>1. W \subseteq Queues /\ loop' = loop /\ NoLostWakeup
    BY <1>2 DEF QueuesInv
  <2>2. \A z \in W : \A u \in Pending(z)' : timer'[z] <= u.time
    BY <1>10
  <2>3. \A r \in Queues \ W : Pending(r)' \subseteq Pending(r) /\ timer'[r] = timer[r]
    BY <1>9
  <2>. HIDE DEF W
  <2>. QED
    BY <2>1, <2>2, <2>3, WakingKeeps
<1>. QED
  BY <1>6, <1>7, <1>8, <1>11 DEF QueuesInv

-----------------------------------------------------------------------------
(* The steps of a loop *)

\* A step of the loop of q that only takes tasks away.
LoopMove(q, to) ==
    /\ loop' = [loop EXCEPT ![q] = to]
    /\ timer' \in [Queues -> 0..Never] /\ \A r \in Queues \ {q} : timer'[r] = timer[r]
    /\ source' \in [Queues -> SUBSET Tasks] /\ \A r \in Queues : source'[r] \subseteq source[r]
    /\ terminated' = terminated /\ (to.pc = "done" => q \in terminated)
    /\ UNCHANGED <<clock, order, pauses, ownerOf, subsumedBy, poster, merges, paused>>
    /\ \A u \in Pending(q) : timer'[q] <= u.time \/ to.pc \in {"flush", "run", "done"}

LEMMA LoopMoveKeeps ==
    ASSUME QueuesInv, NEW q \in Queues, NEW to \in [pc : Pc, now : Times, last : BOOLEAN],
           LoopMove(q, to)
    PROVE  QueuesInv'
<1>1. TypeOK /\ loop \in [Queues -> [pc : Pc, now : Times, last : BOOLEAN]]
      /\ \A r \in Queues : \A t \in source[r] : t.order < order
  BY DEF QueuesInv, TypeOK
<1>2. /\ loop' \in [Queues -> [pc : Pc, now : Times, last : BOOLEAN]] /\ loop'[q] = to
      /\ \A r \in Queues \ {q} : loop'[r] = loop[r]
      /\ \A r \in Queues : \A t \in source'[r] : t.order < order
  BY <1>1 DEF LoopMove
<1>3. TypeOK'
  BY <1>1, <1>2 DEF TypeOK, LoopMove
<1>4. MergedOneLevel' /\ PausableTop' /\ PausesCounted'
  BY DEF QueuesInv, LoopMove, MergedOneLevel, PausableTop, PausesCounted
<1>5. OneQueuePerTask'
  BY DEF QueuesInv, LoopMove, OneQueuePerTask
<1>6. DoneTerminated'
  BY <1>2 DEF QueuesInv, LoopMove, DoneTerminated
<1>7. ASSUME NEW r \in Queues PROVE Pending(r)' \subseteq Pending(r)
  <2>1. Served(r)' = Served(r) /\ Served(r) \subseteq Queues
    BY <1>1, PendingTasks DEF LoopMove, Served
  <2>2. \A x \in Queues : Runnable(x)' \subseteq Runnable(x)
    BY DEF LoopMove, Runnable
  <2>. QED
    BY <2>1, <2>2 DEF Pending
<1>8. NoLostWakeup'
  <2>. SUFFICES ASSUME NEW r \in Queues, NEW u \in Pending(r)'
                PROVE  timer'[r] <= u.time \/ loop'[r].pc \in {"flush", "run", "done"}
    BY DEF NoLostWakeup
  <2>1. u \in Pending(r)
    BY <1>7
  <2>2. CASE r = q
    BY <1>2, <2>1, <2>2 DEF LoopMove
  <2>3. CASE r # q
    BY <1>2, <2>1, <2>3 DEF LoopMove, QueuesInv, NoLostWakeup
  <2>. QED
    BY <2>2, <2>3
<1>. QED
  BY <1>3, <1>4, <1>5, <1>6, <1>8 DEF QueuesInv

LEMMA LoopStepMoves ==
    ASSUME QueuesInv, NEW q \in Queues, LoopStep(q)
    PROVE  \E to \in [pc : Pc, now : Times, last : BOOLEAN] : LoopMove(q, to)
<1>. DEFINE Places == [pc : Pc, now : Times, last : BOOLEAN]
<1>. USE QueuesAssumption DEF QueuesAssumption
<1>1. /\ TypeOK /\ loop[q] \in Places /\ timer \in [Queues -> 0..Never] /\ clock \in Times
      /\ source \in [Queues -> SUBSET Tasks] /\ DoneTerminated
      /\ \A t \in Pending(q) : t.time \in Nat /\ t.time \in 0..Never
  BY PendingTasks DEF QueuesInv, TypeOK
<1>2. loop[q].pc \notin {"flush", "run", "done"} => \A u \in Pending(q) : timer[q] <= u.time
  BY DEF QueuesInv, NoLostWakeup
<1>3. \A pc \in Pc : At(pc) \in Places /\ At(pc).pc = pc
                     /\ Flushing(q, pc) \in Places /\ Flushing(q, pc).pc = pc
  BY <1>1 DEF At, Flushing, Times
<1>4. \A b \in BOOLEAN : Flush(b) \in Places /\ Flush(b).pc = "flush"
  BY <1>1 DEF Flush, Pc
<1>5. CASE PollReturns(q)
  <2>1. At("fired") \in Places /\ At("fired").pc = "fired"
    BY <1>3 DEF Pc
  <2>2. LoopMove(q, At("fired"))
    BY <1>1, <1>2, <1>5, <2>1 DEF PollReturns, LoopMove, Goes, queueVars
  <2>. QED
    BY <2>1, <2>2
<1>6. CASE TimerDrain(q)
  <2>1. CASE timer[q] <= clock
    <3>1. Flush(FALSE) \in Places /\ Flush(FALSE).pc = "flush"
      BY <1>4
    <3>0. Never \in 0..Never
      BY DEF Never
    <3>2. /\ timer' = [timer EXCEPT ![q] = Never]
          /\ loop' = [loop EXCEPT ![q] = Flush(FALSE)]
          /\ UNCHANGED <<clock, order, source, pauses, ownerOf, subsumedBy, terminated, poster,
                         merges, paused>>
      BY <1>6, <2>1 DEF TimerDrain, Goes
    <3>3. LoopMove(q, Flush(FALSE))
      BY <1>1, <3>0, <3>1, <3>2 DEF LoopMove
    <3>. QED
      BY <3>1, <3>3
  <2>2. CASE ~(timer[q] <= clock)
    <3>1. At("poll") \in Places /\ At("poll").pc = "poll"
      BY <1>3 DEF Pc
    <3>2. LoopMove(q, At("poll"))
      BY <1>1, <1>2, <1>6, <2>2, <3>1 DEF TimerDrain, LoopMove, Goes
    <3>. QED
      BY <3>1, <3>2
  <2>. QED
    BY <2>1, <2>2
<1>7. CASE GetNextTaskToRun(q)
  <2>1. Flushing(q, "run") \in Places /\ Flushing(q, "run").pc = "run"
    BY <1>3 DEF Pc
  <2>2. PICK t \in Pending(q) : /\ timer' = [timer EXCEPT ![q] = t.time]
                                /\ source' = [s \in Queues |-> source[s] \ {t}]
    BY <1>7 DEF GetNextTaskToRun
  <2>3. LoopMove(q, Flushing(q, "run"))
    BY <1>1, <1>7, <2>1, <2>2 DEF GetNextTaskToRun, LoopMove, Goes
  <2>. QED
    BY <2>1, <2>3
<1>8. CASE FinishTask(q)
  <2>1. Flushing(q, "flush") \in Places /\ Flushing(q, "flush").pc = "flush"
    BY <1>3 DEF Pc
  <2>2. LoopMove(q, Flushing(q, "flush"))
    BY <1>1, <1>8, <2>1 DEF FinishTask, LoopMove, Goes, queueVars
  <2>. QED
    BY <2>1, <2>2
<1>9. CASE FlushEnds(q)
  <2>1. /\ timer' \in [Queues -> 0..Never] /\ \A r \in Queues \ {q} : timer'[r] = timer[r]
        /\ \A u \in Pending(q) : timer'[q] <= u.time
    BY <1>1, <1>9 DEF FlushEnds, IsTop, Before
  <2>2. UNCHANGED <<clock, order, pauses, ownerOf, subsumedBy, terminated, poster, merges, paused>>
    BY <1>9 DEF FlushEnds
  <2>3. CASE q \notin terminated
    <3>1. At("poll") \in Places /\ At("poll").pc = "poll"
      BY <1>3 DEF Pc
    <3>2. LoopMove(q, At("poll"))
      BY <1>1, <1>9, <2>1, <2>2, <2>3, <3>1 DEF FlushEnds, LoopMove, Goes
    <3>. QED
      BY <3>1, <3>2
  <2>4. CASE q \in terminated /\ ~loop[q].last
    <3>1. LoopMove(q, Flush(TRUE))
      BY <1>1, <1>4, <1>9, <2>1, <2>2, <2>4 DEF FlushEnds, LoopMove, Goes
    <3>. QED
      BY <1>4, <3>1
  <2>5. CASE q \in terminated /\ loop[q].last
    <3>1. At("done") \in Places /\ At("done").pc = "done"
      BY <1>3 DEF Pc
    <3>2. LoopMove(q, At("done"))
      BY <1>1, <1>9, <2>1, <2>2, <2>5, <3>1 DEF FlushEnds, LoopMove, Goes, DisposeTasks
    <3>. QED
      BY <3>1, <3>2
  <2>. QED
    BY <2>3, <2>4, <2>5
<1>. QED
  BY <1>5, <1>6, <1>7, <1>8, <1>9 DEF LoopStep

LEMMA TerminateKeeps ==
    ASSUME QueuesInv, NEW q \in Queues, Terminate(q)
    PROVE  QueuesInv'
<1>. USE QueuesAssumption DEF QueuesAssumption
<1>1. /\ timer' \in [Queues -> 0..Never] /\ \A r \in Queues \ {q} : timer'[r] = timer[r]
  BY DEF QueuesInv, TypeOK, Terminate, Times, Never
<1>2. TypeOK'
  BY <1>1 DEF QueuesInv, TypeOK, Terminate
<1>3. /\ MergedOneLevel' /\ OneQueuePerTask' /\ DoneTerminated' /\ PausableTop'
      /\ PausesCounted'
  BY DEF QueuesInv, MergedOneLevel, OneQueuePerTask, DoneTerminated, PausableTop, PausesCounted,
     Terminate
<1>4. \A r \in Queues : Pending(r)' = Pending(r)
  BY DEF Pending, Served, Runnable, Terminate
<1>5. NoLostWakeup'
  BY <1>1, <1>4 DEF QueuesInv, NoLostWakeup, Terminate
<1>. QED
  BY <1>2, <1>3, <1>5 DEF QueuesInv

-----------------------------------------------------------------------------
(* Theorems *)

LEMMA QueuesInductive == QueuesInv /\ [Next]_vars => QueuesInv'
<1>. SUFFICES ASSUME QueuesInv, [Next]_vars PROVE QueuesInv'
  OBVIOUS
<1>1. CASE UNCHANGED vars
  <2>1. \A q \in Queues : Pending(q)' = Pending(q)
    BY <1>1 DEF vars, Pending, Served, Runnable
  <2>. QED
    BY <1>1, <2>1 DEF vars, QueuesInv, TypeOK, MergedOneLevel, NoLostWakeup, OneQueuePerTask,
       DoneTerminated, PausableTop, PausesCounted
<1>2. CASE Post
  BY <1>2, RegisterKeeps, PostTaskKeeps DEF Post
<1>3. CASE Remerge
  BY <1>3, MergeKeeps, UnmergeKeeps DEF Remerge
<1>4. CASE Pausing
  BY <1>4, PauseKeeps, ResumeKeeps DEF Pausing
<1>5. CASE Looping
  BY <1>5, LoopStepMoves, LoopMoveKeeps, TerminateKeeps DEF Looping
<1>. QED
  BY <1>1, <1>2, <1>3, <1>4, <1>5, TickKeeps DEF Next

\* Types, merges and wake-ups are in order together, whatever is posted, merged,
\* unmerged, paused and terminated in whatever order.
THEOREM QueuesInvariant == Spec => []QueuesInv
  BY InitQueues, QueuesInductive, PTL DEF Spec

\* Every variable stays in its type: a timer is set to a time or not armed, and
\* the number of a task is below the counter that gave it (task_queues.cc:99).
THEOREM QueuesTypeCorrect == Spec => []TypeOK
<1>1. QueuesInv => TypeOK
  BY DEF QueuesInv
<1>. QED
  BY <1>1, QueuesInvariant, PTL

\* Whatever queues are merged and unmerged, in whatever order, the two records
\* of a merge agree and an owner is never subsumed (message_loop_task_queues.cc:212-304).
THEOREM MergesStayOneLevel == Spec => []MergedOneLevel
<1>1. QueuesInv => MergedOneLevel
  BY DEF QueuesInv
<1>. QED
  BY <1>1, QueuesInvariant, PTL

\* No wake-up is lost: posting, merging, unmerging, resuming and the loop's own
\* look at its queues leave the timer set for whatever there is to run.
THEOREM NoWakeupIsLost == Spec => []NoLostWakeup
<1>1. QueuesInv => NoLostWakeup
  BY DEF QueuesInv
<1>. QED
  BY <1>1, QueuesInvariant, PTL

LEMMA StepStartsInOrder ==
    ASSUME QueuesInv, [Next]_vars, NEW s \in Queues, NEW t \in source[s] \ source'[s],
           loop'[Server(s)].pc = "run", NEW u \in source'[s]
    PROVE  Before(t, u) \/ (u.grade = "dart" /\ pauses[s] > 0)
<1>1. /\ source \in [Queues -> SUBSET Tasks] /\ loop \in [Queues -> [pc : Pc, now : Times, last : BOOLEAN]]
      /\ pauses[s] \in Nat /\ OneQueuePerTask /\ Server(s) \in Queues
  BY QueuesAssumption, ServedIffServer DEF QueuesAssumption, QueuesInv, TypeOK
<1>2. CASE source' = source
  BY <1>2
<1>3. ASSUME NEW c \in Callers, RegisterTask(c) PROVE source[s] \subseteq source'[s]
  BY <1>1, <1>3 DEF RegisterTask
<1>4. ASSUME NEW q \in Queues, GetNextTaskToRun(q)
      PROVE  Before(t, u) \/ (u.grade = "dart" /\ pauses[s] > 0)
  <2>1. PICK v \in Pending(q) : IsTop(q, v) /\ source' = [r \in Queues |-> source[r] \ {v}]
    BY <1>4 DEF GetNextTaskToRun
  <2>2. v = t /\ u # t /\ u \in source[s]
    BY <1>1, <2>1
  <2>3. PICK r \in Served(q) : t \in source[r]
    BY <2>1, <2>2 DEF Pending, Runnable
  <2>4. r = s
    BY <1>1, <2>3, PendingTasks DEF OneQueuePerTask, QueuesInv
  <2>5. CASE u \in Runnable(s)
    BY <2>1, <2>2, <2>3, <2>4, <2>5 DEF IsTop, Pending
  <2>6. CASE u \notin Runnable(s)
    BY <1>1, <2>2, <2>6 DEF Runnable
  <2>. QED
    BY <2>5, <2>6
<1>5. ASSUME NEW q \in Queues, FlushEnds(q) PROVE source'[s] = source[s] \/ source'[s] = {}
  BY <1>1, <1>5 DEF FlushEnds, DisposeTasks
<1>. QED
  BY <1>2, <1>3, <1>4, <1>5
     DEF Next, vars, queueVars, Tick, Post, PostTask, Remerge, Merge, Unmerge, Pausing,
         PauseSecondarySource, ResumeSecondarySource, Looping, LoopStep, PollReturns,
         TimerDrain, FinishTask, Terminate

\* Tasks leave a queue in the order of their times and numbers, across merges
\* and pauses (task_source.cc:63, delayed_task.cc:36).
THEOREM TasksStartedInOrder == Spec => StartedInOrder
<1>. DEFINE A == \A s \in Queues : \A t \in source[s] \ source'[s] :
        loop'[Server(s)].pc = "run" =>
            \A u \in source'[s] : Before(t, u) \/ (u.grade = "dart" /\ pauses[s] > 0)
<1>1. QueuesInv /\ [Next]_vars => [A]_vars
  BY StepStartsInOrder
<1>. QED
  BY <1>1, QueuesInvariant, PTL DEF Spec, StartedInOrder

LEMMA StepAfterShutdown ==
    ASSUME QueuesInv, [Next]_vars, NEW q \in Queues, Settled(q)
    PROVE  Settled(q)' /\ source'[q] \subseteq source[q]
<1>1. /\ loop[q].pc = "done" /\ q \in terminated
      /\ \A c \in Callers : poster[c] = Idle \/ poster[c].queue # q
  BY DEF Settled, QueuesInv, DoneTerminated
<1>2. /\ source \in [Queues -> SUBSET Tasks] /\ poster \in [Callers -> Posts \cup {Idle}]
      /\ loop \in [Queues -> [pc : Pc, now : Times, last : BOOLEAN]]
  BY DEF QueuesInv, TypeOK
<1>3. CASE UNCHANGED <<source, loop, poster>>
  BY <1>1, <1>3 DEF Settled
<1>4. ASSUME NEW c \in Callers, RegisterTask(c)
      PROVE  Settled(q)' /\ source'[q] \subseteq source[q]
  BY <1>1, <1>2, <1>4 DEF RegisterTask, Settled
<1>5. ASSUME NEW c \in Callers, NEW p \in Posts, PostTask(c, p)
      PROVE  Settled(q)' /\ source'[q] \subseteq source[q]
  BY <1>1, <1>2, <1>5, QueuesAssumption DEF QueuesAssumption, PostTask, queueVars, Settled
<1>6. ASSUME NEW o \in Queues, LoopStep(o)
      PROVE  Settled(q)' /\ source'[q] \subseteq source[q]
  <2>1. o # q /\ poster' = poster
    BY <1>1, <1>6 DEF LoopStep, PollReturns, TimerDrain, GetNextTaskToRun, FinishTask, FlushEnds
  <2>2. PICK to \in [pc : Pc, now : Times, last : BOOLEAN] : LoopMove(o, to)
    BY <1>6, LoopStepMoves
  <2>. QED
    BY <1>1, <1>2, <2>1, <2>2 DEF LoopMove, Settled
<1>. QED
  BY <1>3, <1>4, <1>5, <1>6
     DEF Next, vars, queueVars, Tick, Post, Remerge, Merge, Unmerge, Pausing,
         PauseSecondarySource, ResumeSecondarySource, Looping, Terminate

\* Once the loop of a queue has ended and the posts already past its check are
\* in, nothing is added to the queue (message_loop_impl.cc:60).
THEOREM NothingIsAddedAfterShutdown == Spec => NothingAfterShutdown
<1>. DEFINE A == \A q \in Queues : Settled(q) => Settled(q)' /\ source'[q] \subseteq source[q]
<1>1. QueuesInv /\ [Next]_vars => [A]_vars
  BY StepAfterShutdown
<1>. QED
  BY <1>1, QueuesInvariant, PTL DEF Spec, NothingAfterShutdown
=============================================================================
