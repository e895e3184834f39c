------------------------------- MODULE TaskQueues -------------------------------
(***************************************************************************)
(* The task queues of the Flutter engine's threads and the message loops   *)
(* that serve them.                                                        *)
(*                                                                         *)
(*   fml/message_loop_task_queues.cc   queues, merging, who wakes up       *)
(*   fml/task_source.cc                a queue's two heaps                 *)
(*   fml/message_loop_impl.cc          posting, flushing, termination      *)
(*   fml/platform/linux/*.cc           epoll and the timer of a loop       *)
(*                                                                         *)
(* A queue has one loop, on one thread, woken by one timer.  A queue may   *)
(* be subsumed by another, whose loop then runs the tasks of both.  Every  *)
(* function of MessageLoopTaskQueues holds queue_mutex_ throughout, so     *)
(* each is one step; a loop takes several.  Task observers are left out.   *)
(***************************************************************************)
EXTENDS Integers, FiniteSets

CONSTANTS
    Queues,     \* task queues, one loop each
    NoQueue,    \* kUnmerged
    Callers,    \* threads that call PostTask
    Idle,       \* a caller that is not posting
    Pausable,   \* queues whose Dart tasks the vsync waiter pauses
    Ending,     \* queues of threads that are joined
    MaxTime,    \* bound of the clock and of target times
    MaxTasks,   \* bound of the tasks ever posted
    MaxMerges,  \* bound of the merges
    MaxPauses   \* bound of the pauses

Grades == {"unspecified", "dart"}   \* kUnspecified, kDartEventLoop
Times  == 0..MaxTime
Never  == MaxTime + 1               \* a timer that is not armed
Tasks  == [order : 0..(MaxTasks - 1), time : Times, grade : Grades]
\* The tasks of the Dart event loop are posted to the UI queue.
Posts  == {p \in [queue : Queues, time : Times, grade : Grades] :
             p.grade = "dart" => p.queue \in Pausable}

ASSUME QueuesAssumption ==
    /\ NoQueue \notin Queues /\ Idle \notin Posts /\ Pausable \subseteq Queues
    /\ Ending \subseteq Queues
    /\ MaxTime \in Nat /\ MaxTasks \in Nat /\ MaxMerges \in Nat /\ MaxPauses \in Nat

VARIABLES
    clock,
    order,        \* order_, the number of the next task
    source,       \* tasks of each queue, its two heaps together
    pauses,       \* secondary_pause_requests_ of each queue
    ownerOf,      \* owner_of, the queues each queue subsumes
    subsumedBy,   \* subsumed_by
    timer,        \* when the timer of each loop fires
    loop,         \* where each loop is, and the `now` of its flush
    terminated,   \* loops that do not accept tasks any more
    poster,       \* what each caller is posting, past the check of terminated_
    merges, paused   \* counters for the bounds

vars == <<clock, order, source, pauses, ownerOf, subsumedBy, timer, loop, terminated,
          poster, merges, paused>>
queueVars == <<order, source, pauses, ownerOf, subsumedBy, timer>>

-----------------------------------------------------------------------------
(* What a queue shows to the loop that serves it *)

\* TaskSource: a paused source hides the tasks of the Dart event loop.
Runnable(q) == {t \in source[q] : pauses[q] = 0 \/ t.grade # "dart"}

Server(q) == IF subsumedBy[q] = NoQueue THEN q ELSE subsumedBy[q]

\* The queues whose tasks the loop of q runs: none while q is subsumed.
Served(q) == IF subsumedBy[q] = NoQueue THEN {q} \cup ownerOf[q] ELSE {}

\* DelayedTask::operator>
Before(t, u) == t.time < u.time \/ (t.time = u.time /\ t.order < u.order)

\* What HasPendingTasksUnlocked and PeekNextTaskUnlocked look at.
Pending(q) == UNION {Runnable(s) : s \in Served(q)}

\* t is what PeekNextTaskUnlocked(q) returns.
IsTop(q, t) == t \in Pending(q) /\ \A u \in Pending(q) : u = t \/ Before(t, u)

\* What the timer of q is set to after a step by
\* "if (HasPendingTasksUnlocked(q)) WakeUpUnlocked(q, GetNextWakeTimeUnlocked(q))".
WokenAt(q, time) ==
    IF Pending(q)' = {} THEN time = timer[q]
    ELSE \E t \in Pending(q)' : IsTop(q, t)' /\ time = t.time

WakeUp(q) == \E time \in 0..Never : WokenAt(q, time) /\ timer' = [timer EXCEPT ![q] = time]

-----------------------------------------------------------------------------

Pc == {"poll", "fired", "flush", "run", "done"}
At(pc) == [pc |-> pc, now |-> 0, last |-> FALSE]   \* outside a flush

Init ==
    /\ clock = 0 /\ order = 0
    /\ source = [q \in Queues |-> {}] /\ pauses = [q \in Queues |-> 0]
    /\ ownerOf = [q \in Queues |-> {}] /\ subsumedBy = [q \in Queues |-> NoQueue]
    /\ timer = [q \in Queues |-> Never]
    /\ loop = [q \in Queues |-> At("poll")]
    /\ terminated = {} /\ poster = [c \in Callers |-> Idle]
    /\ merges = 0 /\ paused = 0

Tick ==
    /\ clock < MaxTime /\ clock' = clock + 1
    /\ UNCHANGED <<queueVars, loop, terminated, poster, merges, paused>>

-----------------------------------------------------------------------------
(* Posting: the check of terminated_ and the registration are apart *)

\* Mutant: the check of terminated_ is dropped.
MutantPostTask(c, p) ==
    /\ poster[c] = Idle
    /\ poster' = [poster EXCEPT ![c] = p]
    /\ UNCHANGED <<clock, queueVars, loop, terminated, merges, paused>>

PostTask(c, p) ==
    /\ poster[c] = Idle /\ p.queue \notin terminated
    /\ poster' = [poster EXCEPT ![c] = p]
    /\ UNCHANGED <<clock, queueVars, loop, terminated, merges, paused>>

\* Mutant: the loop of the queue is woken although another one serves it.
MutantRegisterWakesQueue(c) ==
    LET p == poster[c] IN
    /\ p # Idle /\ order < MaxTasks
    /\ poster' = [poster EXCEPT ![c] = Idle]
    /\ order' = order + 1
    /\ source' = [source EXCEPT ![p.queue] =
                    @ \cup {[order |-> order, time |-> p.time, grade |-> p.grade]}]
    /\ UNCHANGED <<clock, pauses, ownerOf, subsumedBy, loop, terminated, merges, paused>>
    /\ \E q \in Queues : q = p.queue /\ WakeUp(q)

RegisterTask(c) ==
    LET p == poster[c] IN
    /\ p # Idle /\ order < MaxTasks
    /\ poster' = [poster EXCEPT ![c] = Idle]
    /\ order' = order + 1
    /\ source' = [source EXCEPT ![p.queue] =
                    @ \cup {[order |-> order, time |-> p.time, grade |-> p.grade]}]
    /\ UNCHANGED <<clock, pauses, ownerOf, subsumedBy, loop, terminated, merges, paused>>
    /\ \E q \in Queues : q = Server(p.queue) /\ WakeUp(q)

-----------------------------------------------------------------------------
(* Merging *)

Merge(o, s) ==
    /\ o # s /\ merges < MaxMerges
    /\ s \notin ownerOf[o]
    /\ subsumedBy[o] = NoQueue /\ ownerOf[s] = {} /\ subsumedBy[s] = NoQueue
    /\ merges' = merges + 1
    /\ ownerOf' = [ownerOf EXCEPT ![o] = @ \cup {s}]
    /\ subsumedBy' = [subsumedBy EXCEPT ![s] = o]
    /\ UNCHANGED <<clock, order, source, pauses, loop, terminated, poster, paused>>
    /\ WakeUp(o)

\* Mutant: only the loop of the owner is woken.
MutantUnmerge(o, s) ==
    /\ ownerOf[o] # {} /\ subsumedBy[o] = NoQueue
    /\ subsumedBy[s] # NoQueue /\ s \in ownerOf[o]
    /\ ownerOf' = [ownerOf EXCEPT ![o] = @ \ {s}]
    /\ subsumedBy' = [subsumedBy EXCEPT ![s] = NoQueue]
    /\ UNCHANGED <<clock, order, source, pauses, loop, terminated, poster, merges, paused>>
    /\ WakeUp(o)

Unmerge(o, s) ==
    /\ ownerOf[o] # {} /\ subsumedBy[o] = NoQueue
    /\ subsumedBy[s] # NoQueue /\ s \in ownerOf[o]
    /\ ownerOf' = [ownerOf EXCEPT ![o] = @ \ {s}]
    /\ subsumedBy' = [subsumedBy EXCEPT ![s] = NoQueue]
    /\ UNCHANGED <<clock, order, source, pauses, loop, terminated, poster, merges, paused>>
    /\ \E x, y \in 0..Never :
        /\ WokenAt(o, x) /\ WokenAt(s, y)
        /\ timer' = [timer EXCEPT ![o] = x, ![s] = y]

-----------------------------------------------------------------------------
(* The vsync waiter pauses the Dart tasks of the UI queue during a frame *)

PauseSecondarySource(q) ==
    /\ paused < MaxPauses /\ paused' = paused + 1
    /\ pauses' = [pauses EXCEPT ![q] = @ + 1]
    /\ UNCHANGED <<clock, order, source, ownerOf, subsumedBy, timer, loop, terminated,
                   poster, merges>>

ResumeSecondarySource(q) ==
    /\ pauses[q] > 0
    /\ pauses' = [pauses EXCEPT ![q] = @ - 1]
    /\ UNCHANGED <<clock, order, source, ownerOf, subsumedBy, loop, terminated, poster,
                   merges, paused>>
    /\ WakeUp(q)

-----------------------------------------------------------------------------
(* The loop of a queue *)

Goes(q, to) == loop' = [loop EXCEPT ![q] = to]
Flushing(q, pc) == [loop[q] EXCEPT !.pc = pc]
Flush(last) == [pc |-> "flush", now |-> clock, last |-> last]

\* epoll_wait returns because the timer has expired.
PollReturns(q) ==
    /\ loop[q].pc = "poll" /\ timer[q] <= clock /\ Goes(q, At("fired"))
    /\ UNCHANGED <<clock, queueVars, terminated, poster, merges, paused>>

\* OnEventFired: a timer set to the future since then cannot be read, and the
\* loop goes back to epoll_wait.
TimerDrain(q) ==
    /\ loop[q].pc = "fired"
    /\ IF timer[q] <= clock
       THEN timer' = [timer EXCEPT ![q] = Never] /\ Goes(q, Flush(FALSE))
       ELSE timer' = timer /\ Goes(q, At("poll"))
    /\ UNCHANGED <<clock, order, source, pauses, ownerOf, subsumedBy, terminated, poster,
                   merges, paused>>

\* Mutant: any task whose time has come is taken.
MutantGetNextTaskToRun(q) ==
    /\ loop[q].pc = "flush" /\ Goes(q, Flushing(q, "run"))
    /\ \E t \in Pending(q) :
        /\ t.time <= loop[q].now
        /\ timer' = [timer EXCEPT ![q] = t.time]
        /\ source' = [s \in Queues |-> source[s] \ {t}]
    /\ UNCHANGED <<clock, order, pauses, ownerOf, subsumedBy, terminated, poster, merges,
                   paused>>

\* GetNextTaskToRun sets the timer for the task on top, then takes the task if
\* its time has come.
GetNextTaskToRun(q) ==
    /\ loop[q].pc = "flush" /\ Goes(q, Flushing(q, "run"))
    /\ \E t \in Pending(q) :
        /\ IsTop(q, t) /\ t.time <= loop[q].now
        /\ timer' = [timer EXCEPT ![q] = t.time]
        /\ source' = [s \in Queues |-> source[s] \ {t}]
    /\ UNCHANGED <<clock, order, pauses, ownerOf, subsumedBy, terminated, poster, merges,
                   paused>>

FinishTask(q) ==
    /\ loop[q].pc = "run" /\ Goes(q, Flushing(q, "flush"))
    /\ UNCHANGED <<clock, queueVars, terminated, poster, merges, paused>>

\* DisposeTasks: a loop that ends drops what it serves.
DisposeTasks(q) ==
    [s \in Queues |-> IF s = q \/ s \in ownerOf[q] THEN {} ELSE source[s]]

\* GetNextTaskToRun returns null.  The loop polls again, or, once terminated,
\* flushes a last time and ends.
FlushEnds(q) ==
    /\ loop[q].pc = "flush"
    /\ \/ Pending(q) = {} /\ timer' = timer
       \/ \E t \in Pending(q) :
            IsTop(q, t) /\ t.time > loop[q].now /\ timer' = [timer EXCEPT ![q] = t.time]
    /\ \/ q \notin terminated /\ Goes(q, At("poll")) /\ source' = source
       \/ q \in terminated /\ ~loop[q].last /\ Goes(q, Flush(TRUE)) /\ source' = source
       \/ q \in terminated /\ loop[q].last /\ Goes(q, At("done"))
          /\ source' = DisposeTasks(q)
    /\ UNCHANGED <<clock, order, pauses, ownerOf, subsumedBy, terminated, poster, merges,
                   paused>>

\* Thread::Join posts a task that terminates the loop it finds itself on.
Terminate(q) ==
    /\ q \in Ending /\ loop[q].pc = "run" /\ q \notin terminated
    /\ terminated' = terminated \cup {q}
    /\ timer' = [timer EXCEPT ![q] = clock]
    /\ UNCHANGED <<clock, order, source, pauses, ownerOf, subsumedBy, loop, poster, merges,
                   paused>>

-----------------------------------------------------------------------------

Post   == \E c \in Callers : RegisterTask(c) \/ \E p \in Posts : PostTask(c, p)
Remerge == \E o \in Queues, s \in Queues \ Pausable : Merge(o, s) \/ Unmerge(o, s)
Pausing == \E q \in Pausable : PauseSecondarySource(q) \/ ResumeSecondarySource(q)
LoopStep(q) == PollReturns(q) \/ TimerDrain(q) \/ GetNextTaskToRun(q) \/ FinishTask(q)
               \/ FlushEnds(q)
Looping == \E q \in Queues : LoopStep(q) \/ Terminate(q)

Next == Tick \/ Post \/ Remerge \/ Pausing \/ Looping

\* Time passes, threads run, a task ends and a pause is followed by its resume.
\* Nobody is obliged to post, to merge or to terminate.
Fairness ==
    /\ WF_vars(Tick)
    /\ \A q \in Queues : WF_vars(LoopStep(q))
    /\ \A q \in Pausable : WF_vars(ResumeSecondarySource(q))

Spec == Init /\ [][Next]_vars
FairSpec == Spec /\ Fairness

-----------------------------------------------------------------------------

TypeOK ==
    /\ clock \in Times /\ order \in 0..MaxTasks
    /\ source \in [Queues -> SUBSET Tasks] /\ pauses \in [Queues -> 0..MaxPauses]
    /\ ownerOf \in [Queues -> SUBSET Queues]
    /\ subsumedBy \in [Queues -> Queues \cup {NoQueue}]
    /\ timer \in [Queues -> 0..Never]
    /\ loop \in [Queues -> [pc : Pc, now : Times, last : BOOLEAN]]
    /\ terminated \subseteq Queues /\ poster \in [Callers -> Posts \cup {Idle}]
    /\ merges \in 0..MaxMerges /\ paused \in 0..MaxPauses
    /\ \A q \in Queues : \A t \in source[q] : t.order < order

\* "One TaskQueue can subsume multiple other TaskQueues [...] an owner can
\* never be subsumed" (message_loop_task_queues.h:113): the two records of a
\* merge agree and merges are one level deep, whatever is merged and unmerged
\* in whatever order.
MergedOneLevel ==
    \A o, s \in Queues :
        /\ s \in ownerOf[o] <=> subsumedBy[s] = o
        /\ subsumedBy[s] = o => subsumedBy[o] = NoQueue /\ o # s

\* No wake-up is lost: a loop that has something to run has its timer set for
\* it, or is in a flush that will look again.  It holds across merges,
\* unmerges, pauses, and a timer that is moved while the loop wakes up.
NoLostWakeup ==
    \A q \in Queues : \A t \in Pending(q) :
        timer[q] <= t.time \/ loop[q].pc \in {"flush", "run", "done"}

\* The number of a task is given once, so a task is in one queue only.
OneQueuePerTask ==
    \A p, q \in Queues : \A t \in source[p], u \in source[q] : t.order = u.order => p = q /\ t = u

\* A loop ends because it was terminated.
DoneTerminated == \A q \in Queues : loop[q].pc = "done" => q \in terminated

\* What is paused is never subsumed: resuming it wakes the loop that serves it.
PausableTop == \A q \in Pausable : subsumedBy[q] = NoQueue

\* A queue is paused by the pauses there were.
PausesCounted == \A q \in Queues : pauses[q] <= paused

\* The inductive invariant: no wake-up is lost because merges are one level
\* deep, a task is in one queue, and what is paused serves itself.
QueuesInv ==
    /\ TypeOK /\ MergedOneLevel /\ NoLostWakeup
    /\ OneQueuePerTask /\ DoneTerminated /\ PausableTop /\ PausesCounted

\* A task is started by the loop that serves its queue at that moment, and
\* leaves behind nothing that was to run before it (delayed_task.cc:36).
StartedInOrder ==
    [][\A s \in Queues : \A t \in source[s] \ source'[s] :
        loop'[Server(s)].pc = "run" =>
            \A u \in source'[s] : Before(t, u) \/ (u.grade = "dart" /\ pauses[s] > 0)]_vars

\* "If the message loop has already been terminated, PostTask should destruct
\* |task| synchronously" (message_loop_impl.cc:60): only a PostTask past its
\* check when the loop ends can still add to the queue, and after that nobody can.
Settled(q) == loop[q].pc = "done" /\ \A c \in Callers : poster[c] = Idle \/ poster[c].queue # q

NothingAfterShutdown ==
    [][\A q \in Queues : Settled(q) => Settled(q)' /\ source'[q] \subseteq source[q]]_vars

\* Every task that was registered is taken from its queue, to run or with the
\* end of a loop, unless the loop that serves the queue has ended: no merge,
\* unmerge or pause leaves it waiting for a wake-up that never comes.
EveryTaskServed ==
    \A q \in Queues : \A n \in 0..(MaxTasks - 1) :
        (\E t \in source[q] : t.order = n)
            ~> ((\A t \in source[q] : t.order # n) \/ loop[Server(q)].pc = "done")
=============================================================================
