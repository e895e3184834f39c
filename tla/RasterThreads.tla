----------------------------- MODULE RasterThreads -----------------------------
(***************************************************************************)
(* Which thread draws, on Android, while platform views come and go.       *)
(*                                                                         *)
(*   fml/shared_thread_merger.cc, fml/raster_thread_merger.cc              *)
(*       the lease under which the platform thread runs the raster tasks   *)
(*   shell/common/rasterizer.cc     Draw, Setup and Teardown               *)
(*   shell/platform/android/external_view_embedder                         *)
(*       asks for the merge; its overlay surfaces live on the platform     *)
(*       thread                                                            *)
(*   shell/common/shell.cc          OnPlatformViewCreated and Destroyed    *)
(*                                                                         *)
(* A shell is an engine with a rasterizer of its own; shells spawned from  *)
(* one another share their threads and the merger.  Each has a merger of   *)
(* its own in front of the shared one, and each of the two a mutex: a      *)
(* shell asks whether the threads are merged under its own mutex only, so  *)
(* it may look while another shell is in the middle of merging.            *)
(***************************************************************************)
EXTENDS Integers, Sequences, FiniteSets

CONSTANTS
    Shells,         \* the shells that share the threads
    NoShell,
    MaxLease,       \* kDefaultMergedLeaseDuration
    PipelineDepth,  \* frames in a pipeline
    MaxProduced,    \* bound of the frames produced
    MaxCalls        \* bound of the views created and destroyed

ASSUME RasterAssumption ==
    /\ NoShell \notin Shells
    /\ MaxLease \in Nat \ {0} /\ PipelineDepth \in Nat \ {0}
    /\ MaxProduced \in Nat /\ MaxCalls \in Nat

Threads == {"raster", "platform"}

VARIABLES
    lease,     \* lease_term_by_caller_, for the callers that have an entry
    enabled,   \* enabled_ of the shared merger
    merged,    \* the platform queue has subsumed the raster queue
    job,       \* what each thread is doing
    tasks,     \* tasks of the raster queue
    frames,    \* queue_ of each pipeline: whether a frame has platform views
    commit,    \* the frame the UI thread is committing
    surface,   \* surface_ of each rasterizer
    embedder,  \* previous and current frame have platform views; overlay surfaces exist
    call,      \* the lifecycle call on the platform thread
    view,      \* the platform view has a surface, as the platform thread sees it
    aborted,   \* an FML_CHECK has failed, or a null surface was used
    strayed,   \* history: a lease was extended although the threads were not merged
    missed,    \* history: a Draw has left a frame where it is, and none was posted since
    produced, calls   \* counters for the bounds

mergerVars   == <<lease, enabled, merged, strayed>>
frameVars    == <<frames, commit, missed, produced>>
engineVars   == <<surface, embedder>>
platformVars == <<call, view, calls>>
threadVars   == <<mergerVars, job, tasks, frameVars, engineVars, platformVars, aborted>>

\* "config" is a history: who has changed, in the course of this Draw, what the
\* leases say of the threads.
Idle   == [pc |-> "idle", shell |-> NoShell, layers |-> FALSE, more |-> FALSE,
           retry |-> FALSE, config |-> "same"]
\* "late" and "shifted" are histories: a set-up posted before was still to run
\* at the teardown; the raster thread has merged or parted the threads meanwhile.
NoCall == [stage |-> "none", shell |-> NoShell, late |-> FALSE, shifted |-> FALSE]
NoPush == [shell |-> NoShell, first |-> FALSE]

Task(k, s)  == [kind |-> k, shell |-> s]
Start(task) == [Idle EXCEPT !.pc = task.kind, !.shell = task.shell]

\* Every shell has been shown before, which has made its merger; it may be
\* hidden now.
RasterInit ==
    /\ lease = <<>> /\ enabled = TRUE /\ merged = FALSE /\ strayed = FALSE
    /\ job = [t \in Threads |-> Idle] /\ tasks = <<>>
    /\ frames = [s \in Shells |-> <<>>] /\ missed = [s \in Shells |-> FALSE]
    /\ commit = NoPush /\ produced = 0
    /\ surface \in [Shells -> BOOLEAN] /\ view = surface
    /\ embedder = [s \in Shells |-> [previous |-> FALSE, current |-> FALSE, pool |-> FALSE]]
    /\ call = NoCall /\ calls = 0 /\ aborted = FALSE

-----------------------------------------------------------------------------
(* The mergers *)

IsMerged == \E s \in DOMAIN lease : lease[s] > 0

IsOnRasterizingThread(t) == (t = "platform") = IsMerged

WithLease(s, n) == [x \in DOMAIN lease \cup {s} |-> IF x = s THEN n ELSE lease[x]]
WithoutLease(s) == [x \in DOMAIN lease \ {s} |-> lease[x]]
AllZero(l)      == \A s \in DOMAIN l : l[s] = 0

\* The shared mutex is held between the merge of the queues and the record of
\* the lease, and between the end of the last lease and the parting; a shell's
\* own mutex also from the look at enabled_ until the shared one is had.
SharedHeld == {"record", "part", "apart"}
OwnHeld    == SharedHeld \cup {"subsume", "spend"}
SharedFree == \A t \in Threads : job[t].pc \notin SharedHeld
Free(s)    == \A t \in Threads : job[t].shell = s => job[t].pc \notin OwnHeld

At(t, pc, s)  == job[t].pc = pc /\ job[t].shell = s /\ ~aborted
Goes(t, pc)   == job' = [job EXCEPT ![t].pc = pc]
PlatformFree  == job["platform"] = Idle /\ call = NoCall /\ ~aborted

\* A Draw that has taken its frame, up to the merge it may ask for ("Painting"),
\* and after it ("Leaving").
Painting == {"layers", "preroll", "merge", "subsume", "extend", "submit"}
Leaving  == {"record", "decrement", "spend", "part", "finish", "signal"}
Draws(t) == job[t].pc \in Painting \cup Leaving

\* Thread t goes on as r, and what the leases say has changed.
Shift(t, r) ==
    job' = [u \in Threads |->
              IF u = t THEN IF r.config = "other" THEN r ELSE [r EXCEPT !.config = "own"]
              ELSE IF Draws(u) THEN [job[u] EXCEPT !.config = "other"] ELSE job[u]]

Shifted(t) ==
    IF t = "raster" /\ call # NoCall THEN [call EXCEPT !.shifted = TRUE] ELSE call

-----------------------------------------------------------------------------
(* Frames and tasks *)

\* A frame being drawn keeps its place until the consumer returns.
Drawing(s) == Cardinality({t \in Threads : job[t].shell = s /\ Draws(t)
                                           /\ job[t].pc \notin {"finish", "signal"}})
Places(s)  == PipelineDepth - Len(frames[s]) - Drawing(s)

\* Pushed frames whose semaphore is not signalled yet; available_ is the rest.
Unsignalled(s) ==
    (IF commit.shell = s THEN 1 ELSE 0)
        + Cardinality({t \in Threads : job[t].shell = s /\ job[t].pc = "signal"})
Available(s) == Len(frames[s]) - Unsignalled(s)

ProduceFrame(s, layers) ==
    /\ ~aborted /\ commit = NoPush /\ produced < MaxProduced /\ Places(s) > 0
    /\ frames' = [frames EXCEPT ![s] = Append(@, layers)]
    /\ commit' = [shell |-> s, first |-> frames[s] = <<>>]
    /\ produced' = produced + 1
    /\ UNCHANGED <<mergerVars, job, tasks, missed, engineVars, platformVars, aborted>>

\* The Signal and, for the first frame, the posting of its Draw: a Draw in between
\* would take the frame and leave nothing to the one posted, as it does after both.
SignalFrame ==
    /\ ~aborted /\ commit # NoPush /\ commit' = NoPush
    /\ IF commit.first
       THEN /\ tasks' = Append(tasks, Task("draw", commit.shell))
            /\ missed' = [missed EXCEPT ![commit.shell] = FALSE]
       ELSE UNCHANGED <<tasks, missed>>
    /\ UNCHANGED <<mergerVars, job, frames, produced, engineVars, platformVars, aborted>>

TakeTask(t) ==
    /\ ~aborted /\ job[t] = Idle /\ tasks # <<>>
    /\ (t = "platform") = merged
    /\ t = "platform" => call = NoCall
    /\ job' = [job EXCEPT ![t] = Start(Head(tasks))]
    /\ tasks' = Tail(tasks)
    /\ UNCHANGED <<mergerVars, frameVars, engineVars, platformVars, aborted>>

-----------------------------------------------------------------------------
(* Rasterizer::Draw *)

Reset(e) == [e EXCEPT !.previous = e.current, !.current = FALSE]

\* Off the rasterizing thread, or before the semaphore is signalled, the frame
\* stays where it is.
LeaveFrame(t, s) ==
    /\ At(t, "draw", s) /\ Free(s)
    /\ ~IsOnRasterizingThread(t) \/ Available(s) = 0
    /\ job' = [job EXCEPT ![t] = Idle]
    /\ missed' = [missed EXCEPT ![s] = @ \/ frames[s] # <<>>]
    /\ UNCHANGED <<mergerVars, tasks, frames, commit, produced, engineVars, platformVars, aborted>>

\* Without a surface the frame is dropped; one of another size destroys the
\* overlay surfaces, on the platform thread (PrepareFlutterView).
Consume(t, s, resized) ==
    /\ At(t, "draw", s) /\ Free(s)
    /\ IsOnRasterizingThread(t) /\ Available(s) > 0
    /\ frames' = [frames EXCEPT ![s] = Tail(@)]
    /\ LET destroys == resized /\ embedder[s].pool
       IN  /\ job' = [job EXCEPT ![t].layers = Head(frames[s]), ![t].more = Len(frames[s]) > 1,
                        ![t].pc = CASE ~surface[s] -> "finish"
                                    [] surface[s] /\ destroys /\ t = "raster" -> "layers"
                                    [] OTHER -> "preroll"]
           /\ embedder' = IF surface[s]
                          THEN [embedder EXCEPT ![s] = Reset(@),
                                                ![s].pool = @ /\ ~(destroys /\ t = "platform")]
                          ELSE embedder
    /\ UNCHANGED <<mergerVars, tasks, commit, missed, produced, surface, platformVars, aborted>>

DestroyLayers(s) ==
    /\ PlatformFree /\ At("raster", "layers", s)
    /\ embedder' = [embedder EXCEPT ![s].pool = FALSE]
    /\ Goes("raster", "preroll")
    /\ UNCHANGED <<mergerVars, tasks, frameVars, surface, platformVars, aborted>>

\* A frame skipped or submitted for the first time is drawn again.
PostPrerollAction(t, s) ==
    /\ At(t, "preroll", s) /\ Free(s)
    /\ LET seen == [embedder EXCEPT ![s].current = job[t].layers]
       IN  IF ~job[t].layers
           THEN embedder' = seen /\ Goes(t, "decrement")
           ELSE IF IsMerged
           THEN embedder' = seen /\ Goes(t, "extend")
           ELSE /\ embedder' = [seen EXCEPT ![s] = Reset(@)]
                /\ job' = [job EXCEPT ![t].pc = "merge", ![t].retry = TRUE]
    /\ UNCHANGED <<mergerVars, tasks, frameVars, surface, platformVars, aborted>>

MergeIfEnabled(t, s) ==
    /\ At(t, "merge", s) /\ Free(s)
    /\ Goes(t, IF enabled /\ ~IsMerged THEN "subsume" ELSE "decrement")
    /\ UNCHANGED <<mergerVars, tasks, frameVars, engineVars, platformVars, aborted>>

MergeQueues(t, s) ==
    /\ At(t, "subsume", s) /\ SharedFree
    /\ IF IsMerged
       THEN Goes(t, "decrement") /\ UNCHANGED <<merged, call, aborted>>
       ELSE /\ merged' = TRUE /\ aborted' = merged
            /\ Shift(t, [job[t] EXCEPT !.pc = "record"]) /\ call' = Shifted(t)
    /\ UNCHANGED <<lease, enabled, strayed, tasks, frameVars, engineVars, view, calls>>

\* Mutant: the frame goes on where it is, instead of being skipped.
MutantSaveLease(t, s) ==
    /\ At(t, "record", s)
    /\ lease' = WithLease(s, MaxLease)
    /\ Shift(t, [job[t] EXCEPT !.pc = "preroll"]) /\ call' = Shifted(t)
    /\ UNCHANGED <<enabled, merged, strayed, tasks, frameVars, engineVars, view, calls, aborted>>

SaveLease(t, s) ==
    /\ At(t, "record", s)
    /\ lease' = WithLease(s, MaxLease)
    /\ Shift(t, [job[t] EXCEPT !.pc = "decrement"]) /\ call' = Shifted(t)
    /\ UNCHANGED <<enabled, merged, strayed, tasks, frameVars, engineVars, view, calls, aborted>>

\* That the threads are merged is a debug assertion.
ExtendLeaseTo(t, s) ==
    /\ At(t, "extend", s) /\ Free(s) /\ SharedFree
    /\ LET goes == [job[t] EXCEPT !.pc = "submit", !.retry = ~embedder[s].previous]
       IN  IF enabled /\ ~IsMerged THEN Shift(t, goes) /\ call' = Shifted(t)
                                   ELSE job' = [job EXCEPT ![t] = goes] /\ UNCHANGED call
    /\ lease' = IF enabled THEN WithLease(s, MaxLease) ELSE lease
    /\ strayed' = (strayed \/ (enabled /\ ~IsMerged))
    /\ UNCHANGED <<enabled, merged, tasks, frameVars, engineVars, view, calls, aborted>>

\* An overlay surface is made for what is painted over a platform view.
SubmitFlutterView(t, s, overlay) ==
    /\ At(t, "submit", s) /\ Free(s)
    /\ embedder' = [embedder EXCEPT ![s].pool = @ \/ (overlay /\ IsMerged /\ job[t].layers)]
    /\ Goes(t, "decrement")
    /\ UNCHANGED <<mergerVars, tasks, frameVars, surface, platformVars, aborted>>

\* surface_ is used once more, by whatever thread this is by now.
DecrementIfMerged(t, s) ==
    /\ At(t, "decrement", s) /\ Free(s)
    /\ aborted' = ~surface[s]
    /\ Goes(t, IF IsMerged /\ enabled THEN "spend" ELSE "finish")
    /\ UNCHANGED <<mergerVars, tasks, frameVars, engineVars, platformVars>>

\* The end of the last lease is to be followed by the parting of the queues.
DecrementLease(t, s) ==
    /\ At(t, "spend", s) /\ SharedFree
    /\ aborted' = (s \in DOMAIN lease /\ lease[s] = 0)
    /\ lease' = IF s \in DOMAIN lease /\ lease[s] > 0 THEN [lease EXCEPT ![s] = @ - 1] ELSE lease
    /\ IF AllZero(lease') THEN Shift(t, [job[t] EXCEPT !.pc = "part"]) /\ call' = Shifted(t)
                          ELSE Goes(t, "finish") /\ UNCHANGED call
    /\ UNCHANGED <<enabled, merged, strayed, tasks, frameVars, engineVars, view, calls>>

\* Unmerge of queues that are not merged fails the check.
Unmerge(t, s) ==
    /\ At(t, "part", s)
    /\ merged' = FALSE /\ call' = Shifted(t) /\ aborted' = ~merged
    /\ job' = [job EXCEPT ![t].pc = "finish", ![t].more = @ \/ ~job[t].retry]
    /\ UNCHANGED <<lease, enabled, strayed, tasks, frameVars, engineVars, view, calls>>

PushBack(t, s) ==
    /\ frames' = [frames EXCEPT ![s] = <<job[t].layers>> \o @]
    /\ Goes(t, "signal") /\ UNCHANGED <<tasks, missed>>

EndDraw(t, s, more) ==
    /\ job' = [job EXCEPT ![t] = Idle] /\ UNCHANGED frames
    /\ tasks' = IF more THEN Append(tasks, Task("draw", s)) ELSE tasks
    /\ missed' = [missed EXCEPT ![s] = @ /\ ~more]

\* Mutant: the frame goes to the front of whatever waits.
MutantFinishDrawFront(t, s) ==
    /\ At(t, "finish", s)
    /\ IF job[t].retry THEN PushBack(t, s) ELSE EndDraw(t, s, job[t].more)
    /\ UNCHANGED <<mergerVars, commit, produced, engineVars, platformVars, aborted>>

\* A frame to draw again goes back if the pipeline is empty; the UI thread may
\* hold the last place for a frame it is building.
FinishDraw(t, s) ==
    /\ At(t, "finish", s)
    /\ \E held \in {0, 1} :
          IF job[t].retry /\ frames[s] = <<>> /\ Places(s) > held
          THEN PushBack(t, s) ELSE EndDraw(t, s, job[t].more)
    /\ UNCHANGED <<mergerVars, commit, produced, engineVars, platformVars, aborted>>

\* Mutant: the frame put back does not count as more to draw.
MutantPostAgain(t, s) ==
    /\ At(t, "signal", s) /\ EndDraw(t, s, job[t].more)
    /\ UNCHANGED <<mergerVars, commit, produced, engineVars, platformVars, aborted>>

PostAgain(t, s) ==
    /\ At(t, "signal", s) /\ EndDraw(t, s, TRUE)
    /\ UNCHANGED <<mergerVars, commit, produced, engineVars, platformVars, aborted>>

-----------------------------------------------------------------------------
(* Setup and Teardown of the rasterizer *)

Setup(t, s) ==
    /\ At(t, "setup", s) /\ Free(s)
    /\ enabled' = TRUE /\ surface' = [surface EXCEPT ![s] = TRUE]
    /\ job' = [job EXCEPT ![t] = Idle]
    /\ call' = IF t = "platform" /\ call.stage = "setup" THEN NoCall ELSE call
    /\ UNCHANGED <<lease, merged, strayed, tasks, frameVars, embedder, view, calls, aborted>>

SetupPending(s) == \/ \E i \in DOMAIN tasks : tasks[i] = Task("setup", s)
                   \/ \E t \in Threads : job[t].pc = "setup" /\ job[t].shell = s

\* The IO thread signals the latch at once.
Signal == call' = [call EXCEPT !.stage = "torn"]

Teardown(t, s) ==
    /\ At(t, "teardown", s) /\ Free(s)
    /\ enabled' = TRUE /\ surface' = [surface EXCEPT ![s] = FALSE]
    /\ IF IsMerged THEN Goes(t, "unmerge") ELSE job' = [job EXCEPT ![t] = Idle]
    /\ call' = [call EXCEPT !.stage = IF IsMerged THEN @ ELSE "torn", !.late = SetupPending(s)]
    /\ UNCHANGED <<lease, merged, strayed, tasks, frameVars, embedder, view, calls, aborted>>

\* Mutant: other callers are not looked at.
MutantUnMergeNow(t, s) ==
    /\ At(t, "unmerge", s) /\ Free(s) /\ SharedFree
    /\ IF enabled
       THEN /\ lease' = WithoutLease(s)
            /\ Shift(t, [job[t] EXCEPT !.pc = "apart"]) /\ call' = Shifted(t)
       ELSE job' = [job EXCEPT ![t] = Idle] /\ Signal /\ UNCHANGED lease
    /\ UNCHANGED <<enabled, merged, strayed, tasks, frameVars, engineVars, view, calls, aborted>>

\* Mutant: a shell that is not the last one does not go on to the IO thread.
MutantUnMergeSilent(t, s) ==
    /\ At(t, "unmerge", s) /\ Free(s) /\ SharedFree
    /\ IF enabled /\ AllZero(WithoutLease(s))
       THEN Shift(t, [job[t] EXCEPT !.pc = "apart"]) /\ call' = Shifted(t)
       ELSE job' = [job EXCEPT ![t] = Idle] /\ UNCHANGED call
    /\ lease' = IF enabled THEN WithoutLease(s) ELSE lease
    /\ UNCHANGED <<enabled, merged, strayed, tasks, frameVars, engineVars, view, calls, aborted>>

UnMergeNowIfLastOne(t, s) ==
    /\ At(t, "unmerge", s) /\ Free(s) /\ SharedFree
    /\ IF enabled /\ AllZero(WithoutLease(s))
       THEN Shift(t, [job[t] EXCEPT !.pc = "apart"]) /\ call' = Shifted(t)
       ELSE job' = [job EXCEPT ![t] = Idle] /\ Signal
    /\ lease' = IF enabled THEN WithoutLease(s) ELSE lease
    /\ UNCHANGED <<enabled, merged, strayed, tasks, frameVars, engineVars, view, calls, aborted>>

UnmergeNow(t, s) ==
    /\ At(t, "apart", s)
    /\ merged' = FALSE /\ aborted' = ~merged
    /\ job' = [job EXCEPT ![t] = Idle] /\ Signal
    /\ UNCHANGED <<lease, enabled, strayed, tasks, frameVars, engineVars, view, calls>>

-----------------------------------------------------------------------------
(* The calls of the platform view *)

Begin(s, stage) ==
    /\ PlatformFree /\ Free(s) /\ calls < MaxCalls
    /\ enabled' = FALSE /\ calls' = calls + 1
    /\ call' = [NoCall EXCEPT !.stage = stage, !.shell = s]
    /\ UNCHANGED <<lease, merged, strayed, job, tasks, frameVars, engineVars, aborted>>

OnPlatformViewCreated(s) ==
    ~view[s] /\ Begin(s, "created") /\ view' = [view EXCEPT ![s] = TRUE]

OnPlatformViewDestroyed(s) ==
    view[s] /\ Begin(s, "destroyed") /\ view' = [view EXCEPT ![s] = FALSE]

\* should_post_raster_task: else the platform thread sets up itself, once the
\* IO thread has signalled.
ShouldPostSetup ==
    /\ call.stage = "created" /\ ~aborted
    /\ IF merged
       THEN job' = [job EXCEPT !["platform"] = Start(Task("setup", call.shell))]
            /\ call' = [call EXCEPT !.stage = "setup"]
       ELSE call' = [call EXCEPT !.stage = "post"] /\ UNCHANGED job
    /\ UNCHANGED <<mergerVars, tasks, frameVars, engineVars, view, calls, aborted>>

\* The IO thread posts, then signals.
IoPostsSetup ==
    /\ call.stage = "post" /\ ~aborted
    /\ tasks' = Append(tasks, Task("setup", call.shell)) /\ call' = NoCall
    /\ UNCHANGED <<mergerVars, job, frameVars, engineVars, view, calls, aborted>>

\* Mutant: a posted teardown is not waited for.
MutantTeardownAsync ==
    /\ call.stage = "destroyed" /\ ~aborted
    /\ IF merged
       THEN job' = [job EXCEPT !["platform"] = Start(Task("teardown", call.shell))]
            /\ UNCHANGED tasks
       ELSE tasks' = Append(tasks, Task("teardown", call.shell)) /\ UNCHANGED job
    /\ call' = [call EXCEPT !.stage = IF merged THEN "wait" ELSE "torn"]
    /\ UNCHANGED <<mergerVars, frameVars, engineVars, view, calls, aborted>>

RunNowOrPostTeardown ==
    /\ call.stage = "destroyed" /\ ~aborted
    /\ IF merged
       THEN job' = [job EXCEPT !["platform"] = Start(Task("teardown", call.shell))]
            /\ UNCHANGED tasks
       ELSE tasks' = Append(tasks, Task("teardown", call.shell)) /\ UNCHANGED job
    /\ call' = [call EXCEPT !.stage = "wait"]
    /\ UNCHANGED <<mergerVars, frameVars, engineVars, view, calls, aborted>>

TeardownExternalViewEmbedder ==
    /\ call.stage = "torn" /\ ~aborted
    /\ embedder' = [embedder EXCEPT ![call.shell].pool = FALSE]
    /\ call' = NoCall
    /\ UNCHANGED <<mergerVars, job, tasks, frameVars, surface, view, calls, aborted>>

-----------------------------------------------------------------------------

DrawStep(t, s) ==
    \/ LeaveFrame(t, s) \/ (\E resized \in BOOLEAN : Consume(t, s, resized))
    \/ PostPrerollAction(t, s) \/ MergeIfEnabled(t, s) \/ MergeQueues(t, s) \/ SaveLease(t, s)
    \/ ExtendLeaseTo(t, s) \/ (\E overlay \in BOOLEAN : SubmitFlutterView(t, s, overlay))
    \/ DecrementIfMerged(t, s) \/ DecrementLease(t, s) \/ Unmerge(t, s)
    \/ FinishDraw(t, s) \/ PostAgain(t, s)
    \/ Setup(t, s) \/ Teardown(t, s) \/ UnMergeNowIfLastOne(t, s) \/ UnmergeNow(t, s)

ThreadStep(t) == TakeTask(t) \/ \E s \in Shells : DrawStep(t, s)

CallStep == ShouldPostSetup \/ IoPostsSetup \/ RunNowOrPostTeardown
                \/ TeardownExternalViewEmbedder

RasterNext ==
    \/ \E s \in Shells : \/ \E layers \in BOOLEAN : ProduceFrame(s, layers)
                         \/ OnPlatformViewCreated(s) \/ OnPlatformViewDestroyed(s)
                         \/ DestroyLayers(s)
    \/ \E t \in Threads : ThreadStep(t)
    \/ SignalFrame \/ CallStep

RasterSpec == RasterInit /\ [][RasterNext]_threadVars

\* The threads run on; the application need not produce a frame, nor the
\* platform create or destroy a view.
RasterFairness == (\A t \in Threads : WF_threadVars(ThreadStep(t))) /\ WF_threadVars(CallStep)

FairRasterSpec == RasterSpec /\ RasterFairness

-----------------------------------------------------------------------------
(* Properties *)

RasterTypeOK ==
    /\ DOMAIN lease \subseteq Shells /\ \A s \in DOMAIN lease : lease[s] \in 0..MaxLease
    /\ {enabled, merged, strayed, aborted} \subseteq BOOLEAN
    /\ \A i \in DOMAIN tasks : tasks[i] \in [kind : {"draw", "setup", "teardown"}, shell : Shells]
    /\ \A t \in Threads :
          \/ job[t] = Idle
          \/ /\ job[t].shell \in Shells /\ job[t].config \in {"same", "own", "other"}
             /\ Draws(t) \/ job[t].pc \in {"draw", "setup", "teardown", "unmerge", "apart"}
    /\ call = NoCall \/ /\ call.shell \in Shells
                        /\ call.stage \in {"created", "setup", "post", "destroyed", "wait", "torn"}
    /\ commit = NoPush \/ commit.shell \in Shells
    /\ \A s \in Shells : missed[s] \in BOOLEAN /\ Places(s) >= 0

\* A thread that begins a Draw is alone in drawing, until the threads are merged
\* or parted.  From its merge on the raster thread has only the rest of its Draw
\* left, beside which the platform thread may be drawing already; the two paint at
\* once only if a Draw was overtaken: the other thread has merged or parted them
\* under it.  Nor does the raster thread submit platform views otherwise ("JNI
\* method must be called on the platform thread", external_view_embedder.cc:214).
OneRasterizes ==
    /\ Draws("raster") /\ Draws("platform") => \E t \in Threads : job[t].config # "same"
    /\ (\A t \in Threads : job[t].pc \in Painting) => \E t \in Threads : job[t].config = "other"
    /\ job["raster"].pc \in {"extend", "submit"} /\ job["raster"].layers
          => job["raster"].config = "other"

\* While nobody is in the middle of a merge or a parting, leases and queues agree on
\* whether the threads are merged, unless a Draw under which they were parted has
\* extended its lease all the same (the assertion at shared_thread_merger.cc:81).
LeaseMatchesQueues == ~aborted /\ ~strayed /\ SharedFree => merged = IsMerged

\* A platform thread that waits in OnPlatformViewDestroyed while what it waits
\* for sits in a queue it has subsumed, or while the raster thread waits for it.
\* The first may happen although Disable is there to "prevent any request to
\* change the thread configuration" (shell.cc:996): enabled_ is one flag, a set-up
\* posted before that call enables the merger again, and a Draw of another shell
\* may be past its look at it.
Waits == call.stage = "wait" /\ job["platform"] = Idle
TakenOver == Waits /\ merged /\ \E i \in DOMAIN tasks : tasks[i].kind = "teardown"
Circular  == Waits /\ job["raster"].pc = "layers"

UsesSurface(t, s) == job[t].shell = s /\ job[t].pc \in Painting \cup {"record", "decrement"}

\* When OnPlatformViewDestroyed returns, the rasterizer has no surface and no thread
\* works on one of that shell ("a synchronous operation because certain platforms
\* depend on ...", shell.cc:1007).  Three things undo it: a set-up of an earlier
\* call that runs after the teardown; a raster thread that merges or parts the
\* threads in the course of the call; and a Draw in the course of which they were
\* merged or parted before, on whose raster thread the platform thread does not wait.
SuspendedOnReturn ==
    [][call.stage = "torn" /\ call'.stage = "none" =>
          /\ surface[call.shell] => call.late
          /\ \A t \in Threads : UsesSurface(t, call.shell) =>
                \/ call.late \/ call.shifted
                \/ t = "raster" /\ job[t].config # "same"]_threadVars

\* OnPlatformViewDestroyed returns, save in the two cases above.
WaitEnds == (call.stage = "wait") ~> (call.stage # "wait" \/ TakenOver \/ Circular \/ aborted)

\* A Draw of shell s is posted, about to be posted, or running and to be followed.
Attended(s) ==
    \/ commit.shell = s /\ commit.first
    \/ \E i \in DOMAIN tasks : tasks[i] = Task("draw", s)
    \/ \E t \in Threads : job[t].shell = s /\ \/ job[t].pc \in {"draw", "signal"}
                                              \/ Draws(t) /\ job[t].more

\* Through skipped, resubmitted and parted Draws on either thread, a frame in a
\* pipeline always has a Draw to come for it, unless one has come on the wrong thread
\* (it yields, rasterizer.cc:248) or before the Signal (pipeline.h:228-233) and no
\* other was posted since: nobody makes up for those.
NoFrameForgotten == \A s \in Shells : frames[s] # <<>> => Attended(s) \/ missed[s]
=============================================================================
