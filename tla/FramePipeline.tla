----------------------------- MODULE FramePipeline -----------------------------
(***************************************************************************)
(* How a frame gets from a request to the screen in the Flutter engine.    *)
(*                                                                         *)
(*   shell/common/animator.cc       RequestFrame, BeginFrame, EndFrame     *)
(*   shell/common/vsync_waiter.cc   one vsync for all who wait             *)
(*   shell/common/pipeline.h        the queue between the two threads      *)
(*   shell/common/rasterizer.cc     Draw and what it does with the result  *)
(*   shell/common/shell.cc          the tasks posted to the raster thread  *)
(*                                                                         *)
(* The UI thread and the raster thread each run their tasks in the order   *)
(* posted; the vsync thread fires when asked.  What two threads touch (the *)
(* two semaphores of the pipeline, its queue, a task queue) is touched in  *)
(* steps of its own.  All drawing is done by one thread (RasterThreads has *)
(* the case of two); idle notifications and frame timings are left out.    *)
(***************************************************************************)
EXTENDS Integers, Sequences, FiniteSets

CONSTANTS
    Depth,       \* depth of the pipeline
    MaxFrames,   \* bound of the frames built
    MaxRetries,  \* bound of the frames the rasterizer wants to draw again
    MaxBacklog,  \* bound of the tasks waiting when the application asks for more
    Secondary    \* who schedules secondary callbacks

ASSUME PipelineAssumption == Depth \in Nat \ {0} /\ MaxFrames \in Nat /\ MaxRetries \in Nat
                              /\ MaxBacklog \in Nat

Frames == 1..MaxFrames

VARIABLES
    pending,       \* pending_frame_semaphore_
    regenerate,    \* regenerate_layer_trees_
    continuation,  \* producer_continuation_ holds a place in the pipeline
    ui,            \* where the UI thread is
    uiTasks,       \* tasks of the UI thread
    waiter,        \* callback_ and secondary_callbacks_ of the vsync waiter
    asked,         \* vsyncs asked of the platform and not yet delivered
    firing,        \* what FireCallback has taken and not yet posted
    pauses,        \* requests that keep the Dart tasks of the UI queue paused
    empty, available, queue,   \* empty_, available_, queue_ of the pipeline
    rasterTasks,   \* tasks of the raster thread
    raster,        \* where the raster thread is
    built, drawn,  \* the newest frame built, the newest one drawn
    retries,       \* counter for the bound
    waitingFirst   \* waiting_for_first_frame_

animatorVars == <<pending, regenerate, ui, uiTasks>>
vsyncVars    == <<waiter, asked, firing, pauses>>
pipelineVars == <<continuation, empty, available, queue>>
rasterVars   == <<rasterTasks, raster, drawn, retries, waitingFirst>>
vars == <<animatorVars, vsyncVars, pipelineVars, rasterVars, built>>

NoCallbacks == [callback |-> FALSE, secondary |-> {}]

\* pc of the UI thread; first: the item pushed was the first; inFrame: between
\* BeginFrame and the end of the vsync task.
UiIdle    == [pc |-> "idle", first |-> FALSE, inFrame |-> FALSE]
UiBuilds  == [pc |-> "build", first |-> FALSE, inFrame |-> TRUE]
\* more: MoreAvailable; shell: the task was posted by the shell.
RasterIdle == [pc |-> "idle", item |-> 0, more |-> FALSE, shell |-> FALSE]

Init ==
    /\ pending = 1 /\ regenerate = FALSE /\ continuation = FALSE
    /\ ui = UiIdle /\ uiTasks = <<>>
    /\ waiter = NoCallbacks /\ asked = 0 /\ firing = NoCallbacks /\ pauses = 0
    /\ empty = Depth /\ available = 0 /\ queue = <<>>
    /\ rasterTasks = <<>> /\ raster = RasterIdle
    /\ built = 0 /\ drawn = 0 /\ retries = 0 /\ waitingFirst = TRUE

-----------------------------------------------------------------------------
(* The animator and the vsync waiter, on the UI thread *)

DartRuns == ui.pc \in {"idle", "build"}
Backlog  == Len(uiTasks) + Len(rasterTasks)

\* The task the UI thread runs next.
UiTask(t) == ui.pc = "idle" /\ uiTasks # <<>> /\ Head(uiTasks) = t

RequestFrame(regen) ==
    /\ DartRuns /\ Backlog < MaxBacklog
    /\ regenerate' = (regenerate \/ regen)
    /\ IF pending > 0
       THEN pending' = pending - 1 /\ uiTasks' = Append(uiTasks, "await")
       ELSE UNCHANGED <<pending, uiTasks>>
    /\ UNCHANGED <<ui, vsyncVars, pipelineVars, rasterVars, built>>

\* Several may wait for one vsync; the platform is asked when the first does.
Asks == asked' = IF waiter = NoCallbacks THEN asked + 1 ELSE asked

AsyncWaitForVsync ==
    /\ UiTask("await") /\ uiTasks' = Tail(uiTasks)
    /\ Asks /\ waiter' = [waiter EXCEPT !.callback = TRUE]
    /\ UNCHANGED <<pending, regenerate, ui, firing, pauses, pipelineVars, rasterVars, built>>

ScheduleSecondaryCallback(id) ==
    /\ DartRuns /\ Backlog < MaxBacklog
    /\ Asks /\ waiter' = [waiter EXCEPT !.secondary = @ \cup {id}]
    /\ UNCHANGED <<animatorVars, firing, pauses, pipelineVars, rasterVars, built>>

RunSecondaryCallback ==
    /\ UiTask("secondary") /\ uiTasks' = Tail(uiTasks)
    /\ UNCHANGED <<pending, regenerate, ui, vsyncVars, pipelineVars, rasterVars, built>>

-----------------------------------------------------------------------------
(* FireCallback, on the thread that delivers the vsync *)

TakeCallbacks ==
    /\ asked > 0 /\ firing = NoCallbacks
    /\ asked' = asked - 1
    /\ firing' = waiter /\ waiter' = NoCallbacks
    /\ pauses' = IF waiter.callback THEN pauses + 1 ELSE pauses
    /\ UNCHANGED <<animatorVars, pipelineVars, rasterVars, built>>

PostFrameTask ==
    /\ firing.callback /\ firing' = [firing EXCEPT !.callback = FALSE]
    /\ uiTasks' = Append(uiTasks, "frame")
    /\ UNCHANGED <<pending, regenerate, ui, waiter, asked, pauses, pipelineVars, rasterVars,
                   built>>

PostSecondary(id) ==
    /\ ~firing.callback /\ id \in firing.secondary
    /\ firing' = [firing EXCEPT !.secondary = @ \ {id}]
    /\ uiTasks' = Append(uiTasks, "secondary")
    /\ UNCHANGED <<pending, regenerate, ui, waiter, asked, pauses, pipelineVars, rasterVars,
                   built>>

-----------------------------------------------------------------------------
(* The vsync task on the UI thread *)

\* Mutant: the semaphore is not released.
MutantDrawLastHolds ==
    /\ UiTask("frame") /\ ~regenerate
    /\ uiTasks' = Tail(uiTasks)
    /\ rasterTasks' = Append(rasterTasks, "last")
    /\ pauses' = pauses - 1
    /\ UNCHANGED <<pending, regenerate, ui, waiter, asked, firing, pipelineVars, raster, drawn,
                   retries, waitingFirst, built>>

\* The frame was asked for only to show a texture: the last trees are drawn again.
DrawLastLayerTrees ==
    /\ UiTask("frame") /\ ~regenerate
    /\ uiTasks' = Tail(uiTasks)
    /\ pending' = pending + 1
    /\ rasterTasks' = Append(rasterTasks, "last")
    /\ pauses' = pauses - 1
    /\ UNCHANGED <<regenerate, ui, waiter, asked, firing, pipelineVars, raster, drawn,
                   retries, waitingFirst, built>>

\* A place left over from a frame that did not render is used again.
BeginFrame ==
    /\ UiTask("frame") /\ regenerate
    /\ uiTasks' = Tail(uiTasks)
    /\ continuation \/ empty > 0
    /\ continuation' = TRUE /\ empty' = IF continuation THEN empty ELSE empty - 1
    /\ regenerate' = FALSE /\ pending' = pending + 1
    /\ ui' = UiBuilds
    /\ UNCHANGED <<vsyncVars, available, queue, rasterVars, built>>

\* Mutant: the next frame is not requested.
MutantPipelineFull ==
    /\ UiTask("frame") /\ regenerate
    /\ ~continuation /\ empty = 0
    /\ uiTasks' = Tail(uiTasks)
    /\ pauses' = pauses - 1
    /\ UNCHANGED <<pending, regenerate, ui, waiter, asked, firing, pipelineVars, rasterVars,
                   built>>

\* "The consumer is being too slow. Try again at the next frame interval."
PipelineFull ==
    /\ UiTask("frame") /\ regenerate
    /\ ~continuation /\ empty = 0
    /\ pending' = pending + 1 - 1 /\ uiTasks' = Append(Tail(uiTasks), "await")
    /\ pauses' = pauses - 1
    /\ UNCHANGED <<regenerate, ui, waiter, asked, firing, pipelineVars, rasterVars, built>>

Resumes(inFrame) == pauses' = IF inFrame THEN pauses - 1 ELSE pauses

EndFrameWithoutTrees ==
    /\ ui.pc = "build"
    /\ ui' = UiIdle /\ Resumes(TRUE)
    /\ UNCHANGED <<pending, regenerate, uiTasks, waiter, asked, firing, pipelineVars,
                   rasterVars, built>>

\* Render and EndFrame, in a vsync task or, for a warm-up frame, out of one.
\* Without a place in the pipeline the frame is dropped.
EndFrame ==
    /\ DartRuns /\ built < MaxFrames /\ built' = built + 1
    /\ IF continuation
       THEN /\ queue' = Append(queue, built')
            /\ continuation' = FALSE
            /\ ui' = [pc |-> "signal", first |-> queue = <<>>, inFrame |-> ui.inFrame]
            /\ pauses' = pauses
       ELSE /\ ui' = UiIdle /\ Resumes(ui.inFrame)
            /\ UNCHANGED <<queue, continuation>>
    /\ UNCHANGED <<pending, regenerate, uiTasks, waiter, asked, firing, empty, available,
                   rasterVars>>

\* The end of ProducerCommit, outside queue_mutex_.
SignalAvailable ==
    /\ ui.pc = "signal" /\ ui' = [ui EXCEPT !.pc = "notify"]
    /\ available' = available + 1
    /\ UNCHANGED <<pending, regenerate, uiTasks, vsyncVars, continuation, empty, queue,
                   rasterVars, built>>

\* The shell posts a Draw for the first item only.
OnAnimatorDraw ==
    /\ ui.pc = "notify" /\ ui' = UiIdle
    /\ rasterTasks' = IF ui.first THEN Append(rasterTasks, "draw") ELSE rasterTasks
    /\ Resumes(ui.inFrame)
    /\ UNCHANGED <<pending, regenerate, uiTasks, waiter, asked, firing, pipelineVars, raster,
                   drawn, retries, waitingFirst, built>>

-----------------------------------------------------------------------------
(* The rasterizer, on the raster thread *)

RasterTask(t) == raster.pc = "idle" /\ rasterTasks # <<>> /\ Head(rasterTasks) = t

\* A task of the shell reports the first frame when its Draw returns.
DrawReturns(shell) == raster' = RasterIdle /\ waitingFirst' = (waitingFirst /\ ~shell)

RunDrawLast ==
    /\ RasterTask("last") /\ rasterTasks' = Tail(rasterTasks)
    /\ UNCHANGED <<animatorVars, vsyncVars, pipelineVars, raster, drawn, retries,
                   waitingFirst, built>>

\* Draw, as far as available_.TryWait in Consume.
Draw(t) ==
    /\ RasterTask(t) /\ rasterTasks' = Tail(rasterTasks)
    /\ IF available = 0
       THEN DrawReturns(t = "draw") /\ available' = available
       ELSE /\ raster' = [RasterIdle EXCEPT !.pc = "pop", !.shell = (t = "draw")]
            /\ available' = available - 1 /\ waitingFirst' = waitingFirst
    /\ UNCHANGED <<animatorVars, vsyncVars, continuation, empty, queue, drawn, retries, built>>

Pop ==
    /\ raster.pc = "pop" /\ queue # <<>>
    /\ queue' = Tail(queue)
    /\ raster' = [raster EXCEPT !.pc = "draw", !.item = Head(queue), !.more = queue' # <<>>]
    /\ UNCHANGED <<animatorVars, vsyncVars, continuation, empty, available, rasterTasks,
                   drawn, retries, waitingFirst, built>>

\* The end of Draw, which posts another one if there is more.
Ends(more) ==
    IF more THEN raster' = [raster EXCEPT !.pc = "repost"] /\ waitingFirst' = waitingFirst
            ELSE DrawReturns(raster.shell)

\* DoDraw and empty_.Signal.  A frame that is not drawn (no surface, no GPU, a
\* tree of another size, no buffer) is dropped.
DoDraw ==
    /\ raster.pc = "draw" /\ empty' = empty + 1
    /\ \/ drawn' = raster.item /\ retries' = retries /\ Ends(raster.more)
       \/ UNCHANGED <<drawn, retries>> /\ Ends(raster.more)
       \/ /\ retries < MaxRetries /\ retries' = retries + 1
          /\ raster' = [raster EXCEPT !.pc = "retry"] /\ UNCHANGED <<drawn, waitingFirst>>
    /\ UNCHANGED <<animatorVars, vsyncVars, continuation, available, queue, rasterTasks, built>>

\* Mutant: no place is taken for the frame to draw again.
MutantProduceIfEmpty ==
    /\ raster.pc = "retry"
    /\ raster' = [raster EXCEPT !.pc = "recommit"]
    /\ UNCHANGED <<animatorVars, vsyncVars, pipelineVars, rasterTasks, drawn, retries,
                   waitingFirst, built>>

ProduceIfEmpty ==
    /\ raster.pc = "retry"
    /\ IF empty > 0
       THEN /\ empty' = empty - 1 /\ raster' = [raster EXCEPT !.pc = "recommit"]
            /\ waitingFirst' = waitingFirst
       ELSE empty' = empty /\ Ends(raster.more)
    /\ UNCHANGED <<animatorVars, vsyncVars, continuation, available, queue, rasterTasks,
                   drawn, retries, built>>

\* Mutants: the place is not given back; the frame is pushed behind a newer one.
MutantCommitLeaks ==
    /\ raster.pc = "recommit"
    /\ IF queue = <<>>
       THEN /\ queue' = <<raster.item>>
            /\ raster' = [raster EXCEPT !.pc = "resignal"] /\ waitingFirst' = waitingFirst
       ELSE queue' = queue /\ Ends(raster.more)
    /\ UNCHANGED <<animatorVars, vsyncVars, continuation, empty, available, rasterTasks, drawn,
                   retries, built>>

MutantCommitBehind ==
    /\ raster.pc = "recommit"
    /\ queue' = Append(queue, raster.item)
    /\ raster' = [raster EXCEPT !.pc = "resignal"]
    /\ UNCHANGED <<animatorVars, vsyncVars, continuation, empty, available, rasterTasks, drawn,
                   retries, waitingFirst, built>>

ProducerCommitIfEmpty ==
    /\ raster.pc = "recommit"
    /\ IF queue = <<>>
       THEN /\ queue' = <<raster.item>> /\ empty' = empty
            /\ raster' = [raster EXCEPT !.pc = "resignal"] /\ waitingFirst' = waitingFirst
       ELSE queue' = queue /\ empty' = empty + 1 /\ Ends(raster.more)
    /\ UNCHANGED <<animatorVars, vsyncVars, continuation, available, rasterTasks, drawn,
                   retries, built>>

SignalAgain ==
    /\ raster.pc = "resignal" /\ raster' = [raster EXCEPT !.pc = "repost"]
    /\ available' = available + 1
    /\ UNCHANGED <<animatorVars, vsyncVars, continuation, empty, queue, rasterTasks, drawn,
                   retries, waitingFirst, built>>

PostDraw ==
    /\ raster.pc = "repost" /\ rasterTasks' = Append(rasterTasks, "again")
    /\ DrawReturns(raster.shell)
    /\ UNCHANGED <<animatorVars, vsyncVars, pipelineVars, drawn, retries, built>>

-----------------------------------------------------------------------------

Application ==   \* what the framework does when it likes
    \/ \E regen \in BOOLEAN : RequestFrame(regen)
    \/ \E id \in Secondary : ScheduleSecondaryCallback(id)
    \/ ui.pc = "idle" /\ EndFrame

UiStep ==
    \/ AsyncWaitForVsync \/ RunSecondaryCallback
    \/ DrawLastLayerTrees \/ BeginFrame \/ PipelineFull
    \/ EndFrameWithoutTrees \/ (ui.pc = "build" /\ EndFrame)
    \/ SignalAvailable \/ OnAnimatorDraw

VsyncStep == TakeCallbacks \/ PostFrameTask \/ \E id \in Secondary : PostSecondary(id)

RasterStep ==
    \/ RunDrawLast \/ Draw("draw") \/ Draw("again") \/ Pop \/ DoDraw
    \/ ProduceIfEmpty \/ ProducerCommitIfEmpty \/ SignalAgain \/ PostDraw

Next == Application \/ UiStep \/ VsyncStep \/ RasterStep

\* The threads run and the platform delivers each vsync it was asked for
\* (vsync_waiter.h:58); nobody is obliged to ask for a frame.
Fairness == WF_vars(UiStep) /\ WF_vars(VsyncStep) /\ WF_vars(RasterStep)

Spec == Init /\ [][Next]_vars
FairSpec == Spec /\ Fairness

-----------------------------------------------------------------------------

UiPc     == {"idle", "build", "signal", "notify"}
RasterPc == {"idle", "pop", "draw", "retry", "recommit", "resignal", "repost"}

UiTaskNames     == {"await", "frame", "secondary"}
RasterTaskNames == {"draw", "again", "last"}
Callbacks    == [callback : BOOLEAN, secondary : SUBSET Secondary]
UiPlaces     == [pc : UiPc, first : BOOLEAN, inFrame : BOOLEAN]
RasterPlaces == [pc : RasterPc, item : 0..MaxFrames, more : BOOLEAN, shell : BOOLEAN]

FlowType ==
    /\ pending \in Nat /\ regenerate \in BOOLEAN /\ ui \in UiPlaces
    /\ uiTasks \in Seq(UiTaskNames)
    /\ waiter \in Callbacks /\ firing \in Callbacks
    /\ asked \in Nat /\ pauses \in Nat

PipeType ==
    /\ continuation \in BOOLEAN /\ empty \in Nat /\ available \in Nat /\ queue \in Seq(Frames)
    /\ rasterTasks \in Seq(RasterTaskNames) /\ raster \in RasterPlaces
    /\ built \in 0..MaxFrames /\ drawn \in 0..MaxFrames /\ retries \in 0..MaxRetries
    /\ waitingFirst \in BOOLEAN

TypeOK == FlowType /\ PipeType

One(b) == IF b THEN 1 ELSE 0
Count(s, x) == Cardinality({i \in DOMAIN s : s[i] = x})

\* "Multiple calls to Animator::RequestFrame will still result in a single
\* request to the VsyncWaiter" (animator.cc:251): the request is in one place
\* only, on its way to the waiter, with the waiter, being fired, or on its way
\* back; and the semaphore is free exactly when it is nowhere.
OneRequestInFlight ==
    pending + Count(uiTasks, "await") + One(waiter.callback) + One(firing.callback)
        + Count(uiTasks, "frame") = 1

\* The platform owes one vsync while anybody waits, and none otherwise: no
\* callback is left without a vsync to come, whoever of the animator and the
\* secondary callbacks was there first.
OneVsyncOwed == asked = One(waiter # NoCallbacks)

\* A frame that is to be built has been asked for (animator.cc:240).
WantedIsAsked == regenerate => pending = 0

\* The Dart tasks of the UI queue are paused by a frame that is about to run,
\* or runs, and by nothing else: no resume is lost or doubled.
PausedByFrame ==
    pauses = One(firing.callback) + Count(uiTasks, "frame") + One(ui.inFrame)

\* The UI thread is in a vsync task while it builds, and in none while it idles.
UiFrame == (ui.pc = "idle" => ~ui.inFrame) /\ (ui.pc = "build" => ui.inFrame)

\* The requests, the vsyncs, the wishes and the pauses are in step.
FlowInv ==
    /\ FlowType /\ UiFrame
    /\ OneRequestInFlight /\ OneVsyncOwed /\ WantedIsAsked /\ PausedByFrame

\* Every place of the pipeline is accounted for, with two producers (the
\* animator, and the rasterizer that resubmits).
PlacesAccounted ==
    empty + Len(queue) + One(continuation) + One(raster.pc \in {"draw", "recommit"}) = Depth

\* Consume never takes from an empty queue (pipeline.h:198 reads its front).
PopsWhatIsThere ==
    Len(queue) = available + One(ui.pc = "signal") + One(raster.pc = "resignal")
                   + One(raster.pc = "pop")

\* The rasterizer has taken a frame and may put it back.
HasItem == raster.pc \in {"draw", "retry", "recommit"}

\* What is drawn, in hand and waiting is ever newer.
FramesOrdered ==
    /\ drawn <= built
    /\ \A i \in 1..Len(queue) : drawn <= queue[i] /\ queue[i] <= built
    /\ \A i, j \in 1..Len(queue) : i < j => queue[i] < queue[j]
    /\ HasItem => /\ raster.item \in Frames /\ drawn <= raster.item /\ raster.item <= built
                  /\ \A i \in 1..Len(queue) : raster.item < queue[i]

\* The two semaphores and the queue are in step, and so are the frames.
PipeInv == PipeType /\ PlacesAccounted /\ PopsWhatIsThere /\ FramesOrdered

\* No frame is shown after a newer one, resubmitted or not.
DrawnInOrder == [][drawn' >= drawn]_drawn

\* The pipeline is the bounded queue it is said to be.
Abstract == INSTANCE FrameQueue
    WITH Items <- Frames, Capacity <- Depth, fifo <- queue, held <- Depth - empty - Len(queue)
ImplementsQueue == Abstract!Spec

\* A frame that was asked for gets its vsync task, however often the pipeline
\* is full; whoever waits for a vsync is called; Dart tasks are not paused
\* forever.
VsyncServed ==
    /\ (pending = 0) ~> UiTask("frame")
    /\ \A id \in Secondary : (id \in waiter.secondary) ~> (id \notin waiter.secondary)
    /\ (pauses > 0) ~> (pauses = 0)

-----------------------------------------------------------------------------
(* What a comment says *)

\* "Eventually the 'Rasterizer' will consume it, so we don't need to notify
\* the delegate" (animator.cc:150): what was committed is consumed.
EventuallyConsumed ==
    \A f \in Frames : (\E i \in DOMAIN queue : queue[i] = f)
                        ~> (\A i \in DOMAIN queue : queue[i] # f)
=============================================================================
