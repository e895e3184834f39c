-------------------------- MODULE FramePipelineProofs --------------------------
(***************************************************************************)
(* What TLAPS proves of drawing, in two parts that share no state.         *)
(*                                                                         *)
(* The frame pipeline, for any depth, any number of frames and retries,    *)
(* any backlog and any secondary callbacks: one request and one vsync are  *)
(* in flight, pauses are matched, the pipeline is the bounded queue of     *)
(* FrameQueue, and frames are drawn in order.                              *)
(*                                                                         *)
(* The raster threads, for any number of shells, frames and lifecycle      *)
(* calls and any lease: a Draw begins alone and is left alone until the    *)
(* threads are merged or parted, leases and queues agree, no frame is      *)
(* forgotten, and a destroyed view has no surface when its call returns.   *)
(***************************************************************************)
EXTENDS FramePipeline, RasterThreads, FiniteSetTheorems, SequenceTheorems, TLAPS

-----------------------------------------------------------------------------
(* Counting the tasks of a sequence *)

LEMMA CountFinite ==
    ASSUME NEW S, NEW s \in Seq(S), NEW x
    PROVE  IsFiniteSet({i \in DOMAIN s : s[i] = x}) /\ Count(s, x) \in Nat
<1>1. IsFiniteSet(DOMAIN s)
  BY FS_Interval, DOMAIN s = 1..Len(s), Len(s) \in Nat
<1>2. IsFiniteSet({i \in DOMAIN s : s[i] = x})
  BY <1>1, FS_Subset
<1>. QED
  BY <1>2, FS_CardinalityType DEF Count

LEMMA CountAppend ==
    ASSUME NEW S, NEW s \in Seq(S), NEW y \in S, NEW x
    PROVE  Count(Append(s, y), x) = Count(s, x) + One(y = x)
<1>. DEFINE A == {i \in DOMAIN s : s[i] = x}
            B == {i \in DOMAIN Append(s, y) : Append(s, y)[i] = x}
            n == Len(s) + 1
<1>1. /\ DOMAIN s = 1..Len(s) /\ Len(s) \in Nat
      /\ DOMAIN Append(s, y) = 1..n /\ Append(s, y)[n] = y
      /\ \A i \in 1..Len(s) : Append(s, y)[i] = s[i]
  OBVIOUS
<1>2. n \notin A /\ IsFiniteSet(A) /\ Cardinality(A) \in Nat
  <2>1. n \notin A
    BY <1>1
  <2>2. IsFiniteSet(A) /\ Cardinality(A) \in Nat
    BY CountFinite DEF Count
  <2>. QED
    BY <2>1, <2>2
<1>0. Count(s, x) = Cardinality(A) /\ Count(Append(s, y), x) = Cardinality(B)
  BY DEF Count
<1>3. CASE y = x
  <2>1. B = A \cup {n}
    BY <1>1, <1>3
  <2>. HIDE DEF A, B
  <2>2. Cardinality(B) = Cardinality(A) + 1
    BY <1>2, <2>1, FS_AddElement
  <2>. QED
    BY <1>0, <1>3, <2>2 DEF One
<1>4. CASE y # x
  <2>1. B = A
    BY <1>1, <1>4
  <2>. HIDE DEF A, B
  <2>. QED
    BY <1>0, <1>2, <1>4, <2>1 DEF One
<1>. QED
  BY <1>3, <1>4

LEMMA CountTail ==
    ASSUME NEW S, NEW s \in Seq(S), s # <<>>, NEW x
    PROVE  Count(s, x) = Count(Tail(s), x) + One(Head(s) = x)
<1>. DEFINE A == {i \in DOMAIN s : s[i] = x}
            T == {i \in DOMAIN Tail(s) : Tail(s)[i] = x}
            f == [i \in T |-> i + 1]
<1>1. /\ DOMAIN s = 1..Len(s) /\ Len(s) \in Nat \ {0} /\ Head(s) = s[1]
      /\ DOMAIN Tail(s) = 1..(Len(s) - 1) /\ \A i \in 1..(Len(s) - 1) : Tail(s)[i] = s[i + 1]
      /\ Tail(s) \in Seq(S)
  OBVIOUS
<1>2. IsFiniteSet(T) /\ IsFiniteSet(A) /\ Cardinality(T) \in Nat /\ Cardinality(A) \in Nat
  BY <1>1, CountFinite DEF Count
<1>3. f \in Bijection(T, A \ {1})
  <2>1. \A i \in T : i + 1 \in A \ {1}
    BY <1>1
  <2>2. \A i \in A \ {1} : i - 1 \in T /\ (i - 1) + 1 = i
    BY <1>1
  <2>3. \A i, j \in T : i + 1 = j + 1 => i = j
    BY <1>1
  <2>4. f \in [T -> A \ {1}]
    BY <2>1
  <2>. QED
    BY <2>2, <2>3, <2>4 DEF Bijection, Injection, Surjection, IsInjective
<1>4. IsFiniteSet(A \ {1}) /\ Cardinality(A \ {1}) = Cardinality(T)
  BY <1>2, <1>3, FS_Bijection DEF ExistsBijection
<1>5. Cardinality(A \ {1}) = IF 1 \in A THEN Cardinality(A) - 1 ELSE Cardinality(A)
  BY <1>2, FS_RemoveElement
<1>6. 1 \in A <=> Head(s) = x
  BY <1>1
<1>7. Count(s, x) = Cardinality(A) /\ Count(Tail(s), x) = Cardinality(T)
  BY DEF Count
<1>. HIDE DEF A, T
<1>. QED
  BY <1>2, <1>4, <1>5, <1>6, <1>7 DEF One

-----------------------------------------------------------------------------
(* The inductive invariant: requests and vsyncs *)

LEMMA InitFlow == Init => FlowInv
<1>. SUFFICES ASSUME Init PROVE FlowInv
  OBVIOUS
<1>1. Count(uiTasks, "await") = 0 /\ Count(uiTasks, "frame") = 0
  <2>1. {i \in DOMAIN uiTasks : uiTasks[i] = "await"} = {}
        /\ {i \in DOMAIN uiTasks : uiTasks[i] = "frame"} = {}
    BY DEF Init
  <2>. QED
    BY <2>1, FS_EmptySet DEF Count
<1>2. FlowType /\ UiFrame
  <2>1. ui \in UiPlaces /\ UiFrame
    BY DEF Init, UiFrame, UiPlaces, UiIdle, UiPc
  <2>2. waiter \in Callbacks /\ firing \in Callbacks
    BY DEF Init, Callbacks, NoCallbacks
  <2>3. uiTasks \in Seq(UiTaskNames)
    BY DEF Init
  <2>. QED
    BY <2>1, <2>2, <2>3 DEF Init, FlowType
<1>. QED
  BY <1>1, <1>2 DEF Init, FlowInv, OneRequestInFlight, OneVsyncOwed, WantedIsAsked,
     PausedByFrame, One, NoCallbacks, UiIdle

\* What posting and taking a task of the UI thread does to the counts.
LEMMA UiPosts ==
    ASSUME NEW s \in Seq(UiTaskNames), NEW t \in UiTaskNames
    PROVE  /\ Append(s, t) \in Seq(UiTaskNames)
           /\ Count(Append(s, t), "await") = Count(s, "await") + One(t = "await")
           /\ Count(Append(s, t), "frame") = Count(s, "frame") + One(t = "frame")
           /\ Count(s, "await") \in Nat /\ Count(s, "frame") \in Nat
<1>1. Append(s, t) \in Seq(UiTaskNames)
  OBVIOUS
<1>2. Count(Append(s, t), "await") = Count(s, "await") + One(t = "await")
  BY CountAppend
<1>3. Count(Append(s, t), "frame") = Count(s, "frame") + One(t = "frame")
  BY CountAppend
<1>4. Count(s, "await") \in Nat /\ Count(s, "frame") \in Nat
  BY CountFinite
<1>. QED
  BY <1>1, <1>2, <1>3, <1>4

LEMMA UiTakes ==
    ASSUME FlowType, NEW t, UiTask(t)
    PROVE  /\ ui.pc = "idle" /\ Tail(uiTasks) \in Seq(UiTaskNames)
           /\ Count(uiTasks, "await") = Count(Tail(uiTasks), "await") + One(t = "await")
           /\ Count(uiTasks, "frame") = Count(Tail(uiTasks), "frame") + One(t = "frame")
           /\ Count(Tail(uiTasks), "await") \in Nat /\ Count(Tail(uiTasks), "frame") \in Nat
<1>1. uiTasks \in Seq(UiTaskNames) /\ uiTasks # <<>> /\ Head(uiTasks) = t /\ ui.pc = "idle"
  BY DEF FlowType, UiTask
<1>2. Tail(uiTasks) \in Seq(UiTaskNames)
  BY <1>1
<1>. QED
  BY <1>1, <1>2, CountTail, CountFinite

LEMMA CallbackTypes ==
    /\ NoCallbacks \in Callbacks /\ NoCallbacks.callback = FALSE /\ NoCallbacks.secondary = {}
    /\ \A c \in Callbacks : /\ [c EXCEPT !.callback = TRUE] \in Callbacks
                            /\ [c EXCEPT !.callback = TRUE] # NoCallbacks
                            /\ [c EXCEPT !.callback = TRUE].callback = TRUE
                            /\ [c EXCEPT !.callback = FALSE] \in Callbacks
                            /\ [c EXCEPT !.callback = FALSE].callback = FALSE
    /\ \A c \in Callbacks : \A id \in Secondary :
          /\ [c EXCEPT !.secondary = @ \cup {id}] \in Callbacks
          /\ [c EXCEPT !.secondary = @ \cup {id}] # NoCallbacks
          /\ [c EXCEPT !.secondary = @ \cup {id}].callback = c.callback
          /\ [c EXCEPT !.secondary = @ \ {id}] \in Callbacks
          /\ [c EXCEPT !.secondary = @ \ {id}].callback = c.callback
<1>1. NoCallbacks \in Callbacks /\ NoCallbacks.callback = FALSE /\ NoCallbacks.secondary = {}
  BY DEF NoCallbacks, Callbacks
<1>. QED
  BY <1>1 DEF Callbacks

\* The steps of the application and of the vsync thread.
LEMMA FlowRequests ==
    ASSUME FlowInv, NEW regen \in BOOLEAN, RequestFrame(regen)
    PROVE  FlowInv'
<1>1. /\ regenerate' = (regenerate \/ regen)
      /\ ui' = ui /\ waiter' = waiter /\ asked' = asked /\ firing' = firing /\ pauses' = pauses
  BY DEF RequestFrame, vsyncVars
<1>2. CASE pending > 0
  <2>1. pending' = pending - 1 /\ uiTasks' = Append(uiTasks, "await")
    BY <1>2 DEF RequestFrame
  <2>2. /\ uiTasks' \in Seq(UiTaskNames)
        /\ Count(uiTasks', "await") = Count(uiTasks, "await") + 1
        /\ Count(uiTasks', "frame") = Count(uiTasks, "frame")
        /\ Count(uiTasks, "await") \in Nat /\ Count(uiTasks, "frame") \in Nat
    BY <2>1, UiPosts DEF FlowInv, FlowType, One, UiTaskNames
  <2>3. FlowType' /\ UiFrame' /\ OneVsyncOwed'
    BY <1>1, <1>2, <2>1, <2>2 DEF FlowInv, FlowType, UiFrame, OneVsyncOwed
  <2>4. OneRequestInFlight' /\ PausedByFrame'
    BY <1>1, <1>2, <2>1, <2>2 DEF FlowInv, FlowType, OneRequestInFlight, PausedByFrame
  <2>5. pending' = 0
    BY <1>2, <2>1, <2>2 DEF FlowInv, FlowType, OneRequestInFlight, One
  <2>. QED
    BY <2>3, <2>4, <2>5 DEF FlowInv, WantedIsAsked
<1>3. CASE ~(pending > 0)
  <2>1. pending' = pending /\ uiTasks' = uiTasks /\ pending = 0
    BY <1>3 DEF RequestFrame, FlowInv, FlowType
  <2>. QED
    BY <1>1, <2>1 DEF FlowInv, FlowType, UiFrame, OneVsyncOwed, OneRequestInFlight,
       PausedByFrame, WantedIsAsked
<1>. QED
  BY <1>2, <1>3

LEMMA FlowSchedules ==
    ASSUME FlowInv, NEW id \in Secondary, ScheduleSecondaryCallback(id)
    PROVE  FlowInv'
<1>1. /\ asked' = (IF waiter = NoCallbacks THEN asked + 1 ELSE asked)
      /\ waiter' = [waiter EXCEPT !.secondary = @ \cup {id}]
      /\ UNCHANGED <<pending, regenerate, ui, uiTasks, firing, pauses>>
  BY DEF ScheduleSecondaryCallback, Asks, animatorVars
<1>2. /\ waiter' \in Callbacks /\ waiter' # NoCallbacks /\ waiter'.callback = waiter.callback
  BY <1>1, CallbackTypes DEF FlowInv, FlowType
<1>3. OneVsyncOwed' /\ asked' \in Nat
  BY <1>1, <1>2 DEF FlowInv, FlowType, OneVsyncOwed, One
<1>. QED
  BY <1>1, <1>2, <1>3 DEF FlowInv, FlowType, UiFrame, OneRequestInFlight, PausedByFrame,
     WantedIsAsked

LEMMA FlowVsync ==
    ASSUME FlowInv,
           TakeCallbacks \/ PostFrameTask \/ \E id \in Secondary : PostSecondary(id)
    PROVE  FlowInv'
<1>1. CASE TakeCallbacks
  <2>1. /\ asked > 0 /\ firing = NoCallbacks /\ asked' = asked - 1 /\ firing' = waiter
        /\ waiter' = NoCallbacks /\ pauses' = (IF waiter.callback THEN pauses + 1 ELSE pauses)
        /\ UNCHANGED <<pending, regenerate, ui, uiTasks>>
    BY <1>1 DEF TakeCallbacks, animatorVars
  <2>2. asked' = 0 /\ OneVsyncOwed'
    BY <2>1 DEF FlowInv, FlowType, OneVsyncOwed, One
  <2>3. FlowType' /\ UiFrame' /\ WantedIsAsked'
    BY <2>1, <2>2, CallbackTypes DEF FlowInv, FlowType, UiFrame, WantedIsAsked
  <2>4. firing.callback = FALSE /\ waiter'.callback = FALSE /\ firing'.callback = waiter.callback
    BY <2>1, CallbackTypes
  <2>5. Count(uiTasks, "await") \in Nat /\ Count(uiTasks, "frame") \in Nat
    BY CountFinite DEF FlowInv, FlowType
  <2>6. OneRequestInFlight' /\ PausedByFrame'
    BY <2>1, <2>4, <2>5 DEF FlowInv, FlowType, OneRequestInFlight, PausedByFrame, One
  <2>. QED
    BY <2>2, <2>3, <2>6 DEF FlowInv
<1>2. CASE PostFrameTask
  <2>1. /\ firing.callback /\ firing' = [firing EXCEPT !.callback = FALSE]
        /\ uiTasks' = Append(uiTasks, "frame")
        /\ UNCHANGED <<pending, regenerate, ui, waiter, asked, pauses>>
    BY <1>2 DEF PostFrameTask
  <2>2. /\ uiTasks' \in Seq(UiTaskNames)
        /\ Count(uiTasks', "await") = Count(uiTasks, "await")
        /\ Count(uiTasks', "frame") = Count(uiTasks, "frame") + 1
        /\ Count(uiTasks, "await") \in Nat /\ Count(uiTasks, "frame") \in Nat
    BY <2>1, UiPosts DEF FlowInv, FlowType, One, UiTaskNames
  <2>3. firing' \in Callbacks /\ firing'.callback = FALSE
    BY <2>1, CallbackTypes DEF FlowInv, FlowType
  <2>4. FlowType' /\ UiFrame' /\ WantedIsAsked' /\ OneVsyncOwed'
    BY <2>1, <2>2, <2>3 DEF FlowInv, FlowType, UiFrame, WantedIsAsked, OneVsyncOwed
  <2>5. OneRequestInFlight' /\ PausedByFrame'
    BY <2>1, <2>2, <2>3 DEF FlowInv, FlowType, OneRequestInFlight, PausedByFrame, One
  <2>. QED
    BY <2>4, <2>5 DEF FlowInv
<1>3. ASSUME NEW id \in Secondary, PostSecondary(id) PROVE FlowInv'
  <2>1. /\ firing' = [firing EXCEPT !.secondary = @ \ {id}]
        /\ uiTasks' = Append(uiTasks, "secondary")
        /\ UNCHANGED <<pending, regenerate, ui, waiter, asked, pauses>>
    BY <1>3 DEF PostSecondary
  <2>2. /\ uiTasks' \in Seq(UiTaskNames)
        /\ Count(uiTasks', "await") = Count(uiTasks, "await")
        /\ Count(uiTasks', "frame") = Count(uiTasks, "frame")
    BY <2>1, UiPosts DEF FlowInv, FlowType, One, UiTaskNames
  <2>3. firing' \in Callbacks /\ firing'.callback = firing.callback
    BY <2>1, CallbackTypes DEF FlowInv, FlowType
  <2>4. FlowType' /\ UiFrame' /\ WantedIsAsked' /\ OneVsyncOwed'
    BY <2>1, <2>2, <2>3 DEF FlowInv, FlowType, UiFrame, WantedIsAsked, OneVsyncOwed
  <2>5. OneRequestInFlight' /\ PausedByFrame'
    BY <2>1, <2>2, <2>3 DEF FlowInv, OneRequestInFlight, PausedByFrame
  <2>. QED
    BY <2>4, <2>5 DEF FlowInv
<1>. QED
  BY <1>1, <1>2, <1>3

\* When the vsync task of a frame comes up, the request is nowhere else.
AtFrameTask ==
    /\ Tail(uiTasks) \in Seq(UiTaskNames) /\ ui.pc = "idle" /\ ~ui.inFrame
    /\ Count(Tail(uiTasks), "frame") = 0 /\ Count(Tail(uiTasks), "await") = 0
    /\ pending = 0 /\ waiter.callback = FALSE /\ firing.callback = FALSE /\ pauses = 1

LEMMA FrameTask == ASSUME FlowInv, UiTask("frame") PROVE AtFrameTask
<1>0. FlowType /\ UiFrame /\ OneRequestInFlight /\ PausedByFrame
  BY DEF FlowInv
<1>1. /\ ui.pc = "idle" /\ Tail(uiTasks) \in Seq(UiTaskNames)
      /\ Count(uiTasks, "frame") = Count(Tail(uiTasks), "frame") + 1
      /\ Count(uiTasks, "await") = Count(Tail(uiTasks), "await")
      /\ Count(Tail(uiTasks), "await") \in Nat /\ Count(Tail(uiTasks), "frame") \in Nat
  BY <1>0, UiTakes DEF One
<1>2. /\ Count(uiTasks, "frame") = 1 /\ Count(uiTasks, "await") = 0 /\ pending = 0
      /\ waiter.callback = FALSE /\ firing.callback = FALSE
  BY <1>0, <1>1 DEF FlowType, OneRequestInFlight, One, Callbacks
<1>3. ~ui.inFrame
  BY <1>0, <1>1 DEF UiFrame
<1>4. pauses = 1
  BY <1>0, <1>2, <1>3 DEF FlowType, PausedByFrame, One
<1>. QED
  BY <1>1, <1>2, <1>3, <1>4 DEF AtFrameTask
\* The tasks of the UI thread.
LEMMA FlowTasks ==
    ASSUME FlowInv,
           \/ AsyncWaitForVsync \/ RunSecondaryCallback
           \/ DrawLastLayerTrees \/ BeginFrame \/ PipelineFull
    PROVE  FlowInv'
<1>0. FlowType /\ UiFrame /\ OneRequestInFlight /\ OneVsyncOwed /\ WantedIsAsked /\ PausedByFrame
  BY DEF FlowInv
<1>1. CASE AsyncWaitForVsync
  <2>1. /\ UiTask("await") /\ uiTasks' = Tail(uiTasks)
        /\ asked' = (IF waiter = NoCallbacks THEN asked + 1 ELSE asked)
        /\ waiter' = [waiter EXCEPT !.callback = TRUE]
        /\ UNCHANGED <<pending, regenerate, ui, firing, pauses>>
    BY <1>1 DEF AsyncWaitForVsync, Asks
  <2>2. /\ uiTasks' \in Seq(UiTaskNames)
        /\ Count(uiTasks, "await") = Count(uiTasks', "await") + 1
        /\ Count(uiTasks', "frame") = Count(uiTasks, "frame")
        /\ Count(uiTasks', "await") \in Nat /\ Count(uiTasks', "frame") \in Nat
    BY <1>0, <2>1, UiTakes DEF One
  <2>3. waiter' \in Callbacks /\ waiter' # NoCallbacks /\ waiter'.callback = TRUE
    BY <1>0, <2>1, CallbackTypes DEF FlowType
  <2>4. FlowType' /\ UiFrame' /\ WantedIsAsked' /\ OneVsyncOwed'
    BY <1>0, <2>1, <2>2, <2>3 DEF FlowType, UiFrame, WantedIsAsked, OneVsyncOwed, One
  <2>5. waiter.callback = FALSE
    BY <1>0, <2>1, <2>2 DEF FlowType, OneRequestInFlight, One, Callbacks
  <2>6. OneRequestInFlight' /\ PausedByFrame'
    BY <1>0, <2>1, <2>2, <2>3, <2>5 DEF FlowType, OneRequestInFlight, PausedByFrame, One
  <2>. QED
    BY <2>4, <2>6 DEF FlowInv
<1>2. CASE RunSecondaryCallback
  <2>1. /\ UiTask("secondary") /\ uiTasks' = Tail(uiTasks)
        /\ UNCHANGED <<pending, regenerate, ui, waiter, asked, firing, pauses>>
    BY <1>2 DEF RunSecondaryCallback, vsyncVars
  <2>2. /\ uiTasks' \in Seq(UiTaskNames)
        /\ Count(uiTasks', "await") = Count(uiTasks, "await")
        /\ Count(uiTasks', "frame") = Count(uiTasks, "frame")
    BY <1>0, <2>1, UiTakes DEF One
  <2>. QED
    BY <1>0, <2>1, <2>2 DEF FlowInv, FlowType, UiFrame, WantedIsAsked, OneVsyncOwed,
       OneRequestInFlight, PausedByFrame
<1>3. UiTask("frame") => AtFrameTask
  BY FrameTask
<1>4. CASE DrawLastLayerTrees
  <2>0. AtFrameTask
    BY <1>3, <1>4 DEF DrawLastLayerTrees
  <2>1. /\ UiTask("frame") /\ ~regenerate /\ uiTasks' = Tail(uiTasks)
        /\ pending' = pending + 1 /\ pauses' = pauses - 1
        /\ UNCHANGED <<regenerate, ui, waiter, asked, firing>>
    BY <1>4 DEF DrawLastLayerTrees
  <2>2. FlowType' /\ UiFrame' /\ WantedIsAsked' /\ OneVsyncOwed'
    BY <1>0, <2>0, <2>1 DEF AtFrameTask, FlowType, UiFrame, WantedIsAsked, OneVsyncOwed
  <2>3. OneRequestInFlight' /\ PausedByFrame'
    BY <2>0, <2>1 DEF AtFrameTask, OneRequestInFlight, PausedByFrame, One
  <2>. QED
    BY <2>2, <2>3 DEF FlowInv
<1>5. CASE BeginFrame
  <2>0. AtFrameTask
    BY <1>3, <1>5 DEF BeginFrame
  <2>1. /\ UiTask("frame") /\ uiTasks' = Tail(uiTasks)
        /\ regenerate' = FALSE /\ pending' = pending + 1 /\ ui' = UiBuilds
        /\ UNCHANGED <<waiter, asked, firing, pauses>>
    BY <1>5 DEF BeginFrame, vsyncVars
  <2>2. ui' \in UiPlaces /\ ui'.pc = "build" /\ ui'.inFrame
    BY <2>1 DEF UiBuilds, UiPlaces, UiPc
  <2>3. UiFrame' /\ WantedIsAsked' /\ OneVsyncOwed'
    BY <1>0, <2>1, <2>2 DEF UiFrame, WantedIsAsked, OneVsyncOwed
  <2>5. FlowType'
    <3>1. pending' = pending + 1 /\ uiTasks' = Tail(uiTasks)
      BY <2>1
    <3>2. pending' \in Nat /\ uiTasks' \in Seq(UiTaskNames)
      BY <2>0, <3>1 DEF AtFrameTask
    <3>3. regenerate' \in BOOLEAN
      BY <2>1
    <3>4. UNCHANGED <<waiter, asked, firing, pauses>>
      BY <2>1
    <3>. QED
      BY <1>0, <2>2, <3>2, <3>3, <3>4 DEF FlowType
  <2>4. OneRequestInFlight' /\ PausedByFrame'
    BY <2>0, <2>1, <2>2 DEF AtFrameTask, OneRequestInFlight, PausedByFrame, One
  <2>. QED
    BY <2>3, <2>4, <2>5 DEF FlowInv
<1>6. CASE PipelineFull
  <2>0. AtFrameTask
    BY <1>3, <1>6 DEF PipelineFull
  <2>1. /\ UiTask("frame") /\ uiTasks' = Append(Tail(uiTasks), "await")
        /\ pending' = pending + 1 - 1 /\ pauses' = pauses - 1
        /\ UNCHANGED <<regenerate, ui, waiter, asked, firing>>
    BY <1>6 DEF PipelineFull
  <2>2. /\ uiTasks' \in Seq(UiTaskNames) /\ pending' = pending
        /\ Count(uiTasks', "await") = 1 /\ Count(uiTasks', "frame") = 0
    <3>1. Tail(uiTasks) \in Seq(UiTaskNames) /\ "await" \in UiTaskNames
      BY <2>0, <2>1 DEF AtFrameTask, UiTaskNames
    <3>2. /\ uiTasks' \in Seq(UiTaskNames)
          /\ Count(uiTasks', "await") = Count(Tail(uiTasks), "await") + One("await" = "await")
          /\ Count(uiTasks', "frame") = Count(Tail(uiTasks), "frame") + One("await" = "frame")
      BY <2>1, <3>1, UiPosts
    <3>. QED
      BY <2>0, <2>1, <3>2 DEF AtFrameTask, One
  <2>3. FlowType' /\ UiFrame' /\ WantedIsAsked' /\ OneVsyncOwed'
    BY <1>0, <2>0, <2>1, <2>2 DEF AtFrameTask, FlowType, UiFrame, WantedIsAsked, OneVsyncOwed
  <2>4. OneRequestInFlight' /\ PausedByFrame'
    BY <2>0, <2>1, <2>2 DEF AtFrameTask, OneRequestInFlight, PausedByFrame, One
  <2>. QED
    BY <2>3, <2>4 DEF FlowInv
<1>. QED
  BY <1>1, <1>2, <1>4, <1>5, <1>6

\* The end of a frame.
LEMMA FlowEnds ==
    ASSUME FlowInv, EndFrameWithoutTrees \/ EndFrame \/ SignalAvailable \/ OnAnimatorDraw
    PROVE  FlowInv'
<1>0. FlowType /\ UiFrame /\ OneRequestInFlight /\ OneVsyncOwed /\ WantedIsAsked /\ PausedByFrame
  BY DEF FlowInv
<1>1. UNCHANGED <<pending, regenerate, uiTasks, waiter, asked, firing>>
  BY DEF EndFrameWithoutTrees, EndFrame, SignalAvailable, OnAnimatorDraw, vsyncVars
<1>5. UiIdle \in UiPlaces /\ UiIdle.pc = "idle" /\ ~UiIdle.inFrame
  BY DEF UiIdle, UiPlaces, UiPc
<1>2. /\ ui' \in UiPlaces /\ UiFrame'
      /\ \/ pauses' = pauses /\ ui'.inFrame = ui.inFrame
         \/ ~ui'.inFrame /\ pauses' = (IF ui.inFrame THEN pauses - 1 ELSE pauses)
  <2>1. CASE EndFrameWithoutTrees
    BY <1>0, <1>5, <2>1 DEF EndFrameWithoutTrees, Resumes, UiFrame
  <2>2. CASE EndFrame /\ continuation
    <3>1. /\ ui' = [pc |-> "signal", first |-> queue = <<>>, inFrame |-> ui.inFrame]
          /\ pauses' = pauses
      BY <2>2 DEF EndFrame
    <3>2. ui'.pc = "signal" /\ ui'.inFrame = ui.inFrame
      BY <3>1
    <3>3. ui.inFrame \in BOOLEAN /\ "signal" \in UiPc /\ (queue = <<>>) \in BOOLEAN
      BY <1>0 DEF FlowType, UiPlaces, UiPc
    <3>4. ui' \in UiPlaces
      BY <3>1, <3>3 DEF UiPlaces
    <3>. QED
      BY <3>1, <3>2, <3>4 DEF UiFrame
  <2>3. CASE EndFrame /\ ~continuation
    BY <1>5, <2>3 DEF EndFrame, Resumes, UiFrame
  <2>4. CASE SignalAvailable
    BY <1>0, <2>4 DEF SignalAvailable, vsyncVars, UiPlaces, UiPc, UiFrame, FlowType
  <2>5. CASE OnAnimatorDraw
    BY <1>5, <2>5 DEF OnAnimatorDraw, Resumes, UiFrame
  <2>. QED
    BY <2>1, <2>2, <2>3, <2>4, <2>5
<1>3. Count(uiTasks, "frame") \in Nat
  BY <1>0, CountFinite DEF FlowType
<1>4. pauses' \in Nat /\ PausedByFrame'
  BY <1>0, <1>1, <1>2, <1>3 DEF FlowType, PausedByFrame, One, Callbacks, UiPlaces
<1>. QED
  BY <1>0, <1>1, <1>2, <1>4 DEF FlowInv, FlowType, WantedIsAsked, OneVsyncOwed,
     OneRequestInFlight

LEMMA FlowInductive == FlowInv /\ [Next]_vars => FlowInv'
<1>. SUFFICES ASSUME FlowInv, [Next]_vars PROVE FlowInv'
  OBVIOUS
<1>1. CASE UNCHANGED <<animatorVars, vsyncVars>>
  BY <1>1 DEF animatorVars, vsyncVars, FlowInv, FlowType, UiFrame, WantedIsAsked,
     OneVsyncOwed, OneRequestInFlight, PausedByFrame
<1>2. CASE RasterStep
  BY <1>1, <1>2 DEF RasterStep, RunDrawLast, Draw, Pop, DoDraw, ProduceIfEmpty,
     ProducerCommitIfEmpty, SignalAgain, PostDraw
<1>3. CASE Application
  BY <1>3, FlowRequests, FlowSchedules, FlowEnds DEF Application
<1>4. CASE UiStep
  BY <1>4, FlowTasks, FlowEnds DEF UiStep
<1>5. CASE VsyncStep
  BY <1>5, FlowVsync DEF VsyncStep
<1>. QED
  BY <1>1, <1>2, <1>3, <1>4, <1>5 DEF Next, vars

-----------------------------------------------------------------------------
(* The inductive invariant: the pipeline *)

\* The terms of the two sums.
Reserved   == One(continuation)
InHand     == One(raster.pc \in {"draw", "recommit"})
ToSignal   == One(ui.pc = "signal")
ToResignal == One(raster.pc = "resignal")
Popping    == One(raster.pc = "pop")

LEMMA Sums ==
    /\ PlacesAccounted <=> empty + Len(queue) + Reserved + InHand = Depth
    /\ PopsWhatIsThere <=> Len(queue) = available + ToSignal + ToResignal + Popping
    /\ Reserved \in {0, 1} /\ InHand \in {0, 1}
    /\ ToSignal \in {0, 1} /\ ToResignal \in {0, 1} /\ Popping \in {0, 1}
  BY DEF PlacesAccounted, PopsWhatIsThere, Reserved, InHand, ToSignal, ToResignal, Popping, One

LEMMA SumsAfter ==
    /\ PlacesAccounted' <=> empty' + Len(queue') + Reserved' + InHand' = Depth
    /\ PopsWhatIsThere' <=> Len(queue') = available' + ToSignal' + ToResignal' + Popping'
    /\ Reserved' \in {0, 1} /\ InHand' \in {0, 1}
    /\ ToSignal' \in {0, 1} /\ ToResignal' \in {0, 1} /\ Popping' \in {0, 1}
  BY DEF PlacesAccounted, PopsWhatIsThere, Reserved, InHand, ToSignal, ToResignal, Popping, One

LEMMA RasterIdleType ==
    RasterIdle \in RasterPlaces /\ RasterIdle.pc = "idle"
  BY PipelineAssumption DEF PipelineAssumption, RasterIdle, RasterPlaces, RasterPc

LEMMA InitPipe == Init => PipeInv
<1>. SUFFICES ASSUME Init PROVE PipeInv
  OBVIOUS
<1>1. /\ continuation = FALSE /\ empty = Depth /\ available = 0 /\ queue = <<>> /\ rasterTasks = <<>>
      /\ raster = RasterIdle /\ built = 0 /\ drawn = 0 /\ retries = 0 /\ waitingFirst = TRUE
      /\ ui.pc = "idle"
  BY DEF Init, UiIdle
<1>2. Depth \in Nat /\ MaxFrames \in Nat /\ MaxRetries \in Nat
  BY PipelineAssumption DEF PipelineAssumption
<1>3. PipeType
  <2>1. continuation \in BOOLEAN /\ waitingFirst \in BOOLEAN
    BY <1>1
  <2>2. queue \in Seq(Frames) /\ rasterTasks \in Seq(RasterTaskNames)
    BY <1>1
  <2>3. /\ empty \in Nat /\ available \in Nat /\ built \in 0..MaxFrames /\ drawn \in 0..MaxFrames
        /\ retries \in 0..MaxRetries
    BY <1>1, <1>2
  <2>. QED
    BY <1>1, <2>1, <2>2, <2>3, RasterIdleType DEF PipeType
<1>4. PlacesAccounted /\ PopsWhatIsThere
  BY <1>1, <1>2, RasterIdleType DEF PlacesAccounted, PopsWhatIsThere, One
<1>5. FramesOrdered
  BY <1>1, RasterIdleType DEF FramesOrdered, HasItem
<1>. QED
  BY <1>3, <1>4, <1>5 DEF PipeInv

\* Steps that leave the pipeline and the rasterizer alone.
LEMMA PipeUntouched ==
    ASSUME PipeInv, UNCHANGED <<pipelineVars, raster, drawn, retries, waitingFirst, built>>,
           rasterTasks' \in Seq(RasterTaskNames), ui'.pc = "signal" <=> ui.pc = "signal"
    PROVE  PipeInv'
<1>1. PipeType' /\ PlacesAccounted' /\ FramesOrdered'
  BY DEF PipeInv, PipeType, PlacesAccounted, FramesOrdered, HasItem, pipelineVars
<1>2. PopsWhatIsThere'
  BY DEF PipeInv, PopsWhatIsThere, pipelineVars, One
<1>. QED
  BY <1>1, <1>2 DEF PipeInv

\* The end of a Draw, with or without another one to post.
LEMMA DrawEnds ==
    ASSUME PipeType, NEW more \in BOOLEAN, Ends(more)
    PROVE  raster' \in RasterPlaces /\ raster'.pc \in {"repost", "idle"} /\ waitingFirst' \in BOOLEAN
<1>1. CASE more
  BY <1>1 DEF Ends, PipeType, RasterPlaces, RasterPc
<1>2. CASE ~more
  BY <1>2, RasterIdleType DEF Ends, DrawReturns, PipeType
<1>. QED
  BY <1>1, <1>2

\* The steps of the UI thread that use the pipeline.
LEMMA PipeBegins ==
    ASSUME PipeInv, BeginFrame
    PROVE  PipeInv'
<1>1. /\ continuation' = TRUE /\ empty' = (IF continuation THEN empty ELSE empty - 1)
      /\ (continuation \/ empty > 0) /\ ui.pc = "idle" /\ ui'.pc = "build"
      /\ UNCHANGED <<available, queue, rasterTasks, raster, drawn, retries, waitingFirst, built>>
  BY DEF BeginFrame, rasterVars, UiBuilds, UiTask
<1>2. empty' \in Nat /\ continuation' \in BOOLEAN
  BY <1>1 DEF PipeInv, PipeType
<1>3. PipeType'
  BY <1>1, <1>2 DEF PipeInv, PipeType
<1>4. PlacesAccounted'
  <2>1. empty \in Nat /\ Len(queue) \in Nat /\ continuation \in BOOLEAN /\ PlacesAccounted
    BY DEF PipeInv, PipeType
  <2>2. empty + Len(queue) + Reserved + InHand = Depth /\ Reserved \in {0, 1} /\ InHand \in {0, 1}
    BY <2>1, Sums
  <2>3. Len(queue') = Len(queue) /\ Reserved' = 1 /\ InHand' = InHand
    BY <1>1 DEF Reserved, InHand, One
  <2>4. CASE continuation
    <3>1. empty' = empty /\ Reserved = 1
      BY <1>1, <2>4 DEF Reserved, One
    <3>. QED
      BY <2>1, <2>2, <2>3, <3>1, SumsAfter
  <2>5. CASE ~continuation
    <3>1. empty' = empty - 1 /\ Reserved = 0
      BY <1>1, <2>5 DEF Reserved, One
    <3>. QED
      BY <2>1, <2>2, <2>3, <3>1, SumsAfter
  <2>. QED
    BY <2>1, <2>4, <2>5
<1>5. PopsWhatIsThere'
  BY <1>1 DEF PipeInv, PopsWhatIsThere, One
<1>6. FramesOrdered'
  BY <1>1 DEF PipeInv, FramesOrdered, HasItem
<1>. QED
  BY <1>3, <1>4, <1>5, <1>6 DEF PipeInv

LEMMA PipeFacts ==
    ASSUME PipeInv
    PROVE  /\ Depth \in Nat /\ empty \in Nat /\ available \in Nat /\ Len(queue) \in Nat
           /\ queue \in Seq(Frames) /\ MaxFrames \in Nat /\ MaxRetries \in Nat
           /\ empty + Len(queue) + Reserved + InHand = Depth
           /\ Len(queue) = available + ToSignal + ToResignal + Popping
           /\ Reserved \in {0, 1} /\ InHand \in {0, 1}
           /\ ToSignal \in {0, 1} /\ ToResignal \in {0, 1} /\ Popping \in {0, 1}
  BY Sums, PipelineAssumption DEF PipeInv, PipeType, PipelineAssumption

LEMMA PopFacts ==
    ASSUME PipeInv
    PROVE  /\ available \in Nat /\ ToSignal \in Nat /\ ToResignal \in Nat /\ Popping \in Nat
           /\ Len(queue) = available + ToSignal + ToResignal + Popping
<1>1. ToSignal \in Nat /\ ToResignal \in Nat /\ Popping \in Nat
  BY DEF ToSignal, ToResignal, Popping, One
<1>2. available \in Nat /\ PopsWhatIsThere
  BY DEF PipeInv, PipeType
<1>. QED
  BY <1>1, <1>2, Sums

LEMMA PlaceFacts ==
    ASSUME PipeInv
    PROVE  /\ Depth \in Nat /\ empty \in Nat /\ Len(queue) \in Nat /\ Reserved \in Nat /\ InHand \in Nat
           /\ empty + Len(queue) + Reserved + InHand = Depth
<1>1. Reserved \in Nat /\ InHand \in Nat
  BY DEF Reserved, InHand, One
<1>. QED
  BY <1>1, PipeFacts

LEMMA PlacesAfter ==
    empty' + Len(queue') + Reserved' + InHand' = Depth => PlacesAccounted'
  BY SumsAfter

LEMMA PopsAfter ==
    Len(queue') = available' + ToSignal' + ToResignal' + Popping' => PopsWhatIsThere'
  BY SumsAfter

LEMMA PipeEnds ==
    ASSUME PipeInv, EndFrame, ui.pc \in {"idle", "build"}
    PROVE  PipeInv'
<1>0. /\ UNCHANGED <<empty, available, rasterTasks, raster, drawn, retries, waitingFirst>>
      /\ built' = built + 1 /\ built < MaxFrames /\ built \in 0..MaxFrames
  BY DEF EndFrame, rasterVars, PipeInv, PipeType
<1>1. CASE ~continuation
  <2>1. UNCHANGED <<queue, continuation>> /\ ui'.pc = "idle"
    BY <1>1 DEF EndFrame, UiIdle
  <2>2. PipeType' /\ PlacesAccounted'
    BY <1>0, <2>1, PipeFacts DEF PipeInv, PipeType, PlacesAccounted
  <2>3. PopsWhatIsThere'
    BY <1>0, <2>1 DEF PipeInv, PopsWhatIsThere, One
  <2>4. FramesOrdered'
    BY <1>0, <2>1, PipeFacts DEF PipeInv, PipeType, FramesOrdered, HasItem, Frames, RasterPlaces
  <2>. QED
    BY <2>2, <2>3, <2>4 DEF PipeInv
<1>2. CASE continuation
  <2>1. /\ queue' = Append(queue, built + 1) /\ continuation' = FALSE /\ ui'.pc = "signal"
    BY <1>0, <1>2 DEF EndFrame
  <2>2. built + 1 \in Frames /\ built + 1 \in 0..MaxFrames
    BY <1>0, PipeFacts DEF Frames
  <2>3. /\ queue' \in Seq(Frames) /\ Len(queue') = Len(queue) + 1
        /\ \A i \in 1..Len(queue) : queue'[i] = queue[i]
        /\ queue'[Len(queue) + 1] = built + 1
    BY <2>1, <2>2, PipeFacts
  <2>4. PipeType'
    BY <1>0, <2>1, <2>2, <2>3 DEF PipeInv, PipeType
  <2>5. PlacesAccounted'
    <3>1. Reserved = 1 /\ Reserved' = 0 /\ InHand' = InHand /\ empty' = empty
      BY <1>0, <1>2, <2>1 DEF Reserved, InHand, One
    <3>. QED
      BY <2>3, <3>1, PipeFacts, SumsAfter
  <2>6. PopsWhatIsThere'
    <3>1. ToSignal = 0 /\ ToSignal' = 1 /\ ToResignal' = ToResignal /\ Popping' = Popping
      BY <1>0, <2>1 DEF ToSignal, ToResignal, Popping, One
    <3>2. available' = available /\ Len(queue') = Len(queue) + 1
      BY <1>0, <2>3
    <3>3. Len(queue') = available' + ToSignal' + ToResignal' + Popping'
      BY <3>1, <3>2, PopFacts
    <3>. QED
      BY <3>3, PopsAfter
  <2>7. FramesOrdered'
    <3>1. drawn \in Nat /\ built \in Nat /\ drawn <= built
      BY <1>0 DEF PipeInv, PipeType, FramesOrdered
    <3>2. \A i \in 1..Len(queue) : queue[i] \in Nat /\ drawn <= queue[i] /\ queue[i] <= built
      <4>1. \A i \in 1..Len(queue) : queue[i] \in Frames
        BY PipeFacts
      <4>. QED
        BY <4>1, PipeFacts DEF PipeInv, FramesOrdered, Frames
    <3>3. \A i \in 1..Len(queue') : i \in 1..Len(queue) \/ i = Len(queue) + 1
      BY <2>3, PipeFacts
    <3>4. \A i \in 1..Len(queue') : drawn <= queue'[i] /\ queue'[i] <= built + 1
      BY <2>3, <3>1, <3>2, <3>3, PipeFacts
    <3>5. \A i, j \in 1..Len(queue') : i < j => queue'[i] < queue'[j]
      <4>. SUFFICES ASSUME NEW i \in 1..Len(queue'), NEW j \in 1..Len(queue'), i < j
                    PROVE  queue'[i] < queue'[j]
        OBVIOUS
      <4>1. i \in 1..Len(queue)
        BY <2>3, PipeFacts
      <4>2. CASE j \in 1..Len(queue)
        BY <2>3, <4>1, <4>2 DEF PipeInv, FramesOrdered
      <4>3. CASE j = Len(queue) + 1
        BY <2>3, <3>1, <3>2, <4>1, <4>3
      <4>. QED
        BY <3>3, <4>2, <4>3
    <3>6. HasItem => /\ raster.item \in Frames /\ drawn <= raster.item /\ raster.item <= built + 1
                     /\ \A i \in 1..Len(queue') : raster.item < queue'[i]
      <4>. SUFFICES ASSUME HasItem PROVE /\ raster.item \in Frames /\ drawn <= raster.item
                                         /\ raster.item <= built + 1
                                         /\ \A i \in 1..Len(queue') : raster.item < queue'[i]
        OBVIOUS
      <4>1. /\ raster.item \in Frames /\ drawn <= raster.item /\ raster.item <= built
            /\ \A i \in 1..Len(queue) : raster.item < queue[i]
        BY DEF PipeInv, FramesOrdered
      <4>2. raster.item \in Nat
        BY <4>1 DEF Frames
      <4>3. raster.item <= built + 1 /\ raster.item < built + 1
        BY <3>1, <4>1, <4>2
      <4>. QED
        BY <2>3, <3>3, <4>1, <4>2, <4>3
    <3>7. drawn <= built + 1
      BY <3>1
    <3>8. drawn' = drawn /\ built' = built + 1 /\ raster' = raster
      BY <1>0
    <3>9. HasItem' <=> HasItem
      BY <3>8 DEF HasItem
    <3>. QED
      BY <3>4, <3>5, <3>6, <3>7, <3>8, <3>9 DEF FramesOrdered
  <2>. QED
    BY <2>4, <2>5, <2>6, <2>7 DEF PipeInv
<1>. QED
  BY <1>1, <1>2 DEF PipeInv, PipeType

LEMMA PipeSignals ==
    ASSUME PipeInv, SignalAvailable
    PROVE  PipeInv'
<1>1. /\ ui.pc = "signal" /\ ui'.pc = "notify" /\ available' = available + 1
      /\ UNCHANGED <<continuation, empty, queue, rasterTasks, raster, drawn, retries, waitingFirst,
                     built>>
  <2>1. ui.pc = "signal" /\ available' = available + 1
    BY DEF SignalAvailable
  <2>2. ui'.pc \notin {"signal"}
    BY DEF SignalAvailable
  <2>. QED
    BY <2>1, <2>2 DEF SignalAvailable, rasterVars
<1>2. PipeType' /\ PlacesAccounted' /\ FramesOrdered'
  BY <1>1, PipeFacts DEF PipeInv, PipeType, PlacesAccounted, FramesOrdered, HasItem
<1>3. ToSignal = 1 /\ ToSignal' = 0 /\ ToResignal' = ToResignal /\ Popping' = Popping
  BY <1>1 DEF ToSignal, ToResignal, Popping, One
<1>4. PopsWhatIsThere'
  <2>1. available' = available + 1 /\ Len(queue') = Len(queue)
    BY <1>1
  <2>2. Len(queue') = available' + ToSignal' + ToResignal' + Popping'
    BY <1>3, <2>1, PopFacts
  <2>. QED
    BY <2>2, PopsAfter
<1>. QED
  BY <1>2, <1>4 DEF PipeInv

\* The steps of the rasterizer.
LEMMA TasksLeft ==
    ASSUME PipeInv, rasterTasks # <<>>
    PROVE  Tail(rasterTasks) \in Seq(RasterTaskNames)
  BY DEF PipeInv, PipeType

LEMMA PipeDraws ==
    ASSUME PipeInv, NEW t, Draw(t)
    PROVE  PipeInv'
<1>1. /\ raster.pc = "idle" /\ rasterTasks' \in Seq(RasterTaskNames)
      /\ UNCHANGED <<continuation, empty, queue, drawn, retries, built, ui>>
  BY TasksLeft DEF Draw, RasterTask, animatorVars
<1>2. /\ waitingFirst' \in BOOLEAN
      /\ \/ available' = available /\ raster' = RasterIdle
         \/ /\ available > 0 /\ available' = available - 1
            /\ raster' = [RasterIdle EXCEPT !.pc = "pop", !.shell = (t = "draw")]
  <2>1. waitingFirst \in BOOLEAN /\ available \in Nat
    BY DEF PipeInv, PipeType
  <2>2. CASE available = 0
    BY <2>1, <2>2 DEF Draw, DrawReturns
  <2>3. CASE available # 0
    <3>1. available > 0
      BY <2>1, <2>3
    <3>. QED
      BY <2>1, <2>3, <3>1 DEF Draw
  <2>. QED
    BY <2>2, <2>3
<1>3. /\ raster' \in RasterPlaces /\ available' \in Nat
      /\ \/ available' = available /\ raster'.pc = "idle"
         \/ available' = available - 1 /\ raster'.pc = "pop"
  <2>1. CASE available' = available /\ raster' = RasterIdle
    BY <2>1, RasterIdleType, PopFacts
  <2>2. CASE available > 0 /\ available' = available - 1
             /\ raster' = [RasterIdle EXCEPT !.pc = "pop", !.shell = (t = "draw")]
    <3>1. available' \in Nat
      BY <2>2, PopFacts
    <3>2. raster' \in RasterPlaces
      BY <2>2, RasterIdleType DEF RasterPlaces, RasterPc
    <3>3. raster'.pc = "pop"
      BY <2>2, RasterIdleType DEF RasterPlaces
    <3>. QED
      BY <2>2, <3>1, <3>2, <3>3
  <2>. QED
    BY <1>2, <2>1, <2>2
<1>4. PipeType' /\ PlacesAccounted' /\ FramesOrdered'
  BY <1>1, <1>2, <1>3 DEF PipeInv, PipeType, PlacesAccounted, FramesOrdered, HasItem
<1>5. PopsWhatIsThere'
  <2>1. Len(queue') = Len(queue) /\ ToSignal' = ToSignal /\ ToResignal' = 0 /\ ToResignal = 0 /\ Popping = 0
    BY <1>1, <1>3 DEF ToSignal, ToResignal, Popping, One
  <2>2. \/ available' = available /\ Popping' = 0
        \/ available' = available - 1 /\ Popping' = 1
    BY <1>3 DEF Popping, One
  <2>3. Len(queue') = available' + ToSignal' + ToResignal' + Popping'
    BY <2>1, <2>2, PopFacts
  <2>. QED
    BY <2>3, PopsAfter
<1>. QED
  BY <1>4, <1>5 DEF PipeInv

LEMMA PipePops ==
    ASSUME PipeInv, Pop
    PROVE  PipeInv'
<1>1. /\ raster.pc = "pop" /\ queue # <<>> /\ queue' = Tail(queue)
      /\ raster' = [raster EXCEPT !.pc = "draw", !.item = Head(queue), !.more = queue' # <<>>]
      /\ UNCHANGED <<continuation, empty, available, rasterTasks, drawn, retries, waitingFirst, built, ui>>
  BY DEF Pop, animatorVars
<1>2. /\ queue \in Seq(Frames) /\ Len(queue) \in Nat /\ Len(queue) > 0 /\ Head(queue) = queue[1]
      /\ 1 \in 1..Len(queue)
  BY <1>1, PipeFacts
<1>3. /\ queue' \in Seq(Frames) /\ Len(queue') = Len(queue) - 1
      /\ \A i \in 1..Len(queue') : i + 1 \in 1..Len(queue) /\ queue'[i] = queue[i + 1]
  BY <1>1, <1>2
<1>4. queue[1] \in Frames /\ queue[1] \in 0..MaxFrames
  BY <1>2, PipeFacts DEF Frames
<1>5. raster' \in RasterPlaces /\ raster'.pc = "draw" /\ raster'.item = queue[1]
  <2>1. raster \in RasterPlaces /\ (queue' # <<>>) \in BOOLEAN
    BY DEF PipeInv, PipeType
  <2>2. raster' = [raster EXCEPT !.pc = "draw", !.item = queue[1], !.more = queue' # <<>>]
    BY <1>1, <1>2
  <2>3. raster' \in RasterPlaces
    BY <1>4, <2>1, <2>2 DEF RasterPlaces, RasterPc
  <2>4. raster'.pc = "draw" /\ raster'.item = queue[1]
    BY <2>1, <2>2 DEF RasterPlaces
  <2>. QED
    BY <2>3, <2>4
<1>6. PipeType'
  BY <1>1, <1>3, <1>5 DEF PipeInv, PipeType
<1>7. PlacesAccounted'
  <2>1. InHand = 0 /\ InHand' = 1 /\ Reserved' = Reserved /\ empty' = empty
    BY <1>1, <1>5 DEF InHand, Reserved, One
  <2>2. empty' + Len(queue') + Reserved' + InHand' = Depth
    BY <1>2, <1>3, <2>1, PipeFacts
  <2>. QED
    BY <2>2, SumsAfter
<1>8. PopsWhatIsThere'
  <2>1. /\ Popping = 1 /\ Popping' = 0 /\ ToSignal' = ToSignal /\ ToResignal' = 0 /\ ToResignal = 0
        /\ available' = available
    BY <1>1, <1>5 DEF Popping, ToSignal, ToResignal, One
  <2>2. Len(queue') = available' + ToSignal' + ToResignal' + Popping'
    BY <1>2, <1>3, <2>1, PopFacts
  <2>. QED
    BY <2>2, PopsAfter
<1>9. FramesOrdered'
  <2>1. /\ drawn <= built
        /\ \A i \in 1..Len(queue) : drawn <= queue[i] /\ queue[i] <= built
        /\ \A i, j \in 1..Len(queue) : i < j => queue[i] < queue[j]
    BY DEF PipeInv, FramesOrdered
  <2>2. \A i \in 1..Len(queue') : drawn <= queue'[i] /\ queue'[i] <= built
    BY <1>3, <2>1
  <2>3. \A i, j \in 1..Len(queue') : i < j => queue'[i] < queue'[j]
    <3>. SUFFICES ASSUME NEW i \in 1..Len(queue'), NEW j \in 1..Len(queue'), i < j
                  PROVE  queue'[i] < queue'[j]
      OBVIOUS
    <3>1. i + 1 < j + 1
      BY <1>2, <1>3
    <3>. QED
      BY <1>3, <2>1, <3>1
  <2>4. \A i \in 1..Len(queue') : queue[1] < queue'[i]
    <3>. SUFFICES ASSUME NEW i \in 1..Len(queue') PROVE queue[1] < queue'[i]
      OBVIOUS
    <3>1. 1 < i + 1
      BY <1>2, <1>3
    <3>. QED
      BY <1>2, <1>3, <2>1, <3>1
  <2>. QED
    BY <1>1, <1>2, <1>4, <1>5, <2>1, <2>2, <2>3, <2>4 DEF FramesOrdered
<1>. QED
  BY <1>6, <1>7, <1>8, <1>9 DEF PipeInv

LEMMA PipeDrawn ==
    ASSUME PipeInv, DoDraw
    PROVE  PipeInv'
<1>1. /\ raster.pc = "draw" /\ empty' = empty + 1
      /\ UNCHANGED <<continuation, available, queue, rasterTasks, built, ui>>
  BY DEF DoDraw, animatorVars
<1>2. raster.more \in BOOLEAN /\ raster.item \in 0..MaxFrames /\ PipeType
  BY DEF PipeInv, PipeType, RasterPlaces
<1>3. /\ raster' \in RasterPlaces /\ raster'.pc \in {"repost", "idle", "retry"}
      /\ waitingFirst' \in BOOLEAN /\ retries' \in 0..MaxRetries
      /\ \/ drawn' = raster.item /\ raster'.pc # "retry"
         \/ drawn' = drawn /\ raster'.pc # "retry"
         \/ drawn' = drawn /\ raster'.item = raster.item
  <2>1. CASE drawn' = raster.item /\ retries' = retries /\ Ends(raster.more)
    BY <1>2, <2>1, DrawEnds DEF PipeType
  <2>2. CASE UNCHANGED <<drawn, retries>> /\ Ends(raster.more)
    BY <1>2, <2>2, DrawEnds DEF PipeType
  <2>3. CASE /\ retries < MaxRetries /\ retries' = retries + 1
             /\ raster' = [raster EXCEPT !.pc = "retry"] /\ UNCHANGED <<drawn, waitingFirst>>
    <3>1. retries' \in 0..MaxRetries
      <4>1. retries \in 0..MaxRetries /\ MaxRetries \in Nat
        BY <1>2, PipeFacts DEF PipeType
      <4>. QED
        BY <2>3, <4>1
    <3>. QED
      BY <1>2, <2>3, <3>1 DEF PipeType, RasterPlaces, RasterPc
  <2>. QED
    BY <2>1, <2>2, <2>3 DEF DoDraw
<1>4. /\ raster.item \in Frames /\ drawn <= raster.item /\ raster.item <= built
      /\ \A i \in 1..Len(queue) : raster.item < queue[i]
  BY <1>1 DEF PipeInv, FramesOrdered, HasItem
<1>5. PipeType'
  BY <1>1, <1>2, <1>3, PipeFacts DEF PipeType
<1>6. PlacesAccounted'
  <2>1. InHand = 1 /\ InHand' = 0 /\ Reserved' = Reserved /\ Len(queue') = Len(queue)
    BY <1>1, <1>3 DEF InHand, Reserved, One
  <2>2. empty' + Len(queue') + Reserved' + InHand' = Depth
    BY <1>1, <2>1, PlaceFacts
  <2>. QED
    BY <2>2, PlacesAfter
<1>7. PopsWhatIsThere'
  BY <1>1, <1>3 DEF PipeInv, PopsWhatIsThere, One
<1>8. FramesOrdered'
  <2>1. \A i \in 1..Len(queue) : queue[i] \in Nat
    <3>1. \A i \in 1..Len(queue) : queue[i] \in Frames
      BY PipeFacts
    <3>. QED
      BY <3>1, PipeFacts DEF Frames
  <2>2. raster.item \in Nat /\ drawn \in Nat /\ built \in Nat
    BY <1>2, PipeFacts DEF PipeType
  <2>3. drawn' \in {drawn, raster.item} /\ drawn' <= built
    BY <1>3, <1>4, <2>2 DEF PipeInv, FramesOrdered
  <2>4. \A i \in 1..Len(queue) : drawn' <= queue[i]
    BY <1>4, <2>1, <2>2, <2>3 DEF PipeInv, FramesOrdered
  <2>5. HasItem' => drawn' = drawn /\ raster'.item = raster.item
    BY <1>3 DEF HasItem
  <2>. QED
    BY <1>1, <1>4, <2>3, <2>4, <2>5 DEF PipeInv, FramesOrdered
<1>. QED
  BY <1>5, <1>6, <1>7, <1>8 DEF PipeInv

LEMMA PipeRetries ==
    ASSUME PipeInv, ProduceIfEmpty
    PROVE  PipeInv'
<1>1. /\ raster.pc = "retry" /\ UNCHANGED <<continuation, available, queue, rasterTasks, drawn, retries,
                                            built, ui>>
  BY DEF ProduceIfEmpty, animatorVars
<1>2. PipeType /\ raster \in RasterPlaces /\ raster.more \in BOOLEAN /\ empty \in Nat
  BY DEF PipeInv, PipeType, RasterPlaces
<1>3. /\ raster' \in RasterPlaces /\ waitingFirst' \in BOOLEAN /\ empty' \in Nat
      /\ \/ empty' = empty - 1 /\ raster'.pc = "recommit" /\ raster'.item = raster.item
         \/ empty' = empty /\ raster'.pc \in {"repost", "idle"}
  <2>1. CASE empty > 0
    <3>1. empty' = empty - 1 /\ raster' = [raster EXCEPT !.pc = "recommit"] /\ waitingFirst' = waitingFirst
      BY <2>1 DEF ProduceIfEmpty
    <3>2. empty' \in Nat
      BY <1>2, <2>1, <3>1
    <3>. QED
      BY <1>2, <3>1, <3>2 DEF PipeType, RasterPlaces, RasterPc
  <2>2. CASE ~(empty > 0)
    BY <1>2, <2>2, DrawEnds DEF ProduceIfEmpty
  <2>. QED
    BY <2>1, <2>2
<1>4. PipeType'
  BY <1>1, <1>2, <1>3 DEF PipeType
<1>5. PlacesAccounted'
  <2>1. InHand = 0 /\ Reserved' = Reserved /\ Len(queue') = Len(queue)
    BY <1>1 DEF InHand, Reserved, One
  <2>2. \/ empty' = empty - 1 /\ InHand' = 1
        \/ empty' = empty /\ InHand' = 0
    BY <1>3 DEF InHand, One
  <2>3. empty' + Len(queue') + Reserved' + InHand' = Depth
    BY <2>1, <2>2, PlaceFacts
  <2>. QED
    BY <2>3, PlacesAfter
<1>6. PopsWhatIsThere'
  BY <1>1, <1>3 DEF PipeInv, PopsWhatIsThere, One
<1>7. FramesOrdered'
  BY <1>1, <1>3 DEF PipeInv, FramesOrdered, HasItem
<1>. QED
  BY <1>4, <1>5, <1>6, <1>7 DEF PipeInv

LEMMA PipeRecommits ==
    ASSUME PipeInv, ProducerCommitIfEmpty
    PROVE  PipeInv'
<1>1. /\ raster.pc = "recommit"
      /\ UNCHANGED <<continuation, available, rasterTasks, drawn, retries, built, ui>>
  BY DEF ProducerCommitIfEmpty, animatorVars
<1>2. PipeType /\ raster \in RasterPlaces /\ raster.more \in BOOLEAN /\ empty \in Nat
  BY DEF PipeInv, PipeType, RasterPlaces
<1>3. /\ raster.item \in Frames /\ drawn <= raster.item /\ raster.item <= built
  BY <1>1 DEF PipeInv, FramesOrdered, HasItem
<1>4. CASE queue = <<>>
  <2>1. /\ queue' = <<raster.item>> /\ empty' = empty /\ raster' = [raster EXCEPT !.pc = "resignal"]
        /\ waitingFirst' = waitingFirst
    BY <1>4 DEF ProducerCommitIfEmpty
  <2>2. raster' \in RasterPlaces /\ raster'.pc = "resignal"
    BY <1>2, <2>1 DEF RasterPlaces, RasterPc
  <2>3. queue' \in Seq(Frames) /\ Len(queue') = 1 /\ queue'[1] = raster.item
    BY <1>3, <2>1
  <2>4. PipeType'
    BY <1>1, <1>2, <2>1, <2>2, <2>3 DEF PipeType
  <2>5. PlacesAccounted'
    <3>1. InHand = 1 /\ InHand' = 0 /\ Reserved' = Reserved /\ Len(queue) = 0
      BY <1>1, <1>4, <2>2 DEF InHand, Reserved, One
    <3>2. empty' + Len(queue') + Reserved' + InHand' = Depth
      BY <2>1, <2>3, <3>1, PlaceFacts
    <3>. QED
      BY <3>2, PlacesAfter
  <2>6. PopsWhatIsThere'
    <3>1. /\ ToResignal = 0 /\ ToResignal' = 1 /\ ToSignal' = ToSignal /\ Popping' = 0 /\ Popping = 0
          /\ Len(queue) = 0 /\ available' = available
      BY <1>1, <1>4, <2>2 DEF ToSignal, ToResignal, Popping, One
    <3>2. Len(queue') = available' + ToSignal' + ToResignal' + Popping'
      BY <2>3, <3>1, PopFacts
    <3>. QED
      BY <3>2, PopsAfter
  <2>7. FramesOrdered'
    <3>1. \A i \in 1..Len(queue') : i = 1
      BY <2>3
    <3>2. \A i \in 1..Len(queue') : drawn <= queue'[i] /\ queue'[i] <= built
      BY <1>3, <2>3, <3>1
    <3>3. \A i, j \in 1..Len(queue') : ~(i < j)
      BY <3>1
    <3>4. drawn <= built /\ ~HasItem'
      BY <2>2 DEF PipeInv, FramesOrdered, HasItem
    <3>. QED
      BY <1>1, <3>2, <3>3, <3>4 DEF FramesOrdered
  <2>. QED
    BY <2>4, <2>5, <2>6, <2>7 DEF PipeInv
<1>5. CASE queue # <<>>
  <2>1. queue' = queue /\ empty' = empty + 1 /\ Ends(raster.more)
    BY <1>5 DEF ProducerCommitIfEmpty
  <2>2. raster' \in RasterPlaces /\ raster'.pc \in {"repost", "idle"} /\ waitingFirst' \in BOOLEAN
    BY <1>2, <2>1, DrawEnds
  <2>3. PipeType'
    BY <1>1, <1>2, <2>1, <2>2 DEF PipeType
  <2>4. PlacesAccounted'
    <3>1. InHand = 1 /\ InHand' = 0 /\ Reserved' = Reserved /\ Len(queue') = Len(queue)
      BY <1>1, <2>1, <2>2 DEF InHand, Reserved, One
    <3>2. empty' + Len(queue') + Reserved' + InHand' = Depth
      BY <2>1, <3>1, PlaceFacts
    <3>. QED
      BY <3>2, PlacesAfter
  <2>5. PopsWhatIsThere'
    BY <1>1, <2>1, <2>2 DEF PipeInv, PopsWhatIsThere, One
  <2>6. FramesOrdered'
    BY <1>1, <2>1, <2>2 DEF PipeInv, FramesOrdered, HasItem
  <2>. QED
    BY <2>3, <2>4, <2>5, <2>6 DEF PipeInv
<1>. QED
  BY <1>4, <1>5

LEMMA PipeResignals ==
    ASSUME PipeInv, SignalAgain
    PROVE  PipeInv'
<1>1. /\ raster.pc = "resignal" /\ raster' = [raster EXCEPT !.pc = "repost"]
      /\ available' = available + 1
      /\ UNCHANGED <<continuation, empty, queue, rasterTasks, drawn, retries, waitingFirst, built, ui>>
  BY DEF SignalAgain, animatorVars
<1>2. raster' \in RasterPlaces /\ raster'.pc = "repost"
  BY <1>1 DEF PipeInv, PipeType, RasterPlaces, RasterPc
<1>3. available' \in Nat
  BY <1>1, PopFacts
<1>4. PipeType' /\ PlacesAccounted' /\ FramesOrdered'
  BY <1>1, <1>2, <1>3 DEF PipeInv, PipeType, PlacesAccounted, FramesOrdered, HasItem
<1>5. PopsWhatIsThere'
  <2>1. /\ ToResignal = 1 /\ ToResignal' = 0 /\ ToSignal' = ToSignal /\ Popping' = 0 /\ Popping = 0
        /\ Len(queue') = Len(queue)
    BY <1>1, <1>2 DEF ToSignal, ToResignal, Popping, One
  <2>2. Len(queue') = available' + ToSignal' + ToResignal' + Popping'
    BY <1>1, <2>1, PopFacts
  <2>. QED
    BY <2>2, PopsAfter
<1>. QED
  BY <1>4, <1>5 DEF PipeInv

LEMMA PipeReposts ==
    ASSUME PipeInv, PostDraw
    PROVE  PipeInv'
<1>1. /\ raster.pc = "repost" /\ raster' = RasterIdle /\ rasterTasks' = Append(rasterTasks, "again")
      /\ UNCHANGED <<continuation, empty, available, queue, drawn, retries, built, ui>>
  BY DEF PostDraw, DrawReturns, animatorVars, pipelineVars
<1>2. raster' \in RasterPlaces /\ raster'.pc = "idle"
  BY <1>1, RasterIdleType
<1>3. rasterTasks' \in Seq(RasterTaskNames) /\ waitingFirst' \in BOOLEAN
  BY <1>1 DEF PipeInv, PipeType, RasterTaskNames, PostDraw, DrawReturns
<1>4. PipeType' /\ PlacesAccounted' /\ FramesOrdered'
  BY <1>1, <1>2, <1>3 DEF PipeInv, PipeType, PlacesAccounted, FramesOrdered, HasItem
<1>5. PopsWhatIsThere'
  BY <1>1, <1>2 DEF PipeInv, PopsWhatIsThere, One
<1>. QED
  BY <1>4, <1>5 DEF PipeInv

\* The steps that leave the queue, its semaphores and the item in hand alone.
LEMMA PipeOthers ==
    ASSUME PipeInv,
           \/ \E regen \in BOOLEAN : RequestFrame(regen)
           \/ \E id \in Secondary : ScheduleSecondaryCallback(id)
           \/ AsyncWaitForVsync \/ RunSecondaryCallback \/ VsyncStep
           \/ DrawLastLayerTrees \/ PipelineFull \/ EndFrameWithoutTrees \/ OnAnimatorDraw
           \/ RunDrawLast
    PROVE  PipeInv'
<1>1. UNCHANGED <<pipelineVars, raster, drawn, retries, waitingFirst, built>>
  BY DEF RequestFrame, ScheduleSecondaryCallback, AsyncWaitForVsync, RunSecondaryCallback,
     VsyncStep, TakeCallbacks, PostFrameTask, PostSecondary, DrawLastLayerTrees, PipelineFull,
     EndFrameWithoutTrees, OnAnimatorDraw, RunDrawLast, rasterVars, pipelineVars
<1>2. rasterTasks' \in Seq(RasterTaskNames)
  <2>1. rasterTasks \in Seq(RasterTaskNames)
    BY DEF PipeInv, PipeType
  <2>2. CASE DrawLastLayerTrees
    BY <2>1, <2>2 DEF DrawLastLayerTrees, RasterTaskNames
  <2>3. CASE OnAnimatorDraw
    BY <2>1, <2>3 DEF OnAnimatorDraw, RasterTaskNames
  <2>4. CASE RunDrawLast
    BY <2>4, TasksLeft DEF RunDrawLast, RasterTask
  <2>5. CASE UNCHANGED rasterTasks
    BY <2>1, <2>5
  <2>. QED
    BY <2>2, <2>3, <2>4, <2>5 DEF RequestFrame, ScheduleSecondaryCallback, AsyncWaitForVsync,
       RunSecondaryCallback, VsyncStep, TakeCallbacks, PostFrameTask, PostSecondary,
       PipelineFull, EndFrameWithoutTrees, rasterVars
<1>3. ui'.pc = "signal" <=> ui.pc = "signal"
  <2>1. CASE EndFrameWithoutTrees \/ OnAnimatorDraw
    <3>1. ui.pc \in {"build", "notify"} /\ ui' = UiIdle
      BY <2>1 DEF EndFrameWithoutTrees, OnAnimatorDraw
    <3>2. UiIdle.pc = "idle"
      BY DEF UiIdle
    <3>. QED
      BY <3>1, <3>2
  <2>2. CASE UNCHANGED ui
    BY <2>2
  <2>. QED
    BY <2>1, <2>2 DEF RequestFrame, ScheduleSecondaryCallback, AsyncWaitForVsync,
       RunSecondaryCallback, VsyncStep, TakeCallbacks, PostFrameTask, PostSecondary,
       DrawLastLayerTrees, PipelineFull, RunDrawLast, animatorVars
<1>. QED
  BY <1>1, <1>2, <1>3, PipeUntouched

LEMMA PipeInductive == PipeInv /\ [Next]_vars => PipeInv'
<1>. SUFFICES ASSUME PipeInv, [Next]_vars PROVE PipeInv'
  OBVIOUS
<1>1. CASE UNCHANGED vars
  <2>1. UNCHANGED <<pipelineVars, rasterTasks, raster, drawn, retries, waitingFirst, built, ui>>
    BY <1>1 DEF vars, rasterVars, animatorVars
  <2>2. rasterTasks' \in Seq(RasterTaskNames)
    BY <2>1 DEF PipeInv, PipeType
  <2>. QED
    <3>1. UNCHANGED <<pipelineVars, raster, drawn, retries, waitingFirst, built>>
          /\ (ui'.pc = "signal" <=> ui.pc = "signal")
      BY <2>1
    <3>. QED
      BY <2>2, <3>1, PipeUntouched
<1>2. CASE Application
  BY <1>2, PipeOthers, PipeEnds DEF Application
<1>3. CASE UiStep
  BY <1>3, PipeOthers, PipeEnds, PipeBegins, PipeSignals DEF UiStep
<1>4. CASE VsyncStep
  BY <1>4, PipeOthers
<1>5. CASE RasterStep
  BY <1>5, PipeOthers, PipeDraws, PipePops, PipeDrawn, PipeRetries, PipeRecommits, PipeResignals,
     PipeReposts DEF RasterStep
<1>. QED
  BY <1>1, <1>2, <1>3, <1>4, <1>5 DEF Next

\* Requests, vsyncs, wishes and pauses stay in step, whatever the application
\* asks for while the vsync thread fires (animator.cc:239, vsync_waiter.cc:87).
THEOREM FlowInvariant == Spec => []FlowInv
BY InitFlow, FlowInductive, PTL DEF Spec

\* The semaphores and the queue stay in step with two producers and a consumer
\* that hold no lock between their steps (pipeline.h:183, 224, 237).
THEOREM PipeInvariant == Spec => []PipeInv
BY InitPipe, PipeInductive, PTL DEF Spec

-----------------------------------------------------------------------------
(* The theorems *)

\* Every variable keeps its type; neither semaphore is taken below zero.
THEOREM PipelineTypeCorrect == Spec => []TypeOK
<1>1. FlowInv /\ PipeInv => TypeOK
  BY DEF FlowInv, PipeInv, TypeOK
<1>. QED
  BY <1>1, FlowInvariant, PipeInvariant, PTL

\* However often a frame is requested, there is one request to the vsync
\* waiter (animator.cc:251), and none is lost.
THEOREM RequestsAreOne == Spec => []OneRequestInFlight
<1>1. FlowInv => OneRequestInFlight
  BY DEF FlowInv
<1>. QED
  BY <1>1, FlowInvariant, PTL

\* The platform is asked for a vsync exactly while somebody waits for one
\* (vsync_waiter.cc:40, 71).
THEOREM VsyncsAreOwed == Spec => []OneVsyncOwed
<1>1. FlowInv => OneVsyncOwed
  BY DEF FlowInv
<1>. QED
  BY <1>1, FlowInvariant, PTL

\* A wish to build a frame is never left without a request (animator.cc:240).
THEOREM WishesAreAsked == Spec => []WantedIsAsked
<1>1. FlowInv => WantedIsAsked
  BY DEF FlowInv
<1>. QED
  BY <1>1, FlowInvariant, PTL

\* Dart tasks are paused for as many frames as are on their way and no longer
\* (vsync_waiter.cc:121, 154).
THEOREM PausesBelongToFrames == Spec => []PausedByFrame
<1>1. FlowInv => PausedByFrame
  BY DEF FlowInv
<1>. QED
  BY <1>1, FlowInvariant, PTL

\* No place of the pipeline is lost or made, with two producers (pipeline.h:46).
THEOREM NoPlaceIsLost == Spec => []PlacesAccounted
<1>1. PipeInv => PlacesAccounted
  BY DEF PipeInv
<1>. QED
  BY <1>1, PipeInvariant, PTL

\* What available_ promises is in the queue (pipeline.h:184, 198).
THEOREM PopsAreBacked == Spec => []PopsWhatIsThere
<1>1. PipeInv => PopsWhatIsThere
  BY DEF PipeInv
<1>. QED
  BY <1>1, PipeInvariant, PTL

\* A resubmitted frame is never drawn after a newer one (pipeline.h:160, 237).
THEOREM FramesAreDrawnInOrder == Spec => DrawnInOrder
<1>1. PipeInv /\ [Next]_vars => [drawn' >= drawn]_drawn
  <2>. SUFFICES ASSUME PipeInv, [Next]_vars, drawn' # drawn PROVE drawn' >= drawn
    OBVIOUS
  <2>1. DoDraw /\ drawn' = raster.item
    BY DEF Next, Application, UiStep, VsyncStep, RasterStep, RequestFrame, ScheduleSecondaryCallback,
       AsyncWaitForVsync, RunSecondaryCallback, TakeCallbacks, PostFrameTask, PostSecondary,
       DrawLastLayerTrees, BeginFrame, PipelineFull, EndFrameWithoutTrees, EndFrame, SignalAvailable,
       OnAnimatorDraw, RunDrawLast, Draw, Pop, DoDraw, ProduceIfEmpty, ProducerCommitIfEmpty,
       SignalAgain, PostDraw, vars, rasterVars
  <2>2. HasItem
    BY <2>1 DEF DoDraw, HasItem
  <2>3. drawn <= raster.item
    BY <2>2 DEF PipeInv, FramesOrdered
  <2>4. raster.item \in Nat /\ drawn \in Nat
    BY PipelineAssumption DEF PipelineAssumption, PipeInv, PipeType, RasterPlaces
  <2>. QED
    BY <2>1, <2>3, <2>4
<1>. QED
  BY <1>1, PipeInvariant, PTL DEF Spec, DrawnInOrder

-----------------------------------------------------------------------------
(* The pipeline implements the bounded queue *)

Held == Depth - empty - Len(queue)

LEMMA HoldStep ==
    ASSUME PipeInv, empty > 0, empty' = empty - 1, queue' = queue
    PROVE  Abstract!Hold
<1>1. Len(queue') = Len(queue)
  OBVIOUS
<1>2. Depth - empty' - Len(queue') = (Depth - empty - Len(queue)) + 1
  BY <1>1, PlaceFacts
<1>3. Len(queue) + (Depth - empty - Len(queue)) < Depth
  BY PlaceFacts
<1>. QED
  BY <1>2, <1>3 DEF Abstract!Hold

LEMMA FreeStep ==
    ASSUME PipeInv, InHand = 1, empty' = empty + 1, queue' = queue
    PROVE  Abstract!Free
<1>1. Len(queue') = Len(queue)
  OBVIOUS
<1>2. Depth - empty' - Len(queue') = (Depth - empty - Len(queue)) - 1
  BY <1>1, PlaceFacts
<1>3. Depth - empty - Len(queue) > 0
  BY PlaceFacts
<1>. QED
  BY <1>2, <1>3 DEF Abstract!Free

LEMMA PutStep ==
    ASSUME PipeInv, Reserved = 1 \/ InHand = 1, empty' = empty, NEW x \in Frames,
           queue' = Append(queue, x)
    PROVE  Abstract!Put(x)
<1>1. Len(queue') = Len(queue) + 1
  BY PipeFacts
<1>2. Depth - empty' - Len(queue') = (Depth - empty - Len(queue)) - 1
  BY <1>1, PlaceFacts
<1>3. Depth - empty - Len(queue) > 0
  <2>1. CASE Reserved = 1
    BY <2>1, PlaceFacts
  <2>2. CASE InHand = 1
    BY <2>2, PlaceFacts
  <2>. QED
    BY <2>1, <2>2
<1>. QED
  BY <1>2, <1>3 DEF Abstract!Put

LEMMA TakeStep ==
    ASSUME PipeInv, queue # <<>>, empty' = empty, queue' = Tail(queue)
    PROVE  Abstract!Take
<1>1. Len(queue') = Len(queue) - 1
  BY PipeFacts
<1>2. Depth - empty' - Len(queue') = (Depth - empty - Len(queue)) + 1
  BY <1>1, PlaceFacts
<1>. QED
  BY <1>2 DEF Abstract!Take

LEMMA StepImplements ==
    ASSUME PipeInv, [Next]_vars
    PROVE  Abstract!Next \/ UNCHANGED <<queue, Held>>
<1>1. CASE UNCHANGED <<empty, queue>>
  BY <1>1 DEF Held
<1>2. CASE BeginFrame /\ ~continuation
  BY <1>2, HoldStep DEF BeginFrame, Abstract!Next
<1>3. CASE EndFrame /\ continuation
  <2>1. Reserved = 1 /\ empty' = empty /\ queue' = Append(queue, built + 1)
    BY <1>3 DEF EndFrame, Reserved, One
  <2>2. built + 1 \in Frames
    BY <1>3, PipeFacts DEF EndFrame, PipeInv, PipeType, Frames
  <2>. QED
    BY <2>1, <2>2, PutStep DEF Abstract!Next
<1>4. CASE Pop
  BY <1>4, TakeStep DEF Pop, Abstract!Next
<1>5. CASE DoDraw
  BY <1>5, FreeStep DEF DoDraw, InHand, One, Abstract!Next
<1>6. CASE ProduceIfEmpty /\ empty > 0
  BY <1>6, HoldStep DEF ProduceIfEmpty, Abstract!Next
<1>7. CASE ProducerCommitIfEmpty
  <2>1. InHand = 1 /\ raster.item \in Frames
    BY <1>7 DEF ProducerCommitIfEmpty, InHand, One, PipeInv, FramesOrdered, HasItem
  <2>2. CASE queue = <<>>
    <3>1. empty' = empty /\ queue' = Append(queue, raster.item)
      BY <1>7, <2>2 DEF ProducerCommitIfEmpty
    <3>. QED
      BY <2>1, <3>1, PutStep DEF Abstract!Next
  <2>3. CASE queue # <<>>
    BY <1>7, <2>1, <2>3, FreeStep DEF ProducerCommitIfEmpty, Abstract!Next
  <2>. QED
    BY <2>2, <2>3
<1>8. CASE Application
  BY <1>1, <1>3, <1>8 DEF Application, RequestFrame, ScheduleSecondaryCallback, EndFrame, pipelineVars
<1>9. CASE UiStep
  BY <1>1, <1>2, <1>3, <1>9 DEF UiStep, AsyncWaitForVsync, RunSecondaryCallback, DrawLastLayerTrees,
     BeginFrame, PipelineFull, EndFrameWithoutTrees, EndFrame, SignalAvailable, OnAnimatorDraw,
     pipelineVars
<1>10. CASE VsyncStep
  BY <1>1, <1>10 DEF VsyncStep, TakeCallbacks, PostFrameTask, PostSecondary, pipelineVars
<1>11. CASE RasterStep
  BY <1>1, <1>4, <1>5, <1>6, <1>7, <1>11 DEF RasterStep, RunDrawLast, Draw, ProduceIfEmpty,
     SignalAgain, PostDraw, pipelineVars
<1>12. CASE UNCHANGED vars
  BY <1>1, <1>12 DEF vars, pipelineVars
<1>. QED
  BY <1>8, <1>9, <1>10, <1>11, <1>12 DEF Next

\* Whatever the two threads do, what is committed and taken is what a bounded
\* queue of that depth allows (pipeline.h:32).
THEOREM PipelineIsBoundedQueue == Spec => ImplementsQueue
<1>1. Init => Abstract!Init
  <2>. SUFFICES ASSUME Init PROVE Abstract!Init
    OBVIOUS
  <2>1. empty = Depth /\ queue = <<>> /\ Depth \in Nat
    BY PipelineAssumption DEF PipelineAssumption, Init
  <2>2. Len(queue) = 0 /\ Depth - Depth - 0 = 0
    BY <2>1
  <2>3. Depth - empty - Len(queue) = 0
    BY <2>1, <2>2
  <2>. QED
    BY <2>1, <2>3 DEF Abstract!Init
<1>2. PipeInv /\ [Next]_vars => [Abstract!Next]_<<queue, Held>>
  BY StepImplements
<1>3. [Abstract!Next]_<<queue, Held>> => [Abstract!Next]_<<queue, Depth - empty - Len(queue)>>
  BY DEF Held
<1>. QED
  BY <1>1, <1>2, <1>3, PipeInvariant, PTL DEF Spec, ImplementsQueue, Abstract!Spec

-----------------------------------------------------------------------------

-----------------------------------------------------------------------------
(* The raster threads: the parts of the invariant *)

\* The shape of the state; a Draw begins with nothing changed under it.
JobPCs  == {"idle", "draw", "setup", "teardown", "unmerge", "apart"} \cup Painting \cup Leaving
JobRec  == [pc : JobPCs, shell : Shells \cup {NoShell}, layers : BOOLEAN, more : BOOLEAN,
            retry : BOOLEAN, config : {"same", "own", "other"}]
TaskRec == [kind : {"draw", "setup", "teardown"}, shell : Shells]
CallRec == [stage : {"created", "setup", "post", "destroyed", "wait", "torn"}, shell : Shells,
            late : BOOLEAN, shifted : BOOLEAN]

JobShape(j) ==
    IF j.pc = "idle" THEN j = Idle ELSE j.shell \in Shells /\ (j.pc = "draw" => j.config = "same")

LeaseShape ==
    /\ DOMAIN lease \subseteq Shells /\ \A s \in DOMAIN lease : lease[s] \in 0..MaxLease
FlagShape ==
    /\ enabled \in BOOLEAN /\ merged \in BOOLEAN /\ strayed \in BOOLEAN /\ aborted \in BOOLEAN
    /\ surface \in [Shells -> BOOLEAN]
JobsShape   == job \in [Threads -> JobRec] /\ \A t \in Threads : JobShape(job[t])
CallShape   == call = NoCall \/ call \in CallRec
TasksShape  == tasks \in Seq(TaskRec)
FramesShape == frames \in [Shells -> Seq(BOOLEAN)] /\ missed \in [Shells -> BOOLEAN]
CommitShape == commit = NoPush \/ commit \in [shell : Shells, first : BOOLEAN]
RasterShape ==
    /\ LeaseShape /\ FlagShape /\ JobsShape /\ CallShape
    /\ TasksShape /\ FramesShape /\ CommitShape

\* A frame that waits or is drawn has its place.
PlacesKept == \A s \in Shells : Places(s) >= 0

\* A teardown belongs to the one call that waits for it: it is posted or run once,
\* and the platform thread does nothing else meanwhile.
Tearing(t) == job[t].pc \in {"teardown", "unmerge", "apart"}
Waiting(s) == call.stage = "wait" /\ call.shell = s
TearingAlone ==
    \A t \in Threads : Tearing(t) =>
        /\ Waiting(job[t].shell)
        /\ \A u \in Threads \ {t} : ~Tearing(u)
        /\ \A i \in DOMAIN tasks : tasks[i].kind # "teardown"
TeardownPosted ==
    \A i \in DOMAIN tasks : tasks[i].kind = "teardown" =>
        /\ Waiting(tasks[i].shell)
        /\ \A j \in DOMAIN tasks : tasks[j].kind = "teardown" => i = j
CallHoldsPlatform ==
    call # NoCall => \/ job["platform"] = Idle /\ call.stage # "setup"
                     \/ call.stage = "setup" /\ job["platform"].pc = "setup"
                     \/ call.stage = "wait" /\ Tearing("platform")
TornDown == TearingAlone /\ TeardownPosted /\ CallHoldsPlatform

\* The shared mutex excludes.  Between the merge of the queues and the record of the
\* lease, and between the end of the last lease and the parting, no lease is left;
\* else leases and queues agree, and never again once a lease was extended by a Draw
\* under which the queues were parted: the next parting fails its check.
OneHolds == \A t, u \in Threads : job[t].pc \in SharedHeld /\ job[u].pc \in SharedHeld => t = u
Agreement ==
    ~aborted =>
        /\ \A t \in Threads : job[t].pc \in SharedHeld => ~IsMerged
        /\ \A t \in Threads : job[t].pc = "record" => merged /\ ~strayed
        /\ strayed => ~merged /\ (SharedFree => IsMerged)
        /\ ~strayed /\ SharedFree => merged = IsMerged
MergeInv == OneHolds /\ Agreement

\* A Draw under which nothing changed is on the thread the leases say; one that has
\* changed something itself is past its painting; and overlays are submitted while
\* the threads are merged, unless they were parted under the Draw.
DrawsWhereItMay(t) ==
    /\ Draws(t) /\ job[t].config = "same" => (t = "platform") = IsMerged
    /\ Draws(t) /\ job[t].config = "own" => job[t].pc \in Leaving
    /\ job[t].pc \in {"record", "part"} => job[t].config # "same"
    /\ job[t].pc = "extend" \/ (job[t].pc = "submit" /\ job[t].layers)
          => IsMerged \/ job[t].config = "other"
DrawInv == \A t \in Threads : DrawsWhereItMay(t)

\* A teardown that the platform thread runs itself finds the queues merged and no
\* Draw on the raster thread under which nothing changed; after a teardown there is
\* no surface, and what still draws on one has seen the threads change.
Apart(s) == UsesSurface("raster", s) => job["raster"].config # "same"
TornNow  == call.stage = "torn" \/ \E t \in Threads : job[t].pc \in {"unmerge", "apart"}
RunsItself ==
    job["platform"].pc = "teardown" /\ ~call.shifted => merged /\ Apart(call.shell)
LeftAlone ==
    TornNow /\ ~call.late =>
        /\ ~surface[call.shell] /\ ~SetupPending(call.shell)
        /\ ~call.shifted => Apart(call.shell)
SuspendInv == RunsItself /\ LeftAlone

\* The set of threads is counted thread by thread.
LEMMA ThreadsCounted ==
    ASSUME NEW S, S \subseteq Threads
    PROVE  Cardinality(S) = One("raster" \in S) + One("platform" \in S)
<1>. DEFINE A == IF "raster" \in S THEN {"raster"} ELSE {}
            B == IF "platform" \in S THEN {"platform"} ELSE {}
<1>1. S = A \cup B /\ A \cap B = {}
  BY DEF Threads
<1>2. /\ IsFiniteSet(A) /\ Cardinality(A) = One("raster" \in S)
      /\ IsFiniteSet(B) /\ Cardinality(B) = One("platform" \in S)
  BY FS_EmptySet, FS_Singleton DEF One
<1>3. A \cap B = {} /\ IsFiniteSet({}) /\ Cardinality({}) = 0
  BY <1>1, FS_EmptySet
<1>. HIDE DEF A, B
<1>4. One("raster" \in S) \in Int /\ One("platform" \in S) \in Int
  BY DEF One
<1>5. Cardinality(A \cup B) = Cardinality(A) + Cardinality(B) - Cardinality(A \cap B)
  BY <1>2, FS_Union
<1>6. Cardinality(A \cap B) = 0
  BY <1>3
<1>. QED
  BY <1>1, <1>2, <1>4, <1>5, <1>6

\* The frames of a shell being drawn are those of the two threads.
Holds(t, s) == job[t].shell = s /\ Draws(t) /\ job[t].pc \notin {"finish", "signal"}
LEMMA DrawingIsSum ==
    ASSUME NEW s
    PROVE  /\ Drawing(s) = One(Holds("raster", s)) + One(Holds("platform", s))
           /\ Drawing(s)' = One(Holds("raster", s)') + One(Holds("platform", s)')
<1>. DEFINE S == {t \in Threads : Holds(t, s)}
            T == {t \in Threads : Holds(t, s)'}
<1>1. Drawing(s) = Cardinality(S) /\ Drawing(s)' = Cardinality(T)
  BY DEF Drawing, Holds, Threads
<1>2. /\ Holds("raster", s) <=> "raster" \in S
      /\ Holds("platform", s) <=> "platform" \in S
  BY DEF Threads
<1>3. /\ Holds("raster", s)' <=> "raster" \in T
      /\ Holds("platform", s)' <=> "platform" \in T
  BY DEF Threads
<1>4. S \subseteq Threads /\ T \subseteq Threads
  OBVIOUS
<1>. HIDE DEF S, T
<1>5. /\ Cardinality(S) = One("raster" \in S) + One("platform" \in S)
      /\ Cardinality(T) = One("raster" \in T) + One("platform" \in T)
  BY <1>4, ThreadsCounted
<1>6. /\ One(Holds("raster", s)) = One("raster" \in S)
      /\ One(Holds("platform", s)) = One("platform" \in S)
  BY <1>2 DEF One
<1>7. /\ One(Holds("raster", s)') = One("raster" \in T)
      /\ One(Holds("platform", s)') = One("platform" \in T)
  BY <1>3 DEF One
<1>. QED
  BY <1>1, <1>5, <1>6, <1>7

\* So are the frames pushed that are not signalled yet; a frame that may be taken is
\* there (Pipeline::Consume).
LEMMA FrameWaits ==
    ASSUME FramesShape, NEW s \in Shells, Available(s) > 0
    PROVE  frames[s] \in Seq(BOOLEAN) /\ Len(frames[s]) \in Nat /\ frames[s] # <<>>
<1>. DEFINE S == {t \in Threads : job[t].shell = s /\ job[t].pc = "signal"}
            c == IF commit.shell = s THEN 1 ELSE 0
<1>1. S \subseteq Threads
  OBVIOUS
<1>2. Available(s) = Len(frames[s]) - (c + Cardinality(S))
  BY DEF Available, Unsignalled
<1>. HIDE DEF S
<1>3. Cardinality(S) = One("raster" \in S) + One("platform" \in S)
  BY <1>1, ThreadsCounted
<1>4. Cardinality(S) \in Nat
  BY <1>3 DEF One
<1>5. frames[s] \in Seq(BOOLEAN) /\ Len(frames[s]) \in Nat
  BY DEF FramesShape
<1>6. c \in Nat
  OBVIOUS
<1>. HIDE DEF c
<1>7. Len(frames[s]) > 0
  BY <1>2, <1>4, <1>5, <1>6
<1>. QED
  BY <1>5, <1>7

\* A thread that goes on keeps the shape of what the threads do.
LEMMA JobPut ==
    ASSUME JobsShape, NEW t \in Threads, NEW j \in JobRec, JobShape(j),
           job' = [job EXCEPT ![t] = j]
    PROVE  JobsShape'
  BY DEF JobsShape

\* A thread has nothing to do (Rasterizer::Draw has returned).
LEMMA JobDone ==
    ASSUME JobsShape, NEW t \in Threads, job' = [job EXCEPT ![t] = Idle] PROVE JobsShape'
<1>1. Idle \in JobRec /\ JobShape(Idle)
  BY DEF Idle, JobRec, JobPCs, JobShape
<1>. QED
  BY <1>1, JobPut

\* So it does where the step changes what the leases say.
LEMMA ShiftPut ==
    ASSUME JobsShape, NEW t \in Threads, NEW r \in JobRec, r.shell \in Shells,
           r.pc \notin {"idle", "draw"}, Shift(t, r)
    PROVE  JobsShape'
<1>. DEFINE mine == IF r.config = "other" THEN r ELSE [r EXCEPT !.config = "own"]
            others(u) == IF Draws(u) THEN [job[u] EXCEPT !.config = "other"] ELSE job[u]
<1>1. job' = [u \in Threads |-> IF u = t THEN mine ELSE others(u)]
  BY DEF Shift
<1>2. mine \in JobRec /\ JobShape(mine)
  BY DEF JobRec, JobShape
<1>3. ASSUME NEW u \in Threads PROVE others(u) \in JobRec /\ JobShape(others(u))
  BY DEF JobsShape, JobRec, JobShape, Draws, Painting, Leaving
<1>. HIDE DEF mine, others
<1>. QED
  BY <1>1, <1>2, <1>3 DEF JobsShape

\* The history of a call is its own; a call that has been waited for is torn down.
LEMMA CallMarked ==
    ASSUME CallShape, NEW t, call' = Shifted(t) PROVE CallShape'
  BY DEF CallShape, CallRec, Shifted, NoCall
LEMMA CallSignalled ==
    ASSUME CallShape, call # NoCall, NEW b \in BOOLEAN,
           \/ call' = [call EXCEPT !.stage = "torn"]
           \/ call' = [call EXCEPT !.stage = "torn", !.late = b]
           \/ call' = [call EXCEPT !.late = b]
    PROVE  CallShape' /\ call' # NoCall /\ call'.shell = call.shell
<1>1. call \in CallRec
  BY DEF CallShape
<1>2. call' \in CallRec /\ call'.shell = call.shell
  BY <1>1 DEF CallRec
<1>. QED
  BY <1>2 DEF CallShape, CallRec, NoCall
LEMMA TearingCalled ==
    ASSUME TearingAlone, NEW t \in Threads, Tearing(t)
    PROVE  call # NoCall /\ call.stage = "wait" /\ call.shell = job[t].shell
  BY DEF TearingAlone, Waiting, NoCall

\* Every step keeps the shape of the state.
LEMMA ShapeKeeps ==
    ASSUME RasterShape, TearingAlone, RasterNext PROVE RasterShape'
<1>. USE DEF RasterShape
<1>1. ASSUME NEW s \in Shells, NEW layers \in BOOLEAN, ProduceFrame(s, layers)
      PROVE  RasterShape'
  <2>1. LeaseShape' /\ FlagShape' /\ JobsShape' /\ CallShape' /\ TasksShape'
    BY <1>1
       DEF ProduceFrame, mergerVars, engineVars, platformVars, LeaseShape, FlagShape, JobsShape,
           CallShape, TasksShape
  <2>2. FramesShape'
    BY <1>1 DEF ProduceFrame, mergerVars, engineVars, platformVars, FramesShape
  <2>3. CommitShape'
    BY <1>1 DEF ProduceFrame, mergerVars, engineVars, platformVars, CommitShape, NoPush
  <2>. QED
    BY <2>1, <2>2, <2>3
<1>2. ASSUME NEW s \in Shells, OnPlatformViewCreated(s) PROVE RasterShape'
  <2>1. LeaseShape' /\ JobsShape' /\ TasksShape' /\ FramesShape' /\ CommitShape'
    BY <1>2
       DEF OnPlatformViewCreated, Begin, PlatformFree, frameVars, engineVars, LeaseShape,
           JobsShape, TasksShape, FramesShape, CommitShape
  <2>2. FlagShape'
    BY <1>2 DEF OnPlatformViewCreated, Begin, PlatformFree, frameVars, engineVars, FlagShape
  <2>3. CallShape'
    BY <1>2
       DEF OnPlatformViewCreated, Begin, PlatformFree, frameVars, engineVars, CallShape,
           CallRec, NoCall
  <2>. QED
    BY <2>1, <2>2, <2>3
<1>3. ASSUME NEW s \in Shells, OnPlatformViewDestroyed(s) PROVE RasterShape'
  <2>1. LeaseShape' /\ JobsShape' /\ TasksShape' /\ FramesShape' /\ CommitShape'
    BY <1>3
       DEF OnPlatformViewDestroyed, Begin, PlatformFree, frameVars, engineVars, LeaseShape,
           JobsShape, TasksShape, FramesShape, CommitShape
  <2>2. FlagShape'
    BY <1>3 DEF OnPlatformViewDestroyed, Begin, PlatformFree, frameVars, engineVars, FlagShape
  <2>3. CallShape'
    BY <1>3
       DEF OnPlatformViewDestroyed, Begin, PlatformFree, frameVars, engineVars, CallShape,
           CallRec, NoCall
  <2>. QED
    BY <2>1, <2>2, <2>3
<1>4. ASSUME NEW s \in Shells, DestroyLayers(s) PROVE RasterShape'
  <2>1. LeaseShape' /\ FlagShape' /\ CallShape' /\ TasksShape' /\ FramesShape' /\ CommitShape'
    BY <1>4
       DEF DestroyLayers, At, Goes, mergerVars, frameVars, platformVars, LeaseShape, FlagShape,
           CallShape, TasksShape, FramesShape, CommitShape
  <2>2. JobsShape'
    BY <1>4
       DEF DestroyLayers, At, Goes, mergerVars, frameVars, platformVars, JobsShape, JobShape,
           JobRec, JobPCs, Idle, Threads, Painting, Leaving
  <2>. QED
    BY <2>1, <2>2
<1>5. ASSUME NEW t \in Threads, TakeTask(t) PROVE RasterShape'
  <2>1. LeaseShape' /\ FlagShape' /\ CallShape' /\ FramesShape' /\ CommitShape'
    BY <1>5
       DEF TakeTask, mergerVars, frameVars, engineVars, platformVars, LeaseShape, FlagShape,
           CallShape, FramesShape, CommitShape
  <2>2. JobsShape'
    <3>1. Head(tasks) \in TaskRec
      BY <1>5 DEF TakeTask, TasksShape
    <3>2. Start(Head(tasks)) \in JobRec /\ JobShape(Start(Head(tasks)))
      BY <3>1 DEF TaskRec, Start, Idle, JobRec, JobPCs, JobShape
    <3>. QED
      BY <1>5, <3>2, JobPut DEF TakeTask
  <2>3. TasksShape'
    BY <1>5
       DEF TakeTask, mergerVars, frameVars, engineVars, platformVars, TasksShape, TaskRec, Task
  <2>. QED
    BY <2>1, <2>2, <2>3
<1>6. ASSUME NEW t \in Threads, NEW s \in Shells, LeaveFrame(t, s) PROVE RasterShape'
  <2>1. LeaseShape' /\ FlagShape' /\ CallShape' /\ TasksShape' /\ CommitShape'
    BY <1>6
       DEF LeaveFrame, At, mergerVars, engineVars, platformVars, LeaseShape, FlagShape,
           CallShape, TasksShape, CommitShape
  <2>2. JobsShape'
    BY <1>6
       DEF LeaveFrame, At, mergerVars, engineVars, platformVars, JobsShape, JobShape, JobRec,
           JobPCs, Idle, Threads, Painting, Leaving
  <2>3. FramesShape'
    BY <1>6 DEF LeaveFrame, At, mergerVars, engineVars, platformVars, FramesShape
  <2>. QED
    BY <2>1, <2>2, <2>3
<1>7. ASSUME NEW t \in Threads, NEW s \in Shells, NEW resized \in BOOLEAN, Consume(t, s, resized)
      PROVE  RasterShape'
  <2>1. LeaseShape' /\ FlagShape' /\ CallShape' /\ TasksShape' /\ CommitShape'
    BY <1>7
       DEF Consume, At, mergerVars, platformVars, LeaseShape, FlagShape, CallShape, TasksShape,
           CommitShape
  <2>2. JobsShape'
    <3>. DEFINE b == resized /\ embedder[s].pool
                pc == CASE ~surface[s] -> "finish"
                        [] surface[s] /\ b /\ t = "raster" -> "layers"
                        [] OTHER -> "preroll"
                j == [job[t] EXCEPT !.layers = Head(frames[s]), !.more = Len(frames[s]) > 1,
                                    !.pc = pc]
    <3>1. job[t] \in JobRec /\ job[t].shell \in Shells
      BY <1>7 DEF Consume, At, JobsShape, JobShape
    <3>2. Head(frames[s]) \in BOOLEAN
      BY <1>7, FrameWaits DEF Consume, FramesShape
    <3>3. pc \in {"finish", "layers", "preroll"}
      OBVIOUS
    <3>4. job' = [job EXCEPT ![t] = j]
      BY <1>7 DEF Consume
    <3>. HIDE DEF pc
    <3>5. pc \in JobPCs /\ (Len(frames[s]) > 1) \in BOOLEAN
      BY <3>3 DEF JobPCs, Painting, Leaving
    <3>6. j \in JobRec /\ j.pc = pc /\ j.shell = job[t].shell
      BY <3>1, <3>2, <3>5 DEF JobRec
    <3>7. JobShape(j)
      BY <3>1, <3>3, <3>6 DEF JobShape
    <3>. QED
      BY <3>4, <3>6, <3>7, JobPut
  <2>3. FramesShape'
    <3>1. frames[s] \in Seq(BOOLEAN) /\ frames[s] # <<>>
      BY <1>7, FrameWaits DEF Consume, FramesShape
    <3>2. Tail(frames[s]) \in Seq(BOOLEAN)
      BY <3>1, EmptySeq, HeadTailProperties
    <3>. QED
      BY <1>7, <3>2 DEF Consume, FramesShape
  <2>. QED
    BY <2>1, <2>2, <2>3
<1>8. ASSUME NEW t \in Threads, NEW s \in Shells, PostPrerollAction(t, s) PROVE RasterShape'
  <2>1. LeaseShape' /\ FlagShape' /\ CallShape' /\ TasksShape' /\ FramesShape' /\ CommitShape'
    BY <1>8
       DEF PostPrerollAction, At, Goes, mergerVars, frameVars, platformVars, LeaseShape,
           FlagShape, CallShape, TasksShape, FramesShape, CommitShape
  <2>2. JobsShape'
    <3>1. job[t] \in JobRec /\ job[t].shell \in Shells
      BY <1>8 DEF PostPrerollAction, At, JobsShape, JobShape
    <3>. DEFINE J == {[job[t] EXCEPT !.pc = "decrement"], [job[t] EXCEPT !.pc = "extend"],
                      [job[t] EXCEPT !.pc = "merge", !.retry = TRUE]}
    <3>2. ASSUME NEW j \in J PROVE j \in JobRec /\ JobShape(j)
      BY <3>1 DEF JobRec, JobPCs, JobShape, Painting, Leaving
    <3>3. \/ job' = [job EXCEPT ![t] = [job[t] EXCEPT !.pc = "decrement"]]
          \/ job' = [job EXCEPT ![t] = [job[t] EXCEPT !.pc = "extend"]]
          \/ job' = [job EXCEPT ![t] = [job[t] EXCEPT !.pc = "merge", !.retry = TRUE]]
      BY <1>8 DEF PostPrerollAction, Goes
    <3>. QED
      BY <3>2, <3>3, JobPut
  <2>. QED
    BY <2>1, <2>2
<1>9. ASSUME NEW t \in Threads, NEW s \in Shells, MergeIfEnabled(t, s) PROVE RasterShape'
  <2>1. LeaseShape' /\ FlagShape' /\ CallShape' /\ TasksShape' /\ FramesShape' /\ CommitShape'
    BY <1>9
       DEF MergeIfEnabled, At, Goes, mergerVars, frameVars, engineVars, platformVars,
           LeaseShape, FlagShape, CallShape, TasksShape, FramesShape, CommitShape
  <2>2. JobsShape'
    BY <1>9
       DEF MergeIfEnabled, At, Goes, mergerVars, frameVars, engineVars, platformVars, JobsShape,
           JobShape, JobRec, JobPCs, Idle, Threads, Painting, Leaving
  <2>. QED
    BY <2>1, <2>2
<1>10. ASSUME NEW t \in Threads, NEW s \in Shells, MergeQueues(t, s) PROVE RasterShape'
  <2>1. LeaseShape' /\ TasksShape' /\ FramesShape' /\ CommitShape'
    BY <1>10
       DEF MergeQueues, At, Goes, Shift, Shifted, frameVars, engineVars, LeaseShape, TasksShape,
           FramesShape, CommitShape
  <2>2. FlagShape'
    BY <1>10 DEF MergeQueues, At, Goes, Shift, Shifted, frameVars, engineVars, FlagShape
  <2>3. JobsShape'
    <3>. DEFINE r == [job[t] EXCEPT !.pc = "record"]
    <3>1. job[t] \in JobRec /\ job[t].shell \in Shells
      BY <1>10 DEF MergeQueues, At, JobsShape, JobShape
    <3>2. r \in JobRec /\ r.shell \in Shells /\ r.pc = "record"
      BY <3>1 DEF JobRec, JobPCs, Leaving
    <3>. DEFINE j == [job[t] EXCEPT !.pc = "decrement"]
    <3>3. j \in JobRec /\ JobShape(j)
      BY <3>1 DEF JobRec, JobPCs, JobShape, Leaving
    <3>4. Shift(t, r) \/ job' = [job EXCEPT ![t] = j]
      BY <1>10 DEF MergeQueues, Goes
    <3>. HIDE DEF r, j
    <3>. QED
      BY <3>2, <3>3, <3>4, ShiftPut, JobPut
  <2>4. CallShape'
    BY <1>10
       DEF MergeQueues, At, Goes, Shift, Shifted, frameVars, engineVars, CallShape, CallRec,
           NoCall
  <2>. QED
    BY <2>1, <2>2, <2>3, <2>4
<1>11. ASSUME NEW t \in Threads, NEW s \in Shells, SaveLease(t, s) PROVE RasterShape'
  <2>1. FlagShape' /\ TasksShape' /\ FramesShape' /\ CommitShape'
    BY <1>11
       DEF SaveLease, At, Shift, Shifted, frameVars, engineVars, FlagShape, TasksShape,
           FramesShape, CommitShape
  <2>2. LeaseShape'
    BY <1>11, RasterAssumption
       DEF SaveLease, At, Shift, Shifted, frameVars, engineVars, LeaseShape, WithLease,
           WithoutLease
  <2>3. JobsShape'
    <3>. DEFINE r == [job[t] EXCEPT !.pc = "decrement"]
    <3>1. job[t] \in JobRec /\ job[t].shell \in Shells
      BY <1>11 DEF SaveLease, At, JobsShape, JobShape
    <3>2. r \in JobRec /\ r.shell \in Shells /\ r.pc = "decrement"
      BY <3>1 DEF JobRec, JobPCs, Leaving
    <3>3. Shift(t, r)
      BY <1>11 DEF SaveLease
    <3>. HIDE DEF r
    <3>. QED
      BY <3>2, <3>3, ShiftPut
  <2>4. CallShape'
    BY <1>11
       DEF SaveLease, At, Shift, Shifted, frameVars, engineVars, CallShape, CallRec, NoCall
  <2>. QED
    BY <2>1, <2>2, <2>3, <2>4
<1>12. ASSUME NEW t \in Threads, NEW s \in Shells, ExtendLeaseTo(t, s) PROVE RasterShape'
  <2>1. TasksShape' /\ FramesShape' /\ CommitShape'
    BY <1>12
       DEF ExtendLeaseTo, At, Shift, Shifted, frameVars, engineVars, TasksShape, FramesShape,
           CommitShape
  <2>2. LeaseShape'
    BY <1>12, RasterAssumption
       DEF ExtendLeaseTo, At, Shift, Shifted, frameVars, engineVars, LeaseShape, WithLease,
           WithoutLease
  <2>3. FlagShape'
    BY <1>12 DEF ExtendLeaseTo, At, Shift, Shifted, frameVars, engineVars, FlagShape
  <2>4. JobsShape'
    <3>. DEFINE r == [job[t] EXCEPT !.pc = "submit", !.retry = ~embedder[s].previous]
    <3>1. job[t] \in JobRec /\ job[t].shell \in Shells
      BY <1>12 DEF ExtendLeaseTo, At, JobsShape, JobShape
    <3>2. r \in JobRec /\ r.shell \in Shells /\ r.pc = "submit"
      BY <3>1 DEF JobRec, JobPCs, Painting
    <3>3. Shift(t, r) \/ job' = [job EXCEPT ![t] = r]
      BY <1>12 DEF ExtendLeaseTo
    <3>. HIDE DEF r
    <3>. QED
      BY <3>2, <3>3, ShiftPut, JobPut DEF JobShape
  <2>5. CallShape'
    BY <1>12
       DEF ExtendLeaseTo, At, Shift, Shifted, frameVars, engineVars, CallShape, CallRec, NoCall
  <2>. QED
    BY <2>1, <2>2, <2>3, <2>4, <2>5
<1>13. ASSUME NEW t \in Threads, NEW s \in Shells, NEW overlay \in BOOLEAN, SubmitFlutterView(t, s, overlay)
      PROVE  RasterShape'
  <2>1. LeaseShape' /\ FlagShape' /\ CallShape' /\ TasksShape' /\ FramesShape' /\ CommitShape'
    BY <1>13
       DEF SubmitFlutterView, At, Goes, mergerVars, frameVars, platformVars, LeaseShape,
           FlagShape, CallShape, TasksShape, FramesShape, CommitShape
  <2>2. JobsShape'
    BY <1>13
       DEF SubmitFlutterView, At, Goes, mergerVars, frameVars, platformVars, JobsShape,
           JobShape, JobRec, JobPCs, Idle, Threads, Painting, Leaving
  <2>. QED
    BY <2>1, <2>2
<1>14. ASSUME NEW t \in Threads, NEW s \in Shells, DecrementIfMerged(t, s) PROVE RasterShape'
  <2>1. LeaseShape' /\ CallShape' /\ TasksShape' /\ FramesShape' /\ CommitShape'
    BY <1>14
       DEF DecrementIfMerged, At, Goes, mergerVars, frameVars, engineVars, platformVars,
           LeaseShape, CallShape, TasksShape, FramesShape, CommitShape
  <2>2. FlagShape'
    BY <1>14
       DEF DecrementIfMerged, At, Goes, mergerVars, frameVars, engineVars, platformVars,
           FlagShape
  <2>3. JobsShape'
    BY <1>14
       DEF DecrementIfMerged, At, Goes, mergerVars, frameVars, engineVars, platformVars,
           JobsShape, JobShape, JobRec, JobPCs, Idle, Threads, Painting, Leaving
  <2>. QED
    BY <2>1, <2>2, <2>3
<1>15. ASSUME NEW t \in Threads, NEW s \in Shells, DecrementLease(t, s) PROVE RasterShape'
  <2>1. TasksShape' /\ FramesShape' /\ CommitShape'
    BY <1>15
       DEF DecrementLease, At, Goes, Shift, Shifted, frameVars, engineVars, TasksShape,
           FramesShape, CommitShape
  <2>2. LeaseShape'
    BY <1>15, RasterAssumption
       DEF DecrementLease, At, Goes, Shift, Shifted, frameVars, engineVars, LeaseShape,
           WithLease, WithoutLease
  <2>3. FlagShape'
    BY <1>15 DEF DecrementLease, At, Goes, Shift, Shifted, frameVars, engineVars, FlagShape
  <2>4. JobsShape'
    <3>. DEFINE r == [job[t] EXCEPT !.pc = "part"]
    <3>1. job[t] \in JobRec /\ job[t].shell \in Shells
      BY <1>15 DEF DecrementLease, At, JobsShape, JobShape
    <3>2. r \in JobRec /\ r.shell \in Shells /\ r.pc = "part"
      BY <3>1 DEF JobRec, JobPCs, Leaving
    <3>. DEFINE j == [job[t] EXCEPT !.pc = "finish"]
    <3>3. j \in JobRec /\ JobShape(j)
      BY <3>1 DEF JobRec, JobPCs, JobShape, Leaving
    <3>4. Shift(t, r) \/ job' = [job EXCEPT ![t] = j]
      BY <1>15 DEF DecrementLease, Goes
    <3>. HIDE DEF r, j
    <3>. QED
      BY <3>2, <3>3, <3>4, ShiftPut, JobPut
  <2>5. CallShape'
    BY <1>15
       DEF DecrementLease, At, Goes, Shift, Shifted, frameVars, engineVars, CallShape, CallRec,
           NoCall
  <2>. QED
    BY <2>1, <2>2, <2>3, <2>4, <2>5
<1>16. ASSUME NEW t \in Threads, NEW s \in Shells, Unmerge(t, s) PROVE RasterShape'
  <2>1. LeaseShape' /\ TasksShape' /\ FramesShape' /\ CommitShape'
    BY <1>16
       DEF Unmerge, At, Shifted, frameVars, engineVars, LeaseShape, TasksShape, FramesShape,
           CommitShape
  <2>2. FlagShape'
    BY <1>16 DEF Unmerge, At, Shifted, frameVars, engineVars, FlagShape
  <2>3. JobsShape'
    <3>. DEFINE r == [job[t] EXCEPT !.pc = "finish", !.more = @ \/ ~job[t].retry]
    <3>1. job[t] \in JobRec /\ job[t].shell \in Shells
      BY <1>16 DEF Unmerge, At, JobsShape, JobShape
    <3>2. r \in JobRec /\ r.shell \in Shells /\ r.pc = "finish"
      BY <3>1 DEF JobRec, JobPCs, Leaving
    <3>3. job' = [job EXCEPT ![t] = r]
      BY <1>16 DEF Unmerge
    <3>. HIDE DEF r
    <3>. QED
      BY <3>2, <3>3, JobPut DEF JobShape
  <2>4. CallShape'
    BY <1>16 DEF Unmerge, At, Shifted, frameVars, engineVars, CallShape, CallRec, NoCall
  <2>. QED
    BY <2>1, <2>2, <2>3, <2>4
<1>17. ASSUME NEW t \in Threads, NEW s \in Shells, FinishDraw(t, s) PROVE RasterShape'
  <2>1. LeaseShape' /\ FlagShape' /\ CallShape' /\ CommitShape'
    BY <1>17
       DEF FinishDraw, At, Goes, PushBack, EndDraw, mergerVars, engineVars, platformVars,
           LeaseShape, FlagShape, CallShape, CommitShape
  <2>2. JobsShape'
    <3>. DEFINE j == [job[t] EXCEPT !.pc = "signal"]
    <3>1. job[t] \in JobRec /\ job[t].shell \in Shells
      BY <1>17 DEF FinishDraw, At, JobsShape, JobShape
    <3>2. j \in JobRec /\ JobShape(j)
      BY <3>1 DEF JobRec, JobPCs, JobShape, Leaving
    <3>3. job' = [job EXCEPT ![t] = Idle] \/ job' = [job EXCEPT ![t] = j]
      BY <1>17 DEF FinishDraw, PushBack, EndDraw, Goes
    <3>. HIDE DEF j
    <3>. QED
      BY <3>2, <3>3, JobPut, JobDone
  <2>3. TasksShape'
    <3>1. Task("draw", s) \in TaskRec
      BY DEF Task, TaskRec
    <3>2. tasks' \in {tasks, Append(tasks, Task("draw", s))}
      BY <1>17 DEF FinishDraw, PushBack, EndDraw
    <3>. QED
      BY <3>1, <3>2 DEF TasksShape
  <2>4. FramesShape'
    <3>1. job[t].layers \in BOOLEAN /\ frames[s] \in Seq(BOOLEAN)
      BY DEF JobsShape, JobRec, FramesShape
    <3>2. <<job[t].layers>> \o frames[s] \in Seq(BOOLEAN)
      BY <3>1
    <3>3. \/ frames' = [frames EXCEPT ![s] = <<job[t].layers>> \o frames[s]] /\ missed' = missed
          \/ \E b \in BOOLEAN : frames' = frames /\ missed' = [missed EXCEPT ![s] = b]
      <4>1. (missed[s] /\ ~job[t].more) \in BOOLEAN
        OBVIOUS
      <4>. QED
        BY <1>17, <4>1 DEF FinishDraw, PushBack, EndDraw
    <3>. QED
      BY <3>2, <3>3 DEF FramesShape
  <2>. QED
    BY <2>1, <2>2, <2>3, <2>4
<1>18. ASSUME NEW t \in Threads, NEW s \in Shells, PostAgain(t, s) PROVE RasterShape'
  <2>1. LeaseShape' /\ FlagShape' /\ CallShape' /\ CommitShape'
    BY <1>18
       DEF PostAgain, At, EndDraw, mergerVars, engineVars, platformVars, LeaseShape, FlagShape,
           CallShape, CommitShape
  <2>2. JobsShape'
    BY <1>18
       DEF PostAgain, At, EndDraw, mergerVars, engineVars, platformVars, JobsShape, JobShape,
           JobRec, JobPCs, Idle, Threads, Painting, Leaving
  <2>3. TasksShape'
    BY <1>18
       DEF PostAgain, At, EndDraw, mergerVars, engineVars, platformVars, TasksShape, TaskRec,
           Task
  <2>4. FramesShape'
    BY <1>18 DEF PostAgain, At, EndDraw, mergerVars, engineVars, platformVars, FramesShape
  <2>. QED
    BY <2>1, <2>2, <2>3, <2>4
<1>19. ASSUME NEW t \in Threads, NEW s \in Shells, Setup(t, s) PROVE RasterShape'
  <2>1. LeaseShape' /\ TasksShape' /\ FramesShape' /\ CommitShape'
    BY <1>19 DEF Setup, At, frameVars, LeaseShape, TasksShape, FramesShape, CommitShape
  <2>2. FlagShape'
    BY <1>19 DEF Setup, At, frameVars, FlagShape
  <2>3. JobsShape'
    BY <1>19
       DEF Setup, At, frameVars, JobsShape, JobShape, JobRec, JobPCs, Idle, Threads, Painting,
           Leaving
  <2>4. CallShape'
    BY <1>19 DEF Setup, At, frameVars, CallShape, CallRec, NoCall
  <2>. QED
    BY <2>1, <2>2, <2>3, <2>4
<1>20. ASSUME NEW t \in Threads, NEW s \in Shells, Teardown(t, s) PROVE RasterShape'
  <2>1. LeaseShape' /\ TasksShape' /\ FramesShape' /\ CommitShape'
    BY <1>20 DEF Teardown, At, Goes, frameVars, LeaseShape, TasksShape, FramesShape, CommitShape
  <2>2. FlagShape'
    BY <1>20 DEF Teardown, At, Goes, frameVars, FlagShape
  <2>3. JobsShape'
    <3>. DEFINE j == [job[t] EXCEPT !.pc = "unmerge"]
    <3>1. job[t] \in JobRec /\ job[t].shell \in Shells
      BY <1>20 DEF Teardown, At, JobsShape, JobShape
    <3>2. j \in JobRec /\ JobShape(j)
      BY <3>1 DEF JobRec, JobPCs, JobShape
    <3>3. job' = [job EXCEPT ![t] = Idle] \/ job' = [job EXCEPT ![t] = j]
      BY <1>20 DEF Teardown, Goes
    <3>. HIDE DEF j
    <3>. QED
      BY <3>2, <3>3, JobPut, JobDone
  <2>4. CallShape'
    <3>1. call # NoCall /\ call.stage = "wait"
      BY <1>20, TearingCalled DEF Teardown, At, Tearing
    <3>2. SetupPending(s) \in BOOLEAN
      BY DEF SetupPending
    <3>3. \/ call' = [call EXCEPT !.late = SetupPending(s)]
          \/ call' = [call EXCEPT !.stage = "torn", !.late = SetupPending(s)]
      BY <1>20, <3>1 DEF Teardown, CallShape, CallRec
    <3>. QED
      BY <3>1, <3>2, <3>3, CallSignalled
  <2>. QED
    BY <2>1, <2>2, <2>3, <2>4
<1>21. ASSUME NEW t \in Threads, NEW s \in Shells, UnMergeNowIfLastOne(t, s) PROVE RasterShape'
  <2>1. FlagShape' /\ TasksShape' /\ FramesShape' /\ CommitShape'
    BY <1>21
       DEF UnMergeNowIfLastOne, At, Shift, Shifted, Signal, frameVars, engineVars, FlagShape,
           TasksShape, FramesShape, CommitShape
  <2>2. LeaseShape'
    BY <1>21, RasterAssumption
       DEF UnMergeNowIfLastOne, At, Shift, Shifted, Signal, frameVars, engineVars, LeaseShape,
           WithLease, WithoutLease
  <2>3. JobsShape'
    <3>. DEFINE r == [job[t] EXCEPT !.pc = "apart"]
    <3>1. job[t] \in JobRec /\ job[t].shell \in Shells
      BY <1>21 DEF UnMergeNowIfLastOne, At, JobsShape, JobShape
    <3>2. r \in JobRec /\ r.shell \in Shells /\ r.pc = "apart"
      BY <3>1 DEF JobRec, JobPCs, Leaving
    <3>3. Shift(t, r) \/ job' = [job EXCEPT ![t] = Idle]
      BY <1>21 DEF UnMergeNowIfLastOne
    <3>. HIDE DEF r
    <3>. QED
      BY <3>2, <3>3, ShiftPut, JobDone
  <2>4. CallShape'
    <3>1. call # NoCall
      BY <1>21, TearingCalled DEF UnMergeNowIfLastOne, At, Tearing
    <3>2. call' = Shifted(t) \/ call' = [call EXCEPT !.stage = "torn"]
      BY <1>21 DEF UnMergeNowIfLastOne, Signal
    <3>. QED
      BY <3>1, <3>2, CallSignalled, CallMarked
  <2>. QED
    BY <2>1, <2>2, <2>3, <2>4
<1>22. ASSUME NEW t \in Threads, NEW s \in Shells, UnmergeNow(t, s) PROVE RasterShape'
  <2>1. LeaseShape' /\ TasksShape' /\ FramesShape' /\ CommitShape'
    BY <1>22
       DEF UnmergeNow, At, Signal, frameVars, engineVars, LeaseShape, TasksShape, FramesShape,
           CommitShape
  <2>2. FlagShape'
    BY <1>22 DEF UnmergeNow, At, Signal, frameVars, engineVars, FlagShape
  <2>3. JobsShape'
    BY <1>22
       DEF UnmergeNow, At, Signal, frameVars, engineVars, JobsShape, JobShape, JobRec, JobPCs,
           Idle, Threads, Painting, Leaving
  <2>4. CallShape'
    <3>1. call # NoCall
      BY <1>22, TearingCalled DEF UnmergeNow, At, Tearing
    <3>2. call' = [call EXCEPT !.stage = "torn"]
      BY <1>22 DEF UnmergeNow, Signal
    <3>. QED
      BY <3>1, <3>2, CallSignalled
  <2>. QED
    BY <2>1, <2>2, <2>3, <2>4
<1>23. ASSUME SignalFrame PROVE RasterShape'
  <2>1. LeaseShape' /\ FlagShape' /\ JobsShape' /\ CallShape'
    BY <1>23
       DEF SignalFrame, mergerVars, engineVars, platformVars, LeaseShape, FlagShape, JobsShape,
           CallShape
  <2>2. TasksShape'
    <3>1. Task("draw", commit.shell) \in TaskRec
      BY <1>23 DEF SignalFrame, CommitShape, Task, TaskRec
    <3>2. tasks' \in {tasks, Append(tasks, Task("draw", commit.shell))}
      BY <1>23 DEF SignalFrame
    <3>. QED
      BY <3>1, <3>2 DEF TasksShape
  <2>3. FramesShape'
    BY <1>23 DEF SignalFrame, mergerVars, engineVars, platformVars, FramesShape
  <2>4. CommitShape'
    BY <1>23 DEF SignalFrame, mergerVars, engineVars, platformVars, CommitShape, NoPush
  <2>. QED
    BY <2>1, <2>2, <2>3, <2>4
<1>24. ASSUME ShouldPostSetup PROVE RasterShape'
  <2>1. LeaseShape' /\ FlagShape' /\ TasksShape' /\ FramesShape' /\ CommitShape'
    BY <1>24
       DEF ShouldPostSetup, Start, Task, mergerVars, frameVars, engineVars, LeaseShape,
           FlagShape, TasksShape, FramesShape, CommitShape
  <2>2. JobsShape'
    <3>. DEFINE j == Start(Task("setup", call.shell))
    <3>1. call.shell \in Shells
      BY <1>24 DEF ShouldPostSetup, CallShape, CallRec, NoCall
    <3>2. j \in JobRec /\ JobShape(j)
      BY <3>1 DEF Start, Task, Idle, JobRec, JobPCs, JobShape
    <3>3. job' = job \/ job' = [job EXCEPT !["platform"] = j]
      BY <1>24 DEF ShouldPostSetup
    <3>4. "platform" \in Threads
      BY DEF Threads
    <3>. HIDE DEF j
    <3>. QED
      BY <3>2, <3>3, <3>4, JobPut DEF JobsShape
  <2>3. CallShape'
    BY <1>24
       DEF ShouldPostSetup, Start, Task, mergerVars, frameVars, engineVars, CallShape, CallRec,
           NoCall
  <2>. QED
    BY <2>1, <2>2, <2>3
<1>25. ASSUME IoPostsSetup PROVE RasterShape'
  <2>1. LeaseShape' /\ FlagShape' /\ JobsShape' /\ FramesShape' /\ CommitShape'
    BY <1>25
       DEF IoPostsSetup, mergerVars, frameVars, engineVars, LeaseShape, FlagShape, JobsShape,
           FramesShape, CommitShape
  <2>2. TasksShape'
    <3>1. Task("setup", call.shell) \in TaskRec
      BY <1>25 DEF IoPostsSetup, CallShape, CallRec, NoCall, Task, TaskRec
    <3>2. tasks' \in {tasks, Append(tasks, Task("setup", call.shell))}
      BY <1>25 DEF IoPostsSetup
    <3>. QED
      BY <3>1, <3>2 DEF TasksShape
  <2>3. CallShape'
    BY <1>25 DEF IoPostsSetup, mergerVars, frameVars, engineVars, CallShape, CallRec, NoCall
  <2>. QED
    BY <2>1, <2>2, <2>3
<1>26. ASSUME RunNowOrPostTeardown PROVE RasterShape'
  <2>1. LeaseShape' /\ FlagShape' /\ FramesShape' /\ CommitShape'
    BY <1>26
       DEF RunNowOrPostTeardown, Start, Task, mergerVars, frameVars, engineVars, LeaseShape,
           FlagShape, FramesShape, CommitShape
  <2>2. JobsShape'
    <3>. DEFINE j == Start(Task("teardown", call.shell))
    <3>1. call.shell \in Shells
      BY <1>26 DEF RunNowOrPostTeardown, CallShape, CallRec, NoCall
    <3>2. j \in JobRec /\ JobShape(j)
      BY <3>1 DEF Start, Task, Idle, JobRec, JobPCs, JobShape
    <3>3. job' = job \/ job' = [job EXCEPT !["platform"] = j]
      BY <1>26 DEF RunNowOrPostTeardown
    <3>4. "platform" \in Threads
      BY DEF Threads
    <3>. HIDE DEF j
    <3>. QED
      BY <3>2, <3>3, <3>4, JobPut DEF JobsShape
  <2>3. TasksShape'
    <3>1. Task("teardown", call.shell) \in TaskRec
      BY <1>26 DEF RunNowOrPostTeardown, CallShape, CallRec, NoCall, Task, TaskRec
    <3>2. tasks' \in {tasks, Append(tasks, Task("teardown", call.shell))}
      BY <1>26 DEF RunNowOrPostTeardown
    <3>. QED
      BY <3>1, <3>2 DEF TasksShape
  <2>4. CallShape'
    BY <1>26
       DEF RunNowOrPostTeardown, Start, Task, mergerVars, frameVars, engineVars, CallShape,
           CallRec, NoCall
  <2>. QED
    BY <2>1, <2>2, <2>3, <2>4
<1>27. ASSUME TeardownExternalViewEmbedder PROVE RasterShape'
  <2>1. LeaseShape' /\ FlagShape' /\ JobsShape' /\ TasksShape' /\ FramesShape' /\ CommitShape'
    BY <1>27
       DEF TeardownExternalViewEmbedder, mergerVars, frameVars, LeaseShape, FlagShape,
           JobsShape, TasksShape, FramesShape, CommitShape
  <2>2. CallShape'
    BY <1>27 DEF TeardownExternalViewEmbedder, mergerVars, frameVars, CallShape, CallRec, NoCall
  <2>. QED
    BY <2>1, <2>2
<1>. QED
  BY <1>1, <1>2, <1>3, <1>4, <1>5, <1>6, <1>7, <1>8, <1>9, <1>10, <1>11, <1>12, <1>13, <1>14,
     <1>15, <1>16, <1>17, <1>18, <1>19, <1>20, <1>21, <1>22, <1>23, <1>24, <1>25, <1>26, <1>27
     DEF RasterNext, ThreadStep, DrawStep, CallStep

-----------------------------------------------------------------------------
(* Teardowns *)

\* What every step in the course of a Draw does to the threads: only its own thread
\* goes on, and the other keeps its place.
Working == {"draw"} \cup Painting \cup Leaving
InDraw(t) ==
    /\ job[t].pc \in Working /\ job'[t].pc \in Working \cup {"idle"}
    /\ job'[t].pc = "idle" \/ job'[t].shell = job[t].shell
    /\ \A u \in Threads \ {t} :
          /\ job'[u].pc = job[u].pc /\ job'[u].shell = job[u].shell
          /\ job'[u].more = job[u].more
          /\ Draws(u) \/ job'[u] = job[u]
    /\ call' \in {call, Shifted(t)}
Posts(s) == tasks' \in {tasks, Append(tasks, Task("draw", s))}

\* A task posted is the last one.
LEMMA AppendedLast ==
    ASSUME NEW S, NEW q \in Seq(S), NEW x \in S
    PROVE  /\ DOMAIN q = 1..Len(q) /\ Len(q) \in Nat
           /\ DOMAIN Append(q, x) = 1..(Len(q) + 1) /\ Append(q, x)[Len(q) + 1] = x
           /\ \A i \in 1..Len(q) : Append(q, x)[i] = q[i]
  BY AppendProperties
LEMMA TaskPosted ==
    ASSUME TasksShape, NEW x \in TaskRec, x.kind # "teardown", tasks' = Append(tasks, x)
    PROVE  \A i \in DOMAIN tasks' :
              tasks'[i].kind = "teardown" => i \in DOMAIN tasks /\ tasks'[i] = tasks[i]
<1>1. /\ DOMAIN tasks = 1..Len(tasks) /\ Len(tasks) \in Nat
      /\ DOMAIN tasks' = 1..(Len(tasks) + 1) /\ tasks'[Len(tasks) + 1] = x
      /\ \A i \in 1..Len(tasks) : tasks'[i] = tasks[i]
  BY AppendedLast DEF TasksShape
<1>. QED
  BY <1>1

\* A step that changes what the leases say is such a step too.
LEMMA ShiftMoves ==
    ASSUME JobsShape, NEW t \in Threads, NEW r, Shift(t, r), r.pc \in Working, job[t].pc \in Working,
           r \in JobRec, call' = Shifted(t),
           r.shell = job[t].shell
    PROVE  InDraw(t) /\ job'[t].pc = r.pc
<1>1. job'[t] = IF r.config = "other" THEN r ELSE [r EXCEPT !.config = "own"]
  BY DEF Shift
<1>2. job'[t].pc = r.pc /\ job'[t].shell = r.shell
  BY <1>1 DEF JobRec
<1>3. ASSUME NEW u \in Threads \ {t}
      PROVE  /\ job'[u].pc = job[u].pc /\ job'[u].shell = job[u].shell
             /\ job'[u].more = job[u].more
             /\ Draws(u) \/ job'[u] = job[u]
  BY <1>3 DEF Shift, JobsShape, JobRec
<1>. QED
  BY <1>2, <1>3 DEF InDraw

\* Every step of a Draw is one.
LEMMA DrawMoves ==
    ASSUME JobsShape, NEW t \in Threads, NEW s \in Shells,
           DrawStep(t, s),
           job[t].pc \in Working
    PROVE  InDraw(t) /\ Posts(s)
<1>1. ASSUME LeaveFrame(t, s) PROVE InDraw(t) /\ Posts(s)
  <2>1. Posts(s) /\ call' \in {call, Shifted(t)} /\ job[t].pc \in Working
    BY <1>1
       DEF LeaveFrame, At, mergerVars, engineVars, platformVars, Posts, Working, Painting,
           Leaving
  <2>2. /\ job'[t].pc \in Working \cup {"idle"}
        /\ job'[t].pc = "idle" \/ job'[t].shell = job[t].shell
        /\ \A u \in Threads \ {t} : job'[u] = job[u]
    BY <1>1
       DEF LeaveFrame, At, mergerVars, engineVars, platformVars, JobsShape, JobRec, Working,
           Painting, Leaving, Idle
  <2>. QED
    BY <2>1, <2>2 DEF InDraw
<1>2. ASSUME NEW resized \in BOOLEAN, Consume(t, s, resized) PROVE InDraw(t) /\ Posts(s)
  <2>1. Posts(s) /\ call' \in {call, Shifted(t)} /\ job[t].pc \in Working
    BY <1>2 DEF Consume, At, mergerVars, platformVars, Posts, Working, Painting, Leaving
  <2>2. /\ job'[t].pc \in Working \cup {"idle"}
        /\ job'[t].pc = "idle" \/ job'[t].shell = job[t].shell
        /\ \A u \in Threads \ {t} : job'[u] = job[u]
    BY <1>2
       DEF Consume, At, mergerVars, platformVars, JobsShape, JobRec, Working, Painting, Leaving,
           Idle
  <2>. QED
    BY <2>1, <2>2 DEF InDraw
<1>3. ASSUME PostPrerollAction(t, s) PROVE InDraw(t) /\ Posts(s)
  <2>1. Posts(s) /\ call' \in {call, Shifted(t)} /\ job[t].pc \in Working
    BY <1>3
       DEF PostPrerollAction, At, Goes, mergerVars, frameVars, platformVars, Posts, Working,
           Painting, Leaving
  <2>2. /\ job'[t].pc \in Working \cup {"idle"}
        /\ job'[t].pc = "idle" \/ job'[t].shell = job[t].shell
        /\ \A u \in Threads \ {t} : job'[u] = job[u]
    BY <1>3
       DEF PostPrerollAction, At, Goes, mergerVars, frameVars, platformVars, JobsShape, JobRec,
           Working, Painting, Leaving, Idle
  <2>. QED
    BY <2>1, <2>2 DEF InDraw
<1>4. ASSUME MergeIfEnabled(t, s) PROVE InDraw(t) /\ Posts(s)
  <2>1. Posts(s) /\ call' \in {call, Shifted(t)} /\ job[t].pc \in Working
    BY <1>4
       DEF MergeIfEnabled, At, Goes, mergerVars, frameVars, engineVars, platformVars, Posts,
           Working, Painting, Leaving
  <2>2. /\ job'[t].pc \in Working \cup {"idle"}
        /\ job'[t].pc = "idle" \/ job'[t].shell = job[t].shell
        /\ \A u \in Threads \ {t} : job'[u] = job[u]
    BY <1>4
       DEF MergeIfEnabled, At, Goes, mergerVars, frameVars, engineVars, platformVars, JobsShape,
           JobRec, Working, Painting, Leaving, Idle
  <2>. QED
    BY <2>1, <2>2 DEF InDraw
<1>5. ASSUME MergeQueues(t, s) PROVE InDraw(t) /\ Posts(s)
  <2>. DEFINE r == [job[t] EXCEPT !.pc = "record"]
  <2>1. Posts(s) /\ job[t].pc \in Working /\ job[t] \in JobRec
    BY <1>5 DEF MergeQueues, At, Goes, Shift, Shifted, frameVars, engineVars, Posts, JobsShape
  <2>2. r.pc = "record" /\ r \in JobRec /\ r.shell = job[t].shell
    BY <2>1 DEF JobRec, JobPCs, Painting, Leaving
  <2>3. CASE Shift(t, r) /\ call' = Shifted(t)
    <3>. HIDE DEF r
    <3>1. r.pc \in Working
      BY <2>2 DEF Working, Painting, Leaving
    <3>. QED
      BY <2>1, <2>2, <2>3, <3>1, ShiftMoves
  <2>4. CASE call' = call /\ \E j \in JobRec : /\ j.pc \in Working /\ j.shell = job[t].shell
                                            /\ job' = [job EXCEPT ![t] = j]
    BY <2>1, <2>4 DEF InDraw, JobsShape
  <2>5. [job[t] EXCEPT !.pc = "decrement"] \in JobRec /\ "decrement" \in Working
    BY <2>1 DEF JobRec, JobPCs, Leaving, Working
  <2>6. \/ Shift(t, r) /\ call' = Shifted(t)
        \/ call' = call /\ job' = [job EXCEPT ![t] = [job[t] EXCEPT !.pc = "decrement"]]
    BY <1>5 DEF MergeQueues, Goes
  <2>7. /\ [job[t] EXCEPT !.pc = "decrement"].pc = "decrement"
        /\ [job[t] EXCEPT !.pc = "decrement"].shell = job[t].shell
    BY <2>1 DEF JobRec
  <2>. HIDE DEF r
  <2>. QED
    BY <2>3, <2>4, <2>5, <2>6, <2>7
<1>6. ASSUME SaveLease(t, s) PROVE InDraw(t) /\ Posts(s)
  <2>. DEFINE r == [job[t] EXCEPT !.pc = "decrement"]
  <2>1. Posts(s) /\ job[t].pc \in Working /\ job[t] \in JobRec
    BY <1>6 DEF SaveLease, At, Shift, Shifted, frameVars, engineVars, Posts, JobsShape
  <2>2. r.pc = "decrement" /\ r \in JobRec /\ r.shell = job[t].shell
    BY <2>1 DEF JobRec, JobPCs, Painting, Leaving
  <2>3. CASE Shift(t, r) /\ call' = Shifted(t)
    <3>. HIDE DEF r
    <3>1. r.pc \in Working
      BY <2>2 DEF Working, Painting, Leaving
    <3>. QED
      BY <2>1, <2>2, <2>3, <3>1, ShiftMoves
  <2>. QED
    BY <1>6, <2>3 DEF SaveLease
<1>7. ASSUME ExtendLeaseTo(t, s) PROVE InDraw(t) /\ Posts(s)
  <2>. DEFINE r == [job[t] EXCEPT !.pc = "submit", !.retry = ~embedder[s].previous]
  <2>1. Posts(s) /\ job[t].pc \in Working /\ job[t] \in JobRec
    BY <1>7 DEF ExtendLeaseTo, At, Shift, Shifted, frameVars, engineVars, Posts, JobsShape
  <2>2. r.pc = "submit" /\ r \in JobRec /\ r.shell = job[t].shell
    BY <2>1 DEF JobRec, JobPCs, Painting, Leaving
  <2>3. CASE Shift(t, r) /\ call' = Shifted(t)
    <3>. HIDE DEF r
    <3>1. r.pc \in Working
      BY <2>2 DEF Working, Painting, Leaving
    <3>. QED
      BY <2>1, <2>2, <2>3, <3>1, ShiftMoves
  <2>4. CASE call' = call /\ \E j \in JobRec : /\ j.pc \in Working /\ j.shell = job[t].shell
                                            /\ job' = [job EXCEPT ![t] = j]
    BY <2>1, <2>4 DEF InDraw, JobsShape
  <2>5. \/ Shift(t, r) /\ call' = Shifted(t)
        \/ call' = call /\ job' = [job EXCEPT ![t] = r]
    BY <1>7 DEF ExtendLeaseTo
  <2>6. r.pc \in Working
    BY <2>2 DEF Working, Painting
  <2>. HIDE DEF r
  <2>. QED
    BY <2>2, <2>3, <2>4, <2>5, <2>6
<1>8. ASSUME NEW overlay \in BOOLEAN, SubmitFlutterView(t, s, overlay) PROVE InDraw(t) /\ Posts(s)
  <2>1. Posts(s) /\ call' \in {call, Shifted(t)} /\ job[t].pc \in Working
    BY <1>8
       DEF SubmitFlutterView, At, Goes, mergerVars, frameVars, platformVars, Posts, Working,
           Painting, Leaving
  <2>2. /\ job'[t].pc \in Working \cup {"idle"}
        /\ job'[t].pc = "idle" \/ job'[t].shell = job[t].shell
        /\ \A u \in Threads \ {t} : job'[u] = job[u]
    BY <1>8
       DEF SubmitFlutterView, At, Goes, mergerVars, frameVars, platformVars, JobsShape, JobRec,
           Working, Painting, Leaving, Idle
  <2>. QED
    BY <2>1, <2>2 DEF InDraw
<1>9. ASSUME DecrementIfMerged(t, s) PROVE InDraw(t) /\ Posts(s)
  <2>1. Posts(s) /\ call' \in {call, Shifted(t)} /\ job[t].pc \in Working
    BY <1>9
       DEF DecrementIfMerged, At, Goes, mergerVars, frameVars, engineVars, platformVars, Posts,
           Working, Painting, Leaving
  <2>2. /\ job'[t].pc \in Working \cup {"idle"}
        /\ job'[t].pc = "idle" \/ job'[t].shell = job[t].shell
        /\ \A u \in Threads \ {t} : job'[u] = job[u]
    BY <1>9
       DEF DecrementIfMerged, At, Goes, mergerVars, frameVars, engineVars, platformVars,
           JobsShape, JobRec, Working, Painting, Leaving, Idle
  <2>. QED
    BY <2>1, <2>2 DEF InDraw
<1>10. ASSUME DecrementLease(t, s) PROVE InDraw(t) /\ Posts(s)
  <2>. DEFINE r == [job[t] EXCEPT !.pc = "part"]
  <2>1. Posts(s) /\ job[t].pc \in Working /\ job[t] \in JobRec
    BY <1>10
       DEF DecrementLease, At, Goes, Shift, Shifted, frameVars, engineVars, Posts, JobsShape
  <2>2. r.pc = "part" /\ r \in JobRec /\ r.shell = job[t].shell
    BY <2>1 DEF JobRec, JobPCs, Painting, Leaving
  <2>3. CASE Shift(t, r) /\ call' = Shifted(t)
    <3>. HIDE DEF r
    <3>1. r.pc \in Working
      BY <2>2 DEF Working, Painting, Leaving
    <3>. QED
      BY <2>1, <2>2, <2>3, <3>1, ShiftMoves
  <2>4. CASE call' = call /\ \E j \in JobRec : /\ j.pc \in Working /\ j.shell = job[t].shell
                                            /\ job' = [job EXCEPT ![t] = j]
    BY <2>1, <2>4 DEF InDraw, JobsShape
  <2>5. [job[t] EXCEPT !.pc = "finish"] \in JobRec /\ "finish" \in Working
    BY <2>1 DEF JobRec, JobPCs, Leaving, Working
  <2>6. \/ Shift(t, r) /\ call' = Shifted(t)
        \/ call' = call /\ job' = [job EXCEPT ![t] = [job[t] EXCEPT !.pc = "finish"]]
    BY <1>10 DEF DecrementLease, Goes
  <2>7. /\ [job[t] EXCEPT !.pc = "finish"].pc = "finish"
        /\ [job[t] EXCEPT !.pc = "finish"].shell = job[t].shell
    BY <2>1 DEF JobRec
  <2>. HIDE DEF r
  <2>. QED
    BY <2>3, <2>4, <2>5, <2>6, <2>7
<1>11. ASSUME Unmerge(t, s) PROVE InDraw(t) /\ Posts(s)
  <2>1. Posts(s) /\ call' \in {call, Shifted(t)} /\ job[t].pc \in Working
    BY <1>11 DEF Unmerge, At, Shifted, frameVars, engineVars, Posts, Working, Painting, Leaving
  <2>2. /\ job'[t].pc \in Working \cup {"idle"}
        /\ job'[t].pc = "idle" \/ job'[t].shell = job[t].shell
        /\ \A u \in Threads \ {t} : job'[u] = job[u]
    BY <1>11
       DEF Unmerge, At, Shifted, frameVars, engineVars, JobsShape, JobRec, Working, Painting,
           Leaving, Idle
  <2>. QED
    BY <2>1, <2>2 DEF InDraw
<1>12. ASSUME FinishDraw(t, s) PROVE InDraw(t) /\ Posts(s)
  <2>1. Posts(s) /\ call' = call /\ job[t].pc \in Working /\ job[t] \in JobRec
    BY <1>12
       DEF FinishDraw, At, Goes, PushBack, EndDraw, mergerVars, engineVars, platformVars, Posts,
           JobsShape, Working
  <2>2. /\ job'[t].pc \in Working \cup {"idle"}
        /\ job'[t].pc = "idle" \/ job'[t].shell = job[t].shell
        /\ \A u \in Threads \ {t} : job'[u] = job[u]
    BY <1>12
       DEF FinishDraw, At, Goes, PushBack, EndDraw, mergerVars, engineVars, platformVars,
           JobsShape, JobRec, Working, Leaving, Idle
  <2>. QED
    BY <2>1, <2>2 DEF InDraw
<1>13. ASSUME PostAgain(t, s) PROVE InDraw(t) /\ Posts(s)
  <2>1. Posts(s) /\ call' = call /\ job[t].pc \in Working /\ job[t] \in JobRec
    BY <1>13
       DEF PostAgain, At, EndDraw, mergerVars, engineVars, platformVars, Posts, JobsShape,
           Working
  <2>2. /\ job'[t].pc \in Working \cup {"idle"}
        /\ job'[t].pc = "idle" \/ job'[t].shell = job[t].shell
        /\ \A u \in Threads \ {t} : job'[u] = job[u]
    BY <1>13
       DEF PostAgain, At, EndDraw, mergerVars, engineVars, platformVars, JobsShape, JobRec,
           Working, Leaving, Idle
  <2>. QED
    BY <2>1, <2>2 DEF InDraw
<1>14. ~Setup(t, s) /\ ~Teardown(t, s) /\ ~UnMergeNowIfLastOne(t, s) /\ ~UnmergeNow(t, s)
  BY DEF Setup, Teardown, UnMergeNowIfLastOne, UnmergeNow, At, Working, Painting, Leaving
<1>. QED
  BY <1>1, <1>2, <1>3, <1>4, <1>5, <1>6, <1>7, <1>8, <1>9, <1>10, <1>11, <1>12, <1>13, <1>14
     DEF DrawStep

\* The other steps of a thread are those of a set-up or a teardown.
LEMMA NotInDraw ==
    ASSUME NEW t \in Threads, NEW s \in Shells, DrawStep(t, s), job[t].pc \notin Working
    PROVE  \/ Setup(t, s) \/ Teardown(t, s) \/ UnMergeNowIfLastOne(t, s) \/ UnmergeNow(t, s)
  BY DEF DrawStep, At, Working, Painting, Leaving, LeaveFrame, Consume, PostPrerollAction,
         MergeIfEnabled, MergeQueues, SaveLease, ExtendLeaseTo, SubmitFlutterView,
         DecrementIfMerged, DecrementLease, Unmerge, FinishDraw, PostAgain

\* A step of a Draw leaves teardowns alone.
LEMMA TornInDraw ==
    ASSUME RasterShape, TornDown, NEW t \in Threads, NEW s \in Shells, InDraw(t), Posts(s)
    PROVE  TornDown'
<1>1. \A u \in Threads : Tearing(u)' => Tearing(u) /\ job'[u].shell = job[u].shell
  BY DEF InDraw, Tearing, Working, Painting, Leaving
<1>2. call' # NoCall => call # NoCall
  BY DEF InDraw, Shifted
<1>3. call'.stage = call.stage /\ call'.shell = call.shell
  <2>1. call \in CallRec \/ call = NoCall
    BY DEF RasterShape, CallShape
  <2>. QED
    BY <2>1 DEF InDraw, Shifted, CallRec
<1>4. \A i \in DOMAIN tasks' : tasks'[i].kind = "teardown" => i \in DOMAIN tasks /\ tasks'[i] = tasks[i]
  <2>1. Task("draw", s) \in TaskRec /\ Task("draw", s).kind # "teardown"
    BY DEF Task, TaskRec
  <2>2. CASE tasks' = tasks
    BY <2>2
  <2>3. CASE tasks' = Append(tasks, Task("draw", s))
    BY <2>1, <2>3, TaskPosted DEF RasterShape
  <2>. QED
    BY <2>2, <2>3 DEF Posts
<1>5. TearingAlone'
  BY <1>1, <1>3, <1>4 DEF TornDown, TearingAlone, Waiting
<1>6. TeardownPosted'
  BY <1>3, <1>4 DEF TornDown, TeardownPosted, Waiting
<1>7. CallHoldsPlatform'
  <2>. SUFFICES ASSUME call' # NoCall
       PROVE  \/ job'["platform"] = Idle /\ call'.stage # "setup"
              \/ call'.stage = "setup" /\ job'["platform"].pc = "setup"
              \/ call'.stage = "wait" /\ Tearing("platform")'
    BY DEF CallHoldsPlatform
  <2>1. job["platform"].pc \notin Working
    BY <1>2 DEF TornDown, CallHoldsPlatform, Idle, Tearing, Working, Painting, Leaving
  <2>2. job'["platform"] = job["platform"]
    BY <2>1 DEF InDraw, Draws, Working, Threads
  <2>. QED
    BY <1>2, <1>3, <2>2 DEF TornDown, CallHoldsPlatform, Tearing
<1>. QED
  BY <1>5, <1>6, <1>7 DEF TornDown

\* With the Signal the call goes on, and nothing is torn down any more.
LEMMA TornEnds ==
    ASSUME RasterShape, TornDown, NEW t \in Threads, Tearing(t), tasks' = tasks, Signal,
           job' = [job EXCEPT ![t] = Idle]
    PROVE  TornDown'
<1>1. /\ call # NoCall /\ \A u \in Threads \ {t} : ~Tearing(u)
      /\ call.stage = "wait" /\ \A i \in DOMAIN tasks : tasks[i].kind # "teardown"
  BY DEF TornDown, TearingAlone, Waiting, NoCall
<1>2. job'[t] = Idle /\ \A u \in Threads \ {t} : job'[u] = job[u]
  BY DEF RasterShape, JobsShape
<1>3. call'.stage = "torn"
  BY <1>1 DEF Signal, RasterShape, CallShape, CallRec
<1>4. job'["platform"] = Idle
  BY <1>1, <1>2 DEF TornDown, CallHoldsPlatform, Threads
<1>. QED
  BY <1>1, <1>2, <1>3, <1>4
     DEF TornDown, TearingAlone, TeardownPosted, CallHoldsPlatform, Tearing, Idle

\* Every step leaves a teardown to the call that waits for it.
LEMMA TornKeeps ==
    ASSUME RasterShape, TornDown, RasterNext PROVE TornDown'
<1>. USE DEF RasterShape, TornDown
<1>1. ASSUME NEW s \in Shells, NEW layers \in BOOLEAN, ProduceFrame(s, layers) PROVE TornDown'
  <2>1. TearingAlone'
    BY <1>1
       DEF ProduceFrame, mergerVars, engineVars, platformVars, TearingAlone, Tearing, Waiting,
           JobsShape, JobRec, Idle, NoCall, Threads
  <2>2. TeardownPosted'
    BY <1>1
       DEF ProduceFrame, mergerVars, engineVars, platformVars, TeardownPosted, Tearing, Waiting,
           JobsShape, JobRec, Idle, NoCall, Threads
  <2>3. CallHoldsPlatform'
    BY <1>1
       DEF ProduceFrame, mergerVars, engineVars, platformVars, CallHoldsPlatform, Tearing,
           Waiting, JobsShape, JobRec, Idle, NoCall, Threads
  <2>. QED
    BY <2>1, <2>2, <2>3 DEF TornDown
<1>2. ASSUME NEW s \in Shells, OnPlatformViewCreated(s) PROVE TornDown'
  <2>1. TearingAlone'
    BY <1>2
       DEF OnPlatformViewCreated, Begin, PlatformFree, frameVars, engineVars, TearingAlone,
           Tearing, Waiting, JobsShape, JobRec, Idle, NoCall, Threads
  <2>2. TeardownPosted'
    BY <1>2
       DEF OnPlatformViewCreated, Begin, PlatformFree, frameVars, engineVars, TeardownPosted,
           Tearing, Waiting, JobsShape, JobRec, Idle, NoCall, Threads
  <2>3. CallHoldsPlatform'
    BY <1>2
       DEF OnPlatformViewCreated, Begin, PlatformFree, frameVars, engineVars, CallHoldsPlatform,
           Tearing, Waiting, JobsShape, JobRec, Idle, NoCall, Threads
  <2>. QED
    BY <2>1, <2>2, <2>3 DEF TornDown
<1>3. ASSUME NEW s \in Shells, OnPlatformViewDestroyed(s) PROVE TornDown'
  <2>1. TearingAlone'
    BY <1>3
       DEF OnPlatformViewDestroyed, Begin, PlatformFree, frameVars, engineVars, TearingAlone,
           Tearing, Waiting, JobsShape, JobRec, Idle, NoCall, Threads
  <2>2. TeardownPosted'
    BY <1>3
       DEF OnPlatformViewDestroyed, Begin, PlatformFree, frameVars, engineVars, TeardownPosted,
           Tearing, Waiting, JobsShape, JobRec, Idle, NoCall, Threads
  <2>3. CallHoldsPlatform'
    BY <1>3
       DEF OnPlatformViewDestroyed, Begin, PlatformFree, frameVars, engineVars,
           CallHoldsPlatform, Tearing, Waiting, JobsShape, JobRec, Idle, NoCall, Threads
  <2>. QED
    BY <2>1, <2>2, <2>3 DEF TornDown
<1>4. ASSUME NEW s \in Shells, DestroyLayers(s) PROVE TornDown'
  <2>1. InDraw("raster") /\ Posts(s) /\ "raster" \in Threads
    BY <1>4
       DEF DestroyLayers, At, Goes, mergerVars, frameVars, platformVars, InDraw, Posts,
           JobsShape, JobRec, Working, Painting, Threads
  <2>. QED
    BY <2>1, TornInDraw
<1>5. ASSUME NEW t \in Threads, TakeTask(t) PROVE TornDown'
  <2>1. TearingAlone'
    <3>1. /\ tasks # <<>> /\ tasks' = Tail(tasks) /\ call' = call
          /\ job' = [job EXCEPT ![t] = Start(Head(tasks))] /\ job[t] = Idle
      BY <1>5 DEF TakeTask, platformVars
    <3>2. /\ 1 \in DOMAIN tasks /\ Head(tasks) = tasks[1] /\ tasks[1] \in TaskRec
          /\ \A i \in DOMAIN tasks' : i + 1 \in DOMAIN tasks /\ tasks'[i] = tasks[i + 1] /\ i + 1 # 1
      BY <3>1 DEF TasksShape
    <3>3. job'[t].pc = tasks[1].kind /\ job'[t].shell = tasks[1].shell
      BY <3>1, <3>2 DEF JobsShape, Start, Idle
    <3>4. \A u \in Threads \ {t} : job'[u] = job[u]
      BY <3>1 DEF JobsShape
    <3>5. ASSUME Tearing(t)' PROVE TearingAlone'
      <4>1. tasks[1].kind = "teardown"
        BY <3>2, <3>3, <3>5 DEF Tearing, TaskRec
      <4>2. Waiting(tasks[1].shell) /\ \A j \in DOMAIN tasks : tasks[j].kind = "teardown" => j = 1
        BY <3>2, <4>1 DEF TeardownPosted
      <4>3. \A u \in Threads : ~Tearing(u)
        BY <3>2, <4>1 DEF TearingAlone
      <4>. QED
        BY <3>1, <3>2, <3>3, <3>4, <4>2, <4>3 DEF TearingAlone, Tearing, Waiting
    <3>6. ASSUME ~Tearing(t)' PROVE TearingAlone'
      BY <3>1, <3>2, <3>4, <3>6 DEF TearingAlone, Tearing, Waiting
    <3>. QED
      BY <3>5, <3>6
  <2>2. TeardownPosted'
    BY <1>5
       DEF TakeTask, mergerVars, frameVars, engineVars, platformVars, TeardownPosted, Tearing,
           Waiting, JobsShape, JobRec, Idle, NoCall, Threads
  <2>3. CallHoldsPlatform'
    BY <1>5
       DEF TakeTask, mergerVars, frameVars, engineVars, platformVars, CallHoldsPlatform,
           Tearing, Waiting, JobsShape, JobRec, Idle, NoCall, Threads
  <2>. QED
    BY <2>1, <2>2, <2>3 DEF TornDown
<1>6. ASSUME NEW t \in Threads, NEW s \in Shells, DrawStep(t, s), job[t].pc \in Working
      PROVE  TornDown'
  <2>1. InDraw(t) /\ Posts(s)
    BY <1>6, DrawMoves
  <2>. QED
    BY <2>1, TornInDraw
<1>7. ASSUME NEW t \in Threads, NEW s \in Shells, Setup(t, s) PROVE TornDown'
  <2>1. TearingAlone'
    BY <1>7
       DEF Setup, At, frameVars, TearingAlone, Tearing, Waiting, JobsShape, JobRec, Idle,
           NoCall, Threads
  <2>2. TeardownPosted'
    BY <1>7
       DEF Setup, At, frameVars, TeardownPosted, Tearing, Waiting, JobsShape, JobRec, Idle,
           NoCall, Threads
  <2>3. CallHoldsPlatform'
    BY <1>7
       DEF Setup, At, frameVars, CallHoldsPlatform, Tearing, Waiting, JobsShape, JobRec, Idle,
           NoCall, Threads
  <2>. QED
    BY <2>1, <2>2, <2>3 DEF TornDown
<1>8. ASSUME NEW t \in Threads, NEW s \in Shells, Teardown(t, s) PROVE TornDown'
  <2>1. call # NoCall /\ call.stage = "wait" /\ call.shell = s /\ Tearing(t)
    BY <1>8, TearingCalled DEF Teardown, At, Tearing
  <2>2. /\ tasks' = tasks /\ \A u \in Threads \ {t} : job'[u] = job[u] /\ ~Tearing(u)
        /\ \A i \in DOMAIN tasks : tasks[i].kind # "teardown"
    <3>1. tasks' = tasks /\ \A u \in Threads \ {t} : job'[u] = job[u]
      BY <1>8 DEF Teardown, Goes, JobsShape
    <3>. QED
      BY <2>1, <3>1 DEF TearingAlone
  <2>3. CASE IsMerged
    <3>1. job'[t].pc = "unmerge" /\ job'[t].shell = s /\ call'.stage = "wait" /\ call'.shell = s
      BY <1>8, <2>1, <2>3 DEF Teardown, At, Goes, JobsShape, JobRec, CallShape, CallRec
    <3>. QED
      BY <2>1, <2>2, <3>1
      DEF TearingAlone, TeardownPosted, CallHoldsPlatform, Tearing, Waiting, Threads
  <2>4. CASE ~IsMerged
    <3>1. job'[t] = Idle /\ call'.stage = "torn"
      BY <1>8, <2>1, <2>4 DEF Teardown, JobsShape, CallShape, CallRec
    <3>2. Tearing("platform") => t = "platform"
      BY <2>2 DEF Threads
    <3>3. job'["platform"] = Idle
      BY <2>1, <2>2, <3>1, <3>2 DEF CallHoldsPlatform, Threads
    <3>. QED
      BY <2>1, <2>2, <3>1, <3>3
      DEF TearingAlone, TeardownPosted, CallHoldsPlatform, Tearing, Idle
  <2>. QED
    BY <2>3, <2>4
<1>9. ASSUME NEW t \in Threads, NEW s \in Shells, UnMergeNowIfLastOne(t, s) PROVE TornDown'
  <2>. DEFINE r == [job[t] EXCEPT !.pc = "apart"]
  <2>1. call # NoCall /\ call.stage = "wait" /\ call.shell = s /\ Tearing(t) /\ tasks' = tasks
    BY <1>9, TearingCalled DEF UnMergeNowIfLastOne, At, Tearing
  <2>2. /\ \A u \in Threads \ {t} : ~Tearing(u)
        /\ \A i \in DOMAIN tasks : tasks[i].kind # "teardown"
    BY <2>1 DEF TearingAlone
  <2>3. CASE Shift(t, r) /\ call' = Shifted(t)
    <3>1. job'[t].pc = "apart" /\ job'[t].shell = s
      BY <1>9, <2>3 DEF UnMergeNowIfLastOne, At, Shift, JobsShape, JobRec
    <3>2. \A u \in Threads \ {t} : job'[u].pc = job[u].pc /\ (Draws(u) \/ job'[u] = job[u])
      BY <2>3 DEF Shift, JobsShape, JobRec
    <3>3. call'.stage = "wait" /\ call'.shell = s
      BY <2>1, <2>3 DEF Shifted, CallShape, CallRec
    <3>4. CallHoldsPlatform'
      <4>1. CASE t = "platform"
        BY <3>1, <3>3, <4>1 DEF CallHoldsPlatform, Tearing
      <4>2. CASE t # "platform"
        <5>1. job["platform"] = Idle
          BY <2>1, <2>2, <4>2 DEF CallHoldsPlatform, Threads
        <5>2. ~Draws("platform")
          BY <5>1 DEF Draws, Idle, Painting, Leaving
        <5>. QED
          BY <3>2, <3>3, <4>2, <5>1, <5>2 DEF CallHoldsPlatform, Threads
      <4>. QED
        BY <4>1, <4>2
    <3>. QED
      BY <2>1, <2>2, <3>1, <3>2, <3>3, <3>4 DEF TearingAlone, TeardownPosted, Tearing, Waiting
  <2>4. CASE job' = [job EXCEPT ![t] = Idle] /\ Signal
    BY <2>1, <2>2, <2>4, TornEnds
  <2>. QED
    BY <1>9, <2>3, <2>4 DEF UnMergeNowIfLastOne
<1>10. ASSUME NEW t \in Threads, NEW s \in Shells, UnmergeNow(t, s) PROVE TornDown'
  <2>1. Tearing(t) /\ tasks' = tasks /\ job' = [job EXCEPT ![t] = Idle] /\ Signal
    BY <1>10 DEF UnmergeNow, At, Tearing
  <2>. QED
    BY <2>1, TornEnds
<1>11. ASSUME SignalFrame PROVE TornDown'
  <2>1. job' = job /\ call' = call
    BY <1>11 DEF SignalFrame, platformVars
  <2>2. Task("draw", commit.shell) \in TaskRec /\ Task("draw", commit.shell).kind # "teardown"
    BY <1>11 DEF SignalFrame, CommitShape, Task, TaskRec
  <2>3. \A i \in DOMAIN tasks' :
           tasks'[i].kind = "teardown" => i \in DOMAIN tasks /\ tasks'[i] = tasks[i]
    BY <1>11, <2>2, TaskPosted DEF SignalFrame
  <2>. QED
    BY <2>1, <2>3 DEF TearingAlone, TeardownPosted, CallHoldsPlatform, Tearing, Waiting
<1>12. ASSUME ShouldPostSetup PROVE TornDown'
  <2>1. /\ \A t \in Threads : ~Tearing(t)
        /\ \A i \in DOMAIN tasks : tasks[i].kind # "teardown"
        /\ call # NoCall /\ job["platform"] = Idle
    BY <1>12 DEF ShouldPostSetup, TearingAlone, TeardownPosted, CallHoldsPlatform, Waiting, NoCall
  <2>2. CASE merged
    <3>0. Start(Task("setup", call.shell)).pc = "setup"
      BY DEF Start, Task, Idle
    <3>1. job'["platform"].pc = "setup" /\ job'["raster"] = job["raster"]
      BY <1>12, <2>2, <3>0 DEF ShouldPostSetup, JobsShape, Threads
    <3>2. call'.stage = "setup" /\ tasks' = tasks
      BY <1>12, <2>1, <2>2 DEF ShouldPostSetup, CallShape, CallRec
    <3>. QED
      BY <2>1, <3>1, <3>2 DEF TearingAlone, TeardownPosted, CallHoldsPlatform, Tearing, Threads
  <2>3. CASE ~merged
    <3>1. job' = job /\ tasks' = tasks /\ call'.stage = "post"
      BY <1>12, <2>1, <2>3 DEF ShouldPostSetup, CallShape, CallRec
    <3>. QED
      BY <2>1, <3>1 DEF TearingAlone, TeardownPosted, CallHoldsPlatform, Tearing
  <2>. QED
    BY <2>2, <2>3
<1>13. ASSUME IoPostsSetup PROVE TornDown'
  <2>1. job' = job /\ call' = NoCall /\ call.stage = "post"
    BY <1>13 DEF IoPostsSetup
  <2>2. Task("setup", call.shell) \in TaskRec /\ Task("setup", call.shell).kind # "teardown"
    BY <1>13 DEF IoPostsSetup, CallShape, CallRec, NoCall, Task, TaskRec
  <2>3. \A i \in DOMAIN tasks' :
           tasks'[i].kind = "teardown" => i \in DOMAIN tasks /\ tasks'[i] = tasks[i]
    BY <1>13, <2>2, TaskPosted DEF IoPostsSetup
  <2>. QED
    BY <2>1, <2>3 DEF TearingAlone, TeardownPosted, CallHoldsPlatform, Tearing, Waiting
<1>14. ASSUME RunNowOrPostTeardown PROVE TornDown'
  <2>1. /\ \A t \in Threads : ~Tearing(t)
        /\ \A i \in DOMAIN tasks : tasks[i].kind # "teardown"
        /\ call # NoCall /\ job["platform"] = Idle
    BY <1>14 DEF RunNowOrPostTeardown, TearingAlone, TeardownPosted, CallHoldsPlatform, Waiting, NoCall
  <2>2. call'.stage = "wait" /\ call'.shell = call.shell
    BY <1>14, <2>1 DEF RunNowOrPostTeardown, CallShape, CallRec
  <2>3. CASE merged
    <3>1. /\ job'["platform"].pc = "teardown" /\ job'["platform"].shell = call.shell
          /\ job'["raster"] = job["raster"] /\ tasks' = tasks
      BY <1>14, <2>3 DEF RunNowOrPostTeardown, Start, Task, Idle, JobsShape, Threads
    <3>. QED
      BY <2>1, <2>2, <3>1
      DEF TearingAlone, TeardownPosted, CallHoldsPlatform, Tearing, Waiting, Threads
  <2>4. CASE ~merged
    <3>1. job' = job /\ tasks' = Append(tasks, Task("teardown", call.shell))
      BY <1>14, <2>4 DEF RunNowOrPostTeardown
    <3>2. Task("teardown", call.shell) \in TaskRec /\ Task("teardown", call.shell).shell = call.shell
      BY <2>1 DEF CallShape, CallRec, Task, TaskRec
    <3>3. /\ DOMAIN tasks' = 1..(Len(tasks) + 1) /\ DOMAIN tasks = 1..Len(tasks)
          /\ tasks'[Len(tasks) + 1] = Task("teardown", call.shell) /\ Len(tasks) \in Nat
          /\ \A i \in 1..Len(tasks) : tasks'[i] = tasks[i]
      BY <3>1, <3>2, AppendedLast DEF TasksShape
    <3>4. \A i \in DOMAIN tasks' : tasks'[i].kind = "teardown" => i = Len(tasks) + 1
      BY <2>1, <3>3
    <3>5. TearingAlone' /\ CallHoldsPlatform'
      BY <2>1, <2>2, <3>1 DEF TearingAlone, CallHoldsPlatform, Tearing, Waiting
    <3>6. TeardownPosted'
      BY <2>2, <3>2, <3>3, <3>4 DEF TeardownPosted, Waiting
    <3>. QED
      BY <3>5, <3>6
  <2>. QED
    BY <2>3, <2>4
<1>15. ASSUME TeardownExternalViewEmbedder PROVE TornDown'
  <2>1. TearingAlone'
    BY <1>15
       DEF TeardownExternalViewEmbedder, mergerVars, frameVars, TearingAlone, Tearing, Waiting,
           JobsShape, JobRec, Idle, NoCall, Threads
  <2>2. TeardownPosted'
    BY <1>15
       DEF TeardownExternalViewEmbedder, mergerVars, frameVars, TeardownPosted, Tearing,
           Waiting, JobsShape, JobRec, Idle, NoCall, Threads
  <2>3. CallHoldsPlatform'
    BY <1>15
       DEF TeardownExternalViewEmbedder, mergerVars, frameVars, CallHoldsPlatform, Tearing,
           Waiting, JobsShape, JobRec, Idle, NoCall, Threads
  <2>. QED
    BY <2>1, <2>2, <2>3 DEF TornDown
<1>. QED
  BY <1>1, <1>2, <1>3, <1>4, <1>5, <1>6, <1>7, <1>8, <1>9, <1>10, <1>11, <1>12, <1>13, <1>14,
     <1>15, NotInDraw
     DEF RasterNext, ThreadStep, CallStep

-----------------------------------------------------------------------------
(* Places in the pipelines *)

\* No shell comes to hold a place by a step that leaves the pipelines alone.
LEMMA PlacesSame ==
    ASSUME FramesShape, PlacesKept, frames' = frames,
           \A t \in Threads, s \in Shells : Holds(t, s)' => Holds(t, s)
    PROVE  PlacesKept'
<1>. SUFFICES ASSUME NEW s \in Shells PROVE Places(s)' >= 0
  BY DEF PlacesKept
<1>1. /\ One(Holds("raster", s)') <= One(Holds("raster", s))
      /\ One(Holds("platform", s)') <= One(Holds("platform", s))
  BY DEF One, Threads
<1>2. /\ Drawing(s) = One(Holds("raster", s)) + One(Holds("platform", s))
      /\ Drawing(s)' = One(Holds("raster", s)') + One(Holds("platform", s)')
  BY DrawingIsSum
<1>3. \A b \in BOOLEAN : One(b) \in Int
  BY DEF One
<1>4. Drawing(s)' <= Drawing(s) /\ Drawing(s) \in Int /\ Drawing(s)' \in Int
  BY <1>1, <1>2, <1>3 DEF One
<1>5. Len(frames[s]) \in Nat /\ Places(s) >= 0
  BY DEF FramesShape, PlacesKept
<1>. QED
  BY <1>4, <1>5, RasterAssumption DEF Places

\* A Draw takes a place with its frame only, and returns one only if there is room.
LEMMA PlacesInDraw ==
    ASSUME RasterShape, PlacesKept, NEW t \in Threads, NEW s \in Shells,
           DrawStep(t, s), job[t].pc \in Working
    PROVE  PlacesKept'
<1>1. InDraw(t) /\ JobsShape /\ FramesShape
  BY DrawMoves DEF RasterShape
<1>2. CASE Consume(t, s, TRUE) \/ Consume(t, s, FALSE)
  <2>1. /\ Available(s) > 0 /\ frames' = [frames EXCEPT ![s] = Tail(frames[s])]
        /\ job[t].pc = "draw" /\ job[t].shell = s
    BY <1>2 DEF Consume, At
  <2>2. /\ Len(frames[s]) \in Nat /\ Len(frames'[s]) = Len(frames[s]) - 1
    BY <1>1, <2>1, FrameWaits, EmptySeq, HeadTailProperties DEF FramesShape
  <2>. SUFFICES ASSUME NEW x \in Shells PROVE Places(x)' >= 0
    BY DEF PlacesKept
  <2>3. \A u \in Threads \ {t} : Holds(u, x)' => Holds(u, x)
    BY <1>1 DEF InDraw, Holds, Draws
  <2>4. Holds(t, x)' => x = s
    BY <1>1, <2>1 DEF InDraw, Holds, Draws, Painting, Leaving
  <2>5. /\ Drawing(x) = One(Holds("raster", x)) + One(Holds("platform", x))
        /\ Drawing(x)' = One(Holds("raster", x)') + One(Holds("platform", x)')
    BY DrawingIsSum
  <2>6. ~Holds(t, x)
    BY <2>1 DEF Holds, Draws, Painting, Leaving
  <2>7. /\ Drawing(x)' <= Drawing(x) + One(x = s)
        /\ Drawing(x) \in Int /\ Drawing(x)' \in Int
    <3>1. One(Holds(t, x)') <= One(x = s) /\ One(Holds(t, x)) = 0
      BY <2>4, <2>6 DEF One
    <3>2. \A u \in Threads \ {t} : One(Holds(u, x)') <= One(Holds(u, x))
      BY <2>3 DEF One
    <3>3. CASE t = "raster"
      BY <2>5, <3>1, <3>2, <3>3 DEF One, Threads
    <3>4. CASE t = "platform"
      BY <2>5, <3>1, <3>2, <3>4 DEF One, Threads
    <3>. QED
      BY <3>3, <3>4 DEF Threads
  <2>8. Places(x) >= 0 /\ Len(frames[x]) \in Nat
    BY <1>1 DEF PlacesKept, FramesShape
  <2>9. CASE x = s
    BY <2>2, <2>7, <2>8, <2>9, RasterAssumption DEF Places, One
  <2>10. CASE x # s
    <3>1. frames'[x] = frames[x]
      BY <1>1, <2>1, <2>10 DEF FramesShape
    <3>. QED
      BY <2>7, <2>8, <2>10, <3>1, RasterAssumption DEF Places, One
  <2>. QED
    BY <2>9, <2>10
<1>3. CASE LeaveFrame(t, s) \/ FinishDraw(t, s) \/ PostAgain(t, s)
  <2>1. job'[t].pc \in {"idle", "signal"}
    BY <1>1, <1>3
       DEF LeaveFrame, FinishDraw, PostAgain, At, PushBack, EndDraw, Goes, JobsShape, JobRec, Idle
  <2>2. \A u \in Threads, x \in Shells : Holds(u, x)' => Holds(u, x)
    BY <1>1, <2>1 DEF InDraw, Holds, Draws, Painting, Leaving
  <2>3. CASE frames' = frames
    BY <1>1, <2>2, <2>3, PlacesSame
  <2>4. CASE /\ Places(s) > 0 /\ job[t].pc = "finish" /\ job[t].layers \in BOOLEAN
             /\ frames' = [frames EXCEPT ![s] = <<job[t].layers>> \o frames[s]]
    <3>. SUFFICES ASSUME NEW x \in Shells PROVE Places(x)' >= 0
      BY DEF PlacesKept
    <3>1. /\ Drawing(x) = One(Holds("raster", x)) + One(Holds("platform", x))
          /\ Drawing(x)' = One(Holds("raster", x)') + One(Holds("platform", x)')
      BY DrawingIsSum
    <3>2. Drawing(x)' <= Drawing(x) /\ Drawing(x) \in Int /\ Drawing(x)' \in Int
      BY <2>2, <3>1 DEF One, Threads
    <3>3. Places(x) >= 0 /\ Len(frames[x]) \in Nat /\ frames[x] \in Seq(BOOLEAN)
      BY <1>1 DEF PlacesKept, FramesShape
    <3>4. CASE x = s
      <4>1. frames'[s] = <<job[t].layers>> \o frames[s] /\ frames[s] \in Seq(BOOLEAN)
        BY <1>1, <2>4 DEF FramesShape
      <4>2. Len(frames'[s]) = Len(frames[s]) + 1
        BY <2>4, <4>1
      <4>. QED
        BY <2>4, <3>2, <3>3, <3>4, <4>2, RasterAssumption DEF Places
    <3>5. CASE x # s
      <4>1. frames'[x] = frames[x]
        BY <1>1, <2>4, <3>5 DEF FramesShape
      <4>. QED
        BY <3>2, <3>3, <4>1, RasterAssumption DEF Places
    <3>. QED
      BY <3>4, <3>5
  <2>5. CASE FinishDraw(t, s)
    <3>1. job[t].pc = "finish" /\ job[t].layers \in BOOLEAN
      BY <1>1, <2>5 DEF FinishDraw, At, JobsShape, JobRec
    <3>2. \/ frames' = frames
          \/ /\ Places(s) > 0 \/ Places(s) > 1
             /\ frames' = [frames EXCEPT ![s] = <<job[t].layers>> \o frames[s]]
      BY <2>5 DEF FinishDraw, PushBack, EndDraw
    <3>3. Places(s) \in Int
      <4>1. Drawing(s) = One(Holds("raster", s)) + One(Holds("platform", s))
        BY DrawingIsSum
      <4>2. Drawing(s) \in Int /\ Len(frames[s]) \in Nat
        BY <1>1, <4>1 DEF One, FramesShape
      <4>. QED
        BY <4>2, RasterAssumption DEF Places
    <3>4. Places(s) > 1 => Places(s) > 0
      BY <3>3
    <3>. QED
      BY <2>3, <2>4, <3>1, <3>2, <3>4
  <2>. QED
    BY <1>3, <2>3, <2>5 DEF LeaveFrame, PostAgain, EndDraw
<1>4. CASE frames' = frames /\ job[t].pc \notin {"draw", "finish", "signal"}
  <2>1. \A u \in Threads, x \in Shells : Holds(u, x)' => Holds(u, x)
    BY <1>1, <1>4 DEF InDraw, Holds, Draws, Working, Painting, Leaving
  <2>. QED
    BY <1>1, <1>4, <2>1, PlacesSame
<1>. QED
  BY <1>2, <1>3, <1>4, NotInDraw
     DEF DrawStep, At, frameVars, Working, Painting, Leaving, PostPrerollAction, MergeIfEnabled,
         MergeQueues, SaveLease, ExtendLeaseTo, SubmitFlutterView, DecrementIfMerged,
         DecrementLease, Unmerge, Setup, Teardown, UnMergeNowIfLastOne, UnmergeNow

\* No step overfills a pipeline.
LEMMA PlacesKeep ==
    ASSUME RasterShape, TornDown, PlacesKept, RasterNext PROVE PlacesKept'
<1>. USE DEF RasterShape
<1>1. ASSUME NEW s \in Shells, NEW layers \in BOOLEAN, ProduceFrame(s, layers) PROVE PlacesKept'
  <2>. SUFFICES ASSUME NEW x \in Shells PROVE Places(x)' >= 0
    BY DEF PlacesKept
  <2>1. job' = job /\ frames' = [frames EXCEPT ![s] = Append(frames[s], layers)] /\ Places(s) > 0
    BY <1>1 DEF ProduceFrame
  <2>2. Drawing(x)' = Drawing(x) /\ Drawing(x) \in Int
    <3>1. Drawing(x)' = Drawing(x)
      BY <2>1 DEF Drawing, Draws
    <3>2. Drawing(x) = One(Holds("raster", x)) + One(Holds("platform", x))
      BY DrawingIsSum
    <3>. QED
      BY <3>1, <3>2 DEF One
  <2>3. CASE x = s
    <3>1. Len(frames'[s]) = Len(frames[s]) + 1 /\ Len(frames[s]) \in Nat
      BY <2>1 DEF FramesShape
    <3>. QED
      BY <2>1, <2>2, <2>3, <3>1, RasterAssumption DEF Places
  <2>4. CASE x # s
    BY <2>1, <2>2, <2>4 DEF Places, PlacesKept, FramesShape
  <2>. QED
    BY <2>3, <2>4
<1>2. ASSUME NEW s \in Shells, OnPlatformViewCreated(s) PROVE PlacesKept'
  <2>1. frames' = frames
    BY <1>2 DEF OnPlatformViewCreated, Begin, PlatformFree, frameVars, engineVars
  <2>2. \A u \in Threads : Draws(u)' => Draws(u) /\ job'[u].pc = job[u].pc /\ job'[u].shell = job[u].shell
    BY <1>2
       DEF OnPlatformViewCreated, Begin, PlatformFree, frameVars, engineVars, JobsShape, JobRec,
           Draws, Painting, Leaving, Idle, Threads
  <2>. QED
    BY <2>1, <2>2, PlacesSame DEF Holds
<1>3. ASSUME NEW s \in Shells, OnPlatformViewDestroyed(s) PROVE PlacesKept'
  <2>1. frames' = frames
    BY <1>3 DEF OnPlatformViewDestroyed, Begin, PlatformFree, frameVars, engineVars
  <2>2. \A u \in Threads : Draws(u)' => Draws(u) /\ job'[u].pc = job[u].pc /\ job'[u].shell = job[u].shell
    BY <1>3
       DEF OnPlatformViewDestroyed, Begin, PlatformFree, frameVars, engineVars, JobsShape,
           JobRec, Draws, Painting, Leaving, Idle, Threads
  <2>. QED
    BY <2>1, <2>2, PlacesSame DEF Holds
<1>4. ASSUME NEW s \in Shells, DestroyLayers(s) PROVE PlacesKept'
  <2>1. frames' = frames /\ job["raster"].pc = "layers"
    BY <1>4 DEF DestroyLayers, At, frameVars
  <2>2. /\ job'["raster"].pc = "preroll" /\ job'["raster"].shell = job["raster"].shell
        /\ job'["platform"] = job["platform"]
    BY <1>4 DEF DestroyLayers, At, Goes, JobsShape, JobRec, Threads
  <2>3. \A u \in Threads, x \in Shells : Holds(u, x)' => Holds(u, x)
    BY <2>1, <2>2 DEF Holds, Draws, Painting, Leaving, Threads
  <2>. QED
    BY <2>1, <2>3, PlacesSame
<1>5. ASSUME NEW t \in Threads, TakeTask(t) PROVE PlacesKept'
  <2>1. frames' = frames /\ Head(tasks) \in TaskRec
    BY <1>5 DEF TakeTask, frameVars, TasksShape
  <2>2. job'[t].pc = Head(tasks).kind /\ \A u \in Threads \ {t} : job'[u] = job[u]
    BY <1>5 DEF TakeTask, Start, Idle, JobsShape
  <2>3. \A u \in Threads, x \in Shells : Holds(u, x)' => Holds(u, x)
    BY <2>1, <2>2 DEF Holds, Draws, Painting, Leaving, TaskRec
  <2>. QED
    BY <2>1, <2>3, PlacesSame
<1>6. ASSUME NEW t \in Threads, NEW s \in Shells, DrawStep(t, s), job[t].pc \in Working
      PROVE  PlacesKept'
  BY <1>6, PlacesInDraw
<1>7. ASSUME NEW t \in Threads, NEW s \in Shells, Setup(t, s) PROVE PlacesKept'
  <2>1. frames' = frames
    BY <1>7 DEF Setup, At, frameVars
  <2>2. \A u \in Threads : Draws(u)' => Draws(u) /\ job'[u].pc = job[u].pc /\ job'[u].shell = job[u].shell
    BY <1>7 DEF Setup, At, frameVars, JobsShape, JobRec, Draws, Painting, Leaving, Idle, Threads
  <2>. QED
    BY <2>1, <2>2, PlacesSame DEF Holds
<1>8. ASSUME NEW t \in Threads, NEW s \in Shells, Teardown(t, s) PROVE PlacesKept'
  <2>1. frames' = frames
    BY <1>8 DEF Teardown, At, Goes, frameVars
  <2>2. \A u \in Threads : Draws(u)' => Draws(u) /\ job'[u].pc = job[u].pc /\ job'[u].shell = job[u].shell
    BY <1>8
       DEF Teardown, At, Goes, frameVars, JobsShape, JobRec, Draws, Painting, Leaving, Idle,
           Threads
  <2>. QED
    BY <2>1, <2>2, PlacesSame DEF Holds
<1>9. ASSUME NEW t \in Threads, NEW s \in Shells, UnMergeNowIfLastOne(t, s) PROVE PlacesKept'
  <2>1. frames' = frames
    BY <1>9 DEF UnMergeNowIfLastOne, frameVars
  <2>2. /\ job'[t].pc \in {"apart", "idle"}
        /\ \A u \in Threads \ {t} : job'[u].pc = job[u].pc /\ job'[u].shell = job[u].shell
    <3>. DEFINE r == [job[t] EXCEPT !.pc = "apart"]
    <3>1. r.pc = "apart" /\ r \in [pc : {"apart"}, shell : Shells \cup {NoShell},
                                   layers : BOOLEAN, more : BOOLEAN, retry : BOOLEAN,
                                   config : {"same", "own", "other"}]
      BY DEF JobsShape, JobRec
    <3>2. Shift(t, r) \/ job' = [job EXCEPT ![t] = Idle]
      BY <1>9 DEF UnMergeNowIfLastOne
    <3>. HIDE DEF r
    <3>3. CASE Shift(t, r)
      BY <3>1, <3>3 DEF Shift, JobsShape, JobRec
    <3>4. CASE job' = [job EXCEPT ![t] = Idle]
      BY <3>4 DEF JobsShape, Idle
    <3>. QED
      BY <3>2, <3>3, <3>4
  <2>3. \A u \in Threads, x \in Shells : Holds(u, x)' => Holds(u, x)
    BY <2>2 DEF Holds, Draws, Painting, Leaving
  <2>. QED
    BY <2>1, <2>3, PlacesSame
<1>10. ASSUME NEW t \in Threads, NEW s \in Shells, UnmergeNow(t, s) PROVE PlacesKept'
  <2>1. frames' = frames
    BY <1>10 DEF UnmergeNow, At, Signal, frameVars, engineVars
  <2>2. \A u \in Threads : Draws(u)' => Draws(u) /\ job'[u].pc = job[u].pc /\ job'[u].shell = job[u].shell
    BY <1>10
       DEF UnmergeNow, At, Signal, frameVars, engineVars, JobsShape, JobRec, Draws, Painting,
           Leaving, Idle, Threads
  <2>. QED
    BY <2>1, <2>2, PlacesSame DEF Holds
<1>11. ASSUME SignalFrame PROVE PlacesKept'
  <2>1. frames' = frames
    BY <1>11 DEF SignalFrame, mergerVars, engineVars, platformVars
  <2>2. \A u \in Threads : Draws(u)' => Draws(u) /\ job'[u].pc = job[u].pc /\ job'[u].shell = job[u].shell
    BY <1>11
       DEF SignalFrame, mergerVars, engineVars, platformVars, JobsShape, JobRec, Draws,
           Painting, Leaving, Idle, Threads
  <2>. QED
    BY <2>1, <2>2, PlacesSame DEF Holds
<1>12. ASSUME ShouldPostSetup PROVE PlacesKept'
  <2>0. Start(Task("setup", call.shell)).pc = "setup"
    BY DEF Start, Task, Idle
  <2>1. frames' = frames
    BY <1>12 DEF ShouldPostSetup, frameVars
  <2>2. \A u \in Threads : job'[u] = job[u] \/ job'[u].pc = "setup"
    BY <1>12, <2>0 DEF ShouldPostSetup, JobsShape, Threads
  <2>3. \A u \in Threads, x \in Shells : Holds(u, x)' => Holds(u, x)
    BY <2>2 DEF Holds, Draws, Painting, Leaving
  <2>. QED
    BY <2>1, <2>3, PlacesSame
<1>13. ASSUME IoPostsSetup PROVE PlacesKept'
  <2>1. frames' = frames
    BY <1>13 DEF IoPostsSetup, mergerVars, frameVars, engineVars
  <2>2. \A u \in Threads : Draws(u)' => Draws(u) /\ job'[u].pc = job[u].pc /\ job'[u].shell = job[u].shell
    BY <1>13
       DEF IoPostsSetup, mergerVars, frameVars, engineVars, JobsShape, JobRec, Draws, Painting,
           Leaving, Idle, Threads
  <2>. QED
    BY <2>1, <2>2, PlacesSame DEF Holds
<1>14. ASSUME RunNowOrPostTeardown PROVE PlacesKept'
  <2>0. Start(Task("teardown", call.shell)).pc = "teardown"
    BY DEF Start, Task, Idle
  <2>1. frames' = frames
    BY <1>14 DEF RunNowOrPostTeardown, frameVars
  <2>2. \A u \in Threads : job'[u] = job[u] \/ job'[u].pc = "teardown"
    BY <1>14, <2>0 DEF RunNowOrPostTeardown, JobsShape, Threads
  <2>3. \A u \in Threads, x \in Shells : Holds(u, x)' => Holds(u, x)
    BY <2>2 DEF Holds, Draws, Painting, Leaving
  <2>. QED
    BY <2>1, <2>3, PlacesSame
<1>15. ASSUME TeardownExternalViewEmbedder PROVE PlacesKept'
  <2>1. frames' = frames
    BY <1>15 DEF TeardownExternalViewEmbedder, mergerVars, frameVars
  <2>2. \A u \in Threads : Draws(u)' => Draws(u) /\ job'[u].pc = job[u].pc /\ job'[u].shell = job[u].shell
    BY <1>15
       DEF TeardownExternalViewEmbedder, mergerVars, frameVars, JobsShape, JobRec, Draws,
           Painting, Leaving, Idle, Threads
  <2>. QED
    BY <2>1, <2>2, PlacesSame DEF Holds
<1>. QED
  BY <1>1, <1>2, <1>3, <1>4, <1>5, <1>6, <1>7, <1>8, <1>9, <1>10, <1>11, <1>12, <1>13, <1>14,
     <1>15, NotInDraw
     DEF RasterNext, ThreadStep, CallStep

-----------------------------------------------------------------------------
(* Leases and queues *)

\* No step follows an abort (FML_CHECK).
LEMMA NothingAfterAbort == RasterNext => ~aborted
<1>1. ASSUME NEW t \in Threads, NEW s \in Shells, DrawStep(t, s) PROVE ~aborted
  BY <1>1
     DEF DrawStep, At, LeaveFrame, Consume, PostPrerollAction, MergeIfEnabled, MergeQueues,
         SaveLease, ExtendLeaseTo, SubmitFlutterView, DecrementIfMerged, DecrementLease,
         Unmerge, FinishDraw, PostAgain, Setup, Teardown, UnMergeNowIfLastOne, UnmergeNow
<1>. QED
  BY <1>1
     DEF RasterNext, ThreadStep, CallStep, PlatformFree, Begin, ProduceFrame,
         OnPlatformViewCreated, OnPlatformViewDestroyed, DestroyLayers, TakeTask, SignalFrame,
         ShouldPostSetup, IoPostsSetup, RunNowOrPostTeardown, TeardownExternalViewEmbedder

\* IsMergedUnSafe is the negation of IsAllLeaseTermsZeroUnSafe.
LEMMA SomeLease ==
    ASSUME NEW l, \A s \in DOMAIN l : l[s] \in 0..MaxLease
    PROVE  (\E s \in DOMAIN l : l[s] > 0) <=> ~AllZero(l)
  BY DEF AllZero

\* What a step does to the leases: a lease given merges the callers
\* (SharedThreadMerger::RecordLeaseTerm), a lease that is not the last one ends
\* without parting them, and the end of the last one parts them.
LEMMA LeaseGiven ==
    ASSUME LeaseShape, NEW s \in Shells, lease' = WithLease(s, MaxLease) PROVE IsMerged'
  BY RasterAssumption DEF IsMerged, WithLease
LEMMA LeaseEnds ==
    ASSUME LeaseShape, LeaseShape' PROVE IsMerged' <=> ~AllZero(lease')
  BY SomeLease DEF LeaseShape, IsMerged
LEMMA LeaseDropped ==
    ASSUME LeaseShape, NEW s, lease' = WithoutLease(s), ~AllZero(WithoutLease(s)), LeaseShape'
    PROVE  IsMerged /\ IsMerged'
<1>1. IsMerged'
  BY LeaseEnds
<1>. QED
  BY <1>1 DEF IsMerged, WithoutLease
LEMMA LeaseSpent ==
    ASSUME LeaseShape, LeaseShape', NEW s, ~AllZero(lease'),
           lease' = IF s \in DOMAIN lease /\ lease[s] > 0
                    THEN [lease EXCEPT ![s] = @ - 1] ELSE lease
    PROVE  IsMerged /\ IsMerged'
<1>1. IsMerged'
  BY LeaseEnds
<1>2. \A x \in DOMAIN lease' : x \in DOMAIN lease /\ lease'[x] <= lease[x]
  BY DEF LeaseShape
<1>. QED
  BY <1>1, <1>2 DEF IsMerged, LeaseShape

\* A step that leaves the merger alone keeps the agreement if no thread comes to hold
\* the shared mutex, or leaves it.
HasMutex(t) == job[t].pc \in SharedHeld
LEMMA MergerSame ==
    ASSUME MergeInv, ~aborted, UNCHANGED <<lease, merged, strayed>>,
           \A t \in Threads : HasMutex(t) \/ HasMutex(t)' => job'[t].pc = job[t].pc
    PROVE  MergeInv'
<1>1. \A t \in Threads : HasMutex(t)' => HasMutex(t)
  BY DEF HasMutex
<1>2. OneHolds'
  BY <1>1 DEF MergeInv, OneHolds, HasMutex
<1>3. IsMerged' = IsMerged
  BY DEF IsMerged
<1>4. SharedFree' = SharedFree
  BY DEF SharedFree, HasMutex
<1>5. \A t \in Threads : job'[t].pc = "record" => job[t].pc = "record"
  BY DEF HasMutex, SharedHeld
<1>6. \A t \in Threads : job'[t].pc \in SharedHeld => job[t].pc \in SharedHeld
  BY <1>1 DEF HasMutex
<1>. QED
  BY <1>2, <1>3, <1>4, <1>5, <1>6 DEF MergeInv, Agreement

\* One thread comes to hold the shared mutex when nobody does.
LEMMA MutexTaken ==
    ASSUME SharedFree, NEW t \in Threads, \A u \in Threads \ {t} : job'[u].pc = job[u].pc
    PROVE  OneHolds' /\ \A u \in Threads : HasMutex(u)' => u = t
  BY DEF SharedFree, OneHolds, HasMutex

\* The one that holds it lets it go.
LEMMA MutexLeft ==
    ASSUME OneHolds, NEW t \in Threads, HasMutex(t), ~HasMutex(t)',
           \A u \in Threads \ {t} : job'[u].pc = job[u].pc
    PROVE  OneHolds' /\ SharedFree' /\ \A u \in Threads : ~HasMutex(u)'
  BY DEF SharedFree, OneHolds, HasMutex

\* With the mutex free, leases and queues agree or have strayed; else none is left.
LEMMA AgreeFree ==
    ASSUME OneHolds', SharedFree', ~aborted' /\ strayed' => ~merged' /\ IsMerged',
           ~aborted' /\ ~strayed' => (merged' <=> IsMerged'), FlagShape'
    PROVE  MergeInv'
<1>1. \A t \in Threads : job'[t].pc \notin SharedHeld /\ job'[t].pc # "record"
  BY DEF SharedFree, SharedHeld
<1>2. merged' \in BOOLEAN /\ IsMerged' \in BOOLEAN
  BY DEF FlagShape, IsMerged
<1>3. ~aborted' /\ ~strayed' => merged' = IsMerged'
  BY <1>2
<1>. QED
  BY <1>1, <1>3 DEF MergeInv, Agreement
LEMMA AgreeHeld ==
    ASSUME OneHolds', NEW t \in Threads, HasMutex(t)', \A u \in Threads : HasMutex(u)' => u = t,
           ~IsMerged', job'[t].pc = "record" => merged' /\ ~strayed', strayed' => ~merged'
    PROVE  MergeInv'
<1>1. ~SharedFree'
  BY DEF HasMutex, SharedFree
<1>2. \A u \in Threads : job'[u].pc = "record" => merged' /\ ~strayed'
  BY DEF HasMutex, SharedHeld
<1>. QED
  BY <1>1, <1>2 DEF MergeInv, Agreement

\* Where the shared mutex plays no part in a Draw.
LEMMA MergerInDraw ==
    ASSUME MergeInv, ~aborted, UNCHANGED <<lease, merged, strayed>>, NEW t \in Threads,
           InDraw(t), ~HasMutex(t), ~HasMutex(t)'
    PROVE  MergeInv'
<1>1. \A u \in Threads : HasMutex(u) \/ HasMutex(u)' => job'[u].pc = job[u].pc
  BY DEF InDraw, HasMutex
<1>. QED
  BY <1>1, MergerSame

\* Every step keeps the agreement of leases and queues.
LEMMA MergeKeeps ==
    ASSUME RasterShape, RasterShape', TornDown, MergeInv, RasterNext PROVE MergeInv'
<1>. USE DEF RasterShape, TornDown
<1>0. ~aborted
  BY NothingAfterAbort
<1>1. ASSUME NEW s \in Shells, NEW layers \in BOOLEAN, ProduceFrame(s, layers) PROVE MergeInv'
  <2>1. UNCHANGED <<lease, merged, strayed>>
    BY <1>1 DEF ProduceFrame, mergerVars, engineVars, platformVars
  <2>2. \A u \in Threads : HasMutex(u) \/ HasMutex(u)' => job'[u].pc = job[u].pc
    BY <1>1
       DEF ProduceFrame, mergerVars, engineVars, platformVars, HasMutex, SharedHeld, JobsShape,
           JobRec, Idle, Threads
  <2>. QED
    BY <1>0, <2>1, <2>2, MergerSame
<1>2. ASSUME NEW s \in Shells, OnPlatformViewCreated(s) PROVE MergeInv'
  <2>1. UNCHANGED <<lease, merged, strayed>>
    BY <1>2 DEF OnPlatformViewCreated, Begin, PlatformFree, frameVars, engineVars, mergerVars
  <2>2. \A u \in Threads : HasMutex(u) \/ HasMutex(u)' => job'[u].pc = job[u].pc
    BY <1>2
       DEF OnPlatformViewCreated, Begin, PlatformFree, frameVars, engineVars, HasMutex, SharedHeld,
           JobsShape, JobRec, Idle, Threads
  <2>. QED
    BY <1>0, <2>1, <2>2, MergerSame
<1>3. ASSUME NEW s \in Shells, OnPlatformViewDestroyed(s) PROVE MergeInv'
  <2>1. UNCHANGED <<lease, merged, strayed>>
    BY <1>3 DEF OnPlatformViewDestroyed, Begin, PlatformFree, frameVars, engineVars, mergerVars
  <2>2. \A u \in Threads : HasMutex(u) \/ HasMutex(u)' => job'[u].pc = job[u].pc
    BY <1>3
       DEF OnPlatformViewDestroyed, Begin, PlatformFree, frameVars, engineVars, HasMutex,
           SharedHeld, JobsShape, JobRec, Idle, Threads
  <2>. QED
    BY <1>0, <2>1, <2>2, MergerSame
<1>4. ASSUME NEW s \in Shells, DestroyLayers(s) PROVE MergeInv'
  <2>1. UNCHANGED <<lease, merged, strayed>>
    BY <1>4 DEF DestroyLayers, At, Goes, mergerVars, frameVars, platformVars
  <2>2. \A u \in Threads : HasMutex(u) \/ HasMutex(u)' => job'[u].pc = job[u].pc
    BY <1>4
       DEF DestroyLayers, At, Goes, mergerVars, frameVars, platformVars, HasMutex, SharedHeld,
           JobsShape, JobRec, Idle, Threads
  <2>. QED
    BY <1>0, <2>1, <2>2, MergerSame
<1>5. ASSUME NEW t \in Threads, TakeTask(t) PROVE MergeInv'
  <2>1. UNCHANGED <<lease, merged, strayed>> /\ Head(tasks) \in TaskRec /\ job[t] = Idle
    BY <1>5 DEF TakeTask, mergerVars, TasksShape
  <2>2. job'[t].pc = Head(tasks).kind /\ \A u \in Threads \ {t} : job'[u] = job[u]
    BY <1>5 DEF TakeTask, Start, Idle, JobsShape
  <2>3. \A u \in Threads : HasMutex(u) \/ HasMutex(u)' => job'[u].pc = job[u].pc
    BY <2>1, <2>2 DEF HasMutex, SharedHeld, TaskRec, Idle
  <2>. QED
    BY <1>0, <2>1, <2>3, MergerSame
<1>6. ASSUME NEW t \in Threads, NEW s \in Shells, LeaveFrame(t, s) PROVE MergeInv'
  <2>1. UNCHANGED <<lease, merged, strayed>>
    BY <1>6 DEF LeaveFrame, At, mergerVars, engineVars, platformVars
  <2>2. ~HasMutex(t) /\ ~HasMutex(t)'
    BY <1>6
       DEF LeaveFrame, At, mergerVars, engineVars, platformVars, HasMutex, SharedHeld, JobsShape,
           JobRec, Idle
  <2>3. DrawStep(t, s) /\ job[t].pc \in Working
    BY <1>6 DEF DrawStep, LeaveFrame, At, Working, Painting, Leaving
  <2>4. InDraw(t)
    BY <2>3, DrawMoves
  <2>. QED
    BY <1>0, <2>1, <2>2, <2>4, MergerInDraw
<1>7. ASSUME NEW t \in Threads, NEW s \in Shells, NEW resized \in BOOLEAN, Consume(t, s, resized)
      PROVE  MergeInv'
  <2>1. UNCHANGED <<lease, merged, strayed>>
    BY <1>7 DEF Consume, At, mergerVars, platformVars
  <2>2. ~HasMutex(t) /\ ~HasMutex(t)'
    BY <1>7 DEF Consume, At, mergerVars, platformVars, HasMutex, SharedHeld, JobsShape, JobRec, Idle
  <2>3. DrawStep(t, s) /\ job[t].pc \in Working
    BY <1>7 DEF DrawStep, Consume, At, Working, Painting, Leaving
  <2>4. InDraw(t)
    BY <2>3, DrawMoves
  <2>. QED
    BY <1>0, <2>1, <2>2, <2>4, MergerInDraw
<1>8. ASSUME NEW t \in Threads, NEW s \in Shells, PostPrerollAction(t, s) PROVE MergeInv'
  <2>1. UNCHANGED <<lease, merged, strayed>>
    BY <1>8 DEF PostPrerollAction, At, Goes, mergerVars, frameVars, platformVars
  <2>2. ~HasMutex(t) /\ ~HasMutex(t)'
    BY <1>8
       DEF PostPrerollAction, At, Goes, mergerVars, frameVars, platformVars, HasMutex, SharedHeld,
           JobsShape, JobRec, Idle
  <2>3. DrawStep(t, s) /\ job[t].pc \in Working
    BY <1>8 DEF DrawStep, PostPrerollAction, At, Working, Painting, Leaving
  <2>4. InDraw(t)
    BY <2>3, DrawMoves
  <2>. QED
    BY <1>0, <2>1, <2>2, <2>4, MergerInDraw
<1>9. ASSUME NEW t \in Threads, NEW s \in Shells, MergeIfEnabled(t, s) PROVE MergeInv'
  <2>1. UNCHANGED <<lease, merged, strayed>>
    BY <1>9 DEF MergeIfEnabled, At, Goes, mergerVars, frameVars, engineVars, platformVars
  <2>2. ~HasMutex(t) /\ ~HasMutex(t)'
    BY <1>9
       DEF MergeIfEnabled, At, Goes, mergerVars, frameVars, engineVars, platformVars, HasMutex,
           SharedHeld, JobsShape, JobRec, Idle
  <2>3. DrawStep(t, s) /\ job[t].pc \in Working
    BY <1>9 DEF DrawStep, MergeIfEnabled, At, Working, Painting, Leaving
  <2>4. InDraw(t)
    BY <2>3, DrawMoves
  <2>. QED
    BY <1>0, <2>1, <2>2, <2>4, MergerInDraw
<1>10. ASSUME NEW t \in Threads, NEW s \in Shells, MergeQueues(t, s) PROVE MergeInv'
  <2>1. job[t].pc = "subsume" /\ DrawStep(t, s) /\ job[t].pc \in Working
    BY <1>10 DEF MergeQueues, At, DrawStep, Working, Painting, Leaving
  <2>2. \A u \in Threads \ {t} : job'[u].pc = job[u].pc
    BY <2>1, DrawMoves DEF InDraw
  <2>3. CASE IsMerged
    <3>1. UNCHANGED <<lease, merged, strayed>> /\ job'[t].pc = "decrement"
      BY <1>10, <2>3 DEF MergeQueues, Goes, JobsShape, JobRec
    <3>2. \A u \in Threads : HasMutex(u) \/ HasMutex(u)' => job'[u].pc = job[u].pc
      BY <2>1, <2>2, <3>1 DEF HasMutex, SharedHeld
    <3>. QED
      BY <1>0, <3>1, <3>2, MergerSame
  <2>4. CASE ~IsMerged
    <3>1. job'[t].pc = "record" /\ merged' = TRUE /\ UNCHANGED <<lease, strayed>> /\ SharedFree
      BY <1>10, <2>4 DEF MergeQueues, Shift, JobsShape, JobRec
    <3>2. OneHolds' /\ \A u \in Threads : HasMutex(u)' => u = t
      BY <2>2, <3>1, MutexTaken
    <3>3. ~strayed /\ ~IsMerged'
      BY <1>0, <2>4, <3>1 DEF MergeInv, Agreement, IsMerged
    <3>. QED
      BY <3>1, <3>2, <3>3, AgreeHeld DEF HasMutex, SharedHeld
  <2>. QED
    BY <2>3, <2>4
<1>11. ASSUME NEW t \in Threads, NEW s \in Shells, SaveLease(t, s) PROVE MergeInv'
  <2>1. job[t].pc = "record" /\ DrawStep(t, s) /\ job[t].pc \in Working
    BY <1>11 DEF SaveLease, At, DrawStep, Working, Painting, Leaving
  <2>2. \A u \in Threads \ {t} : job'[u].pc = job[u].pc
    BY <2>1, DrawMoves DEF InDraw
  <2>3. job'[t].pc = "decrement" /\ UNCHANGED <<merged, strayed>>
    BY <1>11 DEF SaveLease, Shift, JobsShape, JobRec
  <2>4. IsMerged'
    BY <1>11, LeaseGiven DEF SaveLease
  <2>5. OneHolds' /\ SharedFree' /\ \A u \in Threads : ~HasMutex(u)'
    BY <2>1, <2>2, <2>3, MutexLeft DEF HasMutex, SharedHeld, MergeInv
  <2>6. merged /\ ~strayed
    BY <1>0, <2>1 DEF MergeInv, Agreement
  <2>. QED
    BY <2>3, <2>4, <2>5, <2>6, AgreeFree
<1>12. ASSUME NEW t \in Threads, NEW s \in Shells, ExtendLeaseTo(t, s) PROVE MergeInv'
  <2>1. job[t].pc = "extend" /\ DrawStep(t, s) /\ job[t].pc \in Working
    BY <1>12 DEF ExtendLeaseTo, At, DrawStep, Working, Painting, Leaving
  <2>2. \A u \in Threads \ {t} : job'[u].pc = job[u].pc
    BY <2>1, DrawMoves DEF InDraw
  <2>3. job'[t].pc = "submit" /\ merged' = merged /\ SharedFree
    <3>. DEFINE r == [job[t] EXCEPT !.pc = "submit", !.retry = ~embedder[s].previous]
    <3>1. r.pc = "submit" /\ job[t] \in JobRec
      BY DEF JobsShape, JobRec
    <3>2. merged' = merged /\ SharedFree /\ (Shift(t, r) \/ job' = [job EXCEPT ![t] = r])
      BY <1>12 DEF ExtendLeaseTo
    <3>3. job'[t].pc = r.pc
      BY <3>1, <3>2 DEF Shift, JobsShape, JobRec
    <3>. QED
      BY <3>1, <3>2, <3>3
  <2>4. OneHolds' /\ SharedFree' /\ \A u \in Threads : ~HasMutex(u)'
    BY <2>2, <2>3 DEF SharedFree, OneHolds, HasMutex, SharedHeld
  <2>5. CASE enabled
    <3>1. IsMerged' /\ strayed' = (strayed \/ ~IsMerged)
      BY <1>12, <2>5, LeaseGiven DEF ExtendLeaseTo
    <3>2. strayed => ~merged
      BY <1>0 DEF MergeInv, Agreement
    <3>3. ~strayed /\ IsMerged => merged
      BY <1>0, <2>3 DEF MergeInv, Agreement
    <3>4. ~strayed /\ ~IsMerged => ~merged
      BY <1>0, <2>3 DEF MergeInv, Agreement
    <3>5. strayed' <=> strayed \/ ~IsMerged
      BY <3>1 DEF FlagShape
    <3>. QED
      BY <2>3, <2>4, <3>1, <3>2, <3>3, <3>4, <3>5, AgreeFree
  <2>6. CASE ~enabled
    <3>1. UNCHANGED <<lease, merged, strayed>>
      BY <1>12, <2>6 DEF ExtendLeaseTo, FlagShape
    <3>2. \A u \in Threads : HasMutex(u) \/ HasMutex(u)' => job'[u].pc = job[u].pc
      BY <2>2, <2>3, <2>4 DEF HasMutex, SharedFree
    <3>. QED
      BY <1>0, <3>1, <3>2, MergerSame
  <2>. QED
    BY <2>5, <2>6
<1>13. ASSUME NEW t \in Threads, NEW s \in Shells, NEW overlay \in BOOLEAN, SubmitFlutterView(t, s, overlay)
      PROVE  MergeInv'
  <2>1. UNCHANGED <<lease, merged, strayed>>
    BY <1>13 DEF SubmitFlutterView, At, Goes, mergerVars, frameVars, platformVars
  <2>2. ~HasMutex(t) /\ ~HasMutex(t)'
    BY <1>13
       DEF SubmitFlutterView, At, Goes, mergerVars, frameVars, platformVars, HasMutex, SharedHeld,
           JobsShape, JobRec, Idle
  <2>3. DrawStep(t, s) /\ job[t].pc \in Working
    BY <1>13 DEF DrawStep, SubmitFlutterView, At, Working, Painting, Leaving
  <2>4. InDraw(t)
    BY <2>3, DrawMoves
  <2>. QED
    BY <1>0, <2>1, <2>2, <2>4, MergerInDraw
<1>14. ASSUME NEW t \in Threads, NEW s \in Shells, DecrementIfMerged(t, s) PROVE MergeInv'
  <2>1. UNCHANGED <<lease, merged, strayed>>
    BY <1>14 DEF DecrementIfMerged, At, Goes, mergerVars, frameVars, engineVars, platformVars
  <2>2. ~HasMutex(t) /\ ~HasMutex(t)'
    BY <1>14
       DEF DecrementIfMerged, At, Goes, mergerVars, frameVars, engineVars, platformVars, HasMutex,
           SharedHeld, JobsShape, JobRec, Idle
  <2>3. DrawStep(t, s) /\ job[t].pc \in Working
    BY <1>14 DEF DrawStep, DecrementIfMerged, At, Working, Painting, Leaving
  <2>4. InDraw(t)
    BY <2>3, DrawMoves
  <2>. QED
    BY <1>0, <2>1, <2>2, <2>4, MergerInDraw
<1>15. ASSUME NEW t \in Threads, NEW s \in Shells, DecrementLease(t, s) PROVE MergeInv'
  <2>1. job[t].pc = "spend" /\ DrawStep(t, s) /\ job[t].pc \in Working
    BY <1>15 DEF DecrementLease, At, DrawStep, Working, Painting, Leaving
  <2>2. \A u \in Threads \ {t} : job'[u].pc = job[u].pc
    BY <2>1, DrawMoves DEF InDraw
  <2>3. /\ UNCHANGED <<merged, strayed>> /\ SharedFree
        /\ lease' = IF s \in DOMAIN lease /\ lease[s] > 0
                    THEN [lease EXCEPT ![s] = @ - 1] ELSE lease
    BY <1>15 DEF DecrementLease
  <2>4. CASE AllZero(lease')
    <3>1. job'[t].pc = "part"
      BY <1>15, <2>4 DEF DecrementLease, Shift, JobsShape, JobRec
    <3>2. OneHolds' /\ \A u \in Threads : HasMutex(u)' => u = t
      BY <2>2, <2>3, MutexTaken
    <3>3. ~IsMerged'
      BY <2>4, LeaseEnds
    <3>4. strayed' => ~merged'
      BY <1>0, <2>3 DEF MergeInv, Agreement
    <3>. QED
      BY <3>1, <3>2, <3>3, <3>4, AgreeHeld DEF HasMutex, SharedHeld
  <2>5. CASE ~AllZero(lease')
    <3>1. job'[t].pc = "finish"
      BY <1>15, <2>5 DEF DecrementLease, Goes, JobsShape, JobRec
    <3>2. IsMerged /\ IsMerged'
      BY <2>3, <2>5, LeaseSpent
    <3>3. OneHolds' /\ SharedFree' /\ \A u \in Threads : ~HasMutex(u)'
      BY <2>2, <2>3, <3>1 DEF SharedFree, OneHolds, HasMutex, SharedHeld
    <3>4. (strayed => ~merged) /\ (~strayed => merged)
      BY <1>0, <2>3, <3>2 DEF MergeInv, Agreement
    <3>. QED
      BY <2>3, <3>2, <3>3, <3>4, AgreeFree
  <2>. QED
    BY <2>4, <2>5
<1>16. ASSUME NEW t \in Threads, NEW s \in Shells, Unmerge(t, s) PROVE MergeInv'
  <2>1. job[t].pc = "part" /\ DrawStep(t, s) /\ job[t].pc \in Working
    BY <1>16 DEF Unmerge, At, DrawStep, Working, Painting, Leaving
  <2>2. \A u \in Threads \ {t} : job'[u].pc = job[u].pc
    BY <2>1, DrawMoves DEF InDraw
  <2>3. /\ job'[t].pc = "finish" /\ merged' = FALSE /\ aborted' = ~merged
        /\ UNCHANGED <<lease, strayed>>
    BY <1>16 DEF Unmerge, JobsShape, JobRec
  <2>4. ~IsMerged' /\ (strayed' => aborted')
    BY <1>0, <2>1, <2>3 DEF MergeInv, Agreement, IsMerged, SharedHeld
  <2>5. OneHolds' /\ SharedFree' /\ \A u \in Threads : ~HasMutex(u)'
    BY <2>1, <2>2, <2>3, MutexLeft DEF HasMutex, SharedHeld, MergeInv
  <2>. QED
    BY <2>3, <2>4, <2>5, AgreeFree
<1>17. ASSUME NEW t \in Threads, NEW s \in Shells, FinishDraw(t, s) PROVE MergeInv'
  <2>1. UNCHANGED <<lease, merged, strayed>>
    BY <1>17 DEF FinishDraw, At, Goes, PushBack, EndDraw, mergerVars, engineVars, platformVars
  <2>2. ~HasMutex(t) /\ ~HasMutex(t)'
    BY <1>17
       DEF FinishDraw, At, Goes, PushBack, EndDraw, mergerVars, engineVars, platformVars, HasMutex,
           SharedHeld, JobsShape, JobRec, Idle
  <2>3. DrawStep(t, s) /\ job[t].pc \in Working
    BY <1>17 DEF DrawStep, FinishDraw, At, Working, Painting, Leaving
  <2>4. InDraw(t)
    BY <2>3, DrawMoves
  <2>. QED
    BY <1>0, <2>1, <2>2, <2>4, MergerInDraw
<1>18. ASSUME NEW t \in Threads, NEW s \in Shells, PostAgain(t, s) PROVE MergeInv'
  <2>1. UNCHANGED <<lease, merged, strayed>>
    BY <1>18 DEF PostAgain, At, EndDraw, mergerVars, engineVars, platformVars
  <2>2. ~HasMutex(t) /\ ~HasMutex(t)'
    BY <1>18
       DEF PostAgain, At, EndDraw, mergerVars, engineVars, platformVars, HasMutex, SharedHeld,
           JobsShape, JobRec, Idle
  <2>3. DrawStep(t, s) /\ job[t].pc \in Working
    BY <1>18 DEF DrawStep, PostAgain, At, Working, Painting, Leaving
  <2>4. InDraw(t)
    BY <2>3, DrawMoves
  <2>. QED
    BY <1>0, <2>1, <2>2, <2>4, MergerInDraw
<1>19. ASSUME NEW t \in Threads, NEW s \in Shells, Setup(t, s) PROVE MergeInv'
  <2>1. UNCHANGED <<lease, merged, strayed>>
    BY <1>19 DEF Setup, At, frameVars, mergerVars
  <2>2. \A u \in Threads : HasMutex(u) \/ HasMutex(u)' => job'[u].pc = job[u].pc
    BY <1>19 DEF Setup, At, frameVars, HasMutex, SharedHeld, JobsShape, JobRec, Idle, Threads
  <2>. QED
    BY <1>0, <2>1, <2>2, MergerSame
<1>20. ASSUME NEW t \in Threads, NEW s \in Shells, Teardown(t, s) PROVE MergeInv'
  <2>1. UNCHANGED <<lease, merged, strayed>>
    BY <1>20 DEF Teardown, At, Goes, frameVars, mergerVars
  <2>2. \A u \in Threads : HasMutex(u) \/ HasMutex(u)' => job'[u].pc = job[u].pc
    BY <1>20
       DEF Teardown, At, Goes, frameVars, HasMutex, SharedHeld, JobsShape, JobRec, Idle, Threads
  <2>. QED
    BY <1>0, <2>1, <2>2, MergerSame
<1>21. ASSUME NEW t \in Threads, NEW s \in Shells, UnMergeNowIfLastOne(t, s) PROVE MergeInv'
  <2>. DEFINE r == [job[t] EXCEPT !.pc = "apart"]
  <2>1. job[t].pc = "unmerge" /\ SharedFree /\ UNCHANGED <<merged, strayed>>
    BY <1>21 DEF UnMergeNowIfLastOne, At
  <2>2. CASE enabled /\ AllZero(WithoutLease(s))
    <3>1. Shift(t, r) /\ lease' = WithoutLease(s)
      BY <1>21, <2>2 DEF UnMergeNowIfLastOne
    <3>2. job'[t].pc = "apart" /\ \A u \in Threads \ {t} : job'[u].pc = job[u].pc
      BY <3>1 DEF Shift, JobsShape, JobRec
    <3>3. OneHolds' /\ \A u \in Threads : HasMutex(u)' => u = t
      BY <2>1, <3>2, MutexTaken
    <3>4. ~IsMerged'
      BY <2>2, <3>1, LeaseEnds
    <3>5. strayed' => ~merged'
      BY <1>0, <2>1 DEF MergeInv, Agreement
    <3>. QED
      BY <3>2, <3>3, <3>4, <3>5, AgreeHeld DEF HasMutex, SharedHeld
  <2>3. CASE ~(enabled /\ AllZero(WithoutLease(s)))
    <3>1. job' = [job EXCEPT ![t] = Idle]
      BY <1>21, <2>3 DEF UnMergeNowIfLastOne
    <3>2. OneHolds' /\ SharedFree' /\ \A u \in Threads : ~HasMutex(u)'
      BY <2>1, <3>1 DEF SharedFree, OneHolds, HasMutex, SharedHeld, JobsShape, Idle
    <3>3. IsMerged' = IsMerged
      <4>1. CASE enabled
        <5>1. lease' = WithoutLease(s) /\ ~AllZero(WithoutLease(s))
          BY <1>21, <2>3, <4>1 DEF UnMergeNowIfLastOne
        <5>2. IsMerged /\ IsMerged'
          BY <5>1, LeaseDropped
        <5>. QED
          BY <5>2 DEF IsMerged
      <4>2. CASE ~enabled
        BY <1>21, <4>2 DEF UnMergeNowIfLastOne, IsMerged
      <4>. QED
        BY <4>1, <4>2
    <3>4. (strayed => ~merged /\ IsMerged) /\ (~strayed => (merged <=> IsMerged))
      <4>1. strayed => ~merged /\ IsMerged
        BY <1>0, <2>1 DEF MergeInv, Agreement
      <4>2. ~strayed => merged = IsMerged
        BY <1>0, <2>1 DEF MergeInv, Agreement
      <4>. QED
        BY <4>1, <4>2
    <3>5. IsMerged' <=> IsMerged
      BY <3>3
    <3>. QED
      BY <2>1, <3>2, <3>4, <3>5, AgreeFree
  <2>. QED
    BY <2>2, <2>3
<1>22. ASSUME NEW t \in Threads, NEW s \in Shells, UnmergeNow(t, s) PROVE MergeInv'
  <2>1. /\ job[t].pc = "apart" /\ job'[t].pc = "idle" /\ merged' = FALSE /\ aborted' = ~merged
        /\ UNCHANGED <<lease, strayed>> /\ \A u \in Threads \ {t} : job'[u].pc = job[u].pc
    BY <1>22 DEF UnmergeNow, At, JobsShape, Idle
  <2>2. ~IsMerged' /\ (strayed' => aborted')
    BY <1>0, <2>1 DEF MergeInv, Agreement, IsMerged, SharedHeld
  <2>3. OneHolds' /\ SharedFree' /\ \A u \in Threads : ~HasMutex(u)'
    BY <2>1, MutexLeft DEF HasMutex, SharedHeld, MergeInv
  <2>. QED
    BY <2>1, <2>2, <2>3, AgreeFree
<1>23. ASSUME SignalFrame PROVE MergeInv'
  <2>1. UNCHANGED <<lease, merged, strayed>>
    BY <1>23 DEF SignalFrame, mergerVars, engineVars, platformVars
  <2>2. \A u \in Threads : HasMutex(u) \/ HasMutex(u)' => job'[u].pc = job[u].pc
    BY <1>23
       DEF SignalFrame, mergerVars, engineVars, platformVars, HasMutex, SharedHeld, JobsShape,
           JobRec, Idle, Threads
  <2>. QED
    BY <1>0, <2>1, <2>2, MergerSame
<1>24. ASSUME ShouldPostSetup PROVE MergeInv'
  <2>1. UNCHANGED <<lease, merged, strayed>> /\ Start(Task("setup", call.shell)).pc = "setup"
    BY <1>24 DEF ShouldPostSetup, mergerVars, Start, Task, Idle
  <2>2. job["platform"] = Idle
    BY <1>24 DEF ShouldPostSetup, CallHoldsPlatform, TearingAlone, Waiting, NoCall
  <2>3. \A u \in Threads : HasMutex(u) \/ HasMutex(u)' => job'[u].pc = job[u].pc
    BY <1>24, <2>1, <2>2 DEF ShouldPostSetup, HasMutex, SharedHeld, JobsShape, Threads, Idle
  <2>. QED
    BY <1>0, <2>1, <2>3, MergerSame
<1>25. ASSUME IoPostsSetup PROVE MergeInv'
  <2>1. UNCHANGED <<lease, merged, strayed>>
    BY <1>25 DEF IoPostsSetup, mergerVars, frameVars, engineVars
  <2>2. \A u \in Threads : HasMutex(u) \/ HasMutex(u)' => job'[u].pc = job[u].pc
    BY <1>25
       DEF IoPostsSetup, mergerVars, frameVars, engineVars, HasMutex, SharedHeld, JobsShape, JobRec,
           Idle, Threads
  <2>. QED
    BY <1>0, <2>1, <2>2, MergerSame
<1>26. ASSUME RunNowOrPostTeardown PROVE MergeInv'
  <2>1. UNCHANGED <<lease, merged, strayed>> /\ Start(Task("teardown", call.shell)).pc = "teardown"
    BY <1>26 DEF RunNowOrPostTeardown, mergerVars, Start, Task, Idle
  <2>2. job["platform"] = Idle
    BY <1>26 DEF RunNowOrPostTeardown, CallHoldsPlatform, TearingAlone, Waiting, NoCall
  <2>3. \A u \in Threads : HasMutex(u) \/ HasMutex(u)' => job'[u].pc = job[u].pc
    BY <1>26, <2>1, <2>2 DEF RunNowOrPostTeardown, HasMutex, SharedHeld, JobsShape, Threads, Idle
  <2>. QED
    BY <1>0, <2>1, <2>3, MergerSame
<1>27. ASSUME TeardownExternalViewEmbedder PROVE MergeInv'
  <2>1. UNCHANGED <<lease, merged, strayed>>
    BY <1>27 DEF TeardownExternalViewEmbedder, mergerVars, frameVars
  <2>2. \A u \in Threads : HasMutex(u) \/ HasMutex(u)' => job'[u].pc = job[u].pc
    BY <1>27
       DEF TeardownExternalViewEmbedder, mergerVars, frameVars, HasMutex, SharedHeld, JobsShape,
           JobRec, Idle, Threads
  <2>. QED
    BY <1>0, <2>1, <2>2, MergerSame
<1>. QED
  BY <1>1, <1>2, <1>3, <1>4, <1>5, <1>6, <1>7, <1>8, <1>9, <1>10, <1>11, <1>12, <1>13, <1>14,
     <1>15, <1>16, <1>17, <1>18, <1>19, <1>20, <1>21, <1>22, <1>23, <1>24, <1>25, <1>26, <1>27
     DEF RasterNext, ThreadStep, DrawStep, CallStep

-----------------------------------------------------------------------------
(* Who draws *)

\* A step that leaves the leases alone and begins no Draw.
LEMMA DrawSame ==
    ASSUME DrawInv, lease' = lease, \A t \in Threads : job'[t] = job[t] \/ ~Draws(t)'
    PROVE  DrawInv'
<1>1. IsMerged' = IsMerged
  BY DEF IsMerged
<1>2. ASSUME NEW t \in Threads, job'[t] = job[t] PROVE DrawsWhereItMay(t)'
  BY <1>1, <1>2 DEF DrawInv, DrawsWhereItMay, Draws
<1>3. ASSUME NEW t \in Threads, ~Draws(t)' PROVE DrawsWhereItMay(t)'
  BY <1>3 DEF DrawsWhereItMay, Draws, Painting, Leaving
<1>. QED
  BY <1>2, <1>3 DEF DrawInv

\* A Draw that goes on while the leases say the same.
LEMMA DrawGoesOn ==
    ASSUME DrawInv, IsMerged' <=> IsMerged, NEW t \in Threads,
           \A u \in Threads \ {t} : job'[u] = job[u],
           Draws(t), job'[t].config = job[t].config,
           job[t].pc \in Leaving => job'[t].pc \in Leaving,
           job'[t].pc \notin {"record", "part"},
           job'[t].pc \in {"extend", "submit"} => IsMerged \/ job[t].config = "other"
    PROVE  DrawInv'
<1>0. IsMerged' = IsMerged
  BY DEF IsMerged
<1>1. ASSUME NEW u \in Threads \ {t} PROVE DrawsWhereItMay(u)'
  BY <1>0 DEF DrawInv, DrawsWhereItMay, Draws
<1>2. DrawsWhereItMay(t)'
  BY <1>0 DEF DrawInv, DrawsWhereItMay, Draws
<1>. QED
  BY <1>1, <1>2 DEF DrawInv

\* A step that changes what they say.
LEMMA DrawShifts ==
    ASSUME JobsShape, NEW t \in Threads, NEW r \in JobRec, Shift(t, r),
           r.pc \notin Painting \/ r.config = "other"
    PROVE  DrawInv'
<1>1. ASSUME NEW u \in Threads \ {t} PROVE DrawsWhereItMay(u)'
  <2>1. CASE Draws(u)
    <3>1. job'[u].config = "other"
      BY <2>1 DEF Shift, JobsShape, JobRec
    <3>. QED
      BY <3>1 DEF DrawsWhereItMay
  <2>2. CASE ~Draws(u)
    <3>1. job'[u] = job[u]
      BY <2>2 DEF Shift
    <3>. QED
      BY <2>2, <3>1 DEF DrawsWhereItMay, Draws, Painting, Leaving
  <2>. QED
    BY <2>1, <2>2
<1>2. DrawsWhereItMay(t)'
  <2>1. /\ job'[t].pc = r.pc
        /\ job'[t].config = IF r.config = "other" THEN "other" ELSE "own"
    BY DEF Shift, JobRec
  <2>. QED
    BY <2>1 DEF DrawsWhereItMay, Draws, Painting, Leaving
<1>. QED
  BY <1>1, <1>2 DEF DrawInv

\* Every Draw stays where it may be.
LEMMA DrawKeeps ==
    ASSUME RasterShape, RasterShape', DrawInv, RasterNext PROVE DrawInv'
<1>. USE DEF RasterShape
<1>1. ASSUME NEW s \in Shells, NEW layers \in BOOLEAN, ProduceFrame(s, layers) PROVE DrawInv'
  <2>1. lease' = lease
    BY <1>1 DEF ProduceFrame, mergerVars, engineVars, platformVars
  <2>2. \A u \in Threads : job'[u] = job[u] \/ ~Draws(u)'
    BY <1>1
       DEF ProduceFrame, mergerVars, engineVars, platformVars, Draws, Painting, Leaving,
           JobsShape, JobRec, Idle, Threads
  <2>. QED
    BY <2>1, <2>2, DrawSame
<1>2. ASSUME NEW s \in Shells, OnPlatformViewCreated(s) PROVE DrawInv'
  <2>1. lease' = lease
    BY <1>2 DEF OnPlatformViewCreated, Begin, PlatformFree, frameVars, engineVars, mergerVars
  <2>2. \A u \in Threads : job'[u] = job[u] \/ ~Draws(u)'
    BY <1>2
       DEF OnPlatformViewCreated, Begin, PlatformFree, frameVars, engineVars, Draws, Painting,
           Leaving, JobsShape, JobRec, Idle, Threads
  <2>. QED
    BY <2>1, <2>2, DrawSame
<1>3. ASSUME NEW s \in Shells, OnPlatformViewDestroyed(s) PROVE DrawInv'
  <2>1. lease' = lease
    BY <1>3 DEF OnPlatformViewDestroyed, Begin, PlatformFree, frameVars, engineVars, mergerVars
  <2>2. \A u \in Threads : job'[u] = job[u] \/ ~Draws(u)'
    BY <1>3
       DEF OnPlatformViewDestroyed, Begin, PlatformFree, frameVars, engineVars, Draws, Painting,
           Leaving, JobsShape, JobRec, Idle, Threads
  <2>. QED
    BY <2>1, <2>2, DrawSame
<1>4. ASSUME NEW s \in Shells, DestroyLayers(s) PROVE DrawInv'
  <2>0. "raster" \in Threads
    BY DEF Threads
  <2>1. lease' = lease /\ job["raster"].pc = "layers"
    BY <1>4 DEF DestroyLayers, At, Goes, mergerVars, frameVars, platformVars
  <2>2. /\ job'["raster"].pc \in {"preroll"} /\ job'["raster"].config = job["raster"].config
        /\ \A u \in Threads \ {"raster"} : job'[u] = job[u]
    BY <1>4 DEF DestroyLayers, At, Goes, mergerVars, frameVars, platformVars, JobsShape, JobRec, Threads
  <2>3. IsMerged' <=> IsMerged
    BY <2>1 DEF IsMerged
  <2>. QED
    BY <2>0, <2>1, <2>2, <2>3, DrawGoesOn DEF Draws, Painting, Leaving
<1>5. ASSUME NEW t \in Threads, TakeTask(t) PROVE DrawInv'
  <2>1. lease' = lease /\ Head(tasks) \in TaskRec
    BY <1>5 DEF TakeTask, mergerVars, TasksShape
  <2>2. job'[t].pc = Head(tasks).kind /\ \A u \in Threads \ {t} : job'[u] = job[u]
    BY <1>5 DEF TakeTask, Start, Idle, JobsShape
  <2>3. \A u \in Threads : job'[u] = job[u] \/ ~Draws(u)'
    BY <2>1, <2>2 DEF Draws, Painting, Leaving, TaskRec
  <2>. QED
    BY <2>1, <2>3, DrawSame
<1>6. ASSUME NEW t \in Threads, NEW s \in Shells, LeaveFrame(t, s) PROVE DrawInv'
  <2>1. lease' = lease
    BY <1>6 DEF LeaveFrame, At, mergerVars, engineVars, platformVars
  <2>2. \A u \in Threads : job'[u] = job[u] \/ ~Draws(u)'
    BY <1>6
       DEF LeaveFrame, At, mergerVars, engineVars, platformVars, Draws, Painting, Leaving,
           JobsShape, JobRec, Idle, Threads
  <2>. QED
    BY <2>1, <2>2, DrawSame
<1>7. ASSUME NEW t \in Threads, NEW s \in Shells, NEW resized \in BOOLEAN, Consume(t, s, resized)
      PROVE  DrawInv'
  <2>1. /\ lease' = lease /\ IsOnRasterizingThread(t) /\ job[t].config = "same"
        /\ \A u \in Threads \ {t} : job'[u] = job[u]
    BY <1>7 DEF Consume, At, mergerVars, JobsShape, JobShape
  <2>2. job'[t].pc \in {"finish", "layers", "preroll"} /\ job'[t].config = "same"
    BY <1>7, <2>1 DEF Consume, JobsShape, JobRec
  <2>3. IsMerged' = IsMerged
    BY <2>1 DEF IsMerged
  <2>4. ASSUME NEW u \in Threads \ {t} PROVE DrawsWhereItMay(u)'
    BY <2>1, <2>3 DEF DrawInv, DrawsWhereItMay, Draws
  <2>5. DrawsWhereItMay(t)'
    <3>1. (t = "platform") = IsMerged'
      BY <2>1, <2>3 DEF IsOnRasterizingThread
    <3>. QED
      BY <2>2, <3>1 DEF DrawsWhereItMay
  <2>. QED
    BY <2>4, <2>5 DEF DrawInv
<1>8. ASSUME NEW t \in Threads, NEW s \in Shells, PostPrerollAction(t, s) PROVE DrawInv'
  <2>1. lease' = lease /\ job[t].pc = "preroll"
    BY <1>8 DEF PostPrerollAction, At, Goes, mergerVars, frameVars, platformVars
  <2>2. /\ job'[t].pc \in {"decrement", "extend", "merge"} /\ job'[t].config = job[t].config
        /\ \A u \in Threads \ {t} : job'[u] = job[u]
    BY <1>8
       DEF PostPrerollAction, At, Goes, mergerVars, frameVars, platformVars, JobsShape, JobRec
  <2>3. job'[t].pc = "extend" => IsMerged
    BY <1>8 DEF PostPrerollAction, Goes, JobsShape, JobRec
  <2>4. IsMerged' <=> IsMerged
    BY <2>1 DEF IsMerged
  <2>. QED
    BY <2>1, <2>2, <2>3, <2>4, DrawGoesOn DEF Draws, Painting, Leaving
<1>9. ASSUME NEW t \in Threads, NEW s \in Shells, MergeIfEnabled(t, s) PROVE DrawInv'
  <2>1. lease' = lease /\ job[t].pc = "merge"
    BY <1>9 DEF MergeIfEnabled, At, Goes, mergerVars, frameVars, engineVars, platformVars
  <2>2. /\ job'[t].pc \in {"subsume", "decrement"} /\ job'[t].config = job[t].config
        /\ \A u \in Threads \ {t} : job'[u] = job[u]
    BY <1>9
       DEF MergeIfEnabled, At, Goes, mergerVars, frameVars, engineVars, platformVars, JobsShape,
           JobRec
  <2>3. IsMerged' <=> IsMerged
    BY <2>1 DEF IsMerged
  <2>. QED
    BY <2>1, <2>2, <2>3, DrawGoesOn DEF Draws, Painting, Leaving
<1>10. ASSUME NEW t \in Threads, NEW s \in Shells, MergeQueues(t, s) PROVE DrawInv'
  <2>. DEFINE r == [job[t] EXCEPT !.pc = "record"]
  <2>1. job[t] \in JobRec /\ job[t].pc = "subsume"
    BY <1>10 DEF MergeQueues, At, JobsShape
  <2>2. r.pc = "record" /\ r \in JobRec
    BY <2>1 DEF JobRec, JobPCs, Leaving
  <2>3. CASE Shift(t, r)
    <3>. HIDE DEF r
    <3>1. r.pc \notin Painting
      BY <2>2 DEF Painting
    <3>. QED
      BY <2>2, <2>3, <3>1, DrawShifts
  <2>4. CASE IsMerged
    <3>1. /\ lease' = lease /\ job'[t].pc = "decrement" /\ job'[t].config = job[t].config
          /\ \A u \in Threads \ {t} : job'[u] = job[u]
      BY <1>10, <2>1, <2>4 DEF MergeQueues, Goes, JobsShape, JobRec
    <3>2. IsMerged' <=> IsMerged
      BY <3>1 DEF IsMerged
    <3>. QED
      BY <2>1, <3>1, <3>2, DrawGoesOn DEF Draws, Painting, Leaving
  <2>. QED
    BY <1>10, <2>3, <2>4 DEF MergeQueues
<1>11. ASSUME NEW t \in Threads, NEW s \in Shells, SaveLease(t, s) PROVE DrawInv'
  <2>. DEFINE r == [job[t] EXCEPT !.pc = "decrement"]
  <2>1. job[t] \in JobRec /\ job[t].pc = "record"
    BY <1>11 DEF SaveLease, At, JobsShape
  <2>2. r.pc = "decrement" /\ r \in JobRec
    BY <2>1 DEF JobRec, JobPCs, Leaving
  <2>3. CASE Shift(t, r)
    <3>. HIDE DEF r
    <3>1. r.pc \notin Painting
      BY <2>2 DEF Painting
    <3>. QED
      BY <2>2, <2>3, <3>1, DrawShifts
  <2>. QED
    BY <1>11, <2>3 DEF SaveLease
<1>12. ASSUME NEW t \in Threads, NEW s \in Shells, ExtendLeaseTo(t, s) PROVE DrawInv'
  <2>. DEFINE r == [job[t] EXCEPT !.pc = "submit", !.retry = ~embedder[s].previous]
  <2>1. job[t] \in JobRec /\ job[t].pc = "extend"
    BY <1>12 DEF ExtendLeaseTo, At, JobsShape
  <2>2. r \in JobRec /\ r.pc = "submit" /\ r.config = job[t].config
    BY <2>1 DEF JobRec, JobPCs, Painting
  <2>3. IsMerged \/ job[t].config = "other"
    BY <2>1 DEF DrawInv, DrawsWhereItMay
  <2>4. CASE enabled /\ ~IsMerged
    <3>1. Shift(t, r)
      BY <1>12, <2>4 DEF ExtendLeaseTo
    <3>. HIDE DEF r
    <3>. QED
      BY <2>2, <2>3, <2>4, <3>1, DrawShifts
  <2>5. CASE ~(enabled /\ ~IsMerged)
    <3>1. job' = [job EXCEPT ![t] = r]
      BY <1>12, <2>5 DEF ExtendLeaseTo
    <3>2. IsMerged' <=> IsMerged
      <4>1. CASE enabled
        BY <1>12, <2>5, <4>1, LeaseGiven DEF ExtendLeaseTo
      <4>2. CASE ~enabled
        BY <1>12, <4>2 DEF ExtendLeaseTo, IsMerged
      <4>. QED
        BY <4>1, <4>2
    <3>. HIDE DEF r
    <3>3. job'[t] = r /\ \A u \in Threads \ {t} : job'[u] = job[u]
      BY <3>1 DEF JobsShape
    <3>. QED
      BY <2>1, <2>2, <2>3, <3>2, <3>3, DrawGoesOn DEF Draws, Painting, Leaving
  <2>. QED
    BY <2>4, <2>5
<1>13. ASSUME NEW t \in Threads, NEW s \in Shells, NEW overlay \in BOOLEAN, SubmitFlutterView(t, s, overlay)
      PROVE  DrawInv'
  <2>1. lease' = lease /\ job[t].pc = "submit"
    BY <1>13 DEF SubmitFlutterView, At, Goes, mergerVars, frameVars, platformVars
  <2>2. /\ job'[t].pc \in {"decrement"} /\ job'[t].config = job[t].config
        /\ \A u \in Threads \ {t} : job'[u] = job[u]
    BY <1>13
       DEF SubmitFlutterView, At, Goes, mergerVars, frameVars, platformVars, JobsShape, JobRec
  <2>3. IsMerged' <=> IsMerged
    BY <2>1 DEF IsMerged
  <2>. QED
    BY <2>1, <2>2, <2>3, DrawGoesOn DEF Draws, Painting, Leaving
<1>14. ASSUME NEW t \in Threads, NEW s \in Shells, DecrementIfMerged(t, s) PROVE DrawInv'
  <2>1. lease' = lease /\ job[t].pc = "decrement"
    BY <1>14 DEF DecrementIfMerged, At, Goes, mergerVars, frameVars, engineVars, platformVars
  <2>2. /\ job'[t].pc \in {"spend", "finish"} /\ job'[t].config = job[t].config
        /\ \A u \in Threads \ {t} : job'[u] = job[u]
    BY <1>14
       DEF DecrementIfMerged, At, Goes, mergerVars, frameVars, engineVars, platformVars,
           JobsShape, JobRec
  <2>3. IsMerged' <=> IsMerged
    BY <2>1 DEF IsMerged
  <2>. QED
    BY <2>1, <2>2, <2>3, DrawGoesOn DEF Draws, Painting, Leaving
<1>15. ASSUME NEW t \in Threads, NEW s \in Shells, DecrementLease(t, s) PROVE DrawInv'
  <2>. DEFINE r == [job[t] EXCEPT !.pc = "part"]
  <2>1. job[t] \in JobRec /\ job[t].pc = "spend"
    BY <1>15 DEF DecrementLease, At, JobsShape
  <2>2. r.pc = "part" /\ r \in JobRec
    BY <2>1 DEF JobRec, JobPCs, Leaving
  <2>3. CASE Shift(t, r)
    <3>. HIDE DEF r
    <3>1. r.pc \notin Painting
      BY <2>2 DEF Painting
    <3>. QED
      BY <2>2, <2>3, <3>1, DrawShifts
  <2>4. CASE ~AllZero(lease')
    <3>1. /\ job'[t].pc = "finish" /\ job'[t].config = job[t].config
          /\ \A u \in Threads \ {t} : job'[u] = job[u]
      BY <1>15, <2>1, <2>4 DEF DecrementLease, Goes, JobsShape, JobRec
    <3>2. IsMerged /\ IsMerged'
      BY <1>15, <2>4, LeaseSpent DEF DecrementLease
    <3>. QED
      BY <2>1, <3>1, <3>2, DrawGoesOn DEF Draws, Painting, Leaving
  <2>. QED
    BY <1>15, <2>3, <2>4 DEF DecrementLease
<1>16. ASSUME NEW t \in Threads, NEW s \in Shells, Unmerge(t, s) PROVE DrawInv'
  <2>1. lease' = lease /\ job[t].pc = "part"
    BY <1>16 DEF Unmerge, At, Shifted, frameVars, engineVars, mergerVars
  <2>2. /\ job'[t].pc \in {"finish"} /\ job'[t].config = job[t].config
        /\ \A u \in Threads \ {t} : job'[u] = job[u]
    BY <1>16 DEF Unmerge, At, Shifted, frameVars, engineVars, JobsShape, JobRec
  <2>3. IsMerged' <=> IsMerged
    BY <2>1 DEF IsMerged
  <2>. QED
    BY <2>1, <2>2, <2>3, DrawGoesOn DEF Draws, Painting, Leaving
<1>17. ASSUME NEW t \in Threads, NEW s \in Shells, FinishDraw(t, s) PROVE DrawInv'
  <2>1. /\ lease' = lease /\ job[t].pc = "finish"
        /\ job' = [job EXCEPT ![t] = Idle] \/ job' = [job EXCEPT ![t].pc = "signal"]
    BY <1>17 DEF FinishDraw, At, PushBack, EndDraw, Goes, mergerVars
  <2>2. CASE job' = [job EXCEPT ![t] = Idle]
    <3>1. \A u \in Threads : job'[u] = job[u] \/ ~Draws(u)'
      BY <2>2 DEF JobsShape, Draws, Painting, Leaving, Idle
    <3>. QED
      BY <2>1, <3>1, DrawSame
  <2>3. CASE job' = [job EXCEPT ![t].pc = "signal"]
    <3>1. /\ job'[t].pc = "signal" /\ job'[t].config = job[t].config
          /\ \A u \in Threads \ {t} : job'[u] = job[u]
      BY <2>3 DEF JobsShape, JobRec
    <3>2. IsMerged' <=> IsMerged
      BY <2>1 DEF IsMerged
    <3>. QED
      BY <2>1, <3>1, <3>2, DrawGoesOn DEF Draws, Painting, Leaving
  <2>. QED
    BY <2>1, <2>2, <2>3
<1>18. ASSUME NEW t \in Threads, NEW s \in Shells, PostAgain(t, s) PROVE DrawInv'
  <2>1. lease' = lease
    BY <1>18 DEF PostAgain, At, EndDraw, mergerVars, engineVars, platformVars
  <2>2. \A u \in Threads : job'[u] = job[u] \/ ~Draws(u)'
    BY <1>18
       DEF PostAgain, At, EndDraw, mergerVars, engineVars, platformVars, Draws, Painting,
           Leaving, JobsShape, JobRec, Idle, Threads
  <2>. QED
    BY <2>1, <2>2, DrawSame
<1>19. ASSUME NEW t \in Threads, NEW s \in Shells, Setup(t, s) PROVE DrawInv'
  <2>1. lease' = lease
    BY <1>19 DEF Setup, At, frameVars, mergerVars
  <2>2. \A u \in Threads : job'[u] = job[u] \/ ~Draws(u)'
    BY <1>19
       DEF Setup, At, frameVars, Draws, Painting, Leaving, JobsShape, JobRec, Idle, Threads
  <2>. QED
    BY <2>1, <2>2, DrawSame
<1>20. ASSUME NEW t \in Threads, NEW s \in Shells, Teardown(t, s) PROVE DrawInv'
  <2>1. lease' = lease
    BY <1>20 DEF Teardown, At, Goes, frameVars, mergerVars
  <2>2. \A u \in Threads : job'[u] = job[u] \/ ~Draws(u)'
    BY <1>20
       DEF Teardown, At, Goes, frameVars, Draws, Painting, Leaving, JobsShape, JobRec, Idle,
           Threads
  <2>. QED
    BY <2>1, <2>2, DrawSame
<1>21. ASSUME NEW t \in Threads, NEW s \in Shells, UnMergeNowIfLastOne(t, s) PROVE DrawInv'
  <2>. DEFINE r == [job[t] EXCEPT !.pc = "apart"]
  <2>1. job[t] \in JobRec
    BY DEF JobsShape
  <2>2. r.pc = "apart" /\ r \in JobRec
    BY <2>1 DEF JobRec, JobPCs
  <2>3. CASE Shift(t, r)
    <3>. HIDE DEF r
    <3>1. r.pc \notin Painting
      BY <2>2 DEF Painting
    <3>. QED
      BY <2>2, <2>3, <3>1, DrawShifts
  <2>4. CASE ~(enabled /\ AllZero(WithoutLease(s)))
    <3>1. job' = [job EXCEPT ![t] = Idle]
      BY <1>21, <2>4 DEF UnMergeNowIfLastOne
    <3>2. IsMerged' = IsMerged
      <4>1. CASE enabled
        <5>1. lease' = WithoutLease(s) /\ ~AllZero(WithoutLease(s))
          BY <1>21, <2>4, <4>1 DEF UnMergeNowIfLastOne
        <5>2. IsMerged /\ IsMerged'
          BY <5>1, LeaseDropped
        <5>. QED
          BY <5>2 DEF IsMerged
      <4>2. CASE ~enabled
        BY <1>21, <4>2 DEF UnMergeNowIfLastOne, IsMerged
      <4>. QED
        BY <4>1, <4>2
    <3>3. \A u \in Threads : job'[u] = job[u] \/ ~Draws(u)'
      BY <3>1 DEF JobsShape, Draws, Painting, Leaving, Idle
    <3>4. ASSUME NEW u \in Threads PROVE DrawsWhereItMay(u)'
      BY <3>2, <3>3 DEF DrawInv, DrawsWhereItMay, Draws, Painting, Leaving
    <3>. QED
      BY <3>4 DEF DrawInv
  <2>. QED
    BY <1>21, <2>3, <2>4 DEF UnMergeNowIfLastOne
<1>22. ASSUME NEW t \in Threads, NEW s \in Shells, UnmergeNow(t, s) PROVE DrawInv'
  <2>1. lease' = lease
    BY <1>22 DEF UnmergeNow, At, Signal, frameVars, engineVars, mergerVars
  <2>2. \A u \in Threads : job'[u] = job[u] \/ ~Draws(u)'
    BY <1>22
       DEF UnmergeNow, At, Signal, frameVars, engineVars, Draws, Painting, Leaving, JobsShape,
           JobRec, Idle, Threads
  <2>. QED
    BY <2>1, <2>2, DrawSame
<1>23. ASSUME SignalFrame PROVE DrawInv'
  <2>1. lease' = lease
    BY <1>23 DEF SignalFrame, mergerVars, engineVars, platformVars
  <2>2. \A u \in Threads : job'[u] = job[u] \/ ~Draws(u)'
    BY <1>23
       DEF SignalFrame, mergerVars, engineVars, platformVars, Draws, Painting, Leaving,
           JobsShape, JobRec, Idle, Threads
  <2>. QED
    BY <2>1, <2>2, DrawSame
<1>24. ASSUME ShouldPostSetup PROVE DrawInv'
  <2>1. lease' = lease /\ Start(Task("setup", call.shell)).pc = "setup"
    BY <1>24 DEF ShouldPostSetup, mergerVars, Start, Task, Idle
  <2>2. \A u \in Threads : job'[u] = job[u] \/ ~Draws(u)'
    BY <1>24, <2>1 DEF ShouldPostSetup, Draws, Painting, Leaving, JobsShape, Threads
  <2>. QED
    BY <2>1, <2>2, DrawSame
<1>25. ASSUME IoPostsSetup PROVE DrawInv'
  <2>1. lease' = lease
    BY <1>25 DEF IoPostsSetup, mergerVars, frameVars, engineVars
  <2>2. \A u \in Threads : job'[u] = job[u] \/ ~Draws(u)'
    BY <1>25
       DEF IoPostsSetup, mergerVars, frameVars, engineVars, Draws, Painting, Leaving, JobsShape,
           JobRec, Idle, Threads
  <2>. QED
    BY <2>1, <2>2, DrawSame
<1>26. ASSUME RunNowOrPostTeardown PROVE DrawInv'
  <2>1. lease' = lease /\ Start(Task("teardown", call.shell)).pc = "teardown"
    BY <1>26 DEF RunNowOrPostTeardown, mergerVars, Start, Task, Idle
  <2>2. \A u \in Threads : job'[u] = job[u] \/ ~Draws(u)'
    BY <1>26, <2>1 DEF RunNowOrPostTeardown, Draws, Painting, Leaving, JobsShape, Threads
  <2>. QED
    BY <2>1, <2>2, DrawSame
<1>27. ASSUME TeardownExternalViewEmbedder PROVE DrawInv'
  <2>1. lease' = lease
    BY <1>27 DEF TeardownExternalViewEmbedder, mergerVars, frameVars
  <2>2. \A u \in Threads : job'[u] = job[u] \/ ~Draws(u)'
    BY <1>27
       DEF TeardownExternalViewEmbedder, mergerVars, frameVars, Draws, Painting, Leaving,
           JobsShape, JobRec, Idle, Threads
  <2>. QED
    BY <2>1, <2>2, DrawSame
<1>. QED
  BY <1>1, <1>2, <1>3, <1>4, <1>5, <1>6, <1>7, <1>8, <1>9, <1>10, <1>11, <1>12, <1>13, <1>14,
     <1>15, <1>16, <1>17, <1>18, <1>19, <1>20, <1>21, <1>22, <1>23, <1>24, <1>25, <1>26, <1>27
     DEF RasterNext, ThreadStep, DrawStep, CallStep

\* What stays is enough for one thread to draw.
LEMMA OneDraws == ASSUME JobsShape, DrawInv PROVE OneRasterizes
<1>1. \A t \in Threads : DrawsWhereItMay(t) /\ job[t].config \in {"same", "own", "other"}
  BY DEF DrawInv, JobsShape, JobRec
<1>2. ~(/\ Draws("raster") /\ job["raster"].config = "same"
        /\ Draws("platform") /\ job["platform"].config = "same")
  <2>1. ~(("raster" = "platform") = ("platform" = "platform"))
    OBVIOUS
  <2>. QED
    BY <1>1, <2>1 DEF DrawsWhereItMay, Threads
<1>3. \A t \in Threads : job[t].pc \in Painting => Draws(t) /\ job[t].config # "own"
  BY <1>1 DEF DrawsWhereItMay, Draws, Painting, Leaving
<1>4. Draws("raster") /\ Draws("platform") => \E t \in Threads : job[t].config # "same"
  BY <1>2 DEF Threads
<1>5. (\A t \in Threads : job[t].pc \in Painting) => \E t \in Threads : job[t].config = "other"
  BY <1>1, <1>2, <1>3 DEF Threads
<1>6. job["raster"].pc \in {"extend", "submit"} /\ job["raster"].layers
         => job["raster"].config = "other"
  <2>. SUFFICES ASSUME job["raster"].pc \in {"extend", "submit"}, job["raster"].layers,
                       job["raster"].config # "other"
       PROVE  FALSE
    OBVIOUS
  <2>1. "raster" \in Threads /\ job["raster"].pc \in Painting
    BY DEF Threads, Painting
  <2>2. Draws("raster") /\ job["raster"].config = "same"
    BY <1>1, <1>3, <2>1
  <2>3. IsMerged /\ ("raster" = "platform") = IsMerged
    BY <1>1, <2>1, <2>2 DEF DrawsWhereItMay
  <2>. QED
    BY <2>3
<1>. QED
  BY <1>4, <1>5, <1>6 DEF OneRasterizes

-----------------------------------------------------------------------------
(* Frames and their Draws *)

Posted(s)    == \E i \in DOMAIN tasks : tasks[i] = Task("draw", s)
Coming(t, s) ==
    job[t].shell = s /\ (job[t].pc \in {"draw", "signal"} \/ (Draws(t) /\ job[t].more))
Pushed(s)    == commit.shell = s /\ commit.first
Awaits(s)    == frames[s] # <<>> => Attended(s) \/ missed[s]

LEMMA AttendedBy ==
    ASSUME NEW s
    PROVE  /\ Attended(s) <=> Pushed(s) \/ Posted(s) \/ \E t \in Threads : Coming(t, s)
           /\ Attended(s)' <=> Pushed(s)' \/ Posted(s)' \/ \E t \in Threads : Coming(t, s)'
  BY DEF Attended, Posted, Coming, Pushed

\* Where nothing is pushed and no Draw that is to come goes away.
LEMMA AwaitsSame ==
    ASSUME NEW s, Awaits(s), frames[s] = <<>> => frames'[s] = <<>>,
           missed[s] => missed'[s], Pushed(s) => Pushed(s)', Posted(s) => Posted(s)',
           \A t \in Threads : Coming(t, s) => Coming(t, s)'
    PROVE  Awaits(s)'
<1>1. Attended(s) => Attended(s)'
  BY AttendedBy
<1>. QED
  BY <1>1 DEF Awaits

\* A task posted stays, and is there.
LEMMA PostedStays ==
    ASSUME TasksShape, NEW x \in TaskRec, tasks' = Append(tasks, x)
    PROVE  /\ \A s : Posted(s) => Posted(s)'
           /\ \A s : x = Task("draw", s) => Posted(s)'
<1>1. /\ DOMAIN tasks = 1..Len(tasks) /\ Len(tasks) \in Nat
      /\ DOMAIN tasks' = 1..(Len(tasks) + 1) /\ tasks'[Len(tasks) + 1] = x
      /\ \A i \in 1..Len(tasks) : tasks'[i] = tasks[i]
  BY AppendedLast DEF TasksShape
<1>2. \A i \in DOMAIN tasks : i \in DOMAIN tasks' /\ tasks'[i] = tasks[i]
  BY <1>1
<1>3. Len(tasks) + 1 \in DOMAIN tasks'
  BY <1>1
<1>. QED
  BY <1>1, <1>2, <1>3 DEF Posted

\* A step of a Draw of s leaves what comes for other shells.
LEMMA AwaitsElsewhere ==
    ASSUME RasterShape, NEW t \in Threads, NEW s \in Shells, InDraw(t), Posts(s),
           job[t].shell = s, commit' = commit, NEW x \in Shells, x # s, Awaits(x),
           frames'[x] = frames[x], missed'[x] = missed[x]
    PROVE  Awaits(x)'
<1>1. Task("draw", s) \in TaskRec
  BY DEF Task, TaskRec
<1>2. Posted(x) => Posted(x)'
  <2>1. CASE tasks' = tasks
    BY <2>1 DEF Posted
  <2>2. CASE tasks' = Append(tasks, Task("draw", s))
    BY <1>1, <2>2, PostedStays DEF RasterShape
  <2>. QED
    BY <2>1, <2>2 DEF Posts
<1>3. \A u \in Threads : Coming(u, x) => Coming(u, x)'
  BY DEF InDraw, Coming, Draws
<1>. QED
  BY <1>2, <1>3, AwaitsSame DEF Pushed

\* Nor does one that goes on with its frame leave those of its own.
LEMMA AwaitsInDraw ==
    ASSUME RasterShape, NEW t \in Threads, NEW s \in Shells, InDraw(t), job[t].shell = s,
           Draws(t), Draws(t)', job[t].pc # "signal", job[t].more => job'[t].more,
           UNCHANGED <<tasks, commit, frames, missed>>, NoFrameForgotten
    PROVE  NoFrameForgotten'
<1>. SUFFICES ASSUME NEW x \in Shells PROVE Awaits(x)'
  BY DEF NoFrameForgotten, Awaits, Attended
<1>1. \A u \in Threads : Coming(u, x) => Coming(u, x)'
  BY DEF InDraw, Coming, Draws, Painting, Leaving
<1>2. (Posted(x) => Posted(x)') /\ (Pushed(x) => Pushed(x)')
  BY DEF Posted, Pushed
<1>3. Awaits(x)
  BY DEF NoFrameForgotten, Awaits
<1>. QED
  BY <1>1, <1>2, <1>3, AwaitsSame

\* Every step leaves each waiting frame somebody to come for it.
LEMMA FramesKeep ==
    ASSUME RasterShape, TornDown, NoFrameForgotten, RasterNext PROVE NoFrameForgotten'
<1>. USE DEF RasterShape
<1>1. ASSUME NEW s \in Shells, NEW layers \in BOOLEAN, ProduceFrame(s, layers)
      PROVE  NoFrameForgotten'
  <2>. SUFFICES ASSUME NEW x \in Shells PROVE Awaits(x)'
    BY DEF NoFrameForgotten, Awaits, Attended
  <2>0. Awaits(x)
    BY DEF NoFrameForgotten, Awaits
  <2>1. /\ job' = job /\ tasks' = tasks /\ missed' = missed /\ commit = NoPush
        /\ commit' = [shell |-> s, first |-> frames[s] = <<>>]
        /\ frames' = [frames EXCEPT ![s] = Append(@, layers)]
    BY <1>1 DEF ProduceFrame
  <2>2. CASE x = s /\ frames[s] = <<>>
    <3>1. Pushed(x)'
      BY <2>1, <2>2 DEF Pushed
    <3>. QED
      BY <3>1, AttendedBy DEF Awaits
  <2>3. CASE x # s \/ frames[s] # <<>>
    <3>1. ~Pushed(x)
      BY <2>1, RasterAssumption DEF Pushed, NoPush
    <3>2. frames[x] = <<>> => frames'[x] = <<>>
      BY <2>1, <2>3 DEF FramesShape
    <3>3. (Posted(x) => Posted(x)') /\ \A u \in Threads : Coming(u, x) => Coming(u, x)'
      BY <2>1 DEF Posted, Coming, Draws
    <3>. QED
      BY <2>0, <2>1, <3>1, <3>2, <3>3, AwaitsSame
  <2>. QED
    BY <2>2, <2>3
<1>2. ASSUME NEW s \in Shells, OnPlatformViewCreated(s) PROVE NoFrameForgotten'
  <2>. SUFFICES ASSUME NEW x \in Shells PROVE Awaits(x)'
    BY DEF NoFrameForgotten, Awaits, Attended
  <2>1. Awaits(x) /\ UNCHANGED <<frames, missed, commit, tasks>>
    BY <1>2
       DEF OnPlatformViewCreated, Begin, PlatformFree, frameVars, engineVars, NoFrameForgotten,
           Awaits
  <2>2. \A u \in Threads : Coming(u, x) => Coming(u, x)'
    BY <1>2
       DEF OnPlatformViewCreated, Begin, PlatformFree, frameVars, engineVars, Coming, Draws,
           Painting, Leaving, JobsShape, JobRec, Idle, Threads
  <2>. QED
    BY <2>1, <2>2, AwaitsSame DEF Posted, Pushed
<1>3. ASSUME NEW s \in Shells, OnPlatformViewDestroyed(s) PROVE NoFrameForgotten'
  <2>. SUFFICES ASSUME NEW x \in Shells PROVE Awaits(x)'
    BY DEF NoFrameForgotten, Awaits, Attended
  <2>1. Awaits(x) /\ UNCHANGED <<frames, missed, commit, tasks>>
    BY <1>3
       DEF OnPlatformViewDestroyed, Begin, PlatformFree, frameVars, engineVars,
           NoFrameForgotten, Awaits
  <2>2. \A u \in Threads : Coming(u, x) => Coming(u, x)'
    BY <1>3
       DEF OnPlatformViewDestroyed, Begin, PlatformFree, frameVars, engineVars, Coming, Draws,
           Painting, Leaving, JobsShape, JobRec, Idle, Threads
  <2>. QED
    BY <2>1, <2>2, AwaitsSame DEF Posted, Pushed
<1>4. ASSUME NEW s \in Shells, DestroyLayers(s) PROVE NoFrameForgotten'
  <2>1. /\ UNCHANGED <<tasks, commit, frames, missed>> /\ job["raster"].pc = "layers"
        /\ job["raster"].shell = s /\ "raster" \in Threads
    BY <1>4 DEF DestroyLayers, At, frameVars, Threads
  <2>2. job'["raster"].pc = "preroll" /\ job'["raster"].more = job["raster"].more
    BY <1>4 DEF DestroyLayers, Goes, JobsShape, JobRec, Threads
  <2>3. InDraw("raster")
    BY <1>4
       DEF DestroyLayers, At, Goes, platformVars, InDraw, JobsShape, JobRec, Working, Painting,
           Threads
  <2>. QED
    BY <2>1, <2>2, <2>3, AwaitsInDraw DEF Draws, Painting, Leaving
<1>5. ASSUME NEW t \in Threads, TakeTask(t) PROVE NoFrameForgotten'
  <2>. SUFFICES ASSUME NEW x \in Shells PROVE Awaits(x)'
    BY DEF NoFrameForgotten, Awaits, Attended
  <2>0. Awaits(x)
    BY DEF NoFrameForgotten, Awaits
  <2>1. /\ UNCHANGED <<frames, missed, commit>> /\ job[t] = Idle /\ tasks # <<>>
        /\ tasks' = Tail(tasks) /\ job' = [job EXCEPT ![t] = Start(Head(tasks))]
    BY <1>5 DEF TakeTask, frameVars
  <2>2. \A u \in Threads : Coming(u, x) => Coming(u, x)'
    BY <2>1 DEF Coming, Draws, Painting, Leaving, JobsShape, Idle
  <2>3. CASE tasks[1] = Task("draw", x)
    <3>1. job'[t].pc = "draw" /\ job'[t].shell = x
      BY <2>1, <2>3 DEF JobsShape, Start, Idle, Task
    <3>2. Coming(t, x)'
      BY <3>1 DEF Coming
    <3>. QED
      BY <3>2, AttendedBy DEF Awaits
  <2>4. CASE tasks[1] # Task("draw", x)
    <3>1. \A i \in DOMAIN tasks : i # 1 => i - 1 \in DOMAIN tasks' /\ tasks'[i - 1] = tasks[i]
      BY <2>1 DEF TasksShape
    <3>2. Posted(x) => Posted(x)'
      BY <2>4, <3>1 DEF Posted
    <3>. QED
      BY <2>0, <2>1, <2>2, <3>2, AwaitsSame DEF Pushed
  <2>. QED
    BY <2>3, <2>4
<1>6. ASSUME NEW t \in Threads, NEW s \in Shells, LeaveFrame(t, s) PROVE NoFrameForgotten'
  <2>. SUFFICES ASSUME NEW x \in Shells PROVE Awaits(x)'
    BY DEF NoFrameForgotten, Awaits, Attended
  <2>0. Awaits(x) /\ Awaits(s)
    BY DEF NoFrameForgotten, Awaits
  <2>1. job[t].pc = "draw" /\ job[t].shell = s /\ DrawStep(t, s) /\ job[t].pc \in Working
    BY <1>6 DEF LeaveFrame, At, DrawStep, Working, Leaving
  <2>2. InDraw(t) /\ Posts(s)
    BY <2>1, DrawMoves
  <2>5. CASE x # s
    <3>1. commit' = commit /\ frames'[x] = frames[x] /\ missed'[x] = missed[x]
      BY <1>6, <2>5 DEF LeaveFrame, FramesShape
    <3>. QED
      BY <2>0, <2>1, <2>2, <2>5, <3>1, AwaitsElsewhere
  <2>6. CASE x = s
    <3>1. frames' = frames /\ (frames[s] # <<>> => missed'[s])
      BY <1>6 DEF LeaveFrame, FramesShape
    <3>. QED
      BY <2>6, <3>1 DEF Awaits
  <2>. QED
    BY <2>5, <2>6
<1>7. ASSUME NEW t \in Threads, NEW s \in Shells, NEW resized \in BOOLEAN, Consume(t, s, resized)
      PROVE  NoFrameForgotten'
  <2>. SUFFICES ASSUME NEW x \in Shells PROVE Awaits(x)'
    BY DEF NoFrameForgotten, Awaits, Attended
  <2>0. Awaits(x) /\ Awaits(s)
    BY DEF NoFrameForgotten, Awaits
  <2>1. job[t].pc = "draw" /\ job[t].shell = s /\ DrawStep(t, s) /\ job[t].pc \in Working
    BY <1>7 DEF Consume, At, DrawStep, Working, Leaving
  <2>2. InDraw(t) /\ Posts(s)
    BY <2>1, DrawMoves
  <2>5. CASE x # s
    <3>1. commit' = commit /\ frames'[x] = frames[x] /\ missed'[x] = missed[x]
      BY <1>7, <2>5 DEF Consume, FramesShape
    <3>. QED
      BY <2>0, <2>1, <2>2, <2>5, <3>1, AwaitsElsewhere
  <2>6. CASE x = s
    <3>1. /\ frames'[s] = Tail(frames[s]) /\ job'[t].more = (Len(frames[s]) > 1)
          /\ job'[t].pc \in {"finish", "layers", "preroll"} /\ job'[t].shell = s
          /\ Available(s) > 0
      BY <1>7, <2>1 DEF Consume, FramesShape, JobsShape, JobRec
    <3>2. Len(frames[s]) <= 1 => frames'[s] = <<>>
      <4>1. frames[s] \in Seq(BOOLEAN) /\ frames[s] # <<>> /\ Len(frames[s]) \in Nat
        BY <3>1, FrameWaits
      <4>2. Tail(frames[s]) \in Seq(BOOLEAN) /\ Len(Tail(frames[s])) = Len(frames[s]) - 1
        BY <4>1, HeadTailProperties
      <4>. QED
        BY <3>1, <4>1, <4>2, EmptySeq
    <3>3. Len(frames[s]) > 1 => Coming(t, s)'
      BY <3>1 DEF Coming, Draws, Painting, Leaving
    <3>4. Len(frames[s]) > 1 \/ Len(frames[s]) <= 1
      BY DEF FramesShape
    <3>. QED
      BY <2>6, <3>2, <3>3, <3>4, AttendedBy DEF Awaits
  <2>. QED
    BY <2>5, <2>6
<1>8. ASSUME NEW t \in Threads, NEW s \in Shells, PostPrerollAction(t, s)
      PROVE  NoFrameForgotten'
  <2>1. /\ UNCHANGED <<tasks, commit, frames, missed>> /\ job[t].pc = "preroll" /\ job[t].shell = s
        /\ DrawStep(t, s) /\ job[t].pc \in Working
    BY <1>8
       DEF PostPrerollAction, At, Goes, mergerVars, frameVars, platformVars, DrawStep, Working,
           Painting, Leaving
  <2>2. job'[t].pc \in {"decrement", "extend", "merge"} /\ (job[t].more => job'[t].more)
    BY <1>8, <2>1
       DEF PostPrerollAction, At, Goes, mergerVars, frameVars, platformVars, JobsShape, JobRec
  <2>3. InDraw(t)
    BY <2>1, DrawMoves
  <2>. QED
    BY <2>1, <2>2, <2>3, AwaitsInDraw DEF Draws, Painting, Leaving
<1>9. ASSUME NEW t \in Threads, NEW s \in Shells, MergeIfEnabled(t, s) PROVE NoFrameForgotten'
  <2>1. /\ UNCHANGED <<tasks, commit, frames, missed>> /\ job[t].pc = "merge" /\ job[t].shell = s
        /\ DrawStep(t, s) /\ job[t].pc \in Working
    BY <1>9
       DEF MergeIfEnabled, At, Goes, mergerVars, frameVars, engineVars, platformVars, DrawStep,
           Working, Painting, Leaving
  <2>2. job'[t].pc \in {"subsume", "decrement"} /\ (job[t].more => job'[t].more)
    BY <1>9, <2>1
       DEF MergeIfEnabled, At, Goes, mergerVars, frameVars, engineVars, platformVars, JobsShape,
           JobRec
  <2>3. InDraw(t)
    BY <2>1, DrawMoves
  <2>. QED
    BY <2>1, <2>2, <2>3, AwaitsInDraw DEF Draws, Painting, Leaving
<1>10. ASSUME NEW t \in Threads, NEW s \in Shells, MergeQueues(t, s) PROVE NoFrameForgotten'
  <2>1. /\ UNCHANGED <<tasks, commit, frames, missed>> /\ job[t].pc = "subsume" /\ job[t].shell = s
        /\ DrawStep(t, s) /\ job[t].pc \in Working
    BY <1>10
       DEF MergeQueues, At, Goes, Shift, Shifted, frameVars, engineVars, DrawStep, Working,
           Painting, Leaving
  <2>2. job'[t].pc \in {"record", "decrement"} /\ (job[t].more => job'[t].more)
    BY <1>10, <2>1
       DEF MergeQueues, At, Goes, Shift, Shifted, frameVars, engineVars, JobsShape, JobRec
  <2>3. InDraw(t)
    BY <2>1, DrawMoves
  <2>. QED
    BY <2>1, <2>2, <2>3, AwaitsInDraw DEF Draws, Painting, Leaving
<1>11. ASSUME NEW t \in Threads, NEW s \in Shells, SaveLease(t, s) PROVE NoFrameForgotten'
  <2>1. /\ UNCHANGED <<tasks, commit, frames, missed>> /\ job[t].pc = "record" /\ job[t].shell = s
        /\ DrawStep(t, s) /\ job[t].pc \in Working
    BY <1>11
       DEF SaveLease, At, Shift, Shifted, frameVars, engineVars, DrawStep, Working, Painting,
           Leaving
  <2>2. job'[t].pc \in {"decrement"} /\ (job[t].more => job'[t].more)
    BY <1>11, <2>1 DEF SaveLease, At, Shift, Shifted, frameVars, engineVars, JobsShape, JobRec
  <2>3. InDraw(t)
    BY <2>1, DrawMoves
  <2>. QED
    BY <2>1, <2>2, <2>3, AwaitsInDraw DEF Draws, Painting, Leaving
<1>12. ASSUME NEW t \in Threads, NEW s \in Shells, ExtendLeaseTo(t, s) PROVE NoFrameForgotten'
  <2>1. /\ UNCHANGED <<tasks, commit, frames, missed>> /\ job[t].pc = "extend" /\ job[t].shell = s
        /\ DrawStep(t, s) /\ job[t].pc \in Working
    BY <1>12
       DEF ExtendLeaseTo, At, Shift, Shifted, frameVars, engineVars, DrawStep, Working,
           Painting, Leaving
  <2>2. job'[t].pc = "submit" /\ job'[t].more = job[t].more
    <3>. DEFINE r == [job[t] EXCEPT !.pc = "submit", !.retry = ~embedder[s].previous]
    <3>1. r.pc = "submit" /\ r.more = job[t].more /\ job[t] \in JobRec /\ r \in JobRec
      BY <2>1 DEF JobsShape, JobRec, JobPCs, Painting
    <3>2. Shift(t, r) \/ job' = [job EXCEPT ![t] = r]
      BY <1>12 DEF ExtendLeaseTo
    <3>. HIDE DEF r
    <3>. QED
      BY <3>1, <3>2 DEF Shift, JobsShape, JobRec
  <2>3. InDraw(t)
    BY <2>1, DrawMoves
  <2>. QED
    BY <2>1, <2>2, <2>3, AwaitsInDraw DEF Draws, Painting, Leaving
<1>13. ASSUME NEW t \in Threads, NEW s \in Shells, NEW overlay \in BOOLEAN, SubmitFlutterView(t, s, overlay)
      PROVE  NoFrameForgotten'
  <2>1. /\ UNCHANGED <<tasks, commit, frames, missed>> /\ job[t].pc = "submit" /\ job[t].shell = s
        /\ DrawStep(t, s) /\ job[t].pc \in Working
    BY <1>13
       DEF SubmitFlutterView, At, Goes, mergerVars, frameVars, platformVars, DrawStep, Working,
           Painting, Leaving
  <2>2. job'[t].pc \in {"decrement"} /\ (job[t].more => job'[t].more)
    BY <1>13, <2>1
       DEF SubmitFlutterView, At, Goes, mergerVars, frameVars, platformVars, JobsShape, JobRec
  <2>3. InDraw(t)
    BY <2>1, DrawMoves
  <2>. QED
    BY <2>1, <2>2, <2>3, AwaitsInDraw DEF Draws, Painting, Leaving
<1>14. ASSUME NEW t \in Threads, NEW s \in Shells, DecrementIfMerged(t, s)
      PROVE  NoFrameForgotten'
  <2>1. /\ UNCHANGED <<tasks, commit, frames, missed>> /\ job[t].pc = "decrement" /\ job[t].shell = s
        /\ DrawStep(t, s) /\ job[t].pc \in Working
    BY <1>14
       DEF DecrementIfMerged, At, Goes, mergerVars, frameVars, engineVars, platformVars,
           DrawStep, Working, Painting, Leaving
  <2>2. job'[t].pc \in {"spend", "finish"} /\ (job[t].more => job'[t].more)
    BY <1>14, <2>1
       DEF DecrementIfMerged, At, Goes, mergerVars, frameVars, engineVars, platformVars,
           JobsShape, JobRec
  <2>3. InDraw(t)
    BY <2>1, DrawMoves
  <2>. QED
    BY <2>1, <2>2, <2>3, AwaitsInDraw DEF Draws, Painting, Leaving
<1>15. ASSUME NEW t \in Threads, NEW s \in Shells, DecrementLease(t, s) PROVE NoFrameForgotten'
  <2>1. /\ UNCHANGED <<tasks, commit, frames, missed>> /\ job[t].pc = "spend" /\ job[t].shell = s
        /\ DrawStep(t, s) /\ job[t].pc \in Working
    BY <1>15
       DEF DecrementLease, At, Goes, Shift, Shifted, frameVars, engineVars, DrawStep, Working,
           Painting, Leaving
  <2>2. job'[t].pc \in {"part", "finish"} /\ (job[t].more => job'[t].more)
    BY <1>15, <2>1
       DEF DecrementLease, At, Goes, Shift, Shifted, frameVars, engineVars, JobsShape, JobRec
  <2>3. InDraw(t)
    BY <2>1, DrawMoves
  <2>. QED
    BY <2>1, <2>2, <2>3, AwaitsInDraw DEF Draws, Painting, Leaving
<1>16. ASSUME NEW t \in Threads, NEW s \in Shells, Unmerge(t, s) PROVE NoFrameForgotten'
  <2>1. /\ UNCHANGED <<tasks, commit, frames, missed>> /\ job[t].pc = "part" /\ job[t].shell = s
        /\ DrawStep(t, s) /\ job[t].pc \in Working
    BY <1>16
       DEF Unmerge, At, Shifted, frameVars, engineVars, DrawStep, Working, Painting, Leaving
  <2>2. job'[t].pc \in {"finish"} /\ (job[t].more => job'[t].more)
    BY <1>16, <2>1 DEF Unmerge, At, Shifted, frameVars, engineVars, JobsShape, JobRec
  <2>3. InDraw(t)
    BY <2>1, DrawMoves
  <2>. QED
    BY <2>1, <2>2, <2>3, AwaitsInDraw DEF Draws, Painting, Leaving
<1>17. ASSUME NEW t \in Threads, NEW s \in Shells, FinishDraw(t, s) PROVE NoFrameForgotten'
  <2>. SUFFICES ASSUME NEW x \in Shells PROVE Awaits(x)'
    BY DEF NoFrameForgotten, Awaits, Attended
  <2>0. Awaits(x) /\ Awaits(s)
    BY DEF NoFrameForgotten, Awaits
  <2>1. job[t].pc = "finish" /\ job[t].shell = s /\ DrawStep(t, s) /\ job[t].pc \in Working
    BY <1>17 DEF FinishDraw, At, DrawStep, Working, Leaving
  <2>2. InDraw(t) /\ Posts(s)
    BY <2>1, DrawMoves
  <2>5. CASE x # s
    <3>1. commit' = commit /\ frames'[x] = frames[x] /\ missed'[x] = missed[x]
      BY <1>17, <2>5 DEF FinishDraw, PushBack, EndDraw, FramesShape
    <3>. QED
      BY <2>0, <2>1, <2>2, <2>5, <3>1, AwaitsElsewhere
  <2>6. CASE x = s
    <3>1. Task("draw", s) \in TaskRec
      BY DEF Task, TaskRec
    <3>2. CASE tasks' = Append(tasks, Task("draw", s))
      <4>1. Posted(s)'
        BY <3>1, <3>2, PostedStays
      <4>. QED
        BY <2>6, <4>1, AttendedBy DEF Awaits
    <3>3. CASE ~job[t].more /\ EndDraw(t, s, job[t].more) /\ commit' = commit
      <4>1. frames' = frames /\ tasks' = tasks /\ missed'[s] = missed[s]
        BY <3>3 DEF EndDraw, FramesShape
      <4>2. \A u \in Threads : Coming(u, s) => Coming(u, s)'
        BY <2>1, <2>2, <3>3 DEF Coming, InDraw, Draws
      <4>. QED
        BY <2>0, <2>6, <3>3, <4>1, <4>2, AwaitsSame DEF Posted, Pushed
    <3>4. CASE PushBack(t, s)
      <4>1. job'[t].pc = "signal" /\ job'[t].shell = s
        BY <2>1, <3>4 DEF PushBack, Goes, JobsShape, JobRec
      <4>2. Coming(t, s)'
        BY <4>1 DEF Coming
      <4>. QED
        BY <2>6, <4>2, AttendedBy DEF Awaits
    <3>. QED
      BY <1>17, <3>2, <3>3, <3>4 DEF FinishDraw, EndDraw
  <2>. QED
    BY <2>5, <2>6
<1>18. ASSUME NEW t \in Threads, NEW s \in Shells, PostAgain(t, s) PROVE NoFrameForgotten'
  <2>. SUFFICES ASSUME NEW x \in Shells PROVE Awaits(x)'
    BY DEF NoFrameForgotten, Awaits, Attended
  <2>0. Awaits(x) /\ Awaits(s)
    BY DEF NoFrameForgotten, Awaits
  <2>1. job[t].pc = "signal" /\ job[t].shell = s /\ DrawStep(t, s) /\ job[t].pc \in Working
    BY <1>18 DEF PostAgain, At, DrawStep, Working, Leaving
  <2>2. InDraw(t) /\ Posts(s)
    BY <2>1, DrawMoves
  <2>5. CASE x # s
    <3>1. commit' = commit /\ frames'[x] = frames[x] /\ missed'[x] = missed[x]
      BY <1>18, <2>5 DEF PostAgain, EndDraw, FramesShape
    <3>. QED
      BY <2>0, <2>1, <2>2, <2>5, <3>1, AwaitsElsewhere
  <2>6. CASE x = s
    <3>1. Task("draw", s) \in TaskRec
      BY DEF Task, TaskRec
    <3>2. CASE tasks' = Append(tasks, Task("draw", s))
      <4>1. Posted(s)'
        BY <3>1, <3>2, PostedStays
      <4>. QED
        BY <2>6, <4>1, AttendedBy DEF Awaits
    <3>. QED
      BY <1>18, <3>2 DEF PostAgain, EndDraw
  <2>. QED
    BY <2>5, <2>6
<1>19. ASSUME NEW t \in Threads, NEW s \in Shells, Setup(t, s) PROVE NoFrameForgotten'
  <2>. SUFFICES ASSUME NEW x \in Shells PROVE Awaits(x)'
    BY DEF NoFrameForgotten, Awaits, Attended
  <2>1. Awaits(x) /\ UNCHANGED <<frames, missed, commit, tasks>>
    BY <1>19 DEF Setup, At, frameVars, NoFrameForgotten, Awaits
  <2>2. \A u \in Threads : Coming(u, x) => Coming(u, x)'
    BY <1>19
       DEF Setup, At, frameVars, Coming, Draws, Painting, Leaving, JobsShape, JobRec, Idle,
           Threads
  <2>. QED
    BY <2>1, <2>2, AwaitsSame DEF Posted, Pushed
<1>20. ASSUME NEW t \in Threads, NEW s \in Shells, Teardown(t, s) PROVE NoFrameForgotten'
  <2>. SUFFICES ASSUME NEW x \in Shells PROVE Awaits(x)'
    BY DEF NoFrameForgotten, Awaits, Attended
  <2>1. Awaits(x) /\ UNCHANGED <<frames, missed, commit, tasks>>
    BY <1>20 DEF Teardown, At, Goes, frameVars, NoFrameForgotten, Awaits
  <2>2. \A u \in Threads : Coming(u, x) => Coming(u, x)'
    BY <1>20
       DEF Teardown, At, Goes, frameVars, Coming, Draws, Painting, Leaving, JobsShape, JobRec,
           Idle, Threads
  <2>. QED
    BY <2>1, <2>2, AwaitsSame DEF Posted, Pushed
<1>21. ASSUME NEW t \in Threads, NEW s \in Shells, UnMergeNowIfLastOne(t, s)
      PROVE  NoFrameForgotten'
  <2>. SUFFICES ASSUME NEW x \in Shells PROVE Awaits(x)'
    BY DEF NoFrameForgotten, Awaits, Attended
  <2>0. Awaits(x)
    BY DEF NoFrameForgotten, Awaits
  <2>. DEFINE r == [job[t] EXCEPT !.pc = "apart"]
  <2>1. UNCHANGED <<frames, missed, commit, tasks>> /\ job[t].pc = "unmerge"
    BY <1>21 DEF UnMergeNowIfLastOne, At, frameVars
  <2>2. Shift(t, r) \/ job' = [job EXCEPT ![t] = Idle]
    BY <1>21 DEF UnMergeNowIfLastOne
  <2>. HIDE DEF r
  <2>3. \A u \in Threads \ {t} : /\ job'[u].pc = job[u].pc /\ job'[u].shell = job[u].shell
                                 /\ job'[u].more = job[u].more
    BY <2>2 DEF Shift, JobsShape, JobRec
  <2>4. \A u \in Threads : Coming(u, x) => Coming(u, x)'
    BY <2>1, <2>3 DEF Coming, Draws, Painting, Leaving
  <2>. QED
    BY <2>0, <2>1, <2>4, AwaitsSame DEF Posted, Pushed
<1>22. ASSUME NEW t \in Threads, NEW s \in Shells, UnmergeNow(t, s) PROVE NoFrameForgotten'
  <2>. SUFFICES ASSUME NEW x \in Shells PROVE Awaits(x)'
    BY DEF NoFrameForgotten, Awaits, Attended
  <2>1. Awaits(x) /\ UNCHANGED <<frames, missed, commit, tasks>>
    BY <1>22 DEF UnmergeNow, At, Signal, frameVars, engineVars, NoFrameForgotten, Awaits
  <2>2. \A u \in Threads : Coming(u, x) => Coming(u, x)'
    BY <1>22
       DEF UnmergeNow, At, Signal, frameVars, engineVars, Coming, Draws, Painting, Leaving,
           JobsShape, JobRec, Idle, Threads
  <2>. QED
    BY <2>1, <2>2, AwaitsSame DEF Posted, Pushed
<1>23. ASSUME SignalFrame PROVE NoFrameForgotten'
  <2>. SUFFICES ASSUME NEW x \in Shells PROVE Awaits(x)'
    BY DEF NoFrameForgotten, Awaits, Attended
  <2>0. Awaits(x)
    BY DEF NoFrameForgotten, Awaits
  <2>1. job' = job /\ frames' = frames /\ commit # NoPush /\ commit' = NoPush
    BY <1>23 DEF SignalFrame
  <2>2. \A u \in Threads : Coming(u, x) => Coming(u, x)'
    BY <2>1 DEF Coming, Draws
  <2>3. CASE ~commit.first
    BY <1>23, <2>0, <2>1, <2>2, <2>3, AwaitsSame DEF SignalFrame, Posted, Pushed
  <2>4. CASE commit.first
    <3>0. PICK c \in Shells : c = commit.shell
      BY <2>1 DEF CommitShape
    <3>1. Task("draw", c) \in TaskRec
      BY DEF Task, TaskRec
    <3>2. /\ tasks' = Append(tasks, Task("draw", c))
          /\ missed' = [missed EXCEPT ![c] = FALSE]
      BY <1>23, <2>4, <3>0 DEF SignalFrame
    <3>3. (Posted(x) => Posted(x)') /\ Posted(c)'
      BY <3>1, <3>2, PostedStays
    <3>4. CASE x = c
      BY <3>3, <3>4, AttendedBy DEF Awaits
    <3>5. CASE x # c
      <4>1. missed'[x] = missed[x] /\ ~Pushed(x)
        BY <3>0, <3>2, <3>5 DEF FramesShape, Pushed
      <4>. QED
        BY <2>0, <2>1, <2>2, <3>3, <4>1, AwaitsSame
    <3>. QED
      BY <3>4, <3>5
  <2>. QED
    BY <2>3, <2>4
<1>24. ASSUME ShouldPostSetup PROVE NoFrameForgotten'
  <2>. SUFFICES ASSUME NEW x \in Shells PROVE Awaits(x)'
    BY DEF NoFrameForgotten, Awaits, Attended
  <2>0. Awaits(x)
    BY DEF NoFrameForgotten, Awaits
  <2>1. UNCHANGED <<frames, missed, commit>> /\ job["platform"] = Idle
    BY <1>24 DEF ShouldPostSetup, frameVars, TornDown, CallHoldsPlatform, TearingAlone, Waiting, NoCall
  <2>2. job'["raster"] = job["raster"]
    BY <1>24 DEF ShouldPostSetup, JobsShape, Threads
  <2>3. \A u \in Threads : Coming(u, x) => Coming(u, x)'
    BY <2>1, <2>2 DEF Coming, Draws, Painting, Leaving, Idle, Threads
  <2>4. Posted(x) => Posted(x)'
    BY <1>24 DEF ShouldPostSetup, Posted
  <2>. QED
    BY <2>0, <2>1, <2>3, <2>4, AwaitsSame DEF Pushed
<1>25. ASSUME IoPostsSetup PROVE NoFrameForgotten'
  <2>. SUFFICES ASSUME NEW x \in Shells PROVE Awaits(x)'
    BY DEF NoFrameForgotten, Awaits, Attended
  <2>0. Awaits(x)
    BY DEF NoFrameForgotten, Awaits
  <2>1. job' = job /\ UNCHANGED <<frames, missed, commit>>
    BY <1>25 DEF IoPostsSetup, frameVars
  <2>2. Task("setup", call.shell) \in TaskRec
    BY <1>25 DEF IoPostsSetup, CallShape, CallRec, NoCall, Task, TaskRec
  <2>3. Posted(x) => Posted(x)'
    BY <1>25, <2>2, PostedStays DEF IoPostsSetup
  <2>4. \A u \in Threads : Coming(u, x) => Coming(u, x)'
    BY <2>1 DEF Coming, Draws
  <2>. QED
    BY <2>0, <2>1, <2>3, <2>4, AwaitsSame DEF Pushed
<1>26. ASSUME RunNowOrPostTeardown PROVE NoFrameForgotten'
  <2>. SUFFICES ASSUME NEW x \in Shells PROVE Awaits(x)'
    BY DEF NoFrameForgotten, Awaits, Attended
  <2>0. Awaits(x)
    BY DEF NoFrameForgotten, Awaits
  <2>1. UNCHANGED <<frames, missed, commit>> /\ job["platform"] = Idle
    BY <1>26 DEF RunNowOrPostTeardown, frameVars, TornDown, CallHoldsPlatform, TearingAlone, Waiting, NoCall
  <2>2. job'["raster"] = job["raster"]
    BY <1>26 DEF RunNowOrPostTeardown, JobsShape, Threads
  <2>3. \A u \in Threads : Coming(u, x) => Coming(u, x)'
    BY <2>1, <2>2 DEF Coming, Draws, Painting, Leaving, Idle, Threads
  <2>4. Posted(x) => Posted(x)'
    <3>1. Task("teardown", call.shell) \in TaskRec
      BY <1>26 DEF RunNowOrPostTeardown, CallShape, CallRec, NoCall, Task, TaskRec
    <3>2. tasks' = tasks \/ tasks' = Append(tasks, Task("teardown", call.shell))
      BY <1>26 DEF RunNowOrPostTeardown
    <3>. QED
      BY <3>1, <3>2, PostedStays DEF Posted
  <2>. QED
    BY <2>0, <2>1, <2>3, <2>4, AwaitsSame DEF Pushed
<1>27. ASSUME TeardownExternalViewEmbedder PROVE NoFrameForgotten'
  <2>. SUFFICES ASSUME NEW x \in Shells PROVE Awaits(x)'
    BY DEF NoFrameForgotten, Awaits, Attended
  <2>1. Awaits(x) /\ UNCHANGED <<frames, missed, commit, tasks>>
    BY <1>27 DEF TeardownExternalViewEmbedder, mergerVars, frameVars, NoFrameForgotten, Awaits
  <2>2. \A u \in Threads : Coming(u, x) => Coming(u, x)'
    BY <1>27
       DEF TeardownExternalViewEmbedder, mergerVars, frameVars, Coming, Draws, Painting,
           Leaving, JobsShape, JobRec, Idle, Threads
  <2>. QED
    BY <2>1, <2>2, AwaitsSame DEF Posted, Pushed
<1>. QED
  BY <1>1, <1>2, <1>3, <1>4, <1>5, <1>6, <1>7, <1>8, <1>9, <1>10, <1>11, <1>12, <1>13, <1>14,
     <1>15, <1>16, <1>17, <1>18, <1>19, <1>20, <1>21, <1>22, <1>23, <1>24, <1>25, <1>26, <1>27
     DEF RasterNext, ThreadStep, DrawStep, CallStep

-----------------------------------------------------------------------------
(* Destroyed views *)

\* Outside a call that waits or has waited for a teardown there is nothing to say.
LEMMA NotTearing ==
    ASSUME call'.stage # "torn", \A t \in Threads : ~Tearing(t)' PROVE SuspendInv'
  BY DEF SuspendInv, RunsItself, LeftAlone, TornNow, Tearing, Threads
LEMMA NobodyTears ==
    ASSUME TornDown, call.stage # "wait" PROVE \A t \in Threads : ~Tearing(t)
  BY DEF TornDown, TearingAlone, Waiting

\* No set-up is pending that was not.
LEMMA PendingSame ==
    ASSUME TasksShape, NEW s, \A t \in Threads : job'[t].pc = "setup" => job'[t] = job[t],
           \/ tasks' = tasks
           \/ \E y \in TaskRec : y.kind # "setup" /\ tasks' = Append(tasks, y)
    PROVE  SetupPending(s)' => SetupPending(s)
<1>1. ASSUME NEW i \in DOMAIN tasks', tasks'[i] = Task("setup", s)
      PROVE  i \in DOMAIN tasks /\ tasks[i] = Task("setup", s)
  <2>1. CASE tasks' = tasks
    BY <1>1, <2>1
  <2>2. ASSUME NEW y \in TaskRec, y.kind # "setup", tasks' = Append(tasks, y)
        PROVE  i \in DOMAIN tasks /\ tasks[i] = Task("setup", s)
    <3>1. /\ DOMAIN tasks = 1..Len(tasks) /\ Len(tasks) \in Nat
          /\ DOMAIN tasks' = 1..(Len(tasks) + 1) /\ tasks'[Len(tasks) + 1] = y
          /\ \A j \in 1..Len(tasks) : tasks'[j] = tasks[j]
      BY <2>2, AppendedLast DEF TasksShape
    <3>2. y # Task("setup", s)
      BY <2>2 DEF Task
    <3>. QED
      BY <1>1, <3>1, <3>2
  <2>. QED
    BY <2>1, <2>2
<1>. QED
  BY <1>1 DEF SetupPending

\* What a step of a Draw on the raster thread does to its use of the surface: it
\* begins one only if there is a surface and the threads are not merged; it does not
\* forget that they have changed, and tells a call that waits.
Begins(s) ==
    UsesSurface("raster", s)' =>
        \/ UsesSurface("raster", s)
        \/ job["raster"].pc = "draw" /\ surface[s] /\ ~IsMerged
Recalls ==
    Draws("raster") /\ Draws("raster")' /\ job["raster"].config # "same"
        => job'["raster"].config # "same"
Tells == merged' = merged \/ call = NoCall \/ call'.shifted
LEMMA RasterDraws ==
    ASSUME RasterShape, NEW s \in Shells, DrawStep("raster", s), job["raster"].pc \in Working
    PROVE  (\A x \in Shells : Begins(x)) /\ Recalls /\ Tells /\ surface' = surface
<1>. USE DEF RasterShape
<1>0. "raster" \in Threads
  BY DEF Threads
<1>1. ASSUME LeaveFrame("raster", s)
      PROVE  (\A x \in Shells : Begins(x)) /\ Recalls /\ Tells /\ surface' = surface
  <2>1. /\ job["raster"].pc = "draw" /\ job["raster"].shell = s /\ surface' = surface
        /\ Tells
    BY <1>0, <1>1 DEF LeaveFrame, At, mergerVars, engineVars, platformVars, Tells
  <2>2. /\ job'["raster"].pc \in {"idle"}
        /\ job'["raster"].pc # "idle" => /\ job'["raster"].shell = s
                                        /\ job'["raster"].config = job["raster"].config
    BY <1>0, <1>1
       DEF LeaveFrame, At, mergerVars, engineVars, platformVars, JobsShape, JobRec, Idle
  <2>. QED
    BY <2>1, <2>2 DEF Begins, Recalls, UsesSurface, Draws, Painting, Leaving
<1>2. ASSUME NEW resized \in BOOLEAN, Consume("raster", s, resized)
      PROVE  (\A x \in Shells : Begins(x)) /\ Recalls /\ Tells /\ surface' = surface
  <2>1. job["raster"].pc = "draw" /\ surface' = surface /\ Tells /\ ~IsMerged
    BY <1>0, <1>2 DEF Consume, At, mergerVars, Tells, IsOnRasterizingThread
  <2>2. /\ job'["raster"].pc \in {"finish", "layers", "preroll"} /\ job'["raster"].shell = s
        /\ ~surface[s] => job'["raster"].pc = "finish"
    BY <1>0, <1>2 DEF Consume, At, JobsShape, JobRec
  <2>. QED
    BY <2>1, <2>2 DEF Begins, Recalls, UsesSurface, Draws, Painting, Leaving
<1>3. ASSUME PostPrerollAction("raster", s)
      PROVE  (\A x \in Shells : Begins(x)) /\ Recalls /\ Tells /\ surface' = surface
  <2>1. /\ job["raster"].pc = "preroll" /\ job["raster"].shell = s /\ surface' = surface
        /\ Tells
    BY <1>0, <1>3
       DEF PostPrerollAction, At, Goes, mergerVars, frameVars, platformVars, engineVars, Tells
  <2>2. /\ job'["raster"].pc \in {"decrement", "extend", "merge"}
        /\ job'["raster"].pc # "idle" => /\ job'["raster"].shell = s
                                        /\ job'["raster"].config = job["raster"].config
    BY <1>0, <1>3
       DEF PostPrerollAction, At, Goes, mergerVars, frameVars, platformVars, JobsShape, JobRec,
           Idle
  <2>. QED
    BY <2>1, <2>2 DEF Begins, Recalls, UsesSurface, Draws, Painting, Leaving
<1>4. ASSUME MergeIfEnabled("raster", s)
      PROVE  (\A x \in Shells : Begins(x)) /\ Recalls /\ Tells /\ surface' = surface
  <2>1. /\ job["raster"].pc = "merge" /\ job["raster"].shell = s /\ surface' = surface
        /\ Tells
    BY <1>0, <1>4
       DEF MergeIfEnabled, At, Goes, mergerVars, frameVars, engineVars, platformVars, Tells
  <2>2. /\ job'["raster"].pc \in {"subsume", "decrement"}
        /\ job'["raster"].pc # "idle" => /\ job'["raster"].shell = s
                                        /\ job'["raster"].config = job["raster"].config
    BY <1>0, <1>4
       DEF MergeIfEnabled, At, Goes, mergerVars, frameVars, engineVars, platformVars, JobsShape,
           JobRec, Idle
  <2>. QED
    BY <2>1, <2>2 DEF Begins, Recalls, UsesSurface, Draws, Painting, Leaving
<1>5. ASSUME MergeQueues("raster", s)
      PROVE  (\A x \in Shells : Begins(x)) /\ Recalls /\ Tells /\ surface' = surface
  <2>. DEFINE r == [job["raster"] EXCEPT !.pc = "record"]
  <2>1. /\ job["raster"].pc = "subsume" /\ job["raster"].shell = s /\ surface' = surface
        /\ Tells /\ job["raster"] \in JobRec
    BY <1>0, <1>5 DEF MergeQueues, At, engineVars, Tells, JobsShape, Shifted, CallShape, CallRec
  <2>2. /\ r.pc = "record" /\ r \in JobRec /\ r.shell = s
        /\ r.config = job["raster"].config
    BY <2>1 DEF JobRec, JobPCs, Painting, Leaving
  <2>3. Shift("raster", r) \/ job' = [job EXCEPT !["raster"].pc = "decrement"]
    BY <1>5 DEF MergeQueues, Goes
  <2>. HIDE DEF r
  <2>4. /\ job'["raster"].pc \in {"record", "decrement"} /\ job'["raster"].shell = s
        /\ job["raster"].config # "same" => job'["raster"].config # "same"
    BY <1>0, <2>1, <2>2, <2>3 DEF Shift, JobsShape, JobRec
  <2>. QED
    BY <2>1, <2>4 DEF Begins, Recalls, UsesSurface, Draws, Painting, Leaving
<1>6. ASSUME SaveLease("raster", s)
      PROVE  (\A x \in Shells : Begins(x)) /\ Recalls /\ Tells /\ surface' = surface
  <2>. DEFINE r == [job["raster"] EXCEPT !.pc = "decrement"]
  <2>1. /\ job["raster"].pc = "record" /\ job["raster"].shell = s /\ surface' = surface
        /\ Tells /\ job["raster"] \in JobRec
    BY <1>0, <1>6 DEF SaveLease, At, engineVars, Tells, JobsShape
  <2>2. /\ r.pc = "decrement" /\ r \in JobRec /\ r.shell = s
        /\ r.config = job["raster"].config
    BY <2>1 DEF JobRec, JobPCs, Painting, Leaving
  <2>3. Shift("raster", r)
    BY <1>6 DEF SaveLease
  <2>. HIDE DEF r
  <2>4. /\ job'["raster"].pc \in {"decrement"} /\ job'["raster"].shell = s
        /\ job["raster"].config # "same" => job'["raster"].config # "same"
    BY <1>0, <2>1, <2>2, <2>3 DEF Shift, JobsShape, JobRec
  <2>. QED
    BY <2>1, <2>4 DEF Begins, Recalls, UsesSurface, Draws, Painting, Leaving
<1>7. ASSUME ExtendLeaseTo("raster", s)
      PROVE  (\A x \in Shells : Begins(x)) /\ Recalls /\ Tells /\ surface' = surface
  <2>. DEFINE r == [job["raster"] EXCEPT !.pc = "submit", !.retry = ~embedder[s].previous]
  <2>1. /\ job["raster"].pc = "extend" /\ job["raster"].shell = s /\ surface' = surface
        /\ Tells /\ job["raster"] \in JobRec
    BY <1>0, <1>7 DEF ExtendLeaseTo, At, engineVars, Tells, JobsShape
  <2>2. /\ r.pc = "submit" /\ r \in JobRec /\ r.shell = s
        /\ r.config = job["raster"].config
    BY <2>1 DEF JobRec, JobPCs, Painting, Leaving
  <2>3. Shift("raster", r) \/ job' = [job EXCEPT !["raster"] = r]
    BY <1>7 DEF ExtendLeaseTo
  <2>. HIDE DEF r
  <2>4. /\ job'["raster"].pc \in {"submit"} /\ job'["raster"].shell = s
        /\ job["raster"].config # "same" => job'["raster"].config # "same"
    BY <1>0, <2>1, <2>2, <2>3 DEF Shift, JobsShape, JobRec
  <2>. QED
    BY <2>1, <2>4 DEF Begins, Recalls, UsesSurface, Draws, Painting, Leaving
<1>8. ASSUME NEW overlay \in BOOLEAN, SubmitFlutterView("raster", s, overlay)
      PROVE  (\A x \in Shells : Begins(x)) /\ Recalls /\ Tells /\ surface' = surface
  <2>1. /\ job["raster"].pc = "submit" /\ job["raster"].shell = s /\ surface' = surface
        /\ Tells
    BY <1>0, <1>8
       DEF SubmitFlutterView, At, Goes, mergerVars, frameVars, platformVars, engineVars, Tells
  <2>2. /\ job'["raster"].pc \in {"decrement"}
        /\ job'["raster"].pc # "idle" => /\ job'["raster"].shell = s
                                        /\ job'["raster"].config = job["raster"].config
    BY <1>0, <1>8
       DEF SubmitFlutterView, At, Goes, mergerVars, frameVars, platformVars, JobsShape, JobRec,
           Idle
  <2>. QED
    BY <2>1, <2>2 DEF Begins, Recalls, UsesSurface, Draws, Painting, Leaving
<1>9. ASSUME DecrementIfMerged("raster", s)
      PROVE  (\A x \in Shells : Begins(x)) /\ Recalls /\ Tells /\ surface' = surface
  <2>1. /\ job["raster"].pc = "decrement" /\ job["raster"].shell = s /\ surface' = surface
        /\ Tells
    BY <1>0, <1>9
       DEF DecrementIfMerged, At, Goes, mergerVars, frameVars, engineVars, platformVars, Tells
  <2>2. /\ job'["raster"].pc \in {"spend", "finish"}
        /\ job'["raster"].pc # "idle" => /\ job'["raster"].shell = s
                                        /\ job'["raster"].config = job["raster"].config
    BY <1>0, <1>9
       DEF DecrementIfMerged, At, Goes, mergerVars, frameVars, engineVars, platformVars,
           JobsShape, JobRec, Idle
  <2>. QED
    BY <2>1, <2>2 DEF Begins, Recalls, UsesSurface, Draws, Painting, Leaving
<1>10. ASSUME DecrementLease("raster", s)
      PROVE  (\A x \in Shells : Begins(x)) /\ Recalls /\ Tells /\ surface' = surface
  <2>. DEFINE r == [job["raster"] EXCEPT !.pc = "part"]
  <2>1. /\ job["raster"].pc = "spend" /\ job["raster"].shell = s /\ surface' = surface
        /\ Tells /\ job["raster"] \in JobRec
    BY <1>0, <1>10 DEF DecrementLease, At, engineVars, Tells, JobsShape
  <2>2. /\ r.pc = "part" /\ r \in JobRec /\ r.shell = s
        /\ r.config = job["raster"].config
    BY <2>1 DEF JobRec, JobPCs, Painting, Leaving
  <2>3. Shift("raster", r) \/ job' = [job EXCEPT !["raster"].pc = "finish"]
    BY <1>10 DEF DecrementLease, Goes
  <2>. HIDE DEF r
  <2>4. /\ job'["raster"].pc \in {"part", "finish"} /\ job'["raster"].shell = s
        /\ job["raster"].config # "same" => job'["raster"].config # "same"
    BY <1>0, <2>1, <2>2, <2>3 DEF Shift, JobsShape, JobRec
  <2>. QED
    BY <2>1, <2>4 DEF Begins, Recalls, UsesSurface, Draws, Painting, Leaving
<1>11. ASSUME Unmerge("raster", s)
      PROVE  (\A x \in Shells : Begins(x)) /\ Recalls /\ Tells /\ surface' = surface
  <2>1. /\ job["raster"].pc = "part" /\ job["raster"].shell = s /\ surface' = surface
        /\ Tells
    BY <1>0, <1>11
       DEF Unmerge, At, Shifted, frameVars, engineVars, mergerVars, Tells, CallShape, CallRec
  <2>2. /\ job'["raster"].pc \in {"finish"}
        /\ job'["raster"].pc # "idle" => /\ job'["raster"].shell = s
                                        /\ job'["raster"].config = job["raster"].config
    BY <1>0, <1>11 DEF Unmerge, At, Shifted, frameVars, engineVars, JobsShape, JobRec, Idle
  <2>. QED
    BY <2>1, <2>2 DEF Begins, Recalls, UsesSurface, Draws, Painting, Leaving
<1>12. ASSUME FinishDraw("raster", s)
      PROVE  (\A x \in Shells : Begins(x)) /\ Recalls /\ Tells /\ surface' = surface
  <2>1. /\ job["raster"].pc = "finish" /\ job["raster"].shell = s /\ surface' = surface
        /\ Tells
    BY <1>0, <1>12
       DEF FinishDraw, At, Goes, PushBack, EndDraw, mergerVars, engineVars, platformVars, Tells
  <2>2. /\ job'["raster"].pc \in {"idle", "signal"}
        /\ job'["raster"].pc # "idle" => /\ job'["raster"].shell = s
                                        /\ job'["raster"].config = job["raster"].config
    BY <1>0, <1>12
       DEF FinishDraw, At, Goes, PushBack, EndDraw, mergerVars, engineVars, platformVars,
           JobsShape, JobRec, Idle
  <2>. QED
    BY <2>1, <2>2 DEF Begins, Recalls, UsesSurface, Draws, Painting, Leaving
<1>13. ASSUME PostAgain("raster", s)
      PROVE  (\A x \in Shells : Begins(x)) /\ Recalls /\ Tells /\ surface' = surface
  <2>1. /\ job["raster"].pc = "signal" /\ job["raster"].shell = s /\ surface' = surface
        /\ Tells
    BY <1>0, <1>13 DEF PostAgain, At, EndDraw, mergerVars, engineVars, platformVars, Tells
  <2>2. /\ job'["raster"].pc \in {"idle"}
        /\ job'["raster"].pc # "idle" => /\ job'["raster"].shell = s
                                        /\ job'["raster"].config = job["raster"].config
    BY <1>0, <1>13
       DEF PostAgain, At, EndDraw, mergerVars, engineVars, platformVars, JobsShape, JobRec, Idle
  <2>. QED
    BY <2>1, <2>2 DEF Begins, Recalls, UsesSurface, Draws, Painting, Leaving
<1>14. /\ ~Setup("raster", s) /\ ~Teardown("raster", s) /\ ~UnMergeNowIfLastOne("raster", s)
        /\ ~UnmergeNow("raster", s)
  BY DEF Setup, Teardown, UnMergeNowIfLastOne, UnmergeNow, At, Working, Painting, Leaving
<1>. QED
  BY <1>1, <1>2, <1>3, <1>4, <1>5, <1>6, <1>7, <1>8, <1>9, <1>10, <1>11, <1>12, <1>13, <1>14
     DEF DrawStep

\* A teardown that the platform thread runs itself finds the leases merged, unless the
\* raster thread has merged or parted meanwhile.
LEMMA LeasesSayMerged ==
    ASSUME MergeInv, ~aborted, merged, SharedFree PROVE IsMerged
  BY DEF MergeInv, Agreement

\* A step of a Draw takes nothing away: the platform thread draws only outside of calls,
\* and the raster thread as above.
LEMMA SuspendInDraw ==
    ASSUME RasterShape, TornDown, MergeInv, ~aborted, SuspendInv, NEW t \in Threads,
           NEW s \in Shells, DrawStep(t, s), job[t].pc \in Working
    PROVE  SuspendInv'
<1>1. InDraw(t) /\ Posts(s)
  BY DrawMoves DEF RasterShape
<1>2. \A u \in Threads : /\ Tearing(u)' => Tearing(u) /\ job'[u].pc = job[u].pc
                         /\ job'[u].pc = "setup" => job'[u] = job[u]
  <2>1. ~Tearing(t)' /\ job'[t].pc # "setup"
    BY <1>1 DEF InDraw, Tearing, Working, Painting, Leaving
  <2>2. ASSUME NEW u \in Threads \ {t}
        PROVE  /\ Tearing(u)' => Tearing(u) /\ job'[u].pc = job[u].pc
               /\ job'[u].pc = "setup" => job'[u] = job[u]
    BY <1>1 DEF InDraw, Tearing, Draws, Painting, Leaving
  <2>. QED
    BY <2>1, <2>2
<1>3. /\ call' = call \/ call' = Shifted(t)
      /\ call = NoCall \/ call \in CallRec
  BY <1>1 DEF InDraw, RasterShape, CallShape
<1>4. CASE call = NoCall
  <2>1. call'.stage # "torn"
    BY <1>3, <1>4 DEF Shifted, NoCall
  <2>2. \A u \in Threads : ~Tearing(u)
    BY <1>4, NobodyTears DEF NoCall
  <2>. QED
    BY <1>2, <2>1, <2>2, NotTearing
<1>5. CASE call # NoCall
  <2>1. t = "raster"
    BY <1>5 DEF TornDown, CallHoldsPlatform, Idle, Tearing, Working, Painting, Leaving, Threads
  <2>2. (\A x \in Shells : Begins(x)) /\ Recalls /\ Tells /\ surface' = surface
    BY <2>1, RasterDraws
  <2>3. PICK c \in Shells : c = call.shell
    BY <1>3, <1>5 DEF CallRec
  <2>4. /\ call'.stage = call.stage /\ call'.shell = c /\ call'.late = call.late
        /\ call.shifted => call'.shifted
    BY <1>3, <1>5, <2>3 DEF Shifted, CallRec
  <2>5. SetupPending(c)' => SetupPending(c)
    <3>1. Task("draw", s) \in TaskRec /\ Task("draw", s).kind # "setup"
      BY DEF Task, TaskRec
    <3>. QED
      BY <1>1, <1>2, <3>1, PendingSame DEF Posts, RasterShape
  <2>6. TornNow' => TornNow
    BY <1>2, <2>4 DEF TornNow, Tearing
  <2>7. Apart(c) /\ ~(job["raster"].pc = "draw" /\ surface[c] /\ ~IsMerged) => Apart(c)'
    BY <2>2 DEF Apart, Begins, Recalls, UsesSurface, Draws, Painting, Leaving
  <2>8. RunsItself'
    <3>. SUFFICES ASSUME job'["platform"].pc = "teardown", ~call'.shifted
         PROVE  merged' /\ Apart(c)'
      BY <2>4 DEF RunsItself, Apart, UsesSurface
    <3>1. job["platform"].pc = "teardown"
      BY <1>2 DEF Tearing, Threads
    <3>2. merged /\ Apart(c)
      BY <2>3, <2>4, <3>1 DEF SuspendInv, RunsItself, Apart, UsesSurface
    <3>3. merged'
      BY <1>5, <2>2, <3>2 DEF Tells
    <3>4. CASE SharedFree
      BY <2>7, <3>2, <3>3, <3>4, LeasesSayMerged
    <3>5. CASE ~SharedFree
      <4>1. job["raster"].pc \in {"record", "part"}
        BY <2>1, <3>1, <3>5 DEF SharedFree, SharedHeld, Working, Painting, Leaving, Threads
      <4>. QED
        BY <2>7, <3>2, <3>3, <4>1
    <3>. QED
      BY <3>4, <3>5
  <2>9. LeftAlone'
    <3>. SUFFICES ASSUME TornNow', ~call'.late
         PROVE  ~surface'[c] /\ ~SetupPending(c)' /\ (~call'.shifted => Apart(c)')
      BY <2>4 DEF LeftAlone, Apart, UsesSurface, SetupPending
    <3>1. ~surface[c] /\ ~SetupPending(c) /\ (~call.shifted => Apart(c))
      BY <2>3, <2>4, <2>6 DEF SuspendInv, LeftAlone
    <3>. QED
      BY <2>2, <2>4, <2>5, <2>7, <3>1
  <2>. QED
    BY <2>8, <2>9 DEF SuspendInv
<1>. QED
  BY <1>4, <1>5

\* Every step keeps what is promised of a destroyed view.
LEMMA SuspendKeeps ==
    ASSUME RasterShape, TornDown, MergeInv, DrawInv, SuspendInv, RasterNext PROVE SuspendInv'
<1>. USE DEF RasterShape
<1>0. ~aborted
  BY NothingAfterAbort
<1>1. ASSUME NEW s \in Shells, NEW layers \in BOOLEAN, ProduceFrame(s, layers) PROVE SuspendInv'
  <2>1. UNCHANGED <<call, merged, surface, job, tasks>>
    BY <1>1 DEF ProduceFrame, mergerVars, engineVars, platformVars
  <2>2. /\ Apart(call.shell) => Apart(call.shell)'
        /\ SetupPending(call.shell)' => SetupPending(call.shell)
    BY <2>1 DEF Apart, UsesSurface, SetupPending
  <2>. QED
    BY <2>1, <2>2 DEF SuspendInv, RunsItself, LeftAlone, TornNow
<1>2. ASSUME NEW s \in Shells, OnPlatformViewCreated(s) PROVE SuspendInv'
  <2>1. call = NoCall /\ job' = job /\ call'.stage # "torn"
    BY <1>2 DEF OnPlatformViewCreated, Begin, PlatformFree, NoCall
  <2>2. \A t \in Threads : ~Tearing(t)'
    BY <2>1, NobodyTears DEF NoCall, Tearing
  <2>. QED
    BY <2>1, <2>2, NotTearing
<1>3. ASSUME NEW s \in Shells, OnPlatformViewDestroyed(s) PROVE SuspendInv'
  <2>1. call = NoCall /\ job' = job /\ call'.stage # "torn"
    BY <1>3 DEF OnPlatformViewDestroyed, Begin, PlatformFree, NoCall
  <2>2. \A t \in Threads : ~Tearing(t)'
    BY <2>1, NobodyTears DEF NoCall, Tearing
  <2>. QED
    BY <2>1, <2>2, NotTearing
<1>4. ASSUME NEW s \in Shells, DestroyLayers(s) PROVE SuspendInv'
  <2>1. call = NoCall /\ call' = call /\ job["platform"] = Idle
    BY <1>4 DEF DestroyLayers, PlatformFree, platformVars
  <2>2. \A t \in Threads : ~Tearing(t)'
    BY <1>4, <2>1, NobodyTears DEF DestroyLayers, Goes, NoCall, Tearing, JobsShape, JobRec, Threads
  <2>3. call'.stage # "torn"
    BY <2>1 DEF NoCall
  <2>. QED
    BY <2>2, <2>3, NotTearing
<1>5. ASSUME NEW t \in Threads, TakeTask(t) PROVE SuspendInv'
  <2>1. /\ UNCHANGED <<call, merged, surface>> /\ job[t] = Idle /\ tasks # <<>>
        /\ tasks' = Tail(tasks) /\ job' = [job EXCEPT ![t] = Start(Head(tasks))]
        /\ t = "platform" => call = NoCall
    BY <1>5 DEF TakeTask, mergerVars, engineVars, platformVars
  <2>2. /\ tasks[1] \in TaskRec /\ 1 \in DOMAIN tasks /\ Head(tasks) = tasks[1]
        /\ \A i \in DOMAIN tasks' : i + 1 \in DOMAIN tasks /\ tasks'[i] = tasks[i + 1]
    BY <2>1 DEF TasksShape
  <2>3. /\ job'[t].pc = tasks[1].kind /\ job'[t].shell = tasks[1].shell
        /\ \A u \in Threads \ {t} : job'[u] = job[u]
    BY <2>1, <2>2 DEF JobsShape, Start, Idle
  <2>4. TornNow' => TornNow
    BY <2>1, <2>2, <2>3 DEF TornNow, TaskRec
  <2>5. job'["platform"].pc = "teardown" => job["platform"].pc = "teardown"
    <3>1. t = "platform" => tasks[1].kind # "teardown"
      BY <2>1, <2>2 DEF TornDown, TeardownPosted, Waiting, NoCall
    <3>. QED
      BY <2>3, <3>1 DEF Threads
  <2>6. SetupPending(call.shell)' => SetupPending(call.shell)
    <3>1. tasks[1] = [kind |-> tasks[1].kind, shell |-> tasks[1].shell]
      BY <2>2 DEF TaskRec
    <3>2. job'[t].pc = "setup" /\ job'[t].shell = call.shell => tasks[1] = Task("setup", call.shell)
      BY <2>3, <3>1 DEF Task
    <3>3. ASSUME NEW u \in Threads, job'[u].pc = "setup", job'[u].shell = call.shell
          PROVE  SetupPending(call.shell)
      BY <2>2, <2>3, <3>2, <3>3 DEF SetupPending
    <3>4. ASSUME NEW i \in DOMAIN tasks', tasks'[i] = Task("setup", call.shell)
          PROVE  SetupPending(call.shell)
      BY <2>2, <3>4 DEF SetupPending
    <3>. QED
      BY <2>1, <3>3, <3>4 DEF SetupPending
  <2>7. Apart(call.shell) => Apart(call.shell)'
    BY <2>1, <2>2, <2>3 DEF Apart, UsesSurface, Painting, TaskRec, Threads
  <2>. QED
    BY <2>1, <2>4, <2>5, <2>6, <2>7 DEF SuspendInv, RunsItself, LeftAlone
<1>6. ASSUME NEW t \in Threads, NEW s \in Shells, DrawStep(t, s), job[t].pc \in Working
      PROVE  SuspendInv'
  BY <1>0, <1>6, SuspendInDraw
<1>7. ASSUME NEW t \in Threads, NEW s \in Shells, Setup(t, s) PROVE SuspendInv'
  <2>1. /\ job[t].pc = "setup" /\ job[t].shell = s /\ merged' = merged /\ tasks' = tasks
        /\ job' = [job EXCEPT ![t] = Idle] /\ surface' = [surface EXCEPT ![s] = TRUE]
        /\ call' = IF t = "platform" /\ call.stage = "setup" THEN NoCall ELSE call
    BY <1>7 DEF Setup, At
  <2>2. job'[t] = Idle /\ \A u \in Threads \ {t} : job'[u] = job[u]
    BY <2>1 DEF JobsShape
  <2>3. CASE call.stage # "wait" /\ call'.stage # "torn"
    <3>1. \A u \in Threads : ~Tearing(u)'
      BY <2>2, <2>3, NobodyTears DEF Tearing, Idle
    <3>. QED
      BY <2>3, <3>1, NotTearing
  <2>4. CASE call' = call /\ call # NoCall
    <3>0. call.shell \in Shells
      BY <2>4 DEF CallShape, CallRec
    <3>1. (TornNow' => TornNow) /\ SetupPending(s)
      BY <2>1, <2>2, <2>4 DEF TornNow, Idle, SetupPending
    <3>2. job'["platform"].pc = "teardown" => job["platform"].pc = "teardown"
      BY <2>2 DEF Idle, Threads
    <3>3. SetupPending(call.shell)' => SetupPending(call.shell)
      BY <2>1, <2>2, <2>4 DEF SetupPending, Idle
    <3>4. Apart(call.shell) => Apart(call.shell)'
      BY <2>2, <2>4 DEF Apart, UsesSurface, Idle, Painting, Threads
    <3>5. call.shell = s \/ surface'[call.shell] = surface[call.shell]
      BY <2>1, <3>0 DEF FlagShape
    <3>. QED
      BY <2>1, <2>4, <3>1, <3>2, <3>3, <3>4, <3>5 DEF SuspendInv, RunsItself, LeftAlone
  <2>. QED
    BY <2>1, <2>3, <2>4 DEF NoCall
<1>8. ASSUME NEW t \in Threads, NEW s \in Shells, Teardown(t, s) PROVE SuspendInv'
  <2>1. /\ job[t].pc = "teardown" /\ job[t].shell = s /\ merged' = merged /\ tasks' = tasks
        /\ surface' = [surface EXCEPT ![s] = FALSE] /\ Tearing(t)
    BY <1>8 DEF Teardown, At, Tearing
  <2>2. /\ job'[t].pc \in {"unmerge", "idle"} /\ \A u \in Threads \ {t} : job'[u] = job[u]
    BY <1>8 DEF Teardown, Goes, JobsShape, JobRec, Idle
  <2>3. call \in CallRec /\ call.shell = s /\ call.stage = "wait"
    BY <2>1, TearingCalled DEF CallShape, TornDown
  <2>4. call'.shell = s /\ call'.late = SetupPending(s) /\ call'.shifted = call.shifted
    BY <1>8, <2>3 DEF Teardown, CallRec
  <2>5. \A u \in Threads \ {t} : ~Tearing(u)
    BY <2>1 DEF TornDown, TearingAlone
  <2>6. RunsItself'
    BY <2>2, <2>5 DEF RunsItself, Tearing, Threads
  <2>7. SetupPending(s)' => SetupPending(s)
    BY <2>1, <2>2 DEF SetupPending
  <2>8. ~call.shifted => Apart(s)'
    <3>1. CASE t = "raster"
      BY <2>2, <3>1 DEF Apart, UsesSurface, Painting
    <3>2. CASE t = "platform"
      <4>1. ~call.shifted => Apart(s)
        BY <2>1, <2>3, <3>2 DEF SuspendInv, RunsItself
      <4>2. job'["raster"] = job["raster"]
        BY <2>2, <3>2 DEF Threads
      <4>. QED
        BY <4>1, <4>2 DEF Apart, UsesSurface
    <3>. QED
      BY <3>1, <3>2 DEF Threads
  <2>9. LeftAlone'
    <3>1. ~surface'[s]
      BY <2>1 DEF FlagShape
    <3>2. (Apart(call.shell)' <=> Apart(s)') /\ (SetupPending(call.shell)' <=> SetupPending(s)')
      BY <2>4 DEF Apart, UsesSurface, SetupPending
    <3>. QED
      BY <2>4, <2>7, <2>8, <3>1, <3>2 DEF LeftAlone
  <2>. QED
    BY <2>6, <2>9 DEF SuspendInv
<1>9. ASSUME NEW t \in Threads, NEW s \in Shells, UnMergeNowIfLastOne(t, s) PROVE SuspendInv'
  <2>. DEFINE r == [job[t] EXCEPT !.pc = "apart"]
  <2>1. /\ job[t].pc = "unmerge" /\ job[t].shell = s /\ tasks' = tasks /\ surface' = surface
        /\ Tearing(t)
    BY <1>9 DEF UnMergeNowIfLastOne, At, engineVars, Tearing
  <2>3. call \in CallRec /\ call.shell = s /\ call.stage = "wait" /\ TornNow
    BY <2>1, TearingCalled DEF CallShape, TornDown, TornNow
  <2>5. \A u \in Threads \ {t} : ~Tearing(u)
    BY <2>1 DEF TornDown, TearingAlone
  <2>0. \/ Shift(t, r) /\ call' = Shifted(t)
        \/ job' = [job EXCEPT ![t] = Idle] /\ Signal
    BY <1>9 DEF UnMergeNowIfLastOne
  <2>. r.pc = "apart" /\ r \in JobRec
    BY DEF JobsShape, JobRec, JobPCs
  <2>. HIDE DEF r
  <2>2. /\ job'[t].pc \in {"apart", "idle"}
        /\ \A u \in Threads \ {t} :
              /\ job'[u].pc = job[u].pc /\ job'[u].shell = job[u].shell
              /\ job[u].config # "same" => job'[u].config # "same"
    <3>1. CASE Shift(t, r)
      BY <3>1 DEF Shift, JobsShape, JobRec
    <3>2. CASE job' = [job EXCEPT ![t] = Idle]
      BY <3>2 DEF JobsShape, Idle
    <3>. QED
      BY <2>0, <3>1, <3>2
  <2>4. /\ call'.shell = s /\ call'.late = call.late
        /\ call.shifted => call'.shifted
    BY <2>0, <2>3 DEF Shifted, Signal, CallRec
  <2>6. RunsItself'
    BY <2>2, <2>5 DEF RunsItself, Tearing, Threads
  <2>7. SetupPending(s)' => SetupPending(s)
    BY <2>1, <2>2 DEF SetupPending
  <2>8. Apart(s) => Apart(s)'
    BY <2>2 DEF Apart, UsesSurface, Painting, Threads
  <2>9. LeftAlone'
    <3>1. ~call.late => ~surface[s] /\ ~SetupPending(s) /\ (~call.shifted => Apart(s))
      BY <2>3 DEF SuspendInv, LeftAlone
    <3>2. (Apart(call.shell)' <=> Apart(s)') /\ (SetupPending(call.shell)' <=> SetupPending(s)')
      BY <2>4 DEF Apart, UsesSurface, SetupPending
    <3>. QED
      BY <2>1, <2>4, <2>7, <2>8, <3>1, <3>2 DEF LeftAlone
  <2>. QED
    BY <2>6, <2>9 DEF SuspendInv
<1>10. ASSUME NEW t \in Threads, NEW s \in Shells, UnmergeNow(t, s) PROVE SuspendInv'
  <2>1. /\ job[t].pc = "apart" /\ job[t].shell = s /\ tasks' = tasks /\ surface' = surface
        /\ Tearing(t) /\ job' = [job EXCEPT ![t] = Idle] /\ Signal
    BY <1>10 DEF UnmergeNow, At, engineVars, Tearing
  <2>3. call \in CallRec /\ call.shell = s /\ call.stage = "wait" /\ TornNow
    BY <2>1, TearingCalled DEF CallShape, TornDown, TornNow
  <2>5. \A u \in Threads \ {t} : ~Tearing(u)
    BY <2>1 DEF TornDown, TearingAlone
  <2>2. job'[t] = Idle /\ \A u \in Threads \ {t} : job'[u] = job[u]
    BY <2>1 DEF JobsShape
  <2>4. call'.shell = s /\ call'.late = call.late /\ call'.shifted = call.shifted
    BY <2>1, <2>3 DEF Signal, CallRec
  <2>6. RunsItself'
    BY <2>2, <2>5 DEF RunsItself, Tearing, Idle, Threads
  <2>7. SetupPending(s)' => SetupPending(s)
    BY <2>1, <2>2 DEF SetupPending, Idle
  <2>8. Apart(s) => Apart(s)'
    BY <2>2 DEF Apart, UsesSurface, Painting, Idle, Threads
  <2>9. LeftAlone'
    <3>1. ~call.late => ~surface[s] /\ ~SetupPending(s) /\ (~call.shifted => Apart(s))
      BY <2>3 DEF SuspendInv, LeftAlone
    <3>2. (Apart(call.shell)' <=> Apart(s)') /\ (SetupPending(call.shell)' <=> SetupPending(s)')
      BY <2>4 DEF Apart, UsesSurface, SetupPending
    <3>. QED
      BY <2>1, <2>4, <2>7, <2>8, <3>1, <3>2 DEF LeftAlone
  <2>. QED
    BY <2>6, <2>9 DEF SuspendInv
<1>11. ASSUME SignalFrame PROVE SuspendInv'
  <2>1. UNCHANGED <<call, merged, surface, job>>
    BY <1>11 DEF SignalFrame, mergerVars, engineVars, platformVars
  <2>2. SetupPending(call.shell)' => SetupPending(call.shell)
    <3>1. PICK c : c = call.shell
      OBVIOUS
    <3>2. Task("draw", commit.shell) \in TaskRec /\ Task("draw", commit.shell).kind # "setup"
      BY <1>11 DEF SignalFrame, CommitShape, Task, TaskRec
    <3>3. tasks' = tasks \/ tasks' = Append(tasks, Task("draw", commit.shell))
      BY <1>11 DEF SignalFrame
    <3>4. SetupPending(c)' => SetupPending(c)
      BY <2>1, <3>2, <3>3, PendingSame
    <3>. QED
      BY <2>1, <3>1, <3>4 DEF SetupPending
  <2>3. Apart(call.shell) => Apart(call.shell)'
    BY <2>1 DEF Apart, UsesSurface
  <2>. QED
    BY <2>1, <2>2, <2>3 DEF SuspendInv, RunsItself, LeftAlone, TornNow
<1>12. ASSUME ShouldPostSetup PROVE SuspendInv'
  <2>0. call.stage = "created" /\ call \in CallRec
    BY <1>12 DEF ShouldPostSetup, CallShape, NoCall
  <2>1. call'.stage # "torn"
    BY <1>12, <2>0 DEF ShouldPostSetup, CallRec
  <2>2. \A t \in Threads : ~Tearing(t)'
    <3>1. \A t \in Threads : ~Tearing(t)
      BY <2>0, NobodyTears
    <3>2. Start(Task("setup", call.shell)).pc = "setup"
      BY DEF Start, Task, Idle
    <3>. QED
      BY <1>12, <3>1, <3>2 DEF ShouldPostSetup, Tearing, JobsShape, Threads
  <2>. QED
    BY <2>1, <2>2, NotTearing
<1>13. ASSUME IoPostsSetup PROVE SuspendInv'
  <2>0. call.stage = "post" /\ call' = NoCall /\ job' = job
    BY <1>13 DEF IoPostsSetup
  <2>1. call'.stage # "torn"
    BY <2>0 DEF NoCall
  <2>2. \A t \in Threads : ~Tearing(t)'
    BY <2>0, NobodyTears DEF Tearing
  <2>. QED
    BY <2>1, <2>2, NotTearing
<1>14. ASSUME RunNowOrPostTeardown PROVE SuspendInv'
  <2>1. call.stage = "destroyed" /\ call \in CallRec /\ merged' = merged
    BY <1>14 DEF RunNowOrPostTeardown, CallShape, NoCall, mergerVars
  <2>2. (\A t \in Threads : ~Tearing(t)) /\ job["platform"] = Idle
    <3>1. \A t \in Threads : ~Tearing(t)
      BY <2>1, NobodyTears
    <3>2. call # NoCall
      BY <2>1 DEF NoCall
    <3>. QED
      BY <2>1, <3>1, <3>2 DEF TornDown, CallHoldsPlatform
  <2>3. call'.stage = "wait" /\ call'.shell = call.shell
    BY <1>14, <2>1 DEF RunNowOrPostTeardown, CallRec
  <2>4. CASE merged
    <3>1. Start(Task("teardown", call.shell)).pc = "teardown"
      BY DEF Start, Task, Idle
    <3>2. job'["raster"] = job["raster"] /\ job'["platform"].pc = "teardown"
      BY <1>14, <2>4, <3>1 DEF RunNowOrPostTeardown, JobsShape, Threads
    <3>3. LeftAlone'
      BY <2>2, <2>3, <3>2 DEF LeftAlone, TornNow, Tearing, Threads
    <3>4. ~(Draws("raster") /\ job["raster"].config = "same")
      <4>. SUFFICES ASSUME Draws("raster"), job["raster"].config = "same" PROVE FALSE
        OBVIOUS
      <4>1. DrawsWhereItMay("raster")
        BY DEF DrawInv, Threads
      <4>2. SharedFree
        BY <2>2, <4>1 DEF DrawsWhereItMay, Draws, SharedFree, SharedHeld, Painting, Leaving,
                          Idle, Threads
      <4>3. IsMerged
        BY <1>0, <2>4, <4>2, LeasesSayMerged
      <4>4. ("raster" = "platform") = IsMerged
        BY <4>1 DEF DrawsWhereItMay
      <4>. QED
        BY <4>3, <4>4
    <3>5. \A x : Apart(x)'
      BY <3>2, <3>4 DEF Apart, UsesSurface, Draws, Leaving
    <3>6. RunsItself'
      BY <2>1, <2>4, <3>5 DEF RunsItself, Apart, UsesSurface
    <3>. QED
      BY <3>3, <3>6 DEF SuspendInv
  <2>5. CASE ~merged
    <3>1. job' = job
      BY <1>14, <2>5 DEF RunNowOrPostTeardown
    <3>. QED
      BY <2>2, <2>3, <3>1, NotTearing DEF Tearing
  <2>. QED
    BY <2>4, <2>5
<1>15. ASSUME TeardownExternalViewEmbedder PROVE SuspendInv'
  <2>0. call.stage = "torn" /\ call' = NoCall /\ job' = job
    BY <1>15 DEF TeardownExternalViewEmbedder
  <2>1. call'.stage # "torn"
    BY <2>0 DEF NoCall
  <2>2. \A t \in Threads : ~Tearing(t)'
    BY <2>0, NobodyTears DEF Tearing
  <2>. QED
    BY <2>1, <2>2, NotTearing
<1>. QED
  BY <1>1, <1>2, <1>3, <1>4, <1>5, <1>6, <1>7, <1>8, <1>9, <1>10, <1>11, <1>12, <1>13, <1>14,
     <1>15, NotInDraw
     DEF RasterNext, ThreadStep, CallStep

\* What is promised is enough when the call returns.
LEMMA ReturnsSuspended ==
    ASSUME RasterShape, TornDown, SuspendInv, RasterNext, call.stage = "torn",
           call'.stage = "none"
    PROVE  /\ surface[call.shell] => call.late
           /\ \A t \in Threads : UsesSurface(t, call.shell) =>
                 \/ call.late \/ call.shifted
                 \/ t = "raster" /\ job[t].config # "same"
<1>1. call # NoCall /\ TornNow
  BY DEF NoCall, TornNow
<1>2. job["platform"] = Idle
  BY <1>1 DEF TornDown, CallHoldsPlatform
<1>3. ~UsesSurface("platform", call.shell)
  BY <1>2 DEF UsesSurface, Idle, Painting
<1>4. ~call.late => ~surface[call.shell] /\ (~call.shifted => Apart(call.shell))
  BY <1>1 DEF SuspendInv, LeftAlone
<1>. QED
  BY <1>3, <1>4 DEF Apart, Threads

-----------------------------------------------------------------------------
(* The invariant and the theorems of the raster threads *)

RasterInv ==
    /\ RasterShape /\ PlacesKept /\ TornDown
    /\ MergeInv /\ DrawInv /\ SuspendInv /\ NoFrameForgotten

\* It holds when the shells have been shown, with no frame and no call.
LEMMA RasterInitially == RasterInit => RasterInv
<1>. SUFFICES ASSUME RasterInit PROVE RasterInv
  OBVIOUS
<1>1. /\ \A t \in Threads : job[t] = Idle
      /\ call = NoCall /\ tasks = <<>> /\ DOMAIN tasks = {} /\ commit = NoPush /\ ~aborted
  BY DEF RasterInit
<1>2. DOMAIN lease = {} /\ ~IsMerged /\ ~merged /\ ~strayed
  BY DEF RasterInit, IsMerged
<1>3. \A s \in Shells : frames[s] = <<>> /\ Len(frames[s]) = 0
  BY DEF RasterInit
<1>4. \A t \in Threads : ~Draws(t) /\ job[t].pc = "idle"
  BY <1>1 DEF Draws, Idle, Painting, Leaving
<1>5. RasterShape
  <2>1. LeaseShape /\ CallShape /\ TasksShape /\ CommitShape
    BY <1>1, <1>2, EmptySeq DEF LeaseShape, CallShape, TasksShape, CommitShape
  <2>2. FlagShape /\ FramesShape
    BY <1>2, EmptySeq DEF RasterInit, FlagShape, FramesShape
  <2>3. JobsShape
    BY DEF RasterInit, JobsShape, JobRec, JobPCs, JobShape, Idle
  <2>. QED
    BY <2>1, <2>2, <2>3 DEF RasterShape
<1>6. PlacesKept
  <2>. SUFFICES ASSUME NEW s \in Shells PROVE Places(s) >= 0
    BY DEF PlacesKept
  <2>1. ~Holds("raster", s) /\ ~Holds("platform", s)
    BY <1>4 DEF Holds, Threads
  <2>2. Drawing(s) = 0
    BY <2>1, DrawingIsSum DEF One
  <2>. QED
    BY <1>3, <2>2, RasterAssumption DEF RasterAssumption, Places
<1>7. TornDown
  BY <1>1, <1>4 DEF TornDown, TearingAlone, TeardownPosted, CallHoldsPlatform, Tearing
<1>8. MergeInv
  <2>1. \A t \in Threads : job[t].pc \notin SharedHeld /\ job[t].pc # "record"
    BY <1>4 DEF SharedHeld
  <2>2. merged = IsMerged
    BY <1>2 DEF RasterInit, IsMerged
  <2>. QED
    BY <1>2, <2>1, <2>2 DEF MergeInv, OneHolds, Agreement
<1>9. DrawInv
  BY <1>4 DEF DrawInv, DrawsWhereItMay
<1>10. SuspendInv
  BY <1>1, <1>4 DEF SuspendInv, RunsItself, LeftAlone, TornNow, NoCall, Threads
<1>11. NoFrameForgotten
  BY <1>3 DEF NoFrameForgotten
<1>. QED
  BY <1>5, <1>6, <1>7, <1>8, <1>9, <1>10, <1>11 DEF RasterInv

\* It is kept by every step.
LEMMA RasterKeeps == RasterInv /\ [RasterNext]_threadVars => RasterInv'
<1>1. ASSUME RasterInv, RasterNext PROVE RasterInv'
  <2>1. RasterShape'
    BY <1>1, ShapeKeeps DEF RasterInv, TornDown
  <2>2. PlacesKept' /\ TornDown'
    BY <1>1, PlacesKeep, TornKeeps DEF RasterInv
  <2>3. MergeInv' /\ DrawInv'
    BY <1>1, <2>1, MergeKeeps, DrawKeeps DEF RasterInv
  <2>4. SuspendInv' /\ NoFrameForgotten'
    BY <1>1, SuspendKeeps, FramesKeep DEF RasterInv
  <2>. QED
    BY <2>1, <2>2, <2>3, <2>4 DEF RasterInv
<1>2. ASSUME RasterInv, UNCHANGED threadVars PROVE RasterInv'
  <2>. USE <1>2 DEF threadVars, mergerVars, frameVars, engineVars, platformVars
  <2>1. RasterShape'
    BY DEF RasterInv, RasterShape, LeaseShape, FlagShape, JobsShape, CallShape, TasksShape,
           FramesShape, CommitShape
  <2>2. TornDown'
    BY DEF RasterInv, TornDown, TearingAlone, TeardownPosted, CallHoldsPlatform, Tearing, Waiting
  <2>3. PlacesKept'
    BY DEF RasterInv, PlacesKept, Places, Drawing, Draws
  <2>4. IsMerged' = IsMerged
    BY DEF IsMerged
  <2>5. MergeInv'
    BY <2>4 DEF RasterInv, MergeInv, OneHolds, Agreement, SharedFree
  <2>6. DrawInv'
    BY <2>4 DEF RasterInv, DrawInv, DrawsWhereItMay, Draws
  <2>7. SuspendInv'
    BY DEF RasterInv, SuspendInv, RunsItself, LeftAlone, TornNow, Apart, UsesSurface, SetupPending
  <2>8. NoFrameForgotten'
    BY DEF RasterInv, NoFrameForgotten, Attended, Draws
  <2>. QED
    BY <2>1, <2>2, <2>3, <2>5, <2>6, <2>7, <2>8 DEF RasterInv
<1>. QED
  BY <1>1, <1>2

\* The invariant holds throughout.
LEMMA RasterInvariant == RasterSpec => []RasterInv
  BY RasterInitially, RasterKeeps, PTL DEF RasterSpec

\* The threads, the leases, the pipelines and the calls are well formed throughout; no
\* pipeline holds more frames than it has places for, those being drawn included.
THEOREM RasterTypeCorrect == RasterSpec => []RasterTypeOK
<1>1. RasterInv => RasterTypeOK
  <2>. SUFFICES ASSUME RasterInv PROVE RasterTypeOK
    OBVIOUS
  <2>. USE DEF RasterInv, RasterShape
  <2>1. DOMAIN lease \subseteq Shells /\ \A s \in DOMAIN lease : lease[s] \in 0..MaxLease
    BY DEF LeaseShape
  <2>2. {enabled, merged, strayed, aborted} \subseteq BOOLEAN
    BY DEF FlagShape
  <2>3. \A i \in DOMAIN tasks : tasks[i] \in [kind : {"draw", "setup", "teardown"}, shell : Shells]
    <3>1. DOMAIN tasks = 1..Len(tasks) /\ \A i \in 1..Len(tasks) : tasks[i] \in TaskRec
      BY ElementOfSeq DEF TasksShape
    <3>. QED
      BY <3>1 DEF TaskRec
  <2>4. ASSUME NEW t \in Threads, job[t] # Idle
        PROVE  /\ job[t].shell \in Shells /\ job[t].config \in {"same", "own", "other"}
               /\ Draws(t) \/ job[t].pc \in {"draw", "setup", "teardown", "unmerge", "apart"}
    <3>1. job[t] \in JobRec /\ JobShape(job[t])
      BY DEF JobsShape
    <3>2. job[t].pc # "idle" /\ job[t].shell \in Shells
      BY <2>4, <3>1 DEF JobShape
    <3>. QED
      BY <3>1, <3>2 DEF JobRec, JobPCs, Draws
  <2>5. call = NoCall \/ /\ call.shell \in Shells
                         /\ call.stage \in {"created", "setup", "post", "destroyed", "wait", "torn"}
    BY DEF CallShape, CallRec
  <2>6. commit = NoPush \/ commit.shell \in Shells
    BY DEF CommitShape
  <2>7. \A s \in Shells : missed[s] \in BOOLEAN /\ Places(s) >= 0
    BY DEF FramesShape, PlacesKept
  <2>. QED
    BY <2>1, <2>2, <2>3, <2>4, <2>5, <2>6, <2>7 DEF RasterTypeOK
<1>. QED
  BY <1>1, RasterInvariant, PTL

\* A Draw that begins on one thread is alone in drawing until somebody merges or parts
\* the threads, and two Draws paint at once only where one was overtaken by that
\* (Rasterizer::Draw and the mergers).
THEOREM OneThreadRasterizes == RasterSpec => []OneRasterizes
<1>1. RasterInv => OneRasterizes
  BY OneDraws DEF RasterInv, RasterShape
<1>. QED
  BY <1>1, RasterInvariant, PTL

\* Between their critical sections the shared merger and the task queues agree on
\* whether the threads are merged, as long as no lease was extended by a Draw under
\* which they were parted (shared_thread_merger.cc).
THEOREM LeasesAndQueuesAgree == RasterSpec => []LeaseMatchesQueues
<1>1. RasterInv => LeaseMatchesQueues
  BY DEF RasterInv, MergeInv, Agreement, LeaseMatchesQueues
<1>. QED
  BY <1>1, RasterInvariant, PTL

\* A frame in a pipeline has a Draw to come for it, through frames skipped, resubmitted
\* and drawn while the threads part, unless a Draw has left it where it is.
THEOREM FramesAreAttended == RasterSpec => []NoFrameForgotten
<1>1. RasterInv => NoFrameForgotten
  BY DEF RasterInv
<1>. QED
  BY <1>1, RasterInvariant, PTL

\* When OnPlatformViewDestroyed returns the rasterizer of that shell has no surface and
\* nobody works on one, with the three exceptions the property names (shell.cc:1027).
THEOREM DestroyedViewsAreSuspended == RasterSpec => SuspendedOnReturn
<1>1. RasterInv /\ [RasterNext]_threadVars =>
        [call.stage = "torn" /\ call'.stage = "none" =>
            /\ surface[call.shell] => call.late
            /\ \A t \in Threads : UsesSurface(t, call.shell) =>
                  \/ call.late \/ call.shifted
                  \/ t = "raster" /\ job[t].config # "same"]_threadVars
  BY ReturnsSuspended DEF RasterInv
<1>. QED
  BY <1>1, RasterInvariant, PTL DEF RasterSpec, SuspendedOnReturn
=============================================================================
