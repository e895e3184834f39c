------------------------------- MODULE FrameQueue -------------------------------
(***************************************************************************)
(* What the frame pipeline of shell/common/pipeline.h promises: "a         *)
(* thread-safe queue of resources [...] with a maximum queue depth".  A    *)
(* place is held before an item is put there, and again while the item     *)
(* that was taken is consumed; places held and items together never exceed *)
(* the capacity, and items leave in the order they came.                   *)
(***************************************************************************)
EXTENDS Integers, Sequences

CONSTANTS Items, Capacity

VARIABLES
    fifo,   \* items committed and not yet taken
    held    \* places held by producers, and by the consumer

Init == fifo = <<>> /\ held = 0

Hold   == Len(fifo) + held < Capacity /\ held' = held + 1 /\ fifo' = fifo
Put(x) == held > 0 /\ held' = held - 1 /\ fifo' = Append(fifo, x)
Take   == fifo # <<>> /\ held' = held + 1 /\ fifo' = Tail(fifo)
Free   == held > 0 /\ held' = held - 1 /\ fifo' = fifo

Next == Hold \/ Take \/ Free \/ \E x \in Items : Put(x)

Spec == Init /\ [][Next]_<<fifo, held>>
=============================================================================
