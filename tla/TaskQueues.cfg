\* The platform queue subsumes the raster queue; the UI queue is paused during frames.
SPECIFICATION FairSpec
CONSTANTS
    Queues = {platform, raster}
    NoQueue = NoQueue
    Callers = {c1}
    Idle = Idle
    Pausable = {platform}
    Ending = {platform, raster}
    MaxTime = 1
    MaxTasks = 2
    MaxMerges = 1
    MaxPauses = 1
CHECK_DEADLOCK FALSE
INVARIANTS QueuesInv
PROPERTIES StartedInOrder NothingAfterShutdown EveryTaskServed
