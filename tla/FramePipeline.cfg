\* A pipeline of two places, three frames, one resubmission, one secondary callback.
SPECIFICATION FairSpec
CONSTANTS
    Depth = 2
    MaxFrames = 3
    MaxRetries = 1
    MaxBacklog = 2
    Secondary = {pointer}
CHECK_DEADLOCK FALSE
INVARIANTS FlowInv PipeInv
PROPERTIES DrawnInOrder ImplementsQueue VsyncServed
