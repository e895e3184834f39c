\* Two shells that share the merger; a lease that runs out within the frames produced.
SPECIFICATION MCSpec
CONSTANTS
    Shells = {s1, s2}
    NoShell = NoShell
    First = s1
    MaxLease = 2
    PipelineDepth = 2
    MaxProduced = 3
    MaxCalls = 2
    MaxSteps = 4
CHECK_DEADLOCK FALSE
INVARIANTS RasterTypeOK OneRasterizes LeaseMatchesQueues NoFrameForgotten
PROPERTIES SuspendedOnReturn WaitEnds
