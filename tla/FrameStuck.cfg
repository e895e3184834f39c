\* The animator commits while the rasterizer takes the frame before.
SPECIFICATION FairSpec
CONSTANTS
    Depth = 2
    MaxFrames = 3
    MaxRetries = 0
    MaxBacklog = 2
    Secondary = {}
CHECK_DEADLOCK FALSE
PROPERTIES EventuallyConsumed
