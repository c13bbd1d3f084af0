SPECIFICATION FairSpec
INVARIANTS TypeOK CallsReachPlayer RendersOutliveThreads
PROPERTIES DestroyReturns
CHECK_DEADLOCK FALSE
