SPECIFICATION FairSpec
CONSTANT Kinds = {"audio", "video"}
INVARIANTS TypeOK PausedSoon ReleasedAtEnd
PROPERTIES StopNoticed
CHECK_DEADLOCK FALSE
