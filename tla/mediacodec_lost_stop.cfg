SPECIFICATION FairSpec
CONSTANT Kinds = {"audio"}
PROPERTIES StopEnds
CHECK_DEADLOCK FALSE
