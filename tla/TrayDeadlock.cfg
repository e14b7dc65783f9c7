SPECIFICATION FairSpec
PROPERTY FrameDelivered
CHECK_DEADLOCK FALSE
