SPECIFICATION FairSpec
CONSTANT MaxFrames <- Frames
INVARIANTS NoLostWakeup FramesAccounted
PROPERTIES QuietAfterClose NothingHangs ImplementsMailbox ImplementsDelivery
CHECK_DEADLOCK FALSE
