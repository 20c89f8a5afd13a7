CONSTANT MaxJobs = 2
SPECIFICATION FairSpec
INVARIANTS FrameOwnsItsInput NothingLost
PROPERTIES EveryJobComesBack HostComesBack
CHECK_DEADLOCK FALSE
