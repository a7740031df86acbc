SPECIFICATION FairSpec
CONSTANTS
  Icon <- LessIcons
  Session = {"s", "t"}
  SessionOf <- LessSession
  Flag <- LessFlag
  Before <- LessBefore
  NoCommand = {"right"}
  StopCode = {"left"}
  MaxOps = 2
  MaxFaults = 1
  MaxCrashes = 1
CHECK_DEADLOCK FALSE
INVARIANTS TypeOK CommandRunsOnce ContinueIsConnected RerunFindsNoRow OrphanHasCause
PROPERTIES AbortEnds StopEnds SessionsAreClosed
