SPECIFICATION FairSpec
CONSTANTS
  Icon <- LessIcons
  Session = {"s", "t"}
  SessionOf <- LessSession
  Flag <- LessFlag
  Before <- LessBefore
  NoCommand = {"right"}
  StopCode = {"left"}
  MaxOps = 1
  MaxFaults = 0
  MaxCrashes = 0
CHECK_DEADLOCK FALSE
PROPERTIES StoppedJobnetEnds
