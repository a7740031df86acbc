SPECIFICATION FairSpec
CONSTANTS
  Job <- LoopJob
  Net = {"main", "inner"}
  MainNet = "main"
  JobType <- LoopTypes
  NetOf <- LoopNetOf
  LinkNet <- LoopLink
  Flow <- LoopFlow
  Continue = {}
  Host = {}
  HostsOf <- NoHosts
  TestFlags = {TRUE, FALSE}
  InitMethod <- LoopMethod
  StopCommand = {}
  CommandId <- NoExtjobs
  ReleaseOf <- NoReleases
  MayFail = {"x"}
  MayTimeout = {}
  Menu = {"SetHold", "SetUnHold", "SetReStart", "StopRunningJobnet"}
  MaxOps = 2
  MaxFaults = 0
  MaxCrashes = 1
INVARIANTS EndedNetIsQuiet SubJobnetStartsClean
PROPERTIES FailureIsReported
