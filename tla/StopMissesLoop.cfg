SPECIFICATION Spec
CONSTANTS
  Job <- LoopJob
  Net = {"main", "inner"}
  MainNet = "main"
  JobType <- LoopTypes
  NetOf <- LoopNetOf
  LinkNet <- LoopLink
  Flow <- LoopFlow
  Continue = {}
  Host = {}
  HostsOf <- NoHosts
  TestFlags = {FALSE}
  InitMethod <- LoopMethod
  StopCommand = {}
  CommandId <- NoExtjobs
  ReleaseOf <- NoReleases
  MayFail = {}
  MayTimeout = {}
  Menu = {"StopRunningJobnet"}
  MaxOps = 1
  MaxFaults = 0
  MaxCrashes = 0
INVARIANTS StoppedJobnetIsQuiet
