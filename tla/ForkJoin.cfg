SPECIFICATION Spec
CONSTANTS
  Job <- ForkJob
  Net = {"main"}
  MainNet = "main"
  JobType <- ForkJobs
  NetOf <- ForkNetOf
  LinkNet <- NoJobnetIcons
  Flow <- ForkFlow
  Continue = {}
  Host = {}
  HostsOf <- NoHosts
  TestFlags = {FALSE}
  InitMethod <- ForkMethod
  StopCommand = {}
  CommandId <- NoExtjobs
  ReleaseOf <- NoReleases
  MayFail = {"a", "b"}
  MayTimeout = {}
  Menu = {"SetHold", "SetUnHold", "SetSkip", "SetUnSkip", "SetReStart", "StopRunningJobnet"}
  MaxOps = 2
  MaxFaults = 0
  MaxCrashes = 0
INVARIANTS TypeOK JoinCountsBranches EndedNetIsQuiet StoppedJobnetIsQuiet
PROPERTIES ActivationNeedsRunningNet
