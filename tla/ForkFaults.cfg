SPECIFICATION Spec
CONSTANTS
  Job <- ForkJob
  Net = {"main"}
  MainNet = "main"
  JobType <- ForkJobs
  NetOf <- ForkNetOf
  LinkNet <- NoJobnetIcons
  Flow <- ForkFlow
  Continue = {"b"}
  Host = {}
  HostsOf <- NoHosts
  TestFlags = {FALSE}
  InitMethod <- ForkMethod
  StopCommand = {"a"}
  CommandId <- NoExtjobs
  ReleaseOf <- NoReleases
  MayFail = {"a", "b"}
  MayTimeout = {}
  Menu = {"SetStop", "SetReStart", "StopRunningJobnet"}
  MaxOps = 1
  MaxFaults = 1
  MaxCrashes = 1
INVARIANTS SummaryAgrees JajobnetRows
PROPERTIES AgentImplementsService
