SPECIFICATION Spec
CONSTANTS
  Job <- ForkJob
  Net = {"main"}
  MainNet = "main"
  JobType <- ForkCopies
  NetOf <- ForkNetOf
  LinkNet <- NoJobnetIcons
  Flow <- ForkFlow
  Continue = {}
  Host = {}
  HostsOf <- NoHosts
  TestFlags = {FALSE}
  InitMethod <- ForkMethod
  StopCommand = {}
  CommandId <- NoExtjobs
  ReleaseOf <- NoReleases
  MayFail = {}
  MayTimeout = {}
  Menu = {}
  MaxOps = 0
  MaxFaults = 0
  MaxCrashes = 0
INVARIANTS JoinFires
