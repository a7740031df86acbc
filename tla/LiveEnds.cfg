SPECIFICATION FairSpec
CONSTANTS
  Job <- BranchJob
  Net = {"main"}
  MainNet = "main"
  JobType <- BranchTypes
  NetOf <- BranchNetOf
  LinkNet <- NoJobnetIcons
  Flow <- BranchFlow
  Continue = {}
  Host = {"h"}
  HostsOf <- BranchHosts
  TestFlags = {FALSE}
  InitMethod <- BranchMethod
  StopCommand = {}
  CommandId <- BranchCommand
  ReleaseOf <- NoReleases
  MayFail = {}
  MayTimeout = {"c"}
  Menu = {"SetStop", "StopRunningJobnet"}
  MaxOps = 1
  MaxFaults = 0
  MaxCrashes = 0
PROPERTIES JobnetEnds TimeoutIsReported ForcedStopEnds AbortEnds LockIsGivenBack
