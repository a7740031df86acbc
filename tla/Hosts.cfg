SPECIFICATION Spec
CONSTANTS
  Job <- HostJob
  Net = {"main"}
  MainNet = "main"
  JobType <- HostTypes
  NetOf <- HostNetOf
  LinkNet <- NoJobnetIcons
  Flow <- HostFlow
  Continue = {}
  Host = {"h"}
  HostsOf <- HostHosts
  TestFlags = {FALSE}
  InitMethod <- HostMethod
  StopCommand = {}
  CommandId <- HostCommand
  ReleaseOf <- HostRelease
  MayFail = {"send"}
  MayTimeout = {}
  Menu = {"SetStop", "StopRunningJobnet", "jobrelease"}
  MaxOps = 1
  MaxFaults = 1
  MaxCrashes = 0
INVARIANTS StoppedJobnetIsQuiet LockHasHolder OneRebootPerHost
