SPECIFICATION FairSpec
CONSTANTS
  Job = {"a", "r"}
  RebootJob = {"r"}
  AbortJob = {}
  RebootMode = 1
  RebootWaitTime = 0
  CannotExec <- FirstFails
  MayFail = {"a"}
  SendRetry = 1
  MaxRequests = 2
  MaxFaults = 1
  MaxCrashes = 1
INVARIANTS TypeOK RunsOncePerRequest ResultIsOfThisRequest RequestIsSeen RebootHitsNoJob
PROPERTIES ImplementsService RequestIsClosed
