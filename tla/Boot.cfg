SPECIFICATION FairSpec
CONSTANTS
  Row = {"p1", "x", "bad", "t1"}
  Jobnet = {"a", "b"}
  ScheduleId = {"u", "v"}
  JobnetOf <- MCJobnetOf
  RunType <- MCRunType
  Schedule <- MCSchedule
  Time <- MCTime
  MultipleStartUp <- MCMultiple
  Invalid = {"bad", "t1"}
  Deterrence = {"t1"}
  LoadSpan = 1
  KeepSpan = 3
  StartTime = 4
  MaxTime = 7
  MaxPass = 1
  MaxOps = 1
INVARIANT TypeOK
INVARIANT OneAtATime
INVARIANT OperatorIsObeyed
INVARIANT PlannedOnce
PROPERTY WaitingIsStarted
PROPERTY StartedRuns
