SPECIFICATION Spec
CONSTANTS
  Row = {"p1"}
  Jobnet = {"a", "b"}
  ScheduleId = {"u", "v"}
  JobnetOf <- MCJobnetOf
  RunType <- MCRunType
  Schedule <- MCSchedule
  Time <- MCTime
  MultipleStartUp <- MCMultiple
  Invalid = {}
  Deterrence = {}
  LoadSpan = 2
  KeepSpan = 2
  StartTime = 3
  MaxTime = 6
  MaxPass = 0
  MaxOps = 1
INVARIANT OperatorIsObeyed

