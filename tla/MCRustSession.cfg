SPECIFICATION FairSpec
CONSTANTS
  Absent = Absent
  Null = Null
  Refused = Refused
  IntMax = 1023
  Running = {"smoke", "plain", "free"}
  MaxSteps = 5
  WorkerCount = 2
  DefaultEndpoint = DefaultEndpoint
  Loopback = Loopback
  Statements <- MCStatements
  Answers <- MCAnswers
INVARIANT NetworkFree
INVARIANT EndpointPinned
INVARIANT AttemptsTold
PROPERTY ClosedForGood
PROPERTY SmokeSucceeds
CHECK_DEADLOCK FALSE
