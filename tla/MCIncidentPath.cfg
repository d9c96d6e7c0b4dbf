SPECIFICATION Spec
CONSTANTS
  Absent = Absent
  Null = Null
  Refused = Refused
  IntMax = 1023
  Calls <- MCCalls
  Answers <- MCAnswers
INVARIANTS
  AcceptedIffValid
  SamePayload
  SameVerdict
  NoFalseSuccess
  RetriesAsPromised
CHECK_DEADLOCK FALSE
