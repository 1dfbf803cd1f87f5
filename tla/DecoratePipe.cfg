SPECIFICATION FairSpec
CONSTANTS
  Body <- MCBody
  Empty = Empty
  Jobs <- MCJobs
  Inputs <- MCInputs
  PipeSize = 1
INVARIANTS HeadersFirst SuccessMeansAll
PROPERTIES AllEnd
CHECK_DEADLOCK FALSE
