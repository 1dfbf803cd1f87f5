SPECIFICATION Spec
CONSTANTS
  Text <- MCText
  Rank <- MCRank
  Fold <- MCFold
  MaxBlanks = 1
  PipeSize = 2
  Jobs <- RmdupHeaderJobs
  Inputs <- MCInputs
INVARIANTS DataDelivered
CHECK_DEADLOCK FALSE
