SPECIFICATION FairSpec
CONSTANTS
  Text <- MCText
  Rank <- MCRank
  Fold <- MCFold
  MaxBlanks = 1
  PipeSize = 2
  Jobs <- MCJobs
  Inputs <- MCInputs
INVARIANTS DataDelivered GroupsTogether
PROPERTIES BothEnd
CHECK_DEADLOCK FALSE
