SPECIFICATION FairSpec
CONSTANTS
  Text <- MCText
  NA <- MCNA
  Number <- MCNumber
  Base64 <- MCBase64
  Fold <- MCFold
  Jobs <- MCJobs
  Inputs <- MCInputs
  Cut <- MCCut
  Rank <- MCRank
INVARIANTS AccumulatorsReady GroupsTile GroupsAreRuns
  EmptyMeansNoGroup HeaderMatchesColumns FullLineShowsResult TableIsRight
PROPERTIES ImplementsSummary Terminates
CHECK_DEADLOCK FALSE
