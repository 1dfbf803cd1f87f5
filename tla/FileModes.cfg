SPECIFICATION Spec
CONSTANTS
  Cell <- MCCell
  Filler = "N/A"
  MaxFields = 3
  FieldName <- MCFieldName
  Jobs <- MCJobs
  Inputs <- MCInputs
INVARIANTS RaggedIsRefused TransposedBack
           ReversedSoFar ReportIsTrue
