SPECIFICATION Spec
CONSTANTS
  Char <- MCChar
  Blank = {" "}
  InitialFields = 2
  Jobs <- MCJobs
  Inputs <- MCInputs
INVARIANTS FieldsFit FieldsRight RightLines
