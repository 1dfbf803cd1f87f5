SPECIFICATION Spec
CONSTANTS
  Jobs <- MCJobs
  IntMax = 7
  FieldsRoom = 4
  Leftover <- MCLeftover
INVARIANTS UnderstoodAsMeant RightIsAccepted ResultFits
