SPECIFICATION Spec
CONSTANTS
  Batch = 3
  OutInit = 2
  NumSize = 3
  Digest = 2
  Sep = 44
  MaxGroup = 3
  Inputs <- MCInputs
  Fold <- MCFold
INVARIANTS BuffersHold ResultInBounds ListsAreRight
