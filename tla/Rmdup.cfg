SPECIFICATION RmdupSpec
CONSTANTS
  Keys <- MCKeys
  KeyLen <- MCKeyLen
  CKey <- MCCKey
  Missing = Missing
  KeyInputs <- MCInputs
  rmdup_initial_size = 4
INVARIANTS CopiesInBounds KeysIntact LookupIsFresh
PROPERTIES PrintsFirstOccurrences
CHECK_DEADLOCK FALSE
