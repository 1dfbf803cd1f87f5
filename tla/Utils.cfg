SPECIFICATION UtilsSpec
CONSTANTS
  AddOn <- MCAddOn
  MAX_NUMERIC_FORMAT_LEN = 6
  MaxValues = 6
  MaxPairs = 4
  MaxText = 6
  MaxField = 4
  MaxRoman = 3999
  MaxOptions = 3
INVARIANTS StatisticsRight ExtensionsRight NumbersRight FormatsRight OptionsRight
CHECK_DEADLOCK FALSE
