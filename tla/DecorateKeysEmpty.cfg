SPECIFICATION Spec
CONSTANTS
  Blank = Blank
  NoTab = NoTab
  EOL = EOL
  Comma = Comma
  Letter = Letter
  Other = Other
  Zero = Zero
  MaxLen = 4
  SizeMax <- MCSizeMax
  Digit <- MCDigit
  Jobs <- MCJobs
  Lines <- MCLines
INVARIANT EmptyKeysAreEmpty
