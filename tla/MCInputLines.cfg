SPECIFICATION InputSpec
CONSTANTS
  Texts <- ShortFiles
  NextTexts <- SecondFiles
  Settings <- AllSettings
INVARIANTS InputTypeOK TextKept OffIsVerbatim
CHECK_DEADLOCK FALSE
