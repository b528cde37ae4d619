SPECIFICATION InputSpec
CONSTANTS
  Texts <- OffAfterBlock
  NextTexts <- SecondFiles
  Settings <- KandR
INVARIANT SourceKept
CHECK_DEADLOCK FALSE
