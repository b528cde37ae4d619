SPECIFICATION Spec
CONSTANTS
  Sources <- CompleteSource
  Settings <- KernighanRitchie
  MaxTokens = 5
  SourceKinds = {"while", "lbrace", "rbrace", "statement", "comment"}
INVARIANT NothingLost
CHECK_DEADLOCK FALSE
