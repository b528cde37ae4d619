SPECIFICATION FairSpec
CONSTANTS
  Sources <- PlainSource
  Settings <- Styles
  MaxTokens = 5
  SourceKinds = {"if", "while", "else", "lbrace", "rbrace", "statement", "comment", "newline", "preesc"}
INVARIANTS TypeOK AllHandled
PROPERTIES StreamKept ReachesEof
CHECK_DEADLOCK FALSE
