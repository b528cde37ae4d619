SPECIFICATION Spec
CONSTANTS
  Styles <- AllStyles
  Alphabet <- Letters
  MaxLength = 7
  comment_max_col = 7
INVARIANTS TypeOK TextKept WordsKept LinesFit LinesFilled LinesKept
PROPERTIES Terminates
CHECK_DEADLOCK FALSE
