SPECIFICATION Spec
CONSTANTS
  Styles <- PlainStyle
  Alphabet <- LettersAndDot
  MaxLength = 7
  comment_max_col = 6
INVARIANTS TextKept
CHECK_DEADLOCK FALSE
