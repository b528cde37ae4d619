SPECIFICATION Spec
CONSTANTS
  max_col = 8
  ind_size = 3
  continuation_indent = 1
  paren_indent = 0
  Tokens <- AllTokens
  MaxChars = 7
  MaxDepth = 2
  dec_indent = 3
  com_ind = 8
  label_offset <- Offset
  Styles <- TwoStyles
INVARIANTS TypeOK TextKept BreaksInside
PROPERTIES PartFits
CHECK_DEADLOCK FALSE
