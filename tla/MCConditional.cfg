SPECIFICATION Spec
CONSTANTS
  Blocks = {b1, b2, b3, b4, b5, b6}
  Codes = {stmt}
  stmt = stmt
  Columns = {0}
  Junk = junk
  InitialStack = 1
  InitialParens = 2
  InitialNest = 1
  MaxTos = 2
  MaxParens = 1
  MaxNest = 2
  MaxIfs = 2
  MaxElements = 4
INVARIANTS TypeOK Unshared CopyFits Written StateRestored
