SPECIFICATION Spec
CONSTANTS
  Names <- MCNames
  Inputs <- MCInputs
  CommandLines <- MCLines
  SimpleName <- MCSimple
  NumberedName <- MCNumbered
  Unlisted = {"b"}
  NoName = "none"
  OutNames = {"none", "b"}
  MaxVersion = 3
  Size = 2
  Modes = {"none", "simple", "numbered_existing", "numbered"}
  Faults = {"crash", "io_error"}
CHECK_DEADLOCK FALSE
INVARIANTS TypeOK OriginalKept SafelyMadeABackup SuccessMeansWritten
PROPERTIES BackupsKept
