SPECIFICATION OptionsSpec
CONSTANTS
  Environments <- MCEnvironments
  ArgumentLists <- AllLines
  NoName = "none"
INVARIANTS OptionsTypeOK LaterWins FilesNamed
CHECK_DEADLOCK FALSE
