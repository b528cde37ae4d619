SPECIFICATION NestingSpec
CONSTANTS
  MaxDepth = 3
  MinLevel <- Lowest
  MaskBits = 3
  InitialIndents = 2
INVARIANTS NestingTypeOK LevelsPaired CastIsType
CONSTRAINT Closing
CHECK_DEADLOCK FALSE
