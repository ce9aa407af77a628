CONSTANTS
  JudgedBlocks = 3
  Names = {"noop", "caps", "welcome", "link", "replace", "recase", "judge", "force"}
  MaxChain = 2
  MaxBlocks = 3
  MaxDeltas = 2
SPECIFICATION FairSpec
INVARIANTS
  NothingVanishes
  Acceptable
  StreamAgrees
  DeniedNeverLeaves
  OriginalKept
PROPERTIES
  ResponseEnds
  KeepsGate
CHECK_DEADLOCK FALSE
