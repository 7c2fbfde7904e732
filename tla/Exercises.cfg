CONSTANTS
  Faults <- CallFaults
  Rounds = 2
  Steps = 2
  HASH_TABLE_SIZE = 3
  TargetLists <- AnyTargets
  FileLists <- AnyFiles
  Directory <- Chain
  Target = "top"
  Contents <- ChainContents
  Level <- ChainLevel
  Depths <- ChainDepths
  StackFrames = 2
SPECIFICATION Spec
INVARIANT ResultIsRight
PROPERTY Terminates
CHECK_DEADLOCK FALSE
