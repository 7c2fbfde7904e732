SPECIFICATION Spec
CONSTANTS
  NumChunks = 3
  Copies = 2
  Faults <- AllFaults
INVARIANTS
  TypeOK OpCountIsLive IoDataOwnership SignalMeansQuiescent TrueMeansCopied
  FilesOutliveOperations
PROPERTY Terminates
CHECK_DEADLOCK FALSE
