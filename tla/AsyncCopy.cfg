SPECIFICATION Spec
CONSTANTS
  NumChunks = 3
  Faults <- AllFaults
INVARIANTS
  TypeOK Conservation EventTracksQueue BufferOwnership
  SuccessMeansComplete QueueOutlivesThreads
PROPERTIES Terminates IsFifo
