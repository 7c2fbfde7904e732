SPECIFICATION Spec
CONSTANTS
  NumChunks = 2
  Faults <- OnlySlowRead
INVARIANT CompletedMeansCopied
