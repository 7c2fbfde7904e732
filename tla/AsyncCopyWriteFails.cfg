SPECIFICATION Spec
CONSTANTS
  NumChunks = 2
  Faults <- OnlyWriteFails
INVARIANT CompletedMeansCopied
