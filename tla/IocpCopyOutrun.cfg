SPECIFICATION Spec
CONSTANTS
  NumChunks = 1
  Copies = 1
  Faults <- OnlyOutrun
INVARIANT SignaledAtZero
