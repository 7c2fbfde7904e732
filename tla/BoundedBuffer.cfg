SPECIFICATION Spec
CONSTANTS
  BUFFER_SIZE = 3
  PRODUCE_ITEMS = 7
  Faults <- AllFaults
INVARIANTS TypeOK TokensConserved ConsumedAsProduced
PROPERTIES Terminates IsFifo
