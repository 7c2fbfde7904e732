SPECIFICATION Spec
CONSTANTS
  HASH_TABLE_SIZE = 3
  HashLimit = 6
  MaxArray = 2
INVARIANTS TypeOK LookupIsMembership OneSlotEach
PROPERTY ResultTellsInsertion
