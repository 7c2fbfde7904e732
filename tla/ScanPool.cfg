SPECIFICATION Spec
CONSTANTS
  Dir <- Dirs
  Listing <- Tree
  Drives <- TwoDrives
  HashArray <- HashLists
  NoExtension = "none"
  NUMBER_OF_THREADS = 2
  Faults <- AllFaults
INVARIANTS TypeOK ActiveCountsTasks CallbackSeesItsTable RecapIsExact
PROPERTY Terminates
