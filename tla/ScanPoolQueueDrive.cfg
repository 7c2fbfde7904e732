SPECIFICATION Spec
CONSTANTS
  Dir <- Dirs
  Listing <- Tree
  Drives <- TwoDrives
  HashArray <- HashLists
  NoExtension = "none"
  NUMBER_OF_THREADS = 2
  Faults <- OnlyQueueDrive
PROPERTY TableImmutable
