CONSTANTS
  Faults <- AllFaults
  Increments = 2
  Processor <- Processors
  MaxProgress = 4
  Tasks = 3
  MaxClicks = 2
SPECIFICATION Spec
INVARIANTS
  GatesHold
  HandlesOutliveThreads
  VerdictIsTrue
PROPERTY Terminates
