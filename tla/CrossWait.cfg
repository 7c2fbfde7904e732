SPECIFICATION Spec
CONSTANT Faults <- AllFaults
INVARIANTS TypeOK NeverBothAcquire OwnersReleaseMutexes VerdictIsTrue
PROPERTY Terminates
