\* A send that fails before the results are read: the front is rejected for another.
SPECIFICATION Spec
CONSTANTS
  MaxWrites = 4
  MaxPending = 4
  Faults = {"early"}
INVARIANT FailureIsTrue
