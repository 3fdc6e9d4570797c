\* A server that may change its mind, sends that fail early, any number of breaks and ends.
SPECIFICATION Spec
CONSTANTS
  MaxWrites = 4
  MaxPending = 3
  Faults = {"fickle", "early"}
INVARIANTS
  AssertionsHold
  NothingIsLost
  SuccessIsTrue
  AnsweredOnce
  WritesStayInOrder
  LastWriteStands
  NothingStalls
