\* A server that may change its mind and sends that fail before the results are
\* read: the abstract specification is implemented, and every write is settled.
SPECIFICATION FairSpec
CONSTANTS
  MaxWrites = 3
  MaxPending = 2
  Faults = {"fickle", "early"}
PROPERTIES
  ImplementsDelivery
  WritesSettle
