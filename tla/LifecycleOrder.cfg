\* Signals, failures and hanging services at every point of start and shutdown.
CONSTANT None = None
SPECIFICATION FairSpec
CHECK_DEADLOCK FALSE
INVARIANTS
  ShutdownOrder
PROPERTIES
  SignalEnds
