\* A signal between the spawn of a Start and its first step.
CONSTANT None = None
SPECIFICATION Spec
CHECK_DEADLOCK FALSE
INVARIANTS
  ShutdownStopsAll
