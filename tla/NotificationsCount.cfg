\* One row on a page of one, a second arrives.
CONSTANTS
  Ids = {1, 2}
  Histories = {{1}}
  PageSize = 1
  MaxInputs = 2
  None = None
SPECIFICATION Spec
INVARIANTS
  CountNeverStale
