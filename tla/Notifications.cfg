\* Three rows on pages of one, one of them there from the start.
CONSTANTS
  Ids = {1, 2, 3}
  Histories = {{1}, {2}}
  PageSize = 1
  MaxInputs = 3
  None = None
SPECIFICATION FairSpec
INVARIANTS
  TypeOK
  HistoryTrue
  MarksCountMarks
  ToastOnce
PROPERTIES
  ComesToRest
