\* Three calls of Start and two of Stop, in every order.
CONSTANTS
  a1 = a1
  a2 = a2
  a3 = a3
  s1 = s1
  s2 = s2
  None = None
  Starters = {a1, a2, a3}
  Stoppers = {s1, s2}
SPECIFICATION FairSpec
CHECK_DEADLOCK FALSE
INVARIANTS
  TypeOK
  OneConnection
PROPERTIES
  ImplementsService
  StopReturns
  ListensAgain
