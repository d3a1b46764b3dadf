\* Two tabs and two users, who share one cookie; pages are reloaded.
CONSTANTS
  c1 = c1
  c2 = c2
  c3 = c3
  ann = ann
  bob = bob
  t1 = t1
  t2 = t2
  None = None
  Calls = {c1, c2}
  Users = {ann, bob}
  Verified = {ann, bob}
  MaxTokens = 3
  Tabs = {t1, t2}
  MaxGen = 2
  Faults = {"reload"}
SYMMETRY SlotsTabsUsers
SPECIFICATION Spec
CHECK_DEADLOCK FALSE
INVARIANTS
  ShownIsOwn
  TokensChain
PROPERTIES
  SignOutIsFinal
