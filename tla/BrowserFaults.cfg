\* Two tabs of one user, with failures, losses, expiry and reloads.
CONSTANTS
  c1 = c1
  c2 = c2
  c3 = c3
  ann = ann
  bob = bob
  t1 = t1
  t2 = t2
  None = None
  Calls = {c1, c2}
  Users = {ann}
  Verified = {ann}
  MaxTokens = 2
  Tabs = {t1, t2}
  MaxGen = 2
  Faults = {"failure", "loss", "expiry", "reload"}
SYMMETRY SlotsTabs
SPECIFICATION Spec
INVARIANTS
  TypeOK
  WaitersCovered
  JarRenewable
  OwnTokenSpentOnce
PROPERTIES
  NoResurrection
