\* Two intents, keys for two attempts, an incoming transfer and a new account.
CONSTANTS
  l1 = l1
  l2 = l2
  p1 = p1
  p2 = p2
  None = None
  Accounts = {1, 2}
  Currencies = {"USD"}
  Currency <- MCCurrency
  Keys = {1, 2}
  MaxSafe = 4
  Own = {1}
  Opened = {2}
  Deposit = 2
  Incoming <- MCIncoming
  Loads = {l1, l2}
  Intents <- MCIntents
  Posts = {p1, p2}
SYMMETRY Slots
SPECIFICATION Spec
INVARIANTS
  TypeOK
  RetriesAreSafe
  InventoryTrue
