\* Three concurrent requests between two accounts, with a clock.
CONSTANTS
  ann = ann
  bob = bob
  k1 = k1
  k2 = k2
  r1 = r1
  r2 = r2
  r3 = r3
  None = None
  Accounts = {1, 2}
  Users = {ann, bob}
  Currencies = {"USD", "EUR"}
  Owner <- MCOwner
  Currency <- MCCurrency
  Keys = {k1, k2}
  Requests = {r1, r2, r3}
  Intents <- RaceIntents
  MaxSafe = 9
  MaxPerTransfer <- MCMaxPerTransfer
  DailyLimit <- MCDailyLimit
  OpeningLimit <- MCOpeningLimit
  Deposits = {3}
  PoolSize = 2
  Window = 1
  MaxTime = 2
SYMMETRY Attempts
SPECIFICATION Spec
INVARIANTS
  TypeOK
  BooksBalance
  DailyCap
  OnceUnderLock
PROPERTIES
  RetryNeverRefused
  NotificationsMatchCommit
  ImplementsLedger
