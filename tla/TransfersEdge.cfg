\* Two requests that can meet every refusal, with accounts opened meanwhile; each is
\* answered without its timeout.
CONSTANTS
  ann = ann
  bob = bob
  k1 = k1
  k2 = k2
  r1 = r1
  r2 = r2
  r3 = r3
  None = None
  Accounts = {1, 2, 3, 4}
  Users = {ann, bob}
  Currencies = {"USD", "EUR"}
  Owner <- MCOwner
  Currency <- MCCurrency
  Keys = {k1, k2}
  Requests = {r1, r2}
  Intents <- EdgeIntents
  MaxSafe = 5
  MaxPerTransfer <- MCMaxPerTransfer
  DailyLimit <- MCDailyLimit
  OpeningLimit <- MCOpeningLimit
  Deposits = {0, 3}
  PoolSize = 2
  Window = 1
  MaxTime = 0
SPECIFICATION FairSpec
INVARIANTS
  PolicyObeyed
  AnswersHold
PROPERTIES
  EveryRequestAnswered
