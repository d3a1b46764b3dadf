\* Two names, one address, two calls at a time; two periods of the job.
CONSTANTS
  ann = ann
  bob = bob
  x = x
  c1 = c1
  c2 = c2
  None = None
  Usernames = {ann, bob}
  Emails = {x}
  Bodies <- MCBodies
  Calls = {c1, c2}
  Period = 2
  NoticePeriod = 3
  Lifetime = 2
  MaxAttempts = 2
  MaxCodes = 2
  MaxTime = 2
SPECIFICATION FairSpec
INVARIANTS
  TypeOK
  MailOwed
PROPERTIES
  CodeRedeemedOnce
  CodeArrives
