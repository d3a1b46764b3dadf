\* One tab, two replicas and two commits, a channel of one: overflows, outages,
\* restarts and broken streams at every point.
CONSTANTS
  r1 = r1
  r2 = r2
  t1 = t1
  Replicas = {r1, r2}
  Clients = {t1}
  Buffer = 1
  MaxCommits = 2
SPECIFICATION FairSpec
INVARIANTS
  TypeOK
  WakeUpComing
PROPERTIES
  EventuallySeen
