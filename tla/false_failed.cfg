CONSTANTS
  c1 = c1
  w1 = w1
  k1 = k1
  k2 = k2
  None = None
  Verdicts = {AC}
  Submissions = {1}
  Consumers = {c1}
  Workers = {w1}
  WorkerOf <- OneConsumer
  MaxStream = 1
  Budget <- OneDbError
  Clients = {k1}
  Watches <- AllWatchOne
  Owners = {k1}
SPECIFICATION LiveSpec
INVARIANT FailedMeansFailed
