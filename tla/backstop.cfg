CONSTANTS
  c1 = c1
  c2 = c2
  w1 = w1
  w2 = w2
  None = None
  Verdicts = {AC}
  Submissions = {1}
  Consumers = {c1, c2}
  Workers = {w1, w2}
  WorkerOf <- TwoProcesses
  MaxStream = 1
  Budget <- RepairLoad
SPECIFICATION FairSpec
PROPERTIES
  QueuedIsClaimed
  RunningSettles
  GracefulStopCompletes
