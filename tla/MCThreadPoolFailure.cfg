CONSTANTS
  Consumers = {w1, w2}
  Unlimited = 0
  Limits = {0, 1}
  MaxTasks = 2
SPECIFICATION FairSpec
PROPERTIES
  BlocksUntilCompleted
