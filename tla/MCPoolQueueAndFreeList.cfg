CONSTANTS
  Consumers = {w1, w2}
  Unlimited = 0
  Limits = {0, 1}
  MaxTasks = 3
  p = p
  c = c
  QueueThreads = {p, c}
  QueueOps <- OneOrTwoProducers
  Nodes = {n1, n2, n3}
  Null = Null
  NoValue = NoValue
  TagMod = 16
  Users = {u1, u2}
  Blocks = {b1, b2, b3}
  Heap = Heap
  Pool = Pool
  MaxCalls = 4
SPECIFICATION AllSpec
INVARIANTS
  CompletedMeansDone
  QueueBounded
  DestroyedAfterAll
  NodesAccounted
  EmptyVerdict
PROPERTIES
  ImplementsFifoQueue
  ImplementsBlockPool
  CallsEnd
