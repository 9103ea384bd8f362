CONSTANTS
  CheckTxs = {c1, c2, c3}
  DeliverTxs = {d1, d2}
  Queriers = {q1}
  Exclusives = {x1}
  QueueCap = 1
  CheckPoolSize = 1
  DeliverPoolSize = 2
  PoolQueue = 1
  PoolSpawn = 1
  MaxHeight = 1
  Loads = {{c1,c2,c3,q1},{c1,c2,d1,stop,q1},{c1,d1,d2,q1,x1}}
  MayFail = {c1, d1}
  Stopper = stop
  Consensus = Consensus
  NoOne = NoOne
SPECIFICATION FairSpec
INVARIANTS WaitGroupExact CommitIsolated BlockExecutedInOrder
PROPERTY EveryCallFinishes
