CONSTANTS
  Clients = {c1, c2}
  Tasks = {t1, t2}
  Worker = worker
  Owner = owner0
  NoOne = noone
  MaxAdds = 4
SPECIFICATION Spec
INVARIANTS PoolInv FifoOnce NoLostWakeup DrainedOnJoin
PROPERTY ImplementsQueue
