CONSTANTS
  Clients = {c1, c2}
  Tasks = {t1, t2}
  Worker = worker
  Owner = owner0
  NoOne = noone
  MaxAdds = 3
SPECIFICATION FairSpec
PROPERTIES EveryTaskRuns DestructorReturns
