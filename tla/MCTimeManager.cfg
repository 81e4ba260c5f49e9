SPECIFICATION Spec
CONSTANTS
  t1 = t1
  t2 = t2
  Tasks = {t1, t2}
  XTasks = {t1}
  NoTask = NoTask
  Freed = Freed
  Delays <- McDelays
  MaxTime = 2
INVARIANTS TypeOK Armed ThreadInTime
PROPERTY NoTaskLost
\* The clock stops at MaxTime, and a guest with every task primed may be idle.
CHECK_DEADLOCK FALSE
