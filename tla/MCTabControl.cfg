CONSTANTS
  Tabs = {a, b}
  None = None
  NoLocks = NoLocks
  BeatEvery = 2
  Save = 3
  Handover = 6
  LockWait = 5
  Lease = 10
SPECIFICATION Spec
CHECK_DEADLOCK FALSE
INVARIANTS TabsOK RunningIsWaitedFor ScreenIsHolders
PROPERTIES ControlMoves AbandonedIsTaken TakerStarts
