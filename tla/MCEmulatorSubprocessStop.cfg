SPECIFICATION Spec
CONSTANTS
  Users = {u1}
  Pollers = {p1}
  Watcher = watcher
  Encoder = encoder
  Audio = audio
  NoThread = nothread
  MaxChildren = 2
INVARIANT ReadersFinish
CHECK_DEADLOCK FALSE
