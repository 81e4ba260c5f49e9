SPECIFICATION Spec
CONSTANTS
  Users = {u1}
  Pollers = {p1}
  Watcher = watcher
  Encoder = encoder
  Audio = audio
  NoThread = nothread
  MaxChildren = 2
INVARIANTS TypeOK AtomMapped ReadersMapped OnlyStatusDeadlocks
PROPERTIES StopLeavesNone StopNotRecorded
\* The system can stop: the ring OnlyStatusDeadlocks describes.
CHECK_DEADLOCK FALSE
