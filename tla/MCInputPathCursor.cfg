SPECIFICATION Spec
CONSTANTS
  Buttons = {left}
  Keys = {k1}
  MaxPosition = 1
  RingSize = 2
  MaxPending = 1
  MaxInSocket = 1
INVARIANT CursorFollows
