SPECIFICATION Spec
CONSTANTS
  Buttons = {left}
  Keys = {k1}
  MaxPosition = 1
  RingSize = 3
  MaxPending = 2
  MaxInSocket = 2
INVARIANTS TypeOK InStep
PROPERTY Delivered
