CONSTANTS
  Readers = {r1}
  ImageBlocks = {0}
  Bodies <- McBodies
  Names = {"hd"}
  MaxVersion = 3
  MaxStaged = 1
  CompactMin = 1
  Faults = {"create", "write", "compact", "image"}
SPECIFICATION Spec
CHECK_DEADLOCK FALSE
INVARIANT Loads

