SPECIFICATION Spec
CONSTANTS
  Clients = {c1}
  Attempts = 2
  MaxCount = 2
  MaxDraws = 1
  MaxChildren = 2
  MaxLaps = 1
INVARIANTS TypeOK CanvasIsPrev
PROPERTY ShowsWhatIsPublished
