SPECIFICATION Spec
CONSTANTS
  Clients = {c1}
  Attempts = 2
  MaxCount = 2
  MaxDraws = 1
  MaxChildren = 1
  MaxLaps = 0
PROPERTY PeerGetsPicture
