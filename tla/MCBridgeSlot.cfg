CONSTANTS
  c1 = c1
  c2 = c2
  c3 = c3
  Clients = {c1, c2, c3}
  Size <- McSize
  Small = 1
  None = None
  MaxBoots = 1
SPECIFICATION Spec
CHECK_DEADLOCK FALSE
INVARIANTS TypeOK ReplyIsOwn TakenIsWhole OnceAndWhole
PROPERTY Served
