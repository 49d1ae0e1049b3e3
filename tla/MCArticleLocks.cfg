\* Three requests of every kind at once.
SPECIFICATION MCSpec
CONSTANTS
  Request = {1, 2, 3}
  User = {u1, u2}
  Article = {a1, a2}
  Tag = {x, y, z}
  u1 = u1 u2 = u2 a1 = a1 a2 = a2 x = x y = y z = z c0 = c0
  OldComment = c0
  None = None
  Ask <- MCAsk
  Stored <- MCStored
CHECK_DEADLOCK FALSE
INVARIANTS DeadlocksKnown
PROPERTIES ImplementsStore StampFollowsContent RequestsEnd
