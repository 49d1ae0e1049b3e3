\* One reader of every kind, two writes and any follows between its statements.
SPECIFICATION MCSpec
CONSTANTS
  Request = {1, 2}
  Reader = {r1}
  User = {u1, u2}
  Stranger = gone
  gone = gone
  Article = {a1, a2, a3}
  Tag = {x, y}
  u1 = u1 u2 = u2 a1 = a1 a2 = a2 a3 = a3 x = x y = y c0 = c0
  OldComment = c0
  None = None
  Ask <- MCAsk
  Query <- MCQuery
  Stored <- MCStored
  Newest <- MCNewest
CHECK_DEADLOCK FALSE
INVARIANTS AnswersAreExact CommentsOfOneMoment PageOfOneMoment FlagIsCounted
