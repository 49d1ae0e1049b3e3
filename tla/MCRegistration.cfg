\* Three clients over two usernames and two emails: every way of clashing.
CONSTANTS
  Request = {q1, q2, q3}
  Username = {ann, bob}
  Email = {a, b}
SPECIFICATION FairSpec
INVARIANTS
  UniqueUsers
  UserWithMail
  HonestReply
PROPERTIES
  EveryRequestAnswered
