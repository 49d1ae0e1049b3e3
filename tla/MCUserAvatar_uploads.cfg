\* Three uploads and a reader; anything may fail but the reply of a COMMIT.
CONSTANTS
  Upload = {u1, u2, u3}
  BioPut = {}
  ImagePut = {}
  Reader = {r1}
  External = External
  None = None
  Faults = {"write", "save", "remove", "records", "marker", "crash"}
SPECIFICATION Spec
SYMMETRY Symmetry
INVARIANTS
  ImageIsReadable
  FailureChangesNothing
  RetryCleans
  OneAvatarLeft
  HonestRead
