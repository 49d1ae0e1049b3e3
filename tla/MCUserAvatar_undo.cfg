CONSTANTS
  Upload = {u1, u2}
  BioPut = {}
  ImagePut = {}
  Reader = {}
  External = External
  None = None
  Faults = {"lost commit"}
SPECIFICATION Spec
PROPERTIES
  CleanupIsSafe
