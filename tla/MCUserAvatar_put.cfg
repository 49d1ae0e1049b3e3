CONSTANTS
  Upload = {u1, u2}
  BioPut = {b1}
  ImagePut = {}
  Reader = {}
  External = External
  None = None
  Faults = {}
SPECIFICATION Spec
PROPERTIES
  OnlyPresentFields
