\* Two uploads, two PUT /user requests and a reader, with every fault.
CONSTANTS
  Upload = {u1, u2}
  BioPut = {b1}
  ImagePut = {i1}
  Reader = {r1}
  External = External
  None = None
  Faults = {"write", "save", "lost commit", "remove", "records", "marker", "crash"}
SPECIFICATION FairSpec
INVARIANTS
  NoStrandedFile
PROPERTIES
  UploadsEnd
