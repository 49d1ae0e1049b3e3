CONSTANTS
  Outbox = {1, 2}
  Relay = {r1}
  Lease = {l1, l2, l3}
  NoLease = NoLease
  BatchSize = 2
SPECIFICATION FairSpec
PROPERTIES
  EventuallyDispatched
CHECK_DEADLOCK TRUE
