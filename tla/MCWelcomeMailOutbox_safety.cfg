\* Two rows, two instances, a batch of two: stale holders, lost replies,
\* crashes and shutdowns in every order.
CONSTANTS
  Outbox = {1, 2}
  Relay = {r1, r2}
  Lease = {l1, l2, l3, l4}
  NoLease = NoLease
  BatchSize = 2
SPECIFICATION Spec
SYMMETRY Symmetry
INVARIANTS
  AtMostOneMail
  ShutdownDrains
PROPERTIES
  LeaseFencing
  ImplementsDelivery
CHECK_DEADLOCK TRUE
