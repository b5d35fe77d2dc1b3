SPECIFICATION FairSpec
CONSTANTS
  Payments = {p1}
  Nil = Nil
  MaxJobRetries = 1
  Askers = {"sweep"}
  MaxBacklog = 1
  Faults <- RetriedFaults
INVARIANTS
  ConfirmedIsBooked
PROPERTIES
  PaidIsServed
  RowSettles
  QueuesDrain
CHECK_DEADLOCK FALSE
