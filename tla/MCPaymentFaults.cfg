SPECIFICATION Spec
CONSTANTS
  Payments = {p1}
  Nil = Nil
  MaxJobRetries = 2
  Askers = {"admin"}
  MaxBacklog = 1
  Faults <- WorkerFaults
PROPERTIES
  ImplementsLedger
CHECK_DEADLOCK FALSE
