SPECIFICATION Spec
CONSTANTS
  Payments = {p1}
  Nil = Nil
  MaxJobRetries = 1
  Askers = {"user", "sweep"}
  MaxBacklog = 1
  Faults <- AskFaults
INVARIANTS
  TypeOK
  GatewayBacked
  SingleFollowUp
PROPERTIES
  ImplementsLedger
CHECK_DEADLOCK FALSE
