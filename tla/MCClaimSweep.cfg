SPECIFICATION Spec
CONSTANTS
  Payments = {p1}
  Nil = Nil
  MaxJobRetries = 1
  Askers = {"sweep"}
  MaxBacklog = 1
  Faults = {"Delivery"}
INVARIANTS
  MissedWebhookIsActivated
CHECK_DEADLOCK FALSE
