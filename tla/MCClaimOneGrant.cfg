SPECIFICATION Spec
CONSTANTS
  Payments = {p1}
  Nil = Nil
  MaxJobRetries = 1
  Askers = {}
  MaxBacklog = 0
  Faults = {"Remnawave"}
INVARIANTS
  OneGrantPerPayment
CHECK_DEADLOCK FALSE
