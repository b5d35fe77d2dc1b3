SPECIFICATION Spec
CONSTANTS
    Actors = {"worker", "trial1", "trial2", "chargeback", "sweep"}
    Plans = {2}
    TrialDays = 1
    MaxJobRetries = 1
    Horizon = 3
    MaxExpiry = 6
    MaxPayments = 1
    Faults = {"Database", "Remnawave", "Crash"}
INVARIANTS
    TypeOK
    PanelBacked
PROPERTIES
    ImplementsEntitlement
CHECK_DEADLOCK FALSE
