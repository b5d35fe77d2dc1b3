SPECIFICATION FairSpec
CONSTANTS
    Actors = {"admin", "repair", "sweep", "set_status", "extend_days"}
    Plans = {1}
    TrialDays = 1
    MaxJobRetries = 1
    Horizon = 2
    MaxExpiry = 3
    MaxPayments = 1
    Faults = {"Remnawave"}
PROPERTIES
    ImplementsEntitlement
    LapsedRowSettles
CHECK_DEADLOCK FALSE
