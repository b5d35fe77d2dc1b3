SPECIFICATION FairSpec
CONSTANTS
    Actors = {"yad", "worker", "chargeback", "sweep"}
    Plans = {1}
    TrialDays = 1
    MaxJobRetries = 1
    Horizon = 1
    MaxExpiry = 4
    MaxPayments = 1
    Faults = {"Remnawave"}
PROPERTY RevertedLosesAccess
CHECK_DEADLOCK FALSE
