SPECIFICATION FairSpec
CONSTANTS
    Transactions = {t1, t2, t3}
    Plans = {month, slot}
    Slots = {slot}
    Codes = {half, full}
    Free = {full}
    None = None
    Requests = {r1, r2}
    Limit = 1
    MaxAsked = 3
    Faults = {"Redis", "Expire", "Read", "Gateway", "Insert", "Clear", "Set", "Push", "Crash"}
INVARIANTS
    TypeOK
PROPERTIES
    ImplementsTill
    LimitLifts
    PlanComesFree
CHECK_DEADLOCK FALSE
