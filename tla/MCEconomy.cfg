SPECIFICATION FairSpec
CONSTANTS
    Users = {"payer", "referrer"}
    Payer = "payer"
    Referrer = "referrer"
    Clients = {c1, c2}
    NoOne = NoOne
    Deals = {"promo", "shop", "plan", "slots", "paid", "reward", "revert", "gift", "fine"}
    Opening = {1}
    Shelf = 1
    PromoYAD = 1
    MaxUses = 1
    ItemPrice = 1
    PlanPrice = 2
    SlotPrice <- PricesOfSlots
    RewardYAD = 2
    AdminYAD = 1
    PoolSize = 3
    MaxAttempts = 2
    MaxRequests = 3
    Faults = {"Statement", "Serialization", "Lookup"}
INVARIANTS
    TypeOK
PROPERTIES
    ImplementsPurse
    RequestsEnd
CHECK_DEADLOCK FALSE
