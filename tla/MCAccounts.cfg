SPECIFICATION FairSpec
CONSTANTS
    Users = {site, bot, u1, u2}
    Telegrams = {phone, phone2}
    Site = site
    Bot = bot
    Phone = phone
    Nobody = Nobody
    Requests = {r1, r2}
    Ops = {"register", "start", "link", "unlink", "tfa", "bot_tfa", "link_code", "unlink_code", "trial", "credit"}
    MaxCodes = 1
    MaxAsked = 2
    Faults = {"Insert", "Referral", "Bind", "Merge", "Clear", "Disable"}
INVARIANTS
    TypeOK
    TelegramAgreed
PROPERTIES
    ImplementsHoldings
    RequestsEnd
CHECK_DEADLOCK FALSE
