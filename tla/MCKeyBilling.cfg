SPECIFICATION FairSpec
CONSTANTS
    r1 = r1
    r2 = r2
    NoOne = NoOne
    Users = {1, 2}
    Requests <- MCTwoRequests
    Kinds = {"createKey", "customKey", "bulkCreate", "updateKey", "resetKey", "deduct", "topup", "mint", "createUser", "adminCreateUser"}
    Prices = {0, 1, 3}
    Counts = {1, 2}
    InitBalance <- MCInitBalance
    Threads = 2
INVARIANTS
    TypeOK
    OverdrawnByAdminsOnly
    LedgerExact
    GoodsArePaid
    ChargeBuysGoods
PROPERTIES
    LedgerKept
    ChargedOnce
    EveryRequestEnds
