SPECIFICATION FairSpec
CONSTANTS
    t1 = t1
    t2 = t2
    uA = uA
    uB = uB
    Threads = {t1, t2}
    Urls = {uA, uB}
    Rank <- TwoUrls
    Blocks = {1}
    Sizes = {2}
    MinFree = 1
    DeleteOpen = TRUE
    MaxLength = 1
    MaxBytes = 3
    MaxFiles = 2
    Admin = Admin
    Free = Free
    NoUrl = NoUrl
INVARIANTS
    TypeOK
    NeverUndercounts
    AccountingExact
    EntriesHaveFiles
PROPERTIES
    MonitorReleased
