SPECIFICATION Spec
CONSTANTS
    t1 = t1
    t2 = t2
    uA = uA
    uB = uB
    Threads = {t1, t2}
    Urls = {uA, uB}
    Rank <- TwoUrls
    Blocks = {1}
    Sizes = {2}
    MinFree = 1
    DeleteOpen = FALSE
    MaxLength = 1
    MaxBytes = 3
    MaxFiles = 3
    Admin = Admin
    Free = Free
    NoUrl = NoUrl
SYMMETRY Symmetry
INVARIANTS
    EvictsOldest
