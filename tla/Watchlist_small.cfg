SPECIFICATION Spec
CONSTANTS
    s1 = s1
    s2 = s2
    u1 = u1
    u2 = u2
    c1 = c1
    c2 = c2
    None = None
    Sessions = {s1, s2}
    Users = {u1, u2}
    Scrips = {c1, c2}
    MaxItems = 2
    MaxLists = 1
    MaxListId = 3
    MaxItemId = 4
SYMMETRY Symmetry
INVARIANTS
    TypeOK
    ItemsWithinLimit
    ListsWithinLimit
    CopiesWithinLimit
    ItemsStayWithOwner
    AddedIsListed
