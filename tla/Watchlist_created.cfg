SPECIFICATION Spec
CONSTANTS
    s1 = s1
    s2 = s2
    u1 = u1
    u2 = u2
    c1 = c1
    c2 = c2
    None = None
    Sessions = {s1, s2}
    Users = {u1}
    Scrips = {c1}
    MaxItems = 1
    MaxLists = 2
    MaxListId = 2
    MaxItemId = 3
SYMMETRY Symmetry
INVARIANTS
    CreatedListHasScrip
