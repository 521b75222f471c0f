\* The lost connection of TODO:4.
CONSTANTS
    a = a
    b = b
    r = r
    x = x
    Users = {a, b}
    Remotes = {}
    Resources = {x}
    NoRes = NoRes
    Contacts <- EachOther
    DirectedTo = {}
    MaxSessions = 1
    MaxOrphans = 1
SPECIFICATION Spec
INVARIANT LostIsUnavailable
