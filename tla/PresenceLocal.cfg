\* Two local users, one resource, one session each.
CONSTANTS
    a = a
    b = b
    r = r
    x = x
    Users = {a, b}
    Remotes = {}
    Resources = {x}
    NoRes = NoRes
    Contacts <- EachOther
    DirectedTo <- BareLocal
    MaxSessions = 1
    MaxOrphans = 1
SPECIFICATION Spec
SYMMETRY Symmetry
INVARIANTS TypeOK AskInv ClientRosterInSync NoGhost SubscribersSeePresence
PROPERTIES OnlyAuthorisedLearn GrantIsMutual

