\* One local user who may log in twice with the same resource, one remote contact.
CONSTANTS
    a = a
    b = b
    r = r
    x = x
    Users = {a}
    Remotes = {r}
    Resources = {x}
    NoRes = NoRes
    Contacts <- EachOther
    DirectedTo <- RemoteTargets
    MaxSessions = 2
    MaxOrphans = 1
SPECIFICATION Spec
INVARIANTS AskInv NoGhost
PROPERTIES OnlyAuthorisedLearn SubscriptionGrows

