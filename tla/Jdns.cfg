\* Two lookups of two names that are aliases of each other, two servers.
CONSTANTS
    nameA = nameA
    nameB = nameB
    serverA = serverA
    serverB = serverB
    reqA = reqA
    reqB = reqB
    Names = {nameA, nameB}
    Alias <- MCAlias
    Requests = {reqA, reqB}
    Servers = {serverA, serverB}
    Replies = {"answer", "nxdomain", "cname", "error"}
    Lasting = {"answer"}
    GiveUpStep = 3
    MaxQueries = 3
    MaxChanges = 1
SPECIFICATION Spec
INVARIANT TypeOK
INVARIANT Served
INVARIANT EveryServerAsked
PROPERTY EveryLookupEnds
\* The requests are bounded, and a fault ends the behaviour.
CHECK_DEADLOCK FALSE
