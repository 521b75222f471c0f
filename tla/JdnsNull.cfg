\* One lookup, two servers: one answers with an error, the other not at all.
CONSTANTS
    nameA = nameA
    nameB = nameB
    serverA = serverA
    serverB = serverB
    reqA = reqA
    reqB = reqB
    Names = {nameA, nameB}
    Alias <- MCAlias
    Requests = {reqA}
    Servers = {serverA, serverB}
    Replies = {"answer", "nxdomain", "cname", "error"}
    Lasting = {"answer"}
    GiveUpStep = 4
    MaxQueries = 2
    MaxChanges = 0
SPECIFICATION Spec
INVARIANT ServerAlwaysFound
\* The requests are bounded, and a fault ends the behaviour.
CHECK_DEADLOCK FALSE
