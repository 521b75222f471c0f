\* One host sends, nothing fails.
CONSTANTS
    hostA = hostA
    hostB = hostB
    Hosts = {hostA, hostB}
    Senders = {hostA}
    MaxStanzas = 6
    MaxConns = 2
    MaxBreaks = 0
SPECIFICATION Spec
PROPERTY ImplementsLink
\* The bounded senders stop.
CHECK_DEADLOCK FALSE
