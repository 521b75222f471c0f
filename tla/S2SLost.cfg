\* Both hosts send, nothing fails.
CONSTANTS
    hostA = hostA
    hostB = hostB
    Hosts = {hostA, hostB}
    Senders = {hostA, hostB}
    MaxStanzas = 1
    MaxConns = 4
    MaxBreaks = 0
SPECIFICATION Spec
PROPERTY EventuallyDelivered
\* The bounded senders stop.
CHECK_DEADLOCK FALSE
