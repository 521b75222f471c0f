\* Both hosts send, one connection may fail.
CONSTANTS
    hostA = hostA
    hostB = hostB
    Hosts = {hostA, hostB}
    Senders = {hostA, hostB}
    MaxStanzas = 2
    MaxConns = 4
    MaxBreaks = 1
SPECIFICATION Spec
INVARIANTS TypeOK OneOutbound ActiveHasNoPending ActiveIsValidated ValidatedWasAsked NoDuplicates
PROPERTY Settles
\* The bounded senders stop.
CHECK_DEADLOCK FALSE
