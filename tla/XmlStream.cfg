\* Both ends write, the client closes or sends malformed text, a socket may fail.
CONSTANTS
    MaxClient = 2
    MaxServer = 1
    MaxTroubles = 1
SPECIFICATION Spec
INVARIANT TypeOK
INVARIANT BytesAccounted
INVARIANT NoLostWakeup
INVARIANT InOrderAndLossBounded
PROPERTY BothEnd
\* Closed streams stop.
CHECK_DEADLOCK FALSE
