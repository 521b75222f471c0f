\* Logins by every way, with each kind of layer, over a socket that writes any
\* number of bytes at a time.
CONSTANTS
    TlsOverhead = 2
    SaslOverhead = 1
    ElementBytes = 3
    MaxChallenges = 3
    MaxStanzas = 3
SPECIFICATION Spec
INVARIANT TypeOK
INVARIANT WritesReported
INVARIANT Announced
INVARIANT SameLayers
PROPERTY LoginEnds
\* A login ends, and stanzas are bounded.
CHECK_DEADLOCK FALSE
