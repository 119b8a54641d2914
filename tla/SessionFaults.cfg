SPECIFICATION Spec
CONSTANTS
    A = A
    B = B
    C = C
    Endpoint = {A, B}
    Peer <- MCPeer
    OpenArgs <- MixedArgs
    NONCE_MAX = 7
    MaxOpens = 1
    MaxEphemerals = 5
    MaxFaults = 3
    Faults = {"lose", "duplicate", "reorder", "damage", "zero", "truncate", "extend", "out_of_memory"}
INVARIANTS
    TypeOK
    AuthenticatedReadsWereWritten
    PoisonedNeverCompletes
    HandshakeNoncesUnique
    StallIsReported
\* A closed or stuck session may stay so for ever.
CHECK_DEADLOCK FALSE
