SPECIFICATION FairSpec
CONSTANTS
    A = A
    B = B
    C = C
    Endpoint = {A, B}
    Peer <- MCPeer
    OpenArgs <- MatchedRoles
    NONCE_MAX = 7
    MaxOpens = 1
    MaxEphemerals = 4
    MaxFaults = 3
    Faults = {"duplicate"}
PROPERTIES
    HandshakeCompletes
\* A closed or stuck session may stay so for ever.
CHECK_DEADLOCK FALSE
