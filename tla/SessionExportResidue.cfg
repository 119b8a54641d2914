SPECIFICATION Spec
CONSTANTS
    A = A
    B = B
    C = C
    Endpoint = {A, B}
    Peer <- MCPeer
    OpenArgs <- XXArgs
    NONCE_MAX = 7
    MaxOpens = 1
    MaxEphemerals = 4
    MaxFaults = 0
    Faults = {}
INVARIANTS
    ExportLeavesNoCipherKey
\* A closed or stuck session may stay so for ever.
CHECK_DEADLOCK FALSE
