SPECIFICATION Spec
CONSTANTS
    A = A
    B = B
    C = C
    Endpoint = {A, B}
    Peer <- MCPeer
    OpenArgs <- IKArgs
    NONCE_MAX = 7
    MaxOpens = 2
    MaxEphemerals = 4
    MaxFaults = 2
    Faults = {"zero"}
INVARIANTS
    PoisonedNeverCompletes
\* A closed or stuck session may stay so for ever.
CHECK_DEADLOCK FALSE
