SPECIFICATION Spec
CONSTANTS
    T1 = T1
    T2 = T2
    T3 = T3
    Thread = {T1, T2, T3}
    MaxCalls = 3
    NONCE_MAX = 7
SYMMETRY Threads
INVARIANTS
    GateRefusesTransport
\* The bound on calls ends every behaviour.
CHECK_DEADLOCK FALSE
