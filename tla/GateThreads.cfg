SPECIFICATION Spec
CONSTANTS
    T1 = T1
    T2 = T2
    T3 = T3
    Thread = {T1, T2, T3}
    MaxCalls = 4
    NONCE_MAX = 7
SYMMETRY Threads
INVARIANTS
    LateCallsRefused
    StrandRefusesTransport
    StrandExportsOnce
\* The bound on calls ends every behaviour.
CHECK_DEADLOCK FALSE
