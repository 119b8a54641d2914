SPECIFICATION FairStreamSpec
CONSTANTS
    K1 = K1
    K2 = K2
    NONCE_MAX = 4
    REKEY_INTERVAL = 3
    MaxFrames = 5
    MaxInFlight = 3
    MaxRekeys = 2
    MaxFaults = 0
INVARIANTS
    Converged
    HeadOpensOrIsStale
    UncrossedFramesOpen
PROPERTIES
    AllDelivered
\* The bounds end every behaviour.
CHECK_DEADLOCK FALSE
