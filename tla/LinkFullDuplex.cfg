SPECIFICATION StreamSpec
CONSTANTS
    K1 = K1
    K2 = K2
    NONCE_MAX = 4
    REKEY_INTERVAL = 3
    MaxFrames = 6
    MaxInFlight = 3
    MaxRekeys = 0
    MaxFaults = 0
INVARIANTS
    HeadOpens
\* The bounds end every behaviour.
CHECK_DEADLOCK FALSE
