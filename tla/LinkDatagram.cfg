SPECIFICATION Spec
CONSTANTS
    K1 = K1
    K2 = K2
    NONCE_MAX = 4
    REKEY_INTERVAL = 2
    MaxFrames = 3
    MaxInFlight = 2
    MaxRekeys = 1
    MaxFaults = 2
INVARIANTS
    TypeOK
    NonceUnique
    LinkInv
PROPERTIES
    ImplementsSecureChannel
\* The bounds end every behaviour.
CHECK_DEADLOCK FALSE
