SPECIFICATION Spec
CONSTANTS
    Slot = {S1, S2, S3}
    NoSlot = NoSlot
    NONCE_MAX = 3
    REKEY_INTERVAL = 2
    MaxFrames = 4
    MaxRekeys = 1
SYMMETRY Slots
INVARIANTS
    NoResidue
    SealsUnique
PROPERTIES
    ImplementsObjectValues
\* Every object may be destroyed, and the process may abort.
CHECK_DEADLOCK FALSE
