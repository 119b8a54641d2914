SPECIFICATION Spec
CONSTANTS
    Conn = {c1, c2}
    MaxSlots = 3
    MaxLoads = 2
INVARIANTS
    NoMemoryError
    NoDanglingProvider
    XXIsPrimary
\* The bound on loads ends every behaviour.
CHECK_DEADLOCK FALSE
