SPECIFICATION Spec
CONSTANTS
    Conn = {c1}
    MaxSlots = 1
    MaxLoads = 1
INVARIANTS
    XXEndsUpLive
\* The bound on loads ends every behaviour.
CHECK_DEADLOCK FALSE
