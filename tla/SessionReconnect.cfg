SPECIFICATION Spec
CONSTANTS
    A = A
    B = B
    C = C
    Endpoint = {A, B}
    Peer <- MCPeer
    OpenArgs <- MatchedRoles
    NONCE_MAX = 7
    MaxOpens = 2
    MaxEphemerals = 5
    MaxFaults = 1
    Faults = {"lose", "duplicate", "reorder", "damage", "zero", "truncate", "extend", "out_of_memory"}
INVARIANTS
    AuthenticatedReadsWereWritten
    CompletionsPairUp
    ExportedKeysMirror
    ExportedKeysFresh
    ExportMatchesCompletion
    WipedStaysWiped
PROPERTIES
    IdentityPinned
\* A closed or stuck session may stay so for ever.
CHECK_DEADLOCK FALSE
