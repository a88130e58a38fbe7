SPECIFICATION Spec
CONSTANTS
    Trees <- DeltaTrees
    Calls <- DeltaCalls
    NoTree = NoTree
INVARIANTS BroadcastsDelta
CHECK_DEADLOCK FALSE
