SPECIFICATION Spec
CONSTANTS
    Trees <- MCTrees
    Calls <- MCCalls
    NoTree = NoTree
INVARIANTS
    TypeOK
    UniqueNames
    ReadsEarlier
    RightSideReadOnce
    MeansThePlan
    RefusesExactly
CHECK_DEADLOCK FALSE
