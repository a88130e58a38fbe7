SPECIFICATION Spec
CONSTANTS
    f1 = f1
    f2 = f2
    c1 = c1
    c2 = c2
    Conns = {c1, c2}
    Files = {f1, f2}
    Subdirs <- Lists
    Programs <- Builds
    Workers = {w1, w2}
    MaxRuns = 2
CHECK_DEADLOCK FALSE
INVARIANTS EveryGainReported
