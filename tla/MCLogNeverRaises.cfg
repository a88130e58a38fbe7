SPECIFICATION Spec
CONSTANTS
    Conns = {c1}
    r1 = r1
    r2 = r2
    Rows = {r1, r2}
    MaxRows = 2
    Statements <- AllStatements
    NoStatement = NoStatement
    Settings <- AllSettings
    LogMode = TRUE
    MaxStatements = 1
CHECK_DEADLOCK FALSE
INVARIANTS LogNeverRaises
