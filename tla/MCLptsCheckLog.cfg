SPECIFICATION MCSpec
CONSTANTS
    Conns = {c1, c2}
    r1 = r1
    r2 = r2
    Rows = {r1, r2}
    MaxRows = 2
    Statements <- WithFewStatements
    NoStatement = NoStatement
    Settings <- AllSettings
    LogMode = TRUE
    MaxStatements = 2
CONSTRAINT TwoAtATime
INVARIANTS TypeOK RowsConserved LogLinesSound OneLinePerNumber RowsUnchanged
PROPERTIES NoSelectSlipsThrough ContractSpec
