SPECIFICATION StrictSpec
CONSTANTS
    Conns = {c1}
    r1 = r1
    r2 = r2
    Rows = {r1, r2}
    MaxRows = 2
    Statements <- AllStatements
    NoStatement = NoStatement
    Settings <- AllSettings
    LogMode = FALSE
    MaxStatements = 2
    Workloads <- MCWorkloads
    MaxTorn = 2
CHECK_DEADLOCK FALSE
INVARIANTS
    StrictAnswersSound
    StormTypeOK
    NoProcessLeft
    PipesInStep
    LptsTimeoutsDeserved
    JudgedByItself
    GreenMeansChecked
PROPERTIES
    ContractSpec
    StatementsEnd
    DriverEnds
