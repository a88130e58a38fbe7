SPECIFICATION MCSpec
CONSTANTS
    BaseTables <- MCTables
    BuilderMenus <- MCMenus
    Characters <- MCCharacters
    Digits <- MCDigits
    MaxColumns <- MCMaxColumns
    Connections = {c1, c2}
    Texts <- MCTexts
    Statements <- MCStatements
CHECK_DEADLOCK FALSE
INVARIANTS ReadsWhatThePlanMeans NamesDenoteTheirColumns EveryColumnHasAName PlansFitTheirReaders
