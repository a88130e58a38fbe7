SPECIFICATION MCSpec
CONSTANTS
    Tables <- MCTables
    CteNames <- MCCteNames
    ColumnPrefixes <- MCColumnPrefixes
    Reserved <- MCReserved
    Menus <- MCMenus
    JoinMenus <- MCJoinMenus
    Fields <- MCFields
    FormatLength = 3
    InputMenus <- MCInputMenus
    MAX_INLINE_CTE_DEPTH = 3
INVARIANTS SortsByTheSameKeys
