SPECIFICATION MCSpec
CONSTANTS
    Tables <- MCTables
    CteNames <- MCCteNames
    ColumnPrefixes <- MCColumnPrefixes
    Reserved <- MCReserved
    Menus <- MCNoText
    JoinMenus <- MCNoJoin
    Fields <- MCFields
    FormatLength = 3
    InputMenus <- MCNoInput
    MAX_INLINE_CTE_DEPTH = 3
INVARIANTS FormatsKeepTheirMeaning
