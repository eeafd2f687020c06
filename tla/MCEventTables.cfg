SPECIFICATION Spec
CONSTANTS
    Archs <- MCArchs
    Names <- MCNames
    Words <- MCWords
    Sys = "sys"
    Trees <- MCTrees
    Selections <- MCSelections
    Rows <- MCRows
    FixedRows <- MCFixedRows
    None = None
CHECK_DEADLOCK FALSE
INVARIANT StandardEventsOwn
INVARIANT ReadEntriesKept
INVARIANT TablesMatchDirectories
INVARIANT RowsGiveTheirModel
INVARIANT SysTablesMappedOnce
