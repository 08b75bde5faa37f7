SPECIFICATION MCSpec
CONSTANTS
    e1 = e1
    e2 = e2
    Exports <- MCExports
    Filters <- MCFilters
    Actions <- MCActions
    Limit = 2
    Ticks <- MCTicks
    MaxTime = 6480
    MaxRows = 3
CHECK_DEADLOCK FALSE
INVARIANTS TypeOK FilesAreOnRecord ExportsAreComplete WalksMissNothing
PROPERTIES OnlyDueRowsGo DueRowsGo
