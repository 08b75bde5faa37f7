SPECIFICATION MCSpec
CONSTANTS
    run1 = run1
    run2 = run2
    manual = manual
    laptop = laptop
    phone = phone
    cable = cable
    ana = ana
    bia = bia
    caio = caio
    n1 = n1
    n2 = n2
    STOCK = STOCK
    NOBODY = NOBODY
    Runs <- MCRuns
    Manual <- MCManual
    Assets <- MCAssets
    Untagged <- MCUntagged
    People <- MCPeople
    Number <- MCNumber
    Mentions <- MCMentions
    PageSize = 2
    MaxHandOvers = 1
CHECK_DEADLOCK FALSE
INVARIANTS TypeOK RowPerAsset ReturnsAreTrue NotesAreEarned
PROPERTIES OwnEquipmentOnly RunsEnd
