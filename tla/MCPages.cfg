SPECIFICATION Spec
CONSTANTS
    HTMLPageSizes = {1, 2}
    htmlPageSize = 1
    None = None
    NoSlug = NoSlug
    Archive <- MCArchive
    allowedWindows = {2}
    Actors = {"ann", "bob"}
    Parts <- MCParts
    OldLogs <- MCOldLogs
    Catalogs <- MCCatalogs
    Links <- MCLinks
    Fields = {"source"}
    Start = 3
    MaxTime = 4
    MaxRows <- MCMaxRows
    Moving <- MCMoving
    MaxDeletes = 1
INVARIANTS
    DeleteCostsOne
    LogMissesAreBounded
    EmptyPageIsEmptyList
    NumbersLeadEverywhere
    PickMeetsPolicy
