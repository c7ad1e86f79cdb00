SPECIFICATION BackupsSpec
CONSTANTS
    Ops = {b1, b2}
    Dests = {d1}
    Paths = {db, doc, source}
    Db = db
    Excluded = {source}
    None = None
    Old = Old
    Restores = {r1, r2}
    RestorePaths = {cfg, doc}
    ConfigPath = cfg
INVARIANTS
    PublishedIsComplete
PROPERTIES
    SuccessIsRestored
    ConsentToOverwrite
