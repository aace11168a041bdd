SPECIFICATION FairSpec
CONSTANTS
    t1 = t1
    t2 = t2
    w1 = w1
    api = api
    engine = engine
    Traders = {t1, t2}
    Tidiers = {w1}
    Servers = {api, engine}
    Home <- MCHome
    Does <- MCDoes
    MaxRows = 2
    MaxLots = 2
    MaxEvents = 3
INVARIANTS
    TypeOK
    NoStaleMark
PROPERTIES
    GraceIsKept
    OverbookingHeals
    DuplicatesMerge
