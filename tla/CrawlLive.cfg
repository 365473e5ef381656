SPECIFICATION LiveSpec
CONSTANTS
    jammy = jammy
    noble = noble
    epel = epel
    pool = pool
    None = None
    Lock = {l1, l2, l3}
    Key = {jammy, pool}
    Resource = {jammy}
    RootKey <- MCRootKey
    Crawler = {c1, c2}
    Handler = {h1}
    Scheduler = loop
    Thread <- MCThread
    Limits = {1}
    DrainTimeout = TRUE
INVARIANTS
    LockInv
    MutualExclusion
PROPERTIES
    ImplementsMutex
    SlotsTurnOver
    StopCompletes
