SPECIFICATION Spec
CONSTANTS
    jammy = jammy
    noble = noble
    epel = epel
    pool = pool
    None = None
    Lock = {l1, l2, l3}
    Key = {jammy, noble, epel, pool}
    Resource = {jammy, noble}
    RootKey <- MCRootKey
    Crawler = {c1, c2}
    Handler = {h1}
    Scheduler = loop
    Thread <- MCThread
    Limits = {1, 2}
    DrainTimeout = FALSE
INVARIANTS
    DispatchInv
    CrawlExclusive
    StopInOrder
