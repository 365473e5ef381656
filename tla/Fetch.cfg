SPECIFICATION Spec
CONSTANTS
    w1 = w1
    w2 = w2
    req = req
    Main = main
    Nobody = nobody
    Worker = {w1, w2}
    Request = {req}
    Caller <- MCCaller
    Path = {"index", "pkg", "extra"}
    Stripe <- MCStripe
    Mirror = {"a", "b"}
    Moving = {"a"}
    Last = 2
    Body <- MCBody
    Source = {"mount", "crawl"}
    SourceOf <- MCSourceOf
    Bases <- MCBases
    JobLists <- MCJobLists
    OnDemand <- MCOnDemand
SYMMETRY WorkerSymmetry
INVARIANTS
    PoolInv
    WholeFiles
    ReportedAsListed
    SuccessMeansDone
    NobodyStuck
PROPERTIES
    MismatchIsUpstreams
    NoLeftoverPromoted
