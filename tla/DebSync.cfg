SPECIFICATION Spec
CONSTANTS
    Last = 3
    Serves <- MCServes
    Trusted = {1, 3}
    Issue <- MCIssue
    Variant = {"gz", "xz"}
    Offers <- MCOffers
    Rank <- MCRank
    Size <- MCSize
    Pool = {"old", "new"}
    Lists <- MCLists
    Confs <- MCConfs
    Retries = 2
INVARIANTS
    LiveComplete
    SignatureMatches
PROPERTIES
    PublishedInOrder
