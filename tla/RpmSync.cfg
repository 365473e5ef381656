SPECIFICATION Spec
CONSTANTS
    Last = 3
    Serves <- MCServes
    Trusted = {1, 3}
    Path = {"index", "old", "pkg"}
    Index = {"index"}
    Want <- MCWant
    Modes = {"off", "if-present", "required"}
    MissingModes = {"retry", "fail"}
    Retries = 2
    Grace = 1
    MaxTime = 1
INVARIANTS
    LiveComplete
    SignatureMatches
    RecordsInv
PROPERTIES
    ShowsGenerations
    PublishedComplete
