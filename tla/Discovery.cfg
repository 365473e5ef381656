SPECIFICATION Spec
CONSTANTS
    Entry = {"os", "el9", "iso"}
    Top = "pub"
    Parent <- MCParent
    Urls <- MCUrls
    Last = 3
    Kind <- MCKind
    Depth = 1
    Options <- MCOptions
    TTL = 1
    Grace = 1
    MaxTime = 2
INVARIANTS
    TypeOK
    TrackedUntilRemoved
    CleanScanExact
PROPERTIES
    WithdrawnAfterGrace
