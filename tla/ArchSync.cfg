SPECIFICATION Spec
CONSTANTS
    Last = 3
    Extra = {"files"}
    Serves <- MCServes
    Trusted = {1, 2}
    Package = {"old", "pkg"}
    Want <- MCWant
    Signed <- MCSigned
    Confs <- MCConfs
    Retries = 2
INVARIANTS
    LiveComplete
    PairsMatch
PROPERTIES
    NoStaleCompanion
