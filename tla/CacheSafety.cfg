SPECIFICATION Spec
CONSTANTS
    outer = outer
    inner = inner
    None = None
    Repo = {outer}
    Signed = {outer}
    Configured = {}
    Below <- MCBelow
    Handler = {h1, h2}
    Scheduler = loop
    Off = off
    Policies = {key1, key2, off}
    StartPolicies = {key2}
    Reloadable = {}
    KeyErrors = {"broken"}
    Refresh <- MCRefresh
    RetryInterval = 1
    Grace = 2
    StartTime = 1
    MaxTime = 1
SYMMETRY HandlerSymmetry
INVARIANTS
    RegistryInv
    ServedVerified
PROPERTY
    OnlyTrafficRegisters
