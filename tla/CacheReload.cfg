SPECIFICATION Spec
CONSTANTS
    outer = outer
    inner = inner
    None = None
    Repo = {outer}
    Signed = {outer}
    Configured = {}
    Below <- MCBelow
    Handler = {h1}
    Scheduler = loop
    Off = off
    Policies = {key1, off}
    StartPolicies = {key1}
    Reloadable = {key1, off}
    KeyErrors = {}
    Refresh <- MCRefresh
    RetryInterval = 1
    Grace = 2
    StartTime = 0
    MaxTime = 2
INVARIANT
    PolicyOfLastSuccess
