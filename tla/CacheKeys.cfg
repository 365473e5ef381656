SPECIFICATION Spec
CONSTANTS
    outer = outer
    inner = inner
    None = None
    Repo = {outer}
    Signed = {outer}
    Configured = {outer}
    Below <- MCBelow
    Handler = {h1}
    Scheduler = loop
    Off = off
    Policies = {key1, key2}
    StartPolicies = {key1}
    Reloadable = {key1, key2}
    KeyErrors = {}
    Refresh <- MCRefresh
    RetryInterval = 1
    Grace = 0
    StartTime = 0
    MaxTime = 1
INVARIANT
    PolicyOfLastSuccess
