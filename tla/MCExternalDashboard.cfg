SPECIFICATION DashSpec
CONSTANTS
    Releases = {v1, v2}
    Requests = {r1, r2}
    None = None
    MaxInstalls = 3
    MaxCuts = 2
    MaxFileFaults = 2
    MaxToggles = 2
INVARIANTS DashboardKept DisabledMeansRevoked
