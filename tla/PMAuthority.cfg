SPECIFICATION Spec
CONSTANTS
    Assignments = {a1}
    Scopes = {t1, t2}
    Approved = {t1}
    Edits = {"scope"}
    Phases = {"progress", "blocked"}
    Slots = {k1}
    Actions = {"pause", "resume"}
    Priorities = {0}
    Procs = {"service", "cli"}
    MaxAttempts = 1
    Timeout = 1
    Margin = 1
    LeaseSeconds = 1
    RetryDelay = 1
    Slack = 0
    MaxCrashes = 0
    MaxRaises = 0
    MaxRequests = 2
    RoadmapPriority <- MCRoadmapPriority
INVARIANTS
    AuthorizedWorkOnly
