SPECIFICATION Spec
CONSTANTS
    Assignments = {a1}
    Scopes = {t1}
    Approved = {t1}
    Edits = {"scope", "issue"}
    Phases = {}
    Slots = {k1}
    Actions = {"cancel"}
    Priorities = {0}
    Procs = {"service"}
    MaxAttempts = 2
    Timeout = 1
    Margin = 1
    LeaseSeconds = 1
    RetryDelay = 1
    Slack = 0
    MaxCrashes = 0
    MaxRaises = 0
    MaxRequests = 2
    RoadmapPriority <- MCRoadmapPriority
INVARIANTS
    CancelHonoured
