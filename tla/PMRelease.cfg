SPECIFICATION Spec
CONSTANTS
    Assignments = {a1}
    Scopes = {t1}
    Approved = {t1}
    Edits = {}
    Phases = {"complete"}
    Slots = {k1}
    Actions = {"priority", "pause", "cancel"}
    Priorities = {0}
    Procs = {"service", "cli"}
    MaxAttempts = 1
    Timeout = 1
    Margin = 1
    LeaseSeconds = 1
    RetryDelay = 1
    Slack = 0
    MaxCrashes = 1
    MaxRaises = 0
    MaxRequests = 1
    RoadmapPriority <- MCRoadmapPriority
INVARIANTS
    StoppedStaysStopped
PROPERTIES
    CompletionIsVerified
