SPECIFICATION FairSpec
CONSTANTS
    Assignments = {a1}
    Scopes = {t1}
    Approved = {t1}
    Edits = {"scope", "issue"}
    Phases = {}
    Slots = {k1, k2}
    Actions = {"pause", "cancel"}
    Priorities = {0}
    Procs = {"service"}
    MaxAttempts = 2
    Timeout = 1
    Margin = 1
    LeaseSeconds = 1
    RetryDelay = 1
    Slack = 0
    MaxCrashes = 1
    MaxRaises = 1
    MaxRequests = 1
    RoadmapPriority <- MCRoadmapPriority
INVARIANTS
    TypeOK
    OneWorkerPerAssignment
    FreshDispatch
    RetryBudget
PROPERTIES
    ImplementsLeasedWork
    WorkMovesOn
    RequestsAreServed
