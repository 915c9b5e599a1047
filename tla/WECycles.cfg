SPECIFICATION Spec
CONSTANTS
    Items = {1, 2}
    Idempotent = {1}
    NeedsApproval = {2}
    Dependent = {2}
    Priority <- MCPriority
    Capacities = {1, 2}
    MaxAttempts = 2
    MaxFaults = 1
INVARIANTS TypeOK NoBlindRerun CompleteIsReal DeniedStaysOff
PROPERTIES NoStarvation ImplementsReconciledAction
