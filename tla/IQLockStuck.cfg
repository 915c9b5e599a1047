SPECIFICATION Spec
CONSTANTS
    PRs = {1, 2, 3}
    Admitted = {1, 2, 3}
    Recovery = {3}
    BatchSize = 2
    MaxMoves = 1
    MaxFaults = 0
    Files <- MCFiles
    Changes <- MCChanges
    Mergeability <- MCMergeability
CHECK_DEADLOCK FALSE
PROPERTY VerifiedUnlocks
