SPECIFICATION Spec
CONSTANTS
    PRs = {1, 2, 3}
    Admitted = {1, 2, 3}
    Recovery = {3}
    BatchSize = 2
    MaxMoves = 1
    MaxFaults = 1
    Files <- MCFiles
    Changes <- MCChanges
    Mergeability <- MCMergeability
INVARIANTS TypeOK OneTrainAhead OneGate GateShutUnderLock DisjointAhead TrainIsGreedy
CHECK_DEADLOCK FALSE
PROPERTY QueueMoves
