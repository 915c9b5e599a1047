\* One release, deployed and rolled back; one mishap.
SPECIFICATION Spec
CONSTANTS
    Last = 1
    MaxTxns = 2
    MaxFaults = 1
    MaxStarts = 0
INVARIANT FreezeAlwaysRecoverable
CHECK_DEADLOCK FALSE
