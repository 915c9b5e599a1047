\* One release, deployed and rolled back; one mishap anywhere, one engineering run.
SPECIFICATION Spec
CONSTANTS
    Last = 1
    MaxTxns = 2
    MaxFaults = 1
    MaxStarts = 1
INVARIANTS TypeOK FreezeRecoverable BreakerGuards Exclusion
PROPERTIES FreezeHeld RestoredWhenRolledBack PolicyRestored ClosedWasGood FreezeReturns
CHECK_DEADLOCK FALSE
