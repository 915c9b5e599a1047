------------------------- MODULE MCIntegrationQueue --------------------------
(* Small instances of the integration queue for TLC.                        *)
EXTENDS IntegrationQueue

\* pull requests 1 and 2 touch the same file, all others one of their own
MCFiles == [p \in PRs |-> IF p <= 2 THEN {1} ELSE {p}]

\* a push to the first may add the file of the third
MCChanges == [p \in PRs |-> IF p = 1 THEN {{1}, {1, 3}} ELSE {MCFiles[p]}]

\* the first may meet a conflict or be blocked, the second falls behind a main that moves
MCMergeability == [p \in PRs |-> CASE p = 1 -> {"clean", "dirty", "blocked"}
                                   [] p = 2 -> {"behind"}
                                   [] OTHER -> {"clean"}]
=============================================================================
