------------------------- MODULE MCProductionManager -------------------------
(* Small instances of the Production Manager for TLC.                       *)
EXTENDS ProductionManager

\* one roadmap item is the most urgent, the others are the least urgent
MCRoadmapPriority ==
    [a \in Assignments |-> IF a = CHOOSE b \in Assignments : TRUE THEN 0
                           ELSE CHOOSE x \in Priorities : \A y \in Priorities : y <= x]
=============================================================================
