------------------------ MODULE MCGovernedExecution ------------------------
(* Instances of GovernedExecution for TLC.                                 *)
EXTENDS GovernedExecution, TLC

CONSTANTS i1, i2, p1, p2, p3

(* p3 prepares outside every contract (wrong provider, tenant or client).  *)
MCContract == {p1, p2} \X Intents

Symmetric == Permutations(Execs)

=============================================================================
