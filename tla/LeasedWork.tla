----------------------------- MODULE LeasedWork -----------------------------
(***************************************************************************)
(* What the Production Manager promises of the worker processes it         *)
(* launches, with the table, leases, retries, controls and crashes left    *)
(* out.  An attempt is a triple <<assignment, text, number>>.  Only texts  *)
(* with authority are launched, one attempt at a time for an assignment,   *)
(* and the attempts of an assignment are numbered upwards, so that none is *)
(* ever launched twice.                                                    *)
(***************************************************************************)
EXTENDS Naturals

CONSTANTS Assignments, Approved

VARIABLES
    launched,   \* the attempts ever launched
    running     \* those whose outcome is still to come

vars == <<launched, running>>

Init == launched = {} /\ running = {}

Attempts == Assignments \X Approved \X Nat

Launch(d) ==
    /\ d \in Attempts
    /\ \A e \in running : e[1] # d[1]
    /\ \A e \in launched : e[1] = d[1] => e[3] < d[3]
    /\ launched' = launched \cup {d}
    /\ running' = running \cup {d}

\* An attempt is over: it returned, or its thread gave up.
Finish(d) ==
    /\ d \in running
    /\ running' = running \ {d}
    /\ UNCHANGED launched

\* The service and its control group are gone.
LoseAll ==
    /\ running' = {}
    /\ UNCHANGED launched

Next ==
    \/ \E d \in launched' : Launch(d)
    \/ \E d \in running : Finish(d)
    \/ LoseAll

Spec == Init /\ [][Next]_vars
=============================================================================
