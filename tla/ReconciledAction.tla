-------------------------- MODULE ReconciledAction --------------------------
(***************************************************************************)
(* What the work engine promises of the actions it runs, with the state    *)
(* file, cycles, queues, approvals and kills left out.  One call is out at *)
(* a time, and only for an action that is open.  A call that is answered   *)
(* is over; one that is lost leaves the action unsure, and only what may   *)
(* be repeated, or was reconciled, becomes open again.  Nothing that is    *)
(* done or failed for good is ever called again.                           *)
(***************************************************************************)
EXTENDS Naturals

CONSTANTS Items, Idempotent

VARIABLES
    state,      \* "open", "calling", "unsure", "done" or "failed" of each action
    effects,    \* how often each action took effect, at most 2
    fact,       \* interrupted actions are known to be reconciled
    released    \* the actions released by that fact

vars == <<state, effects, fact, released>>

Init ==
    /\ state = [i \in Items |-> "open"]
    /\ effects = [i \in Items |-> 0]
    /\ fact = FALSE
    /\ released = {}

Took(i) == [effects EXCEPT ![i] = IF @ < 2 THEN @ + 1 ELSE @]

Repeatable(R) ==
    \A i \in R : state[i] = "unsure" /\ (i \in Idempotent \/ (fact /\ i \in released))

Reopened(R) == [i \in Items |-> IF i \in R THEN "open" ELSE state[i]]

Learn ==
    /\ fact' = ~fact
    /\ UNCHANGED <<state, effects, released>>

Reconcile(R) ==
    /\ fact /\ \A i \in R : state[i] = "unsure"
    /\ released' = released \cup R
    /\ UNCHANGED <<state, effects, fact>>

Reopen(R) ==
    /\ Repeatable(R)
    /\ state' = Reopened(R)
    /\ UNCHANGED <<effects, fact, released>>

\* What is reopened may be called at once.
Call(i, R) ==
    /\ \A j \in Items : state[j] # "calling"
    /\ Repeatable(R) /\ Reopened(R)[i] = "open"
    /\ state' = [Reopened(R) EXCEPT ![i] = "calling"]
    /\ UNCHANGED <<effects, fact, released>>

\* An answer tells whether the action took effect ...
Answer(i, result) ==
    /\ state[i] = "calling"
    /\ state' = [state EXCEPT ![i] = result]
    /\ effects' = IF result = "done" THEN Took(i) ELSE effects
    /\ UNCHANGED <<fact, released>>

\* ... and without one this is not known.
Lose(i) ==
    /\ state[i] = "calling"
    /\ state' = [state EXCEPT ![i] = "unsure"]
    /\ effects' \in {effects, Took(i)}
    /\ UNCHANGED <<fact, released>>

Next ==
    \/ Learn
    \/ \E R \in SUBSET Items : Reconcile(R) \/ Reopen(R)
    \/ \E i \in Items, R \in SUBSET Items : Call(i, R)
    \/ \E i \in Items, result \in {"open", "done", "failed"} : Answer(i, result)
    \/ \E i \in Items : Lose(i)

Spec == Init /\ [][Next]_vars
=============================================================================
