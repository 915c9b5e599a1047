--------------------------- MODULE SingleUseGrant ---------------------------
(***************************************************************************)
(* What the governed execution path promises, with ledger rows, guards,    *)
(* crashes and retries left out: a grant is bound at most once, to one     *)
(* execution and one plan, and each binding has at most one effect, which  *)
(* is that plan.                                                           *)
(***************************************************************************)
CONSTANTS Grants, Execs, Plans

VARIABLES
  bindings,   \* [grant, exec, plan] records: what has been authorized
  effects     \* the bindings whose effect has reached the provider

Binding == [grant : Grants, exec : Execs, plan : Plans]

Init == bindings = {} /\ effects = {}

Authorize(b) ==
  /\ \A c \in bindings : c.grant # b.grant
  /\ bindings' = bindings \cup {b}
  /\ UNCHANGED effects

Perform(b) ==
  /\ b \in bindings \ effects
  /\ effects' = effects \cup {b}
  /\ UNCHANGED bindings

Next == \E b \in Binding : Authorize(b) \/ Perform(b)

Spec == Init /\ [][Next]_<<bindings, effects>>
=============================================================================
