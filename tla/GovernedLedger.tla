--------------------------- MODULE GovernedLedger ---------------------------
(***************************************************************************)
(* The durable approval ledger of the Central Orchestrator                 *)
(* (implementation/orchestrator/governed_execution_ledger.py), one SQLite  *)
(* table whose rows go reserved -> consumed -> succeeded | failed.  Every  *)
(* operation below is one BEGIN IMMEDIATE transaction of that file, hence  *)
(* one step.                                                               *)
(*                                                                         *)
(* Data abstraction.  A row is named by its approval_id; its idempotency   *)
(* key is minted with it and never shared, so "the key matches" is a       *)
(* Boolean of the request.  An intent fingerprint (principal, tenant,      *)
(* client, capability, arguments) is a member of Intents, a concrete       *)
(* execution plan a member of Plans.  expires_at is kept as rowLife, the   *)
(* number of ticks left: rowLife = 0 is "expires_at <= now".               *)
(***************************************************************************)
EXTENDS Naturals

CONSTANTS
  Intents,       \* intent fingerprints
  Plans,         \* concrete execution plans (by fingerprint)
  Approvals,     \* the uuids reserve_approval can mint
  PlanSteps,     \* the planstep-... ids of approved multi-step plans
  TTL,           \* ttl_seconds, in ticks
  NoIntent, NoPlan

ASSUME LedgerAssumption ==
  /\ TTL \in Nat \ {0}
  /\ NoIntent \notin Intents
  /\ NoPlan \notin Plans
  /\ Approvals \cap PlanSteps = {}

Rows == Approvals \cup PlanSteps

VARIABLES
  rowState,      \* Rows -> lifecycle; "unminted" was never inserted
  rowIntent,     \* Rows -> intent_fingerprint
  rowPlan,       \* Rows -> execution_plan_fingerprint
  rowLife,       \* Rows -> ticks until expires_at
  settled        \* history: rows whose success was durably recorded

ledgerVars == <<rowState, rowIntent, rowPlan, rowLife, settled>>

RegisteredStates == {"reserved", "consumed", "succeeded", "failed"}

(* A DELETEd row keeps its intent and plan here as history only: every     *)
(* operation reads them through Registered.                                *)
RowStates == RegisteredStates \cup {"unminted", "deleted"}

LedgerTypeOK ==
  /\ rowState \in [Rows -> RowStates]
  /\ rowIntent \in [Rows -> Intents \cup {NoIntent}]
  /\ rowPlan \in [Rows -> Plans \cup {NoPlan}]
  /\ rowLife \in [Rows -> 0 .. TTL]
  /\ settled \subseteq Rows

LedgerInit ==
  /\ rowState = [a \in Rows |-> "unminted"]
  /\ rowIntent = [a \in Rows |-> NoIntent]
  /\ rowPlan = [a \in Rows |-> NoPlan]
  /\ rowLife = [a \in Rows |-> 0]
  /\ settled = {}

Registered(a) == rowState[a] \in RegisteredStates

(* The row reserve_approval selects by action_fingerprint; the rows of     *)
(* plan steps carry a fingerprint of their own and are never selected.     *)
ActionRows(i) == {a \in Approvals : Registered(a) /\ rowIntent[a] = i}

(* _validate_row_values: registered, exact intent, exact key, not expired. *)
Validated(a, i, keyOk) ==
  /\ Registered(a)
  /\ rowIntent[a] = i
  /\ keyOk
  /\ rowLife[a] > 0

(* Mutant: a consumed row expires like any other.                          *)
ReplaceableIgnoringClaim(a) == rowLife[a] = 0

(* reserve_approval may replace the row of an action only when it has      *)
(* expired and was never left consumed.                                    *)
Replaceable(a) == rowState[a] # "consumed" /\ rowLife[a] = 0

(* reserve_approval: with a row that is not Replaceable the call returns   *)
(* that row and changes nothing; otherwise it is deleted and a fresh one   *)
(* inserted.                                                               *)
ReserveApproval(i, a) ==
  /\ rowState[a] = "unminted"
  /\ \A b \in ActionRows(i) : Replaceable(b)
  /\ rowState' = [b \in Rows |-> IF b = a THEN "reserved"
                                 ELSE IF b \in ActionRows(i) THEN "deleted"
                                 ELSE rowState[b]]
  /\ rowIntent' = [rowIntent EXCEPT ![a] = i]
  /\ rowLife' = [rowLife EXCEPT ![a] = TTL]
  /\ UNCHANGED <<rowPlan, settled>>

(* reserve_approved_plan_step: inserts the child row of an approved plan   *)
(* once.  A second call either returns the row or raises; an expired plan  *)
(* raises.                                                                 *)
ReserveApprovedPlanStep(s, i, life) ==
  /\ life > 0
  /\ rowState[s] = "unminted"
  /\ rowState' = [rowState EXCEPT ![s] = "reserved"]
  /\ rowIntent' = [rowIntent EXCEPT ![s] = i]
  /\ rowLife' = [rowLife EXCEPT ![s] = life]
  /\ UNCHANGED <<rowPlan, settled>>

(* authorize_execution_plan, the committing path: reserved -> consumed,    *)
(* with the plan the approval is now bound to.                             *)
AuthorizeExecutionPlan(a, p) ==
  /\ rowState' = [rowState EXCEPT ![a] = "consumed"]
  /\ rowPlan' = [rowPlan EXCEPT ![a] = p]
  /\ UNCHANGED <<rowIntent, rowLife, settled>>

(* Mutant: the stored fingerprint is not compared.                         *)
PlanVerifiedAnyPlan(a, i, keyOk, p) ==
  Validated(a, i, keyOk) /\ rowState[a] = "consumed"

(* verify_execution_plan: the row is still valid, consumed, and bound to   *)
(* exactly this plan.                                                      *)
PlanVerified(a, i, keyOk, p) ==
  /\ Validated(a, i, keyOk)
  /\ rowState[a] = "consumed"
  /\ rowPlan[a] = p

(* complete and reconcile_consumed_success: consumed -> succeeded.         *)
SettleSuccess(a) ==
  /\ rowState' = [rowState EXCEPT ![a] = "succeeded"]
  /\ settled' = settled \cup {a}
  /\ UNCHANGED <<rowIntent, rowPlan, rowLife>>

(* Mutant: the failure writes a state the lifecycle does not have.         *)
FailAsExpired(a) ==
  /\ rowState' = [rowState EXCEPT ![a] = IF @ = "consumed" THEN "expired" ELSE @]
  /\ UNCHANGED <<rowIntent, rowPlan, rowLife, settled>>

(* fail: UPDATE ... WHERE state='consumed', silently nothing otherwise.    *)
Fail(a) ==
  /\ rowState' = [rowState EXCEPT ![a] = IF @ = "consumed" THEN "failed" ELSE @]
  /\ UNCHANGED <<rowIntent, rowPlan, rowLife, settled>>

(* Time passes for every row at once.                                      *)
Elapse ==
  /\ \E a \in Rows : rowLife[a] > 0
  /\ rowLife' = [a \in Rows |-> IF rowLife[a] > 0 THEN rowLife[a] - 1 ELSE 0]
  /\ UNCHANGED <<rowState, rowIntent, rowPlan, settled>>

=============================================================================
