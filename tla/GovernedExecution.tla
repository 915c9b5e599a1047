------------------------- MODULE GovernedExecution -------------------------
(***************************************************************************)
(* CentralOrchestrator.execute (implementation/orchestrator/service.py)    *)
(* run by concurrent executions over the shared approval ledger, with the  *)
(* callers that hand it authority: approval reservations, one-time         *)
(* approval continuations (approval_continuation.py), one-time recovery    *)
(* retries (approval_recovery_retry.py), and the readback reconciliation   *)
(* of a consumed approval (autonomy_worker_runtime.py).                    *)
(*                                                                         *)
(* Each execution is one call of execute; its steps are separated wherever *)
(* the code releases the database, calls the provider, or may die.  The    *)
(* provider is external: preparing a plan may resolve to any plan, and an  *)
(* invocation applies its effect and then answers, or raises.              *)
(***************************************************************************)
EXTENDS GovernedLedger

CONSTANTS
  Execs,            \* calls of CentralOrchestrator.execute
  Continuations,    \* approval ids claimed by ApprovalExecutionContinuation
  Recoveries,       \* recovery ids claimed by the recovery retry executor
  NeedsApproval,    \* intents whose capability requires approval
  Reconcilable,     \* intents of service.ticket.update, which have a readback
  Contract,         \* <<plan, intent>> pairs that pass the plan contract check
  RaisesAfterEffect,\* TRUE: an invocation may apply its effect and then raise
  NoGrant

External == Continuations \cup Recoveries
Grants == Rows \cup External

ASSUME ExecutionAssumption ==
  /\ External \cap Rows = {}
  /\ Continuations \cap Recoveries = {}
  /\ NoGrant \notin Grants
  /\ NeedsApproval \subseteq Intents
  /\ Reconcilable \subseteq Intents
  /\ Contract \subseteq Plans \X Intents
  /\ RaisesAfterEffect \in BOOLEAN

VARIABLES
  claimed,     \* one-time claims already inserted (both guard tables)
  recovery,    \* Recoveries -> disposition of its immutable record
  pc,          \* Execs -> where the call is
  req,         \* Execs -> its request
  prep,        \* Execs -> the plan prepared last
  auth,        \* Execs -> execution_plan_fingerprint, the authorized plan
  audited,     \* executions whose authorized plan is in the audit log
  result,      \* Execs -> what the caller was told
  applied,     \* executions whose effect reached the provider
  target,      \* Intents -> the plan the provider's object now shows
  shown        \* history: <<intent, plan>> pairs the object has ever shown

guardVars == <<claimed, recovery>>
execVars == <<pc, req, prep, auth, audited, result>>
providerVars == <<applied, target, shown>>
vars == <<ledgerVars, guardVars, execVars, providerVars>>

Dispositions == {"confirmed_completed", "confirmed_not_executed",
                 "abandoned", "retry_authorized"}

Request(mode, g, i, k) == [mode |-> mode, grant |-> g, intent |-> i, keyOk |-> k]

NoRequest == [mode |-> "none", grant |-> NoGrant, intent |-> NoIntent, keyOk |-> FALSE]

Labels == {"idle", "received", "checking", "rejected", "matched", "preparing",
           "authorizing", "auditing", "repreparing", "verifying", "invoking",
           "applied", "releasing", "completing", "failing", "done"}

Results == {"none", "denied", "replayed", "reconciled", "succeeded",
            "failed", "withheld", "lost"}

TypeOK ==
  /\ LedgerTypeOK
  /\ claimed \subseteq External
  /\ recovery \in [Recoveries -> Dispositions \cup {"none"}]
  /\ pc \in [Execs -> Labels]
  /\ req \in [Execs -> [mode : {"none", "approval", "external", "plain"},
                        grant : Grants \cup {NoGrant},
                        intent : Intents \cup {NoIntent}, keyOk : BOOLEAN]]
  /\ \A e \in Execs :
        /\ pc[e] # "idle" => req[e].intent \in Intents
        /\ req[e].mode = "approval" => req[e].grant \in Rows
        /\ pc[e] \in {"checking", "rejected", "matched"} => req[e].mode = "approval"
  /\ prep \in [Execs -> Plans \cup {NoPlan}]
  /\ auth \in [Execs -> Plans \cup {NoPlan}]
  /\ audited \subseteq Execs
  /\ result \in [Execs -> Results]
  /\ applied \subseteq Execs
  /\ target \in [Intents -> Plans \cup {NoPlan}]
  /\ shown \subseteq Intents \X Plans

Init ==
  /\ LedgerInit
  /\ claimed = {}
  /\ recovery = [r \in Recoveries |-> "none"]
  /\ pc = [e \in Execs |-> "idle"]
  /\ req = [e \in Execs |-> NoRequest]
  /\ prep = [e \in Execs |-> NoPlan]
  /\ auth = [e \in Execs |-> NoPlan]
  /\ audited = {}
  /\ result = [e \in Execs |-> "none"]
  /\ applied = {}
  /\ target = [i \in Intents |-> NoPlan]
  /\ shown = {}

-----------------------------------------------------------------------------
(* Control of one call.                                                    *)

At(e, label) == pc[e] = label
Goto(e, label) == pc' = [pc EXCEPT ![e] = label]
Answer(e, r) == result' = [result EXCEPT ![e] = r]
Return(e, r) == Goto(e, "done") /\ Answer(e, r)

Governed(e) == req[e].mode \in {"approval", "external"}
ByApproval(e) == req[e].mode = "approval"

-----------------------------------------------------------------------------
(* Callers.                                                                *)

(* A caller reserves the approval of an action, or of a step of an         *)
(* approved plan, before it sends the request.                             *)
Reserve ==
  /\ \/ \E i \in Intents, a \in Approvals : ReserveApproval(i, a)
     \/ \E s \in PlanSteps, i \in Intents, life \in 1 .. TTL :
           ReserveApprovedPlanStep(s, i, life)
  /\ UNCHANGED <<guardVars, execVars, providerVars>>

Tick == Elapse /\ UNCHANGED <<guardVars, execVars, providerVars>>

(* SQLiteApprovalRecoveryLedger.record: one immutable record per id.       *)
RecordRecovery(r, d) ==
  /\ recovery[r] = "none"
  /\ recovery' = [recovery EXCEPT ![r] = d]
  /\ UNCHANGED <<ledgerVars, claimed, execVars, providerVars>>

(* execute is called with an approval_id, or with no approval at all.      *)
Submit(e, r) ==
  /\ At(e, "idle")
  /\ req' = [req EXCEPT ![e] = r]
  /\ Goto(e, "received")
  /\ UNCHANGED <<ledgerVars, guardVars, prep, auth, audited, result, providerVars>>

(* Mutant: the claim overwrites an earlier one.                            *)
ClaimAgain(g) == claimed' = claimed \cup {g}

(* The guards' claim, an INSERT under a primary key: the second caller is  *)
(* refused.                                                                *)
Claim(g) == g \notin claimed /\ claimed' = claimed \cup {g}

(* A recovery id is claimable only when its record authorizes a retry.     *)
Claimable(g) == g \in Recoveries => recovery[g] = "retry_authorized"

(* ApprovalExecutionContinuation.execute and                               *)
(* GovernedApprovalRecoveryRetryExecutor.execute: the claim is committed,  *)
(* then the orchestrator is called without an approval_id.                 *)
Continue(e, g, i) ==
  /\ At(e, "idle")
  /\ Claimable(g)
  /\ Claim(g)
  /\ req' = [req EXCEPT ![e] = Request("external", g, i, TRUE)]
  /\ Goto(e, "received")
  /\ UNCHANGED <<ledgerVars, recovery, prep, auth, audited, result, providerVars>>

-----------------------------------------------------------------------------
(* CentralOrchestrator.execute.                                            *)

(* Authority failure, a terminal resolution, CHECK_ONLY, a missing ledger  *)
(* or an invoker without plan binding: the call ends without effect.       *)
Refuse(e) ==
  /\ At(e, "received")
  /\ Return(e, "denied")
  /\ UNCHANGED <<ledgerVars, guardVars, req, prep, auth, audited, providerVars>>

(* The resolution engine lets a request through; without approval it does  *)
(* so only for a capability that needs none.                               *)
Resolve(e) ==
  /\ At(e, "received")
  /\ req[e].mode = "plain" => req[e].intent \notin NeedsApproval
  /\ Goto(e, CASE req[e].mode = "approval" -> "checking"
               [] req[e].mode = "external" -> "preparing"
               [] OTHER -> "invoking")
  /\ UNCHANGED <<ledgerVars, guardVars, req, prep, auth, audited, result, providerVars>>

(* check_intent: replay a recorded success, go on with a reserved row,     *)
(* reject everything else.                                                 *)
CheckIntent(e) ==
  LET a == req[e].grant
      valid == Validated(a, req[e].intent, req[e].keyOk)
  IN  /\ At(e, "checking")
      /\ \/ valid /\ rowState[a] = "succeeded" /\ Return(e, "replayed")
         \/ valid /\ rowState[a] = "reserved" /\ Goto(e, "preparing") /\ UNCHANGED result
         \/ /\ ~(valid /\ rowState[a] \in {"succeeded", "reserved"})
            /\ Goto(e, "rejected") /\ Answer(e, "denied")
      /\ UNCHANGED <<ledgerVars, guardVars, req, prep, auth, audited, providerVars>>

(* prepare_plan followed by _execution_plan_contract_error; the plan is    *)
(* whatever the provider side resolves to now.                             *)
PreparedFor(e, p) == <<p, req[e].intent>> \in Contract

Prepare(e, p) ==
  /\ At(e, "preparing")
  /\ PreparedFor(e, p)
  /\ prep' = [prep EXCEPT ![e] = p]
  /\ Goto(e, "authorizing")
  /\ UNCHANGED <<ledgerVars, guardVars, req, auth, audited, result, providerVars>>

(* The first preparation raises or breaks the contract: nothing consumed.  *)
PrepareFails(e) ==
  /\ At(e, "preparing")
  /\ Return(e, "denied")
  /\ UNCHANGED <<ledgerVars, guardVars, req, prep, auth, audited, providerVars>>

(* Mutant: the consuming transaction relies on the earlier check_intent.   *)
MayConsumeUnchecked(e) == Validated(req[e].grant, req[e].intent, req[e].keyOk)

(* authorize_execution_plan validates the row again, in the transaction    *)
(* that consumes it.                                                       *)
MayConsume(e) ==
  /\ Validated(req[e].grant, req[e].intent, req[e].keyOk)
  /\ rowState[req[e].grant] = "reserved"

(* Bind the first plan: in the ledger row for an approval, in the local    *)
(* execution_plan_fingerprint alone for an external continuation.          *)
Authorize(e) ==
  /\ At(e, "authorizing")
  /\ \/ /\ ByApproval(e) => MayConsume(e)
        /\ IF ByApproval(e) THEN AuthorizeExecutionPlan(req[e].grant, prep[e])
                            ELSE UNCHANGED ledgerVars
        /\ auth' = [auth EXCEPT ![e] = prep[e]]
        /\ Goto(e, "auditing")
        /\ UNCHANGED result
     \/ /\ ByApproval(e) /\ ~MayConsume(e)
        /\ Return(e, "denied")
        /\ UNCHANGED <<ledgerVars, auth>>
  /\ UNCHANGED <<guardVars, req, prep, audited, providerVars>>

(* "orchestration.execution_plan.authorized" reaches the audit sink; a     *)
(* sink that raises ends the call (Crash).                                 *)
RecordAuthorized(e) ==
  /\ At(e, "auditing")
  /\ audited' = audited \cup {e}
  /\ Goto(e, "repreparing")
  /\ UNCHANGED <<ledgerVars, guardVars, req, prep, auth, result, providerVars>>

(* The independent second preparation; only this plan reaches the provider.*)
Reprepare(e, p) ==
  /\ At(e, "repreparing")
  /\ PreparedFor(e, p)
  /\ prep' = [prep EXCEPT ![e] = p]
  /\ Goto(e, "verifying")
  /\ UNCHANGED <<ledgerVars, guardVars, req, auth, audited, result, providerVars>>

(* Mutant: an external continuation is let through unverified.             *)
VerifiedByLedgerOnly(e) ==
  ByApproval(e) => PlanVerified(req[e].grant, req[e].intent, req[e].keyOk, prep[e])

(* What lets the second plan through: the ledger's binding, or for an      *)
(* external continuation the fingerprint held since the first preparation. *)
Verified(e) ==
  IF ByApproval(e)
  THEN PlanVerified(req[e].grant, req[e].intent, req[e].keyOk, prep[e])
  ELSE prep[e] = auth[e]

Verify(e) ==
  /\ At(e, "verifying")
  /\ IF Verified(e)
     THEN Goto(e, "invoking") /\ UNCHANGED result
     ELSE Goto(e, "failing") /\ Answer(e, "denied")
  /\ UNCHANGED <<ledgerVars, guardVars, req, prep, auth, audited, providerVars>>

(* The second preparation raises or breaks the contract.                   *)
ReprepareFails(e) ==
  /\ At(e, "repreparing")
  /\ Goto(e, "failing")
  /\ Answer(e, "denied")
  /\ UNCHANGED <<ledgerVars, guardVars, req, prep, auth, audited, providerVars>>

(* The provider applies the mutation.  An execution without approval hands *)
(* the invoker its request, not a prepared plan.                           *)
Invoke(e, p) ==
  /\ At(e, "invoking")
  /\ Governed(e) => p = prep[e]
  /\ prep' = [prep EXCEPT ![e] = p]
  /\ applied' = applied \cup {e}
  /\ target' = [target EXCEPT ![req[e].intent] = p]
  /\ shown' = shown \cup {<<req[e].intent, p>>}
  /\ Goto(e, "applied")
  /\ UNCHANGED <<ledgerVars, guardVars, req, auth, audited, result>>

(* The invocation raises: refused before the effect, or, when providers    *)
(* can lose an answer, after it.                                           *)
InvokeRaises(e) ==
  /\ \/ At(e, "invoking")
     \/ At(e, "applied") /\ RaisesAfterEffect
  /\ Goto(e, "failing")
  /\ Answer(e, "failed")
  /\ UNCHANGED <<ledgerVars, guardVars, req, prep, auth, audited, providerVars>>

InvokeReturns(e) ==
  /\ At(e, "applied")
  /\ Goto(e, "releasing")
  /\ UNCHANGED <<ledgerVars, guardVars, req, prep, auth, audited, result, providerVars>>

(* The information release gate; a denial returns at once, with no         *)
(* complete and no fail: the row stays consumed.                           *)
Release(e) ==
  /\ At(e, "releasing")
  /\ \/ Goto(e, "completing") /\ UNCHANGED result
     \/ Return(e, "withheld")
  /\ UNCHANGED <<ledgerVars, guardVars, req, prep, auth, audited, providerVars>>

(* complete: consumed -> succeeded, or PermissionError out of execute.     *)
Complete(e) ==
  /\ At(e, "completing")
  /\ \/ ~ByApproval(e) /\ Return(e, "succeeded") /\ UNCHANGED ledgerVars
     \/ /\ ByApproval(e) /\ rowState[req[e].grant] = "consumed"
        /\ SettleSuccess(req[e].grant)
        /\ Return(e, "succeeded")
     \/ /\ ByApproval(e) /\ rowState[req[e].grant] # "consumed"
        /\ Return(e, "lost")
        /\ UNCHANGED ledgerVars
  /\ UNCHANGED <<guardVars, req, prep, auth, audited, providerVars>>

(* ledger.fail, then the denied or failed result goes back.                *)
FailExecution(e) ==
  /\ At(e, "failing")
  /\ IF ByApproval(e) THEN Fail(req[e].grant) ELSE UNCHANGED ledgerVars
  /\ Goto(e, "done")
  /\ UNCHANGED <<guardVars, req, prep, auth, audited, result, providerVars>>

(* The process dies, or an exception no handler of execute catches (audit  *)
(* sink, database) leaves the call: every row stays as it is.              *)
Crash(e) ==
  /\ pc[e] \notin {"idle", "done"}
  /\ Return(e, "lost")
  /\ UNCHANGED <<ledgerVars, guardVars, req, prep, auth, audited, providerVars>>

-----------------------------------------------------------------------------
(* _reconcile_consumed_ticket_update, called on APPROVAL_CONSUMPTION_      *)
(* REJECTED for a capability with a readback.                              *)

(* Mutant: the readback does not compare the fields.                       *)
ReadbackUnchecked(e) ==
  LET a == req[e].grant
  IN  rowState[a] = "consumed" /\ rowIntent[a] \in Reconcilable

(* The row is consumed, and a governed read shows the provider's object    *)
(* carrying the fields of the row's authorized plan.                       *)
ReadbackMatches(e) ==
  LET a == req[e].grant
  IN  /\ rowState[a] = "consumed"
      /\ rowIntent[a] \in Reconcilable
      /\ target[rowIntent[a]] = rowPlan[a]

Readback(e) ==
  /\ At(e, "rejected")
  /\ IF ReadbackMatches(e) THEN Goto(e, "matched") ELSE Goto(e, "done")
  /\ UNCHANGED <<ledgerVars, guardVars, req, prep, auth, audited, result, providerVars>>

(* reconcile_consumed_success: its own transaction checks row, intent and  *)
(* key again (not expiry) and settles only a row that is still consumed.   *)
Reconcile(e) ==
  LET a == req[e].grant
      bound == Registered(a) /\ rowIntent[a] = req[e].intent /\ req[e].keyOk
  IN  /\ At(e, "matched")
      /\ \/ bound /\ rowState[a] = "consumed" /\ SettleSuccess(a) /\ Return(e, "reconciled")
         \/ bound /\ rowState[a] = "succeeded" /\ UNCHANGED ledgerVars /\ Return(e, "reconciled")
         \/ /\ ~(bound /\ rowState[a] \in {"consumed", "succeeded"})
            /\ UNCHANGED ledgerVars /\ Return(e, "lost")
      /\ UNCHANGED <<guardVars, req, prep, auth, audited, providerVars>>

(* Somebody edits the provider's object outside Jason.                     *)
ForeignEdit(i, p) ==
  /\ target' = [target EXCEPT ![i] = p]
  /\ shown' = shown \cup {<<i, p>>}
  /\ UNCHANGED <<ledgerVars, guardVars, execVars, applied>>

-----------------------------------------------------------------------------
Step(e) ==
  \/ \E i \in Intents : \/ \E a \in Rows, k \in BOOLEAN : Submit(e, Request("approval", a, i, k))
                        \/ Submit(e, Request("plain", NoGrant, i, FALSE))
  \/ \E g \in External, i \in Intents : Continue(e, g, i)
  \/ Refuse(e) \/ Resolve(e) \/ CheckIntent(e)
  \/ \E p \in Plans : Prepare(e, p) \/ Reprepare(e, p) \/ Invoke(e, p)
  \/ PrepareFails(e) \/ Authorize(e) \/ RecordAuthorized(e)
  \/ ReprepareFails(e) \/ Verify(e)
  \/ InvokeRaises(e) \/ InvokeReturns(e) \/ Release(e)
  \/ Complete(e) \/ FailExecution(e) \/ Crash(e)
  \/ Readback(e) \/ Reconcile(e)

Next ==
  \/ Reserve \/ Tick
  \/ \E r \in Recoveries, d \in Dispositions : RecordRecovery(r, d)
  \/ \E i \in Reconcilable, p \in Plans : ForeignEdit(i, p)
  \/ \E e \in Execs : Step(e)

Spec == Init /\ [][Next]_vars

-----------------------------------------------------------------------------
(* An approval, a continuation claim or a recovery claim authorizes at     *)
(* most one provider effect, whatever executions share it, crash, or race  *)
(* (check_intent, authorize_execution_plan, the guards' claim).            *)
SingleUse ==
  \A e, f \in applied :
     Governed(e) /\ Governed(f) /\ req[e].grant = req[f].grant => e = f

(* What reaches the provider under a grant is the plan that was authorized *)
(* and audited for it, within the contract of its intent, and for an       *)
(* approval the plan and the intent of its ledger row.                     *)
EffectMatchesAuthorization ==
  \A e \in applied : Governed(e) =>
     /\ e \in audited
     /\ prep[e] = auth[e]
     /\ PreparedFor(e, prep[e])
     /\ ByApproval(e) => /\ rowPlan[req[e].grant] = prep[e]
                         /\ rowIntent[req[e].grant] = req[e].intent

(* No action is carried out a second time under a fresh approval while the *)
(* outcome of the first is not durably known to be a success: the reason   *)
(* reserve_approval gives for never replacing a consumed row.              *)
NoBlindRepeat ==
  \A e, f \in applied :
     /\ e # f
     /\ req[e].grant \in Approvals /\ req[f].grant \in Approvals
     /\ req[e].intent = req[f].intent
     => {req[e].grant, req[f].grant} \cap settled # {}

(* A caller told of success (executed, replayed or reconciled) holds an    *)
(* approval of exactly its intent, durably settled, whose bound plan the   *)
(* provider has really shown: by the effect or by a matching readback.     *)
SuccessIsReal ==
  \A e \in Execs :
     ByApproval(e) /\ result[e] \in {"succeeded", "replayed", "reconciled"} =>
        /\ req[e].grant \in settled
        /\ rowIntent[req[e].grant] = req[e].intent
        /\ <<req[e].intent, rowPlan[req[e].grant]>> \in shown

(* A verified execution keeps its claim until it reports: the row it is    *)
(* about to complete or fail is still consumed, or a concurrent readback   *)
(* that found the bound plan at the provider has settled it (after which   *)
(* the row may expire and be replaced).  In no interleaving is an          *)
(* unsettled row failed or replaced under the execution.                   *)
ClaimHeldInFlight ==
  \A e \in Execs :
     ByApproval(e) /\ pc[e] \in {"invoking", "applied", "releasing", "completing"}
       => \/ rowState[req[e].grant] = "consumed"
          \/ req[e].grant \in settled /\ <<req[e].intent, auth[e]>> \in shown

-----------------------------------------------------------------------------
(* The strengthening that makes SingleUse, EffectMatchesAuthorization and  *)
(* NoBlindRepeat inductive (proved in GovernedExecutionProofs).            *)

Unbound == {"idle", "received", "checking", "rejected", "matched", "preparing", "authorizing"}
Unsent == Unbound \cup {"auditing", "repreparing", "verifying", "invoking"}
InFlight == {"auditing", "repreparing", "verifying", "invoking", "applied",
             "releasing", "completing"}

(* What the position of a call says of its plans and of its effect.        *)
CallOK(e) ==
  /\ pc[e] = "idle" <=> req[e].mode = "none"
  /\ req[e].mode \in {"none", "plain"} => req[e].grant = NoGrant
  /\ pc[e] \in Unbound => auth[e] = NoPlan
  /\ pc[e] \in Unsent => e \notin applied
  /\ auth[e] # NoPlan => Governed(e)
  /\ pc[e] \in {"preparing", "authorizing", "auditing", "repreparing", "verifying"} => Governed(e)
  /\ pc[e] \in {"authorizing", "verifying"} => prep[e] \in Plans
  /\ Governed(e) /\ pc[e] \in InFlight \cup {"failing"} => auth[e] # NoPlan
  /\ Governed(e) /\ pc[e] \in InFlight \ {"auditing"} => e \in audited
  /\ pc[e] = "verifying" => PreparedFor(e, prep[e])
  /\ Governed(e) /\ (pc[e] = "invoking" \/ e \in applied) =>
        /\ e \in audited
        /\ auth[e] # NoPlan
        /\ prep[e] = auth[e]
        /\ PreparedFor(e, prep[e])

(* A bound approval has left the reserved state for good, and its row      *)
(* carries the plan and the intent of the execution that consumed it.      *)
RowOK(e) ==
  ByApproval(e) /\ auth[e] # NoPlan =>
     /\ rowState[req[e].grant] \notin {"unminted", "reserved"}
     /\ rowPlan[req[e].grant] = auth[e]
     /\ rowIntent[req[e].grant] = req[e].intent

(* An external grant has been claimed by the one execution that uses it.   *)
ClaimOK(e) == req[e].mode = "external" => req[e].grant \in claimed

(* Two calls never share what is single use.                               *)
Exclusive(e, f) ==
  /\ req[e].mode = "external" /\ req[f].mode = "external" /\ req[e].grant = req[f].grant => e = f
  /\ auth[e] # NoPlan /\ auth[f] # NoPlan /\ ByApproval(e) /\ ByApproval(f)
       /\ req[e].grant = req[f].grant => e = f

Core ==
  /\ \A e \in Execs : CallOK(e) /\ RowOK(e) /\ ClaimOK(e)
  /\ \A e, f \in Execs : Exclusive(e, f)

(* At most one live row per action (the UNIQUE action_fingerprint), and an *)
(* execution under way, or whose effect happened, still has its row        *)
(* consumed unless its success has been recorded.                          *)
OneRowPerAction ==
  \A a, b \in Approvals :
     Registered(a) /\ Registered(b) /\ rowIntent[a] = rowIntent[b] => a = b

ClaimKept ==
  \A e \in Execs :
     ByApproval(e) /\ (pc[e] \in InFlight \/ e \in applied) =>
        rowState[req[e].grant] = "consumed" \/ req[e].grant \in settled

FailingIsClean == \A e \in applied : pc[e] # "failing"

(* The detailed specification implements the abstract one: a binding is an *)
(* execution with an authorized plan, an effect an execution whose plan    *)
(* reached the provider.                                                   *)
BoundExecs == {e \in Execs : Governed(e) /\ auth[e] # NoPlan}
GovernedApplied == {e \in applied : Governed(e)}
BindingOf(e, p) == [grant |-> req[e].grant, exec |-> e, plan |-> p]

Bindings == {BindingOf(e, auth[e]) : e \in BoundExecs}
Effects == {BindingOf(e, prep[e]) : e \in GovernedApplied}

Promise == INSTANCE SingleUseGrant WITH bindings <- Bindings, effects <- Effects

(* Every behaviour of the orchestrator, its ledger and its guards is one   *)
(* the abstract grant allows.                                              *)
ImplementsSingleUseGrant == Promise!Spec

=============================================================================
