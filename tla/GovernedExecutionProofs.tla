---------------------- MODULE GovernedExecutionProofs ----------------------
(***************************************************************************)
(* Machine-checked proofs about GovernedExecution, for every set of        *)
(* executions, approvals, plans and intents.                               *)
(***************************************************************************)
EXTENDS GovernedExecution, TLAPS

-----------------------------------------------------------------------------
(* Type correctness.                                                       *)

(* The initial state of ledger, guards, calls and provider is well typed.  *)
LEMMA TypeInit == Init => TypeOK
BY LedgerAssumption, ExecutionAssumption
DEF Init, LedgerInit, TypeOK, LedgerTypeOK, NoRequest, Labels, Results, RowStates,
    RegisteredStates, Grants, Rows

(* Settling a row of the table keeps the ledger well typed.                *)
LEMMA SettleType ==
  ASSUME NEW a \in Rows, LedgerTypeOK, SettleSuccess(a)
  PROVE  LedgerTypeOK'
BY DEF LedgerTypeOK, SettleSuccess, RowStates, RegisteredStates

(* Every handler keeps every piece of state within its type.               *)
LEMMA TypeStep == TypeOK /\ [Next]_vars => TypeOK'
<1> SUFFICES ASSUME TypeOK, [Next]_vars PROVE TypeOK'
  OBVIOUS
<1> USE DEF TypeOK, LedgerTypeOK
<1>1. CASE Reserve
  <2>1. CASE \E i \in Intents, a \in Approvals : ReserveApproval(i, a)
    BY <1>1, <2>1, LedgerAssumption
    DEF Reserve, ReserveApproval, Rows, RowStates, RegisteredStates, guardVars, execVars, providerVars
  <2>2. CASE \E s \in PlanSteps, i \in Intents, life \in 1 .. TTL :
               ReserveApprovedPlanStep(s, i, life)
    BY <1>1, <2>2, LedgerAssumption
    DEF Reserve, ReserveApprovedPlanStep, Rows, RowStates, RegisteredStates, guardVars, execVars, providerVars
  <2> QED BY <1>1, <2>1, <2>2 DEF Reserve
<1>2. CASE Tick
  BY <1>2, LedgerAssumption DEF Tick, Elapse, guardVars, execVars, providerVars
<1>3. CASE \E r \in Recoveries, d \in Dispositions : RecordRecovery(r, d)
  BY <1>3 DEF RecordRecovery, ledgerVars, execVars, providerVars
<1>4. CASE \E i \in Reconcilable, p \in Plans : ForeignEdit(i, p)
  BY <1>4, ExecutionAssumption DEF ForeignEdit, ledgerVars, guardVars, execVars
<1>5. ASSUME NEW e \in Execs, Step(e) PROVE TypeOK'
  <2> USE DEF Goto, Answer, Return, At, Labels, Results, guardVars
  <2>1. ASSUME NEW i \in Intents, NEW a \in Rows, NEW k \in BOOLEAN,
               Submit(e, Request("approval", a, i, k))
        PROVE  TypeOK'
    <3>1. Request("approval", a, i, k)
            \in [mode : {"none", "approval", "external", "plain"},
                grant : Grants \cup {NoGrant},
                intent : Intents \cup {NoIntent}, keyOk : BOOLEAN]
      BY DEF Request, Grants
    <3> QED BY <2>1, <3>1 DEF Submit, Request, ledgerVars, providerVars
  <2>10. ASSUME NEW i \in Intents, Submit(e, Request("plain", NoGrant, i, FALSE))
         PROVE  TypeOK'
    BY <2>10 DEF Submit, Request, ledgerVars, providerVars
  <2>2. CASE \E g \in External, i \in Intents : Continue(e, g, i)
    <3>1. PICK g \in External, i \in Intents : Continue(e, g, i)
      BY <2>2
    <3>2. /\ Request("external", g, i, TRUE)
               \in [mode : {"none", "approval", "external", "plain"},
                   grant : Grants \cup {NoGrant},
                   intent : Intents \cup {NoIntent}, keyOk : BOOLEAN]
          /\ Request("external", g, i, TRUE).intent \in Intents
          /\ Request("external", g, i, TRUE).mode = "external"
      BY DEF Request, Grants
    <3> QED BY <3>1, <3>2 DEF Continue, Claim, ledgerVars, providerVars
  <2>3. CASE Refuse(e) \/ Resolve(e) \/ CheckIntent(e)
    <3>1. CASE Refuse(e)
      BY <3>1 DEF Refuse, ledgerVars, providerVars
    <3>2. CASE Resolve(e)
      BY <3>2 DEF Resolve, ledgerVars, providerVars
    <3>3. CASE CheckIntent(e)
      <4>1. /\ At(e, "checking")
            /\ \/ Return(e, "replayed")
               \/ Goto(e, "preparing") /\ UNCHANGED result
               \/ Goto(e, "rejected") /\ Answer(e, "denied")
            /\ UNCHANGED <<ledgerVars, guardVars, req, prep, auth, audited, providerVars>>
        BY <3>3 DEF CheckIntent
      <4>2. CASE Return(e, "replayed")
        BY <4>1, <4>2 DEF ledgerVars, providerVars
      <4>3. CASE Goto(e, "preparing") /\ UNCHANGED result
        BY <4>1, <4>3 DEF ledgerVars, providerVars
      <4>4. CASE Goto(e, "rejected") /\ Answer(e, "denied")
        BY <4>1, <4>4 DEF ledgerVars, providerVars
      <4> QED BY <4>1, <4>2, <4>3, <4>4
    <3> QED BY <2>3, <3>1, <3>2, <3>3
  <2>4. CASE \E p \in Plans : Prepare(e, p) \/ Reprepare(e, p)
    <3>1. PICK p \in Plans : Prepare(e, p) \/ Reprepare(e, p)
      BY <2>4
    <3>2. CASE Prepare(e, p)
      BY <3>2 DEF Prepare, ledgerVars, providerVars
    <3>3. CASE Reprepare(e, p)
      BY <3>3 DEF Reprepare, ledgerVars, providerVars
    <3> QED BY <3>1, <3>2, <3>3
  <2>5. CASE \E p \in Plans : Invoke(e, p)
    <3>1. PICK p \in Plans : Invoke(e, p)
      BY <2>5
    <3>2. req[e].intent \in Intents
      BY <3>1 DEF Invoke
    <3> QED BY <3>1, <3>2 DEF Invoke, ledgerVars
  <2>6. CASE PrepareFails(e) \/ RecordAuthorized(e) \/ ReprepareFails(e) \/ Verify(e)
    <3>1. CASE PrepareFails(e)
      BY <3>1 DEF PrepareFails, ledgerVars, providerVars
    <3>2. CASE RecordAuthorized(e)
      BY <3>2 DEF RecordAuthorized, ledgerVars, providerVars
    <3>3. CASE ReprepareFails(e)
      BY <3>3 DEF ReprepareFails, ledgerVars, providerVars
    <3>4. CASE Verify(e)
      <4>1. CASE Goto(e, "invoking") /\ UNCHANGED result
        BY <3>4, <4>1 DEF Verify, ledgerVars, providerVars
      <4>2. CASE Goto(e, "failing") /\ Answer(e, "denied")
        BY <3>4, <4>2 DEF Verify, ledgerVars, providerVars
      <4> QED BY <3>4, <4>1, <4>2 DEF Verify
    <3> QED BY <2>6, <3>1, <3>2, <3>3, <3>4
  <2>7. CASE Authorize(e)
    <3>1. LedgerTypeOK'
      <4>1. CASE ByApproval(e) /\ AuthorizeExecutionPlan(req[e].grant, prep[e])
        <5>1. req[e].grant \in Rows
          BY <4>1 DEF ByApproval
        <5> QED BY <4>1, <5>1 DEF AuthorizeExecutionPlan, RowStates, RegisteredStates
      <4>2. CASE UNCHANGED ledgerVars
        BY <4>2 DEF ledgerVars
      <4> QED BY <2>7, <4>1, <4>2 DEF Authorize
    <3>2. prep[e] \in Plans \cup {NoPlan}
      OBVIOUS
    <3>3. auth' \in [Execs -> Plans \cup {NoPlan}]
      BY <2>7, <3>2 DEF Authorize
    <3>4. /\ At(e, "authorizing")
          /\ (Goto(e, "auditing") /\ UNCHANGED result) \/ Return(e, "denied")
          /\ UNCHANGED <<guardVars, req, prep, audited, providerVars>>
      BY <2>7 DEF Authorize
    <3>5. pc' \in [Execs -> Labels] /\ result' \in [Execs -> Results]
      BY <3>4
    <3>6. \A f \in Execs :
             /\ pc'[f] # "idle" => req'[f].intent \in Intents
             /\ req'[f].mode = "approval" => req'[f].grant \in Rows
             /\ pc'[f] \in {"checking", "rejected", "matched"} => req'[f].mode = "approval"
      BY <3>4
    <3> QED BY <3>1, <3>3, <3>4, <3>5, <3>6 DEF providerVars
  <2>8. CASE InvokeRaises(e) \/ InvokeReturns(e) \/ Release(e) \/ Crash(e) \/ Readback(e)
    <3>1. CASE InvokeRaises(e)
      BY <3>1 DEF InvokeRaises, ledgerVars, providerVars
    <3>2. CASE InvokeReturns(e)
      BY <3>2 DEF InvokeReturns, ledgerVars, providerVars
    <3>3. CASE Release(e)
      <4>1. CASE Goto(e, "completing") /\ UNCHANGED result
        BY <3>3, <4>1 DEF Release, ledgerVars, providerVars
      <4>2. CASE Return(e, "withheld")
        BY <3>3, <4>2 DEF Release, ledgerVars, providerVars
      <4> QED BY <3>3, <4>1, <4>2 DEF Release
    <3>4. CASE Crash(e)
      BY <3>4 DEF Crash, ledgerVars, providerVars
    <3>5. CASE Readback(e)
      BY <3>5 DEF Readback, ledgerVars, providerVars
    <3> QED BY <2>8, <3>1, <3>2, <3>3, <3>4, <3>5
  <2>9. CASE Complete(e) \/ FailExecution(e) \/ Reconcile(e)
    <3>1. CASE Complete(e)
      <4>1. LedgerTypeOK'
        <5>1. CASE ByApproval(e) /\ SettleSuccess(req[e].grant)
          BY <5>1, SettleType DEF ByApproval
        <5>2. CASE UNCHANGED ledgerVars
          BY <5>2 DEF ledgerVars
        <5> QED BY <3>1, <5>1, <5>2 DEF Complete
      <4> QED BY <3>1, <4>1 DEF Complete, ledgerVars, providerVars
    <3>2. CASE FailExecution(e)
      BY <3>2 DEF FailExecution, Fail, RowStates, RegisteredStates, ledgerVars, providerVars
    <3>3. CASE Reconcile(e)
      <4>1. LedgerTypeOK'
        <5>1. CASE SettleSuccess(req[e].grant)
          <6>1. req[e].grant \in Rows
            BY <3>3 DEF Reconcile
          <6> QED BY <5>1, <6>1, SettleType
        <5>2. CASE UNCHANGED ledgerVars
          BY <5>2 DEF ledgerVars
        <5> QED BY <3>3, <5>1, <5>2 DEF Reconcile
      <4> QED BY <3>3, <4>1 DEF Reconcile, ledgerVars, providerVars
    <3> QED BY <2>9, <3>1, <3>2, <3>3
  <2> QED
    BY <1>5, <2>1, <2>10, <2>2, <2>3, <2>4, <2>5, <2>6, <2>7, <2>8, <2>9 DEF Step
<1>6. CASE UNCHANGED vars
  BY <1>6 DEF vars, ledgerVars, guardVars, execVars, providerVars
<1> QED
  BY <1>1, <1>2, <1>3, <1>4, <1>5, <1>6 DEF Next

(* The type invariant holds of every reachable state.                      *)
THEOREM TypeCorrect == Spec => []TypeOK
BY TypeInit, TypeStep, PTL DEF Spec

-----------------------------------------------------------------------------
(* The inductive core: the position of each call, the row it is bound to,  *)
(* and that no two calls share a grant.                                    *)

(* No call has begun and no grant is claimed.                              *)
LEMMA CoreInit == Init => Core
BY LedgerAssumption
DEF Init, LedgerInit, Core, CallOK, RowOK, ClaimOK, Exclusive, NoRequest, Governed, ByApproval,
    Unbound, Unsent, InFlight

(* Reservations touch no row that an execution is bound to.                *)
LEMMA CoreReserve == TypeOK /\ Core /\ Reserve => Core'
<1> SUFFICES ASSUME TypeOK, Core, Reserve, NEW x \in Execs, NEW y \in Execs
             PROVE  CallOK(x)' /\ RowOK(x)' /\ ClaimOK(x)' /\ Exclusive(x, y)'
  BY DEF Core
<1> USE DEF TypeOK, LedgerTypeOK, Core, Governed, ByApproval, guardVars, execVars, providerVars
<1>1. UNCHANGED <<claimed, recovery, pc, req, prep, auth, audited, result, applied, target, shown>>
  BY DEF Reserve
<1>2. CallOK(x)' /\ ClaimOK(x)' /\ Exclusive(x, y)'
  BY <1>1 DEF CallOK, ClaimOK, Exclusive, PreparedFor
<1>3. RowOK(x)'
  <2>1. CASE \E i \in Intents, a \in Approvals : ReserveApproval(i, a)
    BY <1>1, <2>1 DEF ReserveApproval, RowOK, Rows
  <2>2. CASE \E s \in PlanSteps, i \in Intents, life \in 1 .. TTL :
               ReserveApprovedPlanStep(s, i, life)
    BY <1>1, <2>2 DEF ReserveApprovedPlanStep, RowOK, Rows
  <2> QED BY <2>1, <2>2 DEF Reserve
<1> QED BY <1>2, <1>3

(* Every step of a call keeps the core: only Authorize binds a row, and it *)
(* binds a reserved one; only Continue takes an external grant, and it     *)
(* takes an unclaimed one.                                                 *)
LEMMA CoreCall ==
  ASSUME NEW e \in Execs, TypeOK, Core, Step(e)
  PROVE  Core'
<1> SUFFICES ASSUME NEW x \in Execs, NEW y \in Execs
             PROVE  CallOK(x)' /\ RowOK(x)' /\ ClaimOK(x)' /\ Exclusive(x, y)'
  BY DEF Core
<1>c. /\ CallOK(e) /\ RowOK(e) /\ ClaimOK(e)
      /\ CallOK(x) /\ RowOK(x) /\ ClaimOK(x)
      /\ Exclusive(x, y) /\ Exclusive(x, e) /\ Exclusive(e, y)
      /\ CallOK(y) /\ RowOK(y) /\ ClaimOK(y)
  BY DEF Core
<1> USE <1>c DEF TypeOK, LedgerTypeOK, CallOK, RowOK, ClaimOK, Exclusive, Governed, ByApproval,
        PreparedFor, Unbound, Unsent, InFlight, At, Goto, Answer, Return, guardVars, ledgerVars,
        providerVars, Labels
<1>1. ASSUME NEW i \in Intents, NEW a \in Rows, NEW k \in BOOLEAN,
             Submit(e, Request("approval", a, i, k))
      PROVE  CallOK(x)' /\ RowOK(x)' /\ ClaimOK(x)' /\ Exclusive(x, y)'
  <2>1. /\ pc[e] = "idle" /\ auth[e] = NoPlan /\ e \notin applied
        /\ UNCHANGED <<rowState, rowIntent, rowPlan, claimed, prep, auth, audited, applied>>
    BY <1>1 DEF Submit
  <2>2. CASE x = e
    <3>1. CallOK(x)' /\ RowOK(x)' /\ ClaimOK(x)'
      BY <1>1, <2>1, <2>2 DEF Submit, Request
    <3>2. Exclusive(x, y)'
      BY <1>1, <2>1, <2>2 DEF Submit, Request
    <3> QED BY <3>1, <3>2
  <2>3. CASE x # e
    <3>1. CallOK(x)' /\ RowOK(x)' /\ ClaimOK(x)'
      BY <1>1, <2>1, <2>3 DEF Submit
    <3>2. Exclusive(x, y)'
      BY <1>1, <2>1, <2>3 DEF Submit, Request
    <3> QED BY <3>1, <3>2
  <2> QED BY <2>2, <2>3
<1>2. ASSUME NEW i \in Intents, Submit(e, Request("plain", NoGrant, i, FALSE))
      PROVE  CallOK(x)' /\ RowOK(x)' /\ ClaimOK(x)' /\ Exclusive(x, y)'
  <2>1. /\ pc[e] = "idle" /\ auth[e] = NoPlan /\ e \notin applied
        /\ UNCHANGED <<rowState, rowIntent, rowPlan, claimed, prep, auth, audited, applied>>
    BY <1>2 DEF Submit
  <2>2. CASE x = e
    <3>1. CallOK(x)' /\ RowOK(x)' /\ ClaimOK(x)'
      BY <1>2, <2>1, <2>2 DEF Submit, Request
    <3>2. Exclusive(x, y)'
      BY <1>2, <2>1, <2>2 DEF Submit, Request
    <3> QED BY <3>1, <3>2
  <2>3. CASE x # e
    <3>1. CallOK(x)' /\ RowOK(x)' /\ ClaimOK(x)'
      BY <1>2, <2>1, <2>3 DEF Submit
    <3>2. Exclusive(x, y)'
      BY <1>2, <2>1, <2>3 DEF Submit, Request
    <3> QED BY <3>1, <3>2
  <2> QED BY <2>2, <2>3
<1>3. ASSUME NEW g \in External, NEW i \in Intents, Continue(e, g, i)
      PROVE  CallOK(x)' /\ RowOK(x)' /\ ClaimOK(x)' /\ Exclusive(x, y)'
  <2>1. /\ pc[e] = "idle" /\ auth[e] = NoPlan /\ e \notin applied
        /\ g \notin claimed /\ claimed' = claimed \cup {g}
        /\ UNCHANGED <<rowState, rowIntent, rowPlan, prep, auth, audited, applied>>
    BY <1>3 DEF Continue, Claim
  <2>2. CASE x = e
    <3>1. CallOK(x)' /\ RowOK(x)' /\ ClaimOK(x)'
      <4>1. /\ pc'[x] = "received" /\ req'[x].mode = "external" /\ req'[x].grant = g
            /\ req'[x].intent = i
        BY <1>3, <2>2 DEF Continue, Request
      <4>2. CallOK(x)'
        BY <2>1, <2>2, <4>1
      <4> QED BY <2>1, <2>2, <4>1, <4>2
    <3>2. CASE y = e
      BY <2>2, <3>1, <3>2
    <3>3. CASE y # e
      <4>1. y \in Execs /\ req'[y] = req[y] /\ req'[x].grant = g
        BY <1>3, <2>2, <3>3 DEF Continue, Request
      <4> QED BY <2>1, <2>2, <3>1, <4>1
    <3> QED BY <3>1, <3>2, <3>3
  <2>3. CASE x # e
    <3>1. CallOK(x)' /\ RowOK(x)' /\ ClaimOK(x)'
      BY <1>3, <2>1, <2>3 DEF Continue
    <3>2. CASE y = e
      <4>1. req'[x] = req[x] /\ req'[y].grant = g
        BY <1>3, <2>3, <3>2 DEF Continue, Request
      <4> QED BY <2>1, <3>1, <3>2, <4>1
    <3>3. CASE y # e
      <4>1. req'[x] = req[x] /\ req'[y] = req[y]
        BY <1>3, <2>3, <3>3 DEF Continue
      <4> QED BY <2>1, <3>1, <4>1
    <3> QED BY <3>1, <3>2, <3>3
  <2> QED BY <2>2, <2>3
<1>4. CASE Refuse(e) \/ PrepareFails(e) \/ Crash(e)
  <2>1. CASE Refuse(e)
    BY <2>1 DEF Refuse
  <2>2. CASE PrepareFails(e)
    BY <2>2 DEF PrepareFails
  <2>3. CASE Crash(e)
    BY <2>3 DEF Crash
  <2> QED BY <1>4, <2>1, <2>2, <2>3
<1>5. CASE Resolve(e)
  BY <1>5 DEF Resolve
<1>6. CASE CheckIntent(e)
  BY <1>6 DEF CheckIntent
<1>7. ASSUME NEW p \in Plans, Prepare(e, p)
      PROVE  CallOK(x)' /\ RowOK(x)' /\ ClaimOK(x)' /\ Exclusive(x, y)'
  <2>1. CallOK(x)'
    <3>1. CASE x = e
      BY <1>7, <3>1 DEF Prepare
    <3>2. CASE x # e
      BY <1>7, <3>2 DEF Prepare
    <3> QED BY <3>1, <3>2
  <2>2. RowOK(x)' /\ ClaimOK(x)' /\ Exclusive(x, y)'
    BY <1>7 DEF Prepare
  <2> QED BY <2>1, <2>2
<1>8. ASSUME NEW p \in Plans, Reprepare(e, p)
      PROVE  CallOK(x)' /\ RowOK(x)' /\ ClaimOK(x)' /\ Exclusive(x, y)'
  <2>1. CallOK(x)'
    <3>1. CASE x = e
      BY <1>8, <3>1 DEF Reprepare
    <3>2. CASE x # e
      BY <1>8, <3>2 DEF Reprepare
    <3> QED BY <3>1, <3>2
  <2>2. RowOK(x)' /\ ClaimOK(x)' /\ Exclusive(x, y)'
    BY <1>8 DEF Reprepare
  <2> QED BY <2>1, <2>2
<1>9. ASSUME NEW p \in Plans, Invoke(e, p)
      PROVE  CallOK(x)' /\ RowOK(x)' /\ ClaimOK(x)' /\ Exclusive(x, y)'
  <2>1. CallOK(x)'
    <3>1. CASE x = e
      BY <1>9, <3>1 DEF Invoke
    <3>2. CASE x # e
      BY <1>9, <3>2 DEF Invoke
    <3> QED BY <3>1, <3>2
  <2>2. RowOK(x)' /\ ClaimOK(x)' /\ Exclusive(x, y)'
    BY <1>9 DEF Invoke
  <2> QED BY <2>1, <2>2
<1>10. CASE Authorize(e)
  <2>1. CASE /\ ByApproval(e) /\ MayConsume(e)
             /\ AuthorizeExecutionPlan(req[e].grant, prep[e])
             /\ auth' = [auth EXCEPT ![e] = prep[e]]
             /\ Goto(e, "auditing")
    BY <1>10, <2>1, LedgerAssumption DEF Authorize, AuthorizeExecutionPlan, MayConsume, Validated
  <2>2. CASE /\ ~ByApproval(e) /\ UNCHANGED ledgerVars
             /\ auth' = [auth EXCEPT ![e] = prep[e]]
             /\ Goto(e, "auditing")
    BY <1>10, <2>2, LedgerAssumption DEF Authorize
  <2>3. CASE Return(e, "denied") /\ UNCHANGED <<ledgerVars, auth>>
    BY <1>10, <2>3 DEF Authorize
  <2> QED BY <1>10, <2>1, <2>2, <2>3 DEF Authorize
<1>11. CASE RecordAuthorized(e)
  BY <1>11 DEF RecordAuthorized
<1>12. CASE Verify(e)
  BY <1>12 DEF Verify, Verified, PlanVerified
<1>13. CASE ReprepareFails(e) \/ InvokeRaises(e) \/ InvokeReturns(e) \/ Release(e)
  <2>1. CASE ReprepareFails(e)
    BY <2>1 DEF ReprepareFails
  <2>2. CASE InvokeRaises(e)
    BY <2>2 DEF InvokeRaises
  <2>3. CASE InvokeReturns(e)
    BY <2>3 DEF InvokeReturns
  <2>4. CASE Release(e)
    BY <2>4 DEF Release
  <2> QED BY <1>13, <2>1, <2>2, <2>3, <2>4
<1>14. CASE Complete(e)
  BY <1>14 DEF Complete, SettleSuccess
<1>15. CASE FailExecution(e)
  BY <1>15 DEF FailExecution, Fail
<1>16. CASE Readback(e)
  BY <1>16 DEF Readback
<1>17. CASE Reconcile(e)
  BY <1>17 DEF Reconcile, SettleSuccess
<1> QED
  BY <1>1, <1>2, <1>3, <1>4, <1>5, <1>6, <1>7, <1>8, <1>9, <1>10, <1>11, <1>12, <1>13, <1>14,
     <1>15, <1>16, <1>17 DEF Step

(* The core is inductive.                                                  *)
LEMMA CoreStep == TypeOK /\ Core /\ [Next]_vars => Core'
<1> SUFFICES ASSUME TypeOK, Core, [Next]_vars PROVE Core'
  OBVIOUS
<1>1. CASE Reserve
  BY <1>1, CoreReserve
<1>2. CASE \/ Tick
           \/ \E r \in Recoveries, d \in Dispositions : RecordRecovery(r, d)
           \/ \E i \in Reconcilable, p \in Plans : ForeignEdit(i, p)
           \/ UNCHANGED vars
  <2>1. UNCHANGED <<rowState, rowIntent, rowPlan, claimed, pc, req, prep, auth, audited, applied>>
    BY <1>2 DEF Tick, Elapse, RecordRecovery, ForeignEdit, vars, ledgerVars, guardVars, execVars,
                providerVars
  <2> QED
    BY <2>1 DEF Core, CallOK, RowOK, ClaimOK, Exclusive, Governed, ByApproval, PreparedFor
<1>3. CASE \E e \in Execs : Step(e)
  BY <1>3, CoreCall
<1> QED BY <1>1, <1>2, <1>3 DEF Next

(* Type and core hold of every reachable state.                            *)
LEMMA CoreInvariant == Spec => [](TypeOK /\ Core)
BY TypeInit, TypeStep, CoreInit, CoreStep, PTL DEF Spec

(* A grant - approval row, continuation claim or recovery claim - leads to *)
(* at most one provider effect, for any number of concurrent, crashing and *)
(* replayed calls of execute.                                              *)
THEOREM GrantsAreSingleUse == Spec => []SingleUse
<1>1. TypeOK /\ Core => SingleUse
  <2> SUFFICES ASSUME TypeOK, Core, NEW e \in applied, NEW f \in applied,
                      Governed(e), Governed(f), req[e].grant = req[f].grant
               PROVE  e = f
    BY DEF SingleUse
  <2>1. /\ e \in Execs /\ f \in Execs
        /\ auth[e] # NoPlan /\ auth[f] # NoPlan
    BY DEF TypeOK, Core, CallOK
  <2>2. ASSUME NEW x \in Execs PROVE (req[x].mode = "external") => req[x].grant \notin Rows
    BY ExecutionAssumption DEF TypeOK, Core, ClaimOK
  <2>3. ByApproval(e) <=> ByApproval(f)
    BY <2>1, <2>2 DEF TypeOK, Governed, ByApproval
  <2> QED BY <2>1, <2>3 DEF Core, Exclusive, Governed, ByApproval
<1> QED BY <1>1, CoreInvariant, PTL

(* What reaches the provider under a grant is the audited, authorized plan *)
(* of that grant and intent, although each plan is prepared twice and the  *)
(* provider's resolution may change in between.                            *)
THEOREM EffectsAreAuthorized == Spec => []EffectMatchesAuthorization
<1>1. TypeOK /\ Core => EffectMatchesAuthorization
  BY DEF TypeOK, Core, CallOK, RowOK, EffectMatchesAuthorization, ByApproval, Governed
<1> QED BY <1>1, CoreInvariant, PTL

-----------------------------------------------------------------------------
(* No blind repeat, for providers whose failures are clean.                *)

Repeat == OneRowPerAction /\ ClaimKept /\ FailingIsClean

(* Nothing is registered and nothing has been applied.                     *)
LEMMA RepeatInit == Init => Repeat
BY DEF Init, LedgerInit, Repeat, OneRowPerAction, ClaimKept, FailingIsClean, Registered,
       RegisteredStates, ByApproval, InFlight, Rows

(* Steps that leave rows, claims and positions alone keep Repeat.          *)
LEMMA RepeatFrame ==
  ASSUME Repeat, UNCHANGED <<rowState, rowIntent, settled, pc, req, applied>>
  PROVE  Repeat'
BY DEF Repeat, OneRowPerAction, ClaimKept, FailingIsClean, Registered, ByApproval

(* A fresh row for an action replaces only expired, unconsumed ones.       *)
LEMMA RepeatReserve == TypeOK /\ Core /\ Repeat /\ Reserve => Repeat'
<1> SUFFICES ASSUME TypeOK, Core, Repeat, Reserve PROVE Repeat'
  OBVIOUS
<1>1. UNCHANGED <<pc, req, auth, applied>>
  BY DEF Reserve, execVars, providerVars
<1>2. FailingIsClean'
  BY <1>1 DEF Repeat, FailingIsClean
<1>3. OneRowPerAction' /\ ClaimKept'
  <2>0. ASSUME NEW x \in Execs, ByApproval(x), pc[x] \in InFlight \/ x \in applied
        PROVE  /\ rowState[req[x].grant] \notin {"unminted", "reserved"}
               /\ req[x].grant \in Rows
    BY <2>0 DEF TypeOK, Core, CallOK, RowOK, ByApproval, Governed, InFlight
  <2>1. ASSUME NEW i \in Intents, NEW a \in Approvals, ReserveApproval(i, a)
        PROVE  OneRowPerAction' /\ ClaimKept'
    <3>1. OneRowPerAction'
      BY <2>1, LedgerAssumption
      DEF ReserveApproval, Repeat, OneRowPerAction, ActionRows, Registered, RegisteredStates,
          TypeOK, LedgerTypeOK, Rows
    <3>2. ClaimKept'
      BY <1>1, <2>0, <2>1
      DEF ReserveApproval, Repeat, ClaimKept, ActionRows, Replaceable, ByApproval, TypeOK,
          LedgerTypeOK, Rows
    <3> QED BY <3>1, <3>2
  <2>2. ASSUME NEW s \in PlanSteps, NEW i \in Intents, NEW life \in 1 .. TTL,
               ReserveApprovedPlanStep(s, i, life)
        PROVE  OneRowPerAction' /\ ClaimKept'
    <3>1. \A a \in Approvals : rowState'[a] = rowState[a] /\ rowIntent'[a] = rowIntent[a]
      BY <2>2, LedgerAssumption DEF ReserveApprovedPlanStep, TypeOK, LedgerTypeOK, Rows
    <3>2. OneRowPerAction'
      BY <3>1 DEF Repeat, OneRowPerAction, Registered
    <3>3. ClaimKept'
      BY <1>1, <2>0, <2>2
      DEF ReserveApprovedPlanStep, Repeat, ClaimKept, ByApproval, TypeOK, LedgerTypeOK
    <3> QED BY <3>2, <3>3
  <2> QED BY <2>1, <2>2 DEF Reserve
<1> QED BY <1>2, <1>3 DEF Repeat

(* A call that fails does so before its effect, so the row it marks failed *)
(* is nobody's unknown outcome.                                            *)
LEMMA RepeatCall ==
  ASSUME RaisesAfterEffect = FALSE, NEW e \in Execs, TypeOK, Core, Repeat, Step(e)
  PROVE  Repeat'
<1> USE DEF TypeOK, LedgerTypeOK, Repeat, At, Goto, Answer, Return, guardVars, ledgerVars,
        providerVars
<1> DEFINE RowsKept == UNCHANGED <<rowState, rowIntent, settled>>
<1>e. CallOK(e)
  BY DEF Core
<1>1. CASE RowsKept /\ UNCHANGED applied /\ pc'[e] \notin InFlight \cup {"failing"}
           /\ (\A x \in Execs \ {e} : pc'[x] = pc[x] /\ req'[x] = req[x])
           /\ (e \in applied => req'[e] = req[e])
  BY <1>1 DEF OneRowPerAction, ClaimKept, FailingIsClean, Registered, ByApproval
<1>2. CASE RowsKept /\ UNCHANGED <<req, applied>> /\ pc[e] \in InFlight
           /\ pc' = [pc EXCEPT ![e] = pc'[e]] /\ pc'[e] # "failing"
  BY <1>2 DEF OneRowPerAction, ClaimKept, FailingIsClean, Registered, ByApproval
<1>3. CASE RowsKept /\ UNCHANGED <<req, applied>> /\ e \notin applied
           /\ pc' = [pc EXCEPT ![e] = "failing"]
  BY <1>3 DEF OneRowPerAction, ClaimKept, FailingIsClean, Registered, ByApproval, InFlight
<1> HIDE DEF RowsKept
<1>4. ASSUME NEW r, Submit(e, r) PROVE Repeat'
  BY <1>1, <1>4, <1>e DEF Submit, CallOK, Unsent, Unbound, InFlight, RowsKept
<1>5. ASSUME NEW g \in External, NEW i \in Intents, Continue(e, g, i) PROVE Repeat'
  BY <1>1, <1>5, <1>e DEF Continue, CallOK, Unsent, Unbound, InFlight, RowsKept
<1>6. CASE Refuse(e) \/ PrepareFails(e) \/ Crash(e) \/ Readback(e) \/ CheckIntent(e)
  BY <1>1, <1>6 DEF Refuse, PrepareFails, Crash, Readback, CheckIntent, InFlight, RowsKept
<1>7. CASE Resolve(e)
  <2>1. CASE Governed(e)
    BY <1>1, <1>7, <2>1 DEF Resolve, InFlight, RowsKept, Governed
  <2>2. CASE ~Governed(e)
    BY <1>7, <2>2, <1>e DEF Resolve, RowsKept, OneRowPerAction, ClaimKept, FailingIsClean,
       Registered, ByApproval, Governed, CallOK, Unsent, Unbound
  <2> QED BY <2>1, <2>2
<1>8. ASSUME NEW p \in Plans, Prepare(e, p) PROVE Repeat'
  BY <1>1, <1>8 DEF Prepare, InFlight, RowsKept
<1>9. ASSUME NEW p \in Plans, Reprepare(e, p) PROVE Repeat'
  BY <1>2, <1>9 DEF Reprepare, InFlight, RowsKept
<1>10. ASSUME NEW p \in Plans, Invoke(e, p) PROVE Repeat'
  BY <1>10 DEF Invoke, OneRowPerAction, ClaimKept, FailingIsClean, Registered, ByApproval, InFlight
<1>11. CASE Authorize(e)
  <2>1. CASE /\ ByApproval(e) /\ MayConsume(e)
             /\ AuthorizeExecutionPlan(req[e].grant, prep[e])
             /\ Goto(e, "auditing")
    BY <1>11, <1>e, <2>1
    DEF Authorize, AuthorizeExecutionPlan, MayConsume, OneRowPerAction, ClaimKept, FailingIsClean,
        Registered, RegisteredStates, ByApproval, InFlight, CallOK, Unsent, Unbound
  <2>2. CASE ~ByApproval(e) /\ UNCHANGED ledgerVars /\ Goto(e, "auditing")
    BY <1>11, <1>e, <2>2
    DEF Authorize, OneRowPerAction, ClaimKept, FailingIsClean, Registered, ByApproval, CallOK,
        Unsent, Unbound
  <2>3. CASE Return(e, "denied") /\ UNCHANGED <<ledgerVars, auth>>
    BY <1>1, <1>11, <2>3 DEF Authorize, InFlight, RowsKept
  <2> QED BY <1>11, <2>1, <2>2, <2>3 DEF Authorize
<1>12. CASE RecordAuthorized(e) \/ InvokeReturns(e) \/ Release(e)
  BY <1>2, <1>12 DEF RecordAuthorized, InvokeReturns, Release, InFlight, RowsKept
<1>13. CASE Verify(e)
  BY <1>2, <1>3, <1>13, <1>e DEF Verify, InFlight, RowsKept, CallOK, Unsent
<1>14. CASE ReprepareFails(e) \/ InvokeRaises(e)
  BY <1>3, <1>14, <1>e DEF ReprepareFails, InvokeRaises, RowsKept, CallOK, Unsent
<1>15. ASSUME NEW a \in Rows, SettleSuccess(a), rowState[a] = "consumed",
              UNCHANGED <<req, applied>>, pc' = [pc EXCEPT ![e] = "done"]
       PROVE  Repeat'
  BY <1>15 DEF SettleSuccess, OneRowPerAction, ClaimKept, FailingIsClean, Registered,
               RegisteredStates, ByApproval, InFlight, Rows
<1>16. CASE Complete(e)
  <2>1. CASE ByApproval(e) /\ rowState[req[e].grant] = "consumed" /\ SettleSuccess(req[e].grant)
    BY <1>15, <1>16, <2>1 DEF Complete, ByApproval
  <2>2. CASE UNCHANGED ledgerVars
    BY <1>1, <1>16, <2>2 DEF Complete, InFlight, RowsKept
  <2> QED BY <1>16, <2>1, <2>2 DEF Complete
<1>17. CASE Reconcile(e)
  <2>1. CASE rowState[req[e].grant] = "consumed" /\ SettleSuccess(req[e].grant)
    BY <1>15, <1>17, <2>1 DEF Reconcile
  <2>2. CASE UNCHANGED ledgerVars
    BY <1>1, <1>17, <2>2 DEF Reconcile, InFlight, RowsKept
  <2> QED BY <1>17, <2>1, <2>2 DEF Reconcile
<1>18. CASE FailExecution(e)
  <2>1. CASE ByApproval(e)
    <3>1. e \notin applied
      BY <1>18 DEF FailExecution, FailingIsClean
    <3>2. ASSUME NEW x \in Execs, ByApproval(x), pc[x] \in InFlight \/ x \in applied
          PROVE  req[x].grant # req[e].grant
      <4>1. auth[x] # NoPlan /\ auth[e] # NoPlan
        BY <1>18, <1>e, <2>1, <3>2 DEF Core, CallOK, FailExecution, Governed, ByApproval
      <4>2. x # e
        BY <1>18, <3>1, <3>2 DEF FailExecution, InFlight
      <4> QED BY <2>1, <3>2, <4>1, <4>2 DEF Core, Exclusive
    <3>3. Fail(req[e].grant) /\ UNCHANGED <<req, applied>> /\ pc' = [pc EXCEPT ![e] = "done"]
      BY <1>18, <2>1 DEF FailExecution
    <3>4. OneRowPerAction'
      BY <3>3 DEF Fail, OneRowPerAction, Registered, RegisteredStates, Rows
    <3>5. ClaimKept'
      BY <3>1, <3>2, <3>3 DEF Fail, ClaimKept, ByApproval, InFlight
    <3>6. FailingIsClean'
      BY <3>3 DEF FailingIsClean
    <3> QED BY <3>4, <3>5, <3>6
  <2>2. CASE ~ByApproval(e)
    BY <1>1, <1>18, <2>2 DEF FailExecution, InFlight, RowsKept
  <2> QED BY <2>1, <2>2
<1> QED
  BY <1>4, <1>5, <1>6, <1>7, <1>8, <1>9, <1>10, <1>11, <1>12, <1>13, <1>14, <1>16, <1>17, <1>18,
     Step(e) DEF Step

(* When an invocation that raises has had no effect, no action is carried  *)
(* out twice while the first outcome is not recorded as a success, even    *)
(* with crashes, expiry and reconciliation.                                *)
THEOREM NoActionIsRepeatedBlindly == RaisesAfterEffect = FALSE => (Spec => []NoBlindRepeat)
<1> SUFFICES ASSUME RaisesAfterEffect = FALSE PROVE Spec => []NoBlindRepeat
  OBVIOUS
<1>1. TypeOK /\ Core /\ Repeat /\ [Next]_vars => Repeat'
  <2> SUFFICES ASSUME TypeOK, Core, Repeat, [Next]_vars PROVE Repeat'
    OBVIOUS
  <2>1. CASE \/ Tick
             \/ \E r \in Recoveries, d \in Dispositions : RecordRecovery(r, d)
             \/ \E i \in Reconcilable, p \in Plans : ForeignEdit(i, p)
             \/ UNCHANGED vars
    <3>1. UNCHANGED <<rowState, rowIntent, settled, pc, req, applied>>
      BY <2>1 DEF Tick, Elapse, RecordRecovery, ForeignEdit, vars, ledgerVars, guardVars,
                  execVars, providerVars
    <3> QED BY <3>1, RepeatFrame
  <2>2. CASE \E e \in Execs : Step(e)
    BY <2>2, RepeatCall
  <2> QED BY <2>1, <2>2, RepeatReserve DEF Next
<1>2. TypeOK /\ Core /\ Repeat => NoBlindRepeat
  <2> SUFFICES ASSUME TypeOK, Core, Repeat, NEW e \in applied, NEW f \in applied, e # f,
                      req[e].grant \in Approvals, req[f].grant \in Approvals,
                      req[e].intent = req[f].intent,
                      req[e].grant \notin settled, req[f].grant \notin settled
               PROVE  FALSE
    BY DEF NoBlindRepeat
  <2>0. e \in Execs /\ f \in Execs
    BY DEF TypeOK
  <2>1. ASSUME NEW x \in applied, req[x].grant \in Approvals PROVE ByApproval(x) /\ auth[x] # NoPlan
    <3>1. x \in Execs
      BY DEF TypeOK
    <3>2. req[x].grant # NoGrant
      BY <2>1, ExecutionAssumption DEF Grants, Rows
    <3>3. req[x].mode # "external"
      BY <2>1, <3>1, ExecutionAssumption DEF Core, ClaimOK, TypeOK, Rows
    <3>4. req[x].mode \notin {"none", "plain"}
      BY <3>1, <3>2 DEF Core, CallOK, Unsent, Unbound, TypeOK
    <3>5. ByApproval(x)
      BY <3>1, <3>3, <3>4 DEF TypeOK, ByApproval
    <3> QED BY <3>1, <3>5 DEF Core, CallOK, Governed, ByApproval
  <2>2. rowState[req[e].grant] = "consumed" /\ rowState[req[f].grant] = "consumed"
    BY <2>0, <2>1 DEF Repeat, ClaimKept
  <2>3. rowIntent[req[e].grant] = rowIntent[req[f].grant]
    BY <2>0, <2>1 DEF Core, RowOK
  <2>4. req[e].grant = req[f].grant
    BY <2>2, <2>3 DEF Repeat, OneRowPerAction, Registered, RegisteredStates
  <2> QED BY <2>0, <2>1, <2>4 DEF Core, Exclusive
<1> QED BY <1>1, <1>2, RepeatInit, TypeInit, TypeStep, CoreInit, CoreStep, PTL DEF Spec

-----------------------------------------------------------------------------
(* Refinement of the abstract single-use grant.                            *)

(* A step that binds nothing and applies nothing is a stutter of the       *)
(* abstract specification.                                                 *)
LEMMA RefinementFrame ==
  ASSUME NEW e \in Execs, TypeOK, UNCHANGED <<auth, applied>>,
         \A x \in Execs \ {e} : req'[x] = req[x] /\ prep'[x] = prep[x],
         auth[e] # NoPlan => req'[e] = req[e],
         e \in applied => req'[e] = req[e] /\ prep'[e] = prep[e]
  PROVE  UNCHANGED <<Bindings, Effects>>
<1>1. \A x \in Execs : auth[x] # NoPlan => req'[x] = req[x]
  OBVIOUS
<1>2. \A x \in applied : x \in Execs /\ req'[x] = req[x] /\ prep'[x] = prep[x]
  BY DEF TypeOK
<1>3. BoundExecs' = BoundExecs
  BY <1>1 DEF BoundExecs, Governed
<1>4. GovernedApplied' = GovernedApplied
  BY <1>2 DEF GovernedApplied, Governed
<1>5. Bindings' = Bindings
  BY <1>1, <1>3 DEF Bindings, BindingOf, BoundExecs
<1>6. Effects' = Effects
  BY <1>2, <1>4 DEF Effects, BindingOf, GovernedApplied
<1> QED BY <1>5, <1>6

(* A successful Authorize is the abstract Authorize of its binding.        *)
LEMMA RefinementAuthorize ==
  ASSUME NEW e \in Execs, TypeOK, Core, Authorize(e), auth' # auth
  PROVE  \E b \in Promise!Binding : Promise!Authorize(b)
<1> DEFINE b == BindingOf(e, prep[e])
<1>1. /\ pc[e] = "authorizing"
      /\ auth' = [auth EXCEPT ![e] = prep[e]]
      /\ UNCHANGED <<req, prep, applied>>
      /\ ByApproval(e) => MayConsume(e)
  BY DEF Authorize, At, Return, providerVars
<1>2. /\ Governed(e) /\ prep[e] \in Plans /\ auth[e] = NoPlan /\ e \notin applied
      /\ req[e].grant \in Grants
  BY <1>1, ExecutionAssumption
  DEF Core, CallOK, ClaimOK, Unbound, Unsent, TypeOK, Governed, Grants, External
<1>3. b \in Promise!Binding
  BY <1>2 DEF Promise!Binding, BindingOf
<1>4. ASSUME NEW x \in BoundExecs PROVE req[x].grant # req[e].grant
  <2>1. x \in Execs /\ auth[x] # NoPlan /\ Governed(x) /\ x # e
    BY <1>2 DEF BoundExecs
  <2>2. CASE ByApproval(e) /\ ByApproval(x)
    BY <1>1, <2>1, <2>2 DEF Core, RowOK, MayConsume
  <2>3. CASE ~ByApproval(e) /\ ~ByApproval(x)
    BY <1>2, <2>1, <2>3 DEF Core, Exclusive, Governed, ByApproval
  <2>4. CASE ByApproval(e) /\ ~ByApproval(x)
    BY <2>1, <2>4, ExecutionAssumption DEF Core, ClaimOK, TypeOK, Governed, ByApproval
  <2>5. CASE ~ByApproval(e) /\ ByApproval(x)
    BY <1>2, <2>1, <2>5, ExecutionAssumption DEF Core, ClaimOK, TypeOK, Governed, ByApproval
  <2> QED BY <2>2, <2>3, <2>4, <2>5
<1>5. BoundExecs' = BoundExecs \cup {e}
  BY <1>1, <1>2, LedgerAssumption DEF BoundExecs, Governed, TypeOK
<1>6. Bindings' = Bindings \cup {b}
  BY <1>1, <1>2, <1>5 DEF Bindings, BindingOf, BoundExecs, TypeOK
<1>7. \A c \in Bindings : c.grant # b.grant
  BY <1>4 DEF Bindings, BindingOf
<1>8. Effects' = Effects
  BY <1>1 DEF Effects, BindingOf, GovernedApplied, Governed
<1> QED BY <1>3, <1>6, <1>7, <1>8 DEF Promise!Authorize

(* A governed invocation is the abstract Perform of its binding.           *)
LEMMA RefinementInvoke ==
  ASSUME NEW e \in Execs, NEW p \in Plans, TypeOK, Core, Invoke(e, p), Governed(e)
  PROVE  \E b \in Promise!Binding : Promise!Perform(b)
<1> DEFINE b == BindingOf(e, prep[e])
<1>1. /\ pc[e] = "invoking" /\ prep' = prep
      /\ applied' = applied \cup {e}
      /\ UNCHANGED <<req, auth>>
  BY DEF Invoke, At, TypeOK
<1>2. auth[e] = prep[e] /\ auth[e] # NoPlan /\ e \notin applied
  BY <1>1 DEF Core, CallOK, Unsent
<1>3. prep[e] \in Plans /\ req[e].grant \in Grants
  BY <1>2, ExecutionAssumption DEF TypeOK, Core, ClaimOK, Governed, Grants
<1>4. b \in Promise!Binding
  BY <1>3 DEF Promise!Binding, BindingOf
<1>5. b \in Bindings
  BY <1>2 DEF Bindings, BoundExecs, BindingOf
<1>6. b \notin Effects
  BY <1>2 DEF Effects, GovernedApplied, BindingOf
<1>7. Effects' = Effects \cup {b}
  <2>1. GovernedApplied' = GovernedApplied \cup {e}
    BY <1>1 DEF GovernedApplied, Governed
  <2> QED BY <1>1, <2>1 DEF Effects, BindingOf
<1>8. Bindings' = Bindings
  BY <1>1 DEF Bindings, BoundExecs, BindingOf, Governed
<1> QED BY <1>4, <1>5, <1>6, <1>7, <1>8 DEF Promise!Perform

(* The orchestrator with its ledger, guards, crashes and reconciliation    *)
(* implements the abstract single-use grant.                               *)
THEOREM ImplementsGrant == Spec => ImplementsSingleUseGrant
<1>1. Init => Promise!Init
  BY DEF Init, Promise!Init, Bindings, Effects, BoundExecs, GovernedApplied
<1>2. TypeOK /\ Core /\ [Next]_vars => [Promise!Next]_<<Bindings, Effects>>
  <2> SUFFICES ASSUME TypeOK, Core, [Next]_vars
               PROVE  Promise!Next \/ UNCHANGED <<Bindings, Effects>>
    OBVIOUS
  <2>1. CASE \/ Reserve \/ Tick
             \/ \E r \in Recoveries, d \in Dispositions : RecordRecovery(r, d)
             \/ \E i \in Reconcilable, p \in Plans : ForeignEdit(i, p)
             \/ UNCHANGED vars
    <3>1. UNCHANGED <<req, auth, prep, applied>>
      BY <2>1 DEF Reserve, Tick, RecordRecovery, ForeignEdit, vars, execVars, providerVars
    <3> QED
      BY <3>1 DEF Bindings, Effects, BoundExecs, GovernedApplied, BindingOf, Governed
  <2>2. ASSUME NEW e \in Execs, Step(e)
        PROVE  Promise!Next \/ UNCHANGED <<Bindings, Effects>>
    <3>e. CallOK(e)
      BY DEF Core
    <3>1. CASE Authorize(e) /\ auth' # auth
      BY <3>1, RefinementAuthorize DEF Promise!Next
    <3>2. ASSUME NEW p \in Plans, Invoke(e, p)
          PROVE  Promise!Next \/ UNCHANGED <<Bindings, Effects>>
      <4>1. CASE Governed(e)
        BY <3>2, <4>1, RefinementInvoke DEF Promise!Next
      <4>2. CASE ~Governed(e)
        <5>1. auth[e] = NoPlan
          BY <3>e, <4>2 DEF CallOK
        <5>2. BoundExecs' = BoundExecs /\ GovernedApplied' = GovernedApplied
          BY <3>2, <4>2 DEF Invoke, BoundExecs, GovernedApplied, Governed
        <5>3. Bindings' = Bindings
          BY <3>2, <5>2 DEF Invoke, Bindings, BindingOf
        <5>4. \A x \in GovernedApplied : prep'[x] = prep[x] /\ req'[x] = req[x]
          BY <3>2, <4>2 DEF Invoke, GovernedApplied, TypeOK
        <5>5. Effects' = Effects
          BY <5>2, <5>4 DEF Effects, BindingOf
        <5> QED BY <5>3, <5>5
      <4> QED BY <4>1, <4>2
    <3>3. CASE \/ \E r : Submit(e, r)
               \/ \E g \in External, i \in Intents : Continue(e, g, i)
      BY <3>3, <3>e, RefinementFrame
      DEF Submit, Continue, At, CallOK, Unbound, Unsent, TypeOK, providerVars
    <3>4. CASE \E p \in Plans : Prepare(e, p) \/ Reprepare(e, p)
      BY <3>4, <3>e, RefinementFrame
      DEF Prepare, Reprepare, At, CallOK, Unbound, Unsent, TypeOK, providerVars
    <3>5. CASE Authorize(e) /\ auth' = auth
      BY <3>5, RefinementFrame DEF Authorize, providerVars
    <3>6. CASE \/ Refuse(e) \/ Resolve(e) \/ CheckIntent(e) \/ PrepareFails(e)
               \/ RecordAuthorized(e) \/ ReprepareFails(e) \/ Verify(e)
               \/ InvokeRaises(e) \/ InvokeReturns(e) \/ Release(e)
               \/ Complete(e) \/ FailExecution(e) \/ Crash(e)
               \/ Readback(e) \/ Reconcile(e)
      <4>1. UNCHANGED <<req, auth, prep, applied>>
        BY <3>6 DEF Refuse, Resolve, CheckIntent, PrepareFails, RecordAuthorized, ReprepareFails,
          Verify, InvokeRaises, InvokeReturns, Release, Complete, FailExecution, Crash, Readback,
          Reconcile, providerVars
      <4> QED BY <4>1, RefinementFrame
    <3> QED BY <2>2, <3>1, <3>2, <3>3, <3>4, <3>5, <3>6 DEF Step
  <2> QED BY <2>1, <2>2 DEF Next
<1> QED
  BY <1>1, <1>2, TypeInit, TypeStep, CoreInit, CoreStep, PTL
  DEF Spec, ImplementsSingleUseGrant, Promise!Spec

-----------------------------------------------------------------------------
(* What callers are told, for providers that may lose an answer as well.   *)

\* A settled row's plan was seen at the provider, and its row is never used again
SettledShown ==
  \A a \in settled : /\ rowState[a] \in {"succeeded", "deleted"}
                     /\ <<rowIntent[a], rowPlan[a]>> \in shown
SuccessSettled == \A a \in Rows : rowState[a] = "succeeded" => a \in settled
ConsumedBound == \A a \in Rows : rowState[a] = "consumed" => rowPlan[a] \in Plans
TargetShown == \A i \in Intents : target[i] # NoPlan => <<i, target[i]>> \in shown

\* A call that may report success, and one whose readback matched
CallShown(e) ==
  /\ pc[e] = "idle" => result[e] = "none"
  /\ pc[e] \in {"applied", "releasing", "completing"} =>
        e \in applied /\ <<req[e].intent, prep[e]>> \in shown
  /\ pc[e] = "matched" => /\ rowState[req[e].grant] \notin {"unminted", "reserved"}
                          /\ <<rowIntent[req[e].grant], rowPlan[req[e].grant]>> \in shown

\* The row of a call under way is not failed or replaced by anybody else
InFlightKept ==
  \A e \in Execs : ByApproval(e) /\ pc[e] \in InFlight =>
     rowState[req[e].grant] = "consumed" \/ req[e].grant \in settled

RowsReal == SettledShown /\ SuccessSettled /\ ConsumedBound /\ TargetShown
Real == RowsReal /\ (\A e \in Execs : CallShown(e)) /\ InFlightKept /\ SuccessIsReal

\* No execution has reported initially.
LEMMA RealInit == Init => Real
BY DEF Init, LedgerInit, Real, RowsReal, SettledShown, SuccessSettled, ConsumedBound, TargetShown,
       CallShown, InFlightKept, SuccessIsReal, InFlight

(* A row that has left the reserved state keeps its intent and its plan.   *)
Fixed(a) == rowState[a] \notin {"unminted", "reserved"}

\* A step that takes no row back and forgets nothing that was shown
Onward ==
  /\ \A a \in Rows : Fixed(a) =>
        /\ rowIntent'[a] = rowIntent[a] /\ rowPlan'[a] = rowPlan[a]
        /\ rowState'[a] \notin {"unminted", "reserved"}
  /\ settled \subseteq settled' /\ shown \subseteq shown'

(* It leaves the other calls as well founded as they were.                 *)
LEMMA OnwardCalls ==
  ASSUME TypeOK, Real, RowsReal', Onward, NEW x \in Execs,
         pc'[x] = pc[x], req'[x] = req[x], prep'[x] = prep[x], result'[x] = result[x],
         applied \subseteq applied'
  PROVE  /\ CallShown(x)'
         /\ ByApproval(x) /\ result[x] \in {"succeeded", "replayed", "reconciled"} =>
              /\ req'[x].grant \in settled'
              /\ rowIntent'[req'[x].grant] = req'[x].intent
              /\ <<req'[x].intent, rowPlan'[req'[x].grant]>> \in shown'
<1>1. CallShown(x)
  BY DEF Real
<1>2. pc[x] = "matched" => req[x].grant \in Rows
  BY DEF TypeOK
<1>3. CallShown(x)'
  BY <1>1, <1>2 DEF CallShown, Onward, Fixed
<1>4. ASSUME ByApproval(x), result[x] \in {"succeeded", "replayed", "reconciled"}
      PROVE  /\ req'[x].grant \in settled'
             /\ rowIntent'[req'[x].grant] = req'[x].intent
             /\ <<req'[x].intent, rowPlan'[req'[x].grant]>> \in shown'
  <2>1. /\ req[x].grant \in settled /\ rowIntent[req[x].grant] = req[x].intent
        /\ <<req[x].intent, rowPlan[req[x].grant]>> \in shown
    BY <1>4 DEF Real, SuccessIsReal
  <2>2. req[x].grant \in Rows /\ Fixed(req[x].grant)
    BY <2>1 DEF Real, RowsReal, SettledShown, Fixed, TypeOK, LedgerTypeOK
  <2> QED BY <2>1, <2>2 DEF Onward
<1> QED BY <1>3, <1>4

Told(e) ==
  ByApproval(e) /\ result[e] \in {"succeeded", "replayed", "reconciled"} =>
     /\ req[e].grant \in settled
     /\ rowIntent[req[e].grant] = req[e].intent
     /\ <<req[e].intent, rowPlan[req[e].grant]>> \in shown

Kept(e) ==
  ByApproval(e) /\ pc[e] \in InFlight =>
     rowState[req[e].grant] = "consumed" \/ req[e].grant \in settled

(* A step of one call, when it takes no consumed row from another one.     *)
LEMMA RealFrom ==
  ASSUME TypeOK, Real, NEW e \in Execs, RowsReal', Onward, applied \subseteq applied',
         \A x \in Execs \ {e} :
            /\ pc'[x] = pc[x] /\ req'[x] = req[x] /\ prep'[x] = prep[x] /\ result'[x] = result[x]
            /\ ByApproval(x) /\ pc[x] \in InFlight /\ rowState[req[x].grant] = "consumed" =>
                  rowState'[req[x].grant] = "consumed" \/ req[x].grant \in settled',
         CallShown(e)', Told(e)', Kept(e)'
  PROVE  Real'
<1>1. ASSUME NEW x \in Execs PROVE CallShown(x)' /\ Told(x)' /\ Kept(x)'
  <2>1. CASE x = e
    BY <2>1
  <2>2. CASE x # e
    <3>1. CallShown(x)'
      BY <2>2, OnwardCalls
    <3>2. Told(x)'
      BY <2>2, OnwardCalls DEF Told, ByApproval
    <3>3. Kept(x)
      BY DEF Real, InFlightKept, Kept
    <3>4. Kept(x)'
      BY <2>2, <3>3 DEF Kept, ByApproval, Onward
    <3> QED BY <3>1, <3>2, <3>4
  <2> QED BY <2>1, <2>2
<1>2. SuccessIsReal'
  BY <1>1 DEF SuccessIsReal, Told
<1>3. InFlightKept'
  BY <1>1 DEF InFlightKept, Kept
<1> QED BY <1>1, <1>2, <1>3 DEF Real

(* One that touches neither ledger nor provider.                           *)
LEMMA RealQuiet ==
  ASSUME TypeOK, Real, NEW e \in Execs, UNCHANGED <<ledgerVars, providerVars>>,
         \A x \in Execs \ {e} :
            pc'[x] = pc[x] /\ req'[x] = req[x] /\ prep'[x] = prep[x] /\ result'[x] = result[x],
         CallShown(e)', Told(e)', Kept(e)'
  PROVE  Real'
<1>1. Onward /\ applied \subseteq applied'
  BY DEF Onward, Fixed, ledgerVars, providerVars
<1>2. RowsReal'
  BY DEF Real, RowsReal, SettledShown, SuccessSettled, ConsumedBound, TargetShown, ledgerVars,
         providerVars
<1>3. rowState' = rowState /\ settled' = settled
  BY DEF ledgerVars
<1> QED BY <1>1, <1>2, <1>3, RealFrom

(* The steps before a plan is bound, and those that end a call.            *)
LEMMA RealQuietSteps ==
  ASSUME NEW e \in Execs, TypeOK, Core, Real,
         \/ \E r : Submit(e, r)
         \/ \E g \in External, i \in Intents : Continue(e, g, i)
         \/ Refuse(e) \/ Resolve(e) \/ CheckIntent(e) \/ PrepareFails(e) \/ Crash(e)
         \/ \E p \in Plans : Prepare(e, p)
         \/ ReprepareFails(e) \/ InvokeRaises(e) \/ Readback(e)
  PROVE  Real'
<1> USE DEF TypeOK, At, Goto, Answer, Return
<1>0. CallOK(e) /\ RowOK(e) /\ CallShown(e) /\ Told(e)
  BY DEF Core, Real, SuccessIsReal, Told
<1> DEFINE Quiet == /\ UNCHANGED <<ledgerVars, providerVars>>
                    /\ \A x \in Execs \ {e} : /\ pc'[x] = pc[x] /\ req'[x] = req[x]
                                              /\ prep'[x] = prep[x] /\ result'[x] = result[x]
<1>1. ASSUME Quiet, pc'[e] \notin InFlight \cup {"idle", "matched"}, Told(e)' PROVE Real'
  <2>1. CallShown(e)' /\ Kept(e)'
    BY <1>1 DEF CallShown, Kept, InFlight
  <2> QED BY <1>1, <2>1, RealQuiet
<1>2. ASSUME UNCHANGED <<ledgerVars, providerVars>>, req'[e] = req[e], result'[e] = result[e]
      PROVE  Told(e)'
  BY <1>0, <1>2 DEF Told, ByApproval, ledgerVars, providerVars
<1>3. ASSUME result'[e] \notin {"succeeded", "replayed", "reconciled"} PROVE Told(e)'
  BY <1>3 DEF Told
<1> HIDE DEF Quiet
<1>4. ASSUME NEW r, Submit(e, r) PROVE Real'
  <2>1. Quiet /\ pc'[e] = "received" /\ result'[e] = result[e] /\ pc[e] = "idle"
    BY <1>4 DEF Submit, Quiet, guardVars
  <2> QED BY <1>0, <1>1, <1>3, <2>1 DEF CallShown, InFlight
<1>5. ASSUME NEW g \in External, NEW i \in Intents, Continue(e, g, i) PROVE Real'
  <2>1. Quiet /\ pc'[e] = "received" /\ result'[e] = result[e] /\ pc[e] = "idle"
    BY <1>5 DEF Continue, Quiet
  <2> QED BY <1>0, <1>1, <1>3, <2>1 DEF CallShown, InFlight
<1>6. CASE Refuse(e) \/ PrepareFails(e) \/ Crash(e)
  <2>1. Quiet /\ pc'[e] = "done" /\ result'[e] \in {"denied", "lost"}
    BY <1>6 DEF Refuse, PrepareFails, Crash, Quiet
  <2> QED BY <1>1, <1>3, <2>1 DEF InFlight
<1>7. CASE ReprepareFails(e) \/ InvokeRaises(e)
  <2>1. Quiet /\ pc'[e] = "failing" /\ result'[e] \in {"denied", "failed"}
    BY <1>7 DEF ReprepareFails, InvokeRaises, Quiet
  <2> QED BY <1>1, <1>3, <2>1 DEF InFlight
<1>8. CASE Resolve(e)
  <2>1. Quiet /\ req'[e] = req[e] /\ result'[e] = result[e] /\ UNCHANGED <<ledgerVars, providerVars>>
    BY <1>8 DEF Resolve, Quiet
  <2>2. CASE Governed(e)
    <3>1. pc'[e] \in {"checking", "preparing"}
      BY <1>8, <2>2 DEF Resolve, Governed
    <3> QED BY <1>1, <1>2, <2>1, <3>1 DEF InFlight
  <2>3. CASE ~Governed(e)
    <3>1. pc'[e] = "invoking" /\ ~ByApproval(e)'
      BY <1>8, <2>1, <2>3 DEF Resolve, Governed, ByApproval
    <3>2. CallShown(e)' /\ Kept(e)'
      BY <3>1 DEF CallShown, Kept
    <3> QED BY <1>2, <2>1, <3>2, RealQuiet DEF Quiet
  <2> QED BY <2>2, <2>3
<1>9. ASSUME NEW p \in Plans, Prepare(e, p) PROVE Real'
  <2>1. /\ Quiet /\ req'[e] = req[e] /\ result'[e] = result[e] /\ UNCHANGED <<ledgerVars, providerVars>>
        /\ pc'[e] = "authorizing"
    BY <1>9 DEF Prepare, Quiet
  <2> QED BY <1>1, <1>2, <2>1 DEF InFlight
<1>10. CASE CheckIntent(e)
  <2>1. Quiet /\ req'[e] = req[e] /\ UNCHANGED <<ledgerVars, providerVars>> /\ req[e].grant \in Rows
    BY <1>10 DEF CheckIntent, Quiet
  <2>2. pc'[e] \in {"done", "preparing", "rejected"}
    BY <1>10 DEF CheckIntent
  <2>3. CASE Validated(req[e].grant, req[e].intent, req[e].keyOk) /\ rowState[req[e].grant] = "succeeded"
    <3>1. rowIntent[req[e].grant] = req[e].intent /\ req[e].grant \in settled
      BY <2>1, <2>3 DEF Validated, Real, RowsReal, SuccessSettled
    <3>2. <<req[e].intent, rowPlan[req[e].grant]>> \in shown
      BY <3>1 DEF Real, RowsReal, SettledShown
    <3>3. Told(e)'
      BY <2>1, <3>1, <3>2 DEF Told, ledgerVars, providerVars
    <3> QED BY <1>1, <2>1, <2>2, <3>3 DEF InFlight
  <2>4. CASE result'[e] = result[e]
    BY <1>1, <1>2, <2>1, <2>2, <2>4 DEF InFlight
  <2>5. CASE result'[e] = "denied"
    BY <1>1, <1>3, <2>1, <2>2, <2>5 DEF InFlight
  <2> QED BY <1>10, <2>3, <2>4, <2>5 DEF CheckIntent
<1>11. CASE Readback(e)
  <2>1. Quiet /\ req'[e] = req[e] /\ result'[e] = result[e] /\ UNCHANGED <<ledgerVars, providerVars>>
        /\ req[e].grant \in Rows
    BY <1>11 DEF Readback, Quiet
  <2>2. CASE pc'[e] = "done"
    BY <1>1, <1>2, <2>1, <2>2 DEF InFlight
  <2>3. CASE ReadbackMatches(e) /\ pc'[e] = "matched"
    <3> DEFINE a == req[e].grant
    <3>1. rowState[a] = "consumed" /\ rowIntent[a] \in Intents /\ target[rowIntent[a]] = rowPlan[a]
      BY <2>3, ExecutionAssumption DEF ReadbackMatches
    <3>2. rowPlan[a] # NoPlan
      BY <2>1, <3>1, LedgerAssumption DEF Real, RowsReal, ConsumedBound
    <3>3. <<rowIntent[a], rowPlan[a]>> \in shown
      BY <3>1, <3>2 DEF Real, RowsReal, TargetShown
    <3>4. CallShown(e)'
      BY <2>1, <2>3, <3>1, <3>3 DEF CallShown, ledgerVars, providerVars
    <3>5. Kept(e)'
      BY <2>3 DEF Kept, InFlight
    <3> QED BY <1>2, <2>1, <3>4, <3>5, RealQuiet DEF Quiet
  <2> QED BY <1>11, <2>2, <2>3 DEF Readback
<1> QED BY <1>4, <1>5, <1>6, <1>7, <1>8, <1>9, <1>10, <1>11

(* The steps that write the ledger, call the provider or lie between them. *)
LEMMA RealBoundSteps ==
  ASSUME NEW e \in Execs, TypeOK, Core, Real,
         \/ Authorize(e) \/ RecordAuthorized(e)
         \/ \E p \in Plans : Reprepare(e, p) \/ Invoke(e, p)
         \/ Verify(e) \/ InvokeReturns(e) \/ Release(e) \/ Complete(e) \/ FailExecution(e)
         \/ Reconcile(e)
  PROVE  Real'
<1> USE DEF TypeOK, LedgerTypeOK, At, Goto, Answer, Return
<1>0. CallOK(e) /\ RowOK(e) /\ CallShown(e) /\ Told(e) /\ Kept(e)
  BY DEF Core, Real, SuccessIsReal, Told, InFlightKept, Kept
<1> DEFINE Others == \A x \in Execs \ {e} : /\ pc'[x] = pc[x] /\ req'[x] = req[x]
                                            /\ prep'[x] = prep[x] /\ result'[x] = result[x]
<1>1. ASSUME UNCHANGED <<ledgerVars, providerVars>>, req'[e] = req[e], result'[e] = result[e]
      PROVE  Told(e)'
  BY <1>0, <1>1 DEF Told, ByApproval, ledgerVars, providerVars
<1>2. ASSUME UNCHANGED <<ledgerVars, providerVars>>, req'[e] = req[e], result'[e] = result[e], Others,
             pc[e] \in InFlight, pc'[e] \in InFlight,
             pc'[e] \in {"applied", "releasing", "completing"} =>
                 pc[e] \in {"applied", "releasing", "completing"} /\ prep'[e] = prep[e]
      PROVE  Real'
  <2>1. CallShown(e)'
    BY <1>0, <1>2 DEF CallShown, InFlight, ledgerVars, providerVars
  <2>2. Kept(e)'
    BY <1>0, <1>2 DEF Kept, ByApproval, ledgerVars
  <2> QED BY <1>1, <1>2, <2>1, <2>2, RealQuiet
<1>3. ASSUME UNCHANGED <<ledgerVars, providerVars>>, Others, pc'[e] \in {"done", "failing"}, Told(e)'
      PROVE  Real'
  <2>1. CallShown(e)' /\ Kept(e)'
    BY <1>3 DEF CallShown, Kept, InFlight
  <2> QED BY <1>3, <2>1, RealQuiet
<1>4. ASSUME result'[e] \notin {"succeeded", "replayed", "reconciled"} PROVE Told(e)'
  BY <1>4 DEF Told
<1>5. ASSUME RecordAuthorized(e) \/ InvokeReturns(e) PROVE Real'
  BY <1>2, <1>5 DEF RecordAuthorized, InvokeReturns, InFlight
<1>6. ASSUME NEW p \in Plans, Reprepare(e, p) PROVE Real'
  BY <1>2, <1>6 DEF Reprepare, InFlight
<1>7. ASSUME Verify(e) PROVE Real'
  <2>1. Others /\ UNCHANGED <<ledgerVars, providerVars>> /\ req'[e] = req[e] /\ pc[e] = "verifying"
    BY <1>7 DEF Verify
  <2>2. CASE pc'[e] = "invoking" /\ result'[e] = result[e]
    BY <1>2, <2>1, <2>2 DEF InFlight
  <2>3. CASE pc'[e] = "failing" /\ result'[e] = "denied"
    BY <1>3, <1>4, <2>1, <2>3
  <2> QED BY <1>7, <2>2, <2>3 DEF Verify
<1>8. ASSUME Release(e) PROVE Real'
  <2>1. /\ Others /\ UNCHANGED <<ledgerVars, providerVars>> /\ req'[e] = req[e] /\ prep'[e] = prep[e]
        /\ pc[e] = "releasing"
    BY <1>8 DEF Release
  <2>2. CASE pc'[e] = "completing" /\ result'[e] = result[e]
    BY <1>2, <2>1, <2>2 DEF InFlight
  <2>3. CASE pc'[e] = "done" /\ result'[e] = "withheld"
    BY <1>3, <1>4, <2>1, <2>3
  <2> QED BY <1>8, <2>2, <2>3 DEF Release
<1>9. ASSUME NEW p \in Plans, Invoke(e, p) PROVE Real'
  <2>0. /\ Others /\ UNCHANGED ledgerVars /\ req'[e] = req[e] /\ prep'[e] = p /\ result'[e] = result[e]
        /\ pc[e] = "invoking" /\ pc'[e] = "applied" /\ applied' = applied \cup {e}
        /\ target' = [target EXCEPT ![req[e].intent] = p]
        /\ shown' = shown \cup {<<req[e].intent, p>>} /\ req[e].intent \in Intents
    BY <1>9 DEF Invoke
  <2>1. Onward
    BY <2>0 DEF Onward, Fixed, ledgerVars
  <2>2. RowsReal'
    BY <2>0 DEF Real, RowsReal, SettledShown, SuccessSettled, ConsumedBound, TargetShown, ledgerVars
  <2>3. CallShown(e)'
    BY <2>0 DEF CallShown
  <2>4. Told(e)'
    BY <1>0, <2>0 DEF Told, ByApproval, ledgerVars
  <2>5. Kept(e)'
    BY <1>0, <2>0 DEF Kept, ByApproval, ledgerVars, InFlight
  <2>6. rowState' = rowState /\ applied \subseteq applied'
    BY <2>0 DEF ledgerVars
  <2> QED BY <2>0, <2>1, <2>2, <2>3, <2>4, <2>5, <2>6, RealFrom
<1>10. ASSUME Authorize(e) PROVE Real'
  <2>0. /\ Others /\ UNCHANGED providerVars /\ req'[e] = req[e] /\ pc[e] = "authorizing" /\ prep[e] \in Plans
        /\ auth[e] = NoPlan
    BY <1>0, <1>10 DEF Authorize, CallOK, Unbound
  <2>1. CASE ByApproval(e) /\ MayConsume(e) /\ AuthorizeExecutionPlan(req[e].grant, prep[e])
             /\ pc'[e] = "auditing" /\ result'[e] = result[e]
    <3> DEFINE a == req[e].grant
    <3>1. /\ a \in Rows /\ rowState[a] = "reserved" /\ rowState' = [rowState EXCEPT ![a] = "consumed"]
          /\ rowPlan' = [rowPlan EXCEPT ![a] = prep[e]] /\ UNCHANGED <<rowIntent, settled, shown, target>>
      BY <2>0, <2>1 DEF MayConsume, AuthorizeExecutionPlan, ByApproval, providerVars
    <3> HIDE DEF a
    <3>2. Onward
      BY <3>1 DEF Onward, Fixed
    <3>3. a \notin settled
      BY <3>1 DEF Real, RowsReal, SettledShown
    <3>4. RowsReal'
      <4>1. SettledShown'
        BY <3>1, <3>3 DEF Real, RowsReal, SettledShown
      <4>2. SuccessSettled'
        BY <3>1 DEF Real, RowsReal, SuccessSettled
      <4>3. ConsumedBound'
        BY <2>0, <3>1 DEF Real, RowsReal, ConsumedBound
      <4>4. TargetShown'
        BY <3>1 DEF Real, RowsReal, TargetShown
      <4> QED BY <4>1, <4>2, <4>3, <4>4 DEF RowsReal
    <3>5. CallShown(e)'
      BY <2>1 DEF CallShown
    <3>6. Kept(e)'
      BY <2>0, <3>1 DEF Kept, a
    <3>7. Told(e)'
      BY <1>0, <2>0, <2>1, <3>1, <3>3 DEF Told, ByApproval, a
    <3>8. applied \subseteq applied'
      BY <2>0 DEF providerVars
    <3>9. \A x \in Execs : rowState[req[x].grant] = "consumed" /\ ByApproval(x) => rowState'[req[x].grant] = "consumed"
      BY <3>1 DEF ByApproval
    <3> QED BY <2>0, <3>2, <3>4, <3>5, <3>6, <3>7, <3>8, <3>9, RealFrom
  <2>2. CASE ~ByApproval(e) /\ UNCHANGED ledgerVars /\ pc'[e] = "auditing" /\ result'[e] = result[e]
    <3>1. CallShown(e)' /\ Kept(e)'
      BY <2>0, <2>2 DEF CallShown, Kept, ByApproval
    <3> QED BY <1>1, <2>0, <2>2, <3>1, RealQuiet
  <2>3. CASE UNCHANGED ledgerVars /\ pc'[e] = "done" /\ result'[e] = "denied"
    BY <1>3, <1>4, <2>0, <2>3
  <2> QED BY <1>10, <2>1, <2>2, <2>3 DEF Authorize
<1>11. ASSUME NEW a \in Rows, SettleSuccess(a), rowState[a] = "consumed", a = req[e].grant,
              <<rowIntent[a], rowPlan[a]>> \in shown, rowIntent[a] = req[e].intent,
              Others, UNCHANGED providerVars, req'[e] = req[e], pc'[e] = "done"
       PROVE  Real'
  <2>1. /\ rowState' = [rowState EXCEPT ![a] = "succeeded"] /\ settled' = settled \cup {a}
        /\ UNCHANGED <<rowIntent, rowPlan, shown, target, applied>>
    BY <1>11 DEF SettleSuccess, providerVars
  <2>2. Onward
    BY <2>1 DEF Onward, Fixed
  <2>3. RowsReal'
    <3>1. SettledShown'
      BY <1>11, <2>1 DEF Real, RowsReal, SettledShown
    <3>2. SuccessSettled' /\ ConsumedBound'
      BY <2>1 DEF Real, RowsReal, SuccessSettled, ConsumedBound
    <3>3. TargetShown'
      BY <2>1 DEF Real, RowsReal, TargetShown
    <3> QED BY <3>1, <3>2, <3>3 DEF RowsReal
  <2>4. Told(e)'
    BY <1>11, <2>1 DEF Told
  <2>5. CallShown(e)' /\ Kept(e)'
    BY <1>11 DEF CallShown, Kept, InFlight
  <2>6. \A x \in Execs : rowState[req[x].grant] = "consumed" /\ ByApproval(x) =>
           rowState'[req[x].grant] = "consumed" \/ req[x].grant \in settled'
    BY <2>1 DEF ByApproval
  <2> QED BY <1>11, <2>1, <2>2, <2>3, <2>4, <2>5, <2>6, RealFrom
<1>12. ASSUME Complete(e) PROVE Real'
  <2>0. Others /\ UNCHANGED providerVars /\ req'[e] = req[e] /\ pc[e] = "completing" /\ pc'[e] = "done"
    BY <1>12 DEF Complete
  <2>1. CASE ByApproval(e) /\ rowState[req[e].grant] = "consumed" /\ SettleSuccess(req[e].grant)
    <3>1. /\ req[e].grant \in Rows /\ rowIntent[req[e].grant] = req[e].intent
          /\ rowPlan[req[e].grant] = prep[e] /\ <<req[e].intent, prep[e]>> \in shown
      BY <1>0, <2>0, <2>1 DEF CallOK, RowOK, CallShown, Governed, ByApproval
    <3> QED BY <1>11, <2>0, <2>1, <3>1
  <2>2. CASE UNCHANGED ledgerVars /\ (ByApproval(e) => result'[e] = "lost")
    <3>1. Told(e)'
      BY <2>0, <2>2 DEF Told, ByApproval
    <3> QED BY <1>3, <2>0, <2>2, <3>1
  <2> QED BY <1>12, <2>1, <2>2 DEF Complete
<1>13. ASSUME Reconcile(e) PROVE Real'
  <2>0. /\ Others /\ UNCHANGED providerVars /\ req'[e] = req[e] /\ pc[e] = "matched" /\ pc'[e] = "done"
        /\ req[e].grant \in Rows
    BY <1>13 DEF Reconcile
  <2>1. CASE /\ rowIntent[req[e].grant] = req[e].intent /\ rowState[req[e].grant] = "consumed"
             /\ SettleSuccess(req[e].grant)
    BY <1>0, <1>11, <2>0, <2>1 DEF CallShown
  <2>2. CASE /\ rowIntent[req[e].grant] = req[e].intent /\ rowState[req[e].grant] = "succeeded"
             /\ UNCHANGED ledgerVars
    <3>1. req[e].grant \in settled /\ <<req[e].intent, rowPlan[req[e].grant]>> \in shown
      BY <2>0, <2>2 DEF Real, RowsReal, SuccessSettled, SettledShown
    <3>2. Told(e)'
      BY <2>0, <2>2, <3>1 DEF Told, ledgerVars, providerVars
    <3> QED BY <1>3, <2>0, <2>2, <3>2
  <2>3. CASE UNCHANGED ledgerVars /\ result'[e] = "lost"
    BY <1>3, <1>4, <2>0, <2>3
  <2> QED BY <1>13, <2>1, <2>2, <2>3 DEF Reconcile
<1>14. ASSUME FailExecution(e) PROVE Real'
  <2>0. /\ Others /\ UNCHANGED providerVars /\ req'[e] = req[e] /\ pc[e] = "failing" /\ pc'[e] = "done"
        /\ result'[e] = result[e]
    BY <1>14 DEF FailExecution
  <2>1. CASE ByApproval(e)
    <3> DEFINE a == req[e].grant
    <3>1. a \in Rows /\ Fail(a) /\ auth[e] # NoPlan
      BY <1>0, <1>14, <2>0, <2>1 DEF FailExecution, ByApproval, CallOK, Governed
    <3>2. ASSUME NEW x \in Execs \ {e}, ByApproval(x), pc[x] \in InFlight PROVE req[x].grant # a
      <4>1. auth[x] # NoPlan
        BY <3>2 DEF Core, CallOK, Governed, ByApproval
      <4> QED BY <2>1, <3>1, <3>2, <4>1 DEF Core, Exclusive
    <3> HIDE DEF a
    <3>3. /\ rowState' = [rowState EXCEPT ![a] = IF @ = "consumed" THEN "failed" ELSE @]
          /\ UNCHANGED <<rowIntent, rowPlan, settled, shown, target, applied>>
      BY <2>0, <3>1 DEF Fail, providerVars
    <3>4. Onward
      BY <3>1, <3>3 DEF Onward, Fixed
    <3>5. RowsReal'
      <4>1. SettledShown'
        BY <3>1, <3>3 DEF Real, RowsReal, SettledShown
      <4>2. SuccessSettled' /\ ConsumedBound'
        BY <3>1, <3>3 DEF Real, RowsReal, SuccessSettled, ConsumedBound
      <4>3. TargetShown'
        BY <3>3 DEF Real, RowsReal, TargetShown
      <4> QED BY <4>1, <4>2, <4>3 DEF RowsReal
    <3>6. Told(e)'
      BY <1>0, <2>0, <3>3 DEF Told, ByApproval
    <3>7. CallShown(e)' /\ Kept(e)'
      BY <2>0 DEF CallShown, Kept, InFlight
    <3>8. \A x \in Execs \ {e} : ByApproval(x) /\ pc[x] \in InFlight /\ rowState[req[x].grant] = "consumed" =>
             rowState'[req[x].grant] = "consumed" \/ req[x].grant \in settled'
      BY <3>2, <3>3 DEF ByApproval
    <3> QED BY <2>0, <3>3, <3>4, <3>5, <3>6, <3>7, <3>8, RealFrom
  <2>2. CASE ~ByApproval(e)
    <3>1. UNCHANGED <<ledgerVars, providerVars>>
      BY <1>14, <2>0, <2>2 DEF FailExecution
    <3> QED BY <1>1, <1>3, <2>0, <3>1
  <2> QED BY <2>1, <2>2
<1> QED BY <1>5, <1>6, <1>7, <1>8, <1>9, <1>10, <1>12, <1>13, <1>14

(* The ledger's other writers: a reservation replaces no consumed row and  *)
(* reuses no id, time and foreign edits only add to what was shown.        *)
LEMMA RealOutside ==
  ASSUME TypeOK, Core, Real,
         \/ Reserve \/ Tick
         \/ \E r \in Recoveries, d \in Dispositions : RecordRecovery(r, d)
         \/ \E i \in Reconcilable, p \in Plans : ForeignEdit(i, p)
         \/ UNCHANGED vars
  PROVE  Real'
<1> USE DEF TypeOK, LedgerTypeOK
<1>1. UNCHANGED <<pc, req, prep, result, applied, rowPlan, settled>>
  BY DEF Reserve, ReserveApproval, ReserveApprovedPlanStep, Tick, Elapse, RecordRecovery, ForeignEdit,
         vars, ledgerVars, execVars, providerVars
<1>2. ASSUME Onward, RowsReal',
             \A a \in Rows : rowState[a] = "consumed" => rowState'[a] = "consumed"
      PROVE  Real'
  <2>1. ASSUME NEW x \in Execs PROVE CallShown(x)' /\ Told(x)' /\ Kept(x)'
    <3>1. CallShown(x)'
      BY <1>1, <1>2, OnwardCalls
    <3>2. Told(x)'
      BY <1>1, <1>2, OnwardCalls DEF Told, ByApproval
    <3>3. Kept(x)'
      BY <1>1, <1>2 DEF Real, InFlightKept, Kept, ByApproval
    <3> QED BY <3>1, <3>2, <3>3
  <2>2. SuccessIsReal' /\ InFlightKept'
    BY <2>1 DEF SuccessIsReal, InFlightKept, Told, Kept
  <2> QED BY <1>2, <2>1, <2>2 DEF Real
<1>3. CASE Reserve
  <2>0. UNCHANGED <<target, shown>>
    BY <1>3 DEF Reserve, providerVars
  <2>1. ASSUME NEW i \in Intents, NEW b \in Approvals, ReserveApproval(i, b) PROVE Real'
    <3>1. /\ rowState[b] = "unminted" /\ b \in Rows
          /\ \A a \in Rows : a # b => rowIntent'[a] = rowIntent[a]
          /\ \A a \in Rows : a # b => rowState'[a] = rowState[a] \/ (rowState'[a] = "deleted" /\ rowState[a] # "consumed")
          /\ rowState'[b] = "reserved"
      BY <2>1 DEF ReserveApproval, ActionRows, Replaceable, Rows
    <3>2. Onward
      BY <1>1, <2>0, <3>1 DEF Onward, Fixed
    <3>3. b \notin settled
      BY <3>1 DEF Real, RowsReal, SettledShown
    <3>4. RowsReal'
      BY <1>1, <2>0, <3>1, <3>3 DEF Real, RowsReal, SettledShown, SuccessSettled, ConsumedBound, TargetShown
    <3> QED BY <1>2, <3>1, <3>2, <3>4
  <2>2. ASSUME NEW s \in PlanSteps, NEW i \in Intents, NEW life \in 1 .. TTL,
               ReserveApprovedPlanStep(s, i, life)
        PROVE  Real'
    <3>1. /\ rowState[s] = "unminted" /\ s \in Rows
          /\ \A a \in Rows : a # s => rowIntent'[a] = rowIntent[a] /\ rowState'[a] = rowState[a]
          /\ rowState'[s] = "reserved"
      BY <2>2 DEF ReserveApprovedPlanStep, Rows
    <3>2. Onward
      BY <1>1, <2>0, <3>1 DEF Onward, Fixed
    <3>3. s \notin settled
      BY <3>1 DEF Real, RowsReal, SettledShown
    <3>4. RowsReal'
      BY <1>1, <2>0, <3>1, <3>3 DEF Real, RowsReal, SettledShown, SuccessSettled, ConsumedBound, TargetShown
    <3> QED BY <1>2, <3>1, <3>2, <3>4
  <2> QED BY <1>3, <2>1, <2>2 DEF Reserve
<1>4. CASE UNCHANGED <<rowState, rowIntent, target, shown>>
  <2>1. Onward
    BY <1>1, <1>4 DEF Onward, Fixed
  <2>2. RowsReal'
    BY <1>1, <1>4 DEF Real, RowsReal, SettledShown, SuccessSettled, ConsumedBound, TargetShown
  <2> QED BY <1>2, <1>4, <2>1, <2>2
<1>5. ASSUME NEW i \in Reconcilable, NEW p \in Plans, ForeignEdit(i, p) PROVE Real'
  <2>0. /\ UNCHANGED <<rowState, rowIntent>> /\ target' = [target EXCEPT ![i] = p]
        /\ shown' = shown \cup {<<i, p>>} /\ i \in Intents
    BY <1>5, ExecutionAssumption DEF ForeignEdit, ledgerVars
  <2>1. Onward
    BY <1>1, <2>0 DEF Onward, Fixed
  <2>2. RowsReal'
    BY <1>1, <2>0 DEF Real, RowsReal, SettledShown, SuccessSettled, ConsumedBound, TargetShown
  <2> QED BY <1>2, <2>0, <2>1, <2>2
<1> QED BY <1>3, <1>4, <1>5 DEF Tick, Elapse, RecordRecovery, vars, ledgerVars, execVars, providerVars

\* The invariant of reported outcomes holds always.
LEMMA RealAlways == Spec => [](TypeOK /\ Core /\ Real)
<1>1. TypeOK /\ Core /\ Real /\ [Next]_vars => Real'
  <2> SUFFICES ASSUME TypeOK, Core, Real, [Next]_vars PROVE Real'
    OBVIOUS
  <2>1. ASSUME NEW e \in Execs, Step(e) PROVE Real'
    BY <2>1, RealQuietSteps, RealBoundSteps DEF Step
  <2> QED BY <2>1, RealOutside DEF Next
<1> QED BY <1>1, RealInit, TypeInit, TypeStep, CoreInit, CoreStep, PTL DEF Spec

(* A caller told of success, by execution, replay or reconciliation, holds *)
(* a settled approval of its own intent whose plan the provider has shown, *)
(* whether or not providers lose answers (complete, check_intent,          *)
(* reconcile_consumed_success).                                            *)
THEOREM ReportedSuccessIsReal == Spec => []SuccessIsReal
<1>1. Real => SuccessIsReal
  BY DEF Real
<1> QED BY <1>1, RealAlways, PTL

(* From verification to its report an execution keeps its claim: nobody    *)
(* fails or replaces its row before the plan was seen at the provider      *)
(* (verify_execution_plan, fail, reserve_approval).                        *)
THEOREM ClaimsAreHeldInFlight == Spec => []ClaimHeldInFlight
<1>1. TypeOK /\ Core /\ Real => ClaimHeldInFlight
  <2> SUFFICES ASSUME TypeOK, Core, Real, NEW e \in Execs, ByApproval(e),
                      pc[e] \in {"invoking", "applied", "releasing", "completing"},
                      rowState[req[e].grant] # "consumed"
               PROVE  req[e].grant \in settled /\ <<req[e].intent, auth[e]>> \in shown
    BY DEF ClaimHeldInFlight
  <2>1. req[e].grant \in settled
    BY DEF Real, InFlightKept, InFlight
  <2>2. auth[e] # NoPlan
    BY DEF Core, CallOK, Governed, ByApproval, InFlight
  <2>3. rowPlan[req[e].grant] = auth[e] /\ rowIntent[req[e].grant] = req[e].intent
    BY <2>2 DEF Core, RowOK
  <2> QED BY <2>1, <2>3 DEF Real, RowsReal, SettledShown
<1> QED BY <1>1, RealAlways, PTL
=============================================================================
