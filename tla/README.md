# Project Jason: TLA+ models, checks and proofs

Project Jason is a governed operations assistant: requests from people and from
autonomous workers become *mutations* at outside providers (tickets, devices,
mail), production managers run the engineering work on Jason itself, a queue
integrates that work into protected main, and a release manager brings main into
production. What makes it trustworthy is that authority is used once, for exactly
what was approved, that work survives crashes without being lost or done twice,
and that production, the owner's freeze and the records of both agree. This
directory models those cores, checks them with TLC on small instances, and proves
their safety properties for every size with TLAPS.

## 1. Inventory

| part | state | operations | talks to | hard behaviour |
|---|---|---|---|---|
| governed execution ledger (`orchestrator/governed_execution_ledger.py`) | SQLite rows: approval or plan step, intent, plan fingerprint, status, expiry | reserve, reserve plan step, check, authorize plan (consume), verify, complete, fail, reconcile | orchestrator, autonomy worker | two executions over one row, expiry in flight, crash after consumption |
| central orchestrator (`orchestrator/service.py`) | the call in progress | resolve, check intent, prepare, authorize, audit, prepare again, verify, invoke, release, complete or fail | ledger, providers, audit sink | the provider's object moves between the two preparations; an answer is lost |
| approval continuation and recovery (`approval_continuation*.py`, `approval_recovery*.py`) | one-time claims, immutable recovery records | claim, execute, record | orchestrator | two callers of one claim, crash between claim and call |
| autonomy worker readback (`autonomy_worker_runtime.py`) | none | compare the provider's object, reconcile | ledger, provider | foreign edits, an execution that still reports |
| Production Manager V2 (`tools/pm_v2`) | SQLite tables: assignments, idempotency, validation checks; control inbox files; thread pool | owner controls, roadmap intake, bridge reconciliation, reap, lease release, dispatch; worker `_run`; operator `sync` | roadmap, release bridge files, worker subprocesses, owner | read-then-write of rows, leases and timeouts, crash, exceptions, stale listings |
| V3 integration queue (`pmv3_integration_queue.py`) | one state file: train, release lock; GitHub's gate status per head | a pass: lock or unlock, choose a train, gate, update, merge one, recover a release, save | GitHub, release manager's readback, engineering controller | crash between merge and save, heads that move, stale gates, a lock nobody releases |
| V3 work engine and scheduler (`pmv3_work_engine.py`, `pmv3_scheduler.py`) | one state file: items, receipts; input files | a cycle: admit, approve, recover, recheck, select, claim, run, save | handler, Teams approvals, fact files | crash in a handler call, decisions that change, retries that come back |
| release manager (`release_manager_host_runner.py`, `release_control_transition_worker.py`, `release_host_reconcile_worker.py`) | release records, freeze marker and receipts, production lock, request files; root's breaker and last known good | prepare, approve, unfreeze, deploy, verify, close, undo, roll back, restore a freeze | root workers, host services, engineering worker, owner | kill at any step, answers after the deadline, one of five surfaces failing |
| release approval consumer, bridges (`tools/release_*`) | approvals bound to a SHA | consume, coordinate | Teams, release manager | lost hand-over |
| self-heal watchdog, boot recovery | attempt counters | observe, restart, back off | systemd | bounded restarts |
| conversation, evidence, kernel registries, connectors, MCP service, CLI, cap-00x | caches and registries | reads and wording | providers, models | little protocol state |

What makes each correct: the ledger, one effect per grant and the effect is the
authorized one; the orchestrator, no repeat of an action whose outcome is not
known and no success that is not real; the continuation and the recovery retry,
at most one execution per claim; the production manager, one worker per
assignment, no unapproved work, stops that stop, completion only with evidence,
and no work stranded; the integration queue, at most one train of disjoint changes
past what production accepted, but for what is pushed to them meanwhile, and no
merge past a lock; the work engine, no blind
repetition and no starvation; the release manager, an owner's freeze that nothing
but a one-release lift opens and that always comes back, and records, breaker and
last known good that say what production is. PROJECT.json lists every part with its status, and the
places where each can go wrong under `hazards`.

## 2. Modules

* `GovernedLedger` - the rows of the ledger, as functions from row to field, and
  the transactions on them. A row is named by the approval or plan step it holds.
* `GovernedExecution` - extends the ledger with concurrent calls of
  `CentralOrchestrator.execute` (`pc`, `req`, `prep`, `auth`, `result`), the
  one-time claims of continuations and recovery retries, the audit log and the
  provider's objects. A call is split where the code ends a transaction, calls
  out, or may die. `Crash` is a death anywhere, or an exception no handler
  catches. `RaisesAfterEffect` says whether a provider call may take effect and
  then raise. `Resolve` and `Refuse` stand for policy, capability and role
  resolution, which only decide whether a call goes on.
* `SingleUseGrant` - the abstract promise: a grant is bound once, to one
  execution and one plan, and only a binding becomes an effect.
  `GovernedExecution!ImplementsSingleUseGrant` is the refinement.
* `GovernedExecutionProofs` - the theorems about the two.
* `ProductionManager` - Production Manager V2. `rows` is the assignments table;
  `Updated`, `Upserted`, `Controlled`, `Released` and `Claimed` are the store's
  UPDATE statements, with the WHERE clauses they have and no others. `loop` walks
  through the service's cycle: controls, roadmap intake, bridge, reap, lease
  release, dispatch. `view` is what a pass listed before it writes. `workers` are
  the threads of the pool, in the steps start, exec, read, write; reading the
  owner's wishes and writing the outcome are two transactions, as in `_run`. The
  operator's `sync` is the process `"cli"`. Leases and retry times, due times in the
  code, are kept as the ticks that remain. `validated` is what the table of checks
  says of an assignment: none, some passed, all passed, or `overtaken`, some passed
  since another process, still to write, had found all passed. `Edits` says what of
  the roadmap the owner may edit in an instance.
* `LeasedWork` - the abstract promise of its launches: only texts with authority,
  one attempt at a time for an assignment, and numbers that only go up, so that no
  attempt is ever launched twice. Table, leases, retries, controls and crashes are
  not in it. `ProductionManager!ImplementsLeasedWork` is the refinement: what was
  launched is the recorded idempotency keys, what runs is the threads past their
  start.
* `ReleaseManager` - release records (`recs`), the freeze marker, its backup and
  the receipts (`ticket`, `lift`, `rlift`), the process that holds the production
  lock (`txn`, with one `pc` per step of `_deploy_production_locked` and
  `rollback_closed_release`), the five surfaces (`live`), root's state (`lkg`,
  `breaker`) and the request files that outlive their waiters (`reqs`, `hostq`).
  The root workers check and commit in two steps, as `apply_transition` does; the
  approval policy they record is the one in the manifest captured at the check. A
  deployment leaves the admission gate after its freeze is back, a rollback before
  (`Ungate`). Staging the policy (backup, save, write) is one step. `stray` remembers
  that the host was last touched by a job whose waiter had given up.
  `eng` is systemd's view of the engineering worker, whose ExecCondition is
  `EngGate`. `Kill` and `Reboot` strike between any two steps.
* `IntegrationQueue` - one pass of `reconcile` in the steps of its API calls (`q`),
  the state file (`store`), and GitHub's pull requests (`pr`) with the gate, the
  checks and the mergeability of their present head. The train a pass chooses is
  described by what it is (`Trains`: urgent ones first, disjoint, full or complete)
  and compared with the loop of `select_train` (`SelectTrain`, over `InOrder`). A push
  makes a new head, without statuses and perhaps with other files (`Changes`); the
  files are looked at when a train is chosen, as in the code, and the merge takes the
  head of the moment. Checks pass or fail, and GitHub may find a pull request clean,
  behind, in conflict, or blocked for a reason the queue does not ask about, in which
  case the merge call raises. Developers, branch protection
  and production act between any two calls. `Abort` is an API error, a lost answer
  or a death: nothing of the pass is saved but a recovery's checkpoint.
* `WorkEngine` - the state file (`disk`), its copy in the process (`mem`), and a
  cycle whose checkpoints copy the one to the other. The handler is a parameter
  of the engine and is modelled by its contract: complete, or a receipt, means that
  the action took effect; an interrupted call may have taken effect. Of the free
  text of a reason only the class that `classify_reason` finds is kept, and of
  `updated_at` only the order. `late` remembers the decisions that changed after the
  cycle under way had read their file. Decisions are well formed: one for an unknown
  item or a mismatched request raises and ends a cycle before it has done anything.
* `ReconciledAction` - the abstract promise of the engine: one call is out at a
  time; a lost call leaves its action unsure, and only what may be repeated, or was
  reconciled, is open again; what is done or failed for good never is. State file,
  cycles, approvals and kills are not in it. `WorkEngine!ImplementsReconciledAction`
  is the refinement: where an action stands (`Standing`) is read off the state file
  and the handler call under way.
* `ProductionManagerProofs`, `ReleaseManagerProofs`, `IntegrationQueueProofs`,
  `TrainSelectionProofs`, `WorkEngineProofs` - the theorems about each (section 5).
* `MCGovernedExecution`, `MCProductionManager`, `MCIntegrationQueue`,
  `MCWorkEngine` - the instances for TLC; `ReleaseManager` needs none.

The last three meet in two places: production's acceptance (`Accept` of the queue)
is the release manager's commit of a last known good revision, and the controller
that runs the queue and the engineering work is the worker the release manager
excludes. Each model has the other's part as an environment that may act at any
time, which allows more than the composition would.

Definitions named *Mutant* in a comment are plausible bugs; PROJECT.json pairs
each property with one that breaks it. They are not used by the specifications.

## 3. Runs

| run | asks | result |
|---|---|---|
| `governed_approvals` | three executions, two approvals of one action, expiry, crash, replay, readback reconciliation, foreign edits | types, `SingleUse`, `EffectMatchesAuthorization`, `NoBlindRepeat`, `ClaimHeldInFlight`, `SuccessIsReal` hold |
| `governed_grants` | plan steps, continuations, recovery retries, plain calls, lost answers | `EffectMatchesAuthorization` holds, the abstract grant is implemented |
| `lost_answer_repeat` | a provider call that takes effect and then raises | `NoBlindRepeat` is violated |
| `pm_progress` | two slots, edits, lease expiry, a crash or stop, an escaped exception, a pause or a cancellation, fairness | types, `OneWorkerPerAssignment`, `FreshDispatch`, `RetryBudget`, `WorkMovesOn`, `RequestsAreServed` hold, the abstract leased work is implemented |
| `pm_release` | releases said to be complete, changing evidence, `sync` beside the service, a crash, owner stops | `StoppedStaysStopped`, `CompletionIsVerified` hold |
| `pm_authority` | edited roadmap texts, bridge phases that block or go on, `sync` beside the service, pause and resume | `AuthorizedWorkOnly` holds |
| `pm_cancel_lost` | a cancellation against a worker that is finishing | `CancelHonoured` is violated |
| `release_transactions` | a release deployed, frozen, unfrozen and rolled back, one failure, deadline, kill or reboot anywhere, one start of the engineering worker | types, `FreezeRecoverable`, `FreezeHeld`, `FreezeReturns`, `BreakerGuards`, `RestoredWhenRolledBack`, `PolicyRestored`, `ClosedWasGood`, `Exclusion` hold |
| `release_freeze_lost` | a rollback of an accepted release that is killed | `FreezeAlwaysRecoverable` is violated |
| `integration_queue` | three pull requests with red, blocked and conflicting heads, one move of a developer, main or production beyond the ordinary ones, one lost pass or readback | types, `OneTrainAhead`, `DisjointAhead`, `OneGate`, `GateShutUnderLock`, `TrainIsGreedy`, `QueueMoves` hold |
| `queue_lock_stuck` | main moves past the locked candidate and production follows | `VerifiedUnlocks` is violated |
| `work_engine` | two items, every answer of the handler, changing approvals and facts, one kill | types, `NoBlindRerun`, `CompleteIsReal`, `DeniedStaysOff`, `NoStarvation` hold, the abstract reconciled action is implemented |

The runs that pass visit between 370,000 and 6.9 million distinct states, in one
to four minutes each with two workers.

`CompletionIsVerified` is about the step that completes a row: the checks are all
recorded as passed, or they were until another process recorded newer results. The
exception is what two processes over one table can do (section 4); that a stale
listing, a crash between the records and the row, a worker or a control completes a
row nobody verified is excluded.

`RequestsAreServed` starts from a stop that was asked while a thread has yet to read
its row and ends in `paused` or `cancelled`. It excepts what the code excepts: the
thread raises, the service goes down, or an intake or bridge pass overwrites the
request (which does not happen in its run, where the bridge is silent). A request
after the read is not its subject; that one is lost, as `pm_cancel_lost` shows.

`DisjointAhead` says that what two merges past production have in common was added
to one of them by a push after `select_train` had compared their files. Without that
exception it is violated: the queue does not compare again.

`QueueMoves` says that the queue drains again and again while production accepts
what was merged: every admitted pull request is merged or closed, meets a conflict,
or is itself red or blocked. It names what stops it: a red or blocked pull request
at the head of the stored train, which the queue holds like one whose checks are
pending; a more urgent blocked one, whose merge call ends every pass; a superseded
lock. Each of the three is needed: TLC finds a violation without it.

`DeniedStaysOff` compares with the decision in the file at the moment of the
handler call, and excepts decisions that came after the cycle's one look at it.

`BreakerGuards` is about runtime, MCP, manager and approval policy, and about the
host unless `stray`: a host job that its waiter gave up on may run after a
revalidation, and then the breaker is closed over a host that is elsewhere. With one
mishap TLC finds no such case, with two it does.

`ClaimHeldInFlight` allows for reconciliation: a readback may settle a row whose
execution is still under way, but only after it saw the bound plan at the
provider, and `SuccessIsReal` is what must hold then.

`RestoredWhenRolledBack` claims the host only for a release that had asked for it:
a host job that an earlier release left in the queue may run after the record is
written, and this release's undoing does not look. `PolicyRestored`, the same of the
approval policy, is stated for one mishap. With four it is false: a release fails,
the restore of its policy fails, the request to open the breaker is not served before
its deadline, and the next release, which starts from the policy that was left behind
and makes it its backup, fails in turn and restores it.

Bounds. Two approvals of one action and three executions are the least in which a
row expires, is replaced and its old holder is still running. `TTL` is one tick:
only "expired or not" is compared. Two plans and two intents distinguish the
authorized plan from any other. In the manager one assignment and two slots show
every conflict over a row, since rows interact only through slots and priority;
one text and no edits suffice where the question is about completion and stops
(`pm_release`), and two texts are what authority needs (`pm_authority`); one crash, one exception and one or two owner requests are named in the
configurations (`MaxCrashes`, `MaxRaises`, `MaxRequests`), and attempts are
bounded by them. `Timeout` and `Margin` are one tick and `Slack` none: the
relations matter (see below), not the seconds. With a margin of two
ticks and a slack of one, where a thread can be late and its lease runs down while
it starts and while it reports, the refinement was checked as well (1.4
million states, not kept as a run); the theorems cover every such choice. One candidate beyond the baseline
suffices for the release manager, whose transactions exclude each other: two
transactions deploy it and roll it back, or deploy it twice, and one mishap is
enough to leave every intermediate state behind for the second. In the queue pull
requests 1 and 2 touch the same file, 2 falls behind whenever main moves, 1 may
meet a conflict or be blocked, a push to it may add the file of 3, any check may
fail, and 3 recovers a release, so a train of two, a train that comes to overlap, a
skipped and a waiting pull request and a recovery all occur. In the work engine item 1 is
idempotent and free, item 2 is neither, both are equally urgent, and the capacity
of a cycle is one or two.

Deadlock. The governed runs have finitely many executions and end when all have
reported; the release manager and the queue, with bounded transactions, moves and
faults, may stop too when nothing is left to release or to merge. Deadlock is not
checked there. The V2 service and the V3 scheduler loop for ever, and it is checked
in their runs.

Time in the manager. A lease lasts max(lease_seconds, timeout + 30). A tick is
refused while a subprocess is at its timeout (it is killed then) or a thread has
used up `Slack` outside its subprocess. `OneWorkerPerAssignment` needs
`Slack < Margin`, that is, less than 30 seconds of bookkeeping; at equality, which
is reachable because each store call may wait 30 seconds for the database, it fails
(section 4). Time is also assumed not to pass between the
reaping and the lease release of one cycle, two adjacent statements of the loop.

Fairness. In the manager (`FairSpec`), weak fairness of the service's steps and restart (systemd
restarts it), and of each pool thread: a subprocess is killed at its timeout, so
its thread goes on. Strong fairness of `Tick`, because time passes although each
cycle has an instant at which the model stops it. Nothing is assumed of the
owner, the roadmap, the bridge, crashes or exceptions. In the release manager, weak
fairness of the steps of a transaction under way and of the root workers, systemd
services that poll; nobody has to start a transaction. In the queue, weak fairness
of the steps of a pass (a timer starts the next one), of CI reporting, passed or
failed, of GitHub's own computation, whatever it finds, and of production accepting
main: the queue is made to wait for it,
so its progress can only be promised if releases succeed. In the work engine, weak
fairness of the steps of a cycle (a timer, and handlers that return) and of the
clock.

## 4. Disagreements between the code and its documents

Kept as runs, with the quotes in PROJECT.json `findings`: an answer lost after
the effect is recorded as a failure and the action is repeated; a cancellation
between a worker's read and its write is overwritten; a killed rollback of an
accepted release loses the owner's freeze; a release lock whose candidate was
superseded is never released.

Seen with the same models and not kept as runs, since they need no interleaving,
are milder, or follow from one step:

* V2 manager: a stop requested when the service crashes stays requested for ever,
  since lease recovery only looks at `running` rows (`store.py:403`); a worker that
  raises is dispatched again without delay and beyond `max_attempts`
  (`scheduler.py:43`); a worker delayed as long as the lease's margin still runs its
  subprocess when the lease is reclaimed (`scheduler.py:71`); the bridge moves
  cancelled rows to `in_progress` (`release_sync.py:229`); the intake resets the
  owner's priority of a queued row in the same cycle (`store.py:228`); a control is
  applied again after a crash before its result file (`control.py:126`); a raised
  worker is dispatched again under a text the same cycle found changed
  (`scheduler.py:44`); with `sync` beside the service, one process completes a row
  from checks that the other has recorded anew as failed since
  (`release_sync.py:173`), the exception of `CompletionIsVerified`.
* Release manager: `prepare_release` asks root to revalidate without the lock
  (`:6597`), so root may close the breaker that a rollback of an accepted release
  has just opened, and the rollback may then fail with the breaker closed, while
  `docs/operations/PMV3-Minimal-Production-Release.md:11` asks to verify rollback
  before clearing the breaker; the owner's unfreeze saves the record it read
  (`:5895`) and can turn a closed or rolled-back record eligible again; a kill after
  the policy was staged makes it the next release's baseline (`:1144`), and a kill
  under the admission gate blocks promotions until a reboot (`:6094`).
* Queue: a lock that begins while a recovery pull request waits for its checks only
  shuts that one's gate (`:518`). A gate that a lost pass had opened for an ordinary
  pull request stays open, and anybody can merge it under the stored lock, while the
  comment at `:478` says "Recovery PRs are the only integration allowed while a
  release lock is active". `GateShutUnderLock` is therefore stated from the first
  pass that shut all gates. A merge that GitHub keeps refusing raises in every pass
  (`:300`), and a required check that failed at the head of the stored train holds the
  queue until somebody pushes or reruns it (`:599`). A push after the selection can
  make a train overlap (`:362` compares once, `:571-607` merge the head of the moment),
  while `docs/engineering/PMV3-Work-Engine.md:121` says that the queue "batches only
  PRs whose changed-file sets do not overlap".
* Work engine: a denial that arrives while a cycle is under way does not keep its work
  from running in that cycle (`pmv3_scheduler.py:143` reads once), while
  `docs/engineering/PMV3-Work-Engine.md:47` says "Teams Deny leaves the work
  non-runnable"; an exhausted retry whose reason reads like a transport failure is
  runnable again in the next cycle, without backoff and beyond `max_attempts`
  (`pmv3_work_engine.py:265` and `:328`); `reconciliation_required` is one fact for
  all items, so a standing fact releases actions interrupted later (`:370`).

## 5. Proofs

Every safety property that a passing run checks is also proved, the three
refinements included, except `PolicyRestored` (see the end of this section). The theorems hold for any sets of executions,
assignments, pull requests, items and revisions and for any bounds on faults, from
the named assumptions on the constants (`...Assumption`), which TLC evaluates on every
run; the few further hypotheses are stated in the theorems and given below. Each
proof has one step per action. None of the properties is inductive as it stands;
the inductive invariants were first checked with TLC.

`GovernedExecutionProofs`

* `TypeCorrect` - `Spec => []TypeOK`.
* `GrantsAreSingleUse`, `EffectsAreAuthorized` - from `Core`: `CallOK` ties each
  position of a call to its plans and its effect, `RowOK` says that the row of a
  bound approval has left `reserved` for good and carries the call's plan and
  intent, `ClaimOK` that an external grant was claimed, and `Exclusive` that two
  calls never share what is single use. `SingleUse` alone says nothing of a call
  about to apply its effect.
* `NoActionIsRepeatedBlindly` - for providers whose exceptions mean no effect.
  It adds `OneRowPerAction` (the UNIQUE fingerprint), `ClaimKept` (the row of an
  execution under way or with an effect stays consumed unless its success is
  recorded) and `FailingIsClean`. Without the hypothesis it is false, as
  `lost_answer_repeat` shows.
* `ReportedSuccessIsReal`, `ClaimsAreHeldInFlight` - without that hypothesis, from
  `Real`: a settled row, a success or a consumed row that is bound names a plan the
  provider has shown or is about to show, and the row of a call in flight is kept.
* `ImplementsGrant` - the refinement: initial states map to initial states, and
  each step to a binding, an effect or a stutter, from `Core`.

`ProductionManagerProofs`

* `TypeCorrect` - with `RowsKnown`: what a thread or a listing names is a row that
  exists, and what a pause goes back to is a state a row can be paused in.
* `OneWorker` - when `Slack < Margin`, that is, a thread's own steps take less than
  the 30 seconds by which a lease outlives the timeout. `OwnInv`: no two threads have
  one assignment; the row of a thread is in no state from which it could be handed
  out again; and while it is running, lease, run time and lateness add up to at
  least the whole lease, so it cannot expire under the thread.
* `OnlyAuthorizedWork` (`Slack < Margin`) - from `OwnInv` and `AuthorityInv`: a row
  that can get a worker is authorized, a paused row that would go back to such a
  state as well, and a thread has the text its row had when it was claimed.
* `RetriesAreBounded` (`Slack < Margin`) - from `OwnInv`: only the thread that has
  the assignment writes its outcome.
* `StopsHold` - from `StopInv`: what was stopped while idle has no thread and is in a
  state that only a resume leaves for the queue.
* `KeysAreFresh` - from `KeyInv`: attempts are numbered, keys used and threads about
  to use one bear numbers up to the row's, and no two such threads the same.
* `CompletionsAreVerified` - for any processes, from `EvidenceInv`: what a listing
  holds as verified is still recorded as passed, or was overtaken by another process.
* `ImplementsPromise` (`Slack < Margin`) - the refinement of `LeasedWork`: each step
  maps to a launch, an end, the loss of all threads or a stutter. It needs `OwnInv`
  and `AuthorityInv` for a launch to be alone and authorized, and, beyond `KeyInv`,
  `NumberInv`: while a thread is about to launch, no key of its assignment bears its
  number or a higher one. Freshness alone would allow an old number to come back.

`ReleaseManagerProofs`

* `TypeCorrect` - with `TxnOK`: where a transaction has made its backups, and of which
  revision it may be.
* `FreezeIsRecoverable`, `FreezeIsHeld`, `WorkerExcluded` - from `LiftInv`. The freeze
  may be missing while nobody holds the lock only if a receipt is unfinished:
  `FreezeInv` follows receipt, marker and activation step by step, with `FlowInv`
  saying which kind of transaction is where; `ExclusionInv` says that an engineering
  worker that was admitted sees no transaction beyond its first steps.
* `ClosedReleasesAreGood`, `RolledBackMeansRestored` - from `GoodInv`. What is at a
  surface can change under a transaction only through requests that outlive their
  waiters, so `WaitInv` says which requests are waited for, and that the host request
  waited for is behind all others; `DeployInv` and `UndoInv` then give each place what
  is known of the surfaces there, `RootAt` of what root has recorded and is about to.
* `BreakerMeansConverged` - from `BreakerInv`: outside the places from which surfaces
  may still be moved (`Moving`), production and its policy are at the last known good
  (`RunsAt`, the host unless it strayed), or the breaker
  is open, or a request to open it is pending, and what root has accepted but not yet
  written does not undo that. A host job that ends outside those places is one nobody
  waits for (`WaitInv`). Kills and rollbacks of accepted releases are excepted in
  the property, since the code does leave the breaker closed then (section 4).

`IntegrationQueueProofs`

* `TypeCorrect` - with `Control`: what each position says of train, lock and current
  pull request. A locked pass has no train.
* `OneGateAtATime` - from `GateInv`: during a sweep every open gate is either still to
  be shut, at the head that was listed, or that of the current pull request. A head
  the pass does not know has no gate, as a push drops it.
* `LockShutsTheGates` - adds `HoldInv`: after the gates were shut under a stored lock,
  every pass has the lock until one finds its candidate accepted, and a locked pass
  opens only gates of recovery pull requests.
* `OneTrainAtATime`, `AheadIsDisjoint` - from `AheadInv` and `ApartInv`: the pull
  requests that are ahead, together with those of the stored train, or of the train
  under way, are no more than one train holds, and disjoint in the files that were
  compared. A merge moves one from the train to
  those ahead. A new train is chosen only by a pass that read main and afterwards found
  production there, and then nothing is ahead; the order of the two reads matters.

`TrainSelectionProofs`

* `LoopSelectsTheTrain` - `Trains = {SelectTrain}` in every state, a theorem about the
  operators alone: for any pull requests, recoveries, files and batch size the loop
  returns a train, and two trains are equal. The loop is a fold; what it has done
  after each candidate is shown by induction, and so is that two trains agree at
  every place. Both inductions go by the least place at which the claim would fail,
  since the library's induction rules cannot be instantiated here.

`WorkEngineProofs`

* `TypeCorrect` - with `ControlOK`: what is selected is runnable, the item of a handler
  call is running on disk.
* `CompletionIsReal` - the same of the copy in memory (`RealInv`).
* `NothingIsRerunBlindly` - from `OnceInv`: an unreconciled action that may not be
  repeated took effect once at most, and then both copies of the state bar it:
  running, complete, waiting for a reconciliation, or with a receipt.
* `DenialsStopWork` - from `ApprovalInv`: what a cycle has selected is approved in the
  file, or its decision came after the cycle's look.
* `ImplementsPromise` - the refinement of `ReconciledAction`. Where an action stands is
  read off the state file, while a cycle decides on its copy in memory; `SaveInv` says
  how far the two may differ: receipts agree, between two items memory has reopened
  only what may be, and nothing done or failed for good; work with a receipt waits
  for no reconciliation; during a call nothing else is running. A save then maps to a
  reopening, a claim to a reopening and a call at once, a kill in a call to its loss.

Only model-checked:

* liveness (`WorkMovesOn`, `RequestsAreServed`, `FreezeReturns`, `QueueMoves`,
  `NoStarvation`), out of the prover's reach;
* `PolicyRestored`, which is stated for one mishap (section 3);
* the four properties that the code violates.

Facts about numbers and sequences that need induction (a non-empty set of numbers
has a least element, a train has no more members than its length) are derived from
the library's theorems on finite sets.

## 6. Not modelled, and the plan

Left out for good: language-model interpretation, wording, provider clients, the
contents of images and manifests, one-shot operator tools. The repository has some
227,000 lines, most of them of that kind; the models cover the parts whose state
is shared between processes or survives a crash. Next, in this order:

1. the composition of queue and release manager, the release approval consumer
   (approval bound to a SHA), the V2 manager's periodic components with an abstract
   lease specification, the approvals and plan grants that feed the ledger;
2. the self-heal watchdog's bounded restarts, client boundaries as pure operators,
   the evidence cache's staleness.
