-------------------------- MODULE ProductionManager --------------------------
(***************************************************************************)
(* The Production Manager V2 (src/tools/pm_v2): a durable table of         *)
(* assignments, a service loop that takes in owner controls, the roadmap   *)
(* and the release bridge and then dispatches leased worker threads, the   *)
(* worker threads themselves, and the operator's `sync` command, which     *)
(* reconciles the same table from another process.                         *)
(*                                                                         *)
(* One action is one store transaction together with the thread-local      *)
(* code around it.  Time is relative: a lease and a retry delay are the    *)
(* ticks that are left of them.  What no decision of the code reads        *)
(* (titles, percentages, events, health rows) is left out.                 *)
(***************************************************************************)
EXTENDS Integers, Sequences, FiniteSets

CONSTANTS
    Assignments,    \* the roadmap items
    Scopes,         \* the texts a roadmap section can have (by scope_hash)
    Approved,       \* the texts that grant autonomous engineering authority
    Edits,          \* what may change of an item: its text ("scope"), its issue ("issue")
    Phases,         \* the release bridge phases that occur
    Slots,          \* max_concurrent_jobs places for a worker thread
    Actions,        \* the owner controls that occur
    Priorities,     \* the priorities an assignment can have
    RoadmapPriority, \* the priority the roadmap gives each item
    Procs,          \* {"service"}, or with the operator's sync {"service","cli"}
    MaxAttempts,    \* WorkerConfig.max_attempts
    Timeout,        \* WorkerConfig.timeout_seconds, in ticks
    Margin,         \* the 30 seconds a lease outlives its worker's timeout
    LeaseSeconds,   \* PMV2Config.lease_seconds, in ticks
    RetryDelay,     \* WorkerConfig.retry_delay_seconds, in ticks
    Slack,          \* the ticks a worker thread spends outside its subprocess
    MaxCrashes,     \* bound: crashes and stops of the service
    MaxRaises,      \* bound: exceptions escaping a worker thread
    MaxRequests     \* bound: owner control requests

ASSUME ScopesAssumption == Approved \subseteq Scopes
ASSUME EditsAssumption == Edits \subseteq {"scope", "issue"}
ASSUME PhasesAssumption == Phases \subseteq {"progress", "blocked", "complete"}
ASSUME ActionsAssumption == Actions \subseteq {"priority", "pause", "resume", "cancel"}
ASSUME ProcsAssumption == "service" \in Procs /\ Procs \subseteq {"service", "cli"}
ASSUME PrioritiesAssumption ==
    Priorities \subseteq 0 .. 99 /\ RoadmapPriority \in [Assignments -> Priorities]
ASSUME TimesAssumption ==
    /\ Timeout \in Nat \ {0} /\ Margin \in Nat \ {0}
    /\ LeaseSeconds \in Nat /\ RetryDelay \in Nat \ {0} /\ Slack \in Nat
ASSUME BoundsAssumption ==
    /\ MaxAttempts \in Nat \ {0} /\ MaxCrashes \in Nat
    /\ MaxRaises \in Nat /\ MaxRequests \in Nat

VARIABLES
    rows,       \* the assignments table
    keys,       \* the idempotency table: dispatches that were started
    validated,  \* the validation_checks table: "none", "partial" or "all" passed, and
                \* "overtaken": "partial" again since a process found them all passed,
                \* which that process has still to act on
    workers,    \* the worker threads, by slot
    loop,       \* what each process is doing
    view,       \* what its current pass listed and has not yet applied
    inbox,      \* the control requests without a result file, oldest first
    batch,      \* how many of them the service listed in this cycle
    world,      \* roadmap text, issue, bridge phase and release evidence
    told,       \* history: the last stop the owner was told of
    crashes, raises, sent

vars == <<rows, keys, validated, workers, loop, view, inbox, batch, world,
          told, crashes, raises, sent>>

env == <<world, crashes, raises, sent>>

None == "none"
Terminal == {"complete", "cancelled"}
States == Terminal \cup
    {"absent", "proposal_only", "queued", "retry_ready", "running",
     "pause_requested", "cancel_requested", "paused", "blocked",
     "validation_ready", "validation_pending", "in_progress"}
Reasons == {None, "scope_changed", "return_code", "lease_expired", "exception",
            "owner", "bridge", "not_allowed", "dispatch"}

NoTime == -1
\* Mutant: the lease is the configured one, whatever the worker's timeout
LeaseIgnoringTimeout == LeaseSeconds

Lease == IF LeaseSeconds > Timeout + Margin THEN LeaseSeconds ELSE Timeout + Margin

Absent == [state |-> "absent", runnable |-> FALSE, scope |-> None, issue |-> FALSE,
           reason |-> None, lease |-> NoTime, wait |-> 0, attempts |-> 0,
           from |-> None, fromRunnable |-> FALSE, prio |-> 0]

NoWorker == [pc |-> "free", a |-> None, scope |-> None, issue |-> FALSE, attempts |-> 0,
             run |-> 0, late |-> 0, code |-> None, read |-> None]

NoView == [scope |-> None, issue |-> FALSE, state |-> "absent", phase |-> None]
Nothing == [a \in Assignments |-> NoView]

LiveSteps == {"start", "exec", "read", "write"}
Live(s) == workers[s].pc \in LiveSteps
LiveOn(a) == {s \in Slots : Live(s) /\ workers[s].a = a}

\* ... also while its exception has not been reaped
BusyOn(a) == {s \in Slots : workers[s].pc \in LiveSteps \cup {"raised"} /\ workers[s].a = a}

Claimable(a) ==
    /\ rows[a].runnable
    /\ rows[a].state \in {"queued", "retry_ready"}

-----------------------------------------------------------------------------
(* The store.                                                              *)

\* update_state: writes unconditionally, whatever the row holds by now
Updated(r, state, runnable, reason, wait) ==
    [r EXCEPT !.state = state, !.runnable = runnable, !.reason = reason,
              !.lease = NoTime, !.wait = wait]

\* What an intake writes to a row it creates or refreshes
Refreshed(r, a, scope, issue, allowed) ==
    [r EXCEPT !.state = IF allowed THEN "queued" ELSE "proposal_only",
              !.runnable = allowed, !.scope = scope, !.issue = issue,
              !.reason = IF allowed THEN None ELSE "not_allowed",
              !.prio = RoadmapPriority[a]]

\* Mutant: the refresh no longer looks at the row's state
UpsertedInAnyState(r, a, scope, issue, allowed) ==
    IF r.state \in Terminal \cup {"running"} THEN r
    ELSE Refreshed(r, a, scope, issue, allowed)

\* upsert_assignment, for an item the intake allows to run or not
Upserted(r, a, scope, issue, allowed) ==
    LET changed == /\ r.state \notin Terminal \cup {"proposal_only", "absent"}
                   /\ r.scope # scope
    IN  CASE changed ->
               [r EXCEPT !.state = "blocked", !.runnable = FALSE, !.reason = "scope_changed"]
          [] ~changed /\ r.state \in {"absent", "proposal_only", "queued"} ->
               Refreshed(r, a, scope, issue, allowed)
          [] OTHER -> r

\* apply_owner_control raises, rolls back and leaves the row alone
ControlRefused(r, act) ==
    \/ r.state = "absent"
    \/ act = "priority" /\ r.state \in Terminal
    \/ act = "pause" /\ r.state \in Terminal \cup {"cancel_requested"}
    \/ act = "resume" /\ r.state # "paused"

Paused(r) ==
    CASE r.state \in {"paused", "pause_requested"} -> r
      [] r.state = "running" ->
            [r EXCEPT !.state = "pause_requested", !.runnable = FALSE,
                      !.from = "running", !.fromRunnable = FALSE, !.reason = "owner"]
      [] OTHER ->
            [r EXCEPT !.state = "paused", !.runnable = FALSE, !.from = r.state,
                      !.fromRunnable = r.runnable, !.reason = "owner", !.lease = NoTime]

\* Mutant: whatever was paused is put back into the queue
ResumedAsQueued(r) ==
    [r EXCEPT !.state = "queued", !.runnable = TRUE, !.from = None,
              !.fromRunnable = FALSE, !.reason = None, !.wait = 0]

Resumed(r) ==
    LET previous == IF r.from \in {"running", "pause_requested", "cancel_requested"}
                    THEN "retry_ready"
                    ELSE IF r.from = None THEN "queued" ELSE r.from
    IN  [r EXCEPT !.state = previous,
                  !.runnable = r.fromRunnable \/ previous \in {"queued", "retry_ready"},
                  !.from = None, !.fromRunnable = FALSE, !.reason = None, !.wait = 0]

Cancelled(r) ==
    CASE r.state \in Terminal -> r
      [] r.state \in {"running", "pause_requested"} ->
            [r EXCEPT !.state = "cancel_requested", !.runnable = FALSE, !.reason = "owner"]
      [] OTHER ->
            [r EXCEPT !.state = "cancelled", !.runnable = FALSE, !.lease = NoTime,
                      !.wait = 0, !.reason = "owner"]

\* apply_owner_control
Controlled(r, act, prio) ==
    CASE act = "priority" -> [r EXCEPT !.prio = prio]
      [] act = "pause"    -> Paused(r)
      [] act = "resume"   -> Resumed(r)
      [] act = "cancel"   -> Cancelled(r)

\* Mutant: an expired lease is left to the worker that will never return
ReleasedByWorkerOnly(r) == r

\* Mutant: leases are released without a look at their expiry
ReleasedUnexpired(r) ==
    IF r.state = "running"
    THEN [r EXCEPT !.state = "retry_ready", !.runnable = TRUE, !.lease = NoTime,
                   !.reason = "lease_expired"]
    ELSE r

\* release_expired_leases
Released(r) ==
    IF r.state = "running" /\ r.lease = 0
    THEN [r EXCEPT !.state = "retry_ready", !.runnable = TRUE, !.lease = NoTime,
                   !.reason = "lease_expired"]
    ELSE r

\* Mutant: a reclaim after a lost lease does not count as an attempt
ClaimedAgain(r) ==
    [r EXCEPT !.state = "running", !.lease = Lease, !.wait = 0, !.reason = None,
              !.attempts = IF r.reason = "lease_expired" THEN @ ELSE @ + 1]

\* claim_next
Claimed(r) ==
    [r EXCEPT !.state = "running", !.lease = Lease, !.wait = 0,
              !.attempts = @ + 1, !.reason = None]

Key(w) == <<w.a, w.scope, w.attempts>>

-----------------------------------------------------------------------------

Init ==
    /\ rows = [a \in Assignments |-> Absent]
    /\ keys = {}
    /\ validated = [a \in Assignments |-> "none"]
    /\ workers = [s \in Slots |-> NoWorker]
    /\ loop = [p \in Procs |-> IF p = "service" THEN "head" ELSE "idle"]
    /\ view = [p \in Procs |-> Nothing]
    /\ inbox = <<>>
    /\ batch = 0
    /\ world \in [Assignments -> [scope : Scopes,
                                  issue : IF "issue" \in Edits THEN BOOLEAN ELSE {TRUE},
                                  phase : {None}, evidence : {FALSE}]]
    /\ told = [a \in Assignments |-> None]
    /\ crashes = 0
    /\ raises = 0
    /\ sent = 0

-----------------------------------------------------------------------------
(* The service loop.                                                       *)

\* The top of run_service's loop; the inbox is listed once
CycleStarts ==
    /\ loop["service"] = "head"
    /\ loop' = [loop EXCEPT !["service"] = "controls"]
    /\ batch' = Len(inbox)
    /\ UNCHANGED <<rows, keys, validated, workers, view, inbox, told, env>>

\* What the owner may rely on once told: a cancellation, or a stop of idle work
Told(a, act, r) ==
    CASE act = "resume" -> None
      [] act = "cancel" /\ r.state = "complete" -> told[a]
      [] /\ act \in {"pause", "cancel"} /\ BusyOn(a) = {}
         /\ r.state \in {"paused", "cancelled"} -> "idle"
      [] /\ act = "cancel" /\ r.state # "complete"
         /\ BusyOn(a) # {} \/ r.state # "cancelled" -> "cancel"
      [] OTHER -> told[a]

\* consume_control_requests, one request: apply_owner_control
ApplyControl ==
    /\ loop["service"] = "controls" /\ batch > 0 /\ inbox[1].verdict = None
    /\ LET q == inbox[1]
           refused == ControlRefused(rows[q.a], q.act)
           r == Controlled(rows[q.a], q.act, q.prio)
       IN  /\ rows' = IF refused THEN rows ELSE [rows EXCEPT ![q.a] = r]
           /\ told' = IF refused THEN told ELSE [told EXCEPT ![q.a] = Told(q.a, q.act, r)]
           /\ inbox' = [inbox EXCEPT ![1].verdict = IF refused THEN "rejected" ELSE "applied"]
    /\ UNCHANGED <<keys, validated, workers, loop, view, batch, env>>

\* ... and its result file, which hides the request from later cycles
WriteAnswer ==
    /\ loop["service"] = "controls" /\ batch > 0 /\ inbox[1].verdict # None
    /\ inbox' = Tail(inbox)
    /\ batch' = batch - 1
    /\ UNCHANGED <<rows, keys, validated, workers, loop, view, told, env>>

\* reconcile_roadmap reads the roadmap and the known issues once; the operator's
\* sync command passes no issues
StartIntake(p) ==
    /\ \/ p = "service" /\ loop[p] = "controls" /\ batch = 0
       \/ p = "cli" /\ loop[p] = "idle"
    /\ loop' = [loop EXCEPT ![p] = "intake"]
    /\ view' = [view EXCEPT ![p] = [a \in Assignments |->
           [NoView EXCEPT !.scope = world[a].scope,
                          !.issue = p = "service" /\ world[a].issue]]]
    /\ UNCHANGED <<rows, keys, validated, workers, inbox, batch, told, env>>

\* ... and upserts the items one by one
Intake(p, a) ==
    /\ loop[p] = "intake" /\ view[p][a].scope # None
    /\ LET v == view[p][a]
       IN  rows' = [rows EXCEPT ![a] = Upserted(@, a, v.scope, v.issue,
                                                v.issue /\ v.scope \in Approved)]
    /\ view' = [view EXCEPT ![p][a] = NoView]
    /\ UNCHANGED <<keys, validated, workers, loop, inbox, batch, told, env>>

\* reconcile_release_bridge reads the bridge's file and lists the assignments
StartBridge(p) ==
    /\ loop[p] = "intake" /\ \A a \in Assignments : view[p][a].scope = None
    /\ loop' = [loop EXCEPT ![p] = "bridge"]
    /\ view' = [view EXCEPT ![p] = [a \in Assignments |->
           IF rows[a].state = "absent" THEN NoView
           ELSE [NoView EXCEPT !.state = rows[a].state, !.phase = world[a].phase]]]
    /\ UNCHANGED <<rows, keys, validated, workers, inbox, batch, told, env>>

\* verify_release_evidence: the nine required checks of the release all pass
ChecksPass(a) == world[a].evidence

\* What the table says after process p recorded its result of every check: a later
\* result replaces the earlier one, also another process's
Recorded(p, a) ==
    CASE ChecksPass(a) -> "all"
      [] ~ChecksPass(a) /\ \E q \in Procs \ {p} : view[q][a].phase = "verified" -> "overtaken"
      [] OTHER -> "partial"

\* verify_release_evidence and record_validation, for a release said to be complete.
\* The nine records are one step: cut short they leave no more than the step does.
BridgeVerify(p, a) ==
    /\ loop[p] = "bridge" /\ view[p][a].phase = "complete"
    /\ validated' = [validated EXCEPT ![a] = Recorded(p, a)]
    /\ view' = [view EXCEPT ![p][a].phase = IF ChecksPass(a) THEN "verified" ELSE "unverified"]
    /\ UNCHANGED <<rows, keys, workers, loop, inbox, batch, told, env>>

\* Mutant: the bridge's word is enough to complete an assignment
BridgeCompletes(r, listed, phase) ==
    IF phase \in {"verified", "unverified"} THEN Updated(r, "complete", FALSE, None, 0) ELSE r

BridgeUpdates(r, listed, phase) ==
    CASE phase = "verified"   -> Updated(r, "complete", FALSE, None, 0)
      [] phase = "unverified" -> Updated(r, "validation_pending", FALSE, "bridge", 0)
      [] phase = "blocked"    -> Updated(r, "blocked", FALSE, "bridge", 0)
      [] phase = "progress" /\ listed \notin {"queued", "running", "retry_ready"} ->
            Updated(r, "in_progress", FALSE, "bridge", 0)
      [] OTHER -> r

BridgeUpdate(p, a) ==
    /\ loop[p] = "bridge" /\ view[p][a].phase \notin {None, "complete"}
    /\ rows' = [rows EXCEPT ![a] = BridgeUpdates(@, view[p][a].state, view[p][a].phase)]
    /\ view' = [view EXCEPT ![p][a] = NoView]
    /\ UNCHANGED <<keys, validated, workers, loop, inbox, batch, told, env>>

BridgeDone(p) ==
    /\ loop[p] = "bridge" /\ \A a \in Assignments : view[p][a].phase = None
    /\ loop' = [loop EXCEPT ![p] = IF p = "service" THEN "reap" ELSE "idle"]
    /\ view' = [view EXCEPT ![p] = Nothing]
    /\ UNCHANGED <<rows, keys, validated, workers, inbox, batch, told, env>>

\* Scheduler.reap, one finished future
Reap(s) ==
    /\ loop["service"] = "reap" /\ workers[s].pc \in {"done", "raised"}
    /\ rows' = IF workers[s].pc = "raised"
               THEN [rows EXCEPT ![workers[s].a] =
                         Updated(@, "retry_ready", TRUE, "exception", 0)]
               ELSE rows
    /\ workers' = [workers EXCEPT ![s] = NoWorker]
    /\ UNCHANGED <<keys, validated, loop, view, inbox, batch, told, env>>

Reaped ==
    /\ loop["service"] = "reap"
    /\ \A s \in Slots : workers[s].pc \notin {"done", "raised"}
    /\ loop' = [loop EXCEPT !["service"] = "release"]
    /\ UNCHANGED <<rows, keys, validated, workers, view, inbox, batch, told, env>>

\* dispatch_available: release_expired_leases first
ReleaseLeases ==
    /\ loop["service"] = "release"
    /\ rows' = [a \in Assignments |-> Released(rows[a])]
    /\ loop' = [loop EXCEPT !["service"] = "dispatch"]
    /\ UNCHANGED <<keys, validated, workers, view, inbox, batch, told, env>>

\* The row that claim_next selects: due, and of the best priority among those
Next_up(a) ==
    LET due == {b \in Assignments : Claimable(b) /\ rows[b].wait = 0}
    IN  a \in due /\ \A b \in due : rows[a].prio <= rows[b].prio

\* ... then claim_next and pool.submit while there is a slot and a row
Dispatch(s, a) ==
    /\ loop["service"] = "dispatch" /\ workers[s].pc = "free" /\ Next_up(a)
    /\ rows' = [rows EXCEPT ![a] = Claimed(@)]
    /\ workers' = [workers EXCEPT ![s] =
           [NoWorker EXCEPT !.pc = "start", !.a = a, !.scope = rows[a].scope,
                            !.issue = rows[a].issue, !.attempts = rows'[a].attempts]]
    /\ UNCHANGED <<keys, validated, loop, view, inbox, batch, told, env>>

DispatchDone ==
    /\ loop["service"] = "dispatch"
    /\ \/ \A s \in Slots : workers[s].pc # "free"
       \/ \A a \in Assignments : ~Next_up(a)
    /\ loop' = [loop EXCEPT !["service"] = "head"]
    /\ UNCHANGED <<rows, keys, validated, workers, view, inbox, batch, told, env>>

-----------------------------------------------------------------------------
(* The worker thread, Scheduler._run.                                      *)

\* Up to the subprocess: the issue must be known and the dispatch be a new one
Start(s) ==
    LET w == workers[s]
        refused == ~w.issue \/ Key(w) \in keys
    IN  /\ w.pc = "start"
        /\ rows' = IF refused
                   THEN [rows EXCEPT ![w.a] = Updated(@, "blocked", FALSE, "dispatch", 0)]
                   ELSE rows
        /\ keys' = IF w.issue THEN keys \cup {Key(w)} ELSE keys
        /\ workers' = [workers EXCEPT ![s].pc = IF refused THEN "done" ELSE "exec"]
        /\ UNCHANGED <<validated, loop, view, inbox, batch, told, env>>

\* The subprocess returns zero, or fails, or cannot start, or runs into its timeout
Exit(s, code) ==
    /\ workers[s].pc = "exec"
    /\ workers' = [workers EXCEPT ![s].pc = "read", ![s].code = code]
    /\ UNCHANGED <<rows, keys, validated, loop, view, inbox, batch, told, env>>

\* The owner's wishes are read ...
ReadState(s) ==
    /\ workers[s].pc = "read"
    /\ workers' = [workers EXCEPT ![s].pc = "write", ![s].read = rows[workers[s].a].state]
    /\ UNCHANGED <<rows, keys, validated, loop, view, inbox, batch, told, env>>

\* Mutant: exhausted retries are written as a state the store does not know
OutcomeFailed(r, w) ==
    IF w.code = "fail" /\ w.attempts >= MaxAttempts
    THEN Updated(r, "failed", FALSE, "return_code", 0)
    ELSE Updated(r, "validation_ready", FALSE, None, 0)

\* Mutant: one attempt more than max_attempts
OutcomeOneMore(r, w) ==
    IF w.code = "ok" THEN Updated(r, "validation_ready", FALSE, None, 0)
    ELSE IF w.attempts > MaxAttempts
    THEN Updated(r, "blocked", FALSE, "return_code", 0)
    ELSE Updated(r, "retry_ready", TRUE, "return_code", RetryDelay)

\* Mutant: the outcome is only written to a row that is still running
OutcomeWhileRunning(r, w) ==
    IF r.state # "running" THEN r
    ELSE IF w.code = "ok" THEN Updated(r, "validation_ready", FALSE, None, 0)
    ELSE Updated(r, "blocked", FALSE, "return_code", 0)

Outcome(r, w) ==
    CASE w.read = "cancel_requested" -> Updated(r, "cancelled", FALSE, "owner", 0)
      [] w.read = "pause_requested"  -> Updated(r, "paused", FALSE, "owner", 0)
      [] w.read \notin {"cancel_requested", "pause_requested"} /\ w.code = "ok" ->
            Updated(r, "validation_ready", FALSE, None, 0)
      [] OTHER ->
            IF w.attempts >= MaxAttempts
            THEN Updated(r, "blocked", FALSE, "return_code", 0)
            ELSE Updated(r, "retry_ready", TRUE, "return_code", RetryDelay)

\* ... and the outcome is written in a later transaction
WriteOutcome(s) ==
    /\ workers[s].pc = "write"
    /\ rows' = [rows EXCEPT ![workers[s].a] = Outcome(@, workers[s])]
    /\ workers' = [workers EXCEPT ![s].pc = "done"]
    /\ UNCHANGED <<keys, validated, loop, view, inbox, batch, told, env>>

\* An exception leaves _run: a command that cannot be built, a store that is locked
WorkerRaises(s) ==
    /\ Live(s) /\ raises < MaxRaises
    /\ workers' = [workers EXCEPT ![s].pc = "raised"]
    /\ raises' = raises + 1
    /\ UNCHANGED <<rows, keys, validated, loop, view, inbox, batch, world, told,
                   crashes, sent>>

-----------------------------------------------------------------------------
(* Stops, time and the world outside.                                      *)

\* A request whose result file was not written is found again as it was sent
Forgotten == [i \in DOMAIN inbox |-> [inbox[i] EXCEPT !.verdict = None]]

\* SIGTERM, or an exception in the loop: the pool is shut down and waited for
Stop ==
    /\ loop["service"] \notin {"down", "draining"} /\ crashes < MaxCrashes
    /\ loop' = [loop EXCEPT !["service"] = "draining"]
    /\ inbox' = Forgotten
    /\ batch' = 0
    /\ view' = [view EXCEPT !["service"] = Nothing]
    /\ crashes' = crashes + 1
    /\ UNCHANGED <<rows, keys, validated, workers, world, told, raises, sent>>

Drained ==
    /\ loop["service"] = "draining" /\ \A s \in Slots : ~Live(s)
    /\ loop' = [loop EXCEPT !["service"] = "down"]
    /\ workers' = [s \in Slots |-> NoWorker]
    /\ UNCHANGED <<rows, keys, validated, view, inbox, batch, told, env>>

\* The process, its threads and its subprocesses (one control group) are gone
Crash ==
    /\ loop["service"] # "down" /\ crashes < MaxCrashes
    /\ loop' = [loop EXCEPT !["service"] = "down"]
    /\ workers' = [s \in Slots |-> NoWorker]
    /\ inbox' = Forgotten
    /\ batch' = 0
    /\ view' = [view EXCEPT !["service"] = Nothing]
    /\ crashes' = crashes + 1
    /\ UNCHANGED <<rows, keys, validated, world, told, raises, sent>>

Restart ==
    /\ loop["service"] = "down"
    /\ loop' = [loop EXCEPT !["service"] = "head"]
    /\ UNCHANGED <<rows, keys, validated, workers, view, inbox, batch, told, env>>

\* The code keeps due times and compares them with the clock's; here they count down
Aged(t) == IF t > 0 THEN t - 1 ELSE t

\* A subprocess is killed at its timeout, and a thread takes at most Slack ticks
\* for the rest of _run.  The loop goes from reap to the lease release at once.
Tick ==
    /\ loop["service"] # "release"
    /\ \A s \in Slots :
           /\ workers[s].pc = "exec" => workers[s].run < Timeout
           /\ workers[s].pc \in {"start", "read", "write"} => workers[s].late < Slack
    /\ workers' = [s \in Slots |->
           CASE workers[s].pc = "exec" -> [workers[s] EXCEPT !.run = @ + 1]
             [] workers[s].pc \in {"start", "read", "write"} -> [workers[s] EXCEPT !.late = @ + 1]
             [] OTHER -> workers[s]]
    /\ rows' = [a \in Assignments |->
           [rows[a] EXCEPT !.lease = Aged(@), !.wait = Aged(@)]]
    /\ UNCHANGED <<keys, validated, loop, view, inbox, batch, told, env>>

OwnerAsks(a, act, prio) ==
    /\ sent < MaxRequests
    /\ inbox' = Append(inbox, [a |-> a, act |-> act, prio |-> prio, verdict |-> None])
    /\ sent' = sent + 1
    /\ UNCHANGED <<rows, keys, validated, workers, loop, view, batch, world, told,
                   crashes, raises>>

\* The roadmap is edited, an issue is opened, the release bridge moves
WorldMoves(a) ==
    /\ \/ "scope" \in Edits /\ \E x \in Scopes \cup {None} : world' = [world EXCEPT ![a].scope = x]
       \/ "issue" \in Edits /\ world' = [world EXCEPT ![a].issue = ~@]
       \/ \E x \in Phases : world' = [world EXCEPT ![a].phase = x]
       \/ "complete" \in Phases /\ world' = [world EXCEPT ![a].evidence = ~@]
    /\ UNCHANGED <<rows, keys, validated, workers, loop, view, inbox, batch, told,
                   crashes, raises, sent>>

-----------------------------------------------------------------------------

ServiceStep ==
    \/ CycleStarts \/ ApplyControl \/ WriteAnswer
    \/ Reaped \/ ReleaseLeases \/ DispatchDone \/ Drained \/ Restart
    \/ \E s \in Slots : Reap(s)
    \/ \E s \in Slots, a \in Assignments : Dispatch(s, a)

ReconcileStep(p) ==
    \/ StartBridge(p) \/ BridgeDone(p)
    \/ \E a \in Assignments : Intake(p, a) \/ BridgeVerify(p, a) \/ BridgeUpdate(p, a)

WorkerStep(s) ==
    \/ Start(s) \/ ReadState(s) \/ WriteOutcome(s)
    \/ \E code \in {"ok", "fail"} : Exit(s, code)

Environment ==
    \/ Stop \/ Crash
    \/ \E s \in Slots : WorkerRaises(s)
    \/ \E a \in Assignments : WorldMoves(a)
    \/ \E a \in Assignments, act \in Actions, prio \in Priorities : OwnerAsks(a, act, prio)

Next ==
    \/ ServiceStep
    \/ \E p \in Procs : StartIntake(p) \/ ReconcileStep(p)
    \/ \E s \in Slots : WorkerStep(s)
    \/ Tick
    \/ Environment

Spec == Init /\ [][Next]_vars

(* Fairness: the loop polls for ever and systemd restarts it, a thread of the *)
(* pool runs on, a subprocess ends (it is killed at its timeout), and time    *)
(* passes.  Nothing is promised of the owner, the roadmap or the bridge.      *)
Fairness ==
    /\ WF_vars(ServiceStep \/ StartIntake("service") \/ ReconcileStep("service"))
    /\ \A s \in Slots : WF_vars(WorkerStep(s))
    /\ SF_vars(Tick)

FairSpec == Spec /\ Fairness

-----------------------------------------------------------------------------
(* Properties.                                                             *)

Rows ==
    [state : States, runnable : BOOLEAN, scope : Scopes \cup {None}, issue : BOOLEAN,
     reason : Reasons, lease : NoTime .. Lease, wait : 0 .. RetryDelay,
     attempts : Nat, from : States \cup {None}, fromRunnable : BOOLEAN,
     prio : Priorities \cup {0}]

Workers ==
    [pc : LiveSteps \cup {"free", "done", "raised"}, a : Assignments \cup {None},
     scope : Scopes \cup {None}, issue : BOOLEAN, attempts : Nat,
     run : 0 .. Timeout, late : 0 .. Slack, code : {None, "ok", "fail"},
     read : States \cup {None}]

Views ==
    [scope : Scopes \cup {None}, issue : BOOLEAN, state : States,
     phase : Phases \cup {None, "verified", "unverified"}]

Requests ==
    [a : Assignments, act : Actions, prio : Priorities, verdict : {None, "applied", "rejected"}]

\* The types of the table, the threads and the loop's memory (store.py, scheduler.py)
TypeOK ==
    /\ rows \in [Assignments -> Rows]
    /\ keys \subseteq Assignments \X Scopes \X Nat
    /\ validated \in [Assignments -> {"none", "partial", "all", "overtaken"}]
    /\ workers \in [Slots -> Workers]
    /\ loop \in [Procs -> {"head", "controls", "intake", "bridge", "reap", "release",
                            "dispatch", "draining", "down", "idle"}]
    /\ view \in [Procs -> [Assignments -> Views]]
    /\ inbox \in Seq(Requests)
    /\ batch \in 0 .. Len(inbox)
    /\ world \in [Assignments -> [scope : Scopes \cup {None}, issue : BOOLEAN,
                                   phase : Phases \cup {None}, evidence : BOOLEAN]]
    /\ told \in [Assignments -> {None, "cancel", "idle"}]
    /\ crashes \in 0 .. MaxCrashes /\ raises \in 0 .. MaxRaises /\ sent \in 0 .. MaxRequests

(* At most one worker thread has an assignment, through retries, crashes,  *)
(* owner controls and reconciliation: a lease is only given away after its *)
(* worker has finished (scheduler.py 67-79, store.py 396-463).  It needs   *)
(* Slack < Margin: what _run does around its subprocess fits in the 30     *)
(* seconds by which the lease outlives the subprocess's timeout.           *)
OneWorkerPerAssignment ==
    \A a \in Assignments : \A s, t \in BusyOn(a) : s = t

(* Only a text that grants autonomous authority, with its development      *)
(* issue, is ever given to a worker: a proposal cannot become runnable by  *)
(* pausing, resuming, failing or by the bridge (backlog.py 65-80,          *)
(* Bootstrap.md "Proposal-only items are non-executable").                 *)
AuthorizedWorkOnly ==
    \A s \in Slots : Live(s) => workers[s].scope \in Approved /\ workers[s].issue

(* An assignment that was paused or cancelled while no worker had it stays *)
(* without a worker, and out of the queue, until the owner resumes it,     *)
(* whatever the roadmap and the bridge do to its row meanwhile             *)
(* (store.py 290-366, backlog.py, release_sync.py).                        *)
StoppedStaysStopped ==
    \A a \in Assignments : told[a] = "idle" => BusyOn(a) = {} /\ ~Claimable(a)

(* An assignment becomes complete only when its release checks are all     *)
(* recorded as passed, or were when the process that completes it recorded *)
(* them and the other one's later result overtook it (release_sync.py      *)
(* 173-197): no worker, control or stale listing, and no pass that a crash *)
(* cut between the two transactions, completes a row that nobody verified. *)
CompletionIsVerified ==
    [][\A a \in Assignments :
           rows[a].state # "complete" /\ rows'[a].state = "complete"
               => validated[a] \in {"all", "overtaken"}]_vars

(* The idempotency key of a dispatch has never been used before, so        *)
(* duplicate_dispatch_suppressed never blocks an assignment that a crash   *)
(* or a lost lease gave back (scheduler.py 108-124, store.py 445-453).     *)
FreshDispatch ==
    \A s \in Slots : workers[s].pc = "start" => Key(workers[s]) \notin keys

(* A worker that returned a failure for the max_attempts-th time is not    *)
(* run again unless the owner resumes it (scheduler.py 182-189), whatever  *)
(* attempts crashes and lost leases have used up in between.               *)
RetryBudget ==
    \A a \in Assignments :
        Claimable(a) /\ rows[a].attempts >= MaxAttempts => rows[a].reason # "return_code"

Requested(a) == rows[a].state \in {"pause_requested", "cancel_requested"}

(* Runnable work does not stay queued, waiting or running for ever: crashes, *)
(* lost threads and exhausted retries all lead out of it (Agreement,       *)
(* "silently abandons work").                                              *)
WorkMovesOn ==
    \A a \in Assignments :
        (Claimable(a) \/ rows[a].state = "running")
            ~> ~(Claimable(a) \/ rows[a].state = "running")

\* A thread that will still look at the row
Reads(a) == \E s \in Slots : workers[s].a = a /\ workers[s].pc \in {"start", "exec", "read"}

\* What may come before it: the thread's exception, or the service going down
Interrupted(a) ==
    \/ \E s \in Slots : workers[s].a = a /\ workers[s].pc = "raised"
    \/ loop["service"] \in {"draining", "down"}

\* ... or an intake or a bridge pass that overwrites the request
Overwritten(a) ==
    rows[a].reason \in {"scope_changed", "bridge"} \/ rows[a].state = "complete"

(* A pause or cancellation requested of a worker that has not yet read its *)
(* row stops the assignment: the row becomes paused or cancelled, however  *)
(* the worker ends (scheduler.py 147-174, 201).  Except where the code     *)
(* loses the request: the worker raises, the service goes down, or the     *)
(* roadmap or the bridge overwrites the row.  (A request between the       *)
(* worker's read and its write is lost: CancelHonoured.)                   *)
RequestsAreServed ==
    \A a \in Assignments :
        Requested(a) /\ Reads(a)
            ~> rows[a].state \in {"paused", "cancelled"} \/ Interrupted(a) \/ Overwritten(a)

(* An assignment the owner cancelled is never put back into the queue      *)
(* (test_pm_v2_control.py "cancel ... is immediate and terminal").         *)
CancelHonoured ==
    \A a \in Assignments : told[a] = "cancel" => ~Claimable(a)

-----------------------------------------------------------------------------
(* The promise of LeasedWork: an attempt runs from the start of its        *)
(* subprocess until its outcome is in the table.                           *)

Running == {Key(workers[s]) : s \in {t \in Slots : workers[t].pc \in {"exec", "read", "write"}}}

Promise == INSTANCE LeasedWork WITH launched <- keys, running <- Running

(* Whatever crashes, expired leases, edits and controls do to the rows, a  *)
(* worker process is only launched for a text with authority, while no     *)
(* other has its assignment, and under a number above all earlier ones     *)
(* (scheduler.py 84-129, store.py 396-463).  It needs Slack < Margin.      *)
ImplementsLeasedWork == Promise!Spec
=============================================================================
