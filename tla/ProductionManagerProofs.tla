------------------------ MODULE ProductionManagerProofs ------------------------
(***************************************************************************)
(* Machine-checked proofs about ProductionManager, for every set of        *)
(* assignments, texts and slots, every timing and every bound.             *)
(***************************************************************************)
EXTENDS ProductionManager, TLAPS

-----------------------------------------------------------------------------
(* What the store's operations make of a row.                              *)

(* A lease outlives the worker's timeout by the margin.                    *)
LEMMA LeaseFacts == Lease \in Nat /\ Lease >= Timeout + Margin /\ Lease > 0 /\ NoTime = -1
BY TimesAssumption DEF Lease, NoTime

(* The times that are written to a row are in their ranges.                *)
LEMMA TimesInRange ==
  /\ NoTime \in NoTime .. Lease /\ Lease \in NoTime .. Lease
  /\ 0 \in 0 .. RetryDelay /\ RetryDelay \in 0 .. RetryDelay
BY LeaseFacts, TimesAssumption

(* The states and the reasons that operations write to a row.              *)
LEMMA Written ==
  /\ "blocked" \in States /\ "retry_ready" \in States /\ "running" \in States
  /\ "paused" \in States /\ "pause_requested" \in States
  /\ "cancelled" \in States /\ "cancel_requested" \in States
  /\ "validation_ready" \in States /\ "queued" \in States /\ "proposal_only" \in States
  /\ None \in Reasons /\ "scope_changed" \in Reasons /\ "return_code" \in Reasons
  /\ "lease_expired" \in Reasons /\ "exception" \in Reasons /\ "owner" \in Reasons
  /\ "dispatch" \in Reasons /\ "not_allowed" \in Reasons
BY DEF States, Reasons, Terminal

\* n is a row of the same item, text and attempt as r.
SameWork(r, n) ==
    /\ n \in Rows /\ n.attempts = r.attempts
    /\ n.scope = r.scope /\ n.issue = r.issue

(* A refused dispatch blocks its row, a reaped exception gives it back.    *)
LEMMA UpdatedRow ==
  ASSUME NEW r \in Rows
  PROVE  LET n == Updated(r, "blocked", FALSE, "dispatch", 0)
             m == Updated(r, "retry_ready", TRUE, "exception", 0)
         IN  /\ SameWork(r, n) /\ n.from = r.from /\ n.state = "blocked"
             /\ SameWork(r, m) /\ m.from = r.from /\ m.state = "retry_ready"
             /\ m.reason = "exception"
<1>1. Updated(r, "blocked", FALSE, "dispatch", 0) \in Rows
  BY TimesInRange, Written DEF Updated, Rows
<1>2. Updated(r, "retry_ready", TRUE, "exception", 0) \in Rows
  BY TimesInRange, Written DEF Updated, Rows
<1> QED BY <1>1, <1>2 DEF Updated, Rows, SameWork

(* An intake leaves a row alone, blocks it because its text changed, or    *)
(* creates or refreshes it; only a row nobody works on is refreshed.       *)
LEMMA UpsertedRow ==
  ASSUME NEW r \in Rows, NEW a \in Assignments, NEW scope \in Scopes,
         NEW issue \in BOOLEAN, NEW allowed \in BOOLEAN
  PROVE  LET n == Upserted(r, a, scope, issue, allowed)
         IN  /\ n \in Rows /\ n.attempts = r.attempts /\ n.from = r.from /\ n.state # "absent"
             /\ \/ n = r
                \/ /\ n.state = "blocked"
                   /\ n.scope = r.scope /\ n.issue = r.issue /\ r.state # "absent"
                \/ /\ r.state \in {"absent", "proposal_only", "queued"}
                   /\ n.scope = scope /\ n.issue = issue /\ n.reason # "return_code"
                   /\ \/ n.state = "queued" /\ allowed
                      \/ n.state = "proposal_only"
<1> DEFINE changed == /\ r.state \notin Terminal \cup {"proposal_only", "absent"}
                      /\ r.scope # scope
           n == Upserted(r, a, scope, issue, allowed)
<1>1. CASE changed
  <2>1. n = [r EXCEPT !.state = "blocked", !.runnable = FALSE, !.reason = "scope_changed"]
    BY <1>1 DEF Upserted
  <2>2. n \in Rows
    BY <2>1, Written DEF Rows
  <2> QED BY <1>1, <2>1, <2>2 DEF Rows
<1>2. CASE ~changed /\ r.state \in {"absent", "proposal_only", "queued"}
  <2>1. n = Refreshed(r, a, scope, issue, allowed)
    BY <1>2 DEF Upserted
  <2>2. RoadmapPriority[a] \in Priorities \cup {0}
    BY PrioritiesAssumption
  <2>3. n \in Rows
    BY <2>1, <2>2, Written DEF Refreshed, Rows
  <2> QED BY <1>2, <2>1, <2>3 DEF Refreshed, Rows, None
<1>3. CASE ~changed /\ r.state \notin {"absent", "proposal_only", "queued"}
  <2>1. n = r
    BY <1>3 DEF Upserted
  <2> QED BY <1>3, <2>1
<1> QED BY <1>1, <1>2, <1>3

\* States in which the owner can pause a row on the spot, with a worker or without
Idle == {"blocked", "validation_ready", "validation_pending", "in_progress"}

(* A pause stops a running row by request and any other on the spot.       *)
LEMMA PausedRow ==
  ASSUME NEW r \in Rows, ~ControlRefused(r, "pause")
  PROVE  LET n == Paused(r)
         IN  /\ SameWork(r, n)
             /\ \/ n = r /\ r.state \in {"paused", "pause_requested"}
                \/ /\ r.state = "running" /\ n.state = "pause_requested" /\ n.from = "running"
                \/ /\ r.state \notin Terminal \cup
                         {"absent", "running", "paused", "pause_requested", "cancel_requested"}
                   /\ n.state = "paused" /\ n.from = r.state
<1> USE DEF SameWork
<1>2. r.state \notin Terminal \cup {"absent", "cancel_requested"}
  BY DEF ControlRefused
<1>3. CASE r.state \in {"paused", "pause_requested"}
  BY <1>3 DEF Paused
<1>4. CASE r.state = "running"
  <2>1. Paused(r) = [r EXCEPT !.state = "pause_requested", !.runnable = FALSE,
                      !.from = "running", !.fromRunnable = FALSE, !.reason = "owner"]
    BY <1>4 DEF Paused
  <2>2. Paused(r) \in Rows
    BY <2>1, Written DEF Rows
  <2> QED BY <1>4, <2>1, <2>2 DEF Rows
<1>5. CASE r.state \notin {"paused", "pause_requested", "running"}
  <2>1. Paused(r) = [r EXCEPT !.state = "paused", !.runnable = FALSE, !.from = r.state,
                      !.fromRunnable = r.runnable, !.reason = "owner", !.lease = NoTime]
    BY <1>5 DEF Paused
  <2>2. Paused(r) \in Rows
    BY TimesInRange, <2>1, Written DEF Rows
  <2> QED BY <1>2, <1>5, <2>1, <2>2 DEF Rows
<1> QED BY <1>3, <1>4, <1>5

(* A resume goes back to the state before the pause, or into the queue.    *)
LEMMA ResumedRow ==
  ASSUME NEW r \in Rows
  PROVE  LET n == Resumed(r)
         IN  /\ SameWork(r, n) /\ n.from = None /\ n.reason = None
             /\ n.state = IF r.from \in {"running", "pause_requested", "cancel_requested"}
                          THEN "retry_ready"
                          ELSE IF r.from = None THEN "queued" ELSE r.from
<1> DEFINE previous == IF r.from \in {"running", "pause_requested", "cancel_requested"}
                       THEN "retry_ready"
                       ELSE IF r.from = None THEN "queued" ELSE r.from
<1>1. previous \in States
  BY DEF Rows, States, None
<1>2. Resumed(r) = [r EXCEPT !.state = previous,
                  !.runnable = r.fromRunnable \/ previous \in {"queued", "retry_ready"},
                  !.from = None, !.fromRunnable = FALSE, !.reason = None, !.wait = 0]
  BY DEF Resumed
<1> HIDE DEF previous
<1>3. (r.fromRunnable \/ previous \in {"queued", "retry_ready"}) \in BOOLEAN
  BY DEF Rows
<1>4. Resumed(r) \in Rows
  BY TimesInRange, <1>1, <1>2, <1>3 DEF Rows, Reasons
<1>5. /\ SameWork(r, Resumed(r)) /\ Resumed(r).state = previous
      /\ Resumed(r).from = None /\ Resumed(r).reason = None
  BY <1>2, <1>4 DEF Rows, SameWork
<1> QED BY <1>5 DEF previous

(* A cancellation is final at once unless a worker may still be running.   *)
LEMMA CancelledRow ==
  ASSUME NEW r \in Rows
  PROVE  LET n == Cancelled(r)
         IN  /\ SameWork(r, n) /\ n.from = r.from
             /\ \/ n = r /\ r.state \in Terminal
                \/ n.state = "cancel_requested" /\ r.state \in {"running", "pause_requested"}
                \/ n.state = "cancelled" /\ r.state \notin Terminal \cup {"running", "pause_requested"}
<1> USE DEF SameWork
<1>2. CASE r.state \in Terminal
  BY <1>2 DEF Cancelled, Terminal
<1>3. CASE r.state \in {"running", "pause_requested"}
  <2>1. Cancelled(r) =
           [r EXCEPT !.state = "cancel_requested", !.runnable = FALSE, !.reason = "owner"]
    BY <1>3 DEF Cancelled, Terminal
  <2> QED BY <1>3, <2>1, Written DEF Rows
<1>4. CASE r.state \notin Terminal \cup {"running", "pause_requested"}
  <2>1. Cancelled(r) = [r EXCEPT !.state = "cancelled", !.runnable = FALSE, !.lease = NoTime,
                      !.wait = 0, !.reason = "owner"]
    BY <1>4 DEF Cancelled
  <2>2. Cancelled(r) \in Rows
    BY TimesInRange, <2>1, Written DEF Rows
  <2> QED BY <1>4, <2>1, <2>2 DEF Rows
<1> QED BY <1>2, <1>3, <1>4

(* A claim makes a row running under a full lease and a new attempt.       *)
LEMMA ClaimedRow ==
  ASSUME NEW r \in Rows
  PROVE  LET n == Claimed(r)
         IN  /\ n \in Rows /\ n.state = "running" /\ n.lease = Lease
             /\ n.attempts = r.attempts + 1 /\ n.reason = None
             /\ n.from = r.from /\ n.scope = r.scope /\ n.issue = r.issue
<1>2. r.attempts \in Nat
  BY DEF Rows
<1>3. r.attempts + 1 \in Nat
  BY <1>2
<1>4. Claimed(r) \in Rows
  BY TimesInRange, <1>3, Written DEF Claimed, Rows
<1> QED BY <1>4 DEF Claimed, Rows

(* Only a running row whose lease ran out is released, for a retry.        *)
LEMMA ReleasedRow ==
  ASSUME NEW r \in Rows
  PROVE  LET n == Released(r)
         IN  /\ SameWork(r, n) /\ n.from = r.from
             /\ \/ n = r
                \/ /\ r.state = "running" /\ r.lease = 0
                   /\ n.state = "retry_ready" /\ n.reason = "lease_expired"
<1> USE DEF SameWork
<1>1. CASE r.state = "running" /\ r.lease = 0
  <2>1. Released(r) = [r EXCEPT !.state = "retry_ready", !.runnable = TRUE, !.lease = NoTime,
                               !.reason = "lease_expired"]
    BY <1>1 DEF Released
  <2>2. Released(r) \in Rows
    BY TimesInRange, <2>1, Written DEF Rows
  <2> QED BY <1>1, <2>1, <2>2 DEF Rows
<1>2. CASE ~(r.state = "running" /\ r.lease = 0)
  BY <1>2 DEF Released
<1> QED BY <1>1, <1>2

(* The bridge never puts a row into the queue or under a worker, and       *)
(* completes it only when the checks were verified.                        *)
LEMMA BridgedRow ==
  ASSUME NEW r \in Rows, NEW listed, NEW phase
  PROVE  LET n == BridgeUpdates(r, listed, phase)
         IN  /\ SameWork(r, n) /\ n.from = r.from
             /\ \/ n = r
                \/ n.state = "complete" /\ phase = "verified"
                \/ n.state \in Idle
<1>2. ASSUME NEW state \in {"complete", "validation_pending", "blocked", "in_progress"},
             NEW reason \in {None, "bridge"}
      PROVE  /\ SameWork(r, Updated(r, state, FALSE, reason, 0))
             /\ Updated(r, state, FALSE, reason, 0).from = r.from
             /\ Updated(r, state, FALSE, reason, 0).state = state
  <2>1. state \in States /\ reason \in Reasons
    BY DEF States, Terminal, Reasons
  <2> QED BY <2>1, TimesInRange DEF Updated, Rows, SameWork
<1>3. CASE phase = "verified"
  BY <1>2, <1>3 DEF BridgeUpdates
<1>4. CASE phase = "unverified"
  BY <1>2, <1>4 DEF BridgeUpdates, Idle
<1>5. CASE phase = "blocked"
  BY <1>2, <1>5 DEF BridgeUpdates, Idle
<1>6. CASE phase = "progress" /\ listed \notin {"queued", "running", "retry_ready"}
  BY <1>2, <1>6 DEF BridgeUpdates, Idle
<1>7. CASE /\ phase \notin {"verified", "unverified", "blocked"}
           /\ ~(phase = "progress" /\ listed \notin {"queued", "running", "retry_ready"})
  BY <1>7 DEF BridgeUpdates, SameWork
<1> QED BY <1>3, <1>4, <1>5, <1>6, <1>7

(* A worker's outcome serves the request it read, else waits for its       *)
(* validation, is blocked, or is retried while attempts are left.          *)
LEMMA OutcomeRow ==
  ASSUME NEW r \in Rows, NEW w \in Workers
  PROVE  LET n == Outcome(r, w)
         IN  /\ SameWork(r, n) /\ n.from = r.from
             /\ \/ n.state \in {"cancelled", "paused", "validation_ready", "blocked"}
                \/ n.state = "retry_ready" /\ w.attempts < MaxAttempts
<1>2. CASE w.read = "cancel_requested"
  <2>1. Outcome(r, w) = Updated(r, "cancelled", FALSE, "owner", 0)
    BY <1>2 DEF Outcome
  <2>2. Outcome(r, w) \in Rows
    BY TimesInRange, Written, <2>1 DEF Updated, Rows
  <2> QED BY <2>1, <2>2 DEF Updated, Rows, SameWork
<1>3. CASE w.read = "pause_requested"
  <2>1. Outcome(r, w) = Updated(r, "paused", FALSE, "owner", 0)
    BY <1>3 DEF Outcome
  <2>2. Outcome(r, w) \in Rows
    BY TimesInRange, Written, <2>1 DEF Updated, Rows
  <2> QED BY <2>1, <2>2 DEF Updated, Rows, SameWork
<1>4. CASE w.read \notin {"cancel_requested", "pause_requested"} /\ w.code = "ok"
  <2>1. Outcome(r, w) = Updated(r, "validation_ready", FALSE, None, 0)
    BY <1>4 DEF Outcome
  <2>2. Outcome(r, w) \in Rows
    BY TimesInRange, Written, <2>1 DEF Updated, Rows
  <2> QED BY <2>1, <2>2 DEF Updated, Rows, SameWork
<1>5. CASE w.read \notin {"cancel_requested", "pause_requested"} /\ w.code # "ok"
  <2>1. Outcome(r, w) = IF w.attempts >= MaxAttempts
            THEN Updated(r, "blocked", FALSE, "return_code", 0)
            ELSE Updated(r, "retry_ready", TRUE, "return_code", RetryDelay)
    BY <1>5 DEF Outcome
  <2>2. CASE w.attempts >= MaxAttempts
    <3>1. Outcome(r, w) = Updated(r, "blocked", FALSE, "return_code", 0)
      BY <2>1, <2>2
    <3>2. Outcome(r, w) \in Rows
      BY TimesInRange, Written, <3>1 DEF Updated, Rows
    <3> QED BY <3>1, <3>2 DEF Updated, Rows, SameWork
  <2>3. CASE ~(w.attempts >= MaxAttempts)
    <3>1. w.attempts \in Nat /\ MaxAttempts \in Nat
      BY BoundsAssumption DEF Workers
    <3>2. w.attempts < MaxAttempts
      BY <2>3, <3>1
    <3>3. Outcome(r, w) = Updated(r, "retry_ready", TRUE, "return_code", RetryDelay)
      BY <2>1, <2>3
    <3>4. Outcome(r, w) \in Rows
      BY TimesInRange, Written, <3>3 DEF Updated, Rows
    <3> QED BY <3>2, <3>3, <3>4 DEF Updated, Rows, SameWork
  <2> QED BY <2>2, <2>3
<1> QED BY <1>2, <1>3, <1>4, <1>5

(* An owner control keeps the work of the row it is applied to.            *)
LEMMA ControlledRow ==
  ASSUME NEW r \in Rows, NEW act \in Actions, NEW prio \in Priorities, ~ControlRefused(r, act)
  PROVE  LET n == Controlled(r, act, prio)
         IN  /\ SameWork(r, n) /\ r.state # "absent"
             /\ \/ /\ act = "priority"
                   /\ n.state = r.state /\ n.from = r.from /\ n.runnable = r.runnable
                   /\ n.reason = r.reason /\ n.lease = r.lease
                \/ act = "pause" /\ ~ControlRefused(r, "pause") /\ n = Paused(r)
                \/ act = "resume" /\ r.state = "paused" /\ n = Resumed(r)
                \/ act = "cancel" /\ n = Cancelled(r)
<1>0. act \in {"priority", "pause", "resume", "cancel"} /\ r.state # "absent"
  BY ActionsAssumption DEF ControlRefused
<1>1. CASE act = "priority"
  BY <1>0, <1>1 DEF Controlled, SameWork, Rows
<1>2. CASE act = "pause"
  <2>1. Controlled(r, act, prio) = Paused(r) /\ ~ControlRefused(r, "pause")
    BY <1>2 DEF Controlled
  <2> QED BY <1>0, <1>2, <2>1, PausedRow
<1>3. CASE act = "resume"
  <2>1. Controlled(r, act, prio) = Resumed(r) /\ r.state = "paused"
    BY <1>3 DEF Controlled, ControlRefused
  <2> QED BY <1>0, <1>3, <2>1, ResumedRow
<1>4. CASE act = "cancel"
  <2>1. Controlled(r, act, prio) = Cancelled(r)
    BY <1>4 DEF Controlled
  <2> QED BY <1>0, <1>4, <2>1, CancelledRow
<1> QED BY <1>0, <1>1, <1>2, <1>3, <1>4

-----------------------------------------------------------------------------
(* Type correctness.                                                       *)

Busy(s) == workers[s].pc \in LiveSteps \cup {"raised"}

\* A row in the table has a text, and a pause remembers a state that can be
\* left; the threads and the listings are about rows that are in the table.
RowsKnown ==
    /\ \A a \in Assignments :
           /\ rows[a].state # "absent" => rows[a].scope \in Scopes
           /\ rows[a].from \notin Terminal \cup {"absent", "paused"}
    /\ \A s \in Slots : Busy(s) =>
           /\ workers[s].a \in Assignments /\ workers[s].scope \in Scopes
           /\ rows[workers[s].a].state # "absent"
    /\ \A p \in Procs, a \in Assignments :
           view[p][a].phase # None => rows[a].state # "absent"

TypeInv == TypeOK /\ RowsKnown

(* The initial state is well typed.                                        *)
LEMMA TypeInit == Init => TypeInv
<1> SUFFICES ASSUME Init PROVE TypeInv
  OBVIOUS
<1>1. Absent \in Rows /\ Absent.state = "absent" /\ Absent.from = None
  BY TimesInRange DEF Absent, Rows, States, Reasons
<1>2. NoWorker \in Workers /\ NoWorker.pc = "free"
  BY TimesAssumption DEF NoWorker, Workers, LiveSteps
<1>3. NoView \in Views /\ NoView.phase = None
  BY DEF NoView, Views, States
<1>4. TypeOK
  <2>1. rows \in [Assignments -> Rows] /\ workers \in [Slots -> Workers]
        /\ view \in [Procs -> [Assignments -> Views]]
    BY <1>1, <1>2, <1>3 DEF Init, Nothing
  <2>2. inbox \in Seq(Requests) /\ batch \in 0 .. Len(inbox)
    BY DEF Init
  <2>3. loop \in [Procs -> {"head", "controls", "intake", "bridge", "reap", "release",
                            "dispatch", "draining", "down", "idle"}]
    BY DEF Init
  <2>4. crashes \in 0 .. MaxCrashes /\ raises \in 0 .. MaxRaises /\ sent \in 0 .. MaxRequests
    BY BoundsAssumption DEF Init
  <2>5. world \in [Assignments -> [scope : Scopes \cup {None}, issue : BOOLEAN,
                                   phase : Phases \cup {None}, evidence : BOOLEAN]]
    BY DEF Init
  <2>6. /\ keys \subseteq Assignments \X Scopes \X Nat
        /\ validated \in [Assignments -> {"none", "partial", "all", "overtaken"}]
        /\ told \in [Assignments -> {None, "cancel", "idle"}]
    BY DEF Init
  <2> QED BY <2>1, <2>2, <2>3, <2>4, <2>5, <2>6 DEF TypeOK
<1>5. RowsKnown
  <2>1. /\ \A a \in Assignments : rows[a] = Absent
        /\ \A s \in Slots : workers[s] = NoWorker
        /\ \A p \in Procs, a \in Assignments : view[p][a] = NoView
    BY DEF Init, Nothing
  <2>2. \A s \in Slots : ~Busy(s)
    BY <1>2, <2>1 DEF Busy, LiveSteps
  <2>3. None \notin Terminal \cup {"absent", "paused"}
    BY DEF None, Terminal
  <2> QED BY <1>1, <1>3, <2>1, <2>2, <2>3 DEF RowsKnown
<1> QED BY <1>4, <1>5 DEF TypeInv

\* Rows stay in the table, with a text and a state to go back to.
RowsKept ==
    \A a \in Assignments :
        /\ rows[a].state # "absent" => rows'[a].state # "absent"
        /\ rows'[a].state # "absent" => rows'[a].scope \in Scopes
        /\ rows'[a].from \notin Terminal \cup {"absent", "paused"}

\* A thread that is busy goes on with what it had.
ThreadsGoOn ==
    \A s \in Slots : Busy(s)' =>
        Busy(s) /\ workers'[s].a = workers[s].a /\ workers'[s].scope = workers[s].scope

(* What is known of the rows stays known.                                  *)
LEMMA KnownStep ==
  ASSUME TypeInv, RowsKept,
         \A s \in Slots : Busy(s)' =>
             \/ /\ Busy(s) /\ workers'[s].a = workers[s].a
                /\ workers'[s].scope = workers[s].scope
             \/ /\ workers'[s].a \in Assignments /\ workers'[s].scope \in Scopes
                /\ rows[workers'[s].a].state # "absent",
         \A p \in Procs, a \in Assignments :
             view'[p][a].phase # None => view[p][a].phase # None \/ rows[a].state # "absent"
  PROVE  RowsKnown'
BY DEF TypeInv, RowsKnown, RowsKept

(* One row is written, with the same work or new work of the roadmap.      *)
LEMMA RowWritten ==
  ASSUME TypeInv, NEW a \in Assignments, NEW n \in Rows, rows' = [rows EXCEPT ![a] = n],
         n.state # "absent", n.scope \in Scopes, n.from \notin Terminal \cup {"absent", "paused"}
  PROVE  RowsKept /\ rows' \in [Assignments -> Rows]
<1>1. rows \in [Assignments -> Rows]
  BY DEF TypeInv, TypeOK
<1>2. rows' \in [Assignments -> Rows] /\ rows'[a] = n
      /\ \A b \in Assignments \ {a} : rows'[b] = rows[b]
  BY <1>1
<1>3. ASSUME NEW b \in Assignments
      PROVE  /\ rows[b].state # "absent" => rows'[b].state # "absent"
             /\ rows'[b].state # "absent" => rows'[b].scope \in Scopes
             /\ rows'[b].from \notin Terminal \cup {"absent", "paused"}
  <2>1. CASE b = a
    BY <1>2, <2>1
  <2>2. CASE b # a
    BY <1>2, <2>2 DEF TypeInv, RowsKnown
  <2> QED BY <2>1, <2>2
<1> QED BY <1>2, <1>3 DEF RowsKept

(* No row is written.                                                      *)
LEMMA NoRowWritten ==
  ASSUME TypeInv, rows' = rows
  PROVE  RowsKept
BY DEF TypeInv, RowsKnown, RowsKept

(* The control requests stay requests when their verdicts are written.     *)
LEMMA InboxType ==
  ASSUME TypeInv
  PROVE  /\ Forgotten \in Seq(Requests)
         /\ \A v \in {"applied", "rejected"} : Len(inbox) > 0 =>
                /\ [inbox EXCEPT ![1].verdict = v] \in Seq(Requests)
                /\ Len([inbox EXCEPT ![1].verdict = v]) = Len(inbox)
         /\ inbox # <<>> => inbox[1] \in Requests
<1>1. inbox \in Seq(Requests) /\ Len(inbox) \in Nat
      /\ \A i \in 1 .. Len(inbox) : inbox[i] \in Requests
  BY DEF TypeInv, TypeOK
<1>2. \A q \in Requests, v \in {None, "applied", "rejected"} :
          [q EXCEPT !.verdict = v] \in Requests
  BY DEF Requests
<1>3. Forgotten \in Seq(Requests)
  <2>1. \A i \in 1 .. Len(inbox) : [inbox[i] EXCEPT !.verdict = None] \in Requests
    BY <1>1, <1>2
  <2>2. DOMAIN inbox = 1 .. Len(inbox)
    BY <1>1
  <2> QED BY <1>1, <2>1, <2>2 DEF Forgotten
<1>4. ASSUME NEW v \in {"applied", "rejected"}, Len(inbox) > 0
      PROVE  /\ [inbox EXCEPT ![1].verdict = v] \in Seq(Requests)
             /\ Len([inbox EXCEPT ![1].verdict = v]) = Len(inbox)
  <2> DEFINE q == [inbox[1] EXCEPT !.verdict = v]
  <2>1. inbox[1] \in Requests
    BY <1>1, <1>4
  <2>2. q \in Requests
    BY <1>2, <2>1
  <2>3. [inbox EXCEPT ![1].verdict = v] = [inbox EXCEPT ![1] = q]
    BY <1>1
  <2> HIDE DEF q
  <2> QED BY <1>1, <1>4, <2>2, <2>3
<1>5. inbox # <<>> => inbox[1] \in Requests
  BY <1>1
<1> QED BY <1>3, <1>4, <1>5

(* A control that is applied is one of the inbox, to a row of the table.   *)
LEMMA ApplyControlType ==
  ASSUME TypeInv, ApplyControl
  PROVE  TypeInv'
<1> DEFINE q == inbox[1]
           refused == ControlRefused(rows[q.a], q.act)
           r == Controlled(rows[q.a], q.act, q.prio)
<1>1. Len(inbox) > 0 /\ q \in Requests /\ Len(inbox) \in Nat
  BY InboxType DEF ApplyControl, TypeInv, TypeOK
<1>2. q.a \in Assignments /\ q.act \in Actions /\ q.prio \in Priorities
  BY <1>1 DEF Requests
<1>3. rows[q.a] \in Rows
  BY <1>2 DEF TypeInv, TypeOK
<1>4. rows' \in [Assignments -> Rows] /\ RowsKept
  <2>1. CASE refused
    <3>1. rows' = rows
      BY <2>1 DEF ApplyControl
    <3> QED BY <3>1, NoRowWritten DEF TypeInv, TypeOK
  <2>2. CASE ~refused
    <3>1. rows' = [rows EXCEPT ![q.a] = r]
      BY <2>2 DEF ApplyControl
    <3>2. /\ r \in Rows /\ r.scope = rows[q.a].scope /\ rows[q.a].state # "absent"
          /\ r.state # "absent" /\ r.from \notin Terminal \cup {"absent", "paused"}
      <4>1. rows[q.a].from \notin Terminal \cup {"absent", "paused"}
        BY <1>2 DEF TypeInv, RowsKnown
      <4>2. None \notin Terminal \cup {"absent", "paused"} /\ "running" \notin Terminal \cup {"absent", "paused"}
        BY DEF None, Terminal
      <4> HIDE DEF q, refused
      <4>3. /\ r \in Rows /\ r.scope = rows[q.a].scope /\ rows[q.a].state # "absent"
        BY <1>2, <1>3, <2>2, ControlledRow DEF SameWork, refused
      <4>4. CASE r = Paused(rows[q.a]) /\ ~ControlRefused(rows[q.a], "pause")
        BY <1>3, <4>1, <4>2, <4>3, <4>4, PausedRow DEF SameWork
      <4>5. CASE r = Resumed(rows[q.a])
        BY <1>3, <4>1, <4>2, <4>3, <4>5, ResumedRow DEF SameWork
      <4>6. CASE r = Cancelled(rows[q.a])
        BY <1>3, <4>1, <4>2, <4>3, <4>6, CancelledRow DEF SameWork
      <4>7. CASE r.state = rows[q.a].state /\ r.from = rows[q.a].from
        BY <4>1, <4>3, <4>7
      <4> QED BY <1>2, <1>3, <2>2, <4>3, <4>4, <4>5, <4>6, <4>7, ControlledRow DEF refused
    <3>3. r.scope \in Scopes
      BY <1>2, <3>2 DEF TypeInv, RowsKnown
    <3> HIDE DEF q, r
    <3> QED BY <1>2, <3>1, <3>2, <3>3, RowWritten
  <2> QED BY <2>1, <2>2
<1>5. told' \in [Assignments -> {None, "cancel", "idle"}]
  <2>1. told \in [Assignments -> {None, "cancel", "idle"}]
    BY DEF TypeInv, TypeOK
  <2>2. Told(q.a, q.act, r) \in {None, "cancel", "idle"}
    <3>1. told[q.a] \in {None, "cancel", "idle"}
      BY <1>2, <2>1
    <3> HIDE DEF q, r
    <3> QED BY <3>1 DEF Told
  <2> QED BY <2>1, <2>2 DEF ApplyControl
<1>6. inbox' \in Seq(Requests) /\ Len(inbox') = Len(inbox)
  BY <1>1, InboxType DEF ApplyControl
<1>7. TypeOK'
  BY <1>4, <1>5, <1>6 DEF ApplyControl, TypeInv, TypeOK, env
<1>8. RowsKnown'
  BY <1>4, KnownStep DEF ApplyControl, Busy
<1> QED BY <1>7, <1>8 DEF TypeInv

(* An intake upserts what its listing says of an item.                     *)
LEMMA IntakeType ==
  ASSUME TypeInv, NEW p \in Procs, NEW a \in Assignments, Intake(p, a)
  PROVE  TypeInv'
<1> DEFINE v == view[p][a]
           scope == v.scope
           issue == v.issue
           allowed == v.issue /\ v.scope \in Approved
           n == Upserted(rows[a], a, scope, issue, allowed)
<1>1. rows[a] \in Rows /\ v \in Views /\ v.scope # None
  BY DEF Intake, TypeInv, TypeOK
<1>2. scope \in Scopes /\ issue \in BOOLEAN /\ allowed \in BOOLEAN
  BY <1>1 DEF Views
<1>3. rows' = [rows EXCEPT ![a] = n]
  BY DEF Intake, TypeInv, TypeOK
<1>4. /\ n \in Rows /\ n.from = rows[a].from /\ n.state # "absent"
      /\ n.scope \in {scope, rows[a].scope}
      /\ n.scope = scope \/ rows[a].state # "absent"
  <2> HIDE DEF v, scope, issue, allowed
  <2> QED BY <1>1, <1>2, UpsertedRow
<1>5. n.scope \in Scopes /\ n.from \notin Terminal \cup {"absent", "paused"}
  <2>1. rows[a].state # "absent" => rows[a].scope \in Scopes
    BY DEF TypeInv, RowsKnown
  <2>2. rows[a].from \notin Terminal \cup {"absent", "paused"}
    BY DEF TypeInv, RowsKnown
  <2> HIDE DEF n, scope
  <2> QED BY <1>2, <1>4, <2>1, <2>2
<1>6. rows' \in [Assignments -> Rows] /\ RowsKept
  <2> HIDE DEF n
  <2> QED BY <1>3, <1>4, <1>5, RowWritten
<1>7. /\ view' \in [Procs -> [Assignments -> Views]]
      /\ \A o \in Procs, b \in Assignments :
             view'[o][b].phase # None => view[o][b].phase # None
  <2>1. NoView \in Views /\ NoView.phase = None
    BY DEF NoView, Views, States
  <2>2. view' = [view EXCEPT ![p][a] = NoView] /\ view \in [Procs -> [Assignments -> Views]]
    BY DEF Intake, TypeInv, TypeOK
  <2> QED BY <2>1, <2>2
<1>8. TypeOK'
  BY <1>6, <1>7 DEF Intake, TypeInv, TypeOK, env
<1>9. RowsKnown'
  BY <1>6, <1>7, KnownStep DEF Intake, Busy
<1> QED BY <1>8, <1>9 DEF TypeInv

(* A bridge update writes what was listed and verified.                    *)
LEMMA BridgeUpdateType ==
  ASSUME TypeInv, NEW p \in Procs, NEW a \in Assignments, BridgeUpdate(p, a)
  PROVE  TypeInv'
<1> DEFINE n == BridgeUpdates(rows[a], view[p][a].state, view[p][a].phase)
<1>1. rows[a] \in Rows /\ view[p][a].phase # None /\ rows' = [rows EXCEPT ![a] = n]
  BY DEF BridgeUpdate, TypeInv, TypeOK
<1>2. /\ rows[a].state # "absent" /\ rows[a].scope \in Scopes
      /\ rows[a].from \notin Terminal \cup {"absent", "paused"}
  BY <1>1 DEF TypeInv, RowsKnown
<1>3. /\ n \in Rows /\ n.from = rows[a].from /\ n.scope = rows[a].scope
      /\ n.state # "absent"
  BY <1>1, <1>2, BridgedRow DEF SameWork, Idle
<1>4. rows' \in [Assignments -> Rows] /\ RowsKept
  <2> HIDE DEF n
  <2> QED BY <1>1, <1>2, <1>3, RowWritten
<1>5. /\ view' \in [Procs -> [Assignments -> Views]]
      /\ \A o \in Procs, b \in Assignments :
             view'[o][b].phase # None => view[o][b].phase # None
  <2>1. NoView \in Views /\ NoView.phase = None
    BY DEF NoView, Views, States
  <2>2. view' = [view EXCEPT ![p][a] = NoView] /\ view \in [Procs -> [Assignments -> Views]]
    BY DEF BridgeUpdate, TypeInv, TypeOK
  <2> QED BY <2>1, <2>2
<1>6. TypeOK'
  BY <1>4, <1>5 DEF BridgeUpdate, TypeInv, TypeOK, env
<1>7. RowsKnown'
  BY <1>4, <1>5, KnownStep DEF BridgeUpdate, Busy
<1> QED BY <1>6, <1>7 DEF TypeInv

\* The steps that write neither a row nor a thread.  The loop comes to the
\* release of leases only when all threads that raised are reaped.
Still ==
    /\ UNCHANGED <<rows, keys, workers, told>>
    /\ loop'["service"] = "release" =>
           loop["service"] = "release" \/ \A s \in Slots : workers[s].pc # "raised"

(* The steps of the loop, the listings and the environment that are still. *)
LEMMA StillType ==
  ASSUME TypeInv,
         \/ CycleStarts \/ WriteAnswer \/ Reaped \/ DispatchDone \/ Restart \/ Stop
         \/ \E p \in Procs : StartIntake(p) \/ StartBridge(p) \/ BridgeDone(p)
         \/ \E p \in Procs, a \in Assignments : BridgeVerify(p, a)
         \/ \E a \in Assignments : WorldMoves(a)
         \/ \E a \in Assignments, act \in Actions, prio \in Priorities : OwnerAsks(a, act, prio)
         \/ UNCHANGED vars
  PROVE  TypeInv' /\ Still
<1> USE ProcsAssumption
<1>0. ASSUME UNCHANGED <<rows, workers>>,
             \A p \in Procs, a \in Assignments :
                 view'[p][a].phase # None => view[p][a].phase # None \/ rows[a].state # "absent"
      PROVE  RowsKnown'
  BY <1>0, NoRowWritten, KnownStep DEF Busy
<1>1. NoView \in Views /\ NoView.phase = None
  BY DEF NoView, Views, States
<1>2. Nothing \in [Assignments -> Views] /\ \A a \in Assignments : Nothing[a].phase = None
  BY <1>1 DEF Nothing
<1>3. view \in [Procs -> [Assignments -> Views]]
  BY DEF TypeInv, TypeOK
<1>4. ASSUME CycleStarts PROVE TypeInv' /\ Still
  <2>1. Len(inbox) \in 0 .. Len(inbox)
    BY DEF TypeInv, TypeOK
  <2>2. TypeOK'
    BY <1>4, <2>1 DEF CycleStarts, TypeInv, TypeOK, env
  <2>3. RowsKnown'
    BY <1>0, <1>4 DEF CycleStarts
  <2> QED BY <1>4, <2>2, <2>3 DEF TypeInv, CycleStarts, Still, TypeOK
<1>5. ASSUME WriteAnswer PROVE TypeInv' /\ Still
  <2>1. inbox' \in Seq(Requests) /\ batch' \in 0 .. Len(inbox')
    BY <1>5 DEF WriteAnswer, TypeInv, TypeOK
  <2>2. TypeOK'
    BY <1>5, <2>1 DEF WriteAnswer, TypeInv, TypeOK, env
  <2>3. RowsKnown'
    BY <1>0, <1>5 DEF WriteAnswer
  <2> QED BY <1>5, <2>2, <2>3 DEF TypeInv, WriteAnswer, Still
<1>6. ASSUME Reaped \/ DispatchDone \/ Restart PROVE TypeInv' /\ Still
  <2>1. TypeOK'
    BY <1>6 DEF Reaped, DispatchDone, Restart, TypeInv, TypeOK, env
  <2>2. RowsKnown'
    BY <1>0, <1>6 DEF Reaped, DispatchDone, Restart
  <2>3. Still
    BY <1>6 DEF Reaped, DispatchDone, Restart, Still, TypeInv, TypeOK
  <2> QED BY <2>1, <2>2, <2>3 DEF TypeInv
<1>7. ASSUME Stop PROVE TypeInv' /\ Still
  <2>1. /\ view' \in [Procs -> [Assignments -> Views]]
        /\ \A p \in Procs, a \in Assignments :
               view'[p][a].phase # None => view[p][a].phase # None
    BY <1>2, <1>3, <1>7 DEF Stop
  <2>2. inbox' \in Seq(Requests) /\ batch' \in 0 .. Len(inbox')
    BY <1>7, InboxType DEF Stop
  <2>3. crashes' \in 0 .. MaxCrashes
    BY <1>7, BoundsAssumption DEF Stop, TypeInv, TypeOK
  <2>4. TypeOK'
    BY <1>7, <2>1, <2>2, <2>3 DEF Stop, TypeInv, TypeOK
  <2>5. RowsKnown'
    BY <1>0, <1>7, <2>1 DEF Stop
  <2> QED BY <1>7, <2>4, <2>5 DEF TypeInv, Stop, Still, TypeOK
<1>8. ASSUME NEW p \in Procs, StartIntake(p) PROVE TypeInv' /\ Still
  <2> DEFINE listing == [a \in Assignments |->
           [NoView EXCEPT !.scope = world[a].scope,
                          !.issue = p = "service" /\ world[a].issue]]
  <2>1. ASSUME NEW a \in Assignments PROVE listing[a] \in Views /\ listing[a].phase = None
    <3>1. world[a].scope \in Scopes \cup {None} /\ (p = "service" /\ world[a].issue) \in BOOLEAN
      BY DEF TypeInv, TypeOK
    <3> QED BY <1>1, <3>1 DEF NoView, Views
  <2>2. listing \in [Assignments -> Views]
    BY <2>1
  <2>3. view' = [view EXCEPT ![p] = listing]
    BY <1>8 DEF StartIntake
  <2> HIDE DEF listing
  <2>4. /\ view' \in [Procs -> [Assignments -> Views]]
        /\ \A o \in Procs, a \in Assignments :
               view'[o][a].phase # None => view[o][a].phase # None
    BY <1>3, <2>1, <2>2, <2>3
  <2>5. TypeOK'
    BY <1>8, <2>4 DEF StartIntake, TypeInv, TypeOK, env
  <2>6. RowsKnown'
    BY <1>0, <1>8, <2>4 DEF StartIntake
  <2>7. Still
    BY <1>8 DEF StartIntake, Still, TypeInv, TypeOK
  <2> QED BY <2>5, <2>6, <2>7 DEF TypeInv
<1>9. ASSUME NEW p \in Procs, StartBridge(p) PROVE TypeInv' /\ Still
  <2> DEFINE listing == [a \in Assignments |->
           IF rows[a].state = "absent" THEN NoView
           ELSE [NoView EXCEPT !.state = rows[a].state, !.phase = world[a].phase]]
  <2>1. ASSUME NEW a \in Assignments
        PROVE  listing[a] \in Views /\ (listing[a].phase # None => rows[a].state # "absent")
    <3>1. rows[a].state \in States /\ world[a].phase \in Phases \cup {None}
      BY DEF TypeInv, TypeOK, Rows
    <3>2. CASE rows[a].state = "absent"
      BY <1>1, <3>2 DEF NoView
    <3>3. CASE rows[a].state # "absent"
      <4>1. listing[a] = [NoView EXCEPT !.state = rows[a].state, !.phase = world[a].phase]
        BY <3>3
      <4> QED BY <1>1, <3>1, <3>3, <4>1 DEF Views
    <3> QED BY <3>2, <3>3
  <2>2. listing \in [Assignments -> Views]
    BY <2>1
  <2>3. view' = [view EXCEPT ![p] = listing]
    BY <1>9 DEF StartBridge
  <2> HIDE DEF listing
  <2>4. /\ view' \in [Procs -> [Assignments -> Views]]
        /\ \A o \in Procs, a \in Assignments :
               view'[o][a].phase # None => view[o][a].phase # None \/ rows[a].state # "absent"
    BY <1>3, <2>1, <2>2, <2>3
  <2>5. TypeOK'
    BY <1>9, <2>4 DEF StartBridge, TypeInv, TypeOK, env
  <2>6. RowsKnown'
    BY <1>0, <1>9, <2>4 DEF StartBridge
  <2>7. Still
    BY <1>9 DEF StartBridge, Still, TypeInv, TypeOK
  <2> QED BY <2>5, <2>6, <2>7 DEF TypeInv
<1>10. ASSUME NEW p \in Procs, BridgeDone(p) PROVE TypeInv' /\ Still
  <2>1. /\ view' \in [Procs -> [Assignments -> Views]]
        /\ \A o \in Procs, a \in Assignments :
               view'[o][a].phase # None => view[o][a].phase # None
    BY <1>2, <1>3, <1>10 DEF BridgeDone
  <2>2. TypeOK'
    BY <1>10, <2>1 DEF BridgeDone, TypeInv, TypeOK, env
  <2>3. RowsKnown'
    BY <1>0, <1>10, <2>1 DEF BridgeDone
  <2> QED BY <1>10, <2>2, <2>3 DEF TypeInv, BridgeDone, Still, TypeOK
<1>11. ASSUME NEW p \in Procs, NEW a \in Assignments, BridgeVerify(p, a) PROVE TypeInv' /\ Still
  <2> DEFINE v == [view[p][a] EXCEPT !.phase = IF ChecksPass(a) THEN "verified" ELSE "unverified"]
  <2>1. v \in Views /\ view[p][a].phase # None
    <3>1. view[p][a] \in Views /\ view[p][a].phase = "complete"
      BY <1>3, <1>11 DEF BridgeVerify
    <3>2. (IF ChecksPass(a) THEN "verified" ELSE "unverified")
             \in Phases \cup {None, "verified", "unverified"}
      OBVIOUS
    <3> QED BY <3>1, <3>2 DEF Views, None
  <2>2. view' = [view EXCEPT ![p] = [view[p] EXCEPT ![a] = v]]
    BY <1>3, <1>11 DEF BridgeVerify
  <2> HIDE DEF v
  <2>3. /\ view' \in [Procs -> [Assignments -> Views]]
        /\ \A o \in Procs, b \in Assignments :
               view'[o][b].phase # None => view[o][b].phase # None
    BY <1>3, <2>1, <2>2
  <2>4. TypeOK'
    <3>1. Recorded(p, a) \in {"none", "partial", "all", "overtaken"}
      BY DEF Recorded
    <3>2. validated' \in [Assignments -> {"none", "partial", "all", "overtaken"}]
      <4>1. validated \in [Assignments -> {"none", "partial", "all", "overtaken"}]
        BY DEF TypeInv, TypeOK
      <4>2. validated' = [validated EXCEPT ![a] = Recorded(p, a)]
        BY <1>11 DEF BridgeVerify
      <4> QED BY <3>1, <4>1, <4>2
    <3> QED BY <1>11, <2>3, <3>2 DEF BridgeVerify, TypeInv, TypeOK, env
  <2>5. RowsKnown'
    BY <1>0, <1>11, <2>3 DEF BridgeVerify
  <2> QED BY <1>11, <2>4, <2>5 DEF TypeInv, BridgeVerify, Still
<1>12. ASSUME NEW a \in Assignments, WorldMoves(a) PROVE TypeInv' /\ Still
  <2> DEFINE W == [scope : Scopes \cup {None}, issue : BOOLEAN,
                   phase : Phases \cup {None}, evidence : BOOLEAN]
  <2>1. world' \in [Assignments -> W]
    <3>1. world \in [Assignments -> W] /\ world[a] \in W
      BY DEF TypeInv, TypeOK
    <3>2. PICK w \in W : world' = [world EXCEPT ![a] = w]
      <4>1. CASE \E x \in Scopes \cup {None} : world' = [world EXCEPT ![a].scope = x]
        <5>1. PICK x \in Scopes \cup {None} : world' = [world EXCEPT ![a].scope = x]
          BY <4>1
        <5>2. [world[a] EXCEPT !.scope = x] \in W
          BY <3>1
        <5> QED BY <3>1, <5>1, <5>2
      <4>2. CASE world' = [world EXCEPT ![a].issue = ~@]
        <5>1. [world[a] EXCEPT !.issue = ~@] \in W
          BY <3>1
        <5> QED BY <3>1, <4>2, <5>1
      <4>3. CASE \E x \in Phases : world' = [world EXCEPT ![a].phase = x]
        <5>1. PICK x \in Phases : world' = [world EXCEPT ![a].phase = x]
          BY <4>3
        <5>2. [world[a] EXCEPT !.phase = x] \in W
          BY <3>1
        <5> QED BY <3>1, <5>1, <5>2
      <4>4. CASE world' = [world EXCEPT ![a].evidence = ~@]
        <5>1. [world[a] EXCEPT !.evidence = ~@] \in W
          BY <3>1
        <5> QED BY <3>1, <4>4, <5>1
      <4> QED BY <1>12, <4>1, <4>2, <4>3, <4>4 DEF WorldMoves
    <3> QED BY <3>1, <3>2
  <2>2. TypeOK'
    BY <1>12, <2>1 DEF WorldMoves, TypeInv, TypeOK
  <2>3. RowsKnown'
    BY <1>0, <1>12 DEF WorldMoves
  <2> QED BY <1>12, <2>2, <2>3 DEF TypeInv, WorldMoves, Still
<1>13. ASSUME NEW a \in Assignments, NEW act \in Actions, NEW prio \in Priorities,
              OwnerAsks(a, act, prio)
       PROVE  TypeInv' /\ Still
  <2>1. [a |-> a, act |-> act, prio |-> prio, verdict |-> None] \in Requests
    BY DEF Requests
  <2>2. inbox' \in Seq(Requests) /\ batch' \in 0 .. Len(inbox')
    BY <1>13, <2>1 DEF OwnerAsks, TypeInv, TypeOK
  <2>3. sent' \in 0 .. MaxRequests
    BY <1>13, BoundsAssumption DEF OwnerAsks, TypeInv, TypeOK
  <2>4. TypeOK'
    BY <1>13, <2>2, <2>3 DEF OwnerAsks, TypeInv, TypeOK
  <2>5. RowsKnown'
    BY <1>0, <1>13 DEF OwnerAsks
  <2> QED BY <1>13, <2>4, <2>5 DEF TypeInv, OwnerAsks, Still
<1>14. ASSUME UNCHANGED vars PROVE TypeInv' /\ Still
  BY <1>14 DEF vars, TypeInv, TypeOK, RowsKnown, Busy, Still
<1> QED BY <1>4, <1>5, <1>6, <1>7, <1>8, <1>9, <1>10, <1>11, <1>12, <1>13, <1>14

\* u is the thread w at another place of _run.
SameThread(w, u) ==
    /\ u \in Workers
    /\ u.a = w.a /\ u.scope = w.scope /\ u.issue = w.issue
    /\ u.attempts = w.attempts /\ u.run = w.run /\ u.late = w.late

\* Thread s is live and goes to pc, with its work and its time unchanged.
Moves(s, pc) ==
    /\ Live(s)
    /\ SameThread(workers[s], workers'[s]) /\ workers'[s].pc = pc
    /\ \A t \in Slots \ {s} : workers'[t] = workers[t]

(* A thread that moves is typed and does not become busy.                  *)
LEMMA MovesType ==
  ASSUME TypeInv, NEW s \in Slots, NEW pc, Moves(s, pc),
         workers' = [workers EXCEPT ![s] = workers'[s]]
  PROVE  workers' \in [Slots -> Workers] /\ ThreadsGoOn
<1>1. workers \in [Slots -> Workers]
  BY DEF TypeInv, TypeOK
<1>2. workers' \in [Slots -> Workers]
  BY <1>1 DEF Moves, SameThread
<1> QED BY <1>2 DEF Moves, SameThread, ThreadsGoOn, Busy, Live

(* The thread's subprocess ends, it reads, or it raises.                   *)
LEMMA ThreadType ==
  ASSUME TypeInv, NEW s \in Slots,
         (\E code \in {"ok", "fail"} : Exit(s, code)) \/ ReadState(s) \/ WorkerRaises(s)
  PROVE  /\ TypeInv'
         /\ UNCHANGED <<rows, keys, loop, told>>
         /\ \E pc \in {"read", "write", "raised"} : Moves(s, pc)
<1>0. workers \in [Slots -> Workers] /\ workers[s] \in Workers
  BY DEF TypeInv, TypeOK
<1>1. ASSUME NEW pc \in {"read", "write", "raised"}, Moves(s, pc),
             workers' = [workers EXCEPT ![s] = workers'[s]],
             raises' \in 0 .. MaxRaises,
             UNCHANGED <<rows, keys, validated, loop, view, inbox, batch, world, told, crashes, sent>>
      PROVE  TypeInv'
  <2>1. workers' \in [Slots -> Workers] /\ ThreadsGoOn
    BY <1>1, MovesType
  <2>2. TypeOK'
    BY <1>1, <2>1 DEF TypeInv, TypeOK
  <2>3. RowsKnown'
    BY <1>1, <2>1, NoRowWritten, KnownStep DEF ThreadsGoOn
  <2> QED BY <2>2, <2>3 DEF TypeInv
<1>2. ASSUME NEW code \in {"ok", "fail"}, Exit(s, code)
      PROVE  /\ Moves(s, "read") /\ workers' = [workers EXCEPT ![s] = workers'[s]]
             /\ UNCHANGED <<rows, keys, validated, loop, view, inbox, batch, told, env>>
  <2> DEFINE u == [workers[s] EXCEPT !.pc = "read", !.code = code]
  <2>1. u \in Workers /\ SameThread(workers[s], u) /\ u.pc = "read"
    BY <1>0 DEF Workers, SameThread, LiveSteps
  <2>2. workers' = [workers EXCEPT ![s] = u]
    BY <1>0, <1>2 DEF Exit
  <2> HIDE DEF u
  <2> QED BY <1>0, <1>2, <2>1, <2>2 DEF Exit, Moves, Live, LiveSteps
<1>3. ASSUME ReadState(s)
      PROVE  /\ Moves(s, "write") /\ workers' = [workers EXCEPT ![s] = workers'[s]]
             /\ UNCHANGED <<rows, keys, validated, loop, view, inbox, batch, told, env>>
  <2> DEFINE u == [workers[s] EXCEPT !.pc = "write", !.read = rows[workers[s].a].state]
  <2>1. workers[s].a \in Assignments
    BY <1>3 DEF TypeInv, RowsKnown, Busy, ReadState, LiveSteps
  <2>2. rows[workers[s].a].state \in States
    BY <2>1 DEF TypeInv, TypeOK, Rows
  <2>3. u \in Workers /\ SameThread(workers[s], u) /\ u.pc = "write"
    BY <1>0, <2>2 DEF Workers, SameThread, LiveSteps
  <2>4. workers' = [workers EXCEPT ![s] = u]
    BY <1>0, <1>3 DEF ReadState
  <2> HIDE DEF u
  <2> QED BY <1>0, <1>3, <2>3, <2>4 DEF ReadState, Moves, Live, LiveSteps
<1>4. ASSUME WorkerRaises(s)
      PROVE  /\ Moves(s, "raised") /\ workers' = [workers EXCEPT ![s] = workers'[s]]
             /\ raises' \in 0 .. MaxRaises
             /\ UNCHANGED <<rows, keys, validated, loop, view, inbox, batch, world, told,
                            crashes, sent>>
  <2> DEFINE u == [workers[s] EXCEPT !.pc = "raised"]
  <2>1. u \in Workers /\ SameThread(workers[s], u) /\ u.pc = "raised"
    BY <1>0 DEF Workers, SameThread, LiveSteps
  <2>2. workers' = [workers EXCEPT ![s] = u]
    BY <1>0, <1>4 DEF WorkerRaises
  <2>3. raises' \in 0 .. MaxRaises
    BY <1>4, BoundsAssumption DEF WorkerRaises, TypeInv, TypeOK
  <2> HIDE DEF u
  <2> QED BY <1>0, <1>4, <2>1, <2>2, <2>3 DEF WorkerRaises, Moves
<1>5. raises \in 0 .. MaxRaises
  BY DEF TypeInv, TypeOK
<1>6. CASE \E code \in {"ok", "fail"} : Exit(s, code)
  BY <1>1, <1>2, <1>5, <1>6 DEF env
<1>7. CASE ReadState(s)
  BY <1>1, <1>3, <1>5, <1>7 DEF env
<1>8. CASE WorkerRaises(s)
  BY <1>1, <1>4, <1>8
<1> QED BY <1>6, <1>7, <1>8

(* A thread records its key and starts, or blocks its row and ends.        *)
LEMMA StartType ==
  ASSUME TypeInv, NEW s \in Slots, Start(s)
  PROVE  /\ TypeInv' /\ UNCHANGED <<loop, told>> /\ workers[s].pc = "start"
         /\ keys' = IF workers[s].issue THEN keys \cup {Key(workers[s])} ELSE keys
         /\ \/ Moves(s, "exec") /\ rows' = rows
            \/ /\ Moves(s, "done")
               /\ rows' = [rows EXCEPT ![workers[s].a] =
                               Updated(rows[workers[s].a], "blocked", FALSE, "dispatch", 0)]
<1> DEFINE w == workers[s]
           b == w.a
           n == Updated(rows[b], "blocked", FALSE, "dispatch", 0)
           refused == ~w.issue \/ Key(w) \in keys
           u == [w EXCEPT !.pc = IF refused THEN "done" ELSE "exec"]
<1>0. workers \in [Slots -> Workers] /\ w \in Workers /\ rows \in [Assignments -> Rows]
  BY DEF TypeInv, TypeOK
<1>1. w.pc = "start" /\ Live(s)
  BY DEF Start, Live, LiveSteps
<1>2. b \in Assignments /\ w.scope \in Scopes /\ rows[b].state # "absent"
  BY <1>1 DEF TypeInv, RowsKnown, Busy, Live
<1>3. u \in Workers /\ SameThread(w, u) /\ u.pc = IF refused THEN "done" ELSE "exec"
  <2>1. (IF refused THEN "done" ELSE "exec") \in LiveSteps \cup {"free", "done", "raised"}
    BY DEF LiveSteps
  <2> HIDE DEF refused, w
  <2> QED BY <1>0, <2>1 DEF Workers, SameThread
<1>4. workers' = [workers EXCEPT ![s] = u]
  BY <1>0 DEF Start
<1>5. rows' = IF refused THEN [rows EXCEPT ![b] = n] ELSE rows
  BY <1>0, <1>2 DEF Start
<1>6. keys' = IF w.issue THEN keys \cup {Key(w)} ELSE keys
  BY DEF Start
<1>7. keys' \subseteq Assignments \X Scopes \X Nat
  <2>1. Key(w) \in Assignments \X Scopes \X Nat
    BY <1>0, <1>2 DEF Key, Workers
  <2> QED BY <1>6, <2>1 DEF TypeInv, TypeOK
<1>8. /\ n \in Rows /\ n.state = "blocked" /\ n.scope = rows[b].scope /\ n.from = rows[b].from
  <2>1. rows[b] \in Rows
    BY <1>0, <1>2
  <2> HIDE DEF b
  <2> QED BY <2>1, UpdatedRow DEF SameWork
<1>9. Moves(s, u.pc)
  <2> HIDE DEF u
  <2> QED BY <1>0, <1>1, <1>3, <1>4 DEF Moves
<1>10. workers' \in [Slots -> Workers] /\ ThreadsGoOn
  <2>1. workers' = [workers EXCEPT ![s] = workers'[s]]
    BY <1>0, <1>4
  <2> HIDE DEF u
  <2> QED BY <1>9, <2>1, MovesType
<1>11. rows' \in [Assignments -> Rows] /\ RowsKept
  <2>1. rows[b].scope \in Scopes /\ rows[b].from \notin Terminal \cup {"absent", "paused"}
    BY <1>2 DEF TypeInv, RowsKnown
  <2>2. CASE refused
    <3>1. rows' = [rows EXCEPT ![b] = n]
      BY <1>5, <2>2
    <3> HIDE DEF n, b
    <3> QED BY <1>2, <1>8, <2>1, <3>1, RowWritten
  <2>3. CASE ~refused
    BY <1>0, <1>5, <2>3, NoRowWritten
  <2> QED BY <2>2, <2>3
<1>12. TypeOK'
  BY <1>7, <1>10, <1>11 DEF Start, TypeInv, TypeOK, env
<1>13. RowsKnown'
  BY <1>10, <1>11, KnownStep DEF Start, ThreadsGoOn
<1>14. \/ Moves(s, "exec") /\ rows' = rows
       \/ Moves(s, "done") /\ rows' = [rows EXCEPT ![b] = n]
  BY <1>3, <1>5, <1>9
<1> QED BY <1>1, <1>6, <1>12, <1>13, <1>14 DEF TypeInv, Start

(* A thread writes its outcome to its row and ends.                        *)
LEMMA WriteOutcomeType ==
  ASSUME TypeInv, NEW s \in Slots, WriteOutcome(s)
  PROVE  /\ TypeInv' /\ UNCHANGED <<keys, loop, told>> /\ Moves(s, "done")
         /\ rows' = [rows EXCEPT ![workers[s].a] = Outcome(rows[workers[s].a], workers[s])]
<1> DEFINE w == workers[s]
           b == w.a
           n == Outcome(rows[b], w)
           u == [w EXCEPT !.pc = "done"]
<1>0. workers \in [Slots -> Workers] /\ w \in Workers /\ rows \in [Assignments -> Rows]
  BY DEF TypeInv, TypeOK
<1>1. Live(s)
  BY DEF WriteOutcome, Live, LiveSteps
<1>2. b \in Assignments /\ rows[b] \in Rows /\ rows[b].state # "absent"
  BY <1>0, <1>1 DEF TypeInv, RowsKnown, Busy, Live
<1>3. u \in Workers /\ SameThread(w, u) /\ u.pc = "done"
  BY <1>0 DEF Workers, SameThread
<1>4. workers' = [workers EXCEPT ![s] = u] /\ rows' = [rows EXCEPT ![b] = n]
  BY <1>0, <1>2 DEF WriteOutcome
<1>5. n \in Rows /\ n.state # "absent" /\ n.scope = rows[b].scope /\ n.from = rows[b].from
  <2> HIDE DEF w, b
  <2> QED BY <1>0, <1>2, OutcomeRow DEF SameWork
<1>6. Moves(s, "done")
  <2> HIDE DEF u
  <2> QED BY <1>0, <1>1, <1>3, <1>4 DEF Moves
<1>7. workers' \in [Slots -> Workers] /\ ThreadsGoOn
  <2>1. workers' = [workers EXCEPT ![s] = workers'[s]]
    BY <1>0, <1>4
  <2> QED BY <1>6, <2>1, MovesType
<1>8. rows' \in [Assignments -> Rows] /\ RowsKept
  <2>1. rows[b].scope \in Scopes /\ rows[b].from \notin Terminal \cup {"absent", "paused"}
    BY <1>2 DEF TypeInv, RowsKnown
  <2> HIDE DEF n, b
  <2> QED BY <1>2, <1>4, <1>5, <2>1, RowWritten
<1>9. TypeOK'
  BY <1>7, <1>8 DEF WriteOutcome, TypeInv, TypeOK, env
<1>10. RowsKnown'
  BY <1>7, <1>8, KnownStep DEF WriteOutcome, ThreadsGoOn
<1> QED BY <1>4, <1>6, <1>9, <1>10 DEF TypeInv, WriteOutcome

(* A slot without a thread.                                                *)
LEMMA FreeSlot == NoWorker \in Workers /\ NoWorker.pc = "free"
BY TimesAssumption DEF NoWorker, Workers, LiveSteps

(* Reaping frees the slot, and gives back the row of a thread that raised. *)
LEMMA ReapType ==
  ASSUME TypeInv, NEW s \in Slots, Reap(s)
  PROVE  /\ TypeInv' /\ UNCHANGED <<keys, loop, told>> /\ ~Live(s)
         /\ workers' = [workers EXCEPT ![s] = NoWorker]
         /\ \/ rows' = rows
            \/ /\ workers[s].pc = "raised"
               /\ rows' = [rows EXCEPT ![workers[s].a] =
                               Updated(rows[workers[s].a], "retry_ready", TRUE, "exception", 0)]
<1> DEFINE b == workers[s].a
           n == Updated(rows[b], "retry_ready", TRUE, "exception", 0)
<1>0. workers \in [Slots -> Workers] /\ rows \in [Assignments -> Rows]
  BY DEF TypeInv, TypeOK
<1>1. workers' = [workers EXCEPT ![s] = NoWorker] /\ ~Live(s)
  BY DEF Reap, Live, LiveSteps
<1>2. workers' \in [Slots -> Workers] /\ ThreadsGoOn
  BY <1>0, <1>1, FreeSlot DEF ThreadsGoOn, Busy, LiveSteps
<1>3. CASE workers[s].pc = "raised"
  <2>1. b \in Assignments /\ rows[b] \in Rows /\ rows[b].state # "absent"
    BY <1>0, <1>3 DEF TypeInv, RowsKnown, Busy
  <2>2. rows' = [rows EXCEPT ![b] = n]
    BY <1>0, <1>3, <2>1 DEF Reap
  <2>3. /\ n \in Rows /\ n.state = "retry_ready" /\ n.scope = rows[b].scope
        /\ n.from = rows[b].from
    <3> HIDE DEF b
    <3> QED BY <2>1, UpdatedRow DEF SameWork
  <2>4. rows[b].scope \in Scopes /\ rows[b].from \notin Terminal \cup {"absent", "paused"}
    BY <2>1 DEF TypeInv, RowsKnown
  <2>5. rows' \in [Assignments -> Rows] /\ RowsKept
    <3> HIDE DEF n, b
    <3> QED BY <2>1, <2>2, <2>3, <2>4, RowWritten
  <2>6. TypeOK'
    BY <1>2, <2>5 DEF Reap, TypeInv, TypeOK, env
  <2>7. RowsKnown'
    BY <1>2, <2>5, KnownStep DEF Reap, ThreadsGoOn
  <2> QED BY <1>1, <1>3, <2>2, <2>6, <2>7 DEF TypeInv, Reap
<1>4. CASE workers[s].pc # "raised"
  <2>1. rows' = rows
    BY <1>4 DEF Reap
  <2>2. TypeOK'
    BY <1>2, <2>1 DEF Reap, TypeInv, TypeOK, env
  <2>3. RowsKnown'
    BY <1>2, <2>1, NoRowWritten, KnownStep DEF Reap, ThreadsGoOn
  <2> QED BY <1>1, <2>1, <2>2, <2>3 DEF TypeInv, Reap
<1> QED BY <1>3, <1>4

(* Leases that ran out are released.                                       *)
LEMMA ReleaseType ==
  ASSUME TypeInv, ReleaseLeases
  PROVE  TypeInv'
<1>1. ASSUME NEW a \in Assignments
      PROVE  /\ rows'[a] = Released(rows[a]) /\ rows[a] \in Rows /\ rows'[a] \in Rows
             /\ rows'[a].scope = rows[a].scope /\ rows'[a].from = rows[a].from
             /\ \/ rows'[a].state = rows[a].state
                \/ rows[a].state = "running" /\ rows'[a].state = "retry_ready"
  <2>1. rows[a] \in Rows /\ rows'[a] = Released(rows[a])
    BY DEF ReleaseLeases, TypeInv, TypeOK
  <2> QED BY <2>1, ReleasedRow DEF SameWork
<1>2. rows' \in [Assignments -> Rows]
  <2>1. rows' = [a \in Assignments |-> rows'[a]]
    BY DEF ReleaseLeases
  <2> QED BY <1>1, <2>1
<1>3. RowsKept
  BY <1>1 DEF RowsKept, TypeInv, RowsKnown
<1>4. TypeOK'
  BY <1>2, ProcsAssumption DEF ReleaseLeases, TypeInv, TypeOK, env
<1>5. RowsKnown'
  BY <1>3, KnownStep DEF ReleaseLeases, Busy
<1> QED BY <1>4, <1>5 DEF TypeInv

(* A dispatch claims a due row for a free slot.                            *)
LEMMA DispatchType ==
  ASSUME TypeInv, NEW s \in Slots, NEW a \in Assignments, Dispatch(s, a)
  PROVE  /\ TypeInv' /\ UNCHANGED <<keys, loop, told>> /\ Claimable(a)
         /\ rows' = [rows EXCEPT ![a] = Claimed(rows[a])]
         /\ \A t \in Slots \ {s} : workers'[t] = workers[t]
         /\ workers'[s].pc = "start" /\ workers'[s].a = a
         /\ workers'[s].scope = rows[a].scope /\ workers'[s].issue = rows[a].issue
         /\ workers'[s].attempts = rows[a].attempts + 1
         /\ workers'[s].run = 0 /\ workers'[s].late = 0
<1> DEFINE n == Claimed(rows[a])
           u == [NoWorker EXCEPT !.pc = "start", !.a = a, !.scope = rows[a].scope,
                                 !.issue = rows[a].issue, !.attempts = rows'[a].attempts]
<1>0. workers \in [Slots -> Workers] /\ rows \in [Assignments -> Rows] /\ rows[a] \in Rows
  BY DEF TypeInv, TypeOK
<1>1. Claimable(a) /\ rows[a].state # "absent"
  BY DEF Dispatch, Next_up, Claimable
<1>2. rows[a].scope \in Scopes /\ rows[a].from \notin Terminal \cup {"absent", "paused"}
  BY <1>1 DEF TypeInv, RowsKnown
<1>3. rows' = [rows EXCEPT ![a] = n] /\ workers' = [workers EXCEPT ![s] = u]
  BY <1>0 DEF Dispatch
<1>4. /\ n \in Rows /\ n.state = "running" /\ n.scope = rows[a].scope /\ n.from = rows[a].from
      /\ n.attempts = rows[a].attempts + 1
  BY <1>0, ClaimedRow
<1>5. rows' \in [Assignments -> Rows] /\ RowsKept /\ rows'[a] = n
  <2> HIDE DEF n
  <2> QED BY <1>0, <1>2, <1>3, <1>4, RowWritten
<1>6. /\ u \in Workers /\ u.pc = "start" /\ u.a = a /\ u.scope = rows[a].scope
      /\ u.issue = rows[a].issue /\ u.attempts = rows[a].attempts + 1
      /\ u.run = 0 /\ u.late = 0
  <2>1. rows[a].issue \in BOOLEAN
    BY <1>0 DEF Rows
  <2>2. rows'[a].attempts \in Nat /\ rows'[a].attempts = rows[a].attempts + 1
    BY <1>4, <1>5 DEF Rows
  <2> HIDE DEF n
  <2> QED BY <1>2, <2>1, <2>2, FreeSlot DEF Workers, LiveSteps, NoWorker
<1>7. /\ workers' \in [Slots -> Workers] /\ workers'[s] = u
      /\ \A t \in Slots \ {s} : workers'[t] = workers[t]
  <2> HIDE DEF u
  <2> QED BY <1>0, <1>3, <1>6
<1>8. TypeOK'
  BY <1>5, <1>7 DEF Dispatch, TypeInv, TypeOK, env
<1>9. RowsKnown'
  <2> HIDE DEF u, n
  <2>1. \A t \in Slots : Busy(t)' =>
             \/ /\ Busy(t) /\ workers'[t].a = workers[t].a
                /\ workers'[t].scope = workers[t].scope
             \/ /\ workers'[t].a \in Assignments /\ workers'[t].scope \in Scopes
                /\ rows[workers'[t].a].state # "absent"
    BY <1>1, <1>2, <1>6, <1>7 DEF Busy
  <2> QED BY <1>5, <2>1, KnownStep DEF Dispatch
<1> HIDE DEF u
<1> QED BY <1>1, <1>3, <1>6, <1>7, <1>8, <1>9 DEF TypeInv, Dispatch

(* The threads are gone with the process, or after it waited for them.     *)
LEMMA GoneType ==
  ASSUME TypeInv, Drained \/ Crash
  PROVE  /\ TypeInv' /\ UNCHANGED <<rows, keys, told>> /\ loop'["service"] = "down"
         /\ \A s \in Slots : workers'[s] = NoWorker
<1> USE ProcsAssumption
<1>1. workers' \in [Slots -> Workers] /\ ThreadsGoOn /\ \A s \in Slots : workers'[s] = NoWorker
  BY FreeSlot DEF Drained, Crash, ThreadsGoOn, Busy, LiveSteps
<1>2. RowsKept
  BY NoRowWritten DEF Drained, Crash
<1>3. /\ view' \in [Procs -> [Assignments -> Views]]
      /\ \A p \in Procs, a \in Assignments :
             view'[p][a].phase # None => view[p][a].phase # None
  <2>1. view \in [Procs -> [Assignments -> Views]]
    BY DEF TypeInv, TypeOK
  <2>2. Nothing \in [Assignments -> Views] /\ \A a \in Assignments : Nothing[a].phase = None
    BY DEF Nothing, NoView, Views, States
  <2> QED BY <2>1, <2>2 DEF Drained, Crash
<1>4. inbox' \in Seq(Requests) /\ batch' \in 0 .. Len(inbox')
  <2>1. CASE Drained
    BY <2>1 DEF Drained, TypeInv, TypeOK
  <2>2. CASE Crash
    BY <2>2, InboxType DEF Crash
  <2> QED BY <2>1, <2>2
<1>5. crashes' \in 0 .. MaxCrashes
  BY BoundsAssumption DEF Drained, Crash, env, TypeInv, TypeOK
<1>6. TypeOK'
  <2>1. CASE Drained
    BY <1>1, <1>3, <1>4, <1>5, <2>1 DEF Drained, env, TypeInv, TypeOK
  <2>2. CASE Crash
    BY <1>1, <1>3, <1>4, <1>5, <2>2 DEF Crash, TypeInv, TypeOK
  <2> QED BY <2>1, <2>2
<1>7. RowsKnown'
  <2>1. \A s \in Slots : ~Busy(s)'
    BY <1>1, FreeSlot DEF Busy, LiveSteps
  <2> QED BY <1>2, <1>3, <2>1, KnownStep
<1>8. UNCHANGED <<rows, keys, told>> /\ loop'["service"] = "down"
  BY DEF Drained, Crash, TypeInv, TypeOK
<1> QED BY <1>1, <1>6, <1>7, <1>8 DEF TypeInv

(* A tick ages leases and delays, and counts against live threads.         *)
LEMMA TickType ==
  ASSUME TypeInv, Tick
  PROVE  /\ TypeInv' /\ UNCHANGED <<keys, loop, told>> /\ loop["service"] # "release"
         /\ \A a \in Assignments :
               /\ SameWork(rows[a], rows'[a])
               /\ rows'[a].state = rows[a].state /\ rows'[a].runnable = rows[a].runnable
               /\ rows'[a].from = rows[a].from /\ rows'[a].reason = rows[a].reason
               /\ rows'[a].lease = Aged(rows[a].lease)
         /\ \A s \in Slots :
               /\ workers'[s] \in Workers
               /\ workers'[s].pc = workers[s].pc /\ workers'[s].a = workers[s].a
               /\ workers'[s].scope = workers[s].scope /\ workers'[s].issue = workers[s].issue
               /\ workers'[s].attempts = workers[s].attempts
               /\ Live(s) => workers'[s].run + workers'[s].late = workers[s].run + workers[s].late + 1
<1> USE TimesAssumption
<1>1. ASSUME NEW a \in Assignments
      PROVE  /\ SameWork(rows[a], rows'[a])
             /\ rows'[a].state = rows[a].state /\ rows'[a].runnable = rows[a].runnable
             /\ rows'[a].from = rows[a].from /\ rows'[a].reason = rows[a].reason
             /\ rows'[a].lease = Aged(rows[a].lease)
  <2> DEFINE r == rows[a]
             l == Aged(r.lease)
             w == Aged(r.wait)
  <2>1. r \in Rows /\ rows'[a] = [r EXCEPT !.lease = l, !.wait = w]
    BY DEF Tick, TypeInv, TypeOK
  <2>2. l \in NoTime .. Lease /\ w \in 0 .. RetryDelay
    <3>1. r.lease \in NoTime .. Lease /\ r.wait \in 0 .. RetryDelay
      BY <2>1 DEF Rows
    <3> HIDE DEF r
    <3> QED BY <3>1, LeaseFacts DEF Aged
  <2> HIDE DEF r, l, w
  <2>3. /\ SameWork(r, rows'[a]) /\ rows'[a].state = r.state /\ rows'[a].runnable = r.runnable
        /\ rows'[a].from = r.from /\ rows'[a].reason = r.reason /\ rows'[a].lease = l
    BY <2>1, <2>2 DEF Rows, SameWork
  <2> QED BY <2>3 DEF r, l
<1>2. ASSUME NEW s \in Slots
      PROVE  /\ workers'[s] \in Workers
             /\ workers'[s].pc = workers[s].pc /\ workers'[s].a = workers[s].a
             /\ workers'[s].scope = workers[s].scope /\ workers'[s].issue = workers[s].issue
             /\ workers'[s].attempts = workers[s].attempts
             /\ Live(s) => workers'[s].run + workers'[s].late = workers[s].run + workers[s].late + 1
  <2> DEFINE w == workers[s]
  <2>0. w \in Workers
    BY DEF TypeInv, TypeOK
  <2>1. w.run \in 0 .. Timeout /\ w.late \in 0 .. Slack
    BY <2>0 DEF Workers
  <2>2. CASE w.pc = "exec"
    <3>1. workers'[s] = [w EXCEPT !.run = w.run + 1] /\ w.run < Timeout
      BY <2>2 DEF Tick
    <3>2. w.run + 1 \in 0 .. Timeout /\ w.run \in Nat /\ w.late \in Nat
      BY <2>1, <3>1
    <3> HIDE DEF w
    <3>3. /\ workers'[s] \in Workers /\ workers'[s].pc = w.pc /\ workers'[s].a = w.a
          /\ workers'[s].scope = w.scope /\ workers'[s].issue = w.issue
          /\ workers'[s].attempts = w.attempts
          /\ workers'[s].run = w.run + 1 /\ workers'[s].late = w.late
      BY <2>0, <3>1, <3>2 DEF Workers
    <3>4. workers'[s].run + workers'[s].late = w.run + w.late + 1
      BY <3>2, <3>3
    <3> QED BY <3>3, <3>4 DEF w
  <2>3. CASE w.pc \in {"start", "read", "write"}
    <3>1. workers'[s] = [w EXCEPT !.late = w.late + 1] /\ w.late < Slack
      BY <2>3 DEF Tick
    <3>2. w.late + 1 \in 0 .. Slack /\ w.run \in Nat /\ w.late \in Nat
      BY <2>1, <3>1
    <3> HIDE DEF w
    <3>3. /\ workers'[s] \in Workers /\ workers'[s].pc = w.pc /\ workers'[s].a = w.a
          /\ workers'[s].scope = w.scope /\ workers'[s].issue = w.issue
          /\ workers'[s].attempts = w.attempts
          /\ workers'[s].run = w.run /\ workers'[s].late = w.late + 1
      BY <2>0, <3>1, <3>2 DEF Workers
    <3>4. workers'[s].run + workers'[s].late = w.run + w.late + 1
      BY <3>2, <3>3
    <3> QED BY <3>3, <3>4 DEF w
  <2>4. CASE w.pc \notin LiveSteps
    <3>1. workers'[s] = w
      BY <2>4 DEF Tick, LiveSteps
    <3> QED BY <2>0, <2>4, <3>1 DEF Live
  <2> QED BY <2>2, <2>3, <2>4 DEF LiveSteps
<1>3. rows' \in [Assignments -> Rows] /\ workers' \in [Slots -> Workers]
  <2>1. rows' = [a \in Assignments |-> rows'[a]] /\ workers' = [s \in Slots |-> workers'[s]]
    BY DEF Tick
  <2> QED BY <1>1, <1>2, <2>1 DEF SameWork
<1>4. TypeOK'
  BY <1>3 DEF Tick, TypeInv, TypeOK, env
<1>5. RowsKept
  BY <1>1 DEF RowsKept, SameWork, TypeInv, RowsKnown
<1>6. RowsKnown'
  BY <1>2, <1>5, KnownStep DEF Tick, Busy
<1> QED BY <1>1, <1>2, <1>4, <1>6 DEF TypeInv, Tick

(* What Next may do, with the still steps under one head.                  *)
LEMMA NextCases ==
  ASSUME TypeInv, [Next]_vars
  PROVE  \/ TypeInv' /\ Still
         \/ ApplyControl
         \/ \E p \in Procs, a \in Assignments : Intake(p, a)
         \/ \E p \in Procs, a \in Assignments : BridgeUpdate(p, a)
         \/ \E s \in Slots : Reap(s)
         \/ ReleaseLeases
         \/ \E s \in Slots, a \in Assignments : Dispatch(s, a)
         \/ \E s \in Slots : Start(s)
         \/ \E s \in Slots : (\E code \in {"ok", "fail"} : Exit(s, code))
                               \/ ReadState(s) \/ WorkerRaises(s)
         \/ \E s \in Slots : WriteOutcome(s)
         \/ Drained \/ Crash
         \/ Tick
<1>1. CASE ServiceStep
  BY <1>1, StillType DEF ServiceStep
<1>2. CASE \E p \in Procs : StartIntake(p) \/ ReconcileStep(p)
  BY <1>2, StillType DEF ReconcileStep
<1>3. CASE \E s \in Slots : WorkerStep(s)
  BY <1>3 DEF WorkerStep
<1>4. CASE Environment
  BY <1>4, StillType DEF Environment
<1>5. CASE UNCHANGED vars
  BY <1>5, StillType
<1> QED BY <1>1, <1>2, <1>3, <1>4, <1>5 DEF Next

(* Every step keeps the types.                                             *)
LEMMA TypeStep == TypeInv /\ [Next]_vars => TypeInv'
BY NextCases, ApplyControlType, IntakeType, BridgeUpdateType, ReapType, ReleaseType,
   DispatchType, StartType, ThreadType, WriteOutcomeType, GoneType, TickType

(* The table, the threads and the loop's memory are well typed in every    *)
(* reachable state: no operation of the store or the scheduler writes a    *)
(* row, key or listing that another could not read (store.py).             *)
THEOREM TypeCorrect == Spec => []TypeOK
<1>1. Spec => []TypeInv
  BY TypeInit, TypeStep, PTL DEF Spec
<1>2. TypeInv => TypeOK
  BY DEF TypeInv
<1> QED BY <1>1, <1>2, PTL

-----------------------------------------------------------------------------
(* One worker per assignment, and the rows that have one.                  *)

\* What the row of a busy thread can have become.
WithWorker ==
    Terminal \cup Idle \cup {"running", "pause_requested", "cancel_requested", "paused"}

\* The time a lease has left covers what its thread may still take, for the
\* live threads and, when the leases are about to be released, for all.
LeaseCovers(s) ==
    Live(s) \/ (Busy(s) /\ loop["service"] = "release") =>
        LET r == rows[workers[s].a]
        IN  r.state = "running" => r.lease + workers[s].run + workers[s].late >= Lease

\* No two threads have one assignment; while one has it, its row is nowhere
\* from where the intake, a resume or a claim could hand it out again.
OwnInv ==
    /\ \A s, t \in Slots : Busy(s) /\ Busy(t) /\ workers[s].a = workers[t].a => s = t
    /\ \A s \in Slots : Busy(s) =>
           LET r == rows[workers[s].a]
           IN  /\ r.state \in WithWorker
               /\ r.state = "paused" => r.from \in Idle
               /\ workers[s].attempts = r.attempts
    /\ \A s \in Slots : LeaseCovers(s)

(* Nothing is running at first.                                            *)
LEMMA OwnInit == Init => OwnInv
<1> SUFFICES ASSUME Init PROVE \A s \in Slots : ~Busy(s) /\ ~Live(s)
  BY DEF OwnInv, LeaseCovers
<1> QED BY FreeSlot DEF Init, Busy, Live, LiveSteps

\* Row a stays out of everybody's reach, and a running row keeps its lease.
HeldRow(a) ==
    /\ rows'[a].state \in WithWorker
    /\ rows'[a].state = "paused" => rows'[a].from \in Idle
    /\ rows'[a].attempts = rows[a].attempts
    /\ rows'[a].state = "running" => rows[a].state = "running" /\ rows'[a].lease = rows[a].lease

\* A thread that is busy goes on with its work, its attempt and its time.
ThreadsHold ==
    \A s \in Slots : Busy(s)' =>
        /\ Busy(s) /\ (Live(s)' => Live(s))
        /\ workers'[s].a = workers[s].a /\ workers'[s].attempts = workers[s].attempts
        /\ workers'[s].run = workers[s].run /\ workers'[s].late = workers[s].late

(* Ownership is kept by steps that let the rows of busy threads alone.     *)
LEMMA OwnKept ==
  ASSUME TypeInv, OwnInv, ThreadsHold,
         \A s \in Slots : Busy(s)' => HeldRow(workers[s].a),
         loop'["service"] = "release" =>
             loop["service"] = "release" \/ \A s \in Slots : workers[s].pc # "raised"
  PROVE  OwnInv'
<1>1. \A s, t \in Slots : (Busy(s) /\ Busy(t) /\ workers[s].a = workers[t].a => s = t)'
  BY DEF OwnInv, ThreadsHold
<1>2. ASSUME NEW s \in Slots, Busy(s)'
      PROVE  LET r == rows'[workers'[s].a]
             IN  /\ r.state \in WithWorker
                 /\ r.state = "paused" => r.from \in Idle
                 /\ workers'[s].attempts = r.attempts
  BY <1>2 DEF OwnInv, ThreadsHold, HeldRow
<1>3. ASSUME NEW s \in Slots PROVE LeaseCovers(s)'
  <2> SUFFICES ASSUME Live(s)' \/ (Busy(s)' /\ loop'["service"] = "release"),
                      rows'[workers'[s].a].state = "running"
               PROVE  rows'[workers'[s].a].lease + workers'[s].run + workers'[s].late >= Lease
    BY DEF LeaseCovers
  <2>1. Busy(s)'
    BY DEF Busy, Live
  <2>2. Live(s) \/ (Busy(s) /\ loop["service"] = "release")
    BY <2>1 DEF ThreadsHold, Busy, Live
  <2>3. rows[workers[s].a].state = "running" /\ rows'[workers[s].a].lease = rows[workers[s].a].lease
    BY <2>1 DEF ThreadsHold, HeldRow
  <2>4. rows[workers[s].a].lease + workers[s].run + workers[s].late >= Lease
    BY <2>2, <2>3 DEF OwnInv, LeaseCovers
  <2> QED BY <2>1, <2>3, <2>4 DEF ThreadsHold
<1> QED BY <1>1, <1>2, <1>3 DEF OwnInv

(* A row that is not written is held.                                      *)
LEMMA RowHeld ==
  ASSUME OwnInv, NEW s \in Slots, Busy(s), rows'[workers[s].a] = rows[workers[s].a]
  PROVE  HeldRow(workers[s].a)
BY DEF OwnInv, HeldRow

(* No owner control puts the row of a busy thread within reach.            *)
LEMMA ControlHolds ==
  ASSUME NEW r \in Rows, NEW act \in Actions, NEW prio \in Priorities, ~ControlRefused(r, act),
         r.state \in WithWorker, r.state = "paused" => r.from \in Idle
  PROVE  LET n == Controlled(r, act, prio)
         IN  /\ n.state \in WithWorker /\ n.attempts = r.attempts
             /\ n.state = "paused" => n.from \in Idle
             /\ n.state = "running" => r.state = "running" /\ n.lease = r.lease
<1> DEFINE n == Controlled(r, act, prio)
<1> SUFFICES /\ n.state \in WithWorker /\ n.attempts = r.attempts
             /\ n.state = "paused" => n.from \in Idle
             /\ n.state = "running" => r.state = "running" /\ n.lease = r.lease
  OBVIOUS
<1> USE DEF WithWorker, Idle, Terminal, None
<1>1. n.attempts = r.attempts
  BY ControlledRow DEF SameWork
<1>2. \/ n = Paused(r) /\ ~ControlRefused(r, "pause")
      \/ n = Resumed(r) /\ r.state = "paused"
      \/ n = Cancelled(r)
      \/ n.state = r.state /\ n.from = r.from /\ n.lease = r.lease
  BY ControlledRow
<1> HIDE DEF n
<1>3. CASE n = Paused(r) /\ ~ControlRefused(r, "pause")
  BY <1>1, <1>3, PausedRow
<1>4. CASE n = Resumed(r) /\ r.state = "paused"
  BY <1>1, <1>4, ResumedRow
<1>5. CASE n = Cancelled(r)
  BY <1>1, <1>5, CancelledRow
<1>6. CASE n.state = r.state /\ n.from = r.from /\ n.lease = r.lease
  BY <1>1, <1>6
<1> QED BY <1>2, <1>3, <1>4, <1>5, <1>6

(* Every step keeps the ownership of rows when a thread's own steps fit in *)
(* the margin of its lease.                                                *)
LEMMA OwnStep ==
  ASSUME Slack < Margin
  PROVE  TypeInv /\ OwnInv /\ [Next]_vars => OwnInv'
<1> SUFFICES ASSUME TypeInv, OwnInv, [Next]_vars PROVE OwnInv'
  OBVIOUS
<1>0. TypeInv' /\ \A s \in Slots : Busy(s) => workers[s].a \in Assignments
  BY TypeStep DEF TypeInv, RowsKnown
<1>1. ASSUME Still PROVE OwnInv'
  <2>1. ThreadsHold /\ \A s \in Slots : Busy(s)' => Busy(s)
    BY <1>1 DEF Still, ThreadsHold, Busy, Live
  <2>2. \A s \in Slots : Busy(s)' => HeldRow(workers[s].a)
    BY <1>1, <2>1, RowHeld DEF Still
  <2> QED BY <1>1, <2>1, <2>2, OwnKept DEF Still
<1>2. ASSUME ApplyControl PROVE OwnInv'
  <2> DEFINE q == inbox[1]
             b == q.a
             n == Controlled(rows[b], q.act, q.prio)
  <2>1. q \in Requests
    BY <1>2, InboxType DEF ApplyControl, TypeInv, TypeOK
  <2>2. b \in Assignments /\ q.act \in Actions /\ q.prio \in Priorities
    BY <2>1 DEF Requests
  <2>3. rows[b] \in Rows /\ rows \in [Assignments -> Rows]
    BY <2>2 DEF TypeInv, TypeOK
  <2>4. rows' = rows \/ (rows' = [rows EXCEPT ![b] = n] /\ ~ControlRefused(rows[b], q.act))
    BY <1>2 DEF ApplyControl
  <2>5. ThreadsHold /\ \A s \in Slots : Busy(s)' => Busy(s)
    BY <1>2 DEF ApplyControl, ThreadsHold, Busy, Live
  <2>6. ASSUME NEW s \in Slots, Busy(s) PROVE HeldRow(workers[s].a)
    <3>1. CASE rows'[workers[s].a] = rows[workers[s].a]
      BY <2>6, <3>1, RowHeld
    <3>2. CASE workers[s].a = b /\ rows'[b] = n /\ ~ControlRefused(rows[b], q.act)
      <4>1. rows[b].state \in WithWorker /\ (rows[b].state = "paused" => rows[b].from \in Idle)
        BY <2>6, <3>2 DEF OwnInv
      <4>2. /\ n.state \in WithWorker /\ n.attempts = rows[b].attempts
            /\ n.state = "paused" => n.from \in Idle
            /\ n.state = "running" => rows[b].state = "running" /\ n.lease = rows[b].lease
        <5> HIDE DEF q, b
        <5> QED BY <2>2, <2>3, <3>2, <4>1, ControlHolds
      <4> HIDE DEF n, b
      <4> QED BY <3>2, <4>2 DEF HeldRow
    <3> HIDE DEF n, b
    <3> QED BY <1>0, <2>2, <2>3, <2>4, <2>6, <3>1, <3>2
  <2> QED BY <1>2, <2>5, <2>6, OwnKept DEF ApplyControl
<1>3. ASSUME NEW p \in Procs, NEW a \in Assignments, Intake(p, a) PROVE OwnInv'
  <2> DEFINE scope == view[p][a].scope
             issue == view[p][a].issue
             allowed == issue /\ scope \in Approved
             n == Upserted(rows[a], a, scope, issue, allowed)
  <2>1. rows[a] \in Rows /\ rows \in [Assignments -> Rows] /\ rows' = [rows EXCEPT ![a] = n]
    BY <1>3 DEF Intake, TypeInv, TypeOK
  <2>2. scope \in Scopes /\ issue \in BOOLEAN /\ allowed \in BOOLEAN
    BY <1>3 DEF Intake, TypeInv, TypeOK, Views
  <2>3. ThreadsHold /\ \A s \in Slots : Busy(s)' => Busy(s)
    BY <1>3 DEF Intake, ThreadsHold, Busy, Live
  <2>4. ASSUME NEW s \in Slots, Busy(s) PROVE HeldRow(workers[s].a)
    <3>1. CASE workers[s].a = a
      <4>1. rows[a].state \in WithWorker
        BY <2>4, <3>1 DEF OwnInv
      <4>2. n.attempts = rows[a].attempts /\ (n = rows[a] \/ n.state = "blocked")
        <5> HIDE DEF scope, issue, allowed
        <5> QED BY <2>1, <2>2, <4>1, UpsertedRow DEF WithWorker, Idle, Terminal
      <4>3. rows'[a] = n
        BY <2>1
      <4> HIDE DEF n
      <4>4. CASE n = rows[a]
        BY <2>4, <3>1, <4>3, <4>4, RowHeld
      <4>5. CASE n.state = "blocked"
        BY <3>1, <4>2, <4>3, <4>5 DEF HeldRow, WithWorker, Idle
      <4> QED BY <4>2, <4>4, <4>5
    <3>2. CASE workers[s].a # a
      <4> HIDE DEF n
      <4> QED BY <1>0, <2>1, <2>4, <3>2, RowHeld
    <3> QED BY <3>1, <3>2
  <2> QED BY <1>3, <2>3, <2>4, OwnKept DEF Intake
<1>4. ASSUME NEW p \in Procs, NEW a \in Assignments, BridgeUpdate(p, a) PROVE OwnInv'
  <2> DEFINE n == BridgeUpdates(rows[a], view[p][a].state, view[p][a].phase)
  <2>1. rows[a] \in Rows /\ rows \in [Assignments -> Rows] /\ rows' = [rows EXCEPT ![a] = n]
    BY <1>4 DEF BridgeUpdate, TypeInv, TypeOK
  <2>2. ThreadsHold /\ \A s \in Slots : Busy(s)' => Busy(s)
    BY <1>4 DEF BridgeUpdate, ThreadsHold, Busy, Live
  <2>3. n.attempts = rows[a].attempts /\ (n = rows[a] \/ n.state \in Idle \cup {"complete"})
    BY <2>1, BridgedRow DEF SameWork
  <2>4. rows'[a] = n
    BY <2>1
  <2> HIDE DEF n
  <2>5. ASSUME NEW s \in Slots, Busy(s) PROVE HeldRow(workers[s].a)
    <3>1. CASE workers[s].a = a /\ n.state \in Idle \cup {"complete"}
      BY <2>3, <2>4, <3>1 DEF HeldRow, WithWorker, Idle, Terminal
    <3>2. CASE workers[s].a # a \/ n = rows[a]
      BY <1>0, <2>1, <2>4, <2>5, <3>2, RowHeld
    <3> QED BY <2>3, <3>1, <3>2
  <2> QED BY <1>4, <2>2, <2>5, OwnKept DEF BridgeUpdate
<1>5. ASSUME NEW s \in Slots, Reap(s) PROVE OwnInv'
  <2>0. workers'[s] = NoWorker /\ \A t \in Slots \ {s} : workers'[t] = workers[t]
    <3>1. workers' = [workers EXCEPT ![s] = NoWorker]
      BY <1>5 DEF Reap
    <3>2. workers \in [Slots -> Workers]
      BY DEF TypeInv, TypeOK
    <3> QED BY <3>1, <3>2
  <2>1. ThreadsHold /\ \A t \in Slots : Busy(t)' => Busy(t) /\ t # s
    BY <2>0, FreeSlot DEF ThreadsHold, Busy, Live, LiveSteps
  <2>2. ASSUME NEW t \in Slots, Busy(t)' PROVE HeldRow(workers[t].a)
    <3>1. Busy(t) /\ t # s
      BY <2>1, <2>2
    <3>2. rows'[workers[t].a] = rows[workers[t].a]
      <4>1. CASE rows' = rows
        BY <4>1
      <4>2. CASE /\ workers[s].pc = "raised"
                 /\ rows' = [rows EXCEPT ![workers[s].a] =
                               Updated(rows[workers[s].a], "retry_ready", TRUE, "exception", 0)]
        <5>1. workers[t].a # workers[s].a
          BY <3>1, <4>2 DEF OwnInv, Busy
        <5> QED BY <1>0, <3>1, <4>2, <5>1 DEF TypeInv, TypeOK
      <4> QED BY <1>5, <4>1, <4>2, ReapType
    <3> QED BY <3>1, <3>2, RowHeld
  <2> QED BY <1>5, <2>1, <2>2, OwnKept, ReapType
<1>6. ASSUME ReleaseLeases PROVE OwnInv'
  <2>1. ThreadsHold /\ \A s \in Slots : Busy(s)' => Busy(s)
    BY <1>6 DEF ReleaseLeases, ThreadsHold, Busy, Live
  <2>2. ASSUME NEW s \in Slots, Busy(s) PROVE HeldRow(workers[s].a)
    <3> DEFINE r == rows[workers[s].a]
               w == workers[s]
    <3>1. /\ workers[s].a \in Assignments /\ rows[workers[s].a] \in Rows /\ w \in Workers
          /\ rows'[workers[s].a] = Released(rows[workers[s].a])
      BY <1>0, <1>6, <2>2 DEF ReleaseLeases, TypeInv, TypeOK
    <3>2. r.state = "running" => r.lease + w.run + w.late >= Lease
      BY <1>6, <2>2 DEF ReleaseLeases, OwnInv, LeaseCovers
    <3>3. w.run \in 0 .. Timeout /\ w.late \in 0 .. Slack /\ r.lease \in NoTime .. Lease
      BY <3>1 DEF Workers, Rows
    <3>4. ~(r.state = "running" /\ r.lease = 0)
      <4> HIDE DEF r, w
      <4> QED BY <3>2, <3>3, LeaseFacts, TimesAssumption
    <3>5. Released(r) = r
      BY <3>4 DEF Released
    <3> QED BY <2>2, <3>1, <3>5, RowHeld
  <2> QED BY <1>6, <2>1, <2>2, OwnKept, ProcsAssumption DEF ReleaseLeases, TypeInv, TypeOK
<1>7. ASSUME NEW s \in Slots, NEW a \in Assignments, Dispatch(s, a) PROVE OwnInv'
  <2>0. rows \in [Assignments -> Rows] /\ rows[a] \in Rows
    BY DEF TypeInv, TypeOK
  <2>1. \A t \in Slots : Busy(t) => workers[t].a # a
    BY <1>7, DispatchType DEF OwnInv, Claimable, WithWorker, Idle, Terminal
  <2>2. /\ rows'[a] = Claimed(rows[a])
        /\ \A b \in Assignments \ {a} : rows'[b] = rows[b]
    BY <1>7, <2>0, DispatchType
  <2>3. /\ rows'[a].state = "running" /\ rows'[a].lease = Lease
        /\ rows'[a].attempts = rows[a].attempts + 1
    BY <2>0, <2>2, ClaimedRow
  <2>4. ASSUME NEW t \in Slots \ {s}
        PROVE  /\ workers'[t] = workers[t] /\ (Busy(t)' <=> Busy(t)) /\ (Live(t)' <=> Live(t))
               /\ Busy(t) => workers[t].a # a /\ rows'[workers[t].a] = rows[workers[t].a]
    BY <1>0, <1>7, <2>1, <2>2, DispatchType DEF Busy, Live
  <2>5. \A t, v \in Slots : (Busy(t) /\ Busy(v) /\ workers[t].a = workers[v].a => t = v)'
    <3> SUFFICES ASSUME NEW t \in Slots, NEW v \in Slots, t # v, Busy(t)', Busy(v)',
                        workers'[t].a = workers'[v].a
                 PROVE  FALSE
      OBVIOUS
    <3>1. CASE t = s
      BY <1>7, <2>4, <3>1, DispatchType
    <3>2. CASE v = s
      BY <1>7, <2>4, <3>2, DispatchType
    <3>3. CASE t # s /\ v # s
      BY <2>4, <3>3 DEF OwnInv
    <3> QED BY <3>1, <3>2, <3>3
  <2>6. ASSUME NEW t \in Slots, Busy(t)'
        PROVE  LET r == rows'[workers'[t].a]
               IN  /\ r.state \in WithWorker
                   /\ r.state = "paused" => r.from \in Idle
                   /\ workers'[t].attempts = r.attempts
    <3>1. CASE t = s
      BY <1>7, <2>3, <3>1, DispatchType DEF WithWorker
    <3>2. CASE t # s
      BY <2>4, <2>6, <3>2 DEF OwnInv
    <3> QED BY <3>1, <3>2
  <2>7. ASSUME NEW t \in Slots PROVE LeaseCovers(t)'
    <3>1. CASE t = s
      <4>1. rows'[workers'[s].a].lease + workers'[s].run + workers'[s].late >= Lease
        BY <1>7, <2>3, DispatchType, LeaseFacts
      <4> QED BY <3>1, <4>1 DEF LeaseCovers
    <3>2. CASE t # s
      BY <1>7, <2>4, <3>2, DispatchType DEF LeaseCovers, OwnInv, Busy, Live
    <3> QED BY <3>1, <3>2
  <2> QED BY <2>5, <2>6, <2>7 DEF OwnInv
<1>8. ASSUME NEW s \in Slots, NEW n, Moves(s, "done"), UNCHANGED loop,
             rows' = [rows EXCEPT ![workers[s].a] = n]
      PROVE  OwnInv'
  <2>1. ThreadsHold /\ \A t \in Slots : Busy(t)' => Busy(t) /\ t # s
    BY <1>8 DEF Moves, SameThread, ThreadsHold, Busy, Live, LiveSteps
  <2>2. ASSUME NEW t \in Slots, Busy(t)' PROVE HeldRow(workers[t].a)
    <3>1. Busy(t) /\ t # s /\ Busy(s)
      BY <1>8, <2>1, <2>2 DEF Moves, Busy, Live
    <3>2. workers[t].a # workers[s].a
      BY <3>1 DEF OwnInv
    <3>3. rows'[workers[t].a] = rows[workers[t].a]
      BY <1>0, <1>8, <3>1, <3>2 DEF TypeInv, TypeOK
    <3> QED BY <3>1, <3>3, RowHeld
  <2> QED BY <1>8, <2>1, <2>2, OwnKept
<1>9. ASSUME NEW s \in Slots, NEW pc \in {"exec", "read", "write", "raised"}, Moves(s, pc),
             UNCHANGED <<rows, loop>>
      PROVE  OwnInv'
  <2>1. ThreadsHold /\ \A t \in Slots : Busy(t)' => Busy(t)
    BY <1>9 DEF Moves, SameThread, ThreadsHold, Busy, Live, LiveSteps
  <2>2. \A t \in Slots : Busy(t)' => HeldRow(workers[t].a)
    BY <1>9, <2>1, RowHeld
  <2> QED BY <1>9, <2>1, <2>2, OwnKept
<1>10. ASSUME NEW s \in Slots, Start(s) PROVE OwnInv'
  BY <1>8, <1>9, <1>10, StartType
<1>11. ASSUME NEW s \in Slots, WriteOutcome(s) PROVE OwnInv'
  BY <1>8, <1>11, WriteOutcomeType
<1>12. ASSUME NEW s \in Slots,
              (\E code \in {"ok", "fail"} : Exit(s, code)) \/ ReadState(s) \/ WorkerRaises(s)
       PROVE  OwnInv'
  BY <1>9, <1>12, ThreadType
<1>13. ASSUME Drained \/ Crash PROVE OwnInv'
  <2>1. \A s \in Slots : ~Busy(s)' /\ ~Live(s)'
    BY <1>13, GoneType, FreeSlot DEF Busy, Live, LiveSteps
  <2> QED BY <2>1 DEF OwnInv, LeaseCovers
<1>14. ASSUME Tick PROVE OwnInv'
  <2>1. \A s \in Slots : /\ (Busy(s)' <=> Busy(s)) /\ (Live(s)' <=> Live(s))
                         /\ workers'[s].a = workers[s].a
                         /\ workers'[s].attempts = workers[s].attempts
    BY <1>14, TickType DEF Busy, Live
  <2>2. \A s, t \in Slots : (Busy(s) /\ Busy(t) /\ workers[s].a = workers[t].a => s = t)'
    BY <2>1 DEF OwnInv
  <2>3. \A s \in Slots : Busy(s)' =>
           LET r == rows'[workers'[s].a]
           IN  /\ r.state \in WithWorker
               /\ r.state = "paused" => r.from \in Idle
               /\ workers'[s].attempts = r.attempts
    BY <1>0, <1>14, <2>1, TickType DEF OwnInv, SameWork
  <2>4. ASSUME NEW s \in Slots PROVE LeaseCovers(s)'
    <3> SUFFICES ASSUME Live(s)', rows'[workers'[s].a].state = "running"
                 PROVE  rows'[workers'[s].a].lease + workers'[s].run + workers'[s].late >= Lease
      BY <1>14, TickType DEF LeaseCovers
    <3> DEFINE b == workers[s].a
    <3>1. Live(s) /\ b \in Assignments /\ workers'[s].a = b
      BY <1>0, <2>1 DEF Busy, Live
    <3>2. /\ rows[b].state = "running" /\ rows'[b].lease = Aged(rows[b].lease)
          /\ workers'[s].run + workers'[s].late = workers[s].run + workers[s].late + 1
      BY <1>14, <3>1, TickType
    <3>3. rows[b].lease + workers[s].run + workers[s].late >= Lease
      BY <3>1, <3>2 DEF OwnInv, LeaseCovers
    <3>4. /\ rows[b].lease \in NoTime .. Lease
          /\ workers[s].run \in Nat /\ workers[s].late \in Nat
          /\ workers'[s].run \in Nat /\ workers'[s].late \in Nat
      <4>1. rows[b] \in Rows /\ workers[s] \in Workers /\ workers'[s] \in Workers
        BY <1>0, <3>1 DEF TypeInv, TypeOK
      <4> QED BY <4>1, TimesAssumption DEF Rows, Workers
    <3>5. Aged(rows[b].lease) + 1 >= rows[b].lease /\ Aged(rows[b].lease) \in Int
      BY <3>4, LeaseFacts DEF Aged
    <3> HIDE DEF b
    <3> QED BY <3>1, <3>2, <3>3, <3>4, <3>5, LeaseFacts
  <2> QED BY <2>2, <2>3, <2>4 DEF OwnInv
<1> QED BY <1>1, <1>2, <1>3, <1>4, <1>5, <1>6, <1>7, <1>10, <1>11, <1>12, <1>13, <1>14, NextCases

(* A lease is never given away under a worker: when the thread's own steps *)
(* take less than the 30 seconds of margin, at most one worker has an      *)
(* assignment (claim_next, release_expired_leases, Scheduler.reap).        *)
THEOREM OneWorker ==
  ASSUME Slack < Margin
  PROVE  Spec => []OneWorkerPerAssignment
<1>1. Spec => [](TypeInv /\ OwnInv)
  BY TypeInit, TypeStep, OwnInit, OwnStep, PTL DEF Spec
<1>2. OwnInv => OneWorkerPerAssignment
  BY DEF OwnInv, OneWorkerPerAssignment, BusyOn, Busy
<1> QED BY <1>1, <1>2, PTL

-----------------------------------------------------------------------------
(* Authority.                                                              *)

\* Of a row and of a thread: the text grants authority, and its issue is known.
Authorized(r) == r.scope \in Approved /\ r.issue

\* States that lead to a worker.
InPlay == {"queued", "retry_ready", "running", "pause_requested", "cancel_requested"}

\* A row that can get a worker is authorized; so is one whose pause goes back
\* to such a state.
Proper(r) ==
    /\ r.state \in InPlay => Authorized(r)
    /\ r.state = "paused" /\ r.from \in InPlay \cup {None} => Authorized(r)

AuthorityInv ==
    /\ \A a \in Assignments : Proper(rows[a])
    /\ \A s \in Slots : Busy(s) => Authorized(rows[workers[s].a]) /\ Authorized(workers[s])

(* No row is in play at first.                                             *)
LEMMA AuthorityInit == Init => AuthorityInv
<1> SUFFICES ASSUME Init PROVE AuthorityInv
  OBVIOUS
<1>1. \A s \in Slots : ~Busy(s)
  BY FreeSlot DEF Init, Busy, LiveSteps
<1>2. \A a \in Assignments : rows[a] = Absent
  BY DEF Init
<1>3. Proper(Absent)
  BY DEF Absent, Proper, InPlay
<1> QED BY <1>1, <1>2, <1>3 DEF AuthorityInv

\* A thread that is busy goes on with its text.
ThreadsKeepText ==
    \A s \in Slots : Busy(s)' =>
        /\ Busy(s) /\ workers'[s].a = workers[s].a
        /\ workers'[s].scope = workers[s].scope /\ workers'[s].issue = workers[s].issue

(* Authority is kept when proper rows are written over their own work.     *)
LEMMA AuthorityKept ==
  ASSUME TypeInv, AuthorityInv, ThreadsKeepText,
         \A a \in Assignments : Proper(rows'[a]),
         \A s \in Slots : Busy(s)' => SameWork(rows[workers[s].a], rows'[workers[s].a])
  PROVE  AuthorityInv'
BY DEF AuthorityInv, ThreadsKeepText, SameWork, Authorized

(* One proper row is written over its own work.                            *)
LEMMA AuthorityRow ==
  ASSUME TypeInv, AuthorityInv, ThreadsKeepText, NEW b \in Assignments, NEW n,
         rows' = [rows EXCEPT ![b] = n], SameWork(rows[b], n), Proper(n)
  PROVE  AuthorityInv'
<1>1. rows \in [Assignments -> Rows] /\ \A s \in Slots : Busy(s) => workers[s].a \in Assignments
  BY DEF TypeInv, TypeOK, RowsKnown
<1>2. rows'[b] = n /\ \A a \in Assignments \ {b} : rows'[a] = rows[a]
  BY <1>1
<1>3. \A a \in Assignments : Proper(rows'[a])
  BY <1>2 DEF AuthorityInv
<1>4. \A a \in Assignments : SameWork(rows[a], rows'[a])
  BY <1>1, <1>2 DEF SameWork
<1> QED BY <1>1, <1>3, <1>4, AuthorityKept DEF ThreadsKeepText

(* No row is written.                                                      *)
LEMMA AuthorityNoRow ==
  ASSUME TypeInv, AuthorityInv, ThreadsKeepText, rows' = rows
  PROVE  AuthorityInv'
<1>1. \A a \in Assignments : SameWork(rows[a], rows'[a]) /\ Proper(rows'[a])
  BY DEF TypeInv, TypeOK, SameWork, AuthorityInv
<1> QED BY <1>1, AuthorityKept DEF ThreadsKeepText, TypeInv, RowsKnown

(* Controls neither give nor lose authority.                               *)
LEMMA ControlProper ==
  ASSUME NEW r \in Rows, NEW act \in Actions, NEW prio \in Priorities, ~ControlRefused(r, act),
         Proper(r), r.from \notin Terminal \cup {"absent", "paused"}
  PROVE  Proper(Controlled(r, act, prio))
<1> DEFINE n == Controlled(r, act, prio)
<1>1. Authorized(n) <=> Authorized(r)
  BY ControlledRow DEF SameWork, Authorized
<1>2. \/ n = Paused(r) /\ ~ControlRefused(r, "pause")
      \/ n = Resumed(r) /\ r.state = "paused"
      \/ n = Cancelled(r)
      \/ n.state = r.state /\ n.from = r.from
  BY ControlledRow
<1>3. Authorized(r) \/ (r.state \notin InPlay /\ (r.state = "paused" => r.from \notin InPlay \cup {None}))
  BY DEF Proper
<1> SUFFICES Authorized(r)
             \/ (n.state \notin InPlay /\ (n.state = "paused" => n.from \notin InPlay \cup {None}))
  BY <1>1 DEF Proper
<1> HIDE DEF n
<1> USE DEF InPlay, None
<1>4. CASE n = Paused(r) /\ ~ControlRefused(r, "pause")
  <2>1. \/ n = r
        \/ r.state = "running"
        \/ n.state = "paused" /\ n.from = r.state
    BY <1>4, PausedRow
  <2>2. r.state \in States
    BY DEF Rows
  <2> QED BY <1>3, <2>1, <2>2 DEF States, Terminal
<1>5. CASE n = Resumed(r) /\ r.state = "paused"
  <2>1. n.state = IF r.from \in {"running", "pause_requested", "cancel_requested"}
                  THEN "retry_ready"
                  ELSE IF r.from = None THEN "queued" ELSE r.from
    BY <1>5, ResumedRow
  <2> QED BY <1>3, <1>5, <2>1
<1>6. CASE n = Cancelled(r)
  BY <1>3, <1>6, CancelledRow DEF Terminal
<1>7. CASE n.state = r.state /\ n.from = r.from
  BY <1>3, <1>7
<1> QED BY <1>2, <1>4, <1>5, <1>6, <1>7

(* Every step keeps the rows in play authorized.                           *)
LEMMA AuthorityStep == TypeInv /\ OwnInv /\ AuthorityInv /\ [Next]_vars => AuthorityInv'
<1> SUFFICES ASSUME TypeInv, OwnInv, AuthorityInv, [Next]_vars PROVE AuthorityInv'
  OBVIOUS
<1>0. /\ rows \in [Assignments -> Rows] /\ workers \in [Slots -> Workers]
      /\ \A s \in Slots : Busy(s) => workers[s].a \in Assignments
  BY DEF TypeInv, TypeOK, RowsKnown
<1>1. ASSUME Still PROVE AuthorityInv'
  BY <1>1, AuthorityNoRow DEF Still, ThreadsKeepText, Busy
<1>2. ASSUME ApplyControl PROVE AuthorityInv'
  <2> DEFINE q == inbox[1]
             b == q.a
             n == Controlled(rows[b], q.act, q.prio)
  <2>1. q \in Requests
    BY <1>2, InboxType DEF ApplyControl, TypeInv, TypeOK
  <2>2. b \in Assignments /\ q.act \in Actions /\ q.prio \in Priorities /\ rows[b] \in Rows
    BY <1>0, <2>1 DEF Requests
  <2>3. rows' = rows \/ (rows' = [rows EXCEPT ![b] = n] /\ ~ControlRefused(rows[b], q.act))
    BY <1>2 DEF ApplyControl
  <2>4. ThreadsKeepText
    BY <1>2 DEF ApplyControl, ThreadsKeepText, Busy
  <2>5. CASE rows' = rows
    BY <2>4, <2>5, AuthorityNoRow
  <2>6. CASE rows' = [rows EXCEPT ![b] = n] /\ ~ControlRefused(rows[b], q.act)
    <3>1. Proper(rows[b]) /\ rows[b].from \notin Terminal \cup {"absent", "paused"}
      BY <2>2 DEF AuthorityInv, TypeInv, RowsKnown
    <3>2. SameWork(rows[b], n) /\ Proper(n)
      <4> HIDE DEF q, b
      <4> QED BY <2>2, <2>6, <3>1, ControlledRow, ControlProper
    <3> HIDE DEF n, b
    <3> QED BY <2>2, <2>4, <2>6, <3>2, AuthorityRow
  <2> QED BY <2>3, <2>5, <2>6
<1>3. ASSUME NEW p \in Procs, NEW a \in Assignments, Intake(p, a) PROVE AuthorityInv'
  <2> DEFINE scope == view[p][a].scope
             issue == view[p][a].issue
             allowed == issue /\ scope \in Approved
             n == Upserted(rows[a], a, scope, issue, allowed)
  <2>1. rows[a] \in Rows /\ rows' = [rows EXCEPT ![a] = n]
    BY <1>0, <1>3 DEF Intake
  <2>2. scope \in Scopes /\ issue \in BOOLEAN /\ allowed \in BOOLEAN
    BY <1>3 DEF Intake, TypeInv, TypeOK, Views
  <2>3. ThreadsKeepText
    BY <1>3 DEF Intake, ThreadsKeepText, Busy
  <2>4. /\ n \in Rows
        /\ \/ n = rows[a]
           \/ /\ n.state = "blocked"
              /\ SameWork(rows[a], n)
           \/ /\ rows[a].state \in {"absent", "proposal_only", "queued"}
              /\ n.scope = scope /\ n.issue = issue
              /\ \/ n.state = "queued" /\ allowed
                 \/ n.state = "proposal_only"
    <3> HIDE DEF scope, issue, allowed
    <3> QED BY <2>1, <2>2, UpsertedRow DEF SameWork
  <2>5. Proper(n)
    <3>1. CASE n = rows[a]
      <4>1. Proper(rows[a])
        BY DEF AuthorityInv
      <4> QED BY <3>1, <4>1
    <3>2. CASE n.state \in {"blocked", "proposal_only"}
      <4> HIDE DEF n
      <4> QED BY <3>2 DEF Proper, InPlay
    <3>3. CASE n.state = "queued" /\ allowed /\ n.scope = scope /\ n.issue = issue
      <4> HIDE DEF n
      <4> QED BY <3>3 DEF Proper, Authorized
    <3> HIDE DEF n
    <3> QED BY <2>4, <3>1, <3>2, <3>3
  <2>6. CASE SameWork(rows[a], n)
    <3> HIDE DEF n
    <3> QED BY <2>1, <2>3, <2>5, <2>6, AuthorityRow
  <2>7. CASE rows[a].state \in {"absent", "proposal_only", "queued"}
    <3>1. \A s \in Slots : Busy(s) => workers[s].a # a
      BY <2>7 DEF OwnInv, WithWorker, Terminal, Idle
    <3> HIDE DEF n
    <3>2. rows'[a] = n /\ \A b \in Assignments \ {a} : rows'[b] = rows[b]
      BY <1>0, <2>1
    <3>3. \A b \in Assignments : Proper(rows'[b])
      BY <2>5, <3>2 DEF AuthorityInv
    <3>4. \A s \in Slots : Busy(s)' => SameWork(rows[workers[s].a], rows'[workers[s].a])
      BY <1>0, <2>3, <3>1, <3>2 DEF ThreadsKeepText, SameWork
    <3> QED BY <2>3, <3>3, <3>4, AuthorityKept
  <2>8. SameWork(rows[a], rows[a])
    BY <2>1 DEF SameWork
  <2> HIDE DEF n, allowed, scope, issue
  <2> QED BY <2>4, <2>6, <2>7, <2>8
<1>4. ASSUME NEW p \in Procs, NEW a \in Assignments, BridgeUpdate(p, a) PROVE AuthorityInv'
  <2> DEFINE n == BridgeUpdates(rows[a], view[p][a].state, view[p][a].phase)
  <2>1. rows[a] \in Rows /\ rows' = [rows EXCEPT ![a] = n] /\ Proper(rows[a])
    BY <1>0, <1>4 DEF BridgeUpdate, AuthorityInv
  <2>2. ThreadsKeepText
    BY <1>4 DEF BridgeUpdate, ThreadsKeepText, Busy
  <2>3. SameWork(rows[a], n) /\ (n = rows[a] \/ n.state \in Idle \cup {"complete"})
    BY <2>1, BridgedRow
  <2> HIDE DEF n
  <2>4. Proper(n)
    BY <2>1, <2>3 DEF Proper, InPlay, Idle
  <2> QED BY <2>1, <2>2, <2>3, <2>4, AuthorityRow
<1>5. ASSUME NEW s \in Slots, Reap(s) PROVE AuthorityInv'
  <2> DEFINE b == workers[s].a
             n == Updated(rows[b], "retry_ready", TRUE, "exception", 0)
  <2>1. workers'[s] = NoWorker /\ \A t \in Slots \ {s} : workers'[t] = workers[t]
    <3>1. workers' = [workers EXCEPT ![s] = NoWorker]
      BY <1>5 DEF Reap
    <3> QED BY <1>0, <3>1
  <2>2. ThreadsKeepText
    BY <2>1, FreeSlot DEF ThreadsKeepText, Busy, LiveSteps
  <2>3. CASE rows' = rows
    BY <2>2, <2>3, AuthorityNoRow
  <2>4. CASE workers[s].pc = "raised" /\ rows' = [rows EXCEPT ![b] = n]
    <3>1. b \in Assignments /\ rows[b] \in Rows /\ Authorized(rows[b])
      BY <1>0, <2>4 DEF Busy, AuthorityInv
    <3>2. SameWork(rows[b], n) /\ n.state = "retry_ready"
      <4> HIDE DEF b
      <4> QED BY <3>1, UpdatedRow
    <3> HIDE DEF n, b
    <3>3. Proper(n)
      BY <3>1, <3>2 DEF Proper, Authorized, SameWork
    <3> QED BY <2>2, <2>4, <3>1, <3>2, <3>3, AuthorityRow
  <2> QED BY <1>5, <2>3, <2>4, ReapType
<1>6. ASSUME ReleaseLeases PROVE AuthorityInv'
  <2>1. ASSUME NEW a \in Assignments PROVE SameWork(rows[a], rows'[a]) /\ Proper(rows'[a])
    <3>1. rows[a] \in Rows /\ rows'[a] = Released(rows[a]) /\ Proper(rows[a])
      BY <1>0, <1>6 DEF ReleaseLeases, AuthorityInv
    <3> QED BY <3>1, ReleasedRow DEF SameWork, Proper, Authorized, InPlay
  <2>2. ThreadsKeepText
    BY <1>6 DEF ReleaseLeases, ThreadsKeepText, Busy
  <2> QED BY <1>0, <2>1, <2>2, AuthorityKept DEF ThreadsKeepText
<1>7. ASSUME NEW s \in Slots, NEW a \in Assignments, Dispatch(s, a) PROVE AuthorityInv'
  <2>1. rows[a] \in Rows /\ Authorized(rows[a])
    BY <1>0, <1>7, DispatchType DEF AuthorityInv, Claimable, Proper, InPlay
  <2>2. /\ rows'[a] = Claimed(rows[a])
        /\ \A b \in Assignments \ {a} : rows'[b] = rows[b]
    BY <1>0, <1>7, DispatchType
  <2>3. Authorized(rows'[a])
    BY <2>1, <2>2, ClaimedRow DEF Authorized
  <2>4. \A b \in Assignments : Proper(rows'[b]) /\ (Authorized(rows[b]) => Authorized(rows'[b]))
    BY <2>2, <2>3 DEF AuthorityInv, Proper
  <2>5. ASSUME NEW t \in Slots, Busy(t)'
        PROVE  Authorized(rows'[workers'[t].a]) /\ Authorized(workers'[t])
    <3>1. CASE t = s
      BY <1>7, <2>1, <2>3, <3>1, DispatchType DEF Authorized
    <3>2. CASE t # s
      <4>1. workers'[t] = workers[t] /\ Busy(t)
        BY <1>7, <2>5, <3>2, DispatchType DEF Busy
      <4> QED BY <1>0, <2>4, <4>1 DEF AuthorityInv
    <3> QED BY <3>1, <3>2
  <2> QED BY <2>4, <2>5 DEF AuthorityInv
<1>8. ASSUME NEW s \in Slots, NEW n, Moves(s, "done"), rows' = [rows EXCEPT ![workers[s].a] = n],
             SameWork(rows[workers[s].a], n)
      PROVE  AuthorityInv'
  <2>1. ThreadsKeepText
    BY <1>8 DEF Moves, SameThread, ThreadsKeepText, Busy, Live
  <2>2. workers[s].a \in Assignments /\ Authorized(rows[workers[s].a])
    BY <1>0, <1>8 DEF AuthorityInv, Moves, Live, Busy
  <2>3. Proper(n)
    BY <1>8, <2>2 DEF Proper, SameWork, Authorized
  <2> QED BY <1>8, <2>1, <2>2, <2>3, AuthorityRow
<1>9. ASSUME NEW s \in Slots, NEW pc, Moves(s, pc), rows' = rows PROVE AuthorityInv'
  <2>1. ThreadsKeepText
    BY <1>9 DEF Moves, SameThread, ThreadsKeepText, Busy, Live
  <2> QED BY <1>9, <2>1, AuthorityNoRow
<1>10. ASSUME NEW s \in Slots, Live(s)
       PROVE  /\ SameWork(rows[workers[s].a],
                           Updated(rows[workers[s].a], "blocked", FALSE, "dispatch", 0))
              /\ SameWork(rows[workers[s].a], Outcome(rows[workers[s].a], workers[s]))
  <2>1. rows[workers[s].a] \in Rows /\ workers[s] \in Workers
    BY <1>0, <1>10 DEF Busy, Live
  <2> QED BY <2>1, UpdatedRow, OutcomeRow
<1>11. ASSUME NEW s \in Slots, Start(s) PROVE AuthorityInv'
  BY <1>8, <1>9, <1>10, <1>11, StartType DEF Moves
<1>12. ASSUME NEW s \in Slots, WriteOutcome(s) PROVE AuthorityInv'
  BY <1>8, <1>10, <1>12, WriteOutcomeType DEF Moves
<1>13. ASSUME NEW s \in Slots,
              (\E code \in {"ok", "fail"} : Exit(s, code)) \/ ReadState(s) \/ WorkerRaises(s)
       PROVE  AuthorityInv'
  BY <1>9, <1>13, ThreadType
<1>14. ASSUME Drained \/ Crash PROVE AuthorityInv'
  <2>1. ThreadsKeepText
    BY <1>14, GoneType, FreeSlot DEF ThreadsKeepText, Busy, LiveSteps
  <2> QED BY <1>14, <2>1, GoneType, AuthorityNoRow
<1>15. ASSUME Tick PROVE AuthorityInv'
  <2>1. ThreadsKeepText
    BY <1>15, TickType DEF ThreadsKeepText, Busy
  <2>2. \A a \in Assignments : SameWork(rows[a], rows'[a]) /\ Proper(rows'[a])
    BY <1>15, TickType DEF AuthorityInv, Proper, SameWork, Authorized
  <2> QED BY <1>0, <2>1, <2>2, AuthorityKept DEF ThreadsKeepText
<1> QED BY <1>1, <1>2, <1>3, <1>4, <1>5, <1>6, <1>7, <1>11, <1>12, <1>13, <1>14, <1>15, NextCases

(* Only a text with autonomous authority, with its issue, is ever given to *)
(* a worker, whatever pauses, scope changes, failures and bridge updates   *)
(* its row went through (authority_for, upsert_assignment, claim_next).    *)
THEOREM OnlyAuthorizedWork ==
  ASSUME Slack < Margin
  PROVE  Spec => []AuthorizedWorkOnly
<1>1. Spec => [](TypeInv /\ OwnInv /\ AuthorityInv)
  BY TypeInit, TypeStep, OwnInit, OwnStep, AuthorityInit, AuthorityStep, PTL DEF Spec
<1>2. AuthorityInv => AuthorizedWorkOnly
  BY DEF AuthorityInv, AuthorizedWorkOnly, Authorized, Busy, Live
<1> QED BY <1>1, <1>2, PTL

-----------------------------------------------------------------------------
(* Stops.                                                                  *)

\* The states that only the owner's resume can leave for the queue.
Stopped == Terminal \cup Idle \cup {"paused"}

\* What the owner was told has stopped has no thread and is in such a state.
StopInv ==
    \A a \in Assignments : told[a] = "idle" =>
        /\ \A s \in Slots : Busy(s) => workers[s].a # a
        /\ rows[a].state \in Stopped

(* The owner was told nothing at first.                                    *)
LEMMA StopInit == Init => StopInv
BY DEF Init, StopInv, None

(* Stops are kept when no thread is handed out and no stopped row leaves.  *)
LEMMA StopKept ==
  ASSUME StopInv, told' = told,
         \A s \in Slots : Busy(s)' => Busy(s) /\ workers'[s].a = workers[s].a,
         \A a \in Assignments : told[a] = "idle" => rows'[a].state \in Stopped
  PROVE  StopInv'
BY DEF StopInv

(* One row is written, and it had not stopped or stays so.                 *)
LEMMA StopRow ==
  ASSUME TypeInv, StopInv, told' = told,
         \A s \in Slots : Busy(s)' => Busy(s) /\ workers'[s].a = workers[s].a,
         NEW b \in Assignments, NEW n, rows' = [rows EXCEPT ![b] = n],
         told[b] = "idle" => n.state \in Stopped
  PROVE  StopInv'
<1>1. rows'[b] = n /\ \A a \in Assignments \ {b} : rows'[a] = rows[a]
  BY DEF TypeInv, TypeOK
<1>2. \A a \in Assignments : told[a] = "idle" => rows'[a].state \in Stopped
  BY <1>1 DEF StopInv
<1> QED BY <1>2, StopKept

(* A control that is told to the owner as a stop has stopped the row, and  *)
(* no other control than a resume starts it again.                         *)
LEMMA ControlStops ==
  ASSUME NEW r \in Rows, NEW a \in Assignments, NEW act \in Actions, NEW prio \in Priorities,
         ~ControlRefused(r, act),
         told[a] = "idle" => BusyOn(a) = {} /\ r.state \in Stopped,
         Told(a, act, Controlled(r, act, prio)) = "idle"
  PROVE  BusyOn(a) = {} /\ Controlled(r, act, prio).state \in Stopped
<1> DEFINE n == Controlled(r, act, prio)
<1> SUFFICES BusyOn(a) = {} /\ n.state \in Stopped
  OBVIOUS
<1>1. \/ act = "priority" /\ n.state = r.state
      \/ act = "pause" /\ ~ControlRefused(r, "pause") /\ n = Paused(r)
      \/ act = "resume"
      \/ act = "cancel" /\ n = Cancelled(r)
  BY ControlledRow
<1>2. Told(a, act, n) = "idle"
  OBVIOUS
<1> HIDE DEF n
<1> USE DEF Stopped, Terminal, Idle
<1>3. CASE act = "priority" /\ n.state = r.state
  BY <1>2, <1>3 DEF Told
<1>4. CASE act = "pause" /\ ~ControlRefused(r, "pause") /\ n = Paused(r)
  BY <1>2, <1>4, PausedRow DEF Told
<1>5. CASE act = "resume"
  BY <1>2, <1>5 DEF Told, None
<1>6. CASE act = "cancel" /\ n = Cancelled(r)
  <2>1. CASE n.state = "complete"
    <3>1. Told(a, act, n) = told[a]
      BY <1>6, <2>1 DEF Told
    <3> QED BY <1>2, <2>1, <3>1
  <2>2. CASE n.state # "complete" /\ BusyOn(a) = {} /\ n.state = "cancelled"
    BY <2>2
  <2>3. CASE n.state # "complete" /\ (BusyOn(a) # {} \/ n.state # "cancelled")
    <3>1. Told(a, act, n) = "cancel" \/ (BusyOn(a) = {} /\ n.state = "paused")
      BY <1>6, <2>3 DEF Told
    <3> QED BY <1>2, <3>1
  <2> QED BY <2>1, <2>2, <2>3
<1> QED BY <1>1, <1>3, <1>4, <1>5, <1>6

(* Every step keeps what has stopped stopped.                              *)
LEMMA StopStep == TypeInv /\ StopInv /\ [Next]_vars => StopInv'
<1> SUFFICES ASSUME TypeInv, StopInv, [Next]_vars PROVE StopInv'
  OBVIOUS
<1>0. /\ rows \in [Assignments -> Rows] /\ workers \in [Slots -> Workers]
      /\ \A s \in Slots : Busy(s) => workers[s].a \in Assignments
  BY DEF TypeInv, TypeOK, RowsKnown
<1>1. ASSUME Still PROVE StopInv'
  BY <1>1 DEF Still, StopInv, Busy
<1>2. ASSUME ApplyControl PROVE StopInv'
  <2> DEFINE q == inbox[1]
             b == q.a
             n == Controlled(rows[b], q.act, q.prio)
  <2>1. q \in Requests
    BY <1>2, InboxType DEF ApplyControl, TypeInv, TypeOK
  <2>2. b \in Assignments /\ q.act \in Actions /\ q.prio \in Priorities /\ rows[b] \in Rows
    BY <1>0, <2>1 DEF Requests
  <2>3. \/ rows' = rows /\ told' = told
        \/ /\ rows' = [rows EXCEPT ![b] = n] /\ told' = [told EXCEPT ![b] = Told(b, q.act, n)]
           /\ ~ControlRefused(rows[b], q.act)
    BY <1>2 DEF ApplyControl
  <2>4. workers' = workers
    BY <1>2 DEF ApplyControl
  <2>5. CASE rows' = rows /\ told' = told
    BY <2>4, <2>5 DEF StopInv, Busy
  <2>6. CASE /\ rows' = [rows EXCEPT ![b] = n] /\ told' = [told EXCEPT ![b] = Told(b, q.act, n)]
             /\ ~ControlRefused(rows[b], q.act)
    <3>1. \A a \in Assignments : BusyOn(a) = {} <=> \A s \in Slots : Busy(s) => workers[s].a # a
      BY DEF BusyOn, Busy
    <3>2. told[b] = "idle" => BusyOn(b) = {} /\ rows[b].state \in Stopped
      BY <2>2, <3>1 DEF StopInv
    <3>3. /\ rows'[b] = n /\ told'[b] = Told(b, q.act, n)
          /\ \A a \in Assignments \ {b} : rows'[a] = rows[a] /\ told'[a] = told[a]
      BY <1>0, <2>2, <2>6 DEF TypeInv, TypeOK
    <3>4. Told(b, q.act, n) = "idle" => BusyOn(b) = {} /\ n.state \in Stopped
      <4> HIDE DEF b, q
      <4> QED BY <2>2, <2>6, <3>2, ControlStops
    <3> HIDE DEF n, b, q
    <3>5. \A a \in Assignments : told'[a] = "idle" =>
              (\A s \in Slots : Busy(s) => workers[s].a # a) /\ rows'[a].state \in Stopped
      BY <2>2, <3>1, <3>3, <3>4 DEF StopInv
    <3> QED BY <2>4, <3>5 DEF StopInv, Busy
  <2> QED BY <2>3, <2>5, <2>6
<1>3. ASSUME NEW p \in Procs, NEW a \in Assignments, Intake(p, a) PROVE StopInv'
  <2> DEFINE scope == view[p][a].scope
             issue == view[p][a].issue
             allowed == issue /\ scope \in Approved
             n == Upserted(rows[a], a, scope, issue, allowed)
  <2>1. rows[a] \in Rows /\ rows' = [rows EXCEPT ![a] = n]
    BY <1>0, <1>3 DEF Intake
  <2>2. scope \in Scopes /\ issue \in BOOLEAN /\ allowed \in BOOLEAN
    BY <1>3 DEF Intake, TypeInv, TypeOK, Views
  <2>3. \/ n = rows[a] \/ n.state = "blocked"
        \/ rows[a].state \in {"absent", "proposal_only", "queued"}
    <3> HIDE DEF scope, issue, allowed
    <3> QED BY <2>1, <2>2, UpsertedRow
  <2>4. UNCHANGED <<told, workers>>
    BY <1>3 DEF Intake
  <2> HIDE DEF n
  <2>5. told[a] = "idle" => n.state \in Stopped
    BY <2>3 DEF StopInv, Stopped, Terminal, Idle
  <2> QED BY <2>1, <2>4, <2>5, StopRow DEF Busy
<1>4. ASSUME NEW p \in Procs, NEW a \in Assignments, BridgeUpdate(p, a) PROVE StopInv'
  <2> DEFINE n == BridgeUpdates(rows[a], view[p][a].state, view[p][a].phase)
  <2>1. rows[a] \in Rows /\ rows' = [rows EXCEPT ![a] = n] /\ UNCHANGED <<told, workers>>
    BY <1>0, <1>4 DEF BridgeUpdate
  <2>2. n = rows[a] \/ n.state \in Idle \cup {"complete"}
    BY <2>1, BridgedRow
  <2> HIDE DEF n
  <2>3. told[a] = "idle" => n.state \in Stopped
    BY <2>2 DEF StopInv, Stopped, Terminal
  <2> QED BY <2>1, <2>3, StopRow DEF Busy
<1>5. ASSUME NEW s \in Slots, Reap(s) PROVE StopInv'
  <2>1. workers'[s] = NoWorker /\ \A t \in Slots \ {s} : workers'[t] = workers[t]
    BY <1>0, <1>5, ReapType
  <2>2. \A t \in Slots : Busy(t)' => Busy(t) /\ workers'[t].a = workers[t].a
    BY <2>1, FreeSlot DEF Busy, LiveSteps
  <2>3. CASE rows' = rows
    BY <1>5, <2>2, <2>3, StopKept, ReapType DEF StopInv
  <2>4. CASE workers[s].pc = "raised"
             /\ rows' = [rows EXCEPT ![workers[s].a] =
                             Updated(rows[workers[s].a], "retry_ready", TRUE, "exception", 0)]
    <3>1. workers[s].a \in Assignments /\ told[workers[s].a] # "idle"
      BY <1>0, <2>4 DEF Busy, StopInv
    <3> QED BY <1>5, <2>2, <2>4, <3>1, StopRow, ReapType
  <2> QED BY <1>5, <2>3, <2>4, ReapType
<1>6. ASSUME ReleaseLeases PROVE StopInv'
  <2>1. ASSUME NEW a \in Assignments, told[a] = "idle" PROVE rows'[a].state \in Stopped
    <3>1. rows[a] \in Rows /\ rows'[a] = Released(rows[a]) /\ rows[a].state \in Stopped
      BY <1>0, <1>6, <2>1 DEF ReleaseLeases, StopInv
    <3> QED BY <3>1, ReleasedRow DEF Stopped, Terminal, Idle
  <2>2. UNCHANGED <<told, workers>>
    BY <1>6 DEF ReleaseLeases
  <2> QED BY <2>1, <2>2, StopKept DEF Busy
<1>7. ASSUME NEW s \in Slots, NEW a \in Assignments, Dispatch(s, a) PROVE StopInv'
  <2>1. told[a] # "idle"
    BY <1>7, DispatchType DEF StopInv, Claimable, Stopped, Terminal, Idle
  <2>2. \A b \in Assignments \ {a} : rows'[b] = rows[b]
    BY <1>0, <1>7, DispatchType
  <2>3. \A t \in Slots : t # s => workers'[t] = workers[t]
    BY <1>7, DispatchType
  <2>4. workers'[s].a = a /\ told' = told
    BY <1>7, DispatchType
  <2>5. ASSUME NEW b \in Assignments, told[b] = "idle", NEW t \in Slots, Busy(t)'
        PROVE  workers'[t].a # b
    <3>1. CASE t = s
      BY <2>1, <2>4, <2>5, <3>1
    <3>2. CASE t # s
      <4>1. workers'[t] = workers[t] /\ Busy(t)
        BY <2>3, <2>5, <3>2 DEF Busy
      <4> QED BY <2>5, <4>1 DEF StopInv
    <3> QED BY <3>1, <3>2
  <2>6. \A b \in Assignments : told[b] = "idle" => rows'[b].state \in Stopped
    BY <2>1, <2>2 DEF StopInv
  <2> QED BY <2>4, <2>5, <2>6 DEF StopInv
<1>8. ASSUME NEW s \in Slots, NEW pc, Moves(s, pc), told' = told,
             rows' = rows \/ \E n : rows' = [rows EXCEPT ![workers[s].a] = n]
      PROVE  StopInv'
  <2>1. \A t \in Slots : Busy(t)' => Busy(t) /\ workers'[t].a = workers[t].a
    BY <1>8 DEF Moves, SameThread, Busy, Live
  <2>2. workers[s].a \in Assignments /\ told[workers[s].a] # "idle"
    BY <1>0, <1>8 DEF Moves, Live, Busy, StopInv
  <2>3. CASE rows' = rows
    BY <1>8, <2>1, <2>3, StopKept DEF StopInv
  <2>4. CASE \E n : rows' = [rows EXCEPT ![workers[s].a] = n]
    BY <1>8, <2>1, <2>2, <2>4, StopRow
  <2> QED BY <1>8, <2>3, <2>4
<1>9. ASSUME NEW s \in Slots, Start(s) PROVE StopInv'
  BY <1>8, <1>9, StartType
<1>10. ASSUME NEW s \in Slots, WriteOutcome(s) PROVE StopInv'
  BY <1>8, <1>10, WriteOutcomeType
<1>11. ASSUME NEW s \in Slots,
              (\E code \in {"ok", "fail"} : Exit(s, code)) \/ ReadState(s) \/ WorkerRaises(s)
       PROVE  StopInv'
  BY <1>8, <1>11, ThreadType
<1>12. ASSUME Drained \/ Crash PROVE StopInv'
  <2>1. \A s \in Slots : ~Busy(s)'
    BY <1>12, GoneType, FreeSlot DEF Busy, LiveSteps
  <2> QED BY <1>12, <2>1, GoneType DEF StopInv
<1>13. ASSUME Tick PROVE StopInv'
  <2>1. \A s \in Slots : Busy(s)' => Busy(s) /\ workers'[s].a = workers[s].a
    BY <1>13, TickType DEF Busy
  <2>2. \A a \in Assignments : rows'[a].state = rows[a].state
    BY <1>13, TickType
  <2> QED BY <1>13, <2>1, <2>2, StopKept, TickType DEF StopInv
<1> QED BY <1>1, <1>2, <1>3, <1>4, <1>5, <1>6, <1>7, <1>9, <1>10, <1>11, <1>12, <1>13, NextCases

(* What the owner was told has stopped stays without a worker and out of   *)
(* the queue until a resume, whatever the intake, the bridge, retries and  *)
(* restarts write to its row (apply_owner_control, upsert_assignment,      *)
(* update_state).                                                          *)
THEOREM StopsHold == Spec => []StoppedStaysStopped
<1>1. Spec => [](TypeInv /\ StopInv)
  BY TypeInit, TypeStep, StopInit, StopStep, PTL DEF Spec
<1>2. StopInv => StoppedStaysStopped
  <2> SUFFICES ASSUME StopInv, NEW a \in Assignments, told[a] = "idle"
               PROVE  BusyOn(a) = {} /\ ~Claimable(a)
    BY DEF StoppedStaysStopped
  <2>1. rows[a].state \in Stopped /\ \A s \in Slots : Busy(s) => workers[s].a # a
    BY DEF StopInv
  <2> QED BY <2>1 DEF BusyOn, Busy, Claimable, Stopped, Terminal, Idle
<1> QED BY <1>1, <1>2, PTL

-----------------------------------------------------------------------------
(* Keys.                                                                   *)

\* Attempts are numbered: the keys used and the threads about to use one bear
\* numbers up to the row's, and no two such threads the same.
KeyInv ==
    /\ \A k \in keys : k[3] <= rows[k[1]].attempts
    /\ \A s \in Slots : workers[s].pc = "start" =>
           workers[s].attempts <= rows[workers[s].a].attempts
    /\ \A s, t \in Slots :
           /\ workers[s].pc = "start" /\ workers[t].pc = "start"
           /\ workers[s].a = workers[t].a /\ workers[s].attempts = workers[t].attempts
           => s = t
    /\ FreshDispatch

(* No key is used and no thread starts at first.                           *)
LEMMA KeyInit == Init => KeyInv
<1> SUFFICES ASSUME Init PROVE KeyInv
  OBVIOUS
<1>1. keys = {} /\ \A s \in Slots : workers[s].pc # "start"
  BY FreeSlot DEF Init
<1> QED BY <1>1 DEF KeyInv, FreshDispatch

(* Keys stay fresh when attempts only grow and no thread comes to start.   *)
LEMMA KeyKept ==
  ASSUME TypeInv, KeyInv, keys' = keys,
         \A a \in Assignments : rows'[a].attempts \in Nat /\ rows'[a].attempts >= rows[a].attempts,
         \A s \in Slots : workers'[s].pc = "start" =>
             /\ workers[s].pc = "start" /\ workers'[s].a = workers[s].a
             /\ workers'[s].scope = workers[s].scope
             /\ workers'[s].attempts = workers[s].attempts
  PROVE  KeyInv'
<1>0. /\ \A a \in Assignments : rows[a].attempts \in Nat
      /\ \A s \in Slots : workers[s].attempts \in Nat
      /\ \A s \in Slots : workers[s].pc = "start" => workers[s].a \in Assignments
      /\ \A k \in keys : k[1] \in Assignments /\ k[3] \in Nat
  BY DEF TypeInv, TypeOK, Rows, Workers, RowsKnown, Busy, LiveSteps
<1>1. \A k \in keys' : k[3] <= rows'[k[1]].attempts
  BY <1>0 DEF KeyInv
<1>2. ASSUME NEW s \in Slots, workers'[s].pc = "start"
      PROVE  /\ workers'[s].attempts <= rows'[workers'[s].a].attempts
             /\ Key(workers'[s]) = Key(workers[s])
  <2>1. workers[s].attempts <= rows[workers[s].a].attempts
    BY <1>2 DEF KeyInv
  <2> QED BY <1>0, <1>2, <2>1 DEF Key
<1>3. FreshDispatch'
  BY <1>2 DEF KeyInv, FreshDispatch
<1>4. \A s, t \in Slots :
           /\ workers'[s].pc = "start" /\ workers'[t].pc = "start"
           /\ workers'[s].a = workers'[t].a /\ workers'[s].attempts = workers'[t].attempts
           => s = t
  BY DEF KeyInv
<1> QED BY <1>1, <1>2, <1>3, <1>4 DEF KeyInv

(* One row is written with its attempts as they were.                      *)
LEMMA KeyRow ==
  ASSUME TypeInv, KeyInv, keys' = keys, NEW b \in Assignments, NEW n,
         rows' = [rows EXCEPT ![b] = n], SameWork(rows[b], n),
         \A s \in Slots : workers'[s].pc = "start" =>
             /\ workers[s].pc = "start" /\ workers'[s].a = workers[s].a
             /\ workers'[s].scope = workers[s].scope
             /\ workers'[s].attempts = workers[s].attempts
  PROVE  KeyInv'
<1>1. rows \in [Assignments -> Rows]
  BY DEF TypeInv, TypeOK
<1>2. \A a \in Assignments : rows[a].attempts \in Nat /\ rows'[a].attempts = rows[a].attempts
  BY <1>1 DEF SameWork, Rows
<1> QED BY <1>2, KeyKept

(* Every step keeps the keys of the threads that start fresh.              *)
LEMMA KeyStep == TypeInv /\ KeyInv /\ [Next]_vars => KeyInv'
<1> SUFFICES ASSUME TypeInv, KeyInv, [Next]_vars PROVE KeyInv'
  OBVIOUS
<1>0. /\ rows \in [Assignments -> Rows] /\ workers \in [Slots -> Workers]
      /\ \A s \in Slots : Busy(s) => workers[s].a \in Assignments
      /\ \A a \in Assignments : rows[a].attempts \in Nat
      /\ \A s \in Slots : workers[s].attempts \in Nat
  BY DEF TypeInv, TypeOK, RowsKnown, Rows, Workers
<1>1. ASSUME UNCHANGED <<rows, keys>>,
             \A s \in Slots : workers'[s].pc = "start" => workers'[s] = workers[s]
      PROVE  KeyInv'
  BY <1>0, <1>1, KeyKept
<1>2. ASSUME Still PROVE KeyInv'
  BY <1>1, <1>2 DEF Still
<1>3. ASSUME ApplyControl PROVE KeyInv'
  <2> DEFINE q == inbox[1]
             b == q.a
             n == Controlled(rows[b], q.act, q.prio)
  <2>1. q \in Requests
    BY <1>3, InboxType DEF ApplyControl, TypeInv, TypeOK
  <2>2. b \in Assignments /\ q.act \in Actions /\ q.prio \in Priorities /\ rows[b] \in Rows
    BY <1>0, <2>1 DEF Requests
  <2>3. rows' = rows \/ (rows' = [rows EXCEPT ![b] = n] /\ ~ControlRefused(rows[b], q.act))
    BY <1>3 DEF ApplyControl
  <2>4. UNCHANGED <<keys, workers>>
    BY <1>3 DEF ApplyControl
  <2>5. CASE rows' = rows
    BY <1>1, <2>4, <2>5
  <2>6. CASE rows' = [rows EXCEPT ![b] = n] /\ ~ControlRefused(rows[b], q.act)
    <3>1. SameWork(rows[b], n)
      <4> HIDE DEF q, b
      <4> QED BY <2>2, <2>6, ControlledRow
    <3> HIDE DEF n, b, q
    <3> QED BY <2>2, <2>4, <2>6, <3>1, KeyRow
  <2> QED BY <2>3, <2>5, <2>6
<1>4. ASSUME NEW p \in Procs, NEW a \in Assignments, Intake(p, a) PROVE KeyInv'
  <2> DEFINE scope == view[p][a].scope
             issue == view[p][a].issue
             allowed == issue /\ scope \in Approved
             n == Upserted(rows[a], a, scope, issue, allowed)
  <2>1. rows[a] \in Rows /\ rows' = [rows EXCEPT ![a] = n] /\ UNCHANGED <<keys, workers>>
    BY <1>0, <1>4 DEF Intake
  <2>2. scope \in Scopes /\ issue \in BOOLEAN /\ allowed \in BOOLEAN
    BY <1>4 DEF Intake, TypeInv, TypeOK, Views
  <2>3. n.attempts = rows[a].attempts
    <3> HIDE DEF scope, issue, allowed
    <3> QED BY <2>1, <2>2, UpsertedRow
  <2> HIDE DEF n
  <2>4. \A b \in Assignments : rows'[b].attempts = rows[b].attempts
    BY <1>0, <2>1, <2>3
  <2> QED BY <1>0, <2>1, <2>4, KeyKept
<1>5. ASSUME NEW p \in Procs, NEW a \in Assignments, BridgeUpdate(p, a) PROVE KeyInv'
  <2> DEFINE n == BridgeUpdates(rows[a], view[p][a].state, view[p][a].phase)
  <2>1. rows[a] \in Rows /\ rows' = [rows EXCEPT ![a] = n] /\ UNCHANGED <<keys, workers>>
    BY <1>0, <1>5 DEF BridgeUpdate
  <2>2. SameWork(rows[a], n)
    BY <2>1, BridgedRow
  <2> HIDE DEF n
  <2> QED BY <2>1, <2>2, KeyRow
<1>6. ASSUME NEW s \in Slots, Reap(s) PROVE KeyInv'
  <2> DEFINE b == workers[s].a
             n == Updated(rows[b], "retry_ready", TRUE, "exception", 0)
  <2>1. workers'[s] = NoWorker /\ \A t \in Slots \ {s} : workers'[t] = workers[t]
    BY <1>0, <1>6, ReapType
  <2>2. \A t \in Slots : workers'[t].pc = "start" => workers'[t] = workers[t]
    BY <2>1, FreeSlot
  <2>3. CASE rows' = rows
    BY <1>1, <1>6, <2>2, <2>3, ReapType
  <2>4. CASE workers[s].pc = "raised" /\ rows' = [rows EXCEPT ![b] = n]
    <3>1. b \in Assignments /\ rows[b] \in Rows /\ keys' = keys
      BY <1>0, <1>6, <2>4, ReapType DEF Busy
    <3>2. SameWork(rows[b], n)
      <4> HIDE DEF b
      <4> QED BY <3>1, UpdatedRow
    <3> HIDE DEF n, b
    <3> QED BY <2>2, <2>4, <3>1, <3>2, KeyRow
  <2> QED BY <1>6, <2>3, <2>4, ReapType
<1>7. ASSUME ReleaseLeases PROVE KeyInv'
  <2>1. ASSUME NEW a \in Assignments PROVE rows'[a].attempts = rows[a].attempts
    <3>1. rows[a] \in Rows /\ rows'[a] = Released(rows[a])
      BY <1>0, <1>7 DEF ReleaseLeases
    <3> QED BY <3>1, ReleasedRow DEF SameWork
  <2>2. UNCHANGED <<keys, workers>>
    BY <1>7 DEF ReleaseLeases
  <2> QED BY <1>0, <2>1, <2>2, KeyKept
<1>8. ASSUME NEW s \in Slots, NEW a \in Assignments, Dispatch(s, a) PROVE KeyInv'
  <2>1. /\ keys' = keys /\ workers'[s].a = a /\ workers'[s].attempts = rows[a].attempts + 1
        /\ \A t \in Slots \ {s} : workers'[t] = workers[t]
    BY <1>8, DispatchType
  <2>2. rows'[a].attempts = rows[a].attempts + 1 /\ \A b \in Assignments \ {a} : rows'[b] = rows[b]
    BY <1>0, <1>8, DispatchType, ClaimedRow
  <2>3. \A t \in Slots : workers[t].pc = "start" => workers[t].a \in Assignments
    BY <1>0 DEF Busy, LiveSteps
  <2>4. \A k \in keys : k[1] \in Assignments /\ k[3] \in Nat
    BY DEF TypeInv, TypeOK
  <2>5. \A k \in keys' : k[3] <= rows'[k[1]].attempts
    <3>1. \A k \in keys : k[3] <= rows[k[1]].attempts
      BY DEF KeyInv
    <3>2. \A b \in Assignments : rows'[b].attempts \in Nat /\ rows'[b].attempts >= rows[b].attempts
      BY <1>0, <2>2
    <3> QED BY <1>0, <2>1, <2>4, <3>1, <3>2
  <2>6. ASSUME NEW t \in Slots, workers'[t].pc = "start"
        PROVE  /\ workers'[t].attempts <= rows'[workers'[t].a].attempts
               /\ Key(workers'[t]) \notin keys'
               /\ t # s /\ workers'[t].a = a => workers'[t].attempts <= rows[a].attempts
    <3>1. CASE t = s
      <4>1. \A k \in keys : k[1] = a => k[3] <= rows[a].attempts
        BY DEF KeyInv
      <4>2. Key(workers'[t])[1] = a /\ Key(workers'[t])[3] = rows[a].attempts + 1
        BY <2>1, <3>1 DEF Key
      <4> QED BY <1>0, <2>1, <2>2, <2>4, <3>1, <4>1, <4>2
    <3>2. CASE t # s
      <4>1. workers'[t] = workers[t] /\ workers[t].pc = "start"
        BY <2>1, <2>6, <3>2
      <4>2. workers[t].attempts <= rows[workers[t].a].attempts /\ Key(workers[t]) \notin keys
        BY <4>1 DEF KeyInv, FreshDispatch
      <4> QED BY <1>0, <2>1, <2>2, <2>3, <4>1, <4>2
    <3> QED BY <3>1, <3>2
  <2>7. ASSUME NEW t \in Slots, NEW u \in Slots,
               workers'[t].pc = "start", workers'[u].pc = "start",
               workers'[t].a = workers'[u].a, workers'[t].attempts = workers'[u].attempts
        PROVE  t = u
    <3>1. CASE t # s /\ u # s
      BY <2>1, <2>7, <3>1 DEF KeyInv
    <3>2. CASE t = s /\ u # s
      BY <1>0, <2>1, <2>6, <2>7, <3>2
    <3>3. CASE t # s /\ u = s
      BY <1>0, <2>1, <2>6, <2>7, <3>3
    <3> QED BY <3>1, <3>2, <3>3
  <2> QED BY <2>5, <2>6, <2>7 DEF KeyInv, FreshDispatch
<1>9. ASSUME NEW s \in Slots, NEW pc, pc # "start", Moves(s, pc)
      PROVE  \A t \in Slots : workers'[t].pc = "start" => t # s /\ workers'[t] = workers[t]
  BY <1>9 DEF Moves
<1>10. ASSUME NEW s \in Slots, Start(s) PROVE KeyInv'
  <2> DEFINE w == workers[s]
             n == Updated(rows[w.a], "blocked", FALSE, "dispatch", 0)
  <2>1. /\ w.pc = "start" /\ w.a \in Assignments /\ keys' \subseteq keys \cup {Key(w)}
        /\ \A t \in Slots : workers'[t].pc = "start" => t # s /\ workers'[t] = workers[t]
    BY <1>0, <1>9, <1>10, StartType DEF Busy, LiveSteps
  <2>2. \A a \in Assignments : rows'[a].attempts = rows[a].attempts
    <3>1. rows[w.a] \in Rows
      BY <1>0, <2>1
    <3>2. n.attempts = rows[w.a].attempts
      <4> HIDE DEF w
      <4> QED BY <3>1, UpdatedRow DEF SameWork
    <3>3. rows' = rows \/ rows' = [rows EXCEPT ![w.a] = n]
      BY <1>10, StartType
    <3> HIDE DEF n
    <3> QED BY <1>0, <2>1, <3>2, <3>3
  <2>3. w.attempts <= rows[w.a].attempts /\ Key(w)[1] = w.a /\ Key(w)[3] = w.attempts
    BY <2>1 DEF KeyInv, Key
  <2>4. \A k \in keys' : k[3] <= rows'[k[1]].attempts
    <3>1. \A k \in keys : k[3] <= rows'[k[1]].attempts
      BY <2>2 DEF KeyInv, TypeInv, TypeOK
    <3>2. Key(w)[3] <= rows'[Key(w)[1]].attempts
      BY <2>1, <2>2, <2>3
    <3> HIDE DEF w
    <3> QED BY <2>1, <3>1, <3>2
  <2>5. ASSUME NEW t \in Slots, workers'[t].pc = "start"
        PROVE  /\ workers'[t].attempts <= rows'[workers'[t].a].attempts
               /\ Key(workers'[t]) \notin keys'
    <3>1. t # s /\ workers'[t] = workers[t] /\ workers[t].pc = "start"
      BY <2>1, <2>5
    <3>2. workers[t].a \in Assignments /\ workers[t].attempts <= rows[workers[t].a].attempts
      BY <1>0, <3>1 DEF KeyInv, Busy, LiveSteps
    <3>3. Key(workers[t]) # Key(w)
      BY <2>1, <3>1 DEF KeyInv, Key
    <3>4. Key(workers[t]) \notin keys
      BY <3>1 DEF KeyInv, FreshDispatch
    <3> HIDE DEF w
    <3> QED BY <2>1, <2>2, <3>1, <3>2, <3>3, <3>4
  <2>6. \A t, u \in Slots :
           /\ workers'[t].pc = "start" /\ workers'[u].pc = "start"
           /\ workers'[t].a = workers'[u].a /\ workers'[t].attempts = workers'[u].attempts
           => t = u
    BY <2>1 DEF KeyInv
  <2> QED BY <2>4, <2>5, <2>6 DEF KeyInv, FreshDispatch
<1>11. ASSUME NEW s \in Slots, WriteOutcome(s) PROVE KeyInv'
  <2> DEFINE n == Outcome(rows[workers[s].a], workers[s])
  <2>1. workers[s].a \in Assignments /\ rows[workers[s].a] \in Rows /\ workers[s] \in Workers
    BY <1>0, <1>11, WriteOutcomeType DEF Moves, Live, Busy
  <2>2. SameWork(rows[workers[s].a], n)
    BY <2>1, OutcomeRow
  <2>3. rows' = [rows EXCEPT ![workers[s].a] = n] /\ keys' = keys
    BY <1>11, WriteOutcomeType
  <2>4. \A t \in Slots : workers'[t].pc = "start" => workers'[t] = workers[t]
    BY <1>9, <1>11, WriteOutcomeType
  <2> HIDE DEF n
  <2> QED BY <2>1, <2>2, <2>3, <2>4, KeyRow
<1>12. ASSUME NEW s \in Slots,
              (\E code \in {"ok", "fail"} : Exit(s, code)) \/ ReadState(s) \/ WorkerRaises(s)
       PROVE  KeyInv'
  BY <1>1, <1>9, <1>12, ThreadType
<1>13. ASSUME Drained \/ Crash PROVE KeyInv'
  BY <1>1, <1>13, GoneType, FreeSlot
<1>14. ASSUME Tick PROVE KeyInv'
  BY <1>0, <1>14, TickType, KeyKept DEF SameWork
<1> QED BY <1>2, <1>3, <1>4, <1>5, <1>6, <1>7, <1>8, <1>10, <1>11, <1>12, <1>13, <1>14, NextCases

(* A dispatch always has a new idempotency key, through crashes, lost      *)
(* leases and changed texts: duplicate_dispatch_suppressed never blocks    *)
(* work that was given back (Scheduler._run, claim_next).                  *)
THEOREM KeysAreFresh == Spec => []FreshDispatch
<1>1. Spec => [](TypeInv /\ KeyInv)
  BY TypeInit, TypeStep, KeyInit, KeyStep, PTL DEF Spec
<1>2. KeyInv => FreshDispatch
  BY DEF KeyInv
<1> QED BY <1>1, <1>2, PTL

-----------------------------------------------------------------------------
(* Retries.                                                                *)

\* A row that a failed worker gave back has attempts left.
InBudget(r) ==
    r.runnable /\ r.state \in {"queued", "retry_ready"} /\ r.attempts >= MaxAttempts
        => r.reason # "return_code"

(* One row within its budget is written.                                   *)
LEMMA BudgetRow ==
  ASSUME TypeInv, RetryBudget, NEW b \in Assignments, NEW n, rows' = [rows EXCEPT ![b] = n],
         InBudget(n)
  PROVE  RetryBudget'
<1>1. rows'[b] = n /\ \A a \in Assignments \ {b} : rows'[a] = rows[a]
  BY DEF TypeInv, TypeOK
<1> QED BY <1>1 DEF RetryBudget, InBudget, Claimable

(* Every step keeps the budget, because a thread knows its row's attempts. *)
LEMMA BudgetStep == TypeInv /\ OwnInv /\ RetryBudget /\ [Next]_vars => RetryBudget'
<1> SUFFICES ASSUME TypeInv, OwnInv, RetryBudget, [Next]_vars PROVE RetryBudget'
  OBVIOUS
<1>0. /\ rows \in [Assignments -> Rows] /\ workers \in [Slots -> Workers]
      /\ \A s \in Slots : Busy(s) => workers[s].a \in Assignments
      /\ \A a \in Assignments : InBudget(rows[a])
  BY DEF TypeInv, TypeOK, RowsKnown, RetryBudget, InBudget, Claimable
<1>1. ASSUME rows' = rows PROVE RetryBudget'
  BY <1>1 DEF RetryBudget, Claimable
<1>2. ASSUME ApplyControl PROVE RetryBudget'
  <2> DEFINE q == inbox[1]
             b == q.a
             r == rows[b]
             n == Controlled(r, q.act, q.prio)
  <2>1. q \in Requests
    BY <1>2, InboxType DEF ApplyControl, TypeInv, TypeOK
  <2>2. b \in Assignments /\ q.act \in Actions /\ q.prio \in Priorities /\ r \in Rows
    BY <1>0, <2>1 DEF Requests
  <2>3. rows' = rows \/ (rows' = [rows EXCEPT ![b] = n] /\ ~ControlRefused(r, q.act))
    BY <1>2 DEF ApplyControl
  <2>4. CASE rows' = [rows EXCEPT ![b] = n] /\ ~ControlRefused(r, q.act)
    <3>1. InBudget(r)
      BY <1>0, <2>2
    <3>2. /\ n.attempts = r.attempts
          /\ \/ n.state = r.state /\ n.runnable = r.runnable /\ n.reason = r.reason
             \/ n = Paused(r) /\ ~ControlRefused(r, "pause")
             \/ n = Resumed(r)
             \/ n = Cancelled(r)
      <4> HIDE DEF q, r
      <4> QED BY <2>2, <2>4, ControlledRow DEF SameWork
    <3> HIDE DEF n, r
    <3>3. InBudget(n)
      <4>1. CASE n.state = r.state /\ n.runnable = r.runnable /\ n.reason = r.reason
        BY <3>1, <3>2, <4>1 DEF InBudget
      <4>2. CASE n = Paused(r) /\ ~ControlRefused(r, "pause")
        BY <2>2, <4>2, PausedRow DEF InBudget
      <4>3. CASE n = Resumed(r)
        BY <2>2, <4>3, ResumedRow DEF InBudget, None
      <4>4. CASE n = Cancelled(r)
        BY <2>2, <4>4, CancelledRow DEF InBudget, Terminal
      <4> QED BY <3>2, <4>1, <4>2, <4>3, <4>4
    <3> HIDE DEF b
    <3> QED BY <2>2, <2>4, <3>3, BudgetRow
  <2> QED BY <1>1, <2>3, <2>4
<1>3. ASSUME NEW p \in Procs, NEW a \in Assignments, Intake(p, a) PROVE RetryBudget'
  <2> DEFINE scope == view[p][a].scope
             issue == view[p][a].issue
             allowed == issue /\ scope \in Approved
             n == Upserted(rows[a], a, scope, issue, allowed)
  <2>1. rows[a] \in Rows /\ rows' = [rows EXCEPT ![a] = n]
    BY <1>0, <1>3 DEF Intake
  <2>2. scope \in Scopes /\ issue \in BOOLEAN /\ allowed \in BOOLEAN
    BY <1>3 DEF Intake, TypeInv, TypeOK, Views
  <2>3. n = rows[a] \/ n.state = "blocked" \/ n.reason # "return_code"
    <3> HIDE DEF scope, issue, allowed
    <3> QED BY <2>1, <2>2, UpsertedRow
  <2> HIDE DEF n
  <2>4. InBudget(n)
    BY <1>0, <2>3 DEF InBudget
  <2> QED BY <2>1, <2>4, BudgetRow
<1>4. ASSUME NEW p \in Procs, NEW a \in Assignments, BridgeUpdate(p, a) PROVE RetryBudget'
  <2> DEFINE n == BridgeUpdates(rows[a], view[p][a].state, view[p][a].phase)
  <2>1. rows[a] \in Rows /\ rows' = [rows EXCEPT ![a] = n]
    BY <1>0, <1>4 DEF BridgeUpdate
  <2>2. n = rows[a] \/ n.state \in Idle \cup {"complete"}
    BY <2>1, BridgedRow
  <2> HIDE DEF n
  <2>3. InBudget(n)
    BY <1>0, <2>2 DEF InBudget, Idle
  <2> QED BY <2>1, <2>3, BudgetRow
<1>5. ASSUME NEW s \in Slots, Reap(s) PROVE RetryBudget'
  <2> DEFINE b == workers[s].a
             n == Updated(rows[b], "retry_ready", TRUE, "exception", 0)
  <2>1. CASE workers[s].pc = "raised" /\ rows' = [rows EXCEPT ![b] = n]
    <3>1. b \in Assignments /\ rows[b] \in Rows
      BY <1>0, <2>1 DEF Busy
    <3>2. InBudget(n)
      <4> HIDE DEF b
      <4> QED BY <3>1, UpdatedRow DEF InBudget
    <3> HIDE DEF n, b
    <3> QED BY <2>1, <3>1, <3>2, BudgetRow
  <2> QED BY <1>1, <1>5, <2>1, ReapType
<1>6. ASSUME ReleaseLeases PROVE RetryBudget'
  <2>1. ASSUME NEW a \in Assignments PROVE InBudget(rows'[a])
    <3>1. rows[a] \in Rows /\ rows'[a] = Released(rows[a]) /\ InBudget(rows[a])
      BY <1>0, <1>6 DEF ReleaseLeases
    <3> QED BY <3>1, ReleasedRow DEF InBudget
  <2> QED BY <2>1 DEF InBudget, RetryBudget, Claimable
<1>7. ASSUME NEW s \in Slots, NEW a \in Assignments, Dispatch(s, a) PROVE RetryBudget'
  <2>1. rows' = [rows EXCEPT ![a] = Claimed(rows[a])] /\ rows[a] \in Rows
    BY <1>0, <1>7, DispatchType
  <2>2. InBudget(Claimed(rows[a]))
    BY <2>1, ClaimedRow DEF InBudget
  <2> QED BY <2>1, <2>2, BudgetRow
<1>8. ASSUME NEW s \in Slots, Live(s)
      PROVE  /\ workers[s].a \in Assignments
             /\ InBudget(Updated(rows[workers[s].a], "blocked", FALSE, "dispatch", 0))
             /\ InBudget(Outcome(rows[workers[s].a], workers[s]))
  <2> DEFINE b == workers[s].a
             w == workers[s]
  <2>1. b \in Assignments /\ rows[b] \in Rows /\ w \in Workers /\ w.attempts = rows[b].attempts
    BY <1>0, <1>8 DEF Busy, Live, OwnInv
  <2>2. rows[b].attempts \in Nat /\ MaxAttempts \in Nat
    BY <2>1, BoundsAssumption DEF Rows
  <2>3. InBudget(Updated(rows[b], "blocked", FALSE, "dispatch", 0))
    <3> HIDE DEF b
    <3> QED BY <2>1, UpdatedRow DEF InBudget
  <2>4. InBudget(Outcome(rows[b], w))
    <3> DEFINE n == Outcome(rows[b], w)
    <3>1. /\ n.attempts = rows[b].attempts
          /\ \/ n.state \in {"cancelled", "paused", "validation_ready", "blocked"}
             \/ w.attempts < MaxAttempts
      <4> HIDE DEF b, w
      <4> QED BY <2>1, OutcomeRow DEF SameWork
    <3> HIDE DEF n, b, w
    <3>2. InBudget(n)
      BY <2>1, <2>2, <3>1 DEF InBudget
    <3> QED BY <3>2 DEF n
  <2> QED BY <2>1, <2>3, <2>4
<1>9. ASSUME NEW s \in Slots, Start(s) PROVE RetryBudget'
  BY <1>1, <1>8, <1>9, StartType, BudgetRow DEF Moves
<1>10. ASSUME NEW s \in Slots, WriteOutcome(s) PROVE RetryBudget'
  BY <1>8, <1>10, WriteOutcomeType, BudgetRow DEF Moves
<1>11. ASSUME Tick PROVE RetryBudget'
  BY <1>11, TickType DEF RetryBudget, Claimable, SameWork
<1> QED BY <1>1, <1>2, <1>3, <1>4, <1>5, <1>6, <1>7, <1>9, <1>10, <1>11, NextCases,
           ThreadType, GoneType DEF Still

(* A worker that failed for the max_attempts-th time is not run again      *)
(* unless the owner resumes it, whatever attempts crashes and lost leases  *)
(* used up before (Scheduler._run, claim_next).                            *)
THEOREM RetriesAreBounded ==
  ASSUME Slack < Margin
  PROVE  Spec => []RetryBudget
<1>1. Init => RetryBudget
  BY DEF Init, RetryBudget, Claimable, Absent
<1> QED BY <1>1, TypeInit, TypeStep, OwnInit, OwnStep, BudgetStep, PTL DEF Spec

-----------------------------------------------------------------------------
(* Completion.                                                             *)

\* A process has verified a listing only if it recorded all checks as passed, and
\* then only the other process's later results are over its own.
Verified(a) == validated[a] \in {"all", "overtaken"}

EvidenceInv ==
    \A p \in Procs, a \in Assignments : view[p][a].phase = "verified" => Verified(a)

\* A listing that is new or was applied says nothing of verified checks.
ListingKept(p, a) == view'[p][a].phase = "verified" => view[p][a].phase = "verified"

(* The listings and the recorded checks move together.                     *)
LEMMA EvidenceStep ==
  TypeInv /\ EvidenceInv /\ [Next]_vars => EvidenceInv'
<1> SUFFICES ASSUME TypeInv, EvidenceInv, [Next]_vars PROVE EvidenceInv'
  OBVIOUS
<1>0. /\ view \in [Procs -> [Assignments -> Views]] /\ "service" \in Procs
      /\ validated \in [Assignments -> {"none", "partial", "all", "overtaken"}]
  BY ProcsAssumption DEF TypeInv, TypeOK
<1>1. ASSUME validated' = validated, \A p \in Procs, a \in Assignments : ListingKept(p, a)
      PROVE  EvidenceInv'
  BY <1>1 DEF EvidenceInv, ListingKept, Verified
<1>2. NoView.phase # "verified" /\ \A a \in Assignments : Nothing[a].phase # "verified"
  BY DEF NoView, Nothing, None
<1>3. ASSUME UNCHANGED <<view, validated>> PROVE EvidenceInv'
  BY <1>3 DEF EvidenceInv, Verified
<1>4. ASSUME NEW p \in Procs, NEW f, \A a \in Assignments : f[a].phase # "verified",
             view' = [view EXCEPT ![p] = f], validated' = validated
      PROVE  EvidenceInv'
  <2>1. \A q \in Procs : view'[q] = IF q = p THEN f ELSE view[q]
    BY <1>0, <1>4
  <2> QED BY <1>1, <1>4, <2>1 DEF ListingKept
<1>6. ASSUME NEW p \in Procs, StartIntake(p) PROVE EvidenceInv'
  <2> DEFINE issue(a) == p = "service" /\ world[a].issue
             f == [a \in Assignments |->
                      [NoView EXCEPT !.scope = world[a].scope, !.issue = issue(a)]]
  <2>1. view' = [view EXCEPT ![p] = f] /\ validated' = validated
    BY <1>6 DEF StartIntake
  <2>2. ASSUME NEW a \in Assignments PROVE f[a].phase # "verified"
    <3>1. f[a] = [NoView EXCEPT !.scope = world[a].scope, !.issue = issue(a)]
      BY Zenon
    <3> HIDE DEF issue, f
    <3> QED BY <3>1 DEF NoView, None
  <2> HIDE DEF f
  <2> QED BY <1>4, <2>1, <2>2
<1>7. ASSUME NEW p \in Procs, NEW a \in Assignments, Intake(p, a) \/ BridgeUpdate(p, a)
      PROVE  EvidenceInv'
  <2>1. view' = [view EXCEPT ![p][a] = NoView] /\ validated' = validated
    BY <1>7 DEF Intake, BridgeUpdate
  <2>2. \A q \in Procs, b \in Assignments : ListingKept(q, b)
    BY <1>0, <1>2, <2>1 DEF ListingKept
  <2> QED BY <1>1, <2>1, <2>2
<1>8. ASSUME NEW p \in Procs, StartBridge(p) PROVE EvidenceInv'
  <2> DEFINE f == [a \in Assignments |->
           IF rows[a].state = "absent" THEN NoView
           ELSE [NoView EXCEPT !.state = rows[a].state, !.phase = world[a].phase]]
  <2>1. view' = [view EXCEPT ![p] = f] /\ validated' = validated
    BY <1>8 DEF StartBridge
  <2>2. \A a \in Assignments : world[a].phase # "verified"
    BY PhasesAssumption DEF TypeInv, TypeOK, None
  <2>3. \A a \in Assignments : f[a].phase # "verified"
    BY <1>2, <2>2 DEF NoView
  <2> HIDE DEF f
  <2> QED BY <1>4, <2>1, <2>3
<1>9. ASSUME NEW p \in Procs, NEW a \in Assignments, BridgeVerify(p, a) PROVE EvidenceInv'
  <2>1. /\ view' = [view EXCEPT ![p][a].phase =
                        IF ChecksPass(a) THEN "verified" ELSE "unverified"]
        /\ validated' = [validated EXCEPT ![a] = Recorded(p, a)]
    BY <1>9 DEF BridgeVerify
  <2>2. /\ validated'[a] = Recorded(p, a)
        /\ \A b \in Assignments \ {a} : validated'[b] = validated[b]
    BY <1>0, <2>1
  <2>3. /\ view'[p][a].phase = IF ChecksPass(a) THEN "verified" ELSE "unverified"
        /\ \A q \in Procs, b \in Assignments : q # p \/ b # a => view'[q][b] = view[q][b]
    <3>1. view[p][a] \in Views
      BY <1>0
    <3> QED BY <1>0, <2>1, <3>1 DEF Views
  <2>4. ASSUME NEW q \in Procs, NEW b \in Assignments, view'[q][b].phase = "verified"
        PROVE  validated'[b] \in {"all", "overtaken"}
    <3>1. CASE b # a
      BY <2>2, <2>3, <2>4, <3>1 DEF EvidenceInv, Verified
    <3>2. CASE b = a /\ ChecksPass(a)
      BY <2>2, <3>2 DEF Recorded
    <3>3. CASE b = a /\ ~ChecksPass(a)
      <4>1. q # p /\ view[q][a].phase = "verified"
        BY <2>3, <2>4, <3>3
      <4> QED BY <2>2, <3>3, <4>1 DEF Recorded
    <3> QED BY <3>1, <3>2, <3>3
  <2> QED BY <2>4 DEF EvidenceInv, Verified
<1>10. ASSUME NEW p \in Procs, BridgeDone(p) PROVE EvidenceInv'
  BY <1>2, <1>4, <1>10 DEF BridgeDone
<1>11. ASSUME Stop \/ Crash PROVE EvidenceInv'
  BY <1>0, <1>2, <1>4, <1>11 DEF Stop, Crash
<1>12. CASE ServiceStep
  <2>1. UNCHANGED <<view, validated>>
    BY <1>12 DEF ServiceStep, CycleStarts, ApplyControl, WriteAnswer, Reaped, ReleaseLeases,
                 DispatchDone, Drained, Restart, Reap, Dispatch
  <2> QED BY <1>3, <2>1
<1>13. CASE \E s \in Slots : WorkerStep(s)
  <2>1. UNCHANGED <<view, validated>>
    BY <1>13 DEF WorkerStep, Start, ReadState, WriteOutcome, Exit
  <2> QED BY <1>3, <2>1
<1>14. CASE Environment
  <2>1. UNCHANGED <<view, validated>> \/ Stop \/ Crash
    BY <1>14 DEF Environment, WorkerRaises, WorldMoves, OwnerAsks
  <2> QED BY <1>3, <1>11, <2>1
<1>15. CASE \E p \in Procs : StartIntake(p) \/ ReconcileStep(p)
  BY <1>6, <1>7, <1>8, <1>9, <1>10, <1>15 DEF ReconcileStep
<1>16. CASE Tick \/ UNCHANGED vars
  BY <1>3, <1>16 DEF Tick, vars
<1> QED BY <1>12, <1>13, <1>14, <1>15, <1>16 DEF Next

(* A control completes no row.                                             *)
LEMMA ControlCompletesNothing ==
  ASSUME NEW r \in Rows, NEW act \in Actions, NEW prio \in Priorities, ~ControlRefused(r, act),
         r.from \notin Terminal \cup {"absent", "paused"}, r.state # "complete"
  PROVE  Controlled(r, act, prio).state # "complete"
<1> DEFINE n == Controlled(r, act, prio)
<1>1. \/ n = Paused(r) /\ ~ControlRefused(r, "pause")
      \/ n = Resumed(r)
      \/ n = Cancelled(r)
      \/ n.state = r.state
  BY ControlledRow
<1> SUFFICES n.state # "complete"
  OBVIOUS
<1> HIDE DEF n
<1>2. CASE n = Paused(r) /\ ~ControlRefused(r, "pause")
  BY <1>2, PausedRow
<1>3. CASE n = Resumed(r)
  BY <1>3, ResumedRow DEF Terminal
<1>4. CASE n = Cancelled(r)
  BY <1>4, CancelledRow
<1> QED BY <1>1, <1>2, <1>3, <1>4

\* A step completes row a.
Completes(a) == rows[a].state # "complete" /\ rows'[a].state = "complete"

(* Only the bridge completes a row, and only one whose checks it verified. *)
LEMMA CompletionStep ==
  ASSUME TypeInv, EvidenceInv, [Next]_vars, NEW a \in Assignments, Completes(a)
  PROVE  Verified(a)
<1>0. /\ rows \in [Assignments -> Rows] /\ workers \in [Slots -> Workers]
      /\ \A s \in Slots : Busy(s) => workers[s].a \in Assignments
  BY DEF TypeInv, TypeOK, RowsKnown
<1>1. ASSUME NEW b \in Assignments, NEW n, rows' = [rows EXCEPT ![b] = n] PROVE b = a /\ n.state = "complete"
  BY <1>0, <1>1 DEF Completes
<1>2. rows' # rows
  BY DEF Completes
<1>3. ASSUME ApplyControl PROVE FALSE
  <2> DEFINE q == inbox[1]
             b == q.a
             n == Controlled(rows[b], q.act, q.prio)
  <2>1. q \in Requests
    BY <1>3, InboxType DEF ApplyControl, TypeInv, TypeOK
  <2>2. b \in Assignments /\ q.act \in Actions /\ q.prio \in Priorities /\ rows[b] \in Rows
    BY <1>0, <2>1 DEF Requests
  <2>3. rows' = [rows EXCEPT ![b] = n] /\ ~ControlRefused(rows[b], q.act)
    BY <1>2, <1>3 DEF ApplyControl
  <2>4. b = a /\ n.state = "complete"
    <3> HIDE DEF n, b
    <3> QED BY <1>1, <2>2, <2>3
  <2>5. rows[b].from \notin Terminal \cup {"absent", "paused"} /\ rows[b].state # "complete"
    BY <2>2, <2>4 DEF TypeInv, RowsKnown, Completes
  <2> HIDE DEF b, q
  <2> QED BY <2>2, <2>3, <2>4, <2>5, ControlCompletesNothing
<1>4. ASSUME NEW p \in Procs, NEW b \in Assignments, Intake(p, b) PROVE FALSE
  <2> DEFINE scope == view[p][b].scope
             issue == view[p][b].issue
             allowed == issue /\ scope \in Approved
             n == Upserted(rows[b], b, scope, issue, allowed)
  <2>1. rows[b] \in Rows /\ rows' = [rows EXCEPT ![b] = n]
    BY <1>0, <1>4 DEF Intake
  <2>2. scope \in Scopes /\ issue \in BOOLEAN /\ allowed \in BOOLEAN
    BY <1>4 DEF Intake, TypeInv, TypeOK, Views
  <2>3. n = rows[b] \/ n.state \in {"blocked", "queued", "proposal_only"}
    <3> HIDE DEF scope, issue, allowed
    <3> QED BY <2>1, <2>2, UpsertedRow
  <2> HIDE DEF n
  <2> QED BY <1>1, <2>1, <2>3 DEF Completes
<1>5. ASSUME NEW p \in Procs, NEW b \in Assignments, BridgeUpdate(p, b)
      PROVE  Verified(a)
  <2> DEFINE n == BridgeUpdates(rows[b], view[p][b].state, view[p][b].phase)
  <2>1. rows[b] \in Rows /\ rows' = [rows EXCEPT ![b] = n]
    BY <1>0, <1>5 DEF BridgeUpdate
  <2>2. n = rows[b] \/ view[p][b].phase = "verified" \/ n.state \in Idle
    BY <2>1, BridgedRow
  <2> HIDE DEF n
  <2>3. b = a /\ view[p][b].phase = "verified"
    BY <1>1, <2>1, <2>2 DEF Completes, Idle
  <2> QED BY <2>1, <2>3 DEF EvidenceInv
<1>6. ASSUME NEW s \in Slots, Reap(s) PROVE FALSE
  <2> DEFINE b == workers[s].a
             n == Updated(rows[b], "retry_ready", TRUE, "exception", 0)
  <2>1. b \in Assignments /\ rows[b] \in Rows /\ rows' = [rows EXCEPT ![b] = n]
    BY <1>0, <1>2, <1>6, ReapType DEF Busy
  <2>2. n.state = "retry_ready"
    <3> HIDE DEF b
    <3> QED BY <2>1, UpdatedRow
  <2> HIDE DEF n, b
  <2> QED BY <1>1, <2>1, <2>2
<1>7. ASSUME ReleaseLeases PROVE FALSE
  <2>1. rows[a] \in Rows /\ rows'[a] = Released(rows[a])
    BY <1>0, <1>7 DEF ReleaseLeases
  <2> QED BY <2>1, ReleasedRow DEF Completes
<1>8. ASSUME NEW s \in Slots, NEW b \in Assignments, Dispatch(s, b) PROVE FALSE
  <2>1. rows' = [rows EXCEPT ![b] = Claimed(rows[b])] /\ rows[b] \in Rows
    BY <1>0, <1>8, DispatchType
  <2>2. Claimed(rows[b]).state = "running"
    BY <2>1, ClaimedRow
  <2> QED BY <1>1, <2>1, <2>2
<1>9. ASSUME NEW s \in Slots, Start(s) \/ WriteOutcome(s) PROVE FALSE
  <2> DEFINE b == workers[s].a
             w == workers[s]
             n == Updated(rows[b], "blocked", FALSE, "dispatch", 0)
             m == Outcome(rows[b], w)
  <2>1. b \in Assignments /\ rows[b] \in Rows /\ w \in Workers
    BY <1>0, <1>9, StartType, WriteOutcomeType DEF Moves, Live, Busy
  <2>2. rows' = [rows EXCEPT ![b] = n] \/ rows' = [rows EXCEPT ![b] = m]
    BY <1>2, <1>9, StartType, WriteOutcomeType
  <2>3. n.state # "complete" /\ m.state # "complete"
    <3> HIDE DEF b, w
    <3> QED BY <2>1, UpdatedRow, OutcomeRow
  <2> HIDE DEF n, m, b
  <2> QED BY <1>1, <2>1, <2>2, <2>3
<1>10. ASSUME Tick PROVE FALSE
  BY <1>10, TickType DEF Completes
<1> QED BY <1>2, <1>3, <1>4, <1>5, <1>6, <1>7, <1>8, <1>9, <1>10, NextCases,
           ThreadType, GoneType DEF Still

(* A row becomes complete only while all its release checks are recorded   *)
(* as passed, or were when the process that completes it recorded them and *)
(* the other process's result overtook it: with the service and the        *)
(* operator's sync side by side, no worker, control, stale listing or      *)
(* crash completes a row that nobody verified (reconcile_release_bridge,   *)
(* record_validation, update_state).                                       *)
THEOREM CompletionsAreVerified ==
  Spec => CompletionIsVerified
<1>1. Init => EvidenceInv
  BY DEF Init, EvidenceInv, Nothing, NoView, None
<1>2. Spec => [](TypeInv /\ EvidenceInv)
  BY <1>1, TypeInit, TypeStep, EvidenceStep, PTL DEF Spec
<1>3. TypeInv /\ EvidenceInv /\ [Next]_vars =>
        [\A a \in Assignments :
             rows[a].state # "complete" /\ rows'[a].state = "complete"
                 => validated[a] \in {"all", "overtaken"}]_vars
  BY CompletionStep DEF Completes, Verified
<1> QED BY <1>2, <1>3, PTL DEF Spec, CompletionIsVerified


-----------------------------------------------------------------------------
(* The Production Manager keeps the promise of LeasedWork.                 *)

\* The attempt of thread s was launched, and its outcome is still to come.
Under(s) == workers[s].pc \in {"exec", "read", "write"}

\* The attempt a thread is about to launch has a number above all used ones.
NumberInv ==
    \A s \in Slots : workers[s].pc = "start" =>
        \A k \in keys : k[1] = workers[s].a => k[3] < workers[s].attempts

(* No thread starts at first.                                              *)
LEMMA NumberInit == Init => NumberInv
BY FreeSlot DEF Init, NumberInv

(* Numbers stay ahead when no key is used and no thread comes to start.    *)
LEMMA NumberKept ==
  ASSUME NumberInv, keys' = keys,
         \A s \in Slots : workers'[s].pc = "start" =>
             /\ workers[s].pc = "start" /\ workers'[s].a = workers[s].a
             /\ workers'[s].attempts = workers[s].attempts
  PROVE  NumberInv'
BY DEF NumberInv

(* What each step means for the attempts that run.                         *)
LEMMA RunningKept ==
  ASSUME \A s \in Slots : /\ Under(s)' <=> Under(s)
                          /\ Under(s) => Key(workers'[s]) = Key(workers[s])
  PROVE  Running' = Running
BY DEF Running, Under

(* An attempt that ends is the only one that does.                         *)
LEMMA RunningLess ==
  ASSUME OwnInv, NEW s \in Slots, Under(s), ~Under(s)',
         \A t \in Slots \ {s} : workers'[t] = workers[t]
  PROVE  Key(workers[s]) \in Running /\ Running' = Running \ {Key(workers[s])}
<1>1. ASSUME NEW t \in Slots \ {s}, Under(t) PROVE Key(workers[t]) # Key(workers[s])
  <2>1. Busy(s) /\ Busy(t)
    BY <1>1 DEF Under, Busy, LiveSteps
  <2>2. workers[t].a # workers[s].a
    BY <2>1 DEF OwnInv
  <2> QED BY <2>2 DEF Key
<1>2. \A t \in Slots \ {s} : Under(t)' <=> Under(t)
  BY DEF Under
<1>3. ASSUME NEW k \in Running' PROVE k \in Running \ {Key(workers[s])}
  <2>1. PICK t \in Slots : Under(t)' /\ k = Key(workers'[t])
    BY <1>3 DEF Running, Under
  <2>2. t # s /\ workers'[t] = workers[t] /\ Under(t)
    BY <1>2, <2>1
  <2> QED BY <1>1, <2>1, <2>2 DEF Running, Under
<1>4. ASSUME NEW k \in Running, k # Key(workers[s]) PROVE k \in Running'
  <2>1. PICK t \in Slots : Under(t) /\ k = Key(workers[t])
    BY DEF Running, Under
  <2>2. t # s /\ workers'[t] = workers[t] /\ Under(t)'
    BY <1>2, <1>4, <2>1
  <2> QED BY <2>1, <2>2 DEF Running, Under
<1>5. Key(workers[s]) \in Running
  BY DEF Running, Under
<1> QED BY <1>3, <1>4, <1>5

(* A thread that starts launches its attempt, and never is refused.        *)
LEMMA StartLaunches ==
  ASSUME TypeInv, OwnInv, AuthorityInv, KeyInv, NumberInv, NEW s \in Slots, Start(s)
  PROVE  Promise!Next /\ NumberInv'
<1> DEFINE w == workers[s]
<1>1. w.pc = "start" /\ Busy(s) /\ w \in Workers /\ workers \in [Slots -> Workers]
  BY DEF Start, Busy, LiveSteps, TypeInv, TypeOK
<1>2. w.a \in Assignments /\ w.scope \in Approved /\ w.issue /\ w.attempts \in Nat
  BY <1>1 DEF TypeInv, RowsKnown, AuthorityInv, Authorized, Workers
<1>3. Key(w) \notin keys
  BY <1>1 DEF KeyInv, FreshDispatch
<1>4. /\ keys' = keys \cup {Key(w)} /\ workers' = [workers EXCEPT ![s] = [w EXCEPT !.pc = "exec"]]
  BY <1>2, <1>3 DEF Start
<1>5. /\ workers'[s].pc = "exec" /\ Key(workers'[s]) = Key(w)
      /\ \A t \in Slots \ {s} : workers'[t] = workers[t]
  <2>1. workers'[s] = [w EXCEPT !.pc = "exec"] /\ \A t \in Slots \ {s} : workers'[t] = workers[t]
    BY <1>1, <1>4
  <2> QED BY <1>1, <2>1 DEF Key, Workers
<1>6. Key(w) = <<w.a, w.scope, w.attempts>>
  BY DEF Key
<1>7. ASSUME NEW t \in Slots \ {s}, Busy(t) PROVE workers[t].a # w.a
  BY <1>1, <1>7 DEF OwnInv
<1> HIDE DEF w
<1>8. Running' = Running \cup {Key(w)}
  <2>1. ASSUME NEW k \in Running' PROVE k \in Running \cup {Key(w)}
    <3>1. PICK t \in Slots : workers'[t].pc \in {"exec", "read", "write"} /\ k = Key(workers'[t])
      BY <2>1 DEF Running
    <3> QED BY <1>5, <3>1 DEF Running
  <2>2. ASSUME NEW k \in Running PROVE k \in Running'
    <3>1. PICK t \in Slots : workers[t].pc \in {"exec", "read", "write"} /\ k = Key(workers[t])
      BY DEF Running
    <3>2. t # s
      BY <1>1, <3>1 DEF w
    <3> QED BY <1>5, <3>1, <3>2 DEF Running
  <2>3. Key(w) \in Running'
    BY <1>5 DEF Running
  <2> QED BY <2>1, <2>2, <2>3
<1>9. ASSUME NEW e \in Running PROVE e[1] # w.a
  <2>1. PICK t \in Slots : workers[t].pc \in {"exec", "read", "write"} /\ e = Key(workers[t])
    BY DEF Running
  <2>2. t # s /\ Busy(t) /\ e[1] = workers[t].a
    BY <1>1, <2>1 DEF w, Busy, LiveSteps, Key
  <2> QED BY <1>7, <2>2
<1>10. ASSUME NEW e \in keys, e[1] = w.a PROVE e[3] < w.attempts
  BY <1>1, <1>10 DEF NumberInv, w
<1>11. Promise!Launch(Key(w))
  <2>1. Key(w) \in Promise!Attempts
    BY <1>2, <1>6 DEF Promise!Attempts
  <2>2. Key(w)[1] = w.a /\ Key(w)[3] = w.attempts
    BY <1>6
  <2> QED BY <1>4, <1>8, <1>9, <1>10, <2>1, <2>2 DEF Promise!Launch
<1>12. Promise!Next
  <2>1. Key(w) \in keys'
    BY <1>4
  <2> QED BY <1>11, <2>1 DEF Promise!Next
<1>13. NumberInv'
  <2> SUFFICES ASSUME NEW t \in Slots, workers'[t].pc = "start", NEW k \in keys',
                      k[1] = workers'[t].a
               PROVE  k[3] < workers'[t].attempts
    BY DEF NumberInv
  <2>1. t # s /\ workers'[t] = workers[t] /\ Busy(t)
    BY <1>5 DEF Busy, LiveSteps
  <2>2. k # Key(w)
    BY <1>6, <1>7, <2>1
  <2> QED BY <1>4, <2>1, <2>2 DEF NumberInv
<1> QED BY <1>12, <1>13

(* Every step is a launch, an end, or nothing to the attempts.             *)
LEMMA PromiseStep ==
  TypeInv /\ OwnInv /\ AuthorityInv /\ KeyInv /\ NumberInv /\ [Next]_vars
      => [Promise!Next]_Promise!vars /\ NumberInv'
<1> SUFFICES ASSUME TypeInv, OwnInv, AuthorityInv, KeyInv, NumberInv, [Next]_vars
             PROVE  [Promise!Next]_Promise!vars /\ NumberInv'
  OBVIOUS
<1> DEFINE Goal == [Promise!Next]_Promise!vars /\ NumberInv'
<1>1. ASSUME keys' = keys, Running' = Running PROVE [Promise!Next]_Promise!vars
  BY <1>1 DEF Promise!vars
<1>2. ASSUME UNCHANGED <<keys, workers>> PROVE Goal
  <2>1. Running' = Running
    BY <1>2 DEF Running
  <2> QED BY <1>1, <1>2, <2>1, NumberKept
<1>3. ASSUME NEW s \in Slots, ~Under(s), ~Under(s)', keys' = keys,
             \A t \in Slots \ {s} : workers'[t] = workers[t]
      PROVE  [Promise!Next]_Promise!vars
  <2>1. Running' = Running
    <3>1. \A t \in Slots : /\ Under(t)' <=> Under(t)
                           /\ Under(t) => Key(workers'[t]) = Key(workers[t])
      BY <1>3 DEF Under
    <3> QED BY <3>1, RunningKept
  <2> QED BY <1>1, <1>3, <2>1
<1>4. ASSUME NEW s \in Slots, Under(s), ~Under(s)', keys' = keys,
             \A t \in Slots \ {s} : workers'[t] = workers[t]
      PROVE  [Promise!Next]_Promise!vars
  <2>1. Key(workers[s]) \in Running /\ Running' = Running \ {Key(workers[s])}
    BY <1>4, RunningLess
  <2>2. Promise!Finish(Key(workers[s]))
    BY <1>4, <2>1 DEF Promise!Finish
  <2> QED BY <2>1, <2>2 DEF Promise!Next
<1>5. ASSUME NEW s \in Slots, NEW pc \in {"read", "write", "raised", "done"}, Moves(s, pc),
             keys' = keys
      PROVE  NumberInv'
  BY <1>5, NumberKept DEF Moves
<1>6. ASSUME NEW s \in Slots, Reap(s) PROVE Goal
  <2>1. /\ ~Live(s) /\ workers'[s].pc = "free" /\ keys' = keys
        /\ \A t \in Slots \ {s} : workers'[t] = workers[t]
    <3>1. workers \in [Slots -> Workers]
      BY DEF TypeInv, TypeOK
    <3>2. ~Live(s) /\ workers' = [workers EXCEPT ![s] = NoWorker] /\ keys' = keys
      BY <1>6, ReapType
    <3> QED BY <3>1, <3>2, FreeSlot
  <2>2. ~Under(s) /\ ~Under(s)'
    BY <2>1 DEF Under, Live, LiveSteps
  <2>3. NumberInv'
    BY <2>1, NumberKept
  <2> QED BY <1>3, <2>1, <2>2, <2>3
<1>7. ASSUME NEW s \in Slots, NEW a \in Assignments, Dispatch(s, a) PROVE Goal
  <2>1. /\ workers[s].pc = "free" /\ workers'[s].pc = "start" /\ keys' = keys
        /\ workers'[s].a = a /\ workers'[s].attempts = rows[a].attempts + 1
        /\ \A t \in Slots \ {s} : workers'[t] = workers[t]
    BY <1>7, DispatchType DEF Dispatch
  <2>2. ~Under(s) /\ ~Under(s)'
    BY <2>1 DEF Under
  <2>3. rows[a].attempts \in Nat /\ \A k \in keys : k[3] \in Nat
    <3>1. rows[a] \in Rows /\ keys \subseteq Assignments \X Scopes \X Nat
      BY DEF TypeInv, TypeOK
    <3> QED BY <3>1 DEF Rows
  <2>4. ASSUME NEW k \in keys, k[1] = a PROVE k[3] < rows[a].attempts + 1
    <3>1. k[3] <= rows[a].attempts
      BY <2>4 DEF KeyInv
    <3> QED BY <2>3, <3>1
  <2>5. NumberInv'
    <3>1. ASSUME NEW t \in Slots, workers'[t].pc = "start", NEW k \in keys, k[1] = workers'[t].a
          PROVE  k[3] < workers'[t].attempts
      <4>1. CASE t = s
        BY <2>1, <2>4, <3>1, <4>1
      <4>2. CASE t # s
        BY <2>1, <3>1, <4>2 DEF NumberInv
      <4> QED BY <4>1, <4>2
    <3> QED BY <2>1, <3>1 DEF NumberInv
  <2> QED BY <1>3, <2>1, <2>2, <2>5
<1>8. ASSUME NEW s \in Slots, Start(s) PROVE Goal
  BY <1>8, StartLaunches
<1>9. ASSUME NEW s \in Slots,
             (\E code \in {"ok", "fail"} : Exit(s, code)) \/ ReadState(s) \/ WorkerRaises(s)
      PROVE  Goal
  <2>1. keys' = keys /\ \E pc \in {"read", "write", "raised"} : Moves(s, pc)
    BY <1>9, ThreadType
  <2>2. PICK pc \in {"read", "write", "raised"} : Moves(s, pc)
    BY <2>1
  <2>3. NumberInv'
    BY <1>5, <2>1, <2>2
  <2>4. /\ Key(workers'[s]) = Key(workers[s]) /\ workers'[s].pc = pc
        /\ \A t \in Slots \ {s} : workers'[t] = workers[t]
    BY <2>2 DEF Moves, SameThread, Key
  <2>5. CASE WorkerRaises(s)
    <3>1. ~Under(s)'
      BY <2>5 DEF WorkerRaises, Under, TypeInv, TypeOK, Workers
    <3> QED BY <1>3, <1>4, <2>1, <2>3, <2>4, <3>1
  <2>6. CASE (\E code \in {"ok", "fail"} : Exit(s, code)) \/ ReadState(s)
    <3>1. Under(s) /\ Under(s)'
      BY <2>6 DEF Exit, ReadState, Under, TypeInv, TypeOK, Workers
    <3>2. \A t \in Slots : /\ Under(t)' <=> Under(t)
                           /\ Under(t) => Key(workers'[t]) = Key(workers[t])
      BY <2>4, <3>1 DEF Under
    <3>3. Running' = Running
      BY <3>2, RunningKept
    <3> QED BY <1>1, <2>1, <2>3, <3>3
  <2> QED BY <1>9, <2>5, <2>6
<1>10. ASSUME NEW s \in Slots, WriteOutcome(s) PROVE Goal
  <2>1. keys' = keys /\ Moves(s, "done") /\ workers[s].pc = "write"
    BY <1>10, WriteOutcomeType DEF WriteOutcome
  <2>2. Under(s) /\ ~Under(s)' /\ \A t \in Slots \ {s} : workers'[t] = workers[t]
    BY <2>1 DEF Under, Moves
  <2>3. NumberInv'
    BY <1>5, <2>1
  <2> QED BY <1>4, <2>1, <2>2, <2>3
<1>11. ASSUME Drained \/ Crash PROVE Goal
  <2>1. keys' = keys /\ \A s \in Slots : workers'[s].pc = "free"
    BY <1>11, GoneType, FreeSlot
  <2>2. Running' = {}
    BY <2>1 DEF Running
  <2>3. Promise!LoseAll
    BY <2>1, <2>2 DEF Promise!LoseAll
  <2>4. NumberInv'
    BY <2>1, NumberKept
  <2> QED BY <2>3, <2>4 DEF Promise!Next
<1>12. ASSUME Tick PROVE Goal
  <2>1. /\ keys' = keys
        /\ \A s \in Slots : /\ workers'[s].pc = workers[s].pc /\ workers'[s].a = workers[s].a
                            /\ workers'[s].scope = workers[s].scope
                            /\ workers'[s].attempts = workers[s].attempts
    BY <1>12, TickType
  <2>2. Running' = Running
    <3>1. \A s \in Slots : (Under(s)' <=> Under(s)) /\ Key(workers'[s]) = Key(workers[s])
      BY <2>1 DEF Under, Key
    <3> QED BY <3>1, RunningKept
  <2>3. NumberInv'
    BY <2>1, NumberKept
  <2> QED BY <1>1, <2>1, <2>2, <2>3
<1>13. ASSUME \/ Still \/ ApplyControl \/ ReleaseLeases
              \/ \E p \in Procs, a \in Assignments : Intake(p, a) \/ BridgeUpdate(p, a)
       PROVE  Goal
  <2>1. UNCHANGED <<keys, workers>>
    BY <1>13 DEF Still, ApplyControl, ReleaseLeases, Intake, BridgeUpdate
  <2> QED BY <1>2, <2>1
<1> HIDE DEF Goal
<1>14. Goal
  BY <1>6, <1>7, <1>8, <1>9, <1>10, <1>11, <1>12, <1>13, NextCases
<1> QED BY <1>14 DEF Goal

(* The Production Manager implements LeasedWork when the thread's own      *)
(* steps fit in the lease's margin: through crashes, lost leases, edits    *)
(* and controls, worker processes are launched for authorized texts only,  *)
(* one at a time for an assignment and each attempt once.                  *)
THEOREM ImplementsPromise ==
  ASSUME Slack < Margin
  PROVE  Spec => ImplementsLeasedWork
<1>1. Init => Promise!Init
  <2> SUFFICES ASSUME Init PROVE keys = {} /\ Running = {}
    BY DEF Promise!Init
  <2>1. keys = {} /\ \A s \in Slots : workers[s].pc = "free"
    BY FreeSlot DEF Init
  <2> QED BY <2>1 DEF Running
<1>2. Spec => [](TypeInv /\ OwnInv /\ AuthorityInv /\ KeyInv)
  BY TypeInit, TypeStep, OwnInit, OwnStep, AuthorityInit, AuthorityStep, KeyInit, KeyStep, PTL
  DEF Spec
<1> QED
  BY <1>1, <1>2, NumberInit, PromiseStep, PTL DEF Spec, ImplementsLeasedWork, Promise!Spec
=============================================================================
