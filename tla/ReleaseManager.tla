---------------------------- MODULE ReleaseManager ----------------------------
(***************************************************************************)
(* The release manager (src/tools/release_manager_host_runner.py) with the *)
(* two root workers it asks for protected changes and the engineering      *)
(* worker it excludes.  A production transaction holds one file lock,      *)
(* lifts the owner's freeze for one release, moves five surfaces to the    *)
(* candidate, has root record the new last known good revision, and undoes *)
(* everything when a step fails.  A second kind of transaction rolls back  *)
(* a release that was already accepted.                                    *)
(*                                                                         *)
(* Processes may be killed between any two steps and the host may reboot.  *)
(* A request file outlives the process that waits for its result.          *)
(* Revisions are numbers; the images, digests, scope reviews and evidence  *)
(* of a revision are the revision, and a check of them that can fail for   *)
(* an outside reason may always fail.  Left out: retry release ids, the    *)
(* open-breaker recovery profiles, and the signed Teams variants of the    *)
(* unfreeze receipt.                                                       *)
(***************************************************************************)
EXTENDS Integers, Sequences, FiniteSets

CONSTANTS
    Last,           \* bound: protected main moves from revision 0 to this one
    MaxTxns,        \* bound: transactions that take the lock
    MaxFaults,      \* bound: failing helpers, timeouts, kills and reboots
    MaxStarts       \* bound: starts of the engineering worker

ASSUME BoundsAssumption ==
    Last \in Nat \ {0} /\ {MaxTxns, MaxFaults, MaxStarts} \subseteq Nat

VARIABLES
    main,       \* the head of protected main
    recs,       \* the release records on disk, by candidate revision
    loaded,     \* the record copy a promoter has read before it takes the lock
    desk,       \* the owner's unfreeze command between its receipt and its save
    marker,     \* the owner's production-deployment-freeze file exists
    backup,     \* its one-release backup exists
    ticket,     \* owner-explicit-unfreeze-receipts
    lift,       \* owner-unfreeze-receipts: one-transaction lifts of the freeze
    rlift,      \* owner-postacceptance-rollback-receipts
    prior,      \* the approval policy backed up when a release staged its own
    txn,        \* the process holding the production transaction lock
    guard,      \* the worker admission drop-in file exists
    live,       \* the revision each production surface is at
    lkg,        \* last known good: revision, and approval policy in its manifest
    breaker,    \* the circuit breaker
    reqs,       \* protected-transition request files
    root,       \* the request whose checks the root worker has passed, and the
                \* approval policy in the manifest it captured for them
    hostq,      \* host-reconcile request files, oldest first
    hjob,       \* the host revision being installed
    eng,        \* systemd state of the engineering worker, and its starts
    stray,      \* history: the host was last touched by a job nobody waited for
    ordered,    \* history: the owner has ordered a freeze
    torn,       \* history: the kinds of transaction that were cut off
    txns,       \* transactions so far
    faults

disk == <<recs, marker, backup, ticket, lift, rlift, prior>>
control == <<lkg, breaker, reqs, root>>
host == <<hostq, hjob, stray>>
hist == <<ordered, torn, txns>>
vars == <<main, disk, loaded, desk, txn, guard, live, control, host, eng, hist, faults>>

Revs == 0 .. Last
None == "none"
Broken == -1
Unset == -2
Surfaces == {"policy", "runtime", "mcp", "host", "manager"}

NoRecord == [state |-> "absent", base |-> 0, approved |-> FALSE]
NoDesk == [c |-> 0, rec |-> NoRecord]
NoJob == [act |-> None, rev |-> 0, awaited |-> FALSE, policy |-> 0]
NoInstall == [rev |-> 0, awaited |-> FALSE, on |-> FALSE]
Idle == [pc |-> "idle", kind |-> None, c |-> 0, rec |-> NoRecord,
         frozen |-> FALSE, opened |-> FALSE, att |-> {}, err |-> FALSE,
         reply |-> None]

RecStates == {"absent", "development", "release_candidate", "production_eligible",
              "production", "closed", "rolled_back", "failed"}
Finished == {"closed", "rolled_back", "failed"}

\* live_production_alignment, and with the manager capture_production_manifest
Aligned(r) == \A s \in {"runtime", "mcp", "host"} : live[s] = r
Complete(r) == Aligned(r) /\ live["manager"] = r

Locked == txn.pc # "idle"
At(pc) == txn.pc = pc
Goto(pc) == txn' = [txn EXCEPT !.pc = pc]

-----------------------------------------------------------------------------
(* Preparation and the owner's decisions.  No lock is held.                *)

\* prepare_release up to create_record; a demoted record keeps its approval
CreateRecord(c) ==
    /\ c <= main /\ recs[c].state \in {"absent", "development"}
    /\ breaker = "closed" /\ Aligned(live["runtime"]) /\ live["runtime"] \in Revs
    /\ recs' = [recs EXCEPT ![c].state = "release_candidate", ![c].base = live["runtime"]]
    /\ UNCHANGED <<main, loaded, desk, marker, backup, ticket, lift, rlift, prior,
                   txn, guard, live, control, host, eng, hist>>

\* prepare_release meets an open breaker: it may only ask root to revalidate
PrepareRevalidate ==
    /\ breaker = "open" /\ Complete(lkg.rev)
    /\ reqs' = reqs \cup {[act |-> "revalidate", rev |-> lkg.rev, awaited |-> FALSE]}
    /\ UNCHANGED <<main, disk, loaded, desk, txn, guard, live, lkg, breaker, root,
                   host, eng, hist>>

\* run_preproduction: takes the lock and returns it
Preproduction(c) ==
    /\ ~Locked /\ recs[c].state = "release_candidate"
    /\ recs' = [recs EXCEPT ![c].state = "production_eligible"]
    /\ UNCHANGED <<main, loaded, desk, marker, backup, ticket, lift, rlift, prior,
                   txn, guard, live, control, host, eng, hist>>

\* approve_release: checks the record it has loaded and saves that copy later
Approve(c) ==
    /\ desk = NoDesk /\ c <= main
    /\ recs[c].state = "production_eligible" /\ ~recs[c].approved
    /\ desk' = [c |-> c, rec |-> [recs[c] EXCEPT !.approved = TRUE]]
    /\ UNCHANGED <<main, disk, loaded, txn, guard, live, control, host, eng, hist>>

\* owner_unfreeze_release: writes the receipt, then saves the record it loaded
OwnerUnfreeze(c) ==
    /\ desk = NoDesk /\ c <= main
    /\ recs[c].state = "production_eligible" /\ recs[c].approved
    /\ Aligned(recs[c].base) /\ marker /\ ticket[c] = None
    /\ ticket' = [ticket EXCEPT ![c] = "pending"]
    /\ desk' = [c |-> c, rec |-> recs[c]]
    /\ UNCHANGED <<main, recs, loaded, marker, backup, lift, rlift, prior, txn, guard,
                   live, control, host, eng, hist>>

DeskSave ==
    /\ desk # NoDesk
    /\ recs' = [recs EXCEPT ![desk.c] = desk.rec]
    /\ desk' = NoDesk
    /\ UNCHANGED <<main, loaded, marker, backup, ticket, lift, rlift, prior, txn, guard,
                   live, control, host, eng, hist>>

\* The owner orders a freeze of all promotions
OwnerFreeze ==
    /\ ~marker
    /\ marker' = TRUE /\ ordered' = TRUE
    /\ UNCHANGED <<main, recs, loaded, desk, backup, ticket, lift, rlift, prior, txn,
                   guard, live, control, host, eng, torn, txns>>

\* Protected main receives a merge
Merge ==
    /\ main < Last /\ main' = main + 1
    /\ UNCHANGED <<disk, loaded, desk, txn, guard, live, control, host, eng, hist>>

-----------------------------------------------------------------------------
(* The promoters: the five-minute timer and the promote command.           *)

\* promote_eligible selects a release and leaves the rest to deploy_production
TimerScan ==
    LET r == recs[main]
    IN  /\ loaded = NoDesk
        /\ r.state = "production_eligible" /\ Aligned(r.base) /\ r.approved
        /\ loaded' = [c |-> main, rec |-> r]
        /\ UNCHANGED <<main, disk, desk, txn, guard, live, control, host, eng, hist>>

\* ... or sends it back when production has moved since it was prepared
TimerDemote ==
    /\ recs[main].state = "production_eligible"
    /\ \E r \in Revs \ {recs[main].base} : Aligned(r)
    /\ recs' = [recs EXCEPT ![main].state = "development"]
    /\ UNCHANGED <<main, loaded, desk, marker, backup, ticket, lift, rlift, prior, txn,
                   guard, live, control, host, eng, hist>>

\* promote --release-id loads the record whatever its state
ManualLoad(c) ==
    /\ loaded = NoDesk /\ recs[c].state # "absent"
    /\ loaded' = [c |-> c, rec |-> recs[c]]
    /\ UNCHANGED <<main, disk, desk, txn, guard, live, control, host, eng, hist>>

\* deploy_production takes the lock, with a record that was read before
Acquire ==
    /\ loaded # NoDesk /\ ~Locked /\ txns < MaxTxns /\ txns' = txns + 1
    /\ txn' = [Idle EXCEPT !.pc = "gate", !.kind = "deploy",
                           !.c = loaded.c, !.rec = loaded.rec]
    /\ loaded' = NoDesk
    /\ UNCHANGED <<main, disk, desk, guard, live, control, host, eng, ordered, torn>>

\* ReleaseManagerBusy
Busy ==
    /\ loaded # NoDesk /\ Locked /\ loaded' = NoDesk
    /\ UNCHANGED <<main, disk, desk, txn, guard, live, control, host, eng, hist>>

\* rollback_closed_release writes its receipt, then takes the lock or gives up
RollbackClosed(c) ==
    /\ recs[c].state = "closed" /\ recs[c].approved /\ ticket[c] = "consumed" /\ marker
    /\ rlift' = [rlift EXCEPT ![c] = "pending"]
    /\ txns < MaxTxns
    /\ IF Locked THEN UNCHANGED <<txn, txns>>
       ELSE /\ txn' = [Idle EXCEPT !.pc = "gate", !.kind = "rollback",
                                   !.c = c, !.rec = recs[c]]
            /\ txns' = txns + 1
    /\ UNCHANGED <<main, recs, loaded, desk, marker, backup, ticket, lift, prior, guard,
                   live, control, host, eng, ordered, torn>>

-----------------------------------------------------------------------------
(* The steps of a transaction.                                             *)

\* What a step changes besides the transaction's own record
StepOnly == UNCHANGED <<main, disk, loaded, desk, guard, live, control, host, eng, hist>>
StepLive == UNCHANGED <<main, disk, loaded, desk, guard, control, host, eng, hist>>
StepDisk == UNCHANGED <<main, loaded, desk, guard, live, control, host, eng, hist>>
StepRecs == StepDisk /\ UNCHANGED <<marker, backup, ticket, lift, rlift, prior>>

\* request_root_control_transition: leave a request file and wait for a result
Submit(act, rev, wait) ==
    /\ reqs' = reqs \cup {[act |-> act, rev |-> rev, awaited |-> TRUE]}
    /\ txn' = [txn EXCEPT !.pc = wait, !.reply = None]
    /\ UNCHANGED <<main, disk, loaded, desk, guard, live, lkg, breaker, root, host, eng,
                   hist>>

\* request_host_reconcile
SubmitHost(rev, wait) ==
    /\ hostq' = Append(hostq, [rev |-> rev, awaited |-> TRUE])
    /\ txn' = [txn EXCEPT !.pc = wait, !.reply = None, !.att = @ \cup {"host"}]
    /\ UNCHANGED <<main, disk, loaded, desk, guard, live, control, hjob, stray, eng, hist>>

\* Nobody waits for the outstanding requests any more; they stay where they are
Abandon ==
    /\ UNCHANGED stray
    /\ reqs' = {[q EXCEPT !.awaited = FALSE] : q \in reqs}
    /\ root' = [root EXCEPT !.awaited = FALSE]
    /\ hostq' = [i \in DOMAIN hostq |-> [hostq[i] EXCEPT !.awaited = FALSE]]
    /\ hjob' = [hjob EXCEPT !.awaited = FALSE]

\* Mutant: the success field of the result is not read
AnsweredAny(wait, ok, no) == At(wait) /\ txn.reply # None /\ Goto(ok) /\ StepOnly

\* The answer arrived
Answered(wait, ok, no) ==
    /\ At(wait) /\ txn.reply # None
    /\ Goto(IF txn.reply = "ok" THEN ok ELSE no)
    /\ StepOnly

\* ... or the deadline did
TimedOut(wait, no) ==
    /\ At(wait) /\ txn.reply = None
    /\ txn' = [txn EXCEPT !.pc = no, !.reply = "no"]
    /\ Abandon
    /\ UNCHANGED <<main, disk, loaded, desk, guard, live, lkg, breaker, eng, hist>>

\* temporary_worker_admission_gate: a drop-in that is already there is an error
Gate ==
    /\ At("gate")
    /\ \/ /\ ~guard /\ guard' = TRUE /\ Goto("quiet") /\ UNCHANGED rlift
       \/ /\ guard /\ UNCHANGED guard /\ txn' = Idle
          /\ rlift' = IF txn.kind = "rollback"
                      THEN [rlift EXCEPT ![txn.c] = "finished"] ELSE rlift
    /\ UNCHANGED <<main, recs, marker, backup, ticket, lift, prior, loaded, desk, live,
                   control, host, eng, hist>>

\* Mutant: a unit whose ExecCondition has passed and that is starting is overlooked
QuiescentUnlessActive ==
    /\ At("quiet")
    /\ Goto(CASE eng.state = "active" -> "end"
              [] eng.state # "active" /\ txn.kind = "deploy" -> "stranded"
              [] OTHER -> "align")
    /\ StepOnly

\* require_pmv3_engineering_quiescent
Quiescent ==
    /\ At("quiet")
    /\ Goto(CASE eng.state # "inactive" -> "end"
              [] eng.state = "inactive" /\ txn.kind = "deploy" -> "stranded"
              [] OTHER -> "align")
    /\ StepOnly

Unfinished == {c \in Revs : lift[c] \in {"pending", "active"}}

\* Mutant: a receipt that never became active is not looked at
RestoreActiveOnly ==
    /\ At("stranded")
    /\ IF \E c \in Revs : lift[c] = "active"
       THEN /\ marker' = TRUE /\ Goto("end")
            /\ lift' = [c \in Revs |-> IF lift[c] = "active" THEN "stranded" ELSE lift[c]]
       ELSE Goto("source") /\ UNCHANGED <<marker, lift>>
    /\ StepDisk /\ UNCHANGED <<recs, backup, ticket, rlift, prior>>

\* restore_stranded_one_transaction_freeze_under_lock; having restored, it raises
RestoreStranded ==
    /\ At("stranded")
    /\ IF Cardinality(Unfinished) = 1 /\ backup
       THEN /\ marker' = TRUE
            /\ lift' = [c \in Revs |-> IF c \in Unfinished THEN "stranded" ELSE lift[c]]
       ELSE UNCHANGED <<marker, lift>>
    /\ Goto(IF Unfinished = {} THEN "source" ELSE "end")
    /\ StepDisk /\ UNCHANGED <<recs, backup, ticket, rlift, prior>>

\* Scope review, source, reconciler, image or drift checks of a deployment raise
CheckFails ==
    /\ txn.pc \in {"source", "breaker", "freeze", "preflight", "start"}
    /\ Goto("end") /\ StepOnly

\* require_current_protected_release_source, then the freeze is read
Source ==
    /\ At("source") /\ txn.c = main
    /\ txn' = [txn EXCEPT !.pc = "breaker", !.frozen = marker]
    /\ StepOnly

\* revalidate_circuit_breaker
Breaker ==
    /\ At("breaker")
    /\ \/ breaker = "closed" /\ Goto("freeze") /\ StepOnly
       \/ breaker = "open" /\ Complete(lkg.rev) /\ Submit("revalidate", lkg.rev, "breakerWait")

\* explicit_owner_one_transaction_freeze_context, when the freeze was there
Freeze ==
    /\ At("freeze")
    /\ \/ ~txn.frozen /\ Goto("preflight")
       \/ /\ txn.frozen /\ marker /\ ticket[txn.c] = "pending"
          /\ txn.rec.state = "production_eligible" /\ txn.rec.approved
          /\ Goto("lift")
    /\ StepOnly

\* Mutant: the marker is removed before the receipt is written
LiftMarkerFirst ==
    /\ At("lift") /\ ticket[txn.c] = "pending" /\ marker /\ lift[txn.c] = None
    /\ marker' = FALSE /\ backup' = TRUE /\ Goto("unlink")
    /\ StepDisk /\ UNCHANGED <<recs, ticket, lift, rlift, prior>>

\* begin_one_transaction_freeze_exception: backup and receipt, then the marker
\* is removed, then the receipt is active
Lift ==
    /\ At("lift")
    /\ \/ /\ ticket[txn.c] = "pending" /\ marker /\ lift[txn.c] = None
          /\ lift' = [lift EXCEPT ![txn.c] = "pending"]
          /\ backup' = TRUE /\ Goto("unlink")
       \/ /\ ~(ticket[txn.c] = "pending" /\ marker /\ lift[txn.c] = None)
          /\ Goto("end") /\ UNCHANGED <<lift, backup>>
    /\ StepDisk /\ UNCHANGED <<recs, marker, ticket, rlift, prior>>

Unlink ==
    /\ At("unlink") /\ marker' = FALSE /\ Goto("activate")
    /\ StepDisk /\ UNCHANGED <<recs, backup, ticket, lift, rlift, prior>>

Activate ==
    /\ At("activate")
    /\ lift' = [lift EXCEPT ![txn.c] = "active"]
    /\ txn' = [txn EXCEPT !.pc = "preflight", !.opened = TRUE]
    /\ StepDisk /\ UNCHANGED <<recs, marker, backup, ticket, rlift, prior>>

\* _deploy_production_locked up to the first save: production is exactly the
\* baseline of the record, which is the protected last known good
Preflight ==
    /\ At("preflight") /\ txn.rec.state = "production_eligible"
    /\ Complete(txn.rec.base) /\ lkg.rev = txn.rec.base /\ breaker = "closed"
    /\ recs' = [recs EXCEPT ![txn.c] = txn.rec] /\ Goto("start")
    /\ StepRecs

\* ... the source, freeze and owner gates once more, and the second save
Start ==
    /\ At("start") /\ txn.c = main /\ ~marker /\ txn.rec.approved
    /\ txn' = [txn EXCEPT !.pc = "policy", !.rec.state = "production"]
    /\ recs' = [recs EXCEPT ![txn.c] = txn'.rec]
    /\ UNCHANGED <<main, loaded, desk, marker, backup, ticket, lift, rlift, prior, guard,
                   live, control, host, eng, hist>>

\* What a deployment helper that fails can leave behind
Leftovers(s, r) == {live[s], r, Broken}

\* Mutant: the rollback copy is taken after the policy has been replaced
StagePolicyCopiedLate ==
    /\ At("policy")
    /\ live' = [live EXCEPT !["policy"] = txn.c] /\ prior' = [prior EXCEPT ![txn.c] = txn.c]
    /\ txn' = [txn EXCEPT !.pc = "runtime", !.att = @ \cup {"policy"}]
    /\ UNCHANGED <<main, recs, marker, backup, ticket, lift, rlift, loaded, desk, guard,
                   control, host, eng, hist>>

\* stage_mobile_release_approval_policy, which undoes its own failure.  Backup, save
\* and write are one step: a kill between them leaves a backup that the next staging
\* of this release finds again.
StagePolicy ==
    LET base == IF prior[txn.c] = Unset THEN live["policy"] ELSE prior[txn.c]
        agrees == live["policy"] \in {base, txn.c}
    IN  /\ At("policy")
        /\ prior' = [prior EXCEPT ![txn.c] = base]
        /\ recs' = IF agrees THEN [recs EXCEPT ![txn.c] = txn.rec] ELSE recs
        /\ live' = IF agrees THEN [live EXCEPT !["policy"] = txn.c] ELSE live
        /\ txn' = IF agrees THEN [txn EXCEPT !.pc = "runtime", !.att = @ \cup {"policy"}]
                            ELSE [txn EXCEPT !.pc = "undoMcp"]
        /\ UNCHANGED <<main, marker, backup, ticket, lift, rlift, loaded, desk, guard,
                       control, host, eng, hist>>

\* The runtime and MCP deploy scripts: attempted is noted before they run
DeploySurface(s, next) ==
    /\ At(s)
    /\ live' = [live EXCEPT ![s] = txn.c]
    /\ txn' = [txn EXCEPT !.pc = next, !.att = @ \cup {s}]
    /\ StepLive

\* A helper fails; the runtime and MCP scripts may have changed anything by then,
\* the policy helper has undone its own write, the manager may be installed
HelperFails ==
    /\ txn.pc \in {"policy", "runtime", "mcp", "manager", "verify"}
    /\ live' \in CASE txn.pc \in {"policy", "verify"} -> {live}
                   [] OTHER -> {[live EXCEPT ![txn.pc] = v] : v \in Leftovers(txn.pc, txn.c)}
    /\ txn' = [txn EXCEPT !.pc = "undoMcp",
                          !.att = @ \cup ({txn.pc} \cap {"runtime", "mcp"})]
    /\ StepLive

\* install_release_manager_from_current
InstallManager ==
    /\ At("manager")
    /\ IF live["host"] = txn.c
       THEN /\ live' = [live EXCEPT !["manager"] = txn.c]
            /\ txn' = [txn EXCEPT !.pc = "verify", !.att = @ \cup {"manager"}]
       ELSE UNCHANGED live /\ Goto("undoMcp")
    /\ StepLive

\* Alignment, digests, smoke tests, drift and manifest
Verify ==
    /\ At("verify")
    /\ Goto(IF Complete(txn.c) THEN "commit" ELSE "undoMcp")
    /\ StepOnly

\* production_verified, closed, and the save that makes it durable
Close ==
    /\ At("close")
    /\ txn' = [txn EXCEPT !.pc = "end", !.rec.state = "closed"]
    /\ recs' = [recs EXCEPT ![txn.c] = txn'.rec]
    /\ StepRecs

-----------------------------------------------------------------------------
(* Undoing.  A failed deployment undoes what it attempted, notes errors and *)
(* goes on; a rollback of an accepted release undoes everything and stops   *)
(* at the first error.                                                      *)

Base == txn.rec.base

UndoError(next) ==
    txn' = [txn EXCEPT !.pc = IF txn.kind = "deploy" THEN next ELSE "end",
                       !.err = TRUE, !.reply = None]

\* The deploy script run with the rollback environment, and its readback
UndoSurface(pc, s, next) ==
    /\ At(pc) /\ Goto(next)
    /\ live' = IF s \in txn.att THEN [live EXCEPT ![s] = Base] ELSE live
    /\ StepLive

UndoSurfaceFails(pc, s, next) ==
    /\ At(pc) /\ s \in txn.att /\ UndoError(next)
    /\ \E v \in Leftovers(s, Base) : live' = [live EXCEPT ![s] = v]
    /\ StepLive

UndoHost ==
    /\ At("undoHost")
    /\ \/ "host" \notin txn.att /\ Goto("undoManager") /\ StepOnly
       \/ "host" \in txn.att /\ SubmitHost(Base, "undoHostWait")

UndoHostDone ==
    /\ At("undoHostWait") /\ txn.reply # None
    /\ IF txn.reply = "ok" THEN Goto("undoManager") ELSE UndoError("undoManager")
    /\ StepOnly

UndoHostTimedOut ==
    /\ At("undoHostWait") /\ txn.reply = None
    /\ UndoError("undoManager") /\ Abandon
    /\ UNCHANGED <<main, disk, loaded, desk, guard, live, lkg, breaker, eng, hist>>

ManagerTouched == {"host", "manager"} \cap txn.att # {}

UndoManager ==
    /\ At("undoManager")
    /\ \/ ~ManagerTouched /\ Goto("undoPolicy") /\ UNCHANGED live
       \/ /\ ManagerTouched /\ live["host"] = Base
          /\ live' = [live EXCEPT !["manager"] = Base] /\ Goto("undoPolicy")
       \/ ManagerTouched /\ live["host"] # Base /\ UndoError("undoPolicy") /\ UNCHANGED live
    /\ StepLive

UndoManagerFails ==
    /\ At("undoManager") /\ ManagerTouched /\ live["host"] = Base /\ UndoError("undoPolicy")
    /\ live' \in {live, [live EXCEPT !["manager"] = Base]}
    /\ StepLive

\* Mutant: the policy is restored whether or not it was staged
UndoPolicyAlways ==
    /\ At("undoPolicy") /\ Goto("undoRuntime")
    /\ live' = [live EXCEPT !["policy"] = prior[txn.c]]
    /\ recs' = [recs EXCEPT ![txn.c] = txn.rec]
    /\ UNCHANGED <<main, marker, backup, ticket, lift, rlift, prior, loaded, desk, guard,
                   control, host, eng, hist>>

\* restore_mobile_release_approval_policy; it saves the record
UndoPolicy ==
    /\ At("undoPolicy") /\ Goto("undoRuntime")
    /\ IF "policy" \in txn.att
       THEN /\ live' = [live EXCEPT !["policy"] = prior[txn.c]]
            /\ recs' = [recs EXCEPT ![txn.c] = txn.rec]
       ELSE UNCHANGED <<live, recs>>
    /\ UNCHANGED <<main, marker, backup, ticket, lift, rlift, prior, loaded, desk, guard,
                   control, host, eng, hist>>

UndoPolicyFails ==
    /\ At("undoPolicy") /\ "policy" \in txn.att /\ UndoError("undoRuntime") /\ StepOnly

\* Mutant: the breaker is opened only when the rollback was verified
UndoVerifyQuietly(ok) ==
    /\ At("undoVerify")
    /\ txn' = [txn EXCEPT !.pc = CASE ok /\ txn.kind = "deploy" -> "open"
                                 [] ~ok /\ txn.kind = "deploy" -> "saveFailure"
                                 [] OTHER -> "end",
                          !.rec.state = IF ok THEN "rolled_back" ELSE "failed"]
    /\ StepOnly

\* Mutant: the errors the undoing has noted are forgotten
UndoVerifyTrusting(ok) ==
    /\ At("undoVerify")
    /\ txn' = IF txn.kind = "deploy"
              THEN [txn EXCEPT !.pc = "open", !.rec.state = "rolled_back"]
              ELSE [txn EXCEPT !.pc = IF ok THEN "rcommit" ELSE "end"]
    /\ StepOnly

\* Full-manifest verification of the baseline
UndoVerify(ok) ==
    /\ At("undoVerify")
    /\ txn' = IF txn.kind = "deploy"
              THEN [txn EXCEPT !.pc = "open",
                               !.rec.state = IF ok THEN "rolled_back" ELSE "failed"]
              ELSE [txn EXCEPT !.pc = IF ok THEN "rcommit" ELSE "end"]
    /\ StepOnly

\* The record of a failed deployment is saved once the breaker is open
SaveFailure ==
    /\ At("saveFailure") /\ Goto("end")
    /\ recs' = [recs EXCEPT ![txn.c] = txn.rec]
    /\ StepRecs

-----------------------------------------------------------------------------
(* rollback_closed_release after its lock.                                 *)

\* live_production_alignment, then begin_postacceptance_rollback_freeze_exception:
\* the receipt is active before the marker goes
RollbackLift ==
    /\ At("align") /\ Aligned(txn.c) /\ marker /\ backup /\ rlift[txn.c] = "pending"
    /\ rlift' = [rlift EXCEPT ![txn.c] = "active"] /\ Goto("runlink")
    /\ StepDisk /\ UNCHANGED <<recs, marker, backup, ticket, lift, prior>>

RollbackUnlink ==
    /\ At("runlink") /\ marker' = FALSE
    /\ txn' = [txn EXCEPT !.pc = "ropen", !.opened = TRUE, !.att = Surfaces]
    /\ StepDisk /\ UNCHANGED <<recs, backup, ticket, lift, rlift, prior>>

\* Alignment, drop of the freeze, worktrees, scripts and profiles: what raises before
\* the breaker is opened
RollbackCheckFails ==
    /\ txn.pc \in {"align", "ropen"} /\ Goto("end") /\ StepOnly

RollbackSave ==
    /\ At("rsave")
    /\ txn' = [txn EXCEPT !.pc = "rclose", !.rec.state = "rolled_back"]
    /\ recs' = [recs EXCEPT ![txn.c] = txn'.rec]
    /\ StepRecs

-----------------------------------------------------------------------------
(* The end of a transaction.                                               *)

\* Mutant: a deployment whose undoing met errors leaves the freeze lifted
EndUnlessErrors ==
    /\ At("end") /\ (txn.kind = "rollback" => ~guard)
    /\ IF txn.opened /\ ~marker /\ ~(txn.err /\ txn.kind = "deploy")
       THEN marker' = TRUE /\ Goto("receipt") ELSE UNCHANGED marker /\ Goto("exit")
    /\ StepDisk /\ UNCHANGED <<recs, backup, ticket, lift, rlift, prior>>

\* A rollback leaves the admission gate before its freeze is restored
Ungate ==
    /\ At("end") /\ txn.kind = "rollback" /\ guard /\ guard' = FALSE
    /\ UNCHANGED <<main, disk, loaded, desk, txn, live, control, host, eng, hist>>

\* restore_one_transaction_freeze_exception: a marker that is back is an error
End ==
    /\ At("end") /\ (txn.kind = "rollback" => ~guard)
    /\ IF txn.opened /\ ~marker THEN marker' = TRUE /\ Goto("receipt")
                                ELSE UNCHANGED marker /\ Goto("exit")
    /\ StepDisk /\ UNCHANGED <<recs, backup, ticket, lift, rlift, prior>>

Receipt ==
    /\ At("receipt")
    /\ IF txn.kind = "deploy"
       THEN /\ lift' = [lift EXCEPT ![txn.c] = "returned"]
            /\ Goto("consume") /\ UNCHANGED rlift
       ELSE /\ rlift' = [rlift EXCEPT ![txn.c] = "returned"]
            /\ Goto("exit") /\ UNCHANGED lift
    /\ StepDisk /\ UNCHANGED <<recs, marker, backup, ticket, prior>>

Consume ==
    /\ At("consume") /\ Goto("exit")
    /\ ticket' = [ticket EXCEPT ![txn.c] = "consumed"]
    /\ StepDisk /\ UNCHANGED <<recs, marker, backup, lift, rlift, prior>>

\* A deployment leaves the admission gate; the lock is released, and then a rollback
\* closes its receipt
Exit ==
    /\ At("exit") /\ txn' = Idle /\ guard' = FALSE
    /\ rlift' = IF txn.kind = "rollback" /\ rlift[txn.c] # "active"
                THEN [rlift EXCEPT ![txn.c] = "finished"] ELSE rlift
    /\ UNCHANGED <<main, recs, marker, backup, ticket, lift, prior, loaded, desk, live,
                   control, host, eng, hist>>

Transaction ==
    \/ Gate \/ Quiescent \/ RestoreStranded \/ CheckFails \/ Source \/ Breaker
    \/ Answered("breakerWait", "freeze", "end")
    \/ Freeze \/ Lift \/ Unlink \/ Activate \/ Preflight \/ Start \/ StagePolicy
    \/ DeploySurface("runtime", "mcp") \/ DeploySurface("mcp", "host")
    \/ At("host") /\ SubmitHost(txn.c, "hostWait")
    \/ Answered("hostWait", "manager", "undoMcp")
    \/ InstallManager \/ Verify
    \/ At("commit") /\ Submit("set_last_known_good", txn.c, "commitWait")
    \/ Answered("commitWait", "close", "undoMcp")
    \/ Close
    \/ UndoSurface("undoMcp", "mcp", "undoHost") \/ UndoHost \/ UndoHostDone
    \/ UndoManager \/ UndoPolicy \/ UndoSurface("undoRuntime", "runtime", "undoVerify")
    \/ UndoVerify(~txn.err /\ Complete(Base))
    \/ At("open") /\ Submit("open", txn.c, "openWait")
    \/ Answered("openWait", "saveFailure", "end")
    \/ SaveFailure
    \/ RollbackLift \/ RollbackUnlink
    \/ At("ropen") /\ Submit("open", txn.c, "ropenWait")
    \/ Answered("ropenWait", "undoMcp", "end")
    \/ At("rcommit") /\ Submit("set_last_known_good", Base, "rcommitWait")
    \/ Answered("rcommitWait", "rsave", "end")
    \/ RollbackSave \/ RollbackCheckFails
    \/ At("rclose") /\ Submit("open", txn.c, "rcloseWait")
    \/ Answered("rcloseWait", "end", "end")
    \/ Ungate \/ End \/ Receipt \/ Consume \/ Exit

\* What may go wrong in a transaction, besides a check that refuses
TransactionFault ==
    \/ TimedOut("breakerWait", "end") \/ TimedOut("hostWait", "undoMcp")
    \/ TimedOut("commitWait", "undoMcp") \/ TimedOut("openWait", "end")
    \/ TimedOut("ropenWait", "end") \/ TimedOut("rcommitWait", "end")
    \/ TimedOut("rcloseWait", "end")
    \/ HelperFails
    \/ UndoSurfaceFails("undoMcp", "mcp", "undoHost")
    \/ UndoSurfaceFails("undoRuntime", "runtime", "undoVerify")
    \/ UndoHostTimedOut \/ UndoManagerFails \/ UndoPolicyFails
    \/ UndoVerify(FALSE)

-----------------------------------------------------------------------------
(* The root workers.                                                       *)

\* The result file is for the one process that waits for it
Reply(q, r) == IF q.awaited THEN [txn EXCEPT !.reply = r] ELSE txn

\* apply_transition up to its write: what the root worker verifies itself
RootAccepts(q) ==
    CASE q.act = "open" -> TRUE
      [] q.act = "revalidate" -> /\ q.rev = lkg.rev /\ Complete(q.rev)
                                 /\ live["policy"] = lkg.policy
      [] OTHER -> /\ recs[q.rev].state \in {"production", "closed"}
                  /\ recs[q.rev].approved /\ Complete(q.rev)

\* ... with the manifest that verify_health captures
Verified(q) ==
    [act |-> q.act, rev |-> q.rev, awaited |-> q.awaited, policy |-> live["policy"]]

RootPick(q) ==
    /\ root = NoJob /\ q \in reqs /\ reqs' = reqs \ {q}
    /\ IF RootAccepts(q) THEN root' = Verified(q) /\ UNCHANGED txn
                         ELSE txn' = Reply(q, "no") /\ UNCHANGED root
    /\ UNCHANGED <<main, disk, loaded, desk, guard, live, lkg, breaker, host, eng, hist>>

\* verify_drift refuses
RootDrift(q) ==
    /\ root = NoJob /\ q \in reqs /\ q.act # "open" /\ reqs' = reqs \ {q}
    /\ txn' = Reply(q, "no")
    /\ UNCHANGED <<main, disk, loaded, desk, guard, live, lkg, breaker, root, host, eng,
                   hist>>

\* ... the write, and the result file
RootCommit ==
    /\ root # NoJob /\ root' = NoJob /\ txn' = Reply(root, "ok")
    /\ breaker' = IF root.act = "open" THEN "open" ELSE "closed"
    /\ lkg' = IF root.act = "set_last_known_good"
              THEN [rev |-> root.rev, policy |-> root.policy] ELSE lkg
    /\ UNCHANGED <<main, disk, loaded, desk, guard, live, reqs, host, eng, hist>>

\* release_host_reconcile_worker: oldest request first, MCP must be there already
HostPick ==
    /\ ~hjob.on /\ hostq # <<>> /\ hostq' = Tail(hostq)
    /\ IF live["mcp"] = Head(hostq).rev
       THEN /\ hjob' = [rev |-> Head(hostq).rev, awaited |-> Head(hostq).awaited, on |-> TRUE]
            /\ UNCHANGED txn
       ELSE txn' = Reply(Head(hostq), "no") /\ UNCHANGED hjob
    /\ UNCHANGED <<main, disk, loaded, desk, guard, live, control, stray, eng, hist>>

HostDone ==
    /\ hjob.on /\ hjob' = NoInstall /\ stray' = ~hjob.awaited
    /\ live' = [live EXCEPT !["host"] = hjob.rev] /\ txn' = Reply(hjob, "ok")
    /\ UNCHANGED <<main, disk, loaded, desk, guard, control, hostq, eng, hist>>

HostFails ==
    /\ hjob.on /\ hjob' = NoInstall /\ stray' = ~hjob.awaited
    /\ \E v \in Leftovers("host", hjob.rev) : live' = [live EXCEPT !["host"] = v]
    /\ txn' = Reply(hjob, "no")
    /\ UNCHANGED <<main, disk, loaded, desk, guard, control, hostq, eng, hist>>

-----------------------------------------------------------------------------
(* The engineering worker's unit, and faults.                              *)

EngIs(from, to) ==
    /\ eng.state = from
    /\ eng' = [state |-> to, starts |-> IF from = "inactive" THEN eng.starts + 1 ELSE eng.starts]
    /\ UNCHANGED <<main, disk, loaded, desk, txn, guard, live, control, host, hist>>

EngStart == eng.starts < MaxStarts /\ EngIs("inactive", "activating")

\* ExecCondition of the unit: pmv3_worker_release_gate
EngGate == EngIs("activating", IF Locked THEN "inactive" ELSE "admitted")

\* SIGKILL, or a lost session: the lock goes, the drop-in stays
Kill ==
    /\ Locked /\ txn' = Idle /\ torn' = torn \cup ({txn.kind} \ {None})
    /\ Abandon
    /\ UNCHANGED <<main, disk, loaded, desk, guard, live, lkg, breaker, eng, ordered, txns>>

\* The host restarts: the drop-in lives under XDG_RUNTIME_DIR and goes as well
Reboot ==
    /\ txn' = Idle /\ guard' = FALSE /\ eng' = [eng EXCEPT !.state = "inactive"] /\ desk' = NoDesk
    /\ loaded' = NoDesk
    /\ torn' = torn \cup ({txn.kind} \ {None})
    /\ reqs' = {[act |-> q.act, rev |-> q.rev, awaited |-> FALSE] :
                 q \in reqs \cup (IF root = NoJob THEN {} ELSE {root})}
    /\ root' = NoJob
    /\ hjob' = NoInstall /\ stray' = (stray \/ hjob.on)
    /\ LET queue == IF hjob.on THEN <<[rev |-> hjob.rev, awaited |-> FALSE]>> \o hostq
                               ELSE hostq
       IN  hostq' = [i \in DOMAIN queue |-> [queue[i] EXCEPT !.awaited = FALSE]]
    /\ \E v \in IF hjob.on THEN Leftovers("host", hjob.rev) ELSE {live["host"]} :
          live' = [live EXCEPT !["host"] = v]
    /\ UNCHANGED <<main, disk, lkg, breaker, ordered, txns>>

-----------------------------------------------------------------------------
Init ==
    /\ main = 0
    /\ recs = [c \in Revs |-> IF c = 0 THEN [state |-> "closed", base |-> 0, approved |-> TRUE]
                                        ELSE NoRecord]
    /\ loaded = NoDesk /\ desk = NoDesk
    /\ marker \in BOOLEAN /\ ordered = marker /\ backup = FALSE
    /\ ticket = [c \in Revs |-> None] /\ lift = [c \in Revs |-> None]
    /\ rlift = [c \in Revs |-> None] /\ prior = [c \in Revs |-> Unset]
    /\ txn = Idle /\ guard = FALSE
    /\ live = [s \in Surfaces |-> 0]
    /\ lkg = [rev |-> 0, policy |-> 0] /\ breaker = "closed"
    /\ reqs = {} /\ root = NoJob /\ hostq = <<>> /\ hjob = NoInstall
    /\ stray = FALSE /\ eng = [state |-> "inactive", starts |-> 0]
    /\ torn = {} /\ txns = 0 /\ faults = 0

Normal ==
    \/ \E c \in Revs : \/ CreateRecord(c) \/ Preproduction(c) \/ Approve(c)
                        \/ OwnerUnfreeze(c) \/ ManualLoad(c) \/ RollbackClosed(c)
    \/ PrepareRevalidate \/ DeskSave \/ OwnerFreeze \/ Merge \/ TimerScan \/ TimerDemote
    \/ Acquire \/ Busy \/ Transaction
    \/ \E q \in reqs : RootPick(q)
    \/ RootCommit \/ HostPick \/ HostDone
    \/ EngStart \/ EngGate \/ EngIs("admitted", "active") \/ EngIs("active", "inactive")

Fault ==
    \/ TransactionFault \/ HostFails \/ Kill \/ Reboot
    \/ \E q \in reqs : RootDrift(q)

Next ==
    \/ Normal /\ UNCHANGED faults
    \/ faults < MaxFaults /\ faults' = faults + 1 /\ Fault

Fairness ==
    /\ WF_vars(Transaction /\ UNCHANGED faults)
    /\ WF_vars((\E q \in reqs : RootPick(q)) /\ UNCHANGED faults)
    /\ WF_vars(RootCommit /\ UNCHANGED faults)
    /\ WF_vars((HostPick \/ HostDone) /\ UNCHANGED faults)

Spec == Init /\ [][Next]_vars /\ Fairness

-----------------------------------------------------------------------------
Recs == [state : RecStates, base : Revs, approved : BOOLEAN]
Copies == [c : Revs, rec : Recs]
Requests == [act : {"open", "revalidate", "set_last_known_good"}, rev : Revs,
             awaited : BOOLEAN]
Jobs == [act : {"open", "revalidate", "set_last_known_good"}, rev : Revs,
         awaited : BOOLEAN, policy : Revs]
Installs == [rev : Revs, awaited : BOOLEAN]

\* The places of a transaction: both kinds, a deployment, its undoing, a rollback
Pcs ==
    {"idle", "gate", "quiet", "end", "receipt", "exit"} \cup
    {"stranded", "source", "breaker", "breakerWait", "freeze", "lift", "unlink",
     "activate", "preflight", "start", "policy", "runtime", "mcp", "host", "hostWait",
     "manager", "verify", "commit", "commitWait", "close", "consume"} \cup
    {"undoMcp", "undoHost", "undoHostWait", "undoManager", "undoPolicy", "undoRuntime",
     "undoVerify", "open", "openWait", "saveFailure"} \cup
    {"align", "runlink", "ropen", "ropenWait", "rcommit", "rcommitWait", "rsave",
     "rclose", "rcloseWait"}

Txns == [pc : Pcs, kind : {None, "deploy", "rollback"}, c : Revs, rec : Recs,
         frozen : BOOLEAN, opened : BOOLEAN, att : SUBSET Surfaces, err : BOOLEAN,
         reply : {None, "ok", "no"}]

\* Every variable has the type the code gives it.
TypeOK ==
    /\ main \in Revs /\ recs \in [Revs -> Recs]
    /\ loaded \in Copies /\ desk \in Copies
    /\ marker \in BOOLEAN /\ backup \in BOOLEAN /\ guard \in BOOLEAN
    /\ ticket \in [Revs -> {None, "pending", "consumed"}]
    /\ lift \in [Revs -> {None, "pending", "active", "stranded", "returned"}]
    /\ rlift \in [Revs -> {None, "pending", "active", "returned", "finished"}]
    /\ prior \in [Revs -> {Unset} \cup Revs]
    /\ txn \in Txns
    /\ live \in [Surfaces -> Revs \cup {Broken}]
    /\ lkg \in [rev : Revs, policy : Revs] /\ breaker \in {"open", "closed"}
    /\ reqs \subseteq Requests /\ root \in Jobs \cup {NoJob}
    /\ hostq \in Seq(Installs)
    /\ hjob \in [rev : Revs, awaited : BOOLEAN, on : BOOLEAN] /\ stray \in BOOLEAN
    /\ eng \in [state : {"inactive", "activating", "admitted", "active"}, starts : 0 .. MaxStarts]
    /\ ordered \in BOOLEAN /\ torn \subseteq {"deploy", "rollback"}
    /\ txns \in 0 .. MaxTxns /\ faults \in 0 .. MaxFaults

\* Once the owner has ordered a freeze, production is first mutated by a
\* transaction that holds an active one-release lift, whatever was killed before;
\* the exception, a cut-off rollback of an accepted release, is shown below.
FreezeHeld ==
    [][At("start") /\ txn'.pc = "policy" /\ ordered /\ "rollback" \notin torn
        => txn.opened /\ lift[txn.c] = "active"]_vars

\* While no transaction runs, an ordered freeze is in force or the next
\* promotion finds a receipt from which to restore it: the receipt is written
\* before the marker is removed and closed after it is back.
FreezeRecoverable ==
    ordered /\ ~marker /\ ~Locked /\ "rollback" \notin torn => Unfinished # {}

\* The same without the exception, as restore_stranded_one_transaction_freeze_
\* under_lock says: "Restore or close a freeze left by a crashed one-release
\* transaction."
FreezeAlwaysRecoverable == ordered /\ ~marker /\ ~Locked => Unfinished # {}

\* A lifted freeze comes back however the transaction ends, unless the process
\* was killed (the finally clause of deploy_production and rollback).
FreezeReturns == ordered /\ ~marker ~> marker \/ torn # {}

\* A record says rolled_back only when the surfaces are back at the baseline, after a
\* failed deployment and after a rollback of an accepted release.
\* The rollback's own host request, behind all others in the queue, outlasts the
\* late host jobs of the release; of a job that an earlier release left behind it
\* says nothing when this one asked for no host.
RestoredWhenRolledBack ==
    [][(At("saveFailure") /\ txn.rec.state = "rolled_back") \/ At("rsave")
        => /\ \A s \in {"runtime", "mcp", "manager"} : live[s] = Base
           /\ "host" \in txn.att => live["host"] = Base]_vars

\* ... and so is the approval policy, after one mishap and unless an earlier
\* transaction was cut off: what restore_mobile_release_approval_policy writes back
\* is the copy that the staging made.  Four mishaps are too many: when a release
\* fails, its policy restore fails too and the breaker is not opened in time, the
\* next release backs up the policy that was left behind and, failing in turn,
\* restores that.
PolicyRestored ==
    [][At("saveFailure") /\ txn.rec.state = "rolled_back" /\ torn = {} /\ faults <= 1
        => live["policy"] = Base]_vars

\* A record is closed only while all surfaces are at the candidate and root has
\* recorded the candidate, with its approval policy, as last known good.
ClosedWasGood ==
    [][At("close") /\ txn'.rec.state = "closed"
        => Complete(txn.c) /\ live["policy"] = txn.c /\ lkg = [rev |-> txn.c, policy |-> txn.c]]_vars

NothingPending == ~Locked /\ reqs = {} /\ root = NoJob

\* Production is what root recorded as last known good; of the host it is said
\* unless the last job that touched it came after everybody had stopped waiting
Converged ==
    /\ \A s \in {"runtime", "mcp", "manager"} : live[s] = lkg.rev
    /\ live["policy"] = lkg.policy
    /\ ~stray => live["host"] = lkg.rev

\* A closed breaker means what it says: with no transaction running and nothing
\* pending at root, production and its approval policy are at the last known good.
\* Holds after deployments that fail in any way, a root commit that comes after the
\* deadline included.  Excepted are transactions that were killed, releases whose
\* rollback after acceptance was ordered, and a late host job, after which the
\* breaker may be closed over a host that is elsewhere.
BreakerGuards ==
    NothingPending /\ torn = {} /\ (\A c \in Revs : rlift[c] = None) /\ breaker = "closed"
        => Converged

\* The engineering worker and the mutating part of a transaction exclude each
\* other: the ExecCondition reads the lock, the transaction reads the unit.
Exclusion ==
    eng.state \in {"admitted", "active"} => txn.pc \in {"idle", "gate", "quiet", "end", "exit"}
=============================================================================
