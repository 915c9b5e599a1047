--------------------------- MODULE IntegrationQueue ---------------------------
(***************************************************************************)
(* The PM V3 integration queue (src/tools/pmv3_integration_queue.py) and   *)
(* the engineering controller that runs it.  One pass reads the queue's    *)
(* state file, protected main, the last known good revision and the open   *)
(* pull requests, then merges at most one pull request and saves the state *)
(* file once, at its end.  GitHub, the developers and production change    *)
(* between any two of its API calls, and an API error or a crash ends a    *)
(* pass with nothing saved (reconcile_integration_queue catches it).       *)
(*                                                                         *)
(* Pull requests are numbers in order of priority; a head is a number that *)
(* a push raises, and gate, checks, mergeability and changed files are     *)
(* those of the head.  "clean" is every merge state in which only the      *)
(* queue's gate and the required checks stand in the way; "blocked" is one *)
(* that refuses the merge for another reason, which the queue does not     *)
(* tell from "clean".  The admission evidence and labels of a pull request *)
(* do not change; drafts are pull requests that are not admitted; a closed *)
(* pull request is not reopened.                                           *)
(***************************************************************************)
EXTENDS Integers, Sequences, FiniteSets, SequencesExt

CONSTANTS
    PRs,            \* pull requests against main, more urgent ones first
    Admitted,       \* those with owner-approved evidence or the ready label
    Recovery,       \* those with the release-recovery label
    Files,          \* the files each one changes at first
    Changes,        \* the sets of files a later push may leave it with
    Mergeability,   \* what GitHub may find: "clean", "behind", "dirty", "blocked"
    BatchSize,      \* --batch-size
    MaxMoves,       \* bound: pushes, closings, pushes to main, rollbacks
    MaxFaults       \* bound: API errors and crashes of a pass

ASSUME QueueAssumption ==
    /\ PRs \subseteq Nat /\ IsFiniteSet(PRs)
    /\ Admitted \subseteq PRs /\ Recovery \subseteq PRs
    /\ \A p \in PRs : Mergeability[p] \subseteq {"clean", "behind", "dirty", "blocked"}
    /\ BatchSize \in Nat \ {0} /\ MaxMoves \in Nat /\ MaxFaults \in Nat

VARIABLES
    main,       \* the head of protected main
    lkg,        \* the last known good revision of production
    pr,         \* GitHub's view of each pull request
    store,      \* the queue's state file: train and release lock
    q,          \* the pass under way
    ahead,      \* history: ordinary merges of the queue production never accepted
    hold,       \* history: "no", or the lock was "stored" and the gates "shut" as well
    moves, faults

github == <<main, pr>>
vars == <<main, lkg, pr, store, q, ahead, hold, moves, faults>>

None == -1      \* no lock; an unknown production revision
Ordinary == PRs \ Recovery
File == UNION ({Files[p] : p \in PRs} \cup UNION {Changes[p] : p \in PRs})
Open == {p \in PRs : pr[p].state = "open"}

NoFiles == [p \in PRs |-> {}]

NoPass == [pc |-> "idle", main |-> 0, lkg |-> 0, heads |-> <<>>, train |-> <<>>,
           files |-> NoFiles, lock |-> None, cur |-> 0, sha |-> 0, seen |-> "clean", todo |-> {}, next |-> "idle"]

At(pc) == q.pc = pc
Heads == [p \in Open |-> pr[p].head]

-----------------------------------------------------------------------------
(* GitHub, the developers and production.                                  *)

\* A merge moves main; GitHub computes the other mergeabilities anew
Merged(p) == [r \in PRs |-> CASE r = p -> [pr[r] EXCEPT !.state = "merged"]
                              [] r \in Open \ {p} -> [pr[r] EXCEPT !.merge = "unknown"]
                              [] OTHER -> pr[r]]

\* Branch protection: required checks and the gate at the head
Mergeable(p) ==
    /\ p \in Open /\ pr[p].checks = "success" /\ pr[p].gate = "success" /\ pr[p].merge = "clean"

Pushed(p, merge, files) ==
    [pr EXCEPT ![p].head = @ + 1, ![p].checks = "pending", ![p].gate = "none",
               ![p].merge = merge, ![p].files = files]

\* The required checks of the head pass, or one of them fails for good
CheckReports(p) ==
    /\ p \in Open /\ pr[p].checks = "pending"
    /\ \E c \in {"success", "failure"} : pr' = [pr EXCEPT ![p].checks = c]
    /\ UNCHANGED <<main, lkg, store, q, ahead, hold, moves, faults>>

Recompute(p, m) ==
    /\ p \in Open /\ pr[p].merge = "unknown"
    /\ pr' = [pr EXCEPT ![p].merge = m]
    /\ UNCHANGED <<main, lkg, store, q, ahead, hold, moves, faults>>

\* Anybody may merge what branch protection lets through
MergeByHand(p) ==
    /\ Mergeable(p) /\ main' = main + 1 /\ pr' = Merged(p)
    /\ UNCHANGED <<lkg, store, q, ahead, hold, moves, faults>>

Move == moves < MaxMoves /\ moves' = moves + 1 /\ UNCHANGED <<store, q, hold, faults>>

Push(p) ==
    /\ Move /\ p \in Open /\ \E files \in Changes[p] : pr' = Pushed(p, "unknown", files)
    /\ UNCHANGED <<main, lkg, ahead>>

Close(p) ==
    /\ Move /\ p \in Open /\ pr' = [pr EXCEPT ![p].state = "closed"]
    /\ UNCHANGED <<main, lkg, ahead>>

\* Main moves without a pull request of the queue
ExternalMerge ==
    /\ Move /\ main' = main + 1
    /\ pr' = [r \in PRs |-> IF r \in Open THEN [pr[r] EXCEPT !.merge = "unknown"] ELSE pr[r]]
    /\ UNCHANGED <<lkg, ahead>>

\* Production accepts a revision that is, or was, main
Accept(r) ==
    /\ lkg < r /\ r <= main /\ lkg' = r
    /\ ahead' = {x \in ahead : x.rev > r}
    /\ UNCHANGED <<main, pr, store, q, hold, moves, faults>>

RollBack ==
    /\ Move /\ lkg > 0 /\ lkg' = lkg - 1
    /\ UNCHANGED <<main, pr, ahead>>

-----------------------------------------------------------------------------
(* One pass of reconcile.                                                  *)

Outside == UNCHANGED <<lkg, store, ahead, hold, moves, faults>>
Local == UNCHANGED github /\ Outside

\* load_state and main_sha
Start ==
    /\ At("idle")
    /\ q' = [NoPass EXCEPT !.pc = "lkg", !.main = main,
                           !.train = store.train, !.files = store.files, !.lock = store.lock]
    /\ Local

\* production_lkg_revision
ReadLkg == At("lkg") /\ q' = [q EXCEPT !.pc = "list", !.lkg = lkg] /\ Local

\* ... whose protected readback is missing or malformed
ReadLkgUnknown ==
    /\ At("lkg") /\ faults < MaxFaults /\ faults' = faults + 1
    /\ q' = [q EXCEPT !.pc = "list", !.lkg = None]
    /\ UNCHANGED <<main, lkg, pr, store, ahead, hold, moves>>

\* Mutant: a main that moved is not locked after a restart
LockSeenOnlyUnlocks == IF q.lkg = q.lock THEN None ELSE q.lock

\* Mutant: the lock is never released
LockSeenForever == IF q.train = <<>> /\ q.main # q.lkg THEN q.main ELSE q.lock

\* The lock as this pass sees it: released when its exact candidate is the last
\* known good, and set to main whenever main is not, unless a train is under way
LockSeen ==
    CASE q.train = <<>> /\ q.main # q.lkg -> q.main
      [] OTHER -> IF q.lkg = q.lock THEN None ELSE q.lock

Candidates == {p \in Open \cap Admitted : pr[p].merge # "dirty"}

\* _priority: recovery first, then by number
Before(a, b) ==
    IF (a \in Recovery) = (b \in Recovery) THEN a < b ELSE a \in Recovery

ReadyCandidates == {p \in Candidates : pr[p].checks = "success"}
Overlap(a, b) == pr[a].files \cap pr[b].files # {}

\* Mutant: changed files are not compared
TrainsAnyFiles ==
    {t \in SeqOf(ReadyCandidates, BatchSize) :
        /\ \A i, j \in DOMAIN t : i < j => Before(t[i], t[j])
        /\ \A p \in ReadyCandidates \ Range(t) : Len(t) = BatchSize /\ Before(Last(t), p)}

\* select_train: ready candidates in order, a bounded number, with disjoint files;
\* one is passed over only for an overlap with one chosen before it, or a full train.
\* There is exactly one such train (TrainIsGreedy).
Trains ==
    {t \in SeqOf(ReadyCandidates, BatchSize) :
        /\ \A i, j \in DOMAIN t : i < j => Before(t[i], t[j]) /\ ~Overlap(t[i], t[j])
        /\ \A p \in ReadyCandidates \ Range(t) :
              \/ \E i \in DOMAIN t : Before(t[i], p) /\ Overlap(t[i], p)
              \/ Len(t) = BatchSize /\ Before(Last(t), p)}

\* candidates.sort(key=_priority)
InOrder ==
    CHOOSE s \in SetToSeqs(Candidates) : \A i, j \in DOMAIN s : i < j => Before(s[i], s[j])

\* Mutant: the loop ends at a candidate whose checks are pending
SelectTrainUntilPending ==
    LET sorted == InOrder
        ready == SelectInSeq(sorted, LAMBDA p : pr[p].checks # "success")
        fits(train, p) ==
            /\ Len(train) < BatchSize
            /\ \A i \in DOMAIN train : ~Overlap(p, train[i])
    IN  FoldLeft(LAMBDA train, p : IF fits(train, p) THEN Append(train, p) ELSE train,
                 <<>>, IF ready = 0 THEN sorted ELSE SubSeq(sorted, 1, ready - 1))

\* The loop of select_train, candidate by candidate
SelectTrain ==
    LET fits(train, p) ==
            /\ Len(train) < BatchSize /\ pr[p].checks = "success"
            /\ \A i \in DOMAIN train : ~Overlap(p, train[i])
    IN  FoldLeft(LAMBDA train, p : IF fits(train, p) THEN Append(train, p) ELSE train,
                 <<>>, InOrder)

\* Mutant: any admitted pull request may recover a release
RecoveryUnlabelled == Candidates

\* _recovery_candidate chooses the first of these
RecoveryCandidates == Candidates \cap Recovery

\* Go on at pc once every pull request of todo is pending (_set_all_pending)
SweepThen(pass, heads, todo, pc) ==
    [pass EXCEPT !.pc = "sweep", !.heads = heads, !.todo = todo, !.next = pc]

\* _make_train notes the files by which its pull requests were compared
Compared(t) == [p \in PRs |-> IF p \in Range(t) THEN pr[p].files ELSE {}]

\* The open pull requests are listed and the pass decides what it is about
List ==
    LET lock == LockSeen
        seen == [q EXCEPT !.main = 0, !.lkg = 0, !.lock = lock, !.heads = Heads,
                          !.train = IF lock # None THEN <<>> ELSE q.train]
        recovery == RecoveryCandidates
        first == Min(recovery)
    IN  /\ At("list")
        /\ \/ /\ lock # None /\ recovery # {}
              /\ q' = [seen EXCEPT !.pc = "recover", !.cur = first, !.sha = pr[first].head]
           \/ /\ lock # None /\ recovery = {}
              /\ q' = SweepThen(seen, Heads, Open, "save")
           \/ /\ lock = None /\ q.train # <<>>
              /\ q' = [seen EXCEPT !.pc = "fresh"]
           \/ /\ lock = None /\ q.train = <<>>
              /\ \E t \in Trains :
                    q' = IF t # <<>> THEN [seen EXCEPT !.pc = "fresh", !.train = t,
                                                       !.files = Compared(t)]
                                     ELSE SweepThen(seen, Heads, Open, "save")
        /\ hold' = IF lock = None THEN "no" ELSE hold
        /\ UNCHANGED <<main, pr, lkg, store, ahead, moves, faults>>

\* set_gate: a status belongs to the commit, a newer head does not have it
Gated(p, sha, g) == IF pr[p].head = sha THEN [pr EXCEPT ![p].gate = g] ELSE pr

Sweep ==
    /\ At("sweep")
    /\ IF q.todo = {} THEN q' = [q EXCEPT !.pc = q.next, !.heads = <<>>] /\ UNCHANGED pr
       ELSE LET p == Max(q.todo)
            IN  pr' = Gated(p, q.heads[p], "pending") /\ q' = [q EXCEPT !.todo = @ \ {p}]
    /\ UNCHANGED main /\ Outside

\* checks_ready at the commit the pass knows: a failed check is one that is not
\* there yet; what an older commit says is open
Ready == pr[q.cur].head = q.sha => pr[q.cur].checks = "success"
NotReady == pr[q.cur].head = q.sha => pr[q.cur].checks # "success"

\* The pull request loses its gate and the pass goes on at pc
Hold(pass, pc) ==
    /\ pr' = Gated(q.cur, q.sha, "pending") /\ q' = [pass EXCEPT !.pc = pc]

Recover ==
    /\ At("recover")
    /\ \/ Ready /\ q' = [q EXCEPT !.pc = "gate"] /\ UNCHANGED pr
       \/ NotReady /\ Hold(q, "save")
    /\ UNCHANGED main /\ Outside

\* The train after its first pull request is merged or skipped
Rest == [q EXCEPT !.train = Tail(@)]
AfterRest == IF Len(q.train) = 1 THEN "finish" ELSE "save"

\* Mutant: the pull request the pass works on is not noted
FreshWithoutCurrent ==
    /\ At("fresh")
    /\ q' = IF Head(q.train) \in Open THEN [q EXCEPT !.pc = "decide"]
                                     ELSE [Rest EXCEPT !.pc = AfterRest]
    /\ Local

\* Mutant: the other pull requests keep their gates
FreshUnswept ==
    LET p == Head(q.train)
    IN  /\ At("fresh")
        /\ q' = IF p \notin Open THEN [Rest EXCEPT !.pc = AfterRest]
                ELSE [q EXCEPT !.cur = p, !.sha = pr[p].head, !.seen = pr[p].merge,
                               !.pc = "decide"]
        /\ Local

\* pull_request: the first queued one, as it is now; the others are gated
Fresh ==
    LET p == Head(q.train)
        seen == [q EXCEPT !.cur = p, !.sha = pr[p].head, !.seen = pr[p].merge]
    IN  /\ At("fresh")
        /\ q' = IF p \in Open THEN SweepThen(seen, q.heads, DOMAIN q.heads \ {p}, "decide")
                              ELSE [Rest EXCEPT !.pc = AfterRest]
        /\ Local

\* A "blocked" one is taken for clean; its merge is refused
Decide ==
    /\ At("decide")
    /\ \/ q.seen = "dirty" /\ Hold(Rest, AfterRest)
       \/ q.seen = "unknown" /\ Hold(q, "save")
       \/ q.seen = "behind" /\ Hold(q, "update")
       \/ q.seen \in {"clean", "blocked"} /\ Ready /\ q' = [q EXCEPT !.pc = "gate"] /\ UNCHANGED pr
       \/ q.seen \in {"clean", "blocked"} /\ NotReady /\ Hold(q, "save")
    /\ UNCHANGED main /\ Outside

\* update_branch at the expected head, or the pull request is skipped
Update ==
    /\ At("update")
    /\ IF q.cur \in Open /\ pr[q.cur].head = q.sha
       THEN pr' = Pushed(q.cur, "clean", pr[q.cur].files) /\ q' = [q EXCEPT !.pc = "save"]
       ELSE q' = [Rest EXCEPT !.pc = AfterRest] /\ UNCHANGED pr
    /\ UNCHANGED main /\ Outside

OpenGate ==
    /\ At("gate") /\ pr' = Gated(q.cur, q.sha, "success")
    /\ q' = [q EXCEPT !.pc = "merge"]
    /\ UNCHANGED main /\ Outside

\* history: what an ordinary merge brings to main, and what it was compared by
Ahead(p, rev) == [rev |-> rev, pr |-> p, files |-> pr[p].files, compared |-> q.files[p]]

\* merge_pull_request at the exact head; a refusal is an exception
Merge ==
    /\ At("merge")
    /\ IF Mergeable(q.cur) /\ pr[q.cur].head = q.sha
       THEN /\ main' = main + 1 /\ pr' = Merged(q.cur)
            /\ ahead' = IF q.lock = None THEN ahead \cup {Ahead(q.cur, main')} ELSE ahead
            /\ q' = IF q.lock = None THEN [Rest EXCEPT !.pc = AfterRest]
                    ELSE [q EXCEPT !.pc = "checkpoint", !.lock = main + 1]
       ELSE q' = NoPass /\ UNCHANGED <<main, pr, ahead>>
    /\ UNCHANGED <<lkg, store, hold, moves, faults>>

Stored == store' = [train |-> q.train, lock |-> q.lock,
                    files |-> IF q.train = <<>> THEN NoFiles ELSE q.files]

\* The recovered candidate is locked before anything else is asked of GitHub
Checkpoint ==
    /\ At("checkpoint") /\ Stored
    /\ hold' = IF hold = "no" THEN "stored" ELSE hold
    /\ q' = SweepThen(q, q.heads, DOMAIN q.heads \ {q.cur}, "save")
    /\ UNCHANGED <<main, pr, lkg, ahead, moves, faults>>

\* The train is complete: the resulting main is the candidate
Finish ==
    /\ At("finish")
    /\ q' = SweepThen([q EXCEPT !.lock = main], Heads, Open, "save")
    /\ Local

Save ==
    /\ At("save") /\ Stored /\ q' = NoPass
    /\ hold' = CASE q.lock = None -> hold
                 [] q.lock # None /\ q.next = "save" -> "shut"
                 [] OTHER -> IF hold = "no" THEN "stored" ELSE hold
    /\ UNCHANGED <<main, pr, lkg, ahead, moves, faults>>

\* An API call fails, its answer is lost, or the process dies
Abort ==
    /\ ~At("idle") /\ faults < MaxFaults /\ faults' = faults + 1 /\ q' = NoPass
    /\ UNCHANGED <<main, pr, lkg, store, ahead, hold, moves>>

PassStep ==
    \/ Start \/ ReadLkg \/ List \/ Sweep \/ Recover \/ Fresh \/ Decide \/ Update
    \/ OpenGate \/ Merge \/ Checkpoint \/ Finish \/ Save

-----------------------------------------------------------------------------
Init ==
    /\ main = 0 /\ lkg = 0
    /\ pr = [p \in PRs |-> [state |-> "open", head |-> 0, files |-> Files[p],
                            checks |-> IF p \in Ordinary THEN "success" ELSE "pending",
                            gate |-> "none", merge |-> "clean"]]
    /\ store = [train |-> <<>>, files |-> NoFiles, lock |-> None]
    /\ q = NoPass /\ ahead = {} /\ hold = "no" /\ moves = 0 /\ faults = 0

Next ==
    \/ PassStep \/ ReadLkgUnknown \/ Abort
    \/ \E p \in PRs : \/ CheckReports(p) \/ MergeByHand(p) \/ Push(p) \/ Close(p)
                      \/ \E m \in Mergeability[p] : Recompute(p, m)
    \/ ExternalMerge \/ RollBack
    \/ \E r \in 0 .. main : Accept(r)

\* The timer runs the queue; GitHub answers; production accepts main
Fairness ==
    /\ WF_vars(PassStep)
    /\ WF_vars(\E p \in PRs : CheckReports(p))
    /\ WF_vars(\E p \in PRs : \E m \in Mergeability[p] : Recompute(p, m))
    /\ WF_vars(Accept(main))

Spec == Init /\ [][Next]_vars /\ Fairness

-----------------------------------------------------------------------------
\* Every variable has the type the code gives it.
TypeOK ==
    /\ main \in Nat /\ lkg \in 0 .. main
    /\ pr \in [PRs -> [state : {"open", "closed", "merged"}, head : Nat,
                       checks : {"pending", "success", "failure"}, files : SUBSET File,
                       gate : {"none", "pending", "success"},
                       merge : {"unknown", "clean", "behind", "dirty", "blocked"}]]
    /\ store.train \in Seq(PRs) /\ store.lock \in {None} \cup 0 .. main
    /\ store.files \in [PRs -> SUBSET File] /\ q.files \in [PRs -> SUBSET File]
    /\ q.train \in Seq(PRs) /\ q.lock \in {None} \cup 0 .. main /\ q.todo \subseteq PRs
    /\ q.pc \in {"decide", "update", "gate", "merge", "checkpoint"} => q.cur \in PRs
    /\ DOMAIN q = DOMAIN NoPass
    /\ ahead \subseteq [rev : 1 .. main, pr : PRs, files : SUBSET File, compared : SUBSET File]
    /\ hold \in {"no", "stored", "shut"}
    /\ moves \in 0 .. MaxMoves /\ faults \in 0 .. MaxFaults

\* Wherever passes are cut off, the queue never merges more than one train's
\* worth of ordinary pull requests past what production has accepted: a merge
\* whose pass was lost is found again as a main ahead of production.
OneTrainAhead == Cardinality(ahead) <= BatchSize

\* A file that two merges past production both touch is one that a push added to
\* one of them after select_train had compared them: the trains themselves are
\* disjoint, even when the pass that chose one was lost.  The queue merges the head
\* of the moment and does not compare again, so that a push can make it merge
\* overlapping changes.
DisjointAhead ==
    \A x, y \in ahead : x # y =>
        x.files \cap y.files \subseteq (x.files \ x.compared) \cup (y.files \ y.compared)

\* The loop of select_train chooses the one train in which every ready candidate
\* has its place, unless it overlaps a more urgent one of the train or the train is
\* full: a pending check or an overlap costs nobody else a place.
TrainIsGreedy == Trains = {SelectTrain}

\* At most one ordinary pull request can be merged through the gate at any
\* moment, whatever a failed pass left behind.
OneGate == Cardinality({p \in Ordinary \cap Open : pr[p].gate = "success"}) <= 1

\* Once a pass has stored the release lock and shut the gates, no ordinary pull
\* request can be merged, by the queue or by anybody else, until a pass finds the
\* exact candidate to be the last known good: not after any crash or push.
GateShutUnderLock ==
    hold = "shut" => \A p \in Ordinary \cap Open : pr[p].gate # "success"

\* The lock names a candidate that main has left behind, and production has
\* accepted main instead.
Superseded == store.lock \notin {None, main} /\ lkg = main

\* A pull request the queue waits for until its developer pushes again: a failed
\* check is held like a pending one, and a blocked merge is tried in every pass.
Waits(p) == p \in Open /\ (pr[p].checks = "failure" \/ pr[p].merge = "blocked")

\* The queue drains: again and again there comes a moment when every admitted pull
\* request is merged or closed, meets a conflict or is itself waited for, while
\* production accepts what was merged.  Nobody else's red check costs it its turn,
\* but for these: the first pull request of the stored train is waited for; a more
\* urgent one is blocked, which ends every pass with nothing saved; the lock is
\* superseded.
QueueMoves ==
    []<>(\/ \A p \in Open \cap Admitted :
               \/ pr[p].merge = "dirty" \/ Waits(p)
               \/ \E r \in Open \cap Admitted : Before(r, p) /\ pr[r].merge = "blocked"
         \/ store.train # <<>> /\ Waits(Head(store.train))
         \/ Superseded)

\* Once production runs main, the lock goes: "RELEASE_LOCKED -> (production
\* verified/LKG) -> IDLE".
VerifiedUnlocks == lkg = main ~> store.lock = None \/ lkg # main
=============================================================================
