------------------------------ MODULE WorkEngine ------------------------------
(***************************************************************************)
(* The PM V3 work engine (src/tools/pmv3_work_engine.py) and the scheduler *)
(* that runs it (src/tools/pmv3_scheduler.py).  A cycle loads the state    *)
(* file, takes in work, approvals and facts, recovers what a dead process  *)
(* left running, rechecks what waits, and then runs a batch of items one   *)
(* after the other, saving the state before and after every call of the    *)
(* handler.  A kill, or an exception of the handler, ends the process with *)
(* only the last checkpoint on disk.                                       *)
(*                                                                         *)
(* The handler is a parameter of the engine.  It is modelled by its        *)
(* contract: an answer that says complete or bears a receipt means that    *)
(* the action took effect, any other answer that it did not.  An           *)
(* interrupted call may have taken effect or not.                          *)
(*                                                                         *)
(* Of a reason only what classify_reason makes of it is kept.  updated_at, *)
(* which only orders the runnable items, is a rank of those.  Items that   *)
(* are admitted with approved = false never run and are left out.          *)
(***************************************************************************)
EXTENDS Integers, FiniteSets

CONSTANTS
    Items,          \* work items, numbered in the order of their ids
    Idempotent,     \* those marked idempotent
    NeedsApproval,  \* those with approval_required
    Dependent,      \* those admitted with a dependency
    Priority,       \* the priority of each, most urgent lowest
    Capacities,     \* what --capacity may be: items run by one cycle
    MaxAttempts,    \* max_attempts
    MaxFaults       \* bound: kills and handler exceptions

ASSUME EngineAssumption ==
    /\ Items \subseteq Nat /\ IsFiniteSet(Items)
    /\ Idempotent \subseteq Items /\ NeedsApproval \subseteq Items /\ Dependent \subseteq Items
    /\ Priority \in [Items -> Nat]
    /\ Capacities \subseteq Nat \ {0} /\ MaxAttempts \in Nat \ {0} /\ MaxFaults \in Nat

VARIABLES
    disk,       \* the state file: items and receipts
    mem,        \* the state in the process's memory
    pc,         \* "idle", "items" between two items, "handler" in a call
    cur,        \* the item of the last handler call
    batch,      \* items of this cycle still to be run
    listed,     \* the work input file
    approvals,  \* the approval input file: the last decision on each item
    facts,      \* the fact input file: the facts that are true
    due,        \* items whose backoff is over
    late,       \* history: items decided since the cycle under way read the decisions
    effects,    \* history: how often each action took effect, at most 2
    reconciled, \* history: items a cycle released by the reconciliation fact
    faults

inputs == <<listed, approvals, facts>>
vars == <<disk, mem, pc, cur, batch, listed, approvals, facts, due, late, effects, reconciled, faults>>

Facts == {"dependency", "reconciliation_required"}
Texts == {"transient", "external", "other"}     \* classify_reason: RETRYABLE, EXTERNAL, unknown
Decisions == {"none", "approve", "deny"}
None == 0

Newest == Cardinality(Items)    \* the rank of an update by the cycle under way

Absent == [phase |-> "absent", transient |-> FALSE, dependency |-> "", attempts |-> 0,
           approval |-> "none", at |-> 0]

-----------------------------------------------------------------------------
(* Steps of a cycle on an item, in the order execute_cycle takes them.     *)

Admitted(i, item) ==
    IF item.phase # "absent" \/ i \notin listed THEN item
    ELSE IF i \in Dependent THEN [item EXCEPT !.phase = "waiting", !.dependency = "dependency"]
    ELSE [item EXCEPT !.phase = "runnable", !.at = Newest]

\* Mutant: the first decision stands
ApprovedOnce(i, item) ==
    IF approvals[i] = "none" \/ item.phase = "absent" \/ item.approval # "none" THEN item
    ELSE [item EXCEPT !.approval = approvals[i]]

\* The decisions are well formed: one that is unverified, of another channel, or for
\* an unknown item or request raises, and the cycle ends before anything is saved.
Approved(i, item) ==
    IF approvals[i] = "none" \/ item.phase = "absent" THEN item
    ELSE [item EXCEPT !.approval = approvals[i]]

ApprovalSatisfied(i, item) == i \in NeedsApproval => item.approval = "approve"

\* Mutant: interrupted work waits, but for nothing
RecoveredWithoutDependency(i, item, receipts) ==
    IF item.phase # "running" THEN item
    ELSE IF i \in receipts THEN [item EXCEPT !.phase = "complete"]
    ELSE IF i \in Idempotent THEN [item EXCEPT !.phase = "runnable", !.at = Newest]
    ELSE [item EXCEPT !.phase = "waiting"]

\* Mutant: interrupted work that must not be repeated is taken for done
RecoveredAsComplete(i, item, receipts) ==
    IF item.phase # "running" THEN item
    ELSE IF i \in Idempotent /\ i \notin receipts THEN [item EXCEPT !.phase = "runnable", !.at = Newest]
    ELSE [item EXCEPT !.phase = "complete"]

\* An item the last process left running; phase "verifying" is never written.
Recovered(i, item, receipts) ==
    IF item.phase # "running" THEN item
    ELSE IF i \in receipts THEN [item EXCEPT !.phase = "complete"]
    ELSE IF i \in Idempotent THEN [item EXCEPT !.phase = "runnable", !.at = Newest]
    ELSE [item EXCEPT !.phase = "waiting", !.dependency = "reconciliation_required"]

Wakes(i, item) ==
    \/ item.phase = "waiting" /\ item.dependency \in facts \cup {""}
    \/ item.phase = "retry_wait" /\ i \in due
    \/ item.phase = "blocked" /\ item.transient

Rechecked(i, item) ==
    IF Wakes(i, item)
    THEN [item EXCEPT !.phase = "runnable", !.transient = FALSE, !.dependency = "", !.at = Newest]
    ELSE item

\* The ranks of the runnable items of a loaded state, below those this cycle gives.
Ranked(items) ==
    LET earlier(i) == {j \in Items : items[j].phase = "runnable" /\ items[j].at < items[i].at}
    IN  [i \in Items |-> [items[i] EXCEPT !.at = Cardinality({items[j].at : j \in earlier(i)})]]

Loaded == [i \in Items |-> Approved(i, Admitted(i, Ranked(disk.items)[i]))]
Recovery == [i \in Items |-> Recovered(i, Loaded[i], disk.receipts)]
Ready == [i \in Items |-> Rechecked(i, Recovery[i])]

-----------------------------------------------------------------------------
(* Which items a cycle runs, and in which order.                           *)

\* Mutant: the time of the last update is ignored
BeforeById(i, j, items) ==
    \/ Priority[i] < Priority[j]
    \/ Priority[i] = Priority[j] /\ i < j

Before(i, j, items) ==
    \/ Priority[i] < Priority[j]
    \/ Priority[i] = Priority[j] /\ items[i].at < items[j].at
    \/ Priority[i] = Priority[j] /\ items[i].at = items[j].at /\ i < j

Candidates(items) ==
    {i \in Items : items[i].phase = "runnable" /\ ApprovalSatisfied(i, items[i])}

RunnableItems(items, capacity) ==
    LET earlier(i) == {j \in Candidates(items) : Before(j, i, items)}
    IN  {i \in Candidates(items) : Cardinality(earlier(i)) < capacity}

First(i) == i \in batch /\ \A j \in batch \ {i} : Before(i, j, mem.items)

-----------------------------------------------------------------------------
(* The handler's answers, and apply_outcome.                               *)

\* Fields that apply_outcome does not read for a status have one value.
Outcomes ==
    [status : {"complete"}, retry_class : {""}, reason : {"other"},
     dependency : {""}, receipt : BOOLEAN]
    \cup
    [status : {"waiting"}, retry_class : {""}, reason : {"other"},
     dependency : {"", "dependency"}, receipt : BOOLEAN]
    \cup
    [status : {"retry", "external", "failed"}, retry_class : Texts \cup {""}, reason : Texts,
     dependency : {""}, receipt : BOOLEAN]

RetryClass(o) == IF o.retry_class # "" THEN o.retry_class ELSE o.reason

\* Mutant: the status of the answer is stored as the phase
AppliedAsStatus(item, o) == [item EXCEPT !.phase = o.status, !.dependency = o.dependency]

Applied(item, o) ==
    CASE o.status = "complete" -> [item EXCEPT !.phase = "complete"]
      [] o.status = "waiting" -> [item EXCEPT !.phase = "waiting", !.dependency = o.dependency]
      [] /\ o.status \notin {"complete", "waiting"}
         /\ o.status = "retry" \/ RetryClass(o) = "transient" ->
            IF item.attempts < MaxAttempts THEN [item EXCEPT !.phase = "retry_wait"]
            ELSE [item EXCEPT !.phase = "blocked", !.transient = (o.reason = "transient")]
      [] OTHER ->
            IF RetryClass(o) = "external" \/ o.status = "external"
            THEN [item EXCEPT !.phase = "failed_external"]
            ELSE [item EXCEPT !.phase = "blocked", !.transient = (o.reason = "transient")]

TookEffect(o) == o.status = "complete" \/ o.receipt

-----------------------------------------------------------------------------

Init ==
    /\ disk = [items |-> [i \in Items |-> Absent], receipts |-> {}]
    /\ mem = disk
    /\ pc = "idle" /\ cur = None /\ batch = {}
    /\ listed = {} /\ facts = {} /\ approvals = [i \in Items |-> "none"]
    /\ due = {}
    /\ late = {}
    /\ effects = [i \in Items |-> 0]
    /\ reconciled = {}
    /\ faults = 0

\* run_once up to the first item: load, ingest, recover, recheck and select.
BeginCycle(capacity) ==
    /\ pc = "idle"
    /\ mem' = [disk EXCEPT !.items = Ready]
    /\ batch' = RunnableItems(Ready, capacity)
    /\ pc' = "items"
    /\ reconciled' = reconciled \cup
          {i \in Items : /\ Recovery[i].phase = "waiting"
                         /\ Recovery[i].dependency = "reconciliation_required"
                         /\ "reconciliation_required" \in facts}
    /\ UNCHANGED <<disk, cur, inputs, due, late, effects, faults>>

\* Mutant: the claim is saved with the answer only
ClaimUnsaved(i) ==
    /\ pc = "items" /\ First(i) /\ i \notin mem.receipts
    /\ mem' = [mem EXCEPT !.items[i].phase = "running", !.items[i].at = 0,
                          !.items[i].attempts = IF @ < MaxAttempts THEN @ + 1 ELSE @]
    /\ pc' = "handler" /\ cur' = i /\ batch' = batch \ {i}
    /\ UNCHANGED <<disk, inputs, due, late, effects, reconciled, faults>>

\* The claim of an item is on disk before its handler is called.
Claim(i) ==
    /\ pc = "items" /\ First(i) /\ i \notin mem.receipts
    /\ mem' = [mem EXCEPT !.items[i].phase = "running", !.items[i].at = 0,
                          !.items[i].attempts = IF @ < MaxAttempts THEN @ + 1 ELSE @]
    /\ disk' = mem'
    /\ pc' = "handler" /\ cur' = i /\ batch' = batch \ {i}
    /\ UNCHANGED <<inputs, due, late, effects, reconciled, faults>>

\* A receipt means the action is done; this is not saved before the next checkpoint.
Skip(i) ==
    /\ pc = "items" /\ First(i) /\ i \in mem.receipts
    /\ mem' = [mem EXCEPT !.items[i].phase = "complete", !.items[i].at = 0]
    /\ batch' = batch \ {i}
    /\ UNCHANGED <<disk, pc, cur, inputs, due, late, effects, reconciled, faults>>

Effected(i) == [effects EXCEPT ![i] = IF @ < 2 THEN @ + 1 ELSE @]

\* The handler answers: the receipt, the outcome and the checkpoint.
Answer(o) ==
    /\ pc = "handler"
    /\ mem' = [items |-> [mem.items EXCEPT ![cur] = Applied(@, o)],
               receipts |-> IF o.receipt THEN mem.receipts \cup {cur} ELSE mem.receipts]
    /\ disk' = mem'
    /\ due' = due \ {cur}
    /\ effects' = IF TookEffect(o) THEN Effected(cur) ELSE effects
    /\ pc' = "items" /\ cur' = None
    /\ UNCHANGED <<batch, inputs, late, reconciled, faults>>

EndCycle ==
    /\ pc = "items" /\ batch = {}
    /\ disk' = mem
    /\ pc' = "idle" /\ late' = {}
    /\ UNCHANGED <<mem, cur, batch, inputs, due, effects, reconciled, faults>>

\* The process dies, in a handler call with its effect made or not.
Die ==
    /\ pc # "idle" /\ faults < MaxFaults
    /\ faults' = faults + 1
    /\ \/ effects' = effects
       \/ pc = "handler" /\ effects' = Effected(cur)
    /\ mem' = disk
    /\ pc' = "idle" /\ cur' = None /\ batch' = {} /\ late' = {}
    /\ UNCHANGED <<disk, inputs, due, reconciled>>

-----------------------------------------------------------------------------
(* The input files and the clock.  Work and facts are read only where a    *)
(* cycle begins, so it is enough that they change between two cycles.      *)

ListWork(i) ==
    /\ pc = "idle" /\ i \notin listed
    /\ listed' = listed \cup {i}
    /\ UNCHANGED <<disk, mem, pc, cur, batch, approvals, facts, due, late, effects, reconciled, faults>>

Decide(i, d) ==
    /\ i \in NeedsApproval \cap listed /\ d # approvals[i]
    /\ approvals' = [approvals EXCEPT ![i] = d]
    /\ late' = IF pc = "idle" THEN late ELSE late \cup {i}
    /\ UNCHANGED <<disk, mem, pc, cur, batch, listed, facts, due, effects, reconciled, faults>>

SetFact(f) ==
    /\ pc = "idle"
    /\ facts' = IF f \in facts THEN facts \ {f} ELSE facts \cup {f}
    /\ UNCHANGED <<disk, mem, pc, cur, batch, listed, approvals, due, late, effects, reconciled, faults>>

Elapse(i) ==
    /\ disk.items[i].phase = "retry_wait" /\ i \notin due
    /\ due' = due \cup {i}
    /\ UNCHANGED <<disk, mem, pc, cur, batch, inputs, late, effects, reconciled, faults>>

Step ==
    \/ \E c \in Capacities : BeginCycle(c)
    \/ EndCycle
    \/ \E i \in Items : Claim(i) \/ Skip(i)
    \/ \E o \in Outcomes : Answer(o)

Next ==
    \/ Step
    \/ Die
    \/ \E i \in Items : ListWork(i) \/ Elapse(i)
    \/ \E i \in Items, d \in {"approve", "deny"} : Decide(i, d)
    \/ \E f \in Facts : SetFact(f)

\* The timer runs a cycle again and again, and a handler call ends; time passes.
Fairness ==
    /\ WF_vars(Step)
    /\ \A i \in Items : WF_vars(Elapse(i))

Spec == Init /\ [][Next]_vars /\ Fairness

-----------------------------------------------------------------------------
(* Properties.                                                             *)

Phases == {"absent", "waiting", "runnable", "running", "retry_wait", "blocked",
           "complete", "failed_external"}

ItemStates ==
    [phase : Phases, transient : BOOLEAN, dependency : Facts \cup {""}, attempts : 0..MaxAttempts,
     approval : Decisions, at : 0..Newest]

States == [items : [Items -> ItemStates], receipts : SUBSET Items]

\* Every variable has the type the code gives it.
TypeOK ==
    /\ disk \in States /\ mem \in States
    /\ pc \in {"idle", "items", "handler"} /\ cur \in Items \cup {None} /\ batch \subseteq Items
    /\ listed \subseteq Items /\ facts \subseteq Facts /\ approvals \in [Items -> Decisions]
    /\ due \subseteq Items
    /\ late \subseteq Items /\ effects \in [Items -> 0..2] /\ reconciled \subseteq Items
    /\ faults \in 0..MaxFaults

\* An action that is not idempotent takes effect a second time only if a
\* reconciliation fact released it: neither a lost receipt, nor a lost
\* recovery, nor an answer that failed after the fact repeats it.
NoBlindRerun ==
    \A i \in Items \ Idempotent : effects[i] > 1 => i \in reconciled

\* Work the state file calls complete took effect, and so did work with a
\* receipt, whatever was interrupted on the way.
CompleteIsReal ==
    \A i \in Items :
        disk.items[i].phase = "complete" \/ i \in disk.receipts => effects[i] > 0

\* The handler is only called for work whose decision, in the file as it is now, is
\* an approval: a denial stops work that was approved, failed or was interrupted
\* earlier.  One that comes after the cycle under way has read the file is not
\* looked at again before the handler is called, and stops the work only from the
\* next cycle on.
DeniedStaysOff ==
    pc = "handler" /\ cur \in NeedsApproval => approvals[cur] = "approve" \/ cur \in late

Pending(i) ==
    /\ disk.items[i].phase \in {"runnable", "retry_wait"}
    /\ i \in NeedsApproval => approvals[i] = "approve"

\* No item that could run is passed over for ever, unless more urgent work
\* runs again and again: work that fails and comes back queues behind it.
NoStarvation ==
    \A i \in Items :
        []<>(\/ ~Pending(i)
             \/ pc = "handler" /\ Priority[cur] < Priority[i])

-----------------------------------------------------------------------------
(* The promise of ReconciledAction.  What is known of an action is what    *)
(* the state file says of it: memory does not survive a kill.              *)

Standing(i) ==
    LET item == disk.items[i]
    IN  CASE i \in disk.receipts \/ item.phase = "complete" -> "done"
          [] i \notin disk.receipts /\ item.phase = "running" ->
                IF pc = "handler" /\ cur = i THEN "calling" ELSE "unsure"
          [] /\ i \notin disk.receipts
             /\ item.phase = "waiting" /\ item.dependency = "reconciliation_required" -> "unsure"
          [] i \notin disk.receipts /\ item.phase = "failed_external" -> "failed"
          [] OTHER -> "open"

Promise == INSTANCE ReconciledAction WITH
    state <- [i \in Items |-> Standing(i)],
    fact <- "reconciliation_required" \in facts,
    released <- reconciled

\* Whatever cycles, answers and kills do, the state file only ever lets an
\* interrupted action be called again that may be repeated or whose
\* reconciliation was known, and never one that is done or failed for good.
ImplementsReconciledAction == Promise!Spec
=============================================================================
