--------------------------- MODULE WorkEngineProofs ---------------------------
(***************************************************************************)
(* Machine-checked proofs about WorkEngine, for every finite set of items, *)
(* every choice of which are idempotent, dependent or need an approval,    *)
(* and every capacity and bound.                                           *)
(***************************************************************************)
EXTENDS WorkEngine, FiniteSetTheorems, TLAPS

-----------------------------------------------------------------------------
(* What the steps of a cycle make of an item.                              *)

(* The ranks given to loaded items are numbers up to the number of items.  *)
LEMMA RankBound ==
  ASSUME NEW items \in [Items -> ItemStates], NEW E \in SUBSET Items
  PROVE  Cardinality({items[j].at : j \in E}) \in 0 .. Newest
<1> DEFINE f == [j \in E |-> items[j].at]
           T == {items[j].at : j \in E}
<1>1. IsFiniteSet(E) /\ Cardinality(E) <= Cardinality(Items)
  BY EngineAssumption, FS_Subset
<1>2. f \in Surjection(E, T)
  BY DEF Surjection
<1>3. IsFiniteSet(T) /\ Cardinality(T) <= Cardinality(E)
  <2> HIDE DEF f, T
  <2> QED BY <1>1, <1>2, FS_Surjection
<1>4. Cardinality(T) \in Nat /\ Cardinality(E) \in Nat /\ Cardinality(Items) \in Nat
  BY <1>1, <1>3, EngineAssumption, FS_CardinalityType
<1> QED BY <1>1, <1>3, <1>4 DEF Newest

(* The rank of an update is a rank.                                        *)
LEMMA NewestIsRank == Newest \in Nat /\ Newest \in 0 .. Newest
BY EngineAssumption, FS_CardinalityType DEF Newest

(* Ranking keeps everything of an item but its rank.                       *)
LEMMA RankedKeeps ==
  ASSUME NEW items \in [Items -> ItemStates], NEW i \in Items
  PROVE  /\ Ranked(items)[i] \in ItemStates
         /\ Ranked(items)[i].phase = items[i].phase
         /\ Ranked(items)[i].dependency = items[i].dependency
         /\ Ranked(items)[i].approval = items[i].approval
<1> DEFINE E == {j \in Items : items[j].phase = "runnable" /\ items[j].at < items[i].at}
           n == Cardinality({items[j].at : j \in E})
<1>1. n \in 0 .. Newest
  <2>1. E \in SUBSET Items
    OBVIOUS
  <2> HIDE DEF E
  <2> QED BY <2>1, RankBound
<1>2. Ranked(items)[i] = [items[i] EXCEPT !.at = n]
  BY DEF Ranked
<1> HIDE DEF n
<1>3. items[i] \in ItemStates
  OBVIOUS
<1>4. [items[i] EXCEPT !.at = n] \in ItemStates
  BY <1>1, <1>3 DEF ItemStates
<1>5. \A f \in {"phase", "dependency", "approval"} : [items[i] EXCEPT !.at = n][f] = items[i][f]
  BY <1>3 DEF ItemStates
<1> QED BY <1>2, <1>4, <1>5

(* Taking in work and decisions keeps an item's type; an item that was     *)
(* admitted before keeps its phase and dependency, and the decision on it  *)
(* is the one in the approvals file, or the former if there is none.       *)
LEMMA LoadedItem ==
  ASSUME TypeOK, NEW i \in Items
  PROVE  /\ Loaded[i] \in ItemStates
         /\ disk.items[i].phase # "absent" =>
               /\ Loaded[i].phase = disk.items[i].phase
               /\ Loaded[i].dependency = disk.items[i].dependency
         /\ disk.items[i].phase = "absent" => Loaded[i].phase \in {"absent", "waiting", "runnable"}
         /\ disk.items[i].phase = "absent" /\ Loaded[i].phase = "waiting" =>
               Loaded[i].dependency = "dependency"
         /\ Loaded[i].approval \in {disk.items[i].approval, approvals[i]}
         /\ approvals[i] # "none" /\ Loaded[i].phase # "absent" => Loaded[i].approval = approvals[i]
<1> DEFINE a == Ranked(disk.items)[i]
           b == Admitted(i, a)
<1>1. disk.items \in [Items -> ItemStates] /\ approvals[i] \in Decisions
  BY DEF TypeOK, States
<1>2. /\ a \in ItemStates
      /\ a.phase = disk.items[i].phase
      /\ a.dependency = disk.items[i].dependency
      /\ a.approval = disk.items[i].approval
  BY <1>1, RankedKeeps
<1>3. Loaded[i] = Approved(i, b)
  BY DEF Loaded
<1> HIDE DEF a
<1>4. /\ b \in ItemStates
      /\ a.phase # "absent" => b = a
      /\ a.phase = "absent" => b.phase \in {"absent", "waiting", "runnable"}
      /\ a.phase = "absent" /\ b.phase = "waiting" => b.dependency = "dependency"
      /\ b.approval = a.approval
  BY <1>2, NewestIsRank DEF Admitted, ItemStates, Phases, Facts
<1> HIDE DEF b
<1>5. /\ Approved(i, b) \in ItemStates
      /\ Approved(i, b).phase = b.phase
      /\ Approved(i, b).dependency = b.dependency
      /\ Approved(i, b).approval \in {b.approval, approvals[i]}
      /\ approvals[i] # "none" /\ b.phase # "absent" => Approved(i, b).approval = approvals[i]
  BY <1>1, <1>4 DEF Approved, ItemStates
<1> QED BY <1>2, <1>3, <1>4, <1>5

(* Recovery leaves no item running: one with a receipt is complete, any    *)
(* other that is not idempotent waits for a reconciliation.                *)
LEMMA RecoveredItem ==
  ASSUME TypeOK, NEW i \in Items
  PROVE  /\ Recovery[i] \in ItemStates
         /\ Recovery[i].approval = Loaded[i].approval
         /\ Loaded[i].phase # "running" =>
               /\ Recovery[i].phase = Loaded[i].phase
               /\ Recovery[i].dependency = Loaded[i].dependency
         /\ Loaded[i].phase = "running" =>
               \/ Recovery[i].phase = "complete" /\ i \in disk.receipts
               \/ Recovery[i].phase = "runnable" /\ i \in Idempotent
               \/ /\ Recovery[i].phase = "waiting"
                  /\ Recovery[i].dependency = "reconciliation_required"
                  /\ i \notin disk.receipts
<1> DEFINE a == Loaded[i]
<1>1. a \in ItemStates
  BY LoadedItem
<1>2. Recovery[i] = Recovered(i, a, disk.receipts)
  BY DEF Recovery
<1> HIDE DEF a
<1>3. /\ Recovered(i, a, disk.receipts) \in ItemStates
      /\ Recovered(i, a, disk.receipts).approval = a.approval
      /\ a.phase # "running" => Recovered(i, a, disk.receipts) = a
  BY <1>1, NewestIsRank DEF Recovered, ItemStates, Phases, Facts
<1>4. ASSUME a.phase = "running"
      PROVE  \/ Recovery[i].phase = "complete" /\ i \in disk.receipts
             \/ Recovery[i].phase = "runnable" /\ i \in Idempotent
             \/ /\ Recovery[i].phase = "waiting"
                /\ Recovery[i].dependency = "reconciliation_required"
                /\ i \notin disk.receipts
  BY <1>1, <1>2, <1>4 DEF Recovered, ItemStates
<1> QED BY <1>1, <1>2, <1>3, <1>4 DEF a

(* An item whose wait is over becomes runnable, any other is left alone.   *)
LEMMA ReadyItem ==
  ASSUME TypeOK, NEW i \in Items
  PROVE  /\ Ready[i] \in ItemStates
         /\ Ready[i].approval = Recovery[i].approval
         /\ \/ Ready[i] = Recovery[i] /\ ~Wakes(i, Recovery[i])
            \/ Ready[i].phase = "runnable" /\ Wakes(i, Recovery[i])
<1> DEFINE a == Recovery[i]
<1>1. a \in ItemStates
  BY RecoveredItem
<1>2. Ready[i] = Rechecked(i, a)
  BY DEF Ready
<1> HIDE DEF a
<1>3. /\ Rechecked(i, a) \in ItemStates
      /\ Rechecked(i, a).approval = a.approval
      /\ \/ Rechecked(i, a) = a /\ ~Wakes(i, a)
         \/ Rechecked(i, a).phase = "runnable" /\ Wakes(i, a)
  BY <1>1, NewestIsRank DEF Rechecked, ItemStates, Phases, Facts
<1> QED BY <1>2, <1>3 DEF a

(* Whatever the handler answers, the outcome is a state of the item that   *)
(* says complete only if the answer did.                                   *)
LEMMA AppliedItem ==
  ASSUME NEW item \in ItemStates, NEW o \in Outcomes
  PROVE  /\ Applied(item, o) \in ItemStates
         /\ Applied(item, o).approval = item.approval
         /\ Applied(item, o).phase # "absent"
         /\ Applied(item, o).phase = "complete" <=> o.status = "complete"
         /\ Applied(item, o).phase # "running"
         /\ Applied(item, o).phase = "waiting" =>
               Applied(item, o).dependency # "reconciliation_required"
<1> DEFINE fails == o.status \notin {"complete", "waiting"}
           transient == o.status = "retry" \/ RetryClass(o) = "transient"
<1>0. /\ o.status \in {"complete", "waiting", "retry", "external", "failed"}
      /\ o.dependency \in Facts \cup {""} /\ o.dependency # "reconciliation_required"
      /\ (o.reason = "transient") \in BOOLEAN
  BY DEF Outcomes, Facts
<1>1. CASE o.status = "complete"
  BY <1>1 DEF Applied, ItemStates, Phases
<1>2. CASE o.status = "waiting"
  <2>1. Applied(item, o) = [item EXCEPT !.phase = "waiting", !.dependency = o.dependency]
    BY <1>2 DEF Applied
  <2> QED BY <1>0, <1>2, <2>1 DEF ItemStates, Phases
<1>3. CASE fails /\ transient
  <2>1. Applied(item, o) = IF item.attempts < MaxAttempts THEN [item EXCEPT !.phase = "retry_wait"]
            ELSE [item EXCEPT !.phase = "blocked", !.transient = (o.reason = "transient")]
    BY <1>3 DEF Applied
  <2> QED BY <1>0, <1>3, <2>1 DEF ItemStates, Phases
<1>4. CASE fails /\ ~transient
  <2>1. Applied(item, o) = IF RetryClass(o) = "external" \/ o.status = "external"
            THEN [item EXCEPT !.phase = "failed_external"]
            ELSE [item EXCEPT !.phase = "blocked", !.transient = (o.reason = "transient")]
    BY <1>4 DEF Applied
  <2> QED BY <1>0, <1>4, <2>1 DEF ItemStates, Phases
<1> QED BY <1>1, <1>2, <1>3, <1>4

-----------------------------------------------------------------------------
(* Type correctness.                                                       *)

\* A handler call is for an item, whose claim is in the state file, and the
\* items still to be run are runnable.
ControlOK ==
    /\ pc = "handler" => /\ cur \in Items \ batch
                         /\ disk = mem
                         /\ mem.items[cur].phase = "running"
    /\ \A i \in batch : mem.items[i].phase = "runnable"
    /\ pc = "idle" => batch = {} /\ mem = disk

TypeInv == TypeOK /\ ControlOK

(* The initial state is well typed.                                        *)
LEMMA TypeInit == Init => TypeInv
<1> SUFFICES ASSUME Init PROVE TypeInv
  OBVIOUS
<1>1. Absent \in ItemStates
  BY NewestIsRank, EngineAssumption DEF Absent, ItemStates, Phases, Facts, Decisions
<1>2. disk \in States /\ mem \in States
  BY <1>1 DEF Init, States
<1> QED BY <1>2, EngineAssumption DEF Init, TypeInv, TypeOK, ControlOK, Decisions

(* A cycle starts from the state file with well-typed, runnable items.     *)
LEMMA BeginType ==
  ASSUME TypeInv, NEW c \in Capacities, BeginCycle(c)
  PROVE  TypeInv'
<1>1. Ready \in [Items -> ItemStates]
  <2>1. Ready = [i \in Items |-> Ready[i]]
    BY DEF Ready
  <2> QED BY <2>1, ReadyItem DEF TypeInv
<1>2. mem' \in States /\ mem'.items = Ready /\ mem'.receipts = disk.receipts
  BY <1>1 DEF TypeInv, TypeOK, States, BeginCycle
<1>3. batch' \subseteq Items /\ \A i \in batch' : Ready[i].phase = "runnable"
  BY DEF BeginCycle, RunnableItems, Candidates
<1>4. TypeOK'
  BY <1>2, <1>3 DEF TypeInv, TypeOK, BeginCycle, inputs
<1>5. ControlOK'
  BY <1>2, <1>3 DEF BeginCycle, ControlOK
<1> QED BY <1>4, <1>5 DEF TypeInv

(* The claim of an item is saved well typed.                               *)
LEMMA ClaimType ==
  ASSUME TypeInv, NEW i \in Items, Claim(i)
  PROVE  /\ TypeInv'
         /\ mem'.receipts = mem.receipts
         /\ mem'.items[i].approval = mem.items[i].approval
         /\ \A j \in Items \ {i} : mem'.items[j] = mem.items[j]
<1> DEFINE old == mem.items[i]
           n == IF old.attempts < MaxAttempts THEN old.attempts + 1 ELSE old.attempts
           new == [old EXCEPT !.phase = "running", !.at = 0, !.attempts = n]
<1>1. mem.items \in [Items -> ItemStates] /\ mem.receipts \subseteq Items /\ old \in ItemStates
  BY DEF TypeInv, TypeOK, States
<1>2. n \in 0 .. MaxAttempts
  <2> HIDE DEF old
  <2>1. old.attempts \in 0 .. MaxAttempts
    BY <1>1 DEF ItemStates
  <2>2. MaxAttempts \in Nat
    BY EngineAssumption
  <2> QED BY <2>1, <2>2
<1>3. mem' = [mem EXCEPT !.items = [mem.items EXCEPT ![i] = new]]
  <2>1. mem \in States
    BY DEF TypeInv, TypeOK
  <2>2. mem' = [mem EXCEPT !.items[i].phase = "running", !.items[i].at = 0,
                           !.items[i].attempts = IF @ < MaxAttempts THEN @ + 1 ELSE @]
    BY DEF Claim
  <2>3. DOMAIN old = {"phase", "transient", "dependency", "attempts", "approval", "at"}
    BY <1>1 DEF ItemStates
  <2> QED BY <1>1, <2>1, <2>2, <2>3 DEF States
<1> HIDE DEF n
<1>4. new \in ItemStates /\ new.phase = "running" /\ new.approval = old.approval
  <2> HIDE DEF old
  <2>1. 0 \in 0 .. Newest
    BY NewestIsRank
  <2> QED BY <1>1, <1>2, <2>1 DEF ItemStates, Phases
<1> HIDE DEF new
<1>5. /\ mem' \in States
      /\ mem'.receipts = mem.receipts
      /\ mem'.items[i] = new
      /\ \A j \in Items \ {i} : mem'.items[j] = mem.items[j]
  BY <1>1, <1>3, <1>4 DEF TypeInv, TypeOK, States
<1>6. TypeOK'
  BY <1>5 DEF TypeInv, TypeOK, Claim, inputs
<1>7. ControlOK'
  BY <1>4, <1>5 DEF Claim, ControlOK, TypeInv, TypeOK
<1> QED BY <1>4, <1>5, <1>6, <1>7 DEF TypeInv

(* Skipping an item whose receipt is known keeps the types.                *)
LEMMA SkipType ==
  ASSUME TypeInv, NEW i \in Items, Skip(i)
  PROVE  /\ TypeInv'
         /\ mem'.receipts = mem.receipts
         /\ mem'.items[i].approval = mem.items[i].approval
         /\ mem'.items[i].phase = "complete"
         /\ \A j \in Items \ {i} : mem'.items[j] = mem.items[j]
<1> DEFINE old == mem.items[i]
           new == [old EXCEPT !.phase = "complete", !.at = 0]
<1>1. mem.items \in [Items -> ItemStates] /\ mem.receipts \subseteq Items /\ old \in ItemStates
  BY DEF TypeInv, TypeOK, States
<1>2. mem' = [mem EXCEPT !.items = [mem.items EXCEPT ![i] = new]]
  BY <1>1 DEF Skip, TypeInv, TypeOK, States, ItemStates
<1>3. new \in ItemStates /\ new.phase = "complete" /\ new.approval = old.approval
  <2> HIDE DEF old
  <2>1. 0 \in 0 .. Newest
    BY NewestIsRank
  <2> QED BY <1>1, <2>1 DEF ItemStates, Phases
<1> HIDE DEF new
<1>4. /\ mem' \in States
      /\ mem'.receipts = mem.receipts
      /\ mem'.items[i] = new
      /\ \A j \in Items \ {i} : mem'.items[j] = mem.items[j]
  BY <1>1, <1>2, <1>3 DEF TypeInv, TypeOK, States
<1>5. TypeOK'
  BY <1>4 DEF TypeInv, TypeOK, Skip, inputs
<1>6. ControlOK'
  BY <1>3, <1>4 DEF Skip, ControlOK, TypeInv, TypeOK
<1> QED BY <1>3, <1>4, <1>5, <1>6 DEF TypeInv

(* An answer's outcome is saved well typed.                                *)
LEMMA AnswerType ==
  ASSUME TypeInv, NEW o \in Outcomes, Answer(o)
  PROVE  /\ TypeInv'
         /\ mem'.receipts = IF o.receipt THEN mem.receipts \cup {cur} ELSE mem.receipts
         /\ mem'.items[cur] = Applied(mem.items[cur], o)
         /\ \A j \in Items \ {cur} : mem'.items[j] = mem.items[j]
<1> DEFINE new == Applied(mem.items[cur], o)
<1>1. mem.items \in [Items -> ItemStates] /\ mem.receipts \subseteq Items /\ cur \in Items \ batch
  BY DEF TypeInv, TypeOK, States, ControlOK, Answer
<1>2. new \in ItemStates
  BY <1>1, AppliedItem
<1>3. /\ mem'.items = [mem.items EXCEPT ![cur] = new]
      /\ mem'.receipts = IF o.receipt THEN mem.receipts \cup {cur} ELSE mem.receipts
      /\ mem' = [items |-> mem'.items, receipts |-> mem'.receipts]
  BY <1>1 DEF Answer
<1> HIDE DEF new
<1>4. /\ mem' \in States
      /\ mem'.items[cur] = new
      /\ \A j \in Items \ {cur} : mem'.items[j] = mem.items[j]
  <2>1. mem'.items \in [Items -> ItemStates] /\ mem'.receipts \subseteq Items
    BY <1>1, <1>2, <1>3
  <2> QED BY <1>1, <1>2, <1>3, <2>1 DEF States
<1>5. effects' \in [Items -> 0..2]
  BY <1>1 DEF Answer, Effected, TypeInv, TypeOK
<1>6. TypeOK'
  BY <1>4, <1>5 DEF TypeInv, TypeOK, Answer, inputs
<1>7. ControlOK'
  BY <1>1, <1>4 DEF Answer, ControlOK, TypeInv, TypeOK
<1> QED BY <1>3, <1>4, <1>6, <1>7 DEF TypeInv, new

(* A kill leaves the state file and what the dead process may have done.   *)
LEMMA DieType ==
  ASSUME TypeInv, Die
  PROVE  TypeInv' /\ mem' = disk /\ disk' = disk
<1>1. effects' \in [Items -> 0..2]
  <2>1. CASE effects' = effects
    BY <2>1 DEF TypeInv, TypeOK
  <2>2. CASE pc = "handler" /\ effects' = Effected(cur)
    BY <2>2 DEF TypeInv, TypeOK, ControlOK, Effected
  <2> QED BY <2>1, <2>2 DEF Die
<1>2. faults' \in 0 .. MaxFaults
  BY EngineAssumption DEF Die, TypeInv, TypeOK
<1>3. TypeOK'
  BY <1>1, <1>2 DEF TypeInv, TypeOK, Die, inputs, Decisions
<1>4. ControlOK'
  BY DEF Die, ControlOK
<1> QED BY <1>3, <1>4 DEF TypeInv, Die

\* The steps that leave both copies of the state, the cycle and what took
\* effect alone: they write an input file or let time pass.
InputStep ==
    /\ UNCHANGED <<disk, mem, pc, cur, batch, effects, reconciled, faults>>
    /\ listed' \subseteq Items /\ facts' \subseteq Facts /\ due' \subseteq Items
    /\ pc # "idle" => facts' = facts
    /\ \/ UNCHANGED <<approvals, late>>
       \/ \E i \in Items, d \in {"approve", "deny"} :
             /\ approvals' = [approvals EXCEPT ![i] = d]
             /\ late' = IF pc = "idle" THEN late ELSE late \cup {i}

(* What Next may do, with the steps of the environment under one head.     *)
LEMMA NextCases ==
  ASSUME TypeOK, [Next]_vars
  PROVE  \/ \E c \in Capacities : BeginCycle(c)
         \/ EndCycle
         \/ \E i \in Items : Claim(i)
         \/ \E i \in Items : Skip(i)
         \/ \E o \in Outcomes : Answer(o)
         \/ Die
         \/ InputStep
<1>1. ASSUME NEW i \in Items, ListWork(i) PROVE InputStep
  BY <1>1 DEF ListWork, InputStep, TypeOK
<1>2. ASSUME NEW i \in Items, Elapse(i) PROVE InputStep
  BY <1>2 DEF Elapse, InputStep, TypeOK, inputs
<1>3. ASSUME NEW i \in Items, NEW d \in {"approve", "deny"}, Decide(i, d) PROVE InputStep
  BY <1>3 DEF Decide, InputStep, TypeOK
<1>4. ASSUME NEW f \in Facts, SetFact(f) PROVE InputStep
  BY <1>4 DEF SetFact, InputStep, TypeOK
<1>5. ASSUME UNCHANGED vars PROVE InputStep
  BY <1>5 DEF vars, InputStep, TypeOK
<1> QED BY <1>1, <1>2, <1>3, <1>4, <1>5 DEF Next, Step

(* Every step keeps the types.                                             *)
LEMMA TypeStep == TypeInv /\ [Next]_vars => TypeInv'
<1> SUFFICES ASSUME TypeInv, [Next]_vars PROVE TypeInv'
  OBVIOUS
<1>1. ASSUME EndCycle PROVE TypeInv'
  <2>1. TypeOK'
    BY <1>1 DEF EndCycle, TypeInv, TypeOK, inputs, Decisions
  <2>2. ControlOK'
    BY <1>1 DEF EndCycle, TypeInv, ControlOK
  <2> QED BY <2>1, <2>2 DEF TypeInv
<1>2. ASSUME InputStep PROVE TypeInv'
  <2>1. approvals' \in [Items -> Decisions]
    BY <1>2 DEF InputStep, TypeInv, TypeOK, Decisions
  <2>2. TypeOK'
    BY <1>2, <2>1 DEF InputStep, TypeInv, TypeOK
  <2>3. ControlOK'
    BY <1>2 DEF InputStep, TypeInv, ControlOK
  <2> QED BY <2>2, <2>3 DEF TypeInv
<1> QED BY <1>1, <1>2, NextCases, BeginType, ClaimType, SkipType, AnswerType, DieType DEF TypeInv

(* The engine's state, on disk and in memory, is well typed in every       *)
(* reachable state (load_state and the shape of the state file).           *)
THEOREM TypeCorrect == Spec => []TypeOK
<1>1. Spec => []TypeInv
  BY TypeInit, TypeStep, PTL DEF Spec
<1>2. TypeInv => TypeOK
  BY DEF TypeInv
<1> QED BY <1>1, <1>2, PTL

-----------------------------------------------------------------------------
(* What is recorded happened.                                              *)

\* A state calls complete, or holds a receipt of, only what took effect.
Real(d) ==
    \A i \in Items : d.items[i].phase = "complete" \/ i \in d.receipts => effects[i] > 0

RealInv == Real(disk) /\ Real(mem)

(* Nothing is recorded at first.                                           *)
LEMMA RealInit == Init => RealInv
<1> SUFFICES ASSUME Init PROVE RealInv
  OBVIOUS
<1>1. disk.items = [i \in Items |-> Absent] /\ disk.receipts = {} /\ mem = disk
  BY DEF Init
<1>2. Absent.phase = "absent"
  BY DEF Absent
<1> QED BY <1>1, <1>2 DEF RealInv, Real

(* An effect is never undone.                                              *)
LEMMA EffectsGrow ==
  ASSUME TypeInv, NEW i \in Items,
         \/ effects' = effects
         \/ cur \in Items /\ effects' = Effected(cur)
  PROVE  effects'[i] >= effects[i] /\ (effects' = Effected(i) => effects'[i] > 0)
BY DEF TypeInv, TypeOK, Effected

(* A complete item was complete before, or had its receipt: recovery       *)
(* (execute_cycle) does not take an interrupted action for done.           *)
LEMMA CycleKeepsReal ==
  ASSUME TypeInv, Real(disk), NEW i \in Items, Ready[i].phase = "complete"
  PROVE  effects[i] > 0
<1>1. Recovery[i].phase = "complete"
  BY ReadyItem DEF TypeInv
<1>2. Loaded[i].phase = "complete" \/ i \in disk.receipts
  BY <1>1, RecoveredItem DEF TypeInv
<1>3. disk.items[i].phase = "complete" \/ i \in disk.receipts
  BY <1>2, LoadedItem DEF TypeInv
<1> QED BY <1>3 DEF Real

(* Every step keeps the records real.                                      *)
LEMMA RealStep == TypeInv /\ RealInv /\ [Next]_vars => RealInv'
<1> SUFFICES ASSUME TypeInv, RealInv, [Next]_vars PROVE RealInv'
  OBVIOUS
<1>1. ASSUME NEW c \in Capacities, BeginCycle(c) PROVE RealInv'
  <2>1. mem'.items = Ready /\ mem'.receipts = disk.receipts /\ effects' = effects /\ disk' = disk
    BY <1>1 DEF BeginCycle, TypeInv, TypeOK, States
  <2> QED BY <2>1, CycleKeepsReal DEF RealInv, Real
<1>2. ASSUME EndCycle PROVE RealInv'
  BY <1>2 DEF EndCycle, RealInv, Real
<1>3. ASSUME NEW i \in Items, Claim(i) PROVE RealInv'
  <2>1. mem'.items[i].phase = "running" /\ disk' = mem' /\ effects' = effects
    BY <1>3, ClaimType DEF Claim, TypeInv, ControlOK
  <2> QED BY <1>3, <2>1, ClaimType DEF RealInv, Real
<1>4. ASSUME NEW i \in Items, Skip(i) PROVE RealInv'
  <2>1. i \in mem.receipts /\ disk' = disk /\ effects' = effects
    BY <1>4 DEF Skip
  <2> QED BY <1>4, <2>1, SkipType DEF RealInv, Real
<1>5. ASSUME NEW o \in Outcomes, Answer(o) PROVE RealInv'
  <2>1. cur \in Items /\ mem.items[cur] \in ItemStates /\ disk' = mem'
    BY <1>5 DEF Answer, TypeInv, ControlOK, TypeOK, States
  <2>2. effects' = IF TookEffect(o) THEN Effected(cur) ELSE effects
    BY <1>5 DEF Answer
  <2>3. \A j \in Items : effects'[j] >= effects[j] /\ (effects' = Effected(j) => effects'[j] > 0)
    BY <2>1, <2>2, EffectsGrow
  <2>4. \A j \in Items : effects[j] \in 0..2 /\ effects'[j] \in 0..2
    BY <1>5, AnswerType DEF TypeInv, TypeOK
  <2>5. ASSUME NEW j \in Items, mem'.items[j].phase = "complete" \/ j \in mem'.receipts
        PROVE  effects'[j] > 0
    <3>1. CASE j = cur
      <4>1. TookEffect(o) \/ cur \in mem.receipts
        BY <1>5, <2>1, <2>5, <3>1, AnswerType, AppliedItem DEF TookEffect
      <4>2. CASE TookEffect(o)
        BY <2>1, <2>2, <2>3, <3>1, <4>2
      <4>3. CASE cur \in mem.receipts
        <5>1. effects[j] > 0
          BY <2>1, <3>1, <4>3 DEF RealInv, Real
        <5> QED BY <5>1, <2>3, <2>4
      <4> QED BY <4>1, <4>2, <4>3
    <3>2. CASE j # cur
      <4>1. mem.items[j].phase = "complete" \/ j \in mem.receipts
        BY <1>5, <2>5, <3>2, AnswerType
      <4>2. effects[j] > 0
        BY <4>1 DEF RealInv, Real
      <4> QED BY <4>2, <2>3, <2>4
    <3> QED BY <3>1, <3>2
  <2> QED BY <2>1, <2>5 DEF RealInv, Real
<1>6. ASSUME Die PROVE RealInv'
  <2>1. \/ effects' = effects
        \/ cur \in Items /\ effects' = Effected(cur)
    BY <1>6 DEF Die, TypeInv, ControlOK
  <2>2. \A j \in Items : effects'[j] >= effects[j] /\ effects[j] \in 0..2 /\ effects'[j] \in 0..2
    BY <1>6, <2>1, EffectsGrow, DieType DEF TypeInv, TypeOK
  <2>3. \A j \in Items : effects[j] > 0 => effects'[j] > 0
    BY <2>2
  <2> QED BY <1>6, <2>3, DieType DEF RealInv, Real
<1>7. ASSUME InputStep PROVE RealInv'
  BY <1>7 DEF InputStep, RealInv, Real
<1> QED BY <1>1, <1>2, <1>3, <1>4, <1>5, <1>6, <1>7, NextCases DEF TypeInv

(* Work the state file calls complete, and work with a receipt, took       *)
(* effect: kills, lost answers and recovery never make it up.              *)
THEOREM CompletionIsReal == Spec => []CompleteIsReal
<1>1. Spec => [](TypeInv /\ RealInv)
  BY TypeInit, TypeStep, RealInit, RealStep, PTL DEF Spec
<1>2. RealInv => CompleteIsReal
  BY DEF RealInv, Real, CompleteIsReal
<1> QED BY <1>1, <1>2, PTL

-----------------------------------------------------------------------------
(* What took effect is not run again.                                      *)

\* Marks that keep a cycle from running an item again: it is done, has its
\* receipt, was claimed and not finished, or waits for a reconciliation.
Barred(d, i) ==
    \/ d.items[i].phase \in {"running", "complete"}
    \/ d.items[i].phase = "waiting" /\ d.items[i].dependency = "reconciliation_required"
    \/ i \in d.receipts

\* What may not be repeated took effect once at most, and then both copies of
\* the state bar it; the action of a handler call under way is still to come.
OnceInv ==
    \A i \in (Items \ Idempotent) \ reconciled :
        /\ effects[i] <= 1
        /\ effects[i] > 0 => Barred(disk, i) /\ Barred(mem, i)
        /\ pc = "handler" /\ cur = i => effects[i] = 0

(* Nothing took effect at first.                                           *)
LEMMA OnceInit == Init => OnceInv
BY DEF Init, OnceInv

(* A cycle keeps the mark of barred work: after a kill it waits for a      *)
(* reconciliation, and only the reconciliation fact makes it runnable.     *)
LEMMA CycleKeepsBarred ==
  ASSUME TypeInv, NEW i \in Items \ Idempotent, Barred(disk, i),
         ~ (/\ Recovery[i].phase = "waiting"
            /\ Recovery[i].dependency = "reconciliation_required"
            /\ "reconciliation_required" \in facts)
  PROVE  \/ Ready[i].phase = "complete"
         \/ Ready[i].phase = "waiting" /\ Ready[i].dependency = "reconciliation_required"
         \/ i \in disk.receipts
<1> SUFFICES ASSUME i \notin disk.receipts
             PROVE  \/ Ready[i].phase = "complete"
                    \/ /\ Ready[i].phase = "waiting"
                       /\ Ready[i].dependency = "reconciliation_required"
  OBVIOUS
<1>1. /\ Loaded[i].phase = disk.items[i].phase
      /\ Loaded[i].dependency = disk.items[i].dependency
  BY LoadedItem DEF TypeInv, Barred
<1>2. \/ Recovery[i].phase = "complete"
      \/ Recovery[i].phase = "waiting" /\ Recovery[i].dependency = "reconciliation_required"
  BY <1>1, RecoveredItem DEF TypeInv, Barred
<1>3. ~Wakes(i, Recovery[i])
  BY <1>2 DEF Wakes
<1> QED BY <1>2, <1>3, ReadyItem DEF TypeInv

(* Every step keeps what took effect barred.                               *)
LEMMA OnceStep == TypeInv /\ RealInv /\ OnceInv /\ [Next]_vars => OnceInv'
<1> SUFFICES ASSUME TypeInv, RealInv, OnceInv, [Next]_vars,
                    NEW i \in Items \ Idempotent, i \notin reconciled'
             PROVE  /\ effects'[i] <= 1
                    /\ effects'[i] > 0 => Barred(disk, i)' /\ Barred(mem, i)'
                    /\ pc' = "handler" /\ cur' = i => effects'[i] = 0
  BY DEF OnceInv
<1> DEFINE Goal == /\ effects'[i] <= 1
                   /\ effects'[i] > 0 => Barred(disk, i)' /\ Barred(mem, i)'
                   /\ pc' = "handler" /\ cur' = i => effects'[i] = 0
<1>0. effects[i] \in 0..2
  BY DEF TypeInv, TypeOK
<1>1. ASSUME NEW c \in Capacities, BeginCycle(c) PROVE Goal
  <2>1. /\ mem'.items = Ready /\ mem'.receipts = disk.receipts
        /\ effects' = effects /\ disk' = disk /\ pc' = "items"
    BY <1>1 DEF BeginCycle, TypeInv, TypeOK, States
  <2>2. /\ i \notin reconciled
        /\ ~ (/\ Recovery[i].phase = "waiting"
              /\ Recovery[i].dependency = "reconciliation_required"
              /\ "reconciliation_required" \in facts)
    BY <1>1 DEF BeginCycle
  <2>3. effects[i] > 0 => Barred(mem, i)'
    BY <2>1, <2>2, CycleKeepsBarred DEF OnceInv, Barred
  <2> QED BY <2>1, <2>2, <2>3 DEF OnceInv, Barred
<1>2. ASSUME EndCycle PROVE Goal
  BY <1>2 DEF EndCycle, OnceInv, Barred
<1>3. ASSUME NEW j \in Items, Claim(j) PROVE Goal
  <2>1. /\ effects' = effects /\ disk' = mem' /\ cur' = j /\ i \notin reconciled
        /\ mem'.items[j].phase = "running"
        /\ j \in batch /\ j \notin mem.receipts /\ mem.items[j].phase = "runnable"
    BY <1>3, ClaimType DEF Claim, First, TypeInv, ControlOK
  <2>2. CASE i = j
    <3>1. ~Barred(mem, i)
      BY <2>1, <2>2 DEF Barred
    <3> QED BY <1>0, <2>1, <2>2, <3>1 DEF OnceInv, Barred
  <2>3. CASE i # j
    BY <1>3, <2>1, <2>3, ClaimType DEF OnceInv, Barred
  <2> QED BY <2>2, <2>3
<1>4. ASSUME NEW j \in Items, Skip(j) PROVE Goal
  <2>1. /\ effects' = effects /\ disk' = disk /\ i \notin reconciled
        /\ pc' = "items" /\ j \in mem.receipts
    BY <1>4 DEF Skip
  <2> QED BY <1>4, <2>1, SkipType DEF OnceInv, Barred
<1>5. ASSUME NEW o \in Outcomes, Answer(o) PROVE Goal
  <2>1. /\ pc = "handler" /\ pc' = "items" /\ i \notin reconciled
        /\ cur \in Items /\ mem.items[cur] \in ItemStates /\ disk' = mem'
        /\ effects' = IF TookEffect(o) THEN Effected(cur) ELSE effects
    BY <1>5 DEF Answer, TypeInv, ControlOK, TypeOK, States
  <2>2. CASE i = cur
    <3>1. effects[i] = 0
      BY <2>1, <2>2 DEF OnceInv
    <3>2. CASE TookEffect(o)
      <4>1. effects'[i] = 1
        BY <2>1, <2>2, <3>1, <3>2 DEF Effected, TypeInv, TypeOK
      <4>2. mem'.items[i].phase = "complete" \/ i \in mem'.receipts
        BY <1>5, <2>1, <2>2, <3>2, AnswerType, AppliedItem DEF TookEffect
      <4> QED BY <2>1, <4>1, <4>2 DEF Barred
    <3>3. CASE ~TookEffect(o)
      BY <2>1, <3>1, <3>3
    <3> QED BY <3>2, <3>3
  <2>3. CASE i # cur
    <3>1. effects'[i] = effects[i]
      BY <2>1, <2>3 DEF Effected, TypeInv, TypeOK
    <3>2. mem'.items[i] = mem.items[i] /\ (i \in mem.receipts => i \in mem'.receipts)
      BY <1>5, <2>3, AnswerType
    <3> QED BY <2>1, <3>1, <3>2 DEF OnceInv, Barred
  <2> QED BY <2>2, <2>3
<1>6. ASSUME Die PROVE Goal
  <2>1. mem' = disk /\ disk' = disk /\ i \notin reconciled /\ pc' = "idle"
    BY <1>6 DEF Die
  <2>2. CASE effects' = effects
    BY <2>1, <2>2 DEF OnceInv, Barred
  <2>3. CASE pc = "handler" /\ effects' = Effected(cur)
    <3>1. CASE i = cur
      <4>1. effects'[i] = 1
        BY <2>1, <2>3, <3>1 DEF Effected, TypeInv, TypeOK, OnceInv
      <4>2. Barred(disk, i)
        BY <2>3, <3>1 DEF TypeInv, ControlOK, Barred
      <4> QED BY <2>1, <4>1, <4>2 DEF Barred
    <3>2. CASE i # cur
      <4>1. effects'[i] = effects[i]
        BY <2>3, <3>2 DEF Effected, TypeInv, TypeOK
      <4> QED BY <2>1, <4>1 DEF OnceInv, Barred
    <3> QED BY <3>1, <3>2
  <2> QED BY <1>6, <2>2, <2>3 DEF Die
<1>7. ASSUME InputStep PROVE Goal
  BY <1>7 DEF InputStep, OnceInv, Barred
<1> QED BY <1>1, <1>2, <1>3, <1>4, <1>5, <1>6, <1>7, NextCases DEF TypeInv

(* An action that is not idempotent takes effect at most once unless the   *)
(* reconciliation fact released it: a killed handler call, a receipt with  *)
(* an answer that failed, a lost checkpoint do not repeat it.              *)
THEOREM NothingIsRerunBlindly == Spec => []NoBlindRerun
<1>1. Spec => [](TypeInv /\ RealInv /\ OnceInv)
  BY TypeInit, TypeStep, RealInit, RealStep, OnceInit, OnceStep, PTL DEF Spec
<1>2. TypeInv /\ OnceInv => NoBlindRerun
  <2> SUFFICES ASSUME TypeInv, OnceInv, NEW i \in Items \ Idempotent, i \notin reconciled
               PROVE  ~(effects[i] > 1)
    BY DEF NoBlindRerun
  <2>1. effects[i] \in 0..2 /\ effects[i] <= 1
    BY DEF TypeInv, TypeOK, OnceInv
  <2> QED BY <2>1
<1> QED BY <1>1, <1>2, PTL

-----------------------------------------------------------------------------
(* What was denied is not run.                                             *)

\* A recorded decision comes from the approvals file, which never loses one,
\* and what a cycle has selected is approved in the file, unless it was decided
\* again since the cycle read it.
ApprovalInv ==
    /\ \A i \in Items : /\ disk.items[i].approval # "none" => approvals[i] # "none"
                        /\ mem.items[i].approval # "none" => approvals[i] # "none"
    /\ \A i \in batch \cap NeedsApproval : approvals[i] = "approve" \/ i \in late
    /\ pc = "handler" /\ cur \in NeedsApproval => approvals[cur] = "approve" \/ cur \in late

(* No decision is recorded at first.                                       *)
LEMMA ApprovalInit == Init => ApprovalInv
<1> SUFFICES ASSUME Init PROVE ApprovalInv
  OBVIOUS
<1>1. disk.items = [i \in Items |-> Absent] /\ mem = disk /\ batch = {} /\ pc = "idle"
  BY DEF Init
<1>2. Absent.approval = "none"
  BY DEF Absent
<1> QED BY <1>1, <1>2 DEF ApprovalInv

(* Every step keeps the decisions.                                         *)
LEMMA ApprovalStep == TypeInv /\ ApprovalInv /\ [Next]_vars => ApprovalInv'
<1> SUFFICES ASSUME TypeInv, ApprovalInv, [Next]_vars PROVE ApprovalInv'
  OBVIOUS
<1>1. ASSUME NEW c \in Capacities, BeginCycle(c) PROVE ApprovalInv'
  <2>1. /\ mem'.items = Ready /\ disk' = disk /\ approvals' = approvals /\ pc' = "items"
        /\ batch' = RunnableItems(Ready, c)
    BY <1>1 DEF BeginCycle, TypeInv, TypeOK, States, inputs
  <2>2. \A i \in Items : Ready[i].approval # "none" => approvals[i] # "none"
    BY ReadyItem, RecoveredItem, LoadedItem DEF TypeInv, ApprovalInv
  <2>3. ASSUME NEW i \in batch' \cap NeedsApproval PROVE approvals'[i] = "approve"
    <3>1. i \in Items /\ Ready[i].phase = "runnable" /\ Ready[i].approval = "approve"
      BY <2>1, <2>3 DEF RunnableItems, Candidates, ApprovalSatisfied
    <3>2. Loaded[i].phase # "absent"
      <4>1. Recovery[i].phase # "absent"
        BY <3>1, ReadyItem DEF TypeInv, Wakes
      <4> QED BY <3>1, <4>1, RecoveredItem DEF TypeInv
    <3>3. Ready[i].approval = Loaded[i].approval
      BY <3>1, ReadyItem, RecoveredItem DEF TypeInv
    <3>4. approvals[i] # "none"
      BY <2>2, <3>1
    <3> QED BY <2>1, <3>1, <3>2, <3>3, <3>4, LoadedItem DEF TypeInv
  <2> QED BY <2>1, <2>2, <2>3 DEF ApprovalInv
<1>2. ASSUME EndCycle PROVE ApprovalInv'
  BY <1>2 DEF EndCycle, ApprovalInv, inputs
<1>3. ASSUME NEW i \in Items, Claim(i) PROVE ApprovalInv'
  <2>1. /\ approvals' = approvals /\ late' = late /\ disk' = mem' /\ cur' = i
        /\ batch' \subseteq batch /\ i \in batch
    BY <1>3 DEF Claim, First, inputs
  <2>2. \A j \in Items : mem'.items[j].approval = mem.items[j].approval
    BY <1>3, ClaimType
  <2>3. \A j \in batch \cap NeedsApproval : approvals'[j] = "approve" \/ j \in late'
    BY <2>1 DEF ApprovalInv
  <2> QED BY <2>1, <2>2, <2>3 DEF ApprovalInv
<1>4. ASSUME NEW i \in Items, Skip(i) PROVE ApprovalInv'
  <2>1. /\ approvals' = approvals /\ late' = late /\ disk' = disk /\ pc' = "items"
        /\ batch' \subseteq batch
    BY <1>4 DEF Skip, inputs
  <2> QED BY <1>4, <2>1, SkipType DEF ApprovalInv
<1>5. ASSUME NEW o \in Outcomes, Answer(o) PROVE ApprovalInv'
  <2>1. /\ approvals' = approvals /\ late' = late /\ disk' = mem' /\ pc' = "items"
        /\ batch' = batch /\ cur \in Items /\ mem.items[cur] \in ItemStates
    BY <1>5 DEF Answer, inputs, TypeInv, ControlOK, TypeOK, States
  <2>2. \A j \in Items : mem'.items[j].approval = mem.items[j].approval
    BY <1>5, <2>1, AnswerType, AppliedItem
  <2> QED BY <2>1, <2>2 DEF ApprovalInv
<1>6. ASSUME Die PROVE ApprovalInv'
  BY <1>6 DEF Die, ApprovalInv, inputs
<1>7. ASSUME InputStep PROVE ApprovalInv'
  <2>1. \A i \in Items : approvals[i] # "none" => approvals'[i] # "none"
    BY <1>7 DEF InputStep, TypeInv, TypeOK
  <2>2. UNCHANGED <<disk, mem, pc, cur, batch>>
    BY <1>7 DEF InputStep
  <2>3. ASSUME NEW i \in Items, pc # "idle", approvals[i] = "approve" \/ i \in late
        PROVE  approvals'[i] = "approve" \/ i \in late'
    <3>1. CASE UNCHANGED <<approvals, late>>
      BY <2>3, <3>1
    <3>2. ASSUME NEW j \in Items, NEW d \in {"approve", "deny"},
                 approvals' = [approvals EXCEPT ![j] = d], late' = late \cup {j}
          PROVE  approvals'[i] = "approve" \/ i \in late'
      <4>1. CASE i = j
        BY <3>2, <4>1
      <4>2. CASE i # j
        <5>1. approvals'[i] = approvals[i]
          BY <3>2, <4>2 DEF TypeInv, TypeOK
        <5> QED BY <2>3, <3>2, <5>1
      <4> QED BY <4>1, <4>2
    <3> QED BY <1>7, <2>3, <3>1, <3>2 DEF InputStep
  <2>4. \A i \in batch' \cap NeedsApproval : approvals'[i] = "approve" \/ i \in late'
    BY <2>2, <2>3 DEF ApprovalInv, TypeInv, ControlOK, TypeOK
  <2>5. pc' = "handler" /\ cur' \in NeedsApproval => approvals'[cur'] = "approve" \/ cur' \in late'
    BY <2>2, <2>3 DEF ApprovalInv, TypeInv, ControlOK
  <2>6. \A i \in Items : /\ disk'.items[i].approval # "none" => approvals'[i] # "none"
                         /\ mem'.items[i].approval # "none" => approvals'[i] # "none"
    BY <2>1, <2>2 DEF ApprovalInv
  <2> QED BY <2>4, <2>5, <2>6 DEF ApprovalInv
<1> QED BY <1>1, <1>2, <1>3, <1>4, <1>5, <1>6, <1>7, NextCases DEF TypeInv

(* The handler is called only for work whose decision in the file is an    *)
(* approval, not for one approved earlier and denied since, unless that    *)
(* decision came after the cycle's one look at the file                    *)
(* (ingest_teams_approvals).                                               *)
THEOREM DenialsStopWork == Spec => []DeniedStaysOff
<1>1. Spec => [](TypeInv /\ ApprovalInv)
  BY TypeInit, TypeStep, ApprovalInit, ApprovalStep, PTL DEF Spec
<1>2. ApprovalInv => DeniedStaysOff
  BY DEF ApprovalInv, DeniedStaysOff
<1> QED BY <1>1, <1>2, PTL
-----------------------------------------------------------------------------
(* The engine keeps the promise of ReconciledAction.                       *)

Done(d, i) == i \in d.receipts \/ d.items[i].phase = "complete"

Waits(d, i) ==
    d.items[i].phase = "waiting" /\ d.items[i].dependency = "reconciliation_required"

Unsure(d, i) == ~Done(d, i) /\ (d.items[i].phase = "running" \/ Waits(d, i))

Released(i) ==
    i \in Idempotent \/ ("reconciliation_required" \in facts /\ i \in reconciled)

\* What the next checkpoint of a cycle may make of an item: nothing that the
\* state file calls done, failed or unsure is made open, but what was released.
Follows(i) ==
    /\ mem.items[i].phase # "running"
    /\ Done(mem, i) <=> Done(disk, i)
    /\ ~Done(disk, i) =>
          (mem.items[i].phase = "failed_external" <=> disk.items[i].phase = "failed_external")
    /\ Waits(mem, i) => Unsure(disk, i)
    /\ Unsure(disk, i) /\ ~Waits(mem, i) => Released(i)

\* Work with a receipt does not wait for a reconciliation, a handler call is for
\* work without one, and memory follows the state file between two items.
SaveInv ==
    /\ \A i \in Items : /\ Waits(disk, i) => i \notin disk.receipts
                        /\ Waits(mem, i) => i \notin mem.receipts
    /\ mem.receipts = disk.receipts
    /\ pc = "items" => \A i \in Items : Follows(i)
    /\ pc = "handler" => /\ cur \notin disk.receipts
                         /\ \A i \in Items \ {cur} : mem.items[i].phase # "running"

(* Nothing is recorded at first.                                           *)
LEMMA SaveInit == Init => SaveInv
<1> SUFFICES ASSUME Init PROVE SaveInv
  OBVIOUS
<1>1. /\ disk.items = [i \in Items |-> Absent] /\ disk.receipts = {} /\ mem = disk
      /\ pc = "idle"
  BY DEF Init
<1> QED BY <1>1 DEF SaveInv

(* What a cycle makes of the items of the state file, before it runs any.  *)
LEMMA CycleFollows ==
  ASSUME TypeInv, SaveInv, NEW c \in Capacities, BeginCycle(c), NEW i \in Items
  PROVE  Follows(i)' /\ (Waits(mem, i)' => i \notin disk.receipts)
<1>1. /\ mem'.items = Ready /\ mem'.receipts = disk.receipts /\ disk' = disk /\ facts' = facts
      /\ reconciled' = reconciled \cup
            {j \in Items : /\ Recovery[j].phase = "waiting"
                           /\ Recovery[j].dependency = "reconciliation_required"
                           /\ "reconciliation_required" \in facts}
  BY DEF BeginCycle, TypeInv, TypeOK, States, inputs
<1>2. \/ Ready[i] = Recovery[i] /\ ~Wakes(i, Recovery[i])
      \/ Ready[i].phase = "runnable" /\ Wakes(i, Recovery[i])
  BY ReadyItem DEF TypeInv
<1>3. /\ disk.items[i].phase # "absent" =>
             /\ Loaded[i].phase = disk.items[i].phase
             /\ Loaded[i].dependency = disk.items[i].dependency
      /\ disk.items[i].phase = "absent" => Loaded[i].phase \in {"absent", "waiting", "runnable"}
      /\ disk.items[i].phase = "absent" /\ Loaded[i].phase = "waiting" =>
             Loaded[i].dependency = "dependency"
  BY LoadedItem DEF TypeInv
<1>4. /\ Loaded[i].phase # "running" =>
             /\ Recovery[i].phase = Loaded[i].phase
             /\ Recovery[i].dependency = Loaded[i].dependency
      /\ Loaded[i].phase = "running" =>
             \/ Recovery[i].phase = "complete" /\ i \in disk.receipts
             \/ Recovery[i].phase = "runnable" /\ i \in Idempotent
             \/ /\ Recovery[i].phase = "waiting"
                /\ Recovery[i].dependency = "reconciliation_required"
                /\ i \notin disk.receipts
  BY RecoveredItem DEF TypeInv
<1>5. Waits(disk, i) => i \notin disk.receipts
  BY DEF SaveInv
<1>6. /\ Ready[i].phase # "running"
      /\ Ready[i].phase = "complete" => Done(disk, i)
      /\ disk.items[i].phase = "complete" => Ready[i].phase = "complete"
      /\ Ready[i].phase = "failed_external" <=> disk.items[i].phase = "failed_external"
  BY <1>2, <1>3, <1>4 DEF Wakes, Done
<1>7. ASSUME Waits(mem, i)' PROVE Unsure(disk, i)
  <2>1. Recovery[i].phase = "waiting" /\ Recovery[i].dependency = "reconciliation_required"
    BY <1>1, <1>2, <1>7 DEF Waits
  <2>2. \/ Loaded[i].phase = "running" /\ i \notin disk.receipts
        \/ Loaded[i].phase = "waiting" /\ Loaded[i].dependency = "reconciliation_required"
    BY <1>4, <2>1
  <2> QED BY <1>3, <1>5, <2>2 DEF Unsure, Waits, Done
<1>8. ASSUME Unsure(disk, i), ~Waits(mem, i)' PROVE Released(i)'
  <2>1. \/ Recovery[i].phase = "runnable" /\ i \in Idempotent
        \/ Recovery[i].phase = "waiting" /\ Recovery[i].dependency = "reconciliation_required"
    BY <1>3, <1>4, <1>8 DEF Unsure, Done, Waits
  <2>2. ASSUME Recovery[i].phase = "waiting", Recovery[i].dependency = "reconciliation_required"
        PROVE  "reconciliation_required" \in facts
    <3>1. Wakes(i, Recovery[i])
      BY <1>1, <1>2, <1>8, <2>2 DEF Waits
    <3> QED BY <2>2, <3>1 DEF Wakes
  <2> QED BY <1>1, <2>1, <2>2 DEF Released
<1>9. Follows(i)'
  BY <1>1, <1>6, <1>7, <1>8 DEF Follows, Done, Unsure, Waits
<1> QED BY <1>7, <1>9 DEF Unsure, Done

(* Every step keeps memory in line with the state file.                    *)
LEMMA SaveStep == TypeInv /\ SaveInv /\ [Next]_vars => SaveInv'
<1> SUFFICES ASSUME TypeInv, SaveInv, [Next]_vars PROVE SaveInv'
  OBVIOUS
<1>1. ASSUME NEW c \in Capacities, BeginCycle(c) PROVE SaveInv'
  <2>1. mem'.receipts = disk.receipts /\ disk' = disk /\ pc' = "items"
    BY <1>1 DEF BeginCycle, TypeInv, TypeOK, States
  <2> QED BY <1>1, <2>1, CycleFollows DEF SaveInv, Waits
<1>2. ASSUME EndCycle PROVE SaveInv'
  BY <1>2 DEF EndCycle, SaveInv, Waits
<1>3. ASSUME NEW i \in Items, Claim(i) PROVE SaveInv'
  <2>1. /\ mem'.items[i].phase = "running" /\ disk' = mem' /\ pc' = "handler" /\ cur' = i
        /\ i \notin mem.receipts /\ pc = "items"
    BY <1>3, ClaimType DEF Claim, TypeInv, ControlOK
  <2>2. mem'.receipts = mem.receipts /\ \A j \in Items \ {i} : mem'.items[j] = mem.items[j]
    BY <1>3, ClaimType
  <2>3. \A j \in Items : Waits(mem, j)' => j \notin mem'.receipts
    BY <2>1, <2>2 DEF SaveInv, Waits
  <2>4. \A j \in Items \ {i} : mem'.items[j].phase # "running"
    BY <2>1, <2>2 DEF SaveInv, Follows
  <2> QED BY <2>1, <2>2, <2>3, <2>4 DEF SaveInv, Waits
<1>4. ASSUME NEW i \in Items, Skip(i) PROVE SaveInv'
  <2>1. /\ disk' = disk /\ pc = "items" /\ pc' = "items" /\ i \in mem.receipts
        /\ facts' = facts /\ reconciled' = reconciled /\ mem.receipts = disk.receipts
    BY <1>4 DEF Skip, SaveInv, inputs
  <2>2. /\ mem'.receipts = mem.receipts /\ mem'.items[i].phase = "complete"
        /\ \A j \in Items \ {i} : mem'.items[j] = mem.items[j]
    BY <1>4, SkipType
  <2>3. ASSUME NEW j \in Items PROVE Follows(j)' /\ (Waits(mem, j)' => j \notin mem'.receipts)
    <3>1. CASE j = i
      BY <2>1, <2>2, <3>1 DEF Follows, Done, Unsure, Waits
    <3>2. CASE j # i
      BY <2>1, <2>2, <3>2 DEF SaveInv, Follows, Done, Unsure, Waits, Released
    <3> QED BY <3>1, <3>2
  <2> QED BY <2>1, <2>2, <2>3 DEF SaveInv, Waits
<1>5. ASSUME NEW o \in Outcomes, Answer(o) PROVE SaveInv'
  <2>1. /\ pc = "handler" /\ pc' = "items" /\ disk' = mem' /\ cur \in Items
        /\ mem.items[cur] \in ItemStates
    BY <1>5 DEF Answer, TypeInv, ControlOK, TypeOK, States
  <2>2. /\ mem'.receipts = IF o.receipt THEN mem.receipts \cup {cur} ELSE mem.receipts
        /\ mem'.items[cur] = Applied(mem.items[cur], o)
        /\ \A j \in Items \ {cur} : mem'.items[j] = mem.items[j]
    BY <1>5, AnswerType
  <2>3. /\ mem'.items[cur].phase # "running"
        /\ mem'.items[cur].phase = "waiting" =>
              mem'.items[cur].dependency # "reconciliation_required"
    BY <2>1, <2>2, AppliedItem
  <2>4. ASSUME NEW j \in Items
        PROVE  mem'.items[j].phase # "running" /\ (Waits(mem, j)' => j \notin mem'.receipts)
    <3>1. CASE j # cur
      BY <2>1, <2>2, <3>1 DEF SaveInv, Waits
    <3> QED BY <2>3, <3>1 DEF Waits
  <2>5. \A j \in Items : Follows(j)'
    BY <2>1, <2>4 DEF Follows, Done, Unsure, Waits
  <2> QED BY <2>1, <2>4, <2>5 DEF SaveInv, Waits
<1>6. ASSUME Die PROVE SaveInv'
  BY <1>6 DEF Die, SaveInv, Waits
<1>7. ASSUME InputStep PROVE SaveInv'
  <2>1. UNCHANGED <<disk, mem, pc, cur, reconciled>> /\ (pc # "idle" => facts' = facts)
    BY <1>7 DEF InputStep
  <2> QED BY <2>1 DEF SaveInv, Follows, Done, Unsure, Waits, Released
<1> QED BY <1>1, <1>2, <1>3, <1>4, <1>5, <1>6, <1>7, NextCases DEF TypeInv


\* What Standing is for a state d and the answer to whether i is being called
StandingIn(d, called, i) ==
    IF Done(d, i) THEN "done"
    ELSE IF called /\ d.items[i].phase = "running" THEN "calling"
    ELSE IF Unsure(d, i) THEN "unsure"
    ELSE IF d.items[i].phase = "failed_external" THEN "failed" ELSE "open"

\* The standing of all items, as the promise sees it
Standings == [i \in Items |-> Standing(i)]

(* The mapping depends on the state file and the call under way only.      *)
LEMMA StandingIs ==
  ASSUME NEW i \in Items
  PROVE  /\ Standings[i] = StandingIn(disk, pc = "handler" /\ cur = i, i)
         /\ Standings'[i] = StandingIn(disk', pc' = "handler" /\ cur' = i, i)
<1>1. Standing(i) = StandingIn(disk, pc = "handler" /\ cur = i, i)
  BY DEF Standing, StandingIn, Done, Unsure, Waits
<1>2. Standing(i)' = StandingIn(disk', pc' = "handler" /\ cur' = i, i)
  BY DEF Standing, StandingIn, Done, Unsure, Waits
<1> QED BY <1>1, <1>2 DEF Standings

(* What a checkpoint between two items reopens could be reopened.          *)
Reopening == {i \in Items : Unsure(disk, i) /\ ~Waits(mem, i)}

(* A checkpoint reopens what was released and leaves the rest as it was.   *)
LEMMA Checkpoint ==
  ASSUME TypeInv, SaveInv, pc = "items"
  PROVE  /\ Promise!Repeatable(Reopening)
         /\ \A i \in Items : Promise!Reopened(Reopening)[i] = StandingIn(mem, FALSE, i)
<1>1. ASSUME NEW i \in Items
      PROVE  /\ Standings[i] = StandingIn(disk, FALSE, i)
             /\ Follows(i) /\ mem.receipts = disk.receipts
  <2>1. ~(pc = "handler" /\ cur = i)
    OBVIOUS
  <2> QED BY <2>1, StandingIs DEF SaveInv, StandingIn
<1>2. ASSUME NEW i \in Items
      PROVE  StandingIn(mem, FALSE, i) = IF i \in Reopening THEN "open" ELSE Standings[i]
  <2>1. /\ mem.items[i].phase # "running"
        /\ Done(mem, i) <=> Done(disk, i)
        /\ Waits(mem, i) => Unsure(disk, i)
        /\ i \in Reopening <=> Unsure(disk, i) /\ ~Waits(mem, i)
        /\ Standings[i] = StandingIn(disk, FALSE, i)
    BY <1>1 DEF Follows, Reopening
  <2>2. CASE Done(disk, i)
    BY <2>1, <2>2 DEF StandingIn, Unsure
  <2>3. CASE ~Done(disk, i) /\ Unsure(disk, i)
    <3>1. disk.items[i].phase # "failed_external"
      BY <2>3 DEF Unsure, Waits
    <3>2. mem.items[i].phase # "failed_external"
      BY <1>1, <2>3, <3>1 DEF Follows
    <3> QED BY <2>1, <2>3, <3>2 DEF StandingIn, Unsure
  <2>4. CASE ~Done(disk, i) /\ ~Unsure(disk, i)
    <3>1. mem.items[i].phase = "failed_external" <=> disk.items[i].phase = "failed_external"
      BY <1>1, <2>4 DEF Follows
    <3>2. ~Unsure(mem, i) /\ ~Done(mem, i) /\ i \notin Reopening
      BY <2>1, <2>4 DEF Unsure
    <3> QED BY <2>1, <2>4, <3>1, <3>2 DEF StandingIn
  <2> QED BY <2>2, <2>3, <2>4
<1>3. ASSUME NEW i \in Reopening PROVE Standings[i] = "unsure" /\ Released(i)
  BY <1>1 DEF StandingIn, Reopening, Follows, Unsure
<1> QED BY <1>2, <1>3 DEF Promise!Repeatable, Promise!Reopened, Standings, Released, Reopening

(* A cycle that begins reconciles what the fact releases.                  *)
LEMMA BeginKeepsPromise ==
  ASSUME TypeInv, SaveInv, NEW c \in Capacities, BeginCycle(c)
  PROVE  [Promise!Next]_Promise!vars
<1> DEFINE R == {i \in Items : /\ Recovery[i].phase = "waiting"
                               /\ Recovery[i].dependency = "reconciliation_required"
                               /\ "reconciliation_required" \in facts}
<1>1. /\ disk' = disk /\ effects' = effects /\ facts' = facts
      /\ reconciled' = reconciled \cup R /\ pc = "idle" /\ pc' = "items"
  BY DEF BeginCycle, inputs
<1>2. Standings' = Standings
  <2>1. \A i \in Items : Standings'[i] = Standings[i]
    BY <1>1, StandingIs DEF StandingIn
  <2> QED BY <2>1 DEF Standings
<1>3. ASSUME NEW i \in R PROVE Standings[i] = "unsure"
  <2>1. Unsure(disk, i)
    <3>1. /\ \/ Loaded[i].phase = "running" /\ i \notin disk.receipts
             \/ Loaded[i].phase = "waiting" /\ Loaded[i].dependency = "reconciliation_required"
          /\ Waits(disk, i) => i \notin disk.receipts
      BY RecoveredItem DEF TypeInv, SaveInv
    <3> QED BY <3>1, LoadedItem DEF TypeInv, Unsure, Waits, Done
  <2> QED BY <1>1, <2>1, StandingIs DEF StandingIn, Unsure
<1>4. CASE R = {}
  BY <1>1, <1>2, <1>4 DEF Promise!vars, Standings
<1>5. CASE R # {}
  <2>1. Promise!Reconcile(R)
    BY <1>1, <1>2, <1>3, <1>5 DEF Promise!Reconcile, Standings
  <2> QED BY <2>1 DEF Promise!Next
<1> QED BY <1>4, <1>5

(* A claim calls an open item and reopens others.                          *)
LEMMA ClaimKeepsPromise ==
  ASSUME TypeInv, SaveInv, NEW i \in Items, Claim(i)
  PROVE  Promise!Next
<1>1. /\ disk' = mem' /\ effects' = effects /\ facts' = facts /\ reconciled' = reconciled
      /\ pc = "items" /\ pc' = "handler" /\ cur' = i
      /\ i \in batch /\ i \notin mem.receipts
  BY DEF Claim, First, inputs
<1>2. /\ mem'.receipts = mem.receipts /\ mem'.items[i].phase = "running"
      /\ \A j \in Items \ {i} : mem'.items[j] = mem.items[j]
      /\ mem.items[i].phase = "runnable"
  BY <1>1, ClaimType DEF TypeInv, ControlOK
<1>3. /\ Promise!Repeatable(Reopening)
      /\ \A j \in Items : Promise!Reopened(Reopening)[j] = StandingIn(mem, FALSE, j)
  BY <1>1, Checkpoint
<1>4. StandingIn(mem, FALSE, i) = "open"
  BY <1>1, <1>2 DEF StandingIn, Done, Unsure, Waits
<1>5. Standings'[i] = "calling"
  BY <1>1, <1>2, StandingIs DEF StandingIn, Done
<1>6. ASSUME NEW j \in Items \ {i} PROVE Standings'[j] = StandingIn(mem, FALSE, j)
  <2>1. Standings'[j] = StandingIn(mem', FALSE, j)
    BY <1>1, StandingIs DEF StandingIn
  <2> QED BY <1>2, <2>1 DEF StandingIn, Done, Unsure, Waits
<1>7. Standings' = [Promise!Reopened(Reopening) EXCEPT ![i] = "calling"]
  <2>1. Promise!Reopened(Reopening) = [j \in Items |-> Promise!Reopened(Reopening)[j]]
    BY DEF Promise!Reopened
  <2>2. Standings' = [j \in Items |-> Standings'[j]]
    BY DEF Standings
  <2> HIDE DEF Standings
  <2> QED BY <1>3, <1>5, <1>6, <2>1, <2>2
<1>8. \A j \in Items : Standings[j] # "calling"
  BY <1>1, StandingIs DEF StandingIn
<1>9. Promise!Call(i, Reopening)
  BY <1>1, <1>3, <1>4, <1>7, <1>8 DEF Promise!Call, Standings
<1>10. Reopening \in SUBSET Items
  BY DEF Reopening
<1> QED BY <1>9, <1>10 DEF Promise!Next

(* The checkpoint at the end of a cycle reopens what was released.         *)
LEMMA EndKeepsPromise ==
  ASSUME TypeInv, SaveInv, EndCycle
  PROVE  Promise!Next
<1>1. /\ disk' = mem /\ effects' = effects /\ facts' = facts /\ reconciled' = reconciled
      /\ pc = "items" /\ pc' = "idle"
  BY DEF EndCycle, inputs
<1>2. /\ Promise!Repeatable(Reopening)
      /\ \A j \in Items : Promise!Reopened(Reopening)[j] = StandingIn(mem, FALSE, j)
  BY <1>1, Checkpoint
<1>3. ASSUME NEW j \in Items PROVE Standings'[j] = StandingIn(mem, FALSE, j)
  BY <1>1, StandingIs DEF StandingIn
<1>4. Standings' = Promise!Reopened(Reopening)
  BY <1>2, <1>3 DEF Standings, Promise!Reopened
<1>5. Promise!Reopen(Reopening)
  BY <1>1, <1>2, <1>4 DEF Promise!Reopen, Standings
<1>6. Reopening \in SUBSET Items
  BY DEF Reopening
<1> QED BY <1>5, <1>6 DEF Promise!Next


(* An answer closes or reopens the action that was called, no other.       *)
LEMMA AnswerKeepsPromise ==
  ASSUME TypeInv, SaveInv, NEW o \in Outcomes, Answer(o)
  PROVE  Promise!Next
<1> DEFINE result == IF TookEffect(o) THEN "done"
                     ELSE IF mem'.items[cur].phase = "failed_external" THEN "failed" ELSE "open"
<1>1. /\ pc = "handler" /\ pc' = "items" /\ disk' = mem' /\ disk = mem /\ cur \in Items
      /\ effects' = IF TookEffect(o) THEN Effected(cur) ELSE effects
      /\ facts' = facts /\ reconciled' = reconciled
      /\ mem.items[cur] \in ItemStates /\ mem.items[cur].phase = "running"
      /\ cur \notin mem.receipts
  BY DEF Answer, inputs, TypeInv, ControlOK, TypeOK, States, SaveInv
<1>2. /\ mem'.receipts = IF o.receipt THEN mem.receipts \cup {cur} ELSE mem.receipts
      /\ mem'.items[cur] = Applied(mem.items[cur], o)
      /\ \A j \in Items \ {cur} : mem'.items[j] = mem.items[j]
  BY AnswerType
<1>3. /\ mem'.items[cur].phase # "running"
      /\ mem'.items[cur].phase = "waiting" =>
            mem'.items[cur].dependency # "reconciliation_required"
      /\ mem'.items[cur].phase = "complete" <=> o.status = "complete"
  BY <1>1, <1>2, AppliedItem
<1>4. Standings[cur] = "calling"
  BY <1>1, StandingIs DEF StandingIn, Done
<1>5. Standings'[cur] = result
  <2>1. Standings'[cur] = StandingIn(mem', FALSE, cur)
    BY <1>1, StandingIs DEF StandingIn
  <2>2. cur \in mem'.receipts <=> o.receipt
    BY <1>1, <1>2
  <2>3. (cur \in mem'.receipts \/ mem'.items[cur].phase = "complete") <=> TookEffect(o)
    BY <1>3, <2>2 DEF TookEffect
  <2> QED BY <1>3, <2>1, <2>3 DEF StandingIn, Done, Unsure, Waits
<1>6. ASSUME NEW j \in Items \ {cur} PROVE Standings'[j] = Standings[j]
  <2>1. j \in mem'.receipts <=> j \in mem.receipts
    BY <1>2
  <2>2. Standings'[j] = StandingIn(mem', FALSE, j)
    BY <1>1, StandingIs DEF StandingIn
  <2>3. Standings[j] = StandingIn(mem, FALSE, j)
    BY <1>1, StandingIs DEF StandingIn
  <2> QED BY <1>2, <2>1, <2>2, <2>3 DEF StandingIn, Done, Unsure, Waits
<1>7. Standings' = [Standings EXCEPT ![cur] = result]
  <2>1. Standings' = [j \in Items |-> Standings'[j]] /\ Standings = [j \in Items |-> Standings[j]]
    BY DEF Standings
  <2> HIDE DEF Standings, result
  <2> QED BY <1>1, <1>5, <1>6, <2>1
<1>8. effects' = IF result = "done" THEN Promise!Took(cur) ELSE effects
  BY <1>1 DEF Promise!Took, Effected
<1>9. Promise!Answer(cur, result) /\ result \in {"open", "done", "failed"}
  <2>1. result \in {"open", "done", "failed"}
    OBVIOUS
  <2> HIDE DEF result
  <2> QED BY <1>1, <1>4, <1>7, <1>8, <2>1 DEF Promise!Answer, Standings
<1> HIDE DEF result
<1> QED BY <1>1, <1>9 DEF Promise!Next

(* A kill in a call leaves its item unsure; any other kill changes nothing *)
(* of what the state file says.                                            *)
LEMMA DieKeepsPromise ==
  ASSUME TypeInv, SaveInv, Die
  PROVE  [Promise!Next]_Promise!vars
<1>1. /\ disk' = disk /\ facts' = facts /\ reconciled' = reconciled /\ pc' = "idle"
      /\ effects' = effects \/ (pc = "handler" /\ effects' = Effected(cur))
  BY DEF Die, inputs
<1>2. \A j \in Items : Standings'[j] = StandingIn(disk, FALSE, j)
  BY <1>1, StandingIs DEF StandingIn
<1>3. Standings' = [j \in Items |-> Standings'[j]] /\ Standings = [j \in Items |-> Standings[j]]
  BY DEF Standings
<1>4. CASE pc = "handler"
  <2>1. /\ cur \in Items /\ disk.items[cur].phase = "running" /\ cur \notin disk.receipts
    BY <1>4 DEF TypeInv, ControlOK, SaveInv
  <2>2. Standings[cur] = "calling" /\ Standings'[cur] = "unsure"
    BY <1>2, <1>4, <2>1, StandingIs DEF StandingIn, Done, Unsure
  <2>3. \A j \in Items \ {cur} : Standings'[j] = Standings[j]
    BY <1>2, <1>4, StandingIs DEF StandingIn
  <2>4. Standings' = [Standings EXCEPT ![cur] = "unsure"]
    BY <1>3, <2>1, <2>2, <2>3
  <2>5. effects' \in {effects, Promise!Took(cur)}
    BY <1>1 DEF Promise!Took, Effected
  <2>6. Promise!Lose(cur)
    BY <1>1, <2>1, <2>2, <2>4, <2>5 DEF Promise!Lose, Standings
  <2> QED BY <2>1, <2>6 DEF Promise!Next
<1>5. CASE pc # "handler"
  <2>1. \A j \in Items : Standings'[j] = Standings[j]
    BY <1>2, <1>5, StandingIs DEF StandingIn
  <2>2. Standings' = Standings
    BY <1>3, <2>1
  <2> QED BY <1>1, <1>5, <2>2 DEF Promise!vars, Standings
<1> QED BY <1>4, <1>5

(* Work, decisions and facts that arrive change nothing but what is known. *)
LEMMA InputKeepsPromise ==
  ASSUME TypeInv, InputStep
  PROVE  [Promise!Next]_Promise!vars
<1>1. UNCHANGED <<disk, pc, cur, effects, reconciled>>
  BY DEF InputStep
<1>2. Standings' = Standings
  <2>1. \A j \in Items : Standings'[j] = Standings[j]
    BY <1>1, StandingIs
  <2> QED BY <2>1 DEF Standings
<1>3. CASE ("reconciliation_required" \in facts') = ("reconciliation_required" \in facts)
  BY <1>1, <1>2, <1>3 DEF Promise!vars, Standings
<1>4. CASE ("reconciliation_required" \in facts') = ~("reconciliation_required" \in facts)
  <2>1. Promise!Learn
    BY <1>1, <1>2, <1>4 DEF Promise!Learn, Standings
  <2> QED BY <2>1 DEF Promise!Next
<1> QED BY <1>3, <1>4

(* The work engine implements ReconciledAction: whatever is killed, an     *)
(* interrupted action is called again only when it may be repeated or its  *)
(* reconciliation was known, and what is done or failed for good never is. *)
THEOREM ImplementsPromise == Spec => ImplementsReconciledAction
<1>1. Init => Promise!Init
  <2> SUFFICES ASSUME Init PROVE Promise!Init
    OBVIOUS
  <2>1. /\ disk.items = [i \in Items |-> Absent] /\ disk.receipts = {} /\ pc = "idle"
        /\ effects = [i \in Items |-> 0] /\ facts = {} /\ reconciled = {}
    BY DEF Init
  <2>2. Absent.phase = "absent"
    BY DEF Absent
  <2>3. \A i \in Items : Standings[i] = "open"
    BY <2>1, <2>2, StandingIs DEF StandingIn, Done, Unsure, Waits
  <2>4. Standings = [i \in Items |-> "open"]
    BY <2>3 DEF Standings
  <2>5. ("reconciliation_required" \in facts) = FALSE
    BY <2>1
  <2> QED BY <2>1, <2>4, <2>5 DEF Promise!Init, Standings
<1>2. TypeInv /\ SaveInv /\ [Next]_vars => [Promise!Next]_Promise!vars
  <2> SUFFICES ASSUME TypeInv, SaveInv, [Next]_vars PROVE [Promise!Next]_Promise!vars
    OBVIOUS
  <2>1. ASSUME NEW i \in Items, Skip(i) PROVE [Promise!Next]_Promise!vars
    <3>1. UNCHANGED <<disk, effects, facts, reconciled, pc, cur>>
      BY <2>1 DEF Skip, inputs
    <3>2. \A j \in Items : Standings'[j] = Standings[j]
      BY <3>1, StandingIs
    <3> QED BY <3>1, <3>2 DEF Promise!vars, Standings
  <2> QED
    BY <2>1, NextCases, BeginKeepsPromise, EndKeepsPromise, ClaimKeepsPromise,
       AnswerKeepsPromise, DieKeepsPromise, InputKeepsPromise DEF TypeInv
<1> QED
  BY <1>1, <1>2, TypeInit, TypeStep, SaveInit, SaveStep, PTL
  DEF Spec, ImplementsReconciledAction, Promise!Spec
=============================================================================
