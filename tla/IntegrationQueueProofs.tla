------------------------ MODULE IntegrationQueueProofs -------------------------
(***************************************************************************)
(* Theorems about the integration queue, for any pull requests, files,      *)
(* batch size and bounds: its types, OneGate, GateShutUnderLock,            *)
(* OneTrainAhead and DisjointAhead.                                         *)
(***************************************************************************)
EXTENDS IntegrationQueue, FiniteSetTheorems, SequenceTheorems,
        WellFoundedInduction, TLAPS

PullRequests ==
    [state : {"open", "closed", "merged"}, head : Nat,
     checks : {"pending", "success", "failure"}, files : SUBSET File,
     gate : {"none", "pending", "success"},
     merge : {"unknown", "clean", "behind", "dirty", "blocked"}]

\* What a pass remembers of the heads it listed
HeadMaps == UNION {[S -> Nat] : S \in SUBSET PRs}

Passes ==
    [pc : {"idle", "lkg", "list", "sweep", "recover", "fresh", "decide", "update",
           "gate", "merge", "checkpoint", "finish", "save"},
     main : Nat, lkg : {None} \cup Nat, heads : HeadMaps, train : Seq(PRs),
     files : [PRs -> SUBSET File], lock : {None} \cup Nat, cur : PRs \cup {0}, sha : Nat,
     seen : {"unknown", "clean", "behind", "dirty", "blocked"}, todo : SUBSET PRs,
     next : {"idle", "decide", "save"}]

Stores == [train : Seq(PRs), files : [PRs -> SUBSET File], lock : {None} \cup Nat]

\* The pass works on the first pull request of a train, or recovers a release
OnTrain == q.pc \in {"decide", "update"} \/ (q.pc = "sweep" /\ q.next = "decide")
              \/ (q.pc \in {"gate", "merge"} /\ q.lock = None)
OnRecovery == q.pc \in {"recover", "checkpoint"} \/ (q.pc \in {"gate", "merge"} /\ q.lock # None)

Control ==
    /\ q.next = "save" => q.pc \in {"sweep", "save"}
    /\ q.pc = "sweep" => q.next \in {"decide", "save"}
    /\ q.pc \in {"fresh", "finish"} => q.lock = None
    /\ q.pc = "fresh" => q.train # <<>>
    /\ q.pc = "finish" => q.train = <<>>
    /\ OnTrain => q.lock = None /\ q.train # <<>> /\ q.cur = Head(q.train)
    /\ OnRecovery => q.lock # None /\ q.cur \in Recovery
    /\ q.lock # None => q.train = <<>>
    /\ store.lock # None => store.train = <<>>
    /\ q.pc \in {"lkg", "list"} => q.train = store.train /\ q.lock = store.lock /\ q.files = store.files

World ==
    /\ main \in Nat /\ lkg \in 0 .. main /\ pr \in [PRs -> PullRequests]
    /\ ahead \subseteq [rev : 1 .. main, pr : PRs, files : SUBSET File, compared : SUBSET File]
    /\ hold \in {"no", "stored", "shut"}
    /\ moves \in 0 .. MaxMoves /\ faults \in 0 .. MaxFaults

PassType ==
    /\ store \in Stores /\ store.lock <= main
    /\ q \in Passes /\ q.lock <= main /\ q.main <= main
    /\ Control

TypeInv == World /\ PassType

Lit == {p \in Ordinary \cap Open : pr[p].gate = "success"}
Known(p) == p \in DOMAIN q.heads /\ q.heads[p] = pr[p].head

\* A step that opens no gate: what is open was open, at the same head
Dims == \A p \in Lit' : p \in Lit /\ pr'[p].head = pr[p].head

GateInv ==
    /\ \A p, r \in Lit : p = r
    /\ q.pc = "fresh" \/ OnRecovery => \A p \in Lit : Known(p)
    /\ q.pc = "sweep" =>
          \A p \in Lit : (p \in q.todo /\ Known(p)) \/ (p = q.cur /\ q.next = "decide")
    /\ OnTrain /\ q.pc # "sweep" => Lit \subseteq {q.cur}
    /\ q.pc = "save" /\ q.next = "save" => Lit = {}

HoldInv ==
    hold = "shut" => /\ Lit = {} /\ store.lock # None
                     /\ q.pc # "idle" => q.lock # None

\* What may be ahead of production: one train's worth of pull requests
Fits(S) == S \subseteq PRs /\ Cardinality(S) <= BatchSize

\* The pull requests of a train, and those merged ahead of production
Charged(train) == {x.pr : x \in ahead} \cup Range(train)

\* Each is merged once, and production has not accepted it
AheadOnce ==
    /\ \A x \in ahead : x.rev > lkg /\ pr[x.pr].state = "merged"
    /\ \A x, y \in ahead : x.pr = y.pr => x = y

\* What the pass knows of them: it saw production at main, or it continues the
\* stored train, or it chose a new one that is not stored yet
TrainKnown ==
    /\ q.pc = "fresh" \/ OnTrain => store.train \in {<<>>, q.train}
    /\ q.pc = "lkg" => \A x \in ahead : x.rev <= q.main
    /\ q.pc = "list" /\ q.lkg = q.main => ahead = {}

AheadInv ==
    /\ AheadOnce /\ TrainKnown
    /\ Fits(Charged(store.train)) /\ Fits(Charged(q.train))

\* What was compared is disjoint, in what is ahead and in what is still to come
Apart(train, files) ==
    /\ \A x, y \in ahead : x # y => x.compared \cap y.compared = {}
    /\ \A x \in ahead, p \in Range(train) : x.pr # p => x.compared \cap files[p] = {}
    /\ \A p, r \in Range(train) : p # r => files[p] \cap files[r] = {}

ApartInv ==
    /\ Apart(q.train, q.files) /\ Apart(store.train, store.files)
    /\ q.pc = "fresh" \/ OnTrain => store.train = <<>> \/ store.files = q.files

\* A merged pull request stays merged
Settled == \A p \in PRs : pr[p].state = "merged" => pr'[p].state = "merged"

-----------------------------------------------------------------------------
(* Facts about the operators of the model.                                 *)

\* A set of numbers that is not empty has a least one.
LEMMA LeastNumber ==
    ASSUME NEW S \in SUBSET Nat, S # {}
    PROVE  \E n \in S : \A m \in S : n =< m
<1> DEFINE T == {0 .. x : x \in S}
           R == StrictSubsetOrdering(Nat)
<1>1. T # {} /\ T \subseteq FiniteSubsetsOf(Nat)
    <2>1. ASSUME NEW x \in S PROVE 0 .. x \in SUBSET Nat /\ IsFiniteSet(0 .. x)
        <3>1. x \in Int
            OBVIOUS
        <3> QED BY <3>1, FS_Interval
    <2> QED BY <2>1 DEF FiniteSubsetsOf
<1>2. IsWellFoundedOn(R, FiniteSubsetsOf(Nat))
    BY FS_StrictSubsetOrderingWellFounded
<1>3. \E u \in T : \A v \in T : <<v, u>> \notin R
    <2> HIDE DEF T, R
    <2> QED BY <1>1, <1>2, WFMin
<1>4. PICK x \in S : \A y \in S : <<0 .. y, 0 .. x>> \notin R
    BY <1>3
<1>5. ASSUME NEW y \in S PROVE x =< y
    <2>1. SUFFICES ASSUME y < x PROVE FALSE
        OBVIOUS
    <2>2. 0 .. y \subseteq 0 .. x /\ x \in 0 .. x /\ x \notin 0 .. y
        BY <2>1
    <2>3. 0 .. y \in SUBSET Nat /\ 0 .. x \in SUBSET Nat
        OBVIOUS
    <2> HIDE DEF R
    <2>4. <<0 .. y, 0 .. x>> \in R
        BY <2>2, <2>3 DEF R, StrictSubsetOrdering
    <2> QED BY <2>4, <1>4
<1> QED BY <1>5

\* Min chooses the least: _recovery_candidate returns one of the candidates.
LEMMA MinIsMember ==
    ASSUME NEW S \in SUBSET Nat, S # {}
    PROVE  Min(S) \in S
<1>1. \E n \in S : \A m \in S : n =< m
    BY LeastNumber
<1> QED BY <1>1 DEF Min

\* The pull requests of a train are no more than its length.
LEMMA RangeSize ==
    ASSUME NEW t \in Seq(PRs)
    PROVE  /\ Range(t) \subseteq PRs /\ IsFiniteSet(Range(t))
           /\ Cardinality(Range(t)) <= Len(t)
<1>1. t \in [1 .. Len(t) -> Range(t)] /\ Range(t) \subseteq PRs
    BY DEF Range
<1>2. t \in Surjection(1 .. Len(t), Range(t))
    BY <1>1 DEF Surjection, Range
<1>3. IsFiniteSet(1 .. Len(t)) /\ Cardinality(1 .. Len(t)) = Len(t)
    <2>1. Len(t) \in Nat /\ 1 \in Int /\ Len(t) \in Int
        OBVIOUS
    <2>2. /\ IsFiniteSet(1 .. Len(t))
          /\ Cardinality(1 .. Len(t)) = IF 1 > Len(t) THEN 0 ELSE Len(t) - 1 + 1
        BY <2>1, FS_Interval
    <2> QED BY <2>1, <2>2
<1> QED BY <1>1, <1>2, <1>3, FS_Surjection

\* A pass that has listed nothing remembers no head.
LEMMA NoHeads == <<>> \in HeadMaps
<1>1. <<>> \in [{} -> Nat]
    OBVIOUS
<1> QED BY <1>1 DEF HeadMaps

\* The heads a pass remembers are heads of pull requests.
LEMMA HeadMapDomain == ASSUME NEW h \in HeadMaps PROVE DOMAIN h \subseteq PRs
BY DEF HeadMaps

\* No pass is a pass.
LEMMA NoPassType == NoPass \in Passes
BY NoHeads DEF NoPass, NoFiles, Passes, None

\* What a listing of the open pull requests remembers.
LEMMA HeadsType ==
    ASSUME pr \in [PRs -> PullRequests]
    PROVE  /\ Open \subseteq PRs /\ Heads \in HeadMaps /\ DOMAIN Heads = Open
           /\ \A p \in Open : Heads[p] = pr[p].head
<1>1. Open \in SUBSET PRs
    BY DEF Open
<1>2. Heads \in [Open -> Nat]
    BY <1>1 DEF Heads, PullRequests
<1> QED BY <1>1, <1>2 DEF HeadMaps, Heads

\* A gate is a status of a pull request.
LEMMA GatedType ==
    ASSUME pr \in [PRs -> PullRequests], NEW p, NEW sha,
           NEW g \in {"none", "pending", "success"}
    PROVE  Gated(p, sha, g) \in [PRs -> PullRequests]
<1>1. CASE p \in PRs
    <2>1. [pr[p] EXCEPT !.gate = g] \in PullRequests
        BY <1>1 DEF PullRequests
    <2> QED BY <2>1 DEF Gated
<1>2. CASE p \notin PRs
    BY <1>2 DEF Gated
<1> QED BY <1>1, <1>2

\* A merge leaves every pull request one.
LEMMA MergedType ==
    ASSUME pr \in [PRs -> PullRequests], NEW p \in PRs
    PROVE  Merged(p) \in [PRs -> PullRequests]
<1>1. ASSUME NEW r \in PRs
      PROVE  /\ [pr[r] EXCEPT !.state = "merged"] \in PullRequests
             /\ [pr[r] EXCEPT !.merge = "unknown"] \in PullRequests
             /\ pr[r] \in PullRequests
    BY DEF PullRequests
<1> QED BY <1>1 DEF Merged

\* A push makes a new head.
LEMMA PushedType ==
    ASSUME pr \in [PRs -> PullRequests], NEW p \in PRs,
           NEW m \in {"unknown", "clean", "behind", "dirty", "blocked"}, NEW files \in SUBSET File
    PROVE  Pushed(p, m, files) \in [PRs -> PullRequests]
<1>1. pr[p] \in PullRequests /\ pr[p].head + 1 \in Nat
    BY DEF PullRequests
<1>2. ASSUME NEW n \in Nat
      PROVE  [pr[p] EXCEPT !.head = n, !.checks = "pending", !.gate = "none", !.merge = m,
                           !.files = files]
             \in PullRequests
    BY DEF PullRequests
<1> QED BY <1>1, <1>2 DEF Pushed

\* What is left of a train without its first pull request.
LEMMA TailFacts ==
    ASSUME NEW s \in Seq(PRs), s # <<>>
    PROVE  /\ Head(s) \in PRs /\ Tail(s) \in Seq(PRs)
           /\ Range(s) = Range(Tail(s)) \cup {Head(s)}
           /\ Len(s) = 1 => Tail(s) = <<>>
<1>1. /\ Head(s) \in PRs /\ Tail(s) \in Seq(PRs) /\ Len(Tail(s)) = Len(s) - 1
      /\ \A i \in 1 .. Len(Tail(s)) : Tail(s)[i] = s[i + 1]
    BY HeadTailProperties
<1>2. /\ Len(s) \in Nat \ {0} /\ DOMAIN s = 1 .. Len(s)
      /\ DOMAIN Tail(s) = 1 .. Len(Tail(s)) /\ Len(Tail(s)) \in Nat
    BY <1>1, EmptySeq, LenProperties
<1>3. Head(s) = s[1]
    OBVIOUS
<1> DEFINE t == Tail(s)
<1>4. \A i \in 1 .. Len(t) : t[i] = s[i + 1]
    BY <1>1
<1>5. Len(t) = Len(s) - 1 /\ DOMAIN t = 1 .. Len(t) /\ Len(t) \in Nat
    BY <1>1, <1>2
<1>6. Len(s) = 1 => t = <<>>
    <2> HIDE DEF t
    <2>1. t \in Seq(PRs)
        BY <1>1 DEF t
    <2>2. t # <<>> => Len(t) # 0
        BY <2>1, EmptySeq
    <2> QED BY <1>2, <1>5, <2>2
<1> HIDE DEF t
<1>7. Range(s) = Range(t) \cup {s[1]}
    <2>1. ASSUME NEW i \in DOMAIN t PROVE t[i] \in Range(s)
        <3>1. i + 1 \in DOMAIN s /\ t[i] = s[i + 1]
            BY <1>2, <1>4, <1>5
        <3> QED BY <3>1 DEF Range
    <2>2. ASSUME NEW i \in DOMAIN s PROVE s[i] \in Range(t) \cup {s[1]}
        <3>1. CASE i = 1
            BY <3>1
        <3>2. CASE i # 1
            <4>1. i - 1 \in DOMAIN t /\ t[i - 1] = s[i]
                BY <3>2, <1>2, <1>4, <1>5
            <4> QED BY <4>1 DEF Range
        <3> QED BY <3>1, <3>2
    <2>3. s[1] \in Range(s)
        BY <1>2 DEF Range
    <2>4. Range(t) \subseteq Range(s)
        BY <2>1 DEF Range
    <2>5. Range(s) \subseteq Range(t) \cup {s[1]}
        BY <2>2 DEF Range
    <2> QED BY <2>3, <2>4, <2>5
<1> QED BY <1>1, <1>3, <1>6, <1>7 DEF t

\* A train goes on without its first pull request.
LEMMA RestType ==
    ASSUME q \in Passes, q.train # <<>>, NEW pc \in {"finish", "save"}
    PROVE  /\ [Rest EXCEPT !.pc = pc] \in Passes
           /\ [Rest EXCEPT !.pc = pc] = [q EXCEPT !.train = Tail(q.train), !.pc = pc]
           /\ AfterRest \in {"finish", "save"}
           /\ AfterRest = "finish" => Tail(q.train) = <<>>
<1>1. q.train \in Seq(PRs) /\ Tail(q.train) \in Seq(PRs)
    BY TailFacts DEF Passes
<1>2. AfterRest = "finish" => Tail(q.train) = <<>>
    BY <1>1, TailFacts DEF AfterRest
<1> QED BY <1>1, <1>2 DEF Rest, AfterRest, Passes

\* The members of a chosen train are ready candidates, ordered and disjoint.
LEMMA TrainFacts ==
    ASSUME NEW t \in Trains, pr \in [PRs -> PullRequests]
    PROVE  /\ t \in Seq(PRs) /\ Len(t) <= BatchSize
           /\ \A a, b \in Range(t) : a # b => ~Overlap(a, b)
<1>1. ReadyCandidates \subseteq PRs
    BY DEF ReadyCandidates, Candidates, Open
<1>2. PICK m \in 0 .. BatchSize : t \in [1 .. m -> ReadyCandidates]
    BY DEF Trains, SeqOf
<1>3. t \in Seq(PRs) /\ Len(t) = m
    <2>1. m \in Nat /\ t \in [1 .. m -> PRs]
        <3>1. m \in Nat
            BY QueueAssumption
        <3>2. \A i \in 1 .. m : t[i] \in PRs
            BY <1>1, <1>2
        <3> QED BY <1>2, <3>1, <3>2
    <2>2. t \in Seq(PRs)
        BY <2>1, SeqDef
    <2>3. Len(t) \in Nat /\ DOMAIN t = 1 .. Len(t)
        BY <2>2, LenProperties
    <2> QED BY <2>1, <2>2, <2>3
<1>4. ASSUME NEW i \in DOMAIN t, NEW j \in DOMAIN t, t[i] # t[j] PROVE ~Overlap(t[i], t[j])
    <2>1. i < j \/ j < i
        BY <1>2, <1>4
    <2> QED BY <2>1 DEF Trains, Overlap
<1> QED BY <1>2, <1>3, <1>4, QueueAssumption DEF Range

-----------------------------------------------------------------------------
(* Types, and what the position of a pass says about its train and lock.   *)

\* The types hold initially ...
LEMMA TypeInit == Init => TypeInv
<1> SUFFICES ASSUME Init PROVE TypeInv
    OBVIOUS
<1>1. World
    <2>1. ASSUME NEW p \in PRs PROVE Files[p] \subseteq File
        BY DEF File
    <2>2. pr \in [PRs -> PullRequests]
        BY <2>1 DEF Init, PullRequests
    <2> QED BY <2>2, QueueAssumption DEF Init, World
<1>2. q \in Passes /\ q = NoPass
    BY NoPassType DEF Init
<1>3. store \in Stores /\ store.train = <<>> /\ store.lock = None
    BY DEF Init, Stores, NoFiles
<1> QED BY <1>1, <1>2, <1>3 DEF Init, TypeInv, PassType, NoPass, Control, OnTrain, OnRecovery, None

\* A step that leaves the pass and the state file alone.
LEMMA PassTypeKept ==
    ASSUME TypeInv, UNCHANGED <<store, q>>, main' \in Nat, main <= main'
    PROVE  PassType'
<1>1. store.lock \in Int /\ q.lock \in Int /\ q.main \in Int /\ main \in Int
    BY DEF TypeInv, World, PassType, Stores, Passes, None
<1> QED BY <1>1 DEF TypeInv, PassType, Control, OnTrain, OnRecovery

\* What is not of the queue keeps the types.
LEMMA WorldStep ==
    ASSUME TypeInv,
           \/ ExternalMerge \/ RollBack \/ (\E r \in 0 .. main : Accept(r))
           \/ \E p \in PRs : \/ CheckReports(p) \/ MergeByHand(p) \/ Push(p) \/ Close(p)
                             \/ \E m \in Mergeability[p] : Recompute(p, m)
    PROVE  TypeInv'
<1> USE DEF TypeInv
<1>0. World
    OBVIOUS
<1>1. CASE ExternalMerge
    <2>1. pr' \in [PRs -> PullRequests]
        <3>1. ASSUME NEW r \in PRs
              PROVE  [pr[r] EXCEPT !.merge = "unknown"] \in PullRequests /\ pr[r] \in PullRequests
            BY <1>0 DEF World, PullRequests
        <3> QED BY <3>1, <1>1 DEF ExternalMerge
    <2>2. World'
        BY <1>0, <1>1, <2>1, QueueAssumption DEF ExternalMerge, Move, World
    <2> QED BY <2>2, <1>0, <1>1, PassTypeKept DEF ExternalMerge, Move, World
<1>2. CASE RollBack
    <2>2. World'
        BY <1>0, <1>2, QueueAssumption DEF RollBack, Move, World
    <2> QED BY <2>2, <1>0, <1>2, PassTypeKept DEF RollBack, Move, World
<1>3. ASSUME NEW r \in 0 .. main, Accept(r) PROVE TypeInv'
    <2>2. World'
        BY <1>0, <1>3, QueueAssumption DEF Accept, World
    <2> QED BY <2>2, <1>0, <1>3, PassTypeKept DEF Accept, World
<1>4. ASSUME NEW p \in PRs, CheckReports(p) PROVE TypeInv'
    <2>1. ASSUME NEW c \in {"success", "failure"}
          PROVE  [pr[p] EXCEPT !.checks = c] \in PullRequests
        BY <1>0 DEF World, PullRequests
    <2>2. World'
        BY <2>1, <1>0, <1>4 DEF CheckReports, World
    <2> QED BY <2>2, <1>0, <1>4, PassTypeKept DEF CheckReports, World
<1>5. ASSUME NEW p \in PRs, MergeByHand(p) PROVE TypeInv'
    <2>2. World'
        BY <1>0, <1>5, MergedType DEF MergeByHand, World
    <2> QED BY <2>2, <1>0, <1>5, PassTypeKept DEF MergeByHand, World
<1>6. ASSUME NEW p \in PRs, Push(p) PROVE TypeInv'
    <2>1. ASSUME NEW files \in Changes[p] PROVE files \in SUBSET File
        BY DEF File
    <2>2. World'
        BY <1>0, <1>6, <2>1, PushedType, QueueAssumption DEF Push, Move, World
    <2> QED BY <2>2, <1>0, <1>6, PassTypeKept DEF Push, Move, World
<1>7. ASSUME NEW p \in PRs, Close(p) PROVE TypeInv'
    <2>1. [pr[p] EXCEPT !.state = "closed"] \in PullRequests
        BY <1>0 DEF World, PullRequests
    <2>2. World'
        BY <2>1, <1>0, <1>7, QueueAssumption DEF Close, Move, World
    <2> QED BY <2>2, <1>0, <1>7, PassTypeKept DEF Close, Move, World
<1>8. ASSUME NEW p \in PRs, NEW m \in Mergeability[p], Recompute(p, m) PROVE TypeInv'
    <2>1. m \in {"unknown", "clean", "behind", "dirty", "blocked"}
        BY QueueAssumption
    <2>2. [pr[p] EXCEPT !.merge = m] \in PullRequests
        BY <2>1, <1>0 DEF World, PullRequests
    <2>3. World'
        BY <2>2, <1>0, <1>8 DEF Recompute, World
    <2> QED BY <2>3, <1>0, <1>8, PassTypeKept DEF Recompute, World
<1> QED BY <1>1, <1>2, <1>3, <1>4, <1>5, <1>6, <1>7, <1>8

\* A step of a pass that does not reach the state file.
LEMMA WorldKept ==
    ASSUME World, UNCHANGED main, Outside, pr' \in [PRs -> PullRequests]
    PROVE  World'
BY DEF World, Outside

\* The first steps of a pass read the state file, main and production.
LEMMA ReadingStep ==
    ASSUME TypeInv, Start \/ ReadLkg \/ ReadLkgUnknown \/ Abort
    PROVE  TypeInv'
<1>0. World /\ PassType
    BY DEF TypeInv
<1>1. CASE Start
    <2>1. World'
        BY <1>0, <1>1, WorldKept DEF Start, Local, github, World
    <2>2. q' \in Passes
        <3>1. store.train \in Seq(PRs) /\ store.files \in [PRs -> SUBSET File] /\ store.lock \in {None} \cup Nat /\ main \in Nat
            BY <1>0 DEF PassType, Stores, World
        <3>2. ASSUME NEW z \in Passes
              PROVE  [z EXCEPT !.pc = "lkg", !.main = main,
                               !.train = store.train, !.files = store.files, !.lock = store.lock] \in Passes
            BY <3>1 DEF Passes
        <3> HIDE DEF NoPass
        <3>3. [NoPass EXCEPT !.pc = "lkg", !.main = main,
                             !.train = store.train, !.files = store.files, !.lock = store.lock] \in Passes
            BY ONLY <3>2, NoPassType
        <3>4. q' = [NoPass EXCEPT !.pc = "lkg", !.main = main,
                             !.train = store.train, !.files = store.files, !.lock = store.lock]
            BY <1>1 DEF Start
        <3> QED BY ONLY <3>3, <3>4
    <2>3. PassType'
        BY <1>0, <1>1, <2>2 DEF Start, Local, github, Outside, NoPass, PassType, Stores, World,
            Control, OnTrain, OnRecovery
    <2> QED BY <2>1, <2>3 DEF TypeInv
<1>2. CASE ReadLkg
    <2>1. World'
        BY <1>0, <1>2, WorldKept DEF ReadLkg, Local, github, World
    <2>2. q' \in Passes
        <3>1. lkg \in Nat /\ q \in Passes
            BY <1>0 DEF PassType, World
        <3> QED BY <1>2, <3>1 DEF ReadLkg, Passes
    <2>3. PassType'
        BY <1>0, <1>2, <2>2 DEF ReadLkg, At, Local, github, Outside, PassType, Passes,
            Control, OnTrain, OnRecovery
    <2> QED BY <2>1, <2>3 DEF TypeInv
<1>3. CASE ReadLkgUnknown
    <2>1. World'
        BY <1>0, <1>3, QueueAssumption DEF ReadLkgUnknown, World
    <2>2. q' \in Passes
        BY <1>0, <1>3 DEF ReadLkgUnknown, Passes, PassType, World
    <2>3. PassType'
        BY <1>0, <1>3, <2>2 DEF ReadLkgUnknown, At, PassType, Passes,
            Control, OnTrain, OnRecovery
    <2> QED BY <2>1, <2>3 DEF TypeInv
<1>4. CASE Abort
    <2>1. World'
        BY <1>0, <1>4, QueueAssumption DEF Abort, World
    <2>2. PassType'
        BY <1>0, <1>4, NoPassType DEF Abort, PassType, NoPass, None, World,
            Control, OnTrain, OnRecovery
    <2> QED BY <2>1, <2>2 DEF TypeInv
<1> QED BY <1>1, <1>2, <1>3, <1>4

\* The lock a pass goes on with, and why a locked pass has no train.
LEMMA LockSeenFacts ==
    ASSUME TypeInv, q.pc = "list"
    PROVE  /\ LockSeen \in {None} \cup Nat /\ LockSeen <= main
           /\ LockSeen # None => q.train = <<>>
           /\ LockSeen = None /\ q.train = <<>> => q.main = q.lkg
BY DEF TypeInv, World, PassType, Control, LockSeen, Passes, None

\* The pass decides what it is about.
LEMMA ListStep ==
    ASSUME TypeInv, List
    PROVE  TypeInv'
<1> DEFINE lock == LockSeen
           seen == [q EXCEPT !.main = 0, !.lkg = 0, !.lock = lock, !.heads = Heads,
                             !.train = IF lock # None THEN <<>> ELSE q.train]
           first == Min(RecoveryCandidates)
<1>0. World /\ PassType /\ q.pc = "list" /\ UNCHANGED <<main, pr, lkg, store, ahead, moves, faults>>
    BY DEF TypeInv, List, At
<1>1. World'
    BY <1>0 DEF List, World
<1>2. /\ lock \in {None} \cup Nat /\ lock <= main
      /\ lock # None => q.train = <<>>
    BY <1>0, LockSeenFacts
<1>3. Heads \in HeadMaps /\ Open \in SUBSET PRs
    BY <1>0, HeadsType DEF World
<1>4. seen = [q EXCEPT !.main = 0, !.lkg = 0, !.lock = lock, !.heads = Heads]
    <2> HIDE DEF lock
    <2> QED BY <1>0, <1>2 DEF PassType, Passes
<1> HIDE DEF lock, first
<1>5. /\ seen \in Passes /\ seen.lock = lock /\ seen.train = q.train /\ seen.next = q.next
      /\ seen.main = 0
    BY <1>0, <1>2, <1>3, <1>4 DEF PassType, Passes
<1>6. q.next # "save"
    BY <1>0 DEF PassType, Control
<1>7. store \in Stores /\ store.lock <= main /\ main \in Nat /\ (store.lock # None => store.train = <<>>)
    BY <1>0 DEF PassType, World, Control
<1>8. \/ lock # None /\ RecoveryCandidates # {}
            /\ q' = [seen EXCEPT !.pc = "recover", !.cur = first, !.sha = pr[first].head]
      \/ q' = SweepThen(seen, Heads, Open, "save")
      \/ lock = None /\ q.train # <<>> /\ q' = [seen EXCEPT !.pc = "fresh"]
      \/ lock = None /\ \E t \in Trains : t # <<>> /\ q' = [seen EXCEPT !.pc = "fresh", !.train = t, !.files = Compared(t)]
    BY DEF List, lock, first
<1> HIDE DEF seen
<1>9. CASE lock # None /\ RecoveryCandidates # {}
            /\ q' = [seen EXCEPT !.pc = "recover", !.cur = first, !.sha = pr[first].head]
    <2>1. RecoveryCandidates \in SUBSET Nat
        BY QueueAssumption DEF RecoveryCandidates, Candidates
    <2>2. first \in Recovery /\ first \in PRs
        BY <1>9, <2>1, MinIsMember DEF first, RecoveryCandidates, Candidates, Open
    <2>3. pr[first].head \in Nat
        BY <1>0, <2>2 DEF World, PullRequests
    <2>4. q' \in Passes
        BY <1>5, <1>9, <2>2, <2>3 DEF Passes
    <2>5. /\ q'.pc = "recover" /\ q'.cur = first /\ q'.lock = lock /\ q'.train = q.train
          /\ q'.next = q.next /\ q'.main = 0
        BY <1>5, <1>9 DEF Passes
    <2>6. PassType'
        BY <1>0, <1>2, <1>6, <1>7, <1>9, <2>2, <2>4, <2>5 DEF PassType, Control, OnTrain, OnRecovery
    <2> QED BY <1>1, <2>6 DEF TypeInv
<1>10. CASE q' = SweepThen(seen, Heads, Open, "save")
    <2>1. q' \in Passes
        BY <1>3, <1>5, <1>10 DEF SweepThen, Passes
    <2>2. q'.pc = "sweep" /\ q'.next = "save" /\ q'.lock = lock /\ q'.train = q.train /\ q'.main = 0
        BY <1>5, <1>10 DEF SweepThen, Passes
    <2>3. PassType'
        BY <1>0, <1>2, <1>7, <2>1, <2>2 DEF PassType, Control, OnTrain, OnRecovery
    <2> QED BY <1>1, <2>3 DEF TypeInv
<1>11. CASE lock = None /\ q.train # <<>> /\ q' = [seen EXCEPT !.pc = "fresh"]
    <2>1. q' \in Passes
        BY <1>5, <1>11 DEF Passes
    <2>2. /\ q'.pc = "fresh" /\ q'.lock = lock /\ q'.train = q.train /\ q'.next = q.next
          /\ q'.main = 0
        BY <1>5, <1>11 DEF Passes
    <2>3. PassType'
        BY <1>0, <1>2, <1>6, <1>7, <1>11, <2>1, <2>2 DEF PassType, Control, OnTrain, OnRecovery
    <2> QED BY <1>1, <2>3 DEF TypeInv
<1>12. ASSUME NEW t \in Trains, lock = None, t # <<>>, q' = [seen EXCEPT !.pc = "fresh", !.train = t, !.files = Compared(t)]
       PROVE  TypeInv'
    <2>0. t \in Seq(PRs) /\ Compared(t) \in [PRs -> SUBSET File]
        BY <1>0, TrainFacts DEF World, Compared, PullRequests
    <2>1. q' \in Passes
        BY <1>5, <1>12, <2>0 DEF Passes
    <2>2. q'.pc = "fresh" /\ q'.lock = lock /\ q'.train = t /\ q'.next = q.next /\ q'.main = 0
        BY <1>5, <1>12 DEF Passes
    <2>3. PassType'
        BY <1>0, <1>2, <1>6, <1>7, <1>12, <2>1, <2>2 DEF PassType, Control, OnTrain, OnRecovery
    <2> QED BY <1>1, <2>3 DEF TypeInv
<1> QED BY <1>8, <1>9, <1>10, <1>11, <1>12

\* Gates are shut one by one, then the pass goes on.
LEMMA SweepStep ==
    ASSUME TypeInv, Sweep
    PROVE  TypeInv'
<1>0. World /\ PassType /\ q.pc = "sweep" /\ UNCHANGED main /\ Outside
    BY DEF TypeInv, Sweep, At
<1>1. pr' \in [PRs -> PullRequests]
    BY <1>0, GatedType DEF Sweep, World
<1>2. World'
    BY <1>0, <1>1, WorldKept
<1>3. CASE q.todo = {}
    <2>1. q' = [q EXCEPT !.pc = q.next, !.heads = <<>>]
        BY <1>3 DEF Sweep
    <2>2. q.next \in {"decide", "save"}
        BY <1>0 DEF PassType, Control
    <2>3. q' \in Passes
        BY <1>0, <2>1, <2>2, NoHeads DEF PassType, Passes
    <2>4. /\ q'.pc = q.next /\ q'.next = q.next /\ q'.lock = q.lock /\ q'.train = q.train
          /\ q'.cur = q.cur /\ q'.main = q.main
        BY <1>0, <2>1 DEF PassType, Passes
    <2>5. PassType'
        BY <1>0, <2>2, <2>3, <2>4 DEF PassType, Control, OnTrain, OnRecovery, Outside
    <2> QED BY <1>2, <2>5 DEF TypeInv
<1>4. CASE q.todo # {}
    <2>1. q' = [q EXCEPT !.todo = @ \ {Max(q.todo)}]
        BY <1>4 DEF Sweep
    <2>2. q' \in Passes
        BY <1>0, <2>1 DEF PassType, Passes
    <2>3. /\ q'.pc = "sweep" /\ q'.next = q.next /\ q'.lock = q.lock /\ q'.train = q.train
          /\ q'.cur = q.cur /\ q'.main = q.main
        BY <1>0, <2>1 DEF PassType, Passes
    <2>4. PassType'
        BY <1>0, <2>2, <2>3 DEF PassType, Control, OnTrain, OnRecovery, Outside
    <2> QED BY <1>2, <2>4 DEF TypeInv
<1> QED BY <1>3, <1>4

\* A pass that only moves on keeps its types where the new position allows it.
LEMMA MovedOn ==
    ASSUME TypeInv, UNCHANGED <<main, store>>, World',
           NEW pc \in {"gate", "update", "save"}, q' = [q EXCEPT !.pc = pc],
           \/ q.pc = "recover" /\ pc \in {"gate", "save"}
           \/ q.pc = "decide"
           \/ q.pc = "update" /\ pc = "save"
    PROVE  TypeInv'
<1>0. PassType
    BY DEF TypeInv
<1>1. q' \in Passes
    BY <1>0 DEF PassType, Passes
<1>2. /\ q'.pc = pc /\ q'.next = q.next /\ q'.lock = q.lock /\ q'.train = q.train
      /\ q'.cur = q.cur /\ q'.main = q.main
    BY <1>0 DEF PassType, Passes
<1>3. PassType'
    BY <1>0, <1>1, <1>2 DEF PassType, Control, OnTrain, OnRecovery
<1> QED BY <1>3 DEF TypeInv

\* A pass that drops the first pull request of its train.
LEMMA MovedPast ==
    ASSUME TypeInv, store' = store, main' \in Nat, main <= main', World',
           q.train # <<>>, q.lock = None, q.next # "save",
           q' = [Rest EXCEPT !.pc = AfterRest]
    PROVE  TypeInv'
<1>0. PassType /\ main \in Nat
    BY DEF TypeInv, World
<1>1. q \in Passes
    BY <1>0 DEF PassType
<1>2. /\ AfterRest \in {"finish", "save"} /\ (AfterRest = "finish" => Tail(q.train) = <<>>)
      /\ q' \in Passes /\ q' = [q EXCEPT !.train = Tail(q.train), !.pc = AfterRest]
    BY <1>1, RestType
<1>3. /\ q'.pc = AfterRest /\ q'.next = q.next /\ q'.lock = None /\ q'.train = Tail(q.train)
      /\ q'.main = q.main /\ q'.cur = q.cur
    <2> DEFINE pc == AfterRest
    <2> HIDE DEF pc
    <2>1. q' = [q EXCEPT !.train = Tail(q.train), !.pc = pc]
        BY <1>2 DEF pc
    <2>2. /\ q'.pc = pc /\ q'.next = q.next /\ q'.lock = None /\ q'.train = Tail(q.train)
          /\ q'.main = q.main /\ q'.cur = q.cur
        BY <1>1, <2>1 DEF Passes
    <2> QED BY <2>2 DEF pc
<1>4. q.main \in Nat /\ q.main <= main /\ store.lock \in Int /\ store.lock <= main
    BY <1>0 DEF PassType, Passes, Stores, None
<1>5. store' \in Stores /\ store'.lock <= main' /\ q'.main <= main' /\ q'.lock <= main'
    BY <1>0, <1>3, <1>4 DEF PassType, None
<1>6. CASE AfterRest = "finish"
    BY <1>0, <1>2, <1>3, <1>5, <1>6 DEF TypeInv, PassType, Control, OnTrain, OnRecovery
<1>7. CASE AfterRest = "save"
    BY <1>0, <1>2, <1>3, <1>5, <1>7 DEF TypeInv, PassType, Control, OnTrain, OnRecovery
<1> QED BY <1>2, <1>6, <1>7

\* The steps of a recovery, and of the first pull request of a train.
LEMMA WorkStep ==
    ASSUME TypeInv, Recover \/ Fresh \/ Decide \/ Update \/ OpenGate
    PROVE  TypeInv'
<1>0. World /\ PassType /\ q \in Passes
    BY DEF TypeInv, PassType
<1>g. ASSUME NEW g \in {"none", "pending", "success"}
      PROVE  Gated(q.cur, q.sha, g) \in [PRs -> PullRequests]
    BY <1>0, GatedType DEF World
<1>u. pr \in [PRs -> PullRequests]
    BY <1>0 DEF World
<1>1. CASE Recover
    <2>1. World'
        BY <1>0, <1>g, <1>u, <1>1, WorldKept DEF Recover, Hold
    <2>2. \E pc \in {"gate", "save"} : q' = [q EXCEPT !.pc = pc]
        BY <1>1 DEF Recover, Hold
    <2> QED BY <1>1, <2>1, <2>2, MovedOn DEF Recover, At, Outside
<1>2. CASE Fresh
    <2>1. World'
        BY <1>0, <1>u, <1>2, WorldKept DEF Fresh, Local, github
    <2>2. q.train # <<>> /\ q.lock = None /\ q.next # "save" /\ q.train \in Seq(PRs)
        BY <1>0, <1>2 DEF Fresh, At, PassType, Control, Passes
    <2>3. CASE Head(q.train) \notin Open
        <3>1. q' = [Rest EXCEPT !.pc = AfterRest] /\ UNCHANGED <<main, store>>
            BY <1>2, <2>3 DEF Fresh, Local, github, Outside
        <3> QED BY <1>0, <2>1, <2>2, <3>1, MovedPast DEF World
    <2>4. CASE Head(q.train) \in Open
        <3> DEFINE p == Head(q.train)
        <3>1. p \in PRs /\ pr[p].head \in Nat /\ pr[p].merge \in {"unknown", "clean", "behind", "dirty", "blocked"}
            BY <1>u, <2>4 DEF Open, PullRequests
        <3>2. q.heads \in HeadMaps /\ DOMAIN q.heads \ {p} \in SUBSET PRs
            BY <1>0, HeadMapDomain DEF Passes
        <3>3. q' = [[q EXCEPT !.cur = p, !.sha = pr[p].head, !.seen = pr[p].merge]
                    EXCEPT !.pc = "sweep", !.heads = q.heads, !.todo = DOMAIN q.heads \ {p},
                           !.next = "decide"]
            BY <1>2, <2>4 DEF Fresh, SweepThen
        <3> HIDE DEF p
        <3>4. q' \in Passes
            BY <1>0, <3>1, <3>2, <3>3 DEF Passes
        <3>5. /\ q'.pc = "sweep" /\ q'.next = "decide" /\ q'.cur = p /\ q'.lock = q.lock
              /\ q'.train = q.train /\ q'.main = q.main
            BY <1>0, <3>3 DEF Passes
        <3>6. UNCHANGED <<main, store>>
            BY <1>2 DEF Fresh, Local, github, Outside
        <3>7. PassType'
            BY <1>0, <2>2, <3>4, <3>5, <3>6 DEF PassType, Control, OnTrain, OnRecovery, p
        <3> QED BY <2>1, <3>7 DEF TypeInv
    <2> QED BY <2>3, <2>4
<1>3. CASE Decide
    <2>1. World'
        BY <1>0, <1>g, <1>u, <1>3, WorldKept DEF Decide, Hold
    <2>2. UNCHANGED <<main, store>> /\ q.pc = "decide" /\ main \in Nat
        BY <1>0, <1>3 DEF Decide, At, Outside, World
    <2>3. q.train # <<>> /\ q.lock = None /\ q.next # "save"
        BY <1>0, <2>2 DEF PassType, Control, OnTrain
    <2>4. \/ q' = [Rest EXCEPT !.pc = AfterRest]
          \/ \E pc \in {"gate", "update", "save"} : q' = [q EXCEPT !.pc = pc]
        BY <1>3 DEF Decide, Hold
    <2>5. CASE q' = [Rest EXCEPT !.pc = AfterRest]
        BY <2>1, <2>2, <2>3, <2>5, MovedPast
    <2> QED BY <2>1, <2>2, <2>4, <2>5, MovedOn
<1>4. CASE Update
    <2>1. World'
        <3>1. pr' \in [PRs -> PullRequests]
            <4>1. q.cur \in PRs => pr[q.cur].files \in SUBSET File
                BY <1>u DEF PullRequests
            <4> QED BY <1>u, <1>4, <4>1, PushedType DEF Update, Open
        <3> QED BY <1>0, <1>4, <3>1, WorldKept DEF Update
    <2>2. UNCHANGED <<main, store>> /\ q.pc = "update" /\ main \in Nat
        BY <1>0, <1>4 DEF Update, At, Outside, World
    <2>3. q.train # <<>> /\ q.lock = None /\ q.next # "save"
        BY <1>0, <2>2 DEF PassType, Control, OnTrain
    <2>4. \/ q' = [Rest EXCEPT !.pc = AfterRest]
          \/ q' = [q EXCEPT !.pc = "save"]
        BY <1>4 DEF Update
    <2>5. CASE q' = [Rest EXCEPT !.pc = AfterRest]
        BY <2>1, <2>2, <2>3, <2>5, MovedPast
    <2> QED BY <2>1, <2>2, <2>4, <2>5, MovedOn
<1>5. CASE OpenGate
    <2>1. World'
        BY <1>0, <1>g, <1>5, WorldKept DEF OpenGate
    <2>2. q' = [q EXCEPT !.pc = "merge"] /\ q.pc = "gate" /\ UNCHANGED <<main, store>>
        BY <1>5 DEF OpenGate, At, Outside
    <2>3. q' \in Passes
        BY <1>0, <2>2 DEF Passes
    <2>4. /\ q'.pc = "merge" /\ q'.next = q.next /\ q'.lock = q.lock /\ q'.train = q.train
          /\ q'.cur = q.cur /\ q'.main = q.main
        BY <1>0, <2>2 DEF Passes
    <2>5. PassType'
        BY <1>0, <2>2, <2>3, <2>4 DEF PassType, Control, OnTrain, OnRecovery
    <2> QED BY <2>1, <2>5 DEF TypeInv
<1> QED BY <1>1, <1>2, <1>3, <1>4, <1>5

\* The steps that merge, and those that write the state file.
LEMMA StoreStep ==
    ASSUME TypeInv, Merge \/ Checkpoint \/ Finish \/ Save
    PROVE  TypeInv'
<1>0. World /\ PassType /\ q \in Passes
    BY DEF TypeInv, PassType
<1>u. pr \in [PRs -> PullRequests] /\ main \in Nat
    BY <1>0 DEF World
<1>h. q.heads \in HeadMaps /\ DOMAIN q.heads \ {q.cur} \in SUBSET PRs
    BY <1>0, HeadMapDomain DEF Passes
<1>1. CASE Merge
    <2>1. q.pc = "merge" /\ UNCHANGED <<lkg, store, hold, moves, faults>>
        BY <1>1 DEF Merge, At
    <2>2. CASE ~(Mergeable(q.cur) /\ pr[q.cur].head = q.sha)
        <3>1. q' = NoPass /\ UNCHANGED <<main, pr, ahead>>
            BY <1>1, <2>2 DEF Merge
        <3>2. World'
            BY <1>0, <2>1, <3>1 DEF World
        <3>3. PassType'
            BY <1>0, <1>u, <2>1, <3>1, NoPassType DEF PassType, NoPass, None, Control, OnTrain, OnRecovery
        <3> QED BY <3>2, <3>3 DEF TypeInv
    <2>3. CASE Mergeable(q.cur) /\ pr[q.cur].head = q.sha
        <3>1. q.cur \in PRs
            BY <2>3 DEF Mergeable, Open
        <3>2. /\ main' = main + 1 /\ pr' = Merged(q.cur)
              /\ ahead' \in {ahead, ahead \cup {Ahead(q.cur, main + 1)}}
            BY <1>1, <2>3 DEF Merge
        <3>3. World'
            <4>1. pr' \in [PRs -> PullRequests]
                BY <1>u, <3>1, <3>2, MergedType
            <4>2. Ahead(q.cur, main + 1) \in
                     [rev : 1 .. main', pr : PRs, files : SUBSET File, compared : SUBSET File]
                BY <1>0, <1>u, <3>1, <3>2 DEF Ahead, Passes, PullRequests
            <4>3. ahead' \subseteq
                     [rev : 1 .. main', pr : PRs, files : SUBSET File, compared : SUBSET File]
                BY <1>0, <3>2, <4>2 DEF World
            <4> QED BY <1>0, <2>1, <3>2, <4>1, <4>3 DEF World
        <3>4. CASE q.lock = None
            <4>1. q' = [Rest EXCEPT !.pc = AfterRest]
                BY <1>1, <2>3, <3>4 DEF Merge
            <4>2. q.train # <<>> /\ q.next # "save"
                BY <1>0, <2>1, <3>4 DEF PassType, Control, OnTrain
            <4> QED BY <1>u, <2>1, <3>2, <3>3, <3>4, <4>1, <4>2, MovedPast
        <3>5. CASE q.lock # None
            <4>1. q' = [q EXCEPT !.pc = "checkpoint", !.lock = main + 1]
                BY <1>1, <2>3, <3>5 DEF Merge
            <4>2. q' \in Passes
                <5>1. ASSUME NEW n \in Nat
                      PROVE  [q EXCEPT !.pc = "checkpoint", !.lock = n] \in Passes
                    BY <1>0 DEF Passes
                <5>2. main + 1 \in Nat
                    BY <1>u
                <5> QED BY <4>1, <5>1, <5>2
            <4>3. /\ q'.pc = "checkpoint" /\ q'.next = q.next /\ q'.lock = main + 1
                  /\ q'.train = q.train /\ q'.cur = q.cur /\ q'.main = q.main
                BY <1>0, <4>1 DEF Passes
            <4>4. q.cur \in Recovery /\ q.train = <<>> /\ q.next # "save"
                BY <1>0, <2>1, <3>5 DEF PassType, Control, OnRecovery
            <4>5. store.lock \in Int /\ store.lock <= main /\ q.main \in Nat /\ q.main <= main
                BY <1>0 DEF PassType, Stores, Passes, None
            <4>6. PassType'
                BY <1>0, <1>u, <2>1, <3>2, <4>2, <4>3, <4>4, <4>5 DEF PassType, Control, OnTrain, OnRecovery, None
            <4> QED BY <3>3, <4>6 DEF TypeInv
        <3> QED BY <3>4, <3>5
    <2> QED BY <2>2, <2>3
<1>2. CASE Checkpoint
    <2>1. World'
        BY <1>0, <1>2 DEF Checkpoint, World
    <2>2. /\ store' = [train |-> q.train, lock |-> q.lock,
                       files |-> IF q.train = <<>> THEN NoFiles ELSE q.files]
          /\ q.pc = "checkpoint"
          /\ q' = [q EXCEPT !.pc = "sweep", !.heads = q.heads, !.todo = DOMAIN q.heads \ {q.cur},
                            !.next = "save"]
          /\ main' = main
        BY <1>2 DEF Checkpoint, Stored, At, SweepThen
    <2>3. q' \in Passes
        BY <1>0, <1>h, <2>2 DEF Passes
    <2>4. /\ q'.pc = "sweep" /\ q'.next = "save" /\ q'.lock = q.lock
          /\ q'.train = q.train /\ q'.cur = q.cur /\ q'.main = q.main
        BY <1>0, <2>2 DEF Passes
    <2>5. store' \in Stores
        BY <1>0, <2>2 DEF Passes, Stores, NoFiles
    <2>6. PassType'
        BY <1>0, <2>2, <2>3, <2>4, <2>5 DEF PassType, Control, OnTrain, OnRecovery
    <2> QED BY <2>1, <2>6 DEF TypeInv
<1>3. CASE Finish
    <2>1. World'
        BY <1>0, <1>u, <1>3, WorldKept DEF Finish, Local, github
    <2>2. /\ q' = [[q EXCEPT !.lock = main] EXCEPT !.pc = "sweep", !.heads = Heads, !.todo = Open,
                            !.next = "save"]
          /\ UNCHANGED <<main, store>> /\ q.pc = "finish"
        BY <1>3 DEF Finish, SweepThen, Local, github, Outside, At
    <2>3. Heads \in HeadMaps /\ Open \in SUBSET PRs
        BY <1>u, HeadsType
    <2>4. q' \in Passes
        BY <1>0, <1>u, <2>2, <2>3 DEF Passes
    <2>5. /\ q'.pc = "sweep" /\ q'.next = "save" /\ q'.lock = main
          /\ q'.train = q.train /\ q'.cur = q.cur /\ q'.main = q.main
        BY <1>0, <2>2 DEF Passes
    <2>6. PassType'
        BY <1>0, <1>u, <2>2, <2>4, <2>5 DEF PassType, Control, OnTrain, OnRecovery, None
    <2> QED BY <2>1, <2>6 DEF TypeInv
<1>4. CASE Save
    <2>1. World'
        BY <1>0, <1>4 DEF Save, World
    <2>2. /\ store' = [train |-> q.train, lock |-> q.lock,
                       files |-> IF q.train = <<>> THEN NoFiles ELSE q.files]
          /\ q' = NoPass /\ main' = main
        BY <1>4 DEF Save, Stored
    <2>3. store' \in Stores
        BY <1>0, <2>2 DEF Passes, Stores, NoFiles
    <2>4. PassType'
        BY <1>0, <1>u, <2>2, <2>3, NoPassType DEF PassType, NoPass, None, Control, OnTrain, OnRecovery
    <2> QED BY <2>1, <2>4 DEF TypeInv
<1> QED BY <1>1, <1>2, <1>3, <1>4

\* ... and over every step ...
LEMMA TypeStep == TypeInv /\ [Next]_vars => TypeInv'
<1> SUFFICES ASSUME TypeInv, [Next]_vars PROVE TypeInv'
    OBVIOUS
<1>1. CASE Next
    BY <1>1, WorldStep, ReadingStep, ListStep, SweepStep, WorkStep, StoreStep DEF Next, PassStep
<1>2. CASE UNCHANGED vars
    BY <1>2 DEF vars, TypeInv, World, PassType, Control, OnTrain, OnRecovery
<1> QED BY <1>1, <1>2

\* ... hence always.
LEMMA TypeInvariant == Spec => []TypeInv
<1> QED BY TypeInit, TypeStep, PTL DEF Spec

\* Whatever the pull requests and the bounds, every variable keeps the type the
\* code gives it: in particular a pass that gates, updates or merges knows which
\* pull request it works on.
THEOREM TypeCorrect == Spec => []TypeOK
<1>1. TypeInv => TypeOK
    <2> SUFFICES ASSUME TypeInv PROVE TypeOK
        OBVIOUS
    <2>1. /\ store.files \in [PRs -> SUBSET File] /\ q.files \in [PRs -> SUBSET File]
          /\ store.train \in Seq(PRs) /\ store.lock \in {None} \cup 0 .. main
          /\ q.train \in Seq(PRs) /\ q.lock \in {None} \cup 0 .. main /\ q.todo \subseteq PRs
          /\ DOMAIN q = DOMAIN NoPass
        BY DEF TypeInv, World, PassType, Stores, Passes, NoPass, None
    <2>2. q.pc \in {"decide", "update", "gate", "merge", "checkpoint"} => q.cur \in PRs
        BY HeadTailProperties, QueueAssumption DEF TypeInv, PassType, Control, OnTrain, OnRecovery, Passes
    <2> QED BY <2>1, <2>2 DEF TypeInv, World, TypeOK, PullRequests
<1> QED BY <1>1, TypeInvariant, PTL

-----------------------------------------------------------------------------
(* Gates.  A gate is opened only by a pass that has shut all others it     *)
(* knew of; a head it does not know has no gate, as a push drops it.       *)

\* Leaving the pull requests alone opens no gate.
LEMMA DimsUnchanged == ASSUME UNCHANGED pr PROVE Dims
BY DEF Dims, Lit, Open

\* A merge opens no gate.
LEMMA DimsMerged == ASSUME NEW p \in PRs, pr \in [PRs -> PullRequests], pr' = Merged(p) PROVE Dims
<1>1. ASSUME NEW r \in PRs
      PROVE  /\ pr'[r].head = pr[r].head /\ pr'[r].gate = pr[r].gate
             /\ pr'[r].state = "open" => pr[r].state = "open"
    BY DEF Merged, PullRequests, Open
<1> QED BY <1>1 DEF Dims, Lit, Open

\* A push opens no gate: the new head has none.
LEMMA DimsPushed ==
    ASSUME NEW p \in PRs, NEW m, NEW files, pr \in [PRs -> PullRequests],
           pr' = Pushed(p, m, files)
    PROVE  Dims
<1>1. pr'[p].gate # "success"
    BY DEF Pushed, PullRequests
<1>2. ASSUME NEW r \in PRs, r # p PROVE pr'[r] = pr[r]
    BY <1>2 DEF Pushed
<1> QED BY <1>1, <1>2 DEF Dims, Lit, Open

\* A gate that is shut at the present head of its pull request is shut.
LEMMA DimsGated ==
    ASSUME NEW p, NEW sha, pr \in [PRs -> PullRequests], pr' = Gated(p, sha, "pending")
    PROVE  Dims /\ (p \in Lit => (pr[p].head = sha => p \notin Lit'))
<1>1. CASE p \in PRs
    <2>1. pr[p].head = sha => pr'[p].gate # "success"
        BY <1>1 DEF Gated, PullRequests
    <2>2. ASSUME NEW r \in PRs
          PROVE  /\ pr'[r].head = pr[r].head /\ pr'[r].state = pr[r].state
                 /\ pr'[r].gate = "success" => pr[r].gate = "success"
        BY DEF Gated, PullRequests
    <2> QED BY <2>1, <2>2 DEF Dims, Lit, Open
<1>2. CASE p \notin PRs
    <2>1. pr' = pr
        BY <1>2 DEF Gated
    <2> QED BY <2>1, <1>2 DEF Dims, Lit, Open
<1> QED BY <1>1, <1>2

\* Steps of GitHub, the developers and production open no gate.
LEMMA WorldDims ==
    ASSUME TypeInv,
           \/ ExternalMerge \/ RollBack \/ (\E r \in 0 .. main : Accept(r))
           \/ \E p \in PRs : \/ CheckReports(p) \/ MergeByHand(p) \/ Push(p) \/ Close(p)
                             \/ \E m \in Mergeability[p] : Recompute(p, m)
    PROVE  Dims /\ UNCHANGED <<store, q, hold>>
<1>0. pr \in [PRs -> PullRequests]
    BY DEF TypeInv, World
<1>1. CASE ExternalMerge
    <2>1. ASSUME NEW r \in PRs
          PROVE  pr'[r].head = pr[r].head /\ pr'[r].gate = pr[r].gate /\ pr'[r].state = pr[r].state
        BY <1>0, <1>1 DEF ExternalMerge, PullRequests
    <2> QED BY <1>1, <2>1 DEF ExternalMerge, Move, Dims, Lit, Open
<1>2. CASE RollBack \/ \E r \in 0 .. main : Accept(r)
    BY <1>2, DimsUnchanged DEF RollBack, Move, Accept
<1>3. ASSUME NEW p \in PRs,
             CheckReports(p) \/ Close(p) \/ \E m \in Mergeability[p] : Recompute(p, m)
      PROVE  Dims /\ UNCHANGED <<store, q, hold>>
    <2>1. ASSUME NEW r \in PRs
          PROVE  /\ pr'[r].head = pr[r].head /\ pr'[r].gate = pr[r].gate
                 /\ pr'[r].state = "open" => pr[r].state = "open"
        BY <1>0, <1>3 DEF CheckReports, Close, Recompute, PullRequests
    <2> QED BY <1>3, <2>1 DEF CheckReports, Close, Move, Recompute, Dims, Lit, Open
<1>4. ASSUME NEW p \in PRs, MergeByHand(p) PROVE Dims /\ UNCHANGED <<store, q, hold>>
    BY <1>0, <1>4, DimsMerged DEF MergeByHand
<1>5. ASSUME NEW p \in PRs, Push(p) PROVE Dims /\ UNCHANGED <<store, q, hold>>
    BY <1>0, <1>5, DimsPushed DEF Push, Move
<1> QED BY <1>1, <1>2, <1>3, <1>4, <1>5

\* A pass that ends, or begins, or goes on without a gate of its own.
LEMMA QuietGates ==
    ASSUME GateInv, Dims,
           \/ q'.pc \in {"idle", "lkg", "list", "finish"}
           \/ q'.pc = "save" /\ q'.next # "save"
    PROVE  GateInv'
BY DEF GateInv, Dims, OnTrain, OnRecovery

\* The gates and the lock over the steps that read.
LEMMA GatesReading ==
    ASSUME TypeInv, TypeInv', GateInv, HoldInv, Start \/ ReadLkg \/ ReadLkgUnknown \/ Abort
    PROVE  GateInv' /\ HoldInv'
<1>0. q \in Passes /\ Control
    BY DEF TypeInv, PassType
<1>1. Dims /\ UNCHANGED <<pr, store, hold>>
    BY DimsUnchanged DEF Start, ReadLkg, ReadLkgUnknown, Abort, Local, github, Outside
<1>2. /\ q'.pc \in {"idle", "lkg", "list"}
      /\ q'.pc # "idle" => q'.lock = store.lock
    <2>1. CASE Start
        BY <2>1 DEF Start, NoPass
    <2>2. CASE ReadLkg \/ ReadLkgUnknown
        BY <1>0, <2>2 DEF ReadLkg, ReadLkgUnknown, At, Passes, Control
    <2>3. CASE Abort
        BY <2>3 DEF Abort, NoPass
    <2> QED BY <2>1, <2>2, <2>3
<1>3. GateInv'
    BY <1>1, <1>2, QuietGates
<1>4. HoldInv'
    BY <1>1, <1>2 DEF HoldInv, Dims
<1> QED BY <1>3, <1>4

\* ... over the decision: every open gate is at a head that was just listed.
LEMMA GatesList ==
    ASSUME TypeInv, TypeInv', GateInv, HoldInv, List
    PROVE  GateInv' /\ HoldInv'
<1> DEFINE lock == LockSeen
           seen == [q EXCEPT !.main = 0, !.lkg = 0, !.lock = lock, !.heads = Heads,
                             !.train = IF lock # None THEN <<>> ELSE q.train]
           first == Min(RecoveryCandidates)
<1>0. /\ q \in Passes /\ Control /\ q.pc = "list" /\ pr \in [PRs -> PullRequests]
      /\ UNCHANGED <<main, pr, lkg, store, ahead, moves, faults>>
      /\ hold' = IF lock = None THEN "no" ELSE hold
    BY DEF TypeInv, PassType, World, List, At
<1>1. DOMAIN Heads = Open /\ \A p \in Open : Heads[p] = pr[p].head
    BY <1>0, HeadsType
<1>2. Lit' = Lit /\ Lit \subseteq Open
    BY <1>0 DEF Lit, Open
<1>3. /\ seen.lock = lock /\ seen.heads = Heads /\ seen.next = q.next /\ DOMAIN seen = DOMAIN q
      /\ q.next # "save"
    <2> HIDE DEF lock
    <2> QED BY <1>0 DEF Passes, Control
<1>4. \/ /\ q' = [seen EXCEPT !.pc = "recover", !.cur = first, !.sha = pr[first].head]
         /\ lock # None
      \/ q' = SweepThen(seen, Heads, Open, "save")
      \/ lock = None /\ q' = [seen EXCEPT !.pc = "fresh"]
      \/ lock = None /\ \E t \in Trains : q' = [seen EXCEPT !.pc = "fresh", !.train = t, !.files = Compared(t)]
    BY DEF List, lock, first
<1> HIDE DEF lock, first, seen
<1>5. /\ q'.heads = Heads /\ q'.lock = lock
      /\ \/ q'.pc = "recover" /\ lock # None
         \/ q'.pc = "fresh" /\ lock = None
         \/ q'.pc = "sweep" /\ q'.todo = Open /\ q'.next = "save"
    <2>1. DOMAIN seen = {"pc", "main", "lkg", "heads", "train", "files", "lock", "cur", "sha",
                         "seen", "todo", "next"}
        BY <1>0, <1>3 DEF Passes
    <2> QED BY <1>3, <1>4, <2>1 DEF SweepThen
<1>6. GateInv'
    BY <1>0, <1>1, <1>2, <1>5 DEF GateInv, Known, OnTrain, OnRecovery
<1>7. HoldInv'
    BY <1>0, <1>2, <1>5 DEF HoldInv
<1> QED BY <1>6, <1>7

\* ... over the sweep.
LEMMA GatesSweep ==
    ASSUME TypeInv, TypeInv', GateInv, HoldInv, Sweep
    PROVE  GateInv' /\ HoldInv'
<1>0. /\ q \in Passes /\ Control /\ q.pc = "sweep" /\ pr \in [PRs -> PullRequests]
      /\ UNCHANGED <<store, hold>>
    BY DEF TypeInv, PassType, World, Sweep, At, Outside
<1>1. CASE q.todo = {}
    <2>1. /\ pr' = pr /\ q'.pc = q.next /\ q'.next = q.next /\ q'.lock = q.lock /\ q'.cur = q.cur
        BY <1>0, <1>1 DEF Sweep, Passes
    <2>2. Lit' = Lit
        BY <2>1 DEF Lit, Open
    <2>3. GateInv'
        BY <1>0, <1>1, <2>1, <2>2 DEF GateInv, Control, OnTrain, OnRecovery
    <2>4. HoldInv'
        BY <1>0, <2>1, <2>2 DEF HoldInv
    <2> QED BY <2>3, <2>4
<1>2. CASE q.todo # {}
    <2> DEFINE p == Max(q.todo)
    <2>1. /\ pr' = Gated(p, q.heads[p], "pending") /\ q' = [q EXCEPT !.todo = @ \ {p}]
        BY <1>2 DEF Sweep
    <2> HIDE DEF p
    <2>2. /\ q'.pc = "sweep" /\ q'.next = q.next /\ q'.lock = q.lock /\ q'.cur = q.cur
          /\ q'.todo = q.todo \ {p} /\ q'.heads = q.heads
        BY <1>0, <2>1 DEF Passes
    <2>3. Dims /\ (p \in Lit => (pr[p].head = q.heads[p] => p \notin Lit'))
        BY <1>0, <2>1, DimsGated
    <2>4. GateInv'
        <3>1. ASSUME NEW r \in Lit'
              PROVE  (r \in q'.todo /\ Known(r)') \/ (r = q'.cur /\ q'.next = "decide")
            BY <1>0, <2>2, <2>3, <3>1 DEF GateInv, Dims, Known
        <3> QED BY <2>2, <2>3, <3>1 DEF GateInv, Dims, OnTrain, OnRecovery
    <2>5. HoldInv'
        BY <1>0, <2>2, <2>3 DEF HoldInv, Dims
    <2> QED BY <2>4, <2>5
<1> QED BY <1>1, <1>2

\* ... when a pass drops the first pull request of its train.
LEMMA GatesPast ==
    ASSUME TypeInv, GateInv, HoldInv, Dims, UNCHANGED <<store, hold>>,
           q.pc # "idle", q.train # <<>>, q.lock = None, q.next # "save",
           q' = [Rest EXCEPT !.pc = AfterRest]
    PROVE  GateInv' /\ HoldInv'
<1>1. q \in Passes
    BY DEF TypeInv, PassType
<1>2. /\ AfterRest \in {"finish", "save"}
      /\ q' = [q EXCEPT !.train = Tail(q.train), !.pc = AfterRest]
    BY <1>1, RestType
<1> DEFINE pc == AfterRest
<1>3. pc \in {"finish", "save"} /\ q' = [q EXCEPT !.train = Tail(q.train), !.pc = pc]
    BY <1>2
<1> HIDE DEF pc
<1>4. q'.pc \in {"finish", "save"} /\ q'.next = q.next
    BY <1>1, <1>3 DEF Passes
<1>5. GateInv'
    BY <1>4, QuietGates
<1>6. hold # "shut"
    BY DEF HoldInv
<1> QED BY <1>5, <1>6 DEF HoldInv

\* ... when it only moves on.
LEMMA GatesOn ==
    ASSUME TypeInv, TypeInv', GateInv, HoldInv, Dims, UNCHANGED <<store, hold>>,
           NEW pc \in {"gate", "update", "save", "checkpoint"}, q.pc # "idle", q.next # "save",
           \/ q' = [q EXCEPT !.pc = pc]
           \/ q' = [q EXCEPT !.pc = pc, !.lock = main + 1] /\ q.lock # None /\ pc = "checkpoint",
           OnRecovery \/ (OnTrain /\ q.pc # "sweep")
    PROVE  GateInv' /\ HoldInv'
<1>0. q \in Passes /\ main \in Nat /\ Control
    BY DEF TypeInv, PassType, World
<1>1. /\ q'.pc = pc /\ q'.next = q.next /\ q'.cur = q.cur /\ q'.heads = q.heads
      /\ q'.lock # None <=> q.lock # None
    <2>1. CASE q' = [q EXCEPT !.pc = pc]
        BY <1>0, <2>1 DEF Passes
    <2>2. CASE q' = [q EXCEPT !.pc = pc, !.lock = main + 1] /\ q.lock # None
        <3>1. main + 1 # None
            BY <1>0 DEF None
        <3> QED BY <1>0, <2>2, <3>1 DEF Passes
    <2> QED BY <2>1, <2>2
<1>2. OnRecovery => ~OnTrain
    BY DEF OnRecovery, OnTrain
<1>3. Control'
    BY DEF TypeInv, PassType
<1>4. (OnRecovery)' => OnRecovery
    BY <1>0, <1>1, <1>3 DEF OnRecovery, OnTrain, Control
<1>5. (OnTrain)' => OnTrain
    BY <1>0, <1>1, <1>3 DEF OnRecovery, OnTrain, Control
<1>6. \A p \in Lit' : Known(p) => Known(p)'
    BY <1>1 DEF Known, Dims
<1>7. GateInv'
    BY <1>1, <1>2, <1>4, <1>5, <1>6 DEF GateInv, Dims
<1>8. HoldInv'
    BY <1>1 DEF HoldInv, Dims
<1> QED BY <1>7, <1>8

\* ... over the steps of a recovery and of the first pull request of a train.
LEMMA GatesWork ==
    ASSUME TypeInv, TypeInv', GateInv, HoldInv, Recover \/ Fresh \/ Decide \/ Update \/ OpenGate
    PROVE  GateInv' /\ HoldInv'
<1>0. q \in Passes /\ Control /\ pr \in [PRs -> PullRequests]
    BY DEF TypeInv, PassType, World
<1>1. CASE Recover
    <2>1. UNCHANGED <<store, hold>> /\ q.pc = "recover" /\ q.next # "save" /\ OnRecovery
        BY <1>0, <1>1 DEF Recover, At, Outside, Control, OnRecovery
    <2>2. Dims
        BY <1>0, <1>1, DimsGated, DimsUnchanged DEF Recover, Hold
    <2>3. \E pc \in {"gate", "save"} : q' = [q EXCEPT !.pc = pc]
        BY <1>1 DEF Recover, Hold
    <2> QED BY <2>1, <2>2, <2>3, GatesOn
<1>2. CASE Fresh
    <2>1. /\ UNCHANGED <<pr, store, hold>> /\ q.pc = "fresh" /\ q.next # "save"
          /\ q.lock = None /\ q.train # <<>> /\ Dims
        BY <1>0, <1>2, DimsUnchanged DEF Fresh, At, Local, github, Outside, Control
    <2>2. CASE Head(q.train) \notin Open
        <3>1. q' = [Rest EXCEPT !.pc = AfterRest]
            BY <1>2, <2>2 DEF Fresh
        <3> QED BY <2>1, <3>1, GatesPast
    <2>3. CASE Head(q.train) \in Open
        <3> DEFINE p == Head(q.train)
        <3>1. q' = [[q EXCEPT !.cur = p, !.sha = pr[p].head, !.seen = pr[p].merge]
                    EXCEPT !.pc = "sweep", !.heads = q.heads, !.todo = DOMAIN q.heads \ {p},
                           !.next = "decide"]
            BY <1>2, <2>3 DEF Fresh, SweepThen
        <3> HIDE DEF p
        <3>2. /\ q'.pc = "sweep" /\ q'.next = "decide" /\ q'.cur = p /\ q'.heads = q.heads
              /\ q'.todo = DOMAIN q.heads \ {p}
            BY <1>0, <3>1 DEF Passes
        <3>3. Lit' = Lit
            BY <2>1 DEF Lit, Open
        <3>4. GateInv'
            BY <2>1, <3>2, <3>3 DEF GateInv, Known, OnTrain, OnRecovery
        <3>5. HoldInv'
            BY <2>1 DEF HoldInv
        <3> QED BY <3>4, <3>5
    <2> QED BY <2>2, <2>3
<1>3. CASE Decide
    <2>1. /\ UNCHANGED <<store, hold>> /\ q.pc = "decide" /\ q.next # "save" /\ OnTrain
          /\ q.lock = None /\ q.train # <<>>
        BY <1>0, <1>3 DEF Decide, At, Outside, Control, OnTrain
    <2>2. Dims
        BY <1>0, <1>3, DimsGated, DimsUnchanged DEF Decide, Hold
    <2>3. \/ q' = [Rest EXCEPT !.pc = AfterRest]
          \/ \E pc \in {"gate", "update", "save"} : q' = [q EXCEPT !.pc = pc]
        BY <1>3 DEF Decide, Hold
    <2>4. CASE q' = [Rest EXCEPT !.pc = AfterRest]
        BY <2>1, <2>2, <2>4, GatesPast
    <2>5. CASE \E pc \in {"gate", "update", "save"} : q' = [q EXCEPT !.pc = pc]
        BY <2>1, <2>2, <2>5, GatesOn
    <2> QED BY <2>3, <2>4, <2>5
<1>4. CASE Update
    <2>1. /\ UNCHANGED <<store, hold>> /\ q.pc = "update" /\ q.next # "save" /\ OnTrain
          /\ q.lock = None /\ q.train # <<>>
        BY <1>0, <1>4 DEF Update, At, Outside, Control, OnTrain
    <2>2. Dims
        BY <1>0, <1>4, DimsPushed, DimsUnchanged DEF Update, Open
    <2>3. \/ q' = [Rest EXCEPT !.pc = AfterRest]
          \/ q' = [q EXCEPT !.pc = "save"]
        BY <1>4 DEF Update
    <2>4. CASE q' = [Rest EXCEPT !.pc = AfterRest]
        BY <2>1, <2>2, <2>4, GatesPast
    <2>5. CASE q' = [q EXCEPT !.pc = "save"]
        BY <2>1, <2>2, <2>5, GatesOn
    <2> QED BY <2>3, <2>4, <2>5
<1>5. CASE OpenGate
    <2>1. /\ UNCHANGED <<store, hold>> /\ q.pc = "gate" /\ q.next # "save"
          /\ pr' = Gated(q.cur, q.sha, "success") /\ q' = [q EXCEPT !.pc = "merge"]
        BY <1>0, <1>5 DEF OpenGate, At, Outside, Control
    <2>2. /\ q'.pc = "merge" /\ q'.lock = q.lock /\ q'.cur = q.cur /\ q'.heads = q.heads
          /\ q'.next = q.next
        BY <1>0, <2>1 DEF Passes
    <2>3. ASSUME NEW p \in PRs
          PROVE  /\ pr'[p].head = pr[p].head /\ pr'[p].state = pr[p].state
                 /\ p # q.cur => pr'[p].gate = pr[p].gate
        BY <1>0, <2>1 DEF Gated, PullRequests
    <2>4. Lit' \subseteq Lit \cup {q.cur}
        BY <2>3 DEF Lit, Open
    <2>5. CASE q.lock = None
        <3>1. Lit \subseteq {q.cur}
            BY <2>1, <2>5 DEF GateInv, OnTrain
        <3>2. GateInv'
            BY <2>2, <2>4, <2>5, <3>1 DEF GateInv, OnTrain, OnRecovery
        <3>3. HoldInv'
            BY <2>1, <2>5 DEF HoldInv
        <3> QED BY <3>2, <3>3
    <2>6. CASE q.lock # None
        <3>1. q.cur \in Recovery /\ OnRecovery
            BY <1>0, <2>1, <2>6 DEF Control, OnRecovery
        <3>2. Lit' \subseteq Lit /\ \A p \in Lit : p \in PRs
            BY <2>4, <3>1 DEF Lit, Ordinary, Open
        <3>3. \A p \in Lit' : Known(p) => Known(p)'
            BY <2>2, <2>3, <3>2 DEF Known
        <3>4. GateInv'
            BY <2>2, <2>6, <3>1, <3>2, <3>3 DEF GateInv, OnTrain, OnRecovery
        <3>5. HoldInv'
            BY <2>1, <2>2, <3>2 DEF HoldInv
        <3> QED BY <3>4, <3>5
    <2> QED BY <2>5, <2>6
<1> QED BY <1>1, <1>2, <1>3, <1>4, <1>5

\* ... over the steps that merge or write the state file.
LEMMA GatesStore ==
    ASSUME TypeInv, TypeInv', GateInv, HoldInv, Merge \/ Checkpoint \/ Finish \/ Save
    PROVE  GateInv' /\ HoldInv'
<1>0. q \in Passes /\ Control /\ pr \in [PRs -> PullRequests] /\ main \in Nat
    BY DEF TypeInv, PassType, World
<1>1. CASE Merge
    <2>1. q.pc = "merge" /\ q.next # "save" /\ UNCHANGED <<store, hold>>
        BY <1>0, <1>1 DEF Merge, At, Control
    <2>2. Dims
        BY <1>0, <1>1, DimsMerged, DimsUnchanged DEF Merge, Mergeable, Open
    <2>3. CASE q' = NoPass
        <3>1. q'.pc = "idle"
            BY <2>3 DEF NoPass
        <3>2. GateInv'
            BY <2>2, <3>1, QuietGates
        <3> QED BY <2>1, <2>2, <3>1, <3>2 DEF HoldInv, Dims
    <2>4. CASE q.lock = None /\ q' = [Rest EXCEPT !.pc = AfterRest]
        <3>1. q.train # <<>>
            BY <1>0, <2>1, <2>4 DEF Control, OnTrain
        <3> QED BY <2>1, <2>2, <2>4, <3>1, GatesPast
    <2>5. CASE q.lock # None /\ q' = [q EXCEPT !.pc = "checkpoint", !.lock = main + 1]
        <3>1. OnRecovery
            BY <2>1, <2>5 DEF OnRecovery
        <3> QED BY <2>1, <2>2, <2>5, <3>1, GatesOn
    <2> QED BY <1>1, <2>3, <2>4, <2>5 DEF Merge
<1>2. CASE Checkpoint
    <2>1. /\ q.pc = "checkpoint" /\ pr' = pr /\ store'.lock = q.lock
          /\ q' = [q EXCEPT !.pc = "sweep", !.heads = q.heads, !.todo = DOMAIN q.heads \ {q.cur},
                            !.next = "save"]
          /\ hold' = IF hold = "no" THEN "stored" ELSE hold
        BY <1>2 DEF Checkpoint, At, Stored, SweepThen
    <2>2. /\ q'.pc = "sweep" /\ q'.next = "save" /\ q'.heads = q.heads /\ q'.lock = q.lock
          /\ q'.todo = DOMAIN q.heads \ {q.cur} /\ q'.cur = q.cur
        BY <1>0, <2>1 DEF Passes
    <2>3. OnRecovery /\ q.cur \in Recovery /\ q.lock # None
        BY <1>0, <2>1 DEF Control, OnRecovery
    <2>4. Lit' = Lit /\ q.cur \notin Lit
        BY <2>1, <2>3 DEF Lit, Open, Ordinary
    <2>5. GateInv'
        BY <2>1, <2>2, <2>3, <2>4 DEF GateInv, Known, OnTrain, OnRecovery
    <2>6. HoldInv'
        BY <2>1, <2>2, <2>3, <2>4 DEF HoldInv
    <2> QED BY <2>5, <2>6
<1>3. CASE Finish
    <2>1. /\ q.pc = "finish" /\ UNCHANGED <<pr, store, hold>>
          /\ q' = [[q EXCEPT !.lock = main] EXCEPT !.pc = "sweep", !.heads = Heads, !.todo = Open,
                            !.next = "save"]
        BY <1>3 DEF Finish, At, SweepThen, Local, github, Outside
    <2>2. /\ q'.pc = "sweep" /\ q'.next = "save" /\ q'.heads = Heads /\ q'.todo = Open
        BY <1>0, <2>1 DEF Passes
    <2>3. DOMAIN Heads = Open /\ \A p \in Open : Heads[p] = pr[p].head
        BY <1>0, HeadsType
    <2>4. Lit' = Lit /\ Lit \subseteq Open
        BY <2>1 DEF Lit, Open
    <2>5. GateInv'
        BY <2>1, <2>2, <2>3, <2>4 DEF GateInv, Known, OnTrain, OnRecovery
    <2>6. hold # "shut"
        BY <1>0, <2>1 DEF HoldInv, Control
    <2> QED BY <2>1, <2>5, <2>6 DEF HoldInv
<1>4. CASE Save
    <2>1. /\ q.pc = "save" /\ pr' = pr /\ store'.lock = q.lock /\ q'.pc = "idle"
          /\ hold' = CASE q.lock = None -> hold
                       [] q.lock # None /\ q.next = "save" -> "shut"
                       [] OTHER -> IF hold = "no" THEN "stored" ELSE hold
        BY <1>4 DEF Save, At, Stored, NoPass
    <2>2. Dims /\ Lit' = Lit
        BY <2>1, DimsUnchanged DEF Lit, Open
    <2>3. GateInv'
        BY <2>1, <2>2, QuietGates
    <2>4. CASE q.lock = None
        <3>1. hold' = hold /\ hold # "shut"
            BY <2>1, <2>4 DEF HoldInv
        <3> QED BY <2>3, <3>1 DEF HoldInv
    <2>5. CASE q.lock # None /\ q.next = "save"
        <3>1. Lit = {}
            BY <2>1, <2>5 DEF GateInv
        <3> QED BY <2>1, <2>2, <2>3, <2>5, <3>1 DEF HoldInv
    <2>6. CASE q.lock # None /\ q.next # "save"
        <3>1. hold' = "shut" => hold = "shut"
            BY <2>1, <2>6
        <3> QED BY <2>1, <2>2, <2>3, <2>6, <3>1 DEF HoldInv
    <2> QED BY <2>4, <2>5, <2>6
<1> QED BY <1>1, <1>2, <1>3, <1>4

\* No gate is open initially.
LEMMA GatesInit == Init => GateInv /\ HoldInv
BY DEF Init, GateInv, HoldInv, Lit, Open, NoPass, OnTrain, OnRecovery

\* Every step keeps what the passes know of the open gates.
LEMMA GatesStep == TypeInv /\ TypeInv' /\ GateInv /\ HoldInv /\ [Next]_vars => GateInv' /\ HoldInv'
<1> SUFFICES ASSUME TypeInv, TypeInv', GateInv, HoldInv, [Next]_vars PROVE GateInv' /\ HoldInv'
    OBVIOUS
<1>1. ASSUME Dims, UNCHANGED <<store, q, hold>> PROVE GateInv' /\ HoldInv'
    <2>1. GateInv'
        BY <1>1 DEF GateInv, Dims, Known, OnTrain, OnRecovery
    <2>2. HoldInv'
        BY <1>1 DEF HoldInv, Dims
    <2> QED BY <2>1, <2>2
<1>2. CASE Next
    BY <1>1, <1>2, WorldDims, GatesReading, GatesList, GatesSweep, GatesWork, GatesStore
        DEF Next, PassStep
<1>3. CASE UNCHANGED vars
    BY <1>1, <1>3, DimsUnchanged DEF vars
<1> QED BY <1>2, <1>3

\* Hence the gate invariants hold always.
LEMMA GatesInvariant == Spec => [](GateInv /\ HoldInv)
<1> QED BY TypeInvariant, GatesInit, GatesStep, PTL DEF Spec

\* At most one ordinary pull request can be merged through the gate at any
\* moment, whatever passes were lost and whatever developers push: for any number
\* of pull requests, faults and moves.
THEOREM OneGateAtATime == Spec => []OneGate
<1>1. GateInv => OneGate
    <2> SUFFICES ASSUME GateInv PROVE Cardinality(Lit) <= 1
        BY DEF OneGate, Lit
    <2>1. CASE Lit = {}
        BY <2>1, FS_EmptySet
    <2>2. CASE Lit # {}
        <3>1. PICK p \in Lit : TRUE
            BY <2>2
        <3>2. Lit = {p}
            BY <3>1 DEF GateInv
        <3>3. Cardinality({p}) = 1
            BY FS_Singleton
        <3> QED BY <3>2, <3>3
    <2> QED BY <2>1, <2>2
<1> QED BY <1>1, GatesInvariant, PTL

\* Once a pass has stored the release lock and shut the gates, no ordinary pull
\* request can be merged through the gate until a pass finds the locked candidate
\* to be the last known good.
THEOREM LockShutsTheGates == Spec => []GateShutUnderLock
<1>1. HoldInv => GateShutUnderLock
    BY DEF HoldInv, GateShutUnderLock, Lit
<1> QED BY <1>1, GatesInvariant, PTL

-----------------------------------------------------------------------------
(* What is ahead of production.  A new train is chosen only by a pass that *)
(* saw production at main, when nothing was ahead; from then on the merged *)
(* pull requests and those still in the train never exceed that train.     *)

\* Less than what may be ahead may be ahead.
LEMMA FitsSmaller == ASSUME NEW T, Fits(T), NEW S \in SUBSET T PROVE Fits(S)
<1>1. IsFiniteSet(T) /\ T \subseteq PRs
    BY FS_Subset, QueueAssumption DEF Fits
<1>2. IsFiniteSet(S) /\ Cardinality(S) <= Cardinality(T)
    BY <1>1, FS_Subset
<1>3. Cardinality(S) \in Nat /\ Cardinality(T) \in Nat
    BY <1>1, <1>2, FS_CardinalityType
<1>4. Cardinality(S) <= BatchSize
    BY <1>2, <1>3, QueueAssumption DEF Fits
<1> QED BY <1>4 DEF Fits

\* The empty train holds no pull request.
LEMMA EmptyRange == Range(<<>>) = {}
BY DEF Range

\* Nothing undoes a merge.
LEMMA MergesStay ==
    ASSUME TypeInv, [Next]_vars
    PROVE  Settled
<1>0. pr \in [PRs -> PullRequests]
    BY DEF TypeInv, World
<1>1. CASE pr' = pr
    BY <1>1 DEF Settled
<1>2. ASSUME NEW p, NEW sha, NEW g, pr' = Gated(p, sha, g) PROVE Settled
    BY <1>0, <1>2 DEF Gated, Settled, PullRequests
<1>3. ASSUME NEW p, pr' = Merged(p) PROVE Settled
    BY <1>0, <1>3 DEF Merged, Settled, PullRequests
<1>4. ASSUME NEW p, NEW m, NEW files, pr' = Pushed(p, m, files) PROVE Settled
    BY <1>0, <1>4 DEF Pushed, Settled, PullRequests
<1>5. CASE PassStep
    <2>1. CASE Start \/ ReadLkg \/ List \/ Fresh \/ Checkpoint \/ Finish \/ Save
        BY <1>1, <2>1 DEF Start, ReadLkg, List, Fresh, Checkpoint, Finish, Save, Local, github
    <2>2. CASE Sweep
        BY <1>1, <1>2, <2>2 DEF Sweep
    <2>3. CASE Recover \/ Decide \/ OpenGate
        BY <1>1, <1>2, <2>3 DEF Recover, Decide, OpenGate, Hold
    <2>4. CASE Update \/ Merge
        BY <1>1, <1>3, <1>4, <2>4 DEF Update, Merge
    <2> QED BY <1>5, <2>1, <2>2, <2>3, <2>4 DEF PassStep
<1>6. ASSUME NEW p \in PRs,
             \/ CheckReports(p) \/ MergeByHand(p) \/ Push(p) \/ Close(p)
             \/ \E m \in Mergeability[p] : Recompute(p, m)
      PROVE  Settled
    <2>1. CASE CheckReports(p) \/ Close(p) \/ \E m \in Mergeability[p] : Recompute(p, m)
        BY <1>0, <2>1 DEF CheckReports, Close, Recompute, Settled, Open, PullRequests
    <2> QED BY <1>3, <1>4, <1>6, <2>1 DEF MergeByHand, Push
<1>7. CASE ExternalMerge
    BY <1>0, <1>7 DEF ExternalMerge, Settled, PullRequests
<1>8. CASE ReadLkgUnknown \/ Abort \/ RollBack \/ (\E r \in 0 .. main : Accept(r)) \/ UNCHANGED vars
    BY <1>1, <1>8 DEF ReadLkgUnknown, Abort, RollBack, Accept, vars
<1> QED BY <1>5, <1>6, <1>7, <1>8 DEF Next

\* Steps that add nothing to what is ahead, or to the trains.
LEMMA AheadKept ==
    ASSUME TypeInv, TypeInv', AheadInv, Settled, TrainKnown',
           ahead' \subseteq ahead, \A x \in ahead' : x.rev > lkg',
           \/ Range(store'.train) \subseteq Range(store.train)
           \/ Range(store'.train) \subseteq Range(q.train),
           \/ Range(q'.train) \subseteq Range(store.train)
           \/ Range(q'.train) \subseteq Range(q.train)
    PROVE  AheadInv'
<1>1. AheadOnce'
    BY DEF AheadInv, AheadOnce, Settled, TypeInv, World
<1>2. ASSUME NEW s, NEW t, Range(s) \subseteq Range(t), Fits(Charged(t))
      PROVE  Fits({x.pr : x \in ahead'} \cup Range(s))
    <2>1. {x.pr : x \in ahead'} \cup Range(s) \subseteq Charged(t)
        BY <1>2 DEF Charged
    <2> QED BY <1>2, <2>1, FitsSmaller
<1>3. Fits(Charged(store.train)) /\ Fits(Charged(q.train))
    BY DEF AheadInv
<1>4. Fits(Charged(store.train))'
    <2>1. Fits({x.pr : x \in ahead'} \cup Range(store'.train))
        BY <1>2, <1>3
    <2> QED BY <2>1 DEF Fits, Charged, Overlap
<1>5. Fits(Charged(q.train))'
    <2>1. Fits({x.pr : x \in ahead'} \cup Range(q'.train))
        BY <1>2, <1>3
    <2> QED BY <2>1 DEF Fits, Charged, Overlap
<1> QED BY <1>1, <1>4, <1>5 DEF AheadInv

\* The steps of GitHub, the developers and production.
LEMMA AheadWorld ==
    ASSUME TypeInv, TypeInv', AheadInv, Settled,
           \/ ExternalMerge \/ RollBack \/ (\E r \in 0 .. main : Accept(r))
           \/ \E p \in PRs : \/ CheckReports(p) \/ MergeByHand(p) \/ Push(p) \/ Close(p)
                             \/ \E m \in Mergeability[p] : Recompute(p, m)
    PROVE  AheadInv'
<1>1. UNCHANGED <<store, q>>
    BY DEF ExternalMerge, RollBack, Accept, CheckReports, MergeByHand, Push, Close, Recompute, Move
<1>2. ahead' \subseteq ahead /\ \A x \in ahead' : x.rev > lkg'
    <2>0. /\ \A x \in ahead : x.rev \in Int /\ x.rev > lkg
          /\ lkg \in Int
        BY DEF AheadInv, AheadOnce, TypeInv, World
    <2>1. CASE \E r \in 0 .. main : Accept(r)
        BY <2>1 DEF Accept
    <2>2. CASE RollBack
        BY <2>0, <2>2 DEF RollBack
    <2>3. CASE UNCHANGED <<lkg, ahead>>
        BY <2>0, <2>3
    <2> QED BY <2>1, <2>2, <2>3 DEF ExternalMerge, CheckReports, MergeByHand, Push, Close, Recompute
<1>3. TrainKnown'
    BY <1>1, <1>2 DEF AheadInv, TrainKnown, OnTrain
<1> QED BY <1>1, <1>2, <1>3, AheadKept

\* A pass that reads main and then production, and finds them equal, knows that
\* nothing is ahead.
LEMMA AheadReading ==
    ASSUME TypeInv, TypeInv', AheadInv, Settled, Start \/ ReadLkg \/ ReadLkgUnknown \/ Abort
    PROVE  AheadInv'
<1>0. /\ q \in Passes /\ main \in Nat /\ lkg \in Int
      /\ \A x \in ahead : x.rev \in Int /\ x.rev <= main /\ x.rev > lkg
    BY DEF TypeInv, PassType, World, AheadInv, AheadOnce
<1>1. UNCHANGED <<store, ahead, lkg>>
    BY DEF Start, ReadLkg, ReadLkgUnknown, Abort, Local, github, Outside
<1>2. CASE Start
    <2>1. q'.pc = "lkg" /\ q'.train = store.train /\ q'.main = main
        BY <1>2 DEF Start, NoPass
    <2>2. TrainKnown'
        BY <1>0, <1>1, <2>1 DEF TrainKnown, OnTrain
    <2> QED BY <1>0, <1>1, <2>1, <2>2, AheadKept
<1>3. CASE ReadLkg
    <2>1. /\ q.pc = "lkg" /\ q'.pc = "list" /\ q'.train = q.train /\ q'.main = q.main
          /\ q'.lkg = lkg /\ q.main \in Nat
        BY <1>0, <1>3 DEF ReadLkg, At, Passes
    <2>2. \A x \in ahead : x.rev <= q.main
        BY <2>1 DEF AheadInv, TrainKnown
    <2>3. lkg = q.main => ahead = {}
        BY <1>0, <2>1, <2>2
    <2>4. TrainKnown'
        BY <1>1, <2>1, <2>3 DEF TrainKnown, OnTrain
    <2> QED BY <1>0, <1>1, <2>1, <2>4, AheadKept
<1>4. CASE ReadLkgUnknown
    <2>1. /\ q'.pc = "list" /\ q'.train = q.train /\ q'.main = q.main
          /\ q'.lkg = None /\ q.main \in Nat
        BY <1>0, <1>4 DEF ReadLkgUnknown, Passes
    <2>2. TrainKnown'
        BY <1>1, <2>1 DEF TrainKnown, OnTrain, None
    <2> QED BY <1>0, <1>1, <2>1, <2>2, AheadKept
<1>5. CASE Abort
    <2>1. q'.pc = "idle" /\ q'.train = <<>>
        BY <1>5 DEF Abort, NoPass
    <2>2. TrainKnown'
        BY <2>1 DEF TrainKnown, OnTrain
    <2> QED BY <1>0, <1>1, <2>1, <2>2, EmptyRange, AheadKept
<1> QED BY <1>2, <1>3, <1>4, <1>5

\* The decision: the train goes on, or a new one is chosen with nothing ahead.
LEMMA AheadList ==
    ASSUME TypeInv, TypeInv', AheadInv, Settled, List
    PROVE  AheadInv'
<1> DEFINE lock == LockSeen
           seen == [q EXCEPT !.main = 0, !.lkg = 0, !.lock = lock, !.heads = Heads,
                             !.train = IF lock # None THEN <<>> ELSE q.train]
           first == Min(RecoveryCandidates)
<1>0. /\ q \in Passes /\ Control /\ q.pc = "list" /\ pr \in [PRs -> PullRequests]
      /\ UNCHANGED <<main, pr, lkg, store, ahead, moves, faults>>
    BY DEF TypeInv, PassType, World, List, At
<1>1. /\ lock # None => q.train = <<>>
      /\ lock = None /\ q.train = <<>> => q.main = q.lkg
    BY <1>0, LockSeenFacts
<1>2. seen.train = q.train /\ DOMAIN seen = DOMAIN q
    <2> HIDE DEF lock
    <2> QED BY <1>0, <1>1 DEF Passes
<1>3. \/ q' = [seen EXCEPT !.pc = "recover", !.cur = first, !.sha = pr[first].head]
      \/ q' = SweepThen(seen, Heads, Open, "save")
      \/ q' = [seen EXCEPT !.pc = "fresh"]
      \/ lock = None /\ q.train = <<>> /\ \E t \in Trains : q' = [seen EXCEPT !.pc = "fresh", !.train = t, !.files = Compared(t)]
    BY DEF List, lock, first
<1> HIDE DEF lock, first, seen
<1>4. DOMAIN seen = {"pc", "main", "lkg", "heads", "train", "files", "lock", "cur", "sha",
                     "seen", "todo", "next"}
    BY <1>0, <1>2 DEF Passes
<1>5. q.train = store.train /\ \A x \in ahead : x.rev > lkg
    BY <1>0 DEF Control, AheadInv, AheadOnce
<1>6. CASE q' = [seen EXCEPT !.pc = "recover", !.cur = first, !.sha = pr[first].head]
    <2>1. q'.pc = "recover" /\ q'.train = q.train
        BY <1>2, <1>4, <1>6
    <2>2. TrainKnown'
        BY <2>1 DEF TrainKnown, OnTrain
    <2> QED BY <1>0, <1>5, <2>1, <2>2, AheadKept
<1>7. CASE q' = SweepThen(seen, Heads, Open, "save")
    <2>1. q'.pc = "sweep" /\ q'.next = "save" /\ q'.train = q.train
        BY <1>2, <1>4, <1>7 DEF SweepThen
    <2>2. TrainKnown'
        BY <2>1 DEF TrainKnown, OnTrain
    <2> QED BY <1>0, <1>5, <2>1, <2>2, AheadKept
<1>8. CASE q' = [seen EXCEPT !.pc = "fresh"]
    <2>1. q'.pc = "fresh" /\ q'.train = q.train
        BY <1>2, <1>4, <1>8
    <2>2. TrainKnown'
        BY <1>0, <1>5, <2>1 DEF TrainKnown, OnTrain
    <2> QED BY <1>0, <1>5, <2>1, <2>2, AheadKept
<1>9. ASSUME NEW t \in Trains, lock = None, q.train = <<>>, q' = [seen EXCEPT !.pc = "fresh", !.train = t, !.files = Compared(t)]
      PROVE  AheadInv'
    <2>1. q'.pc = "fresh" /\ q'.train = t
        BY <1>2, <1>4, <1>9
    <2>2. ahead = {} /\ ahead' = {}
        BY <1>0, <1>1, <1>9 DEF AheadInv, TrainKnown
    <2>3. store'.train = <<>>
        BY <1>0, <1>5, <1>9
    <2>4. TrainKnown'
        BY <2>1, <2>2, <2>3 DEF TrainKnown, OnTrain
    <2>5. /\ t \in Seq(PRs) /\ Len(t) <= BatchSize
          /\ \A a, b \in Range(t) : a # b => ~Overlap(a, b)
        BY <1>0, TrainFacts
    <2>6. Fits(Range(t))
        <3>1. /\ Range(t) \subseteq PRs /\ Cardinality(Range(t)) <= Len(t)
              /\ Cardinality(Range(t)) \in Nat /\ Len(t) \in Nat
            BY <2>5, RangeSize, FS_CardinalityType, LenProperties
        <3>2. Cardinality(Range(t)) <= BatchSize
            BY <2>5, <3>1, QueueAssumption
        <3> QED BY <2>5, <3>1, <3>2 DEF Fits
    <2>7. Fits({})
        BY <2>6, FitsSmaller
    <2>8. Fits(Charged(q.train))'
        <3>1. {x.pr : x \in ahead'} \cup Range(q'.train) = Range(t)
            BY <2>1, <2>2
        <3> QED BY <2>6, <3>1 DEF Fits, Charged, Overlap
    <2>9. Fits(Charged(store.train))'
        <3>1. {x.pr : x \in ahead'} \cup Range(store'.train) = {}
            BY <2>2, <2>3, EmptyRange
        <3> QED BY <2>7, <3>1 DEF Fits, Charged, Overlap
    <2> QED BY <2>2, <2>4, <2>8, <2>9 DEF AheadInv, AheadOnce
<1> QED BY <1>3, <1>6, <1>7, <1>8, <1>9

\* A pass that goes on with its train, or drops its first pull request.
LEMMA AheadOn ==
    ASSUME TypeInv, TypeInv', AheadInv, Settled,
           Sweep \/ Recover \/ Fresh \/ Decide \/ Update \/ OpenGate
    PROVE  AheadInv'
<1>0. /\ q \in Passes /\ Control /\ UNCHANGED <<main, lkg, store, ahead>>
      /\ \A x \in ahead : x.rev > lkg
    BY DEF TypeInv, PassType, Sweep, Recover, Fresh, Decide, Update, OpenGate, Local, github,
        Outside, AheadInv, AheadOnce
<1>1. ASSUME q' = [Rest EXCEPT !.pc = AfterRest], q.train # <<>> PROVE AheadInv'
    <2>1. /\ q' = [q EXCEPT !.train = Tail(q.train), !.pc = AfterRest]
          /\ AfterRest \in {"finish", "save"}
        BY <1>0, <1>1, RestType
    <2> DEFINE pc == AfterRest
    <2>2. q' = [q EXCEPT !.train = Tail(q.train), !.pc = pc] /\ pc \in {"finish", "save"}
        BY <2>1
    <2> HIDE DEF pc
    <2>3. q'.pc \in {"finish", "save"} /\ q'.train = Tail(q.train)
        BY <1>0, <2>2 DEF Passes
    <2>4. Range(Tail(q.train)) \subseteq Range(q.train)
        BY <1>0, <1>1, TailFacts DEF Passes
    <2>5. TrainKnown'
        BY <2>3 DEF TrainKnown, OnTrain
    <2> QED BY <1>0, <2>3, <2>4, <2>5, AheadKept
<1>2. ASSUME q'.train = q.train, q'.pc \notin {"lkg", "list"},
             q'.pc = "fresh" \/ OnTrain' => q.pc = "fresh" \/ OnTrain
      PROVE  AheadInv'
    <2>1. TrainKnown'
        BY <1>0, <1>2 DEF AheadInv, TrainKnown
    <2> QED BY <1>0, <1>2, <2>1, AheadKept
<1>3. CASE Sweep
    <2>1. /\ q.pc = "sweep" /\ q.next \in {"decide", "save"}
          /\ q'.train = q.train /\ q'.next = q.next /\ q'.pc \in {"sweep", q.next}
        BY <1>0, <1>3 DEF Sweep, At, Control, Passes
    <2>2. OnTrain' => OnTrain
        BY <2>1 DEF OnTrain
    <2> QED BY <1>2, <2>1, <2>2
<1>4. CASE Recover
    <2>1. q.pc = "recover" /\ q'.train = q.train /\ q'.pc \in {"gate", "save"} /\ q'.lock = q.lock
        BY <1>0, <1>4 DEF Recover, Hold, At, Passes
    <2>2. ~OnTrain'
        BY <1>0, <2>1 DEF OnTrain, OnRecovery, Control
    <2> QED BY <1>2, <2>1, <2>2
<1>5. CASE Fresh
    <2>1. q.pc = "fresh" /\ q.train # <<>>
        BY <1>0, <1>5 DEF Fresh, At, Control
    <2>2. CASE Head(q.train) \in Open
        <3>1. q'.pc = "sweep" /\ q'.train = q.train
            BY <1>0, <1>5, <2>2 DEF Fresh, SweepThen, Passes
        <3> QED BY <1>2, <2>1, <3>1
    <2>3. CASE Head(q.train) \notin Open
        BY <1>1, <1>5, <2>1, <2>3 DEF Fresh
    <2> QED BY <2>2, <2>3
<1>6. CASE Decide
    <2>1. q.pc = "decide" /\ q.train # <<>> /\ OnTrain
        BY <1>0, <1>6 DEF Decide, At, Control, OnTrain
    <2>2. CASE q' = [Rest EXCEPT !.pc = AfterRest]
        BY <1>1, <2>1, <2>2
    <2>3. CASE \E pc \in {"gate", "update", "save"} : q' = [q EXCEPT !.pc = pc]
        <3>1. q'.pc \in {"gate", "update", "save"} /\ q'.train = q.train
            BY <1>0, <2>3 DEF Passes
        <3> QED BY <1>2, <2>1, <3>1
    <2> QED BY <1>6, <2>2, <2>3 DEF Decide, Hold
<1>7. CASE Update
    <2>1. q.pc = "update" /\ q.train # <<>> /\ OnTrain
        BY <1>0, <1>7 DEF Update, At, Control, OnTrain
    <2>2. CASE q' = [Rest EXCEPT !.pc = AfterRest]
        BY <1>1, <2>1, <2>2
    <2>3. CASE q' = [q EXCEPT !.pc = "save"]
        <3>1. q'.pc = "save" /\ q'.train = q.train
            BY <1>0, <2>3 DEF Passes
        <3> QED BY <1>2, <2>1, <3>1
    <2> QED BY <1>7, <2>2, <2>3 DEF Update
<1>8. CASE OpenGate
    <2>1. q.pc = "gate" /\ q'.pc = "merge" /\ q'.train = q.train /\ q'.lock = q.lock
        BY <1>0, <1>8 DEF OpenGate, At, Passes
    <2>2. OnTrain' => OnTrain
        BY <2>1 DEF OnTrain
    <2> QED BY <1>2, <2>1, <2>2
<1> QED BY <1>3, <1>4, <1>5, <1>6, <1>7, <1>8

\* A merge moves a pull request of the train to those ahead of production; the
\* stored train, where it is not empty, is the one the pass works on.
LEMMA AheadStore ==
    ASSUME TypeInv, TypeInv', AheadInv, Settled, Merge \/ Checkpoint \/ Finish \/ Save
    PROVE  AheadInv'
<1>0. /\ q \in Passes /\ Control /\ lkg' = lkg /\ main \in Nat /\ lkg \in 0 .. main
      /\ pr \in [PRs -> PullRequests] /\ \A x \in ahead : x.rev > lkg
    BY DEF TypeInv, PassType, World, Merge, Checkpoint, Finish, Save, Local, github,
        Outside, AheadInv, AheadOnce
<1>1. CASE Merge /\ q' = NoPass /\ UNCHANGED ahead
    <2>1. q'.pc = "idle" /\ q'.train = <<>> /\ store' = store
        BY <1>1 DEF Merge, NoPass
    <2>2. TrainKnown'
        BY <2>1 DEF TrainKnown, OnTrain
    <2> QED BY <1>0, <1>1, <2>1, <2>2, EmptyRange, AheadKept
<1>2. CASE Merge /\ q' = [q EXCEPT !.pc = "checkpoint", !.lock = main + 1] /\ UNCHANGED ahead
    <2>1. q'.pc = "checkpoint" /\ q'.train = q.train /\ store' = store
        BY <1>0, <1>2 DEF Merge, Passes
    <2>2. TrainKnown'
        BY <2>1 DEF TrainKnown, OnTrain
    <2> QED BY <1>0, <1>2, <2>1, <2>2, AheadKept
<1>3. CASE /\ Merge /\ q.lock = None /\ q.cur \in Open /\ q' = [Rest EXCEPT !.pc = AfterRest]
           /\ main' = main + 1 /\ pr' = Merged(q.cur)
           /\ ahead' = ahead \cup {Ahead(q.cur, main + 1)}
    <2>1. store' = store /\ q.pc = "merge" /\ OnTrain
        BY <1>3 DEF Merge, At, OnTrain
    <2>2. /\ q.train # <<>> /\ q.cur = Head(q.train) /\ q.train \in Seq(PRs)
          /\ store.train \in {<<>>, q.train}
        BY <1>0, <2>1 DEF Control, AheadInv, TrainKnown, Passes
    <2>3. /\ q' = [q EXCEPT !.train = Tail(q.train), !.pc = AfterRest]
          /\ AfterRest \in {"finish", "save"}
        BY <1>0, <1>3, <2>2, RestType
    <2>4. q'.pc \in {"finish", "save"} /\ q'.train = Tail(q.train)
        <3> DEFINE pc == AfterRest
        <3>1. q' = [q EXCEPT !.train = Tail(q.train), !.pc = pc] /\ pc \in {"finish", "save"}
            BY <2>3
        <3> HIDE DEF pc
        <3> QED BY <1>0, <3>1 DEF Passes
    <2>5. TrainKnown'
        BY <2>4 DEF TrainKnown, OnTrain
    <2>6. Range(q.train) = Range(Tail(q.train)) \cup {q.cur}
        BY <2>2, TailFacts
    <2> DEFINE new == Ahead(q.cur, main + 1)
    <2>n. new.pr = q.cur /\ new.rev = main + 1
        BY DEF Ahead
    <2> HIDE DEF new
    <2>m. ahead' = ahead \cup {new}
        BY <1>3 DEF new
    <2>7. q.cur \in PRs /\ pr'[q.cur].state = "merged" /\ pr[q.cur].state = "open"
        BY <1>0, <1>3 DEF Merged, Open, PullRequests
    <2>8. AheadOnce'
        <3>1. ASSUME NEW x \in ahead PROVE x.rev > lkg' /\ pr'[x.pr].state = "merged" /\ x.pr # q.cur
            <4>1. x.pr \in PRs /\ x.rev > lkg /\ pr[x.pr].state = "merged"
                BY DEF AheadInv, AheadOnce, TypeInv, World
            <4> QED BY <1>0, <2>7, <4>1 DEF Settled
        <3>2. new.rev > lkg' /\ pr'[new.pr].state = "merged"
            BY <1>0, <2>7, <2>n
        <3>3. ASSUME NEW x \in ahead', NEW y \in ahead', x.pr = y.pr PROVE x = y
            BY <2>m, <2>n, <3>1, <3>3 DEF AheadInv, AheadOnce
        <3>4. ASSUME NEW x \in ahead' PROVE x.rev > lkg' /\ pr'[x.pr].state = "merged"
            BY <2>m, <3>1, <3>2
        <3> QED BY <3>3, <3>4 DEF AheadOnce
    <2>9. {x.pr : x \in ahead'} \subseteq {x.pr : x \in ahead} \cup {q.cur}
        <3>1. ASSUME NEW x \in ahead' PROVE x.pr \in {y.pr : y \in ahead} \cup {q.cur}
            <4>1. CASE x \in ahead
                BY <4>1
            <4>2. CASE x = new
                BY <2>n, <4>2
            <4> QED BY <2>m, <4>1, <4>2
        <3> QED BY <3>1
    <2>10. Fits(Charged(q.train))
        BY DEF AheadInv
    <2>11. Fits(Charged(q.train))'
        <3>1. {x.pr : x \in ahead'} \cup Range(q'.train) \subseteq Charged(q.train)
            BY <2>4, <2>6, <2>9 DEF Charged
        <3>2. Fits({x.pr : x \in ahead'} \cup Range(q'.train))
            BY <2>10, <3>1, FitsSmaller
        <3> QED BY <3>2 DEF Fits, Charged, Overlap
    <2>12. Fits(Charged(store.train))'
        <3>1. {x.pr : x \in ahead'} \cup Range(store'.train) \subseteq Charged(q.train)
            BY <2>1, <2>2, <2>6, <2>9, EmptyRange DEF Charged
        <3>2. Fits({x.pr : x \in ahead'} \cup Range(store'.train))
            BY <2>10, <3>1, FitsSmaller
        <3> QED BY <3>2 DEF Fits, Charged, Overlap
    <2> QED BY <2>5, <2>8, <2>11, <2>12 DEF AheadInv
<1>4. CASE Checkpoint
    <2>1. /\ q'.pc = "sweep" /\ q'.next = "save" /\ q'.train = q.train /\ ahead' = ahead
          /\ store'.train = q.train
        BY <1>0, <1>4 DEF Checkpoint, SweepThen, Stored, Passes
    <2>2. TrainKnown'
        BY <2>1 DEF TrainKnown, OnTrain
    <2> QED BY <1>0, <2>1, <2>2, AheadKept
<1>5. CASE Finish
    <2>1. /\ q'.pc = "sweep" /\ q'.next = "save" /\ q'.train = q.train /\ ahead' = ahead
          /\ store' = store
        BY <1>0, <1>5 DEF Finish, SweepThen, Local, github, Outside, Passes
    <2>2. TrainKnown'
        BY <2>1 DEF TrainKnown, OnTrain
    <2> QED BY <1>0, <2>1, <2>2, AheadKept
<1>6. CASE Save
    <2>1. /\ q'.pc = "idle" /\ q'.train = <<>> /\ ahead' = ahead /\ store'.train = q.train
        BY <1>6 DEF Save, Stored, NoPass
    <2>2. TrainKnown'
        BY <2>1 DEF TrainKnown, OnTrain
    <2> QED BY <1>0, <2>1, <2>2, EmptyRange, AheadKept
<1> QED BY <1>1, <1>2, <1>3, <1>4, <1>5, <1>6 DEF Merge, Mergeable

\* Nothing is ahead initially.
LEMMA AheadInit == Init => AheadInv
<1> SUFFICES ASSUME Init PROVE AheadInv
    OBVIOUS
<1>1. q.pc = "idle" /\ q.train = <<>> /\ store.train = <<>> /\ ahead = {}
    BY DEF Init, NoPass
<1>2. Charged(<<>>) = {}
    BY <1>1, EmptyRange DEF Charged
<1>3. Fits({})
    BY FS_EmptySet, QueueAssumption DEF Fits
<1> QED BY <1>1, <1>2, <1>3 DEF AheadInv, AheadOnce, TrainKnown, OnTrain

\* Every step keeps what is ahead, and what is still to come, within one train.
LEMMA AheadStep == TypeInv /\ TypeInv' /\ AheadInv /\ [Next]_vars => AheadInv'
<1> SUFFICES ASSUME TypeInv, TypeInv', AheadInv, [Next]_vars PROVE AheadInv'
    OBVIOUS
<1>1. Settled
    BY MergesStay
<1>2. CASE Next
    BY <1>1, <1>2, AheadWorld, AheadReading, AheadList, AheadOn, AheadStore DEF Next, PassStep
<1>3. CASE UNCHANGED vars
    <2>1. TrainKnown' /\ UNCHANGED <<ahead, lkg, store, q>>
        BY <1>3 DEF vars, AheadInv, TrainKnown, OnTrain
    <2>2. \A x \in ahead : x.rev > lkg
        BY DEF AheadInv, AheadOnce
    <2> QED BY <1>1, <2>1, <2>2, AheadKept
<1> QED BY <1>2, <1>3

\* Hence it stays so.
LEMMA AheadInvariant == Spec => [](TypeInv /\ AheadInv)
<1> QED BY TypeInvariant, AheadInit, AheadStep, PTL DEF Spec

\* Wherever passes are cut off, the queue never merges more ordinary pull requests
\* past what production accepted than one train holds: for any batch size, any
\* number of pull requests, lost passes, pushes, rollbacks and merges by hand.
THEOREM OneTrainAtATime == Spec => []OneTrainAhead
<1>1. TypeInv /\ AheadInv => OneTrainAhead
    <2> SUFFICES ASSUME TypeInv, AheadInv PROVE Cardinality(ahead) <= BatchSize
        BY DEF OneTrainAhead
    <2> DEFINE S == {x.pr : x \in ahead}
               f == [x \in ahead |-> x.pr]
    <2>1. Fits(S)
        BY FitsSmaller DEF AheadInv, Charged
    <2>2. IsFiniteSet(S)
        BY <2>1, FS_Subset, QueueAssumption DEF Fits
    <2>3. f \in Injection(ahead, S)
        <3>1. \A x, y \in ahead : x.pr = y.pr => x = y
            BY DEF AheadInv, AheadOnce
        <3>2. f \in [ahead -> S]
            OBVIOUS
        <3>3. \A x, y \in ahead : f[x] = f[y] => x = y
            BY <3>1
        <3> HIDE DEF S, f
        <3> QED BY <3>2, <3>3 DEF Injection, IsInjective
    <2> HIDE DEF S, f
    <2>4. IsFiniteSet(ahead) /\ Cardinality(ahead) <= Cardinality(S)
        BY <2>2, <2>3, FS_Injection
    <2>5. Cardinality(ahead) \in Nat /\ Cardinality(S) \in Nat
        BY <2>2, <2>4, FS_CardinalityType
    <2> QED BY <2>1, <2>4, <2>5, QueueAssumption DEF Fits
<1> QED BY <1>1, AheadInvariant, PTL

\* Steps that add nothing to what is ahead, or to the trains, and keep what was
\* compared.
LEMMA ApartKept ==
    ASSUME ApartInv, ahead' \subseteq ahead,
           \/ Range(q'.train) \subseteq Range(q.train) /\ q'.files = q.files
           \/ q'.train = store.train /\ q'.files = store.files
           \/ q'.train = <<>>,
           \/ store' = store
           \/ store'.train = q.train /\ (q.train # <<>> => store'.files = q.files),
           q'.pc = "fresh" \/ OnTrain' => store'.train = <<>> \/ store'.files = q'.files
    PROVE  ApartInv'
<1>1. ASSUME NEW t, NEW f, NEW s, NEW g, Apart(t, f), Range(s) \subseteq Range(t),
             \A p \in Range(s) : g[p] = f[p]
      PROVE  /\ \A x, y \in ahead' : x # y => x.compared \cap y.compared = {}
             /\ \A x \in ahead', p \in Range(s) : x.pr # p => x.compared \cap g[p] = {}
             /\ \A p, r \in Range(s) : p # r => g[p] \cap g[r] = {}
    BY <1>1 DEF Apart
<1>2. Apart(q.train, q.files) /\ Apart(store.train, store.files)
    BY DEF ApartInv
<1>3. Apart(q.train, q.files)'
    <2>1. CASE Range(q'.train) \subseteq Range(q.train) /\ q'.files = q.files
        BY <1>1, <1>2, <2>1 DEF Apart
    <2>2. CASE q'.train = store.train /\ q'.files = store.files
        BY <1>1, <1>2, <2>2 DEF Apart
    <2>3. CASE q'.train = <<>>
        BY <1>1, <1>2, <2>3, EmptyRange DEF Apart
    <2> QED BY <2>1, <2>2, <2>3
<1>4. Apart(store.train, store.files)'
    <2>1. CASE store' = store
        BY <1>1, <1>2, <2>1 DEF Apart
    <2>2. CASE store'.train = q.train /\ q.train # <<>> /\ store'.files = q.files
        BY <1>1, <1>2, <2>2 DEF Apart
    <2>3. CASE store'.train = <<>>
        BY <1>1, <1>2, <2>3, EmptyRange DEF Apart
    <2> QED BY <2>1, <2>2, <2>3
<1> QED BY <1>3, <1>4 DEF ApartInv

\* A new train is disjoint by what was compared, and nothing is ahead.
LEMMA ApartList ==
    ASSUME TypeInv, AheadInv, ApartInv, List
    PROVE  ApartInv'
<1> DEFINE lock == LockSeen
           seen == [q EXCEPT !.main = 0, !.lkg = 0, !.lock = lock, !.heads = Heads,
                             !.train = IF lock # None THEN <<>> ELSE q.train]
           first == Min(RecoveryCandidates)
<1>0. /\ q \in Passes /\ Control /\ q.pc = "list" /\ pr \in [PRs -> PullRequests]
      /\ UNCHANGED <<store, ahead>>
    BY DEF TypeInv, PassType, World, List, At
<1>1. /\ lock # None => q.train = <<>>
      /\ lock = None /\ q.train = <<>> => q.main = q.lkg
    BY <1>0, LockSeenFacts
<1>2. seen.train = q.train /\ seen.files = q.files /\ DOMAIN seen = DOMAIN q
    <2> HIDE DEF lock
    <2> QED BY <1>0, <1>1 DEF Passes
<1>3. \/ q' = [seen EXCEPT !.pc = "recover", !.cur = first, !.sha = pr[first].head]
      \/ q' = SweepThen(seen, Heads, Open, "save")
      \/ q' = [seen EXCEPT !.pc = "fresh"]
      \/ /\ lock = None /\ q.train = <<>>
         /\ \E t \in Trains : q' = [seen EXCEPT !.pc = "fresh", !.train = t, !.files = Compared(t)]
    BY DEF List, lock, first
<1> HIDE DEF lock, first, seen
<1>4. DOMAIN seen = {"pc", "main", "lkg", "heads", "train", "files", "lock", "cur", "sha",
                     "seen", "todo", "next"}
    BY <1>0, <1>2 DEF Passes
<1>5. q.train = store.train /\ q.files = store.files
    BY <1>0 DEF Control
<1>6. CASE \/ q' = [seen EXCEPT !.pc = "recover", !.cur = first, !.sha = pr[first].head]
           \/ q' = SweepThen(seen, Heads, Open, "save")
           \/ q' = [seen EXCEPT !.pc = "fresh"]
    <2>1. q'.train = q.train /\ q'.files = q.files
        BY <1>2, <1>4, <1>6 DEF SweepThen
    <2> QED BY <1>0, <1>5, <2>1, ApartKept
<1>7. ASSUME NEW t \in Trains, lock = None, q.train = <<>>,
             q' = [seen EXCEPT !.pc = "fresh", !.train = t, !.files = Compared(t)]
      PROVE  ApartInv'
    <2>1. q'.train = t /\ q'.files = Compared(t)
        BY <1>4, <1>7
    <2>2. ahead' = {} /\ store'.train = <<>>
        BY <1>0, <1>1, <1>5, <1>7 DEF AheadInv, TrainKnown
    <2>3. /\ t \in Seq(PRs) /\ Range(t) \subseteq PRs
          /\ \A a, b \in Range(t) : a # b => ~Overlap(a, b)
        BY <1>0, TrainFacts, RangeSize
    <2>4. \A a \in Range(t) : Compared(t)[a] = pr[a].files
        BY <2>3 DEF Compared
    <2>5. \A a, b \in Range(t) : a # b => Compared(t)[a] \cap Compared(t)[b] = {}
        BY <2>3, <2>4 DEF Overlap
    <2>6. Apart(q.train, q.files)'
        BY <2>1, <2>2, <2>5 DEF Apart
    <2>7. Apart(store.train, store.files)'
        BY <2>2, EmptyRange DEF Apart
    <2> QED BY <2>2, <2>6, <2>7 DEF ApartInv
<1> QED BY <1>3, <1>6, <1>7

\* The steps that work on the train, or on a recovery.
LEMMA ApartOn ==
    ASSUME TypeInv, AheadInv, ApartInv,
           Sweep \/ Recover \/ Fresh \/ Decide \/ Update \/ OpenGate
    PROVE  ApartInv'
<1>0. /\ q \in Passes /\ Control /\ UNCHANGED <<store, ahead>>
    BY DEF TypeInv, PassType, Sweep, Recover, Fresh, Decide, Update, OpenGate, Local, github,
        Outside
<1>1. ASSUME q' = [Rest EXCEPT !.pc = AfterRest], q.train # <<>> PROVE ApartInv'
    <2>1. /\ q' = [q EXCEPT !.train = Tail(q.train), !.pc = AfterRest]
          /\ AfterRest \in {"finish", "save"}
        BY <1>0, <1>1, RestType
    <2> DEFINE pc == AfterRest
    <2>2. q' = [q EXCEPT !.train = Tail(q.train), !.pc = pc] /\ pc \in {"finish", "save"}
        BY <2>1
    <2> HIDE DEF pc
    <2>3. q'.pc \in {"finish", "save"} /\ q'.train = Tail(q.train) /\ q'.files = q.files
        BY <1>0, <2>2 DEF Passes
    <2>4. Range(Tail(q.train)) \subseteq Range(q.train)
        BY <1>0, <1>1, TailFacts DEF Passes
    <2> QED BY <1>0, <2>3, <2>4, ApartKept DEF OnTrain
<1>2. ASSUME q'.train = q.train, q'.files = q.files,
             q'.pc = "fresh" \/ OnTrain' => q.pc = "fresh" \/ OnTrain
      PROVE  ApartInv'
    <2>1. q'.pc = "fresh" \/ OnTrain' => store'.train = <<>> \/ store'.files = q'.files
        BY <1>0, <1>2 DEF ApartInv
    <2> QED BY <1>0, <1>2, <2>1, ApartKept
<1>3. CASE Sweep
    <2>1. /\ q.pc = "sweep" /\ q.next \in {"decide", "save"} /\ q'.files = q.files
          /\ q'.train = q.train /\ q'.next = q.next /\ q'.pc \in {"sweep", q.next}
        BY <1>0, <1>3 DEF Sweep, At, Control, Passes
    <2> QED BY <1>2, <2>1 DEF OnTrain
<1>4. CASE Recover
    <2>1. /\ q.pc = "recover" /\ q'.train = q.train /\ q'.files = q.files
          /\ q'.pc \in {"gate", "save"} /\ q'.lock = q.lock
        BY <1>0, <1>4 DEF Recover, Hold, At, Passes
    <2>2. ~OnTrain'
        BY <1>0, <2>1 DEF OnTrain, OnRecovery, Control
    <2> QED BY <1>2, <2>1, <2>2
<1>5. CASE Fresh
    <2>1. q.pc = "fresh" /\ q.train # <<>>
        BY <1>0, <1>5 DEF Fresh, At, Control
    <2>2. CASE Head(q.train) \in Open
        <3>1. q'.train = q.train /\ q'.files = q.files
            BY <1>0, <1>5, <2>2 DEF Fresh, SweepThen, Passes
        <3> QED BY <1>2, <2>1, <3>1
    <2>3. CASE Head(q.train) \notin Open
        BY <1>1, <1>5, <2>1, <2>3 DEF Fresh
    <2> QED BY <2>2, <2>3
<1>6. CASE Decide \/ Update
    <2>1. q.train # <<>> /\ OnTrain
        BY <1>0, <1>6 DEF Decide, Update, At, Control, OnTrain
    <2>2. CASE q' = [Rest EXCEPT !.pc = AfterRest]
        BY <1>1, <2>1, <2>2
    <2>3. CASE \E pc \in {"gate", "update", "save"} : q' = [q EXCEPT !.pc = pc]
        <3>1. q'.train = q.train /\ q'.files = q.files
            BY <1>0, <2>3 DEF Passes
        <3> QED BY <1>2, <2>1, <3>1
    <2> QED BY <1>6, <2>2, <2>3 DEF Decide, Update, Hold
<1>7. CASE OpenGate
    <2>1. /\ q.pc = "gate" /\ q'.pc = "merge" /\ q'.train = q.train /\ q'.files = q.files
          /\ q'.lock = q.lock
        BY <1>0, <1>7 DEF OpenGate, At, Passes
    <2> QED BY <1>2, <2>1 DEF OnTrain
<1> QED BY <1>3, <1>4, <1>5, <1>6, <1>7

\* A merge brings the first pull request of the train, with what it was compared
\* by, to what is ahead; the stored train was compared with it.
LEMMA ApartStore ==
    ASSUME TypeInv, AheadInv, ApartInv, Merge \/ Checkpoint \/ Finish \/ Save
    PROVE  ApartInv'
<1>0. q \in Passes /\ Control /\ pr \in [PRs -> PullRequests]
    BY DEF TypeInv, PassType, World
<1>1. CASE Merge /\ q' = NoPass /\ UNCHANGED ahead
    <2>1. q'.pc = "idle" /\ q'.train = <<>> /\ store' = store
        BY <1>1 DEF Merge, NoPass
    <2> QED BY <1>1, <2>1, ApartKept DEF OnTrain
<1>2. CASE Merge /\ q' = [q EXCEPT !.pc = "checkpoint", !.lock = main + 1] /\ UNCHANGED ahead
    <2>1. q'.pc = "checkpoint" /\ q'.train = q.train /\ q'.files = q.files /\ store' = store
        BY <1>0, <1>2 DEF Merge, Passes
    <2> QED BY <1>2, <2>1, ApartKept DEF OnTrain
<1>3. CASE /\ Merge /\ q.lock = None /\ q.cur \in Open /\ q' = [Rest EXCEPT !.pc = AfterRest]
           /\ ahead' = ahead \cup {Ahead(q.cur, main + 1)}
    <2>1. store' = store /\ q.pc = "merge" /\ OnTrain
        BY <1>3 DEF Merge, At, OnTrain
    <2>2. /\ q.train # <<>> /\ q.cur = Head(q.train) /\ q.train \in Seq(PRs)
          /\ store.train = <<>> \/ (store.train = q.train /\ store.files = q.files)
        BY <1>0, <2>1 DEF Control, AheadInv, ApartInv, TrainKnown, Passes
    <2>3. /\ q' = [q EXCEPT !.train = Tail(q.train), !.pc = AfterRest]
          /\ AfterRest \in {"finish", "save"}
        BY <1>0, <1>3, <2>2, RestType
    <2>4. q'.pc \in {"finish", "save"} /\ q'.train = Tail(q.train) /\ q'.files = q.files
        <3> DEFINE pc == AfterRest
        <3>1. q' = [q EXCEPT !.train = Tail(q.train), !.pc = pc] /\ pc \in {"finish", "save"}
            BY <2>3
        <3> HIDE DEF pc
        <3> QED BY <1>0, <3>1 DEF Passes
    <2>5. Range(q.train) = Range(Tail(q.train)) \cup {q.cur}
        BY <2>2, TailFacts
    <2> DEFINE new == Ahead(q.cur, main + 1)
    <2>6. new.pr = q.cur /\ new.compared = q.files[q.cur]
        BY DEF Ahead
    <2> HIDE DEF new
    <2>7. ahead' = ahead \cup {new}
        BY <1>3 DEF new
    <2>8. \A x \in ahead : x.pr # q.cur
        <3>1. \A x \in ahead : x.pr \in PRs /\ pr[x.pr].state = "merged"
            BY DEF AheadInv, AheadOnce, TypeInv, World
        <3> QED BY <1>3, <3>1 DEF Open
    <2>9. Apart(q.train, q.files)
        BY DEF ApartInv
    <2>10. /\ \A x \in ahead : x.compared \cap new.compared = {}
           /\ \A p \in Range(q.train) : p # q.cur => new.compared \cap q.files[p] = {}
        BY <2>5, <2>6, <2>8, <2>9 DEF Apart
    <2>11. ASSUME NEW s, Range(s) \subseteq Range(q.train)
           PROVE  /\ \A x, y \in ahead' : x # y => x.compared \cap y.compared = {}
                  /\ \A x \in ahead', p \in Range(s) : x.pr # p => x.compared \cap q.files[p] = {}
                  /\ \A p, r \in Range(s) : p # r => q.files[p] \cap q.files[r] = {}
        BY <2>6, <2>7, <2>9, <2>10, <2>11 DEF Apart
    <2>12. Apart(q.train, q.files)'
        BY <2>4, <2>5, <2>11 DEF Apart
    <2>13. Apart(store.train, store.files)'
        <3>1. CASE store.train = <<>>
            BY <2>1, <2>11, <3>1, EmptyRange DEF Apart
        <3>2. CASE store.train = q.train /\ store.files = q.files
            BY <2>1, <2>11, <3>2 DEF Apart
        <3> QED BY <2>2, <3>1, <3>2
    <2> QED BY <2>4, <2>12, <2>13 DEF ApartInv, OnTrain
<1>4. CASE Checkpoint
    <2>1. /\ q'.pc = "sweep" /\ q'.next = "save" /\ q'.train = q.train /\ q'.files = q.files
          /\ ahead' = ahead
        BY <1>0, <1>4 DEF Checkpoint, SweepThen, Passes
    <2>2. store'.train = q.train /\ (q.train # <<>> => store'.files = q.files)
        BY <1>4 DEF Checkpoint, Stored
    <2> QED BY <2>1, <2>2, ApartKept DEF OnTrain
<1>5. CASE Finish
    <2>1. /\ q'.pc = "sweep" /\ q'.next = "save" /\ q'.train = q.train /\ q'.files = q.files
          /\ ahead' = ahead /\ store' = store
        BY <1>0, <1>5 DEF Finish, SweepThen, Local, github, Outside, Passes
    <2> QED BY <2>1, ApartKept DEF OnTrain
<1>6. CASE Save
    <2>1. q'.pc = "idle" /\ q'.train = <<>> /\ ahead' = ahead
        BY <1>6 DEF Save, NoPass
    <2>2. store'.train = q.train /\ (q.train # <<>> => store'.files = q.files)
        BY <1>6 DEF Save, Stored
    <2> QED BY <2>1, <2>2, ApartKept DEF OnTrain
<1> QED BY <1>1, <1>2, <1>3, <1>4, <1>5, <1>6 DEF Merge, Mergeable

\* Every step keeps what was compared disjoint.
LEMMA ApartStep == TypeInv /\ AheadInv /\ ApartInv /\ [Next]_vars => ApartInv'
<1> SUFFICES ASSUME TypeInv, AheadInv, ApartInv, [Next]_vars PROVE ApartInv'
    OBVIOUS
<1>0. q \in Passes
    BY DEF TypeInv, PassType
<1>1. CASE \/ ExternalMerge \/ RollBack \/ (\E r \in 0 .. main : Accept(r)) \/ UNCHANGED vars
           \/ \E p \in PRs : \/ CheckReports(p) \/ MergeByHand(p) \/ Push(p) \/ Close(p)
                             \/ \E m \in Mergeability[p] : Recompute(p, m)
    <2>1. UNCHANGED <<store, q>> /\ ahead' \subseteq ahead
        BY <1>1 DEF ExternalMerge, RollBack, Accept, CheckReports, MergeByHand, Push, Close,
            Recompute, Move, vars
    <2>2. OnTrain' <=> OnTrain
        BY <2>1 DEF OnTrain
    <2> QED BY <2>1, <2>2, ApartKept DEF ApartInv
<1>2. CASE Start
    <2>1. q'.pc = "lkg" /\ q'.train = store.train /\ q'.files = store.files
        BY <1>2 DEF Start, NoPass
    <2>2. UNCHANGED <<store, ahead>>
        BY <1>2 DEF Start, Local, github, Outside
    <2> QED BY <2>1, <2>2, ApartKept DEF OnTrain
<1>3. CASE ReadLkg \/ ReadLkgUnknown
    <2>1. q'.pc = "list" /\ q'.train = q.train /\ q'.files = q.files
        BY <1>0, <1>3 DEF ReadLkg, ReadLkgUnknown, Passes
    <2>2. UNCHANGED <<store, ahead>>
        BY <1>3 DEF ReadLkg, ReadLkgUnknown, Local, github, Outside
    <2> QED BY <2>1, <2>2, ApartKept DEF OnTrain
<1>4. CASE Abort
    <2>1. q'.pc = "idle" /\ q'.train = <<>> /\ UNCHANGED <<store, ahead>>
        BY <1>4 DEF Abort, NoPass
    <2> QED BY <2>1, ApartKept DEF OnTrain
<1> QED BY <1>1, <1>2, <1>3, <1>4, ApartList, ApartOn, ApartStore DEF Next, PassStep

\* Nothing is ahead initially, and there is no train.
LEMMA ApartInit == Init => ApartInv
<1> SUFFICES ASSUME Init PROVE ApartInv
    OBVIOUS
<1>1. q.pc = "idle" /\ q.train = <<>> /\ store.train = <<>> /\ ahead = {}
    BY DEF Init, NoPass
<1> QED BY <1>1, EmptyRange DEF ApartInv, Apart, OnTrain

\* Files that two merges past production both touch were added by a push after the
\* comparison: what select_train compared is disjoint over everything the queue has
\* merged past production, wherever passes were cut off and whatever files
\* developers push afterwards.
THEOREM AheadIsDisjoint == Spec => []DisjointAhead
<1>1. ApartInv => DisjointAhead
    BY DEF ApartInv, Apart, DisjointAhead
<1> QED BY <1>1, AheadInvariant, ApartInit, ApartStep, PTL DEF Spec
=============================================================================
