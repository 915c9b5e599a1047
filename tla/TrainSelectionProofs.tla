------------------------- MODULE TrainSelectionProofs --------------------------
(***************************************************************************)
(* What the loop of select_train computes, for any pull requests, files and *)
(* batch size: the one train in which every ready candidate has its place   *)
(* unless it overlaps a more urgent one or the train is full.  Induction is *)
(* by least counterexample throughout.                                      *)
(***************************************************************************)
EXTENDS IntegrationQueueProofs

\* A train of the ready candidates in the sense of Trains, as a sequence
Ordered(t) ==
    \A i, j \in DOMAIN t : i < j => Before(t[i], t[j]) /\ ~Overlap(t[i], t[j])

PassedOver(t, p) ==
    \/ \E i \in DOMAIN t : Before(t[i], p) /\ Overlap(t[i], p)
    \/ Len(t) = BatchSize /\ Before(t[Len(t)], p)

Listed(s) == s \in SetToSeqs(Candidates) /\ \A i, j \in DOMAIN s : i < j => Before(s[i], s[j])

-----------------------------------------------------------------------------
(* The order of the candidates.                                            *)

\* The key of _priority orders the pull requests: recovery first, then by number.
LEMMA BeforeOrders ==
    ASSUME NEW a \in PRs, NEW b \in PRs
    PROVE  /\ ~Before(a, a)
           /\ a # b => Before(a, b) \/ Before(b, a)
           /\ Before(a, b) => ~Before(b, a)
           /\ \A c \in PRs : Before(a, b) /\ Before(b, c) => Before(a, c)
BY QueueAssumption DEF Before

\* Among pull requests there is a most urgent one.
LEMMA FirstExists ==
    ASSUME NEW C \in SUBSET PRs, C # {}
    PROVE  \E p \in C : \A r \in C \ {p} : Before(p, r)
<1>0. PRs \subseteq Nat
    BY QueueAssumption
<1>1. CASE C \cap Recovery # {}
    <2>1. PICK p \in C \cap Recovery : \A r \in C \cap Recovery : p =< r
        BY <1>0, <1>1, LeastNumber
    <2> QED BY <1>0, <2>1 DEF Before
<1>2. CASE C \cap Recovery = {}
    <2>1. PICK p \in C : \A r \in C : p =< r
        BY <1>0, LeastNumber
    <2> QED BY <1>0, <1>2, <2>1 DEF Before
<1> QED BY <1>1, <1>2

\* Any set of pull requests can be put in order.
LEMMA SortExists ==
    ASSUME NEW C \in SUBSET PRs
    PROVE  \E s \in SetToSeqs(C) : \A i, j \in DOMAIN s : i < j => Before(s[i], s[j])
<1> DEFINE Sorts(D, s) == s \in SetToSeqs(D) /\ \A i, j \in DOMAIN s : i < j => Before(s[i], s[j])
           Bad == {n \in Nat : \E D \in SUBSET PRs : Cardinality(D) = n /\ ~\E s : Sorts(D, s)}
<1>0. ASSUME NEW D \in SUBSET PRs PROVE IsFiniteSet(D) /\ Cardinality(D) \in Nat
    BY QueueAssumption, FS_Subset, FS_CardinalityType
<1>1. ASSUME Bad # {} PROVE FALSE
    <2>1. PICK n \in Bad : \A m \in Bad : n =< m
        <3>1. Bad \in SUBSET Nat
            OBVIOUS
        <3> HIDE DEF Bad
        <3> QED BY <1>1, <3>1, LeastNumber
    <2>2. PICK D \in SUBSET PRs : Cardinality(D) = n /\ ~\E s : Sorts(D, s)
        BY <2>1
    <2>3. CASE D = {}
        <3>1. Cardinality(D) = 0
            BY <2>3, FS_EmptySet
        <3>2. Sorts(D, <<>>)
            BY <2>3, <3>1 DEF SetToSeqs
        <3> QED BY <2>2, <3>2
    <2>4. CASE D # {}
        <3>1. PICK p \in D : \A r \in D \ {p} : Before(p, r)
            BY <2>4, FirstExists
        <3>2. Cardinality(D \ {p}) = n - 1 /\ n - 1 \in Nat
            <4>1. IsFiniteSet(D) /\ IsFiniteSet(D \ {p})
                BY <1>0
            <4>2. Cardinality(D \ {p}) = Cardinality(D) - 1
                BY <4>1, FS_RemoveElement
            <4> QED BY <1>0, <2>2, <4>2
        <3>3. PICK s : Sorts(D \ {p}, s)
            <4>1. n - 1 \notin Bad
                BY <2>1, <3>2
            <4> QED BY <3>2, <4>1
        <3> DEFINE u == [i \in 1 .. n |-> IF i = 1 THEN p ELSE s[i - 1]]
        <3>4. /\ s \in [1 .. n - 1 -> D \ {p}]
              /\ \A i, j \in 1 .. n - 1 : i # j => s[i] # s[j]
              /\ \A i, j \in 1 .. n - 1 : i < j => Before(s[i], s[j])
            BY <3>2, <3>3 DEF SetToSeqs
        <3>5. n \in Nat /\ n >= 1
            BY <2>1, <3>2
        <3>6. u \in [1 .. n -> D]
            BY <3>4, <3>5
        <3>7. ASSUME NEW i \in 1 .. n, NEW j \in 1 .. n, i < j
              PROVE  Before(u[i], u[j]) /\ u[i] # u[j]
            <4>1. j - 1 \in 1 .. n - 1 /\ u[j] = s[j - 1]
                BY <3>5, <3>7
            <4>2. CASE i = 1
                BY <3>1, <3>4, <4>1, <4>2
            <4>3. CASE i # 1
                <5>1. i - 1 \in 1 .. n - 1 /\ u[i] = s[i - 1] /\ i - 1 < j - 1
                    BY <3>5, <3>7, <4>3
                <5> QED BY <3>4, <4>1, <5>1
            <4> QED BY <4>2, <4>3
        <3>8. \A i, j \in 1 .. n : i # j => u[i] # u[j]
            <4>1. \A i, j \in 1 .. n : i < j \/ j < i \/ i = j
                BY <3>5
            <4> HIDE DEF u
            <4> QED BY <3>7, <4>1
        <3>9. Sorts(D, u)
            <4>1. DOMAIN u = 1 .. Cardinality(D)
                BY <2>2
            <4> HIDE DEF u
            <4> QED BY <2>2, <3>6, <3>7, <3>8, <4>1 DEF SetToSeqs
        <3> QED BY <2>2, <3>9
    <2> QED BY <2>3, <2>4
<1>2. \E s : Sorts(C, s)
    BY <1>0, <1>1
<1> QED BY <1>2

\* The list that select_train sorts is in order and holds every candidate once.
LEMMA InOrderIsSorted == Listed(InOrder)
<1>1. Candidates \in SUBSET PRs
    BY DEF Candidates, Open
<1> QED BY <1>1, SortExists DEF Listed, InOrder

\* What is known of the list of candidates.
LEMMA ListFacts ==
    ASSUME NEW s, Listed(s)
    PROVE  \E n \in Nat :
              /\ s \in [1 .. n -> PRs] /\ Candidates \subseteq PRs
              /\ \A i \in 1 .. n : s[i] \in Candidates
              /\ \A i, j \in 1 .. n : i < j => Before(s[i], s[j])
              /\ \A p \in Candidates : \E i \in 1 .. n : s[i] = p
<1> DEFINE n == Cardinality(Candidates)
<1>1. IsFiniteSet(Candidates) /\ n \in Nat /\ Candidates \subseteq PRs
    BY QueueAssumption, FS_Subset, FS_CardinalityType DEF Candidates, Open
<1>2. s \in [1 .. n -> Candidates] /\ \A i, j \in 1 .. n : i # j => s[i] # s[j]
    BY DEF Listed, SetToSeqs
<1>3. \A i, j \in 1 .. n : i < j => Before(s[i], s[j])
    BY <1>2 DEF Listed
<1>4. ASSUME NEW p \in Candidates PROVE \E i \in 1 .. n : s[i] = p
    <2>1. IsFiniteSet(1 .. n) /\ Cardinality(1 .. n) = n
        <3>1. /\ IsFiniteSet(1 .. n)
              /\ Cardinality(1 .. n) = IF 1 > n THEN 0 ELSE n - 1 + 1
            BY <1>1, FS_Interval
        <3> HIDE DEF n
        <3> QED BY <1>1, <3>1
    <2>2. s \in Injection(1 .. n, Candidates)
        BY <1>2 DEF Injection, IsInjective
    <2>3. s \in Surjection(1 .. n, Candidates)
        BY <1>1, <2>1, <2>2, FS_Injection
    <2> QED BY <2>3 DEF Surjection
<1> HIDE DEF n
<1> QED BY <1>1, <1>2, <1>3, <1>4

-----------------------------------------------------------------------------
(* The loop.                                                               *)

\* The train after one more candidate
Fitting(train, p) ==
    /\ Len(train) < BatchSize /\ pr[p].checks = "success"
    /\ \A i \in DOMAIN train : ~Overlap(p, train[i])

Taken(train, p) == IF Fitting(train, p) THEN Append(train, p) ELSE train

\* The function that the fold of SelectTrain defines
IsLoop(g, s, n) ==
    g = [u \in SUBSET (1 .. n) |->
           IF u = {} THEN <<>> ELSE Taken(g[u \ {Max(u)}], s[Max(u)])]

\* The greatest number of a set that ends with it.
LEMMA MaxIsLast ==
    ASSUME NEW n \in Nat, NEW u \in SUBSET (1 .. n + 1), n + 1 \in u
    PROVE  Max(u) = n + 1
<1>1. \A m \in u : m \in Int /\ n + 1 >= m
    OBVIOUS
<1>2. ASSUME NEW x \in u, \A m \in u : x >= m PROVE x = n + 1
    BY <1>1, <1>2
<1> QED BY <1>1, <1>2 DEF Max

\* The fold is well defined.
LEMMA LoopExists ==
    ASSUME NEW s, NEW n \in Nat
    PROVE  \E g : IsLoop(g, s, n)
<1> DEFINE Bad == {m \in Nat : ~\E g : IsLoop(g, s, m)}
<1>1. ASSUME Bad # {} PROVE FALSE
    <2>1. PICK m \in Bad : \A k \in Bad : m =< k
        <3>1. Bad \in SUBSET Nat
            OBVIOUS
        <3> HIDE DEF Bad
        <3> QED BY <1>1, <3>1, LeastNumber
    <2>2. CASE m = 0
        <3>1. IsLoop([u \in SUBSET (1 .. 0) |-> <<>>], s, 0)
            <4>1. \A u \in SUBSET (1 .. 0) : u = {}
                OBVIOUS
            <4> QED BY <4>1 DEF IsLoop
        <3> QED BY <2>1, <2>2, <3>1
    <2>3. CASE m # 0
        <3>1. PICK k \in Nat : m = k + 1
            <4>1. m - 1 \in Nat /\ m = (m - 1) + 1
                BY <2>1, <2>3
            <4> QED BY <4>1
        <3>2. PICK g : IsLoop(g, s, k)
            <4>1. k \notin Bad
                BY <2>1, <3>1
            <4> QED BY <4>1
        <3> DEFINE h == [u \in SUBSET (1 .. k + 1) |->
                           IF k + 1 \in u THEN Taken(g[u \ {k + 1}], s[k + 1]) ELSE g[u]]
        <3>3. ASSUME NEW u \in SUBSET (1 .. k + 1)
              PROVE  h[u] = IF u = {} THEN <<>> ELSE Taken(h[u \ {Max(u)}], s[Max(u)])
            <4>1. CASE k + 1 \in u
                <5>1. Max(u) = k + 1
                    BY <4>1, MaxIsLast
                <5>2. u \ {k + 1} \in SUBSET (1 .. k + 1) /\ k + 1 \notin u \ {k + 1}
                    OBVIOUS
                <5>3. h[u \ {k + 1}] = g[u \ {k + 1}]
                    BY <5>2
                <5> QED BY <4>1, <5>1, <5>3
            <4>2. CASE k + 1 \notin u
                <5>1. u \in SUBSET (1 .. k)
                    BY <4>2
                <5>2. u \ {Max(u)} \in SUBSET (1 .. k + 1) /\ k + 1 \notin u \ {Max(u)}
                    BY <4>2
                <5>3. h[u \ {Max(u)}] = g[u \ {Max(u)}] /\ h[u] = g[u]
                    BY <4>2, <5>2
                <5>4. g[u] = IF u = {} THEN <<>> ELSE Taken(g[u \ {Max(u)}], s[Max(u)])
                    BY <3>2, <5>1 DEF IsLoop
                <5> HIDE DEF h
                <5> QED BY <5>3, <5>4
            <4> QED BY <4>1, <4>2
        <3>4. IsLoop(h, s, k + 1)
            <4>1. h = [u \in SUBSET (1 .. k + 1) |-> h[u]]
                OBVIOUS
            <4> HIDE DEF h
            <4> QED BY <3>3, <4>1 DEF IsLoop
        <3> QED BY <2>1, <3>1, <3>4
    <2> QED BY <2>2, <2>3
<1> QED BY <1>1

\* ... and goes through the list from its beginning.
LEMMA LoopSteps ==
    ASSUME NEW s, NEW n \in Nat, NEW g, IsLoop(g, s, n)
    PROVE  /\ g[1 .. 0] = <<>>
           /\ \A k \in 0 .. n - 1 : g[1 .. k + 1] = Taken(g[1 .. k], s[k + 1])
<1>1. g[1 .. 0] = <<>>
    <2>1. 1 .. 0 = {} /\ 1 .. 0 \in SUBSET (1 .. n)
        OBVIOUS
    <2> QED BY <2>1 DEF IsLoop
<1>2. ASSUME NEW k \in 0 .. n - 1 PROVE g[1 .. k + 1] = Taken(g[1 .. k], s[k + 1])
    <2>1. k \in Nat /\ 1 .. k + 1 \in SUBSET (1 .. n) /\ k + 1 \in 1 .. k + 1
        OBVIOUS
    <2>2. Max(1 .. k + 1) = k + 1
        BY <2>1, MaxIsLast
    <2>3. (1 .. k + 1) \ {k + 1} = 1 .. k /\ 1 .. k + 1 # {}
        BY <2>1
    <2> QED BY <2>1, <2>2, <2>3 DEF IsLoop
<1> QED BY <1>1, <1>2

\* SelectTrain is what the loop has chosen at its end.
LEMMA SelectTrainIsLoop ==
    ASSUME NEW n \in Nat, DOMAIN InOrder = 1 .. n
    PROVE  \E g : IsLoop(g, InOrder, n) /\ SelectTrain = g[1 .. n]
<1>1. SelectTrain = (CHOOSE g : IsLoop(g, InOrder, n))[1 .. n]
    BY DEF SelectTrain, FoldLeft, MapThenFoldSet, IsLoop, Taken, Fitting
<1>2. \E g : IsLoop(g, InOrder, n)
    BY LoopExists
<1> QED BY <1>1, <1>2

-----------------------------------------------------------------------------
(* What the loop has chosen.                                               *)

\* After the first k candidates of the list: a train of some of them, in order and
\* disjoint, and every ready one of them has its place or was passed over
Chosen(t, s, k) ==
    /\ t \in Seq(ReadyCandidates) /\ Len(t) <= BatchSize /\ Ordered(t)
    /\ \A i \in DOMAIN t : \E j \in 1 .. k : t[i] = s[j]
    /\ \A j \in 1 .. k :
          s[j] \in ReadyCandidates /\ (\A i \in DOMAIN t : t[i] # s[j]) => PassedOver(t, s[j])

\* One candidate more.
LEMMA ChosenStep ==
    ASSUME NEW n \in Nat, NEW s \in [1 .. n -> PRs], NEW k \in 0 .. n - 1, NEW t,
           \A i \in 1 .. n : s[i] \in Candidates,
           \A i, j \in 1 .. n : i < j => Before(s[i], s[j]),
           Chosen(t, s, k)
    PROVE  Chosen(Taken(t, s[k + 1]), s, k + 1)
<1> DEFINE p == s[k + 1]
<1>0. /\ k \in Nat /\ k + 1 \in 1 .. n /\ p \in PRs /\ p \in Candidates /\ BatchSize \in Nat \ {0}
      /\ 1 .. k + 1 = (1 .. k) \cup {k + 1} /\ 1 .. k \subseteq 1 .. n
    BY QueueAssumption
<1>1. /\ t \in Seq(ReadyCandidates) /\ Len(t) \in Nat /\ Len(t) <= BatchSize
      /\ DOMAIN t = 1 .. Len(t) /\ \A i \in 1 .. Len(t) : t[i] \in ReadyCandidates
    BY DEF Chosen
<1>2. ASSUME NEW i \in 1 .. Len(t) PROVE Before(t[i], p)
    <2>1. PICK j \in 1 .. k : t[i] = s[j]
        BY <1>1 DEF Chosen
    <2>2. j \in 1 .. n /\ j < k + 1
        BY <1>0
    <2> QED BY <1>0, <2>1, <2>2
<1>3. CASE Fitting(t, p)
    <2> DEFINE u == Append(t, p)
    <2>1. p \in ReadyCandidates
        BY <1>0, <1>3 DEF Fitting, ReadyCandidates
    <2>2. /\ u \in Seq(ReadyCandidates) /\ Len(u) = Len(t) + 1 /\ DOMAIN u = 1 .. Len(t) + 1
          /\ \A i \in 1 .. Len(t) : u[i] = t[i]
          /\ u[Len(t) + 1] = p
        BY <1>1, <2>1, AppendProperties
    <2>3. Len(t) < BatchSize /\ \A i \in 1 .. Len(t) : ~Overlap(t[i], p)
        BY <1>1, <1>3 DEF Fitting, Overlap
    <2> HIDE DEF u, p
    <2>4. Ordered(u)
        <3>1. ASSUME NEW i \in 1 .. Len(t) + 1, NEW j \in 1 .. Len(t) + 1, i < j
              PROVE  Before(u[i], u[j]) /\ ~Overlap(u[i], u[j])
            <4>1. i \in 1 .. Len(t) /\ u[i] = t[i]
                BY <1>1, <2>2, <3>1
            <4>2. CASE j = Len(t) + 1
                BY <1>2, <2>2, <2>3, <4>1, <4>2
            <4>3. CASE j # Len(t) + 1
                <5>1. j \in 1 .. Len(t) /\ u[j] = t[j]
                    BY <1>1, <2>2, <4>3
                <5> QED BY <1>1, <3>1, <4>1, <5>1 DEF Chosen, Ordered
            <4> QED BY <4>2, <4>3
        <3> QED BY <2>2, <3>1 DEF Ordered
    <2>5. ASSUME NEW i \in DOMAIN u PROVE \E j \in 1 .. k + 1 : u[i] = s[j]
        <3>1. CASE i = Len(t) + 1
            BY <1>0, <2>2, <3>1 DEF p
        <3>2. CASE i # Len(t) + 1
            <4>1. i \in 1 .. Len(t) /\ u[i] = t[i]
                BY <1>1, <2>2, <3>2
            <4>2. \E j \in 1 .. k : t[i] = s[j]
                BY <1>1, <4>1 DEF Chosen
            <4> QED BY <1>0, <4>1, <4>2
        <3> QED BY <3>1, <3>2
    <2>6. ASSUME NEW j \in 1 .. k + 1, s[j] \in ReadyCandidates, \A i \in DOMAIN u : u[i] # s[j]
          PROVE  PassedOver(u, s[j])
        <3>1. Len(t) + 1 \in DOMAIN u /\ \A i \in 1 .. Len(t) : i \in DOMAIN u
            BY <1>1, <2>2
        <3>2. j \in 1 .. k
            BY <1>0, <2>2, <2>6, <3>1 DEF p
        <3>3. \A i \in 1 .. Len(t) : t[i] # s[j]
            BY <2>2, <2>6, <3>1
        <3>4. PassedOver(t, s[j])
            BY <1>1, <2>6, <3>2, <3>3 DEF Chosen
        <3>5. PICK i \in 1 .. Len(t) : Before(t[i], s[j]) /\ Overlap(t[i], s[j])
            BY <1>1, <2>3, <3>4 DEF PassedOver
        <3> QED BY <2>2, <3>1, <3>5 DEF PassedOver
    <2>7. Chosen(u, s, k + 1)
        BY <1>0, <1>1, <2>2, <2>3, <2>4, <2>5, <2>6 DEF Chosen
    <2> QED BY <1>3, <2>7 DEF Taken, u, p
<1>4. CASE ~Fitting(t, p)
    <2>1. ASSUME p \in ReadyCandidates PROVE PassedOver(t, p)
        <3>1. pr[p].checks = "success"
            BY <2>1 DEF ReadyCandidates
        <3>2. CASE Len(t) < BatchSize
            <4>1. PICK i \in 1 .. Len(t) : Overlap(p, t[i])
                BY <1>1, <1>4, <3>1, <3>2 DEF Fitting
            <4> QED BY <1>1, <1>2, <4>1 DEF PassedOver, Overlap
        <3>3. CASE ~(Len(t) < BatchSize)
            <4>1. BatchSize \in Nat \ {0} /\ Len(t) \in Nat /\ Len(t) <= BatchSize
                BY <1>1, QueueAssumption
            <4>2. Len(t) = BatchSize /\ Len(t) \in 1 .. Len(t)
                <5> HIDE DEF p
                <5> QED BY <3>3, <4>1
            <4> QED BY <1>2, <4>2 DEF PassedOver
        <3> QED BY <3>2, <3>3
    <2>2. ASSUME NEW j \in 1 .. k + 1, s[j] \in ReadyCandidates, \A i \in DOMAIN t : t[i] # s[j]
          PROVE  PassedOver(t, s[j])
        <3>1. CASE j = k + 1
            BY <2>1, <2>2, <3>1
        <3>2. CASE j # k + 1
            <4>1. j \in 1 .. k
                BY <1>0, <3>2
            <4> QED BY <2>2, <4>1 DEF Chosen
        <3> QED BY <3>1, <3>2
    <2>3. \A i \in DOMAIN t : \E j \in 1 .. k + 1 : t[i] = s[j]
        BY <1>0 DEF Chosen
    <2> HIDE DEF p
    <2>4. Chosen(t, s, k + 1)
        BY <2>2, <2>3 DEF Chosen
    <2> QED BY <1>4, <2>4 DEF Taken, p
<1> QED BY <1>3, <1>4

\* At its end the loop has gone through all candidates.
LEMMA LoopChooses ==
    ASSUME NEW n \in Nat, NEW s \in [1 .. n -> PRs], NEW g, IsLoop(g, s, n),
           \A i \in 1 .. n : s[i] \in Candidates,
           \A i, j \in 1 .. n : i < j => Before(s[i], s[j])
    PROVE  Chosen(g[1 .. n], s, n)
<1> DEFINE Bad == {k \in 0 .. n : ~Chosen(g[1 .. k], s, k)}
<1>1. ASSUME Bad # {} PROVE FALSE
    <2>1. PICK m \in Bad : \A k \in Bad : m =< k
        <3>1. Bad \in SUBSET Nat
            OBVIOUS
        <3> HIDE DEF Bad
        <3> QED BY <1>1, <3>1, LeastNumber
    <2>2. m \in 0 .. n /\ ~Chosen(g[1 .. m], s, m)
        BY <2>1
    <2>3. CASE m = 0
        <3>1. g[1 .. m] = <<>> /\ 1 .. m = {}
            BY <2>3, LoopSteps
        <3>2. <<>> \in Seq(ReadyCandidates) /\ Len(<<>>) = 0 /\ DOMAIN <<>> = {} /\ 0 <= BatchSize
            BY QueueAssumption
        <3>3. Chosen(<<>>, s, m)
            BY <3>1, <3>2 DEF Chosen, Ordered
        <3> QED BY <2>2, <3>1, <3>3
    <2>4. CASE m # 0
        <3>1. PICK k \in 0 .. n - 1 : m = k + 1
            <4>1. m - 1 \in 0 .. n - 1 /\ m = (m - 1) + 1
                BY <2>2, <2>4
            <4> QED BY <4>1
        <3>2. Chosen(g[1 .. k], s, k)
            <4>1. k \notin Bad /\ k \in 0 .. n
                BY <2>1, <2>2, <3>1
            <4> QED BY <4>1
        <3>3. Chosen(Taken(g[1 .. k], s[k + 1]), s, k + 1)
            BY <3>2, ChosenStep
        <3>4. g[1 .. k + 1] = Taken(g[1 .. k], s[k + 1])
            BY LoopSteps
        <3> QED BY <2>2, <3>1, <3>3, <3>4
    <2> QED BY <2>3, <2>4
<1>2. n \in 0 .. n
    OBVIOUS
<1> QED BY <1>1, <1>2

-----------------------------------------------------------------------------
(* There is only one such train.                                           *)

\* The members of Trains.
LEMMA TrainsAre ==
    ASSUME NEW t
    PROVE  t \in Trains <=>
              /\ t \in Seq(ReadyCandidates) /\ Len(t) <= BatchSize /\ Ordered(t)
              /\ \A p \in ReadyCandidates : (\A i \in DOMAIN t : t[i] # p) => PassedOver(t, p)
<1>0. BatchSize \in Nat
    BY QueueAssumption
<1>1. t \in SeqOf(ReadyCandidates, BatchSize) <=>
         t \in Seq(ReadyCandidates) /\ Len(t) <= BatchSize
    <2>1. ASSUME t \in SeqOf(ReadyCandidates, BatchSize)
          PROVE  t \in Seq(ReadyCandidates) /\ Len(t) <= BatchSize
        <3>1. PICK m \in 0 .. BatchSize : t \in [1 .. m -> ReadyCandidates]
            BY <2>1 DEF SeqOf
        <3>2. m \in Nat /\ t \in Seq(ReadyCandidates)
            BY <1>0, <3>1, SeqDef
        <3>3. Len(t) \in Nat /\ DOMAIN t = 1 .. Len(t) /\ DOMAIN t = 1 .. m
            BY <3>1, <3>2, LenProperties
        <3> QED BY <1>0, <3>1, <3>2, <3>3
    <2>2. ASSUME t \in Seq(ReadyCandidates), Len(t) <= BatchSize
          PROVE  t \in SeqOf(ReadyCandidates, BatchSize)
        <3>1. Len(t) \in 0 .. BatchSize /\ t \in [1 .. Len(t) -> ReadyCandidates]
            BY <1>0, <2>2
        <3> QED BY <3>1 DEF SeqOf
    <2> QED BY <2>1, <2>2
<1>2. \A p : p \notin Range(t) <=> \A i \in DOMAIN t : t[i] # p
    BY DEF Range
<1>3. Last(t) = t[Len(t)]
    BY DEF Last
<1> QED BY <1>1, <1>2, <1>3 DEF Trains, Ordered, PassedOver

\* Where two trains part, neither goes on.
LEMMA TrainsAgree ==
    ASSUME NEW t \in Trains, NEW u \in Trains, NEW k \in Nat,
           k + 1 <= Len(t), \A i \in 1 .. k : i <= Len(u) /\ t[i] = u[i],
           k + 1 <= Len(u) => Before(t[k + 1], u[k + 1])
    PROVE  FALSE
<1> DEFINE p == t[k + 1]
<1>0. BatchSize \in Nat /\ ReadyCandidates \subseteq PRs
    BY QueueAssumption DEF ReadyCandidates, Candidates, Open
<1>1. /\ t \in Seq(ReadyCandidates) /\ Len(t) \in Nat /\ DOMAIN t = 1 .. Len(t) /\ Len(t) <= BatchSize
      /\ Ordered(t) /\ \A i \in 1 .. Len(t) : t[i] \in PRs
    BY <1>0, TrainsAre
<1>2. /\ u \in Seq(ReadyCandidates) /\ Len(u) \in Nat /\ DOMAIN u = 1 .. Len(u) /\ Len(u) <= BatchSize
      /\ Ordered(u) /\ \A i \in 1 .. Len(u) : u[i] \in PRs
    BY <1>0, TrainsAre
<1>3. p \in ReadyCandidates /\ p \in PRs /\ k + 1 \in 1 .. Len(t)
    BY <1>0, <1>1
<1>4. ASSUME NEW i \in 1 .. Len(u)
      PROVE  \/ i \in 1 .. k /\ Before(u[i], p) /\ ~Overlap(u[i], p)
             \/ k + 1 <= Len(u) /\ Before(p, u[i])
    <2>1. CASE i <= k
        <3>1. i \in 1 .. k /\ i \in 1 .. Len(t) /\ i < k + 1 /\ u[i] = t[i]
            BY <1>1, <1>2, <2>1
        <3> QED BY <1>1, <1>3, <3>1 DEF Ordered
    <2>2. CASE i = k + 1
        BY <1>2, <2>2
    <2>3. CASE i > k + 1
        <3>1. k + 1 <= Len(u) /\ k + 1 \in 1 .. Len(u) /\ k + 1 < i
            BY <1>2, <2>3
        <3>2. Before(p, u[k + 1]) /\ Before(u[k + 1], u[i])
            BY <1>2, <3>1 DEF Ordered
        <3> QED BY <1>2, <1>3, <3>1, <3>2, BeforeOrders
    <2> QED BY <1>2, <2>1, <2>2, <2>3
<1> HIDE DEF p
<1>5. \A i \in 1 .. Len(u) : u[i] # p
    BY <1>2, <1>3, <1>4, BeforeOrders
<1>6. PassedOver(u, p)
    BY <1>2, <1>3, <1>5, TrainsAre
<1>7. ASSUME NEW i \in 1 .. Len(u), Before(u[i], p) PROVE i \in 1 .. k /\ ~Overlap(u[i], p)
    BY <1>2, <1>3, <1>4, <1>7, BeforeOrders
<1>8. Len(u) = BatchSize /\ Before(u[Len(u)], p)
    BY <1>2, <1>6, <1>7 DEF PassedOver
<1>9. Len(u) \in 1 .. Len(u)
    BY <1>0, <1>1, <1>2, <1>8
<1>10. Len(u) <= k
    BY <1>2, <1>7, <1>8, <1>9
<1> QED BY <1>0, <1>1, <1>2, <1>8, <1>10

\* Two trains of the same candidates are one.
LEMMA TrainIsUnique ==
    ASSUME NEW t \in Trains, NEW u \in Trains
    PROVE  t = u
<1>0. ReadyCandidates \subseteq PRs
    BY DEF ReadyCandidates, Candidates, Open
<1>1. /\ t \in Seq(ReadyCandidates) /\ Len(t) \in Nat /\ DOMAIN t = 1 .. Len(t)
      /\ \A i \in 1 .. Len(t) : t[i] \in PRs
    BY <1>0, TrainsAre
<1>2. /\ u \in Seq(ReadyCandidates) /\ Len(u) \in Nat /\ DOMAIN u = 1 .. Len(u)
      /\ \A i \in 1 .. Len(u) : u[i] \in PRs
    BY <1>0, TrainsAre
<1> DEFINE Same(i) == i <= Len(t) /\ i <= Len(u) /\ t[i] = u[i]
           Differ == {i \in Nat \ {0} : i <= Len(t) \/ i <= Len(u)} \ {i \in Nat : Same(i)}
<1>3. ASSUME Differ # {} PROVE FALSE
    <2>1. PICK m \in Differ : \A i \in Differ : m =< i
        <3>1. Differ \in SUBSET Nat
            OBVIOUS
        <3> HIDE DEF Differ
        <3> QED BY <1>3, <3>1, LeastNumber
    <2>2. PICK k \in Nat : m = k + 1
        <3>1. m - 1 \in Nat /\ m = (m - 1) + 1
            BY <2>1
        <3> QED BY <3>1
    <2>3. (k + 1 <= Len(t) \/ k + 1 <= Len(u)) /\ ~Same(k + 1)
        BY <2>1, <2>2
    <2>4. ASSUME NEW i \in 1 .. k PROVE Same(i)
        <3>1. i \in Nat \ {0} /\ i \notin Differ
            BY <2>1, <2>2
        <3>2. i < k + 1 /\ (i <= Len(t) \/ i <= Len(u))
            BY <1>1, <1>2, <2>3
        <3> QED BY <3>1, <3>2
    <2>5. CASE k + 1 <= Len(t) /\ (k + 1 <= Len(u) => Before(t[k + 1], u[k + 1]))
        BY <2>4, <2>5, TrainsAgree
    <2>6. CASE k + 1 <= Len(u) /\ (k + 1 <= Len(t) => Before(u[k + 1], t[k + 1]))
        BY <2>4, <2>6, TrainsAgree
    <2>7. CASE k + 1 <= Len(t) /\ k + 1 <= Len(u)
        <3>1. k + 1 \in 1 .. Len(t) /\ k + 1 \in 1 .. Len(u) /\ t[k + 1] # u[k + 1]
            BY <1>1, <1>2, <2>3, <2>7
        <3>2. Before(t[k + 1], u[k + 1]) \/ Before(u[k + 1], t[k + 1])
            BY <1>1, <1>2, <3>1, BeforeOrders
        <3> QED BY <2>5, <2>6, <2>7, <3>2
    <2> QED BY <2>3, <2>5, <2>6, <2>7
<1>4. ASSUME NEW i \in Nat \ {0}, i <= Len(t) \/ i <= Len(u) PROVE Same(i)
    BY <1>3, <1>4
<1>5. Len(t) = Len(u)
    <2>1. Len(t) # 0 => Len(t) <= Len(u)
        <3>1. ASSUME Len(t) # 0 PROVE Same(Len(t))
            BY <1>1, <1>4, <3>1
        <3> QED BY <3>1
    <2>2. Len(u) # 0 => Len(u) <= Len(t)
        <3>1. ASSUME Len(u) # 0 PROVE Same(Len(u))
            BY <1>2, <1>4, <3>1
        <3> QED BY <3>1
    <2>3. \A a, b \in Nat : (a # 0 => a <= b) /\ (b # 0 => b <= a) => a = b
        OBVIOUS
    <2>4. Len(t) \in Nat /\ Len(u) \in Nat
        BY <1>1, <1>2
    <2> QED BY <2>1, <2>2, <2>3, <2>4, Zenon
<1>6. \A i \in 1 .. Len(t) : t[i] = u[i]
    BY <1>1, <1>4
<1> QED BY <1>1, <1>2, <1>5, <1>6

\* What select_train returns is a train, and the only one: no pending check, no
\* overlap and no earlier choice costs a ready candidate its place, unless a more
\* urgent one of the train touches its files or the train is full.
THEOREM LoopSelectsTheTrain == TrainIsGreedy
<1>1. Listed(InOrder)
    BY InOrderIsSorted
<1>2. PICK n \in Nat :
              /\ InOrder \in [1 .. n -> PRs] /\ Candidates \subseteq PRs
              /\ \A i \in 1 .. n : InOrder[i] \in Candidates
              /\ \A i, j \in 1 .. n : i < j => Before(InOrder[i], InOrder[j])
              /\ \A p \in Candidates : \E i \in 1 .. n : InOrder[i] = p
    BY <1>1, ListFacts
<1>3. PICK g : IsLoop(g, InOrder, n) /\ SelectTrain = g[1 .. n]
    BY <1>2, SelectTrainIsLoop
<1>4. Chosen(SelectTrain, InOrder, n)
    BY <1>2, <1>3, LoopChooses
<1>5. ASSUME NEW p \in ReadyCandidates, \A i \in DOMAIN SelectTrain : SelectTrain[i] # p
      PROVE  PassedOver(SelectTrain, p)
    <2>1. PICK j \in 1 .. n : InOrder[j] = p
        BY <1>2, <1>5 DEF ReadyCandidates
    <2> QED BY <1>4, <1>5, <2>1 DEF Chosen
<1>6. SelectTrain \in Trains
    BY <1>4, <1>5, TrainsAre DEF Chosen
<1>7. \A t \in Trains : t = SelectTrain
    BY <1>6, TrainIsUnique
<1> QED BY <1>6, <1>7 DEF TrainIsGreedy
=============================================================================
