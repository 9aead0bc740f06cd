------------------------- MODULE GraphQueriesProofs -------------------------
(***************************************************************************)
(* The queries over the edges, on every graph: affected and importers      *)
(* answer with what is within the depth, walk with the distances, why with *)
(* a shortest path, cycles with the classes of symbols that call each      *)
(* other.  IndexCommandsProofs draws the theorems from the invariants here *)
(* and the lemmas that their steps keep them.                              *)
(***************************************************************************)
EXTENDS GraphQueries, FiniteSetTheorems, SequenceTheorems, WellFoundedInduction, TLAPS

-----------------------------------------------------------------------------
(* Distances: what at most k steps reach, and the least such k.  The levels *)
(* are a recursive function; that one exists is shown by climbing from one  *)
(* depth to the next.                                                       *)

\* Induction up to d over a set of depths.
LEMMA Climbing ==
  ASSUME NEW d \in Nat, NEW P, 0 \in P, \A k \in 0..d : k < d /\ k \in P => k + 1 \in P
  PROVE  0..d \subseteq P
<1> SUFFICES ASSUME NEW n \in 0..d, n \notin P PROVE FALSE
  OBVIOUS
<1> DEFINE B == {k \in Nat : k \leq d /\ k \notin P}
<1>1. B \subseteq Nat /\ B # {}
  OBVIOUS
<1>2. IsWellFoundedOn({ss \in Nat \X Nat : ss[1] < ss[2]}, Nat)
  BY NatLessThanWellFounded DEF OpToRel
<1>3. PICK m \in B : \A k \in B : ~ (<<k, m>> \in {ss \in Nat \X Nat : ss[1] < ss[2]})
  <2> HIDE DEF B
  <2> QED BY <1>1, <1>2, WFMin, Zenon
<1>4. m \in Nat /\ m # 0 /\ m \leq d /\ m \notin P
  BY <1>3
<1>5. m - 1 \in Nat /\ <<m - 1, m>> \in {ss \in Nat \X Nat : ss[1] < ss[2]}
  BY <1>4
<1>6. m - 1 \in P
  BY <1>3, <1>4, <1>5
<1>7. m - 1 \in 0..d /\ m - 1 < d /\ (m - 1) + 1 = m
  BY <1>4, <1>5
<1> QED BY <1>4, <1>6, <1>7

\* The equation the recursive function of Level is chosen to satisfy.
Climbs(R, S, d, f) ==
  f = [k \in 0..d |-> IF k = 0 THEN S ELSE f[k - 1] \cup Onto(R, f[k - 1])]

LEMMA ClimbExists ==
  ASSUME NEW R, NEW S, NEW d \in Nat
  PROVE  \E f : Climbs(R, S, d, f)
<1> DEFINE P == {n \in Nat : \E f : Climbs(R, S, n, f)}
<1>1. 0 \in P
  <2>1. Climbs(R, S, 0, [k \in 0..0 |-> S])
    BY DEF Climbs
  <2> QED BY <2>1
<1>2. ASSUME NEW n \in 0..d, n < d, n \in P PROVE n + 1 \in P
  <2>1. PICK f : Climbs(R, S, n, f)
    BY <1>2
  <2> DEFINE g == [k \in 0..(n + 1) |-> IF k = n + 1 THEN f[n] \cup Onto(R, f[n]) ELSE f[k]]
  <2>2. g[n + 1] = f[n] \cup Onto(R, f[n]) /\ \A k \in 0..n : g[k] = f[k]
    OBVIOUS
  <2>3. \A k \in 0..n : f[k] = IF k = 0 THEN S ELSE f[k - 1] \cup Onto(R, f[k - 1])
    BY <2>1, Zenon DEF Climbs
  <2>4. g = [k \in 0..(n + 1) |-> g[k]]
    OBVIOUS
  <2> HIDE DEF g
  <2>5. ASSUME NEW k \in 0..(n + 1)
        PROVE  g[k] = IF k = 0 THEN S ELSE g[k - 1] \cup Onto(R, g[k - 1])
    <3>1. CASE k = n + 1
      <4>1. k # 0 /\ k - 1 = n /\ n \in 0..n
        BY <3>1
      <4> QED BY <2>2, <3>1, <4>1
    <3>2. CASE k # n + 1 /\ k # 0
      <4>1. k \in 0..n /\ k - 1 \in 0..n
        BY <3>2
      <4> QED BY <2>2, <2>3, <3>2, <4>1, Zenon
    <3>3. CASE k = 0
      <4>1. k \in 0..n
        BY <3>3
      <4> QED BY <2>2, <2>3, <3>3, <4>1, Zenon
    <3> QED BY <3>1, <3>2, <3>3
  <2>6. Climbs(R, S, n + 1, g)
    BY <2>4, <2>5, Zenon DEF Climbs
  <2> QED BY <2>6
<1>3. 0..d \subseteq P
  <2> HIDE DEF P
  <2> QED BY <1>1, <1>2, Climbing
<1> QED BY <1>3

LEMMA LevelSteps ==
  ASSUME NEW R, NEW S, NEW d \in Nat
  PROVE  /\ Level(R, S, d)[0] = S
         /\ \A k \in 0..d : k < d =>
              Level(R, S, d)[k + 1] = Level(R, S, d)[k] \cup Onto(R, Level(R, S, d)[k])
<1> DEFINE f == Level(R, S, d)
<1>1. f = CHOOSE g : Climbs(R, S, d, g)
  BY DEF Climbs, Level
<1>2. Climbs(R, S, d, f)
  <2> HIDE DEF f
  <2> QED BY <1>1, ClimbExists
<1> HIDE DEF f
<1>3. f[0] = S
  BY <1>2 DEF Climbs
<1>4. ASSUME NEW k \in 0..d, k < d PROVE f[k + 1] = f[k] \cup Onto(R, f[k])
  <2>1. k + 1 \in 0..d /\ k + 1 # 0 /\ (k + 1) - 1 = k
    BY <1>4
  <2> QED BY <1>2, <2>1, Zenon DEF Climbs
<1> QED BY <1>3, <1>4 DEF f

LEMMA LeastExists ==
  ASSUME NEW S \in SUBSET Nat, S # {}
  PROVE  Least(S) \in S /\ \A x \in S : Least(S) <= x
<1>1. IsWellFoundedOn({ss \in Nat \X Nat : ss[1] < ss[2]}, Nat)
  BY NatLessThanWellFounded DEF OpToRel
<1>2. PICK m \in S : \A x \in S : ~ (<<x, m>> \in {ss \in Nat \X Nat : ss[1] < ss[2]})
  BY <1>1, WFMin, Zenon
<1>3. ASSUME NEW x \in S PROVE m <= x
  <2>1. m \in Nat /\ x \in Nat /\ ~ (x < m)
    BY <1>2, Zenon
  <2> QED BY <2>1
<1> QED BY <1>2, <1>3, Zenon DEF Least

LEMMA LeastIs ==
  ASSUME NEW S \in SUBSET Nat, NEW m \in S, \A x \in S : m <= x
  PROVE  Least(S) = m
<1>1. Least(S) \in S /\ Least(S) <= m
  BY LeastExists
<1>2. Least(S) \in Nat /\ m \in Nat /\ m <= Least(S)
  BY <1>1, Zenon
<1> QED BY <1>1, <1>2

LEMMA LevelGrows ==
  ASSUME NEW R, NEW S, NEW d \in Nat, NEW j \in 0..d, NEW k \in 0..d, j <= k
  PROVE  Level(R, S, d)[j] \subseteq Level(R, S, d)[k]
<1> DEFINE L == Level(R, S, d)
           P == {x \in 0..d : j <= x => L[j] \subseteq L[x]}
<1>1. \A x \in 0..d : x < d => L[x] \subseteq L[x + 1]
  BY LevelSteps
<1> HIDE DEF L
<1>2. 0 \in P
  BY DEF P
<1>3. ASSUME NEW x \in 0..d, x < d, x \in P PROVE x + 1 \in P
  <2>1. CASE j <= x
    BY <1>1, <1>3, <2>1
  <2>2. CASE ~ (j <= x)
    <3>1. j <= x + 1 => j = x + 1
      BY <2>2
    <3> QED BY <1>3, <3>1
  <2> QED BY <2>1, <2>2
<1>4. 0..d \subseteq P
  <2> HIDE DEF P
  <2> QED BY <1>2, <1>3, Climbing
<1> QED BY <1>4 DEF L

LEMMA LevelUnion ==
  ASSUME NEW R, NEW S, NEW T, NEW U, U = S \cup T, NEW d \in Nat, NEW k \in 0..d, NEW n
  PROVE  n \in Level(R, U, d)[k] <=> n \in Level(R, S, d)[k] \/ n \in Level(R, T, d)[k]
<1> DEFINE L(X) == Level(R, X, d)
           P == {x \in 0..d : L(U)[x] = L(S)[x] \cup L(T)[x]}
<1>1. \A X : L(X)[0] = X /\ \A x \in 0..d : x < d => L(X)[x + 1] = L(X)[x] \cup Onto(R, L(X)[x])
  BY LevelSteps
<1> HIDE DEF L
<1>2. 0 \in P
  BY <1>1
<1>3. ASSUME NEW x \in 0..d, x < d, x \in P PROVE x + 1 \in P
  <2>1. Onto(R, L(S)[x] \cup L(T)[x]) = Onto(R, L(S)[x]) \cup Onto(R, L(T)[x])
    BY DEF Onto
  <2>2. L(U)[x + 1] = L(U)[x] \cup Onto(R, L(U)[x])
    BY <1>1, <1>3
  <2>3. L(S)[x + 1] = L(S)[x] \cup Onto(R, L(S)[x]) /\ L(T)[x + 1] = L(T)[x] \cup Onto(R, L(T)[x])
    BY <1>1, <1>3
  <2>4. L(U)[x] = L(S)[x] \cup L(T)[x]
    BY <1>3
  <2> x + 1 \in 0..d
    BY <1>3
  <2>5. L(U)[x + 1] = L(S)[x + 1] \cup L(T)[x + 1]
    BY <2>1, <2>2, <2>3, <2>4, Zenon
  <2> QED BY <2>4, <2>5, Zenon
<1>4. 0..d \subseteq P
  <2> HIDE DEF P
  <2> QED BY <1>2, <1>3, Climbing
<1> QED BY <1>4, Zenon DEF L

\* Nothing is reached from nowhere, and nothing outside the relation's own set.
LEMMA LevelWithin ==
  ASSUME NEW R, NEW S, NEW d \in Nat, NEW N, S \subseteq N, Onto(R, N) \subseteq N, NEW k \in 0..d
  PROVE  Level(R, S, d)[k] \subseteq N
<1> DEFINE L == Level(R, S, d)
           P == {x \in 0..d : L[x] \subseteq N}
<1>1. L[0] = S /\ \A x \in 0..d : x < d => L[x + 1] = L[x] \cup Onto(R, L[x])
  BY LevelSteps
<1> HIDE DEF L
<1>2. 0 \in P
  BY <1>1
<1>3. ASSUME NEW x \in 0..d, x < d, x \in P PROVE x + 1 \in P
  <2>1. Onto(R, L[x]) \subseteq Onto(R, N)
    BY <1>3 DEF Onto
  <2> QED BY <1>1, <1>3, <2>1
<1>4. 0..d \subseteq P
  <2> HIDE DEF P
  <2> QED BY <1>2, <1>3, Climbing
<1> QED BY <1>4 DEF L

\* A level that no step leaves is the last one.
LEMMA LevelClosed ==
  ASSUME NEW R, NEW S, NEW d \in Nat, NEW j \in 0..d, NEW k \in 0..d, j <= k,
         Onto(R, Level(R, S, d)[j]) \subseteq Level(R, S, d)[j]
  PROVE  Level(R, S, d)[k] = Level(R, S, d)[j]
<1> DEFINE L == Level(R, S, d)
           P == {x \in 0..d : j <= x => L[x] = L[j]}
<1>1. \A x \in 0..d : x < d => L[x + 1] = L[x] \cup Onto(R, L[x])
  BY LevelSteps
<1>2. Onto(R, L[j]) \subseteq L[j]
  OBVIOUS
<1> HIDE DEF L
<1>3. 0 \in P
  BY DEF P
<1>4. ASSUME NEW x \in 0..d, x < d, x \in P PROVE x + 1 \in P
  <2>1. CASE j <= x
    <3>1. L[x] = L[j] /\ x + 1 \in 0..d
      BY <1>4, <2>1
    <3>2. L[x + 1] = L[j] \cup Onto(R, L[j])
      BY <1>1, <1>4, <3>1
    <3> QED BY <1>2, <3>1, <3>2
  <2>2. CASE ~ (j <= x)
    <3>1. j <= x + 1 => j = x + 1
      BY <2>2
    <3> QED BY <1>4, <3>1
  <2> QED BY <2>1, <2>2
<1>5. 0..d \subseteq P
  <2> HIDE DEF P
  <2> QED BY <1>3, <1>4, Climbing
<1> QED BY <1>5 DEF L

\* SetToSeq lists every member of a finite set.
LEMMA SeqOfSet ==
  ASSUME NEW S, IsFiniteSet(S)
  PROVE  SetToSeq(S) \in Seq(S) /\ ToSet(SetToSeq(S)) = S
<1> DEFINE n == Cardinality(S)
<1>1. n \in Nat /\ ExistsBijection(1..n, S)
  BY FS_CardinalityType
<1>2. PICK f \in [1..n -> S] : IsInjective(f)
  BY <1>1 DEF ExistsBijection, Bijection, Injection
<1>3. SetToSeq(S) \in [1..n -> S] /\ IsInjective(SetToSeq(S))
  BY <1>2 DEF SetToSeq
<1> DEFINE g == SetToSeq(S)
<1> HIDE DEF g
<1>4. g \in Injection(1..n, S)
  BY <1>3 DEF g, Injection
<1>5. IsFiniteSet(1..n) /\ Cardinality(1..n) = n
  BY <1>1, FS_Interval
<1>6. g \in Surjection(1..n, S)
  BY <1>4, <1>5, FS_Injection
<1>7. g \in Seq(S) /\ DOMAIN g = 1..n
  BY <1>1, <1>3 DEF g
<1>8. ToSet(g) = S
  BY <1>6, <1>7 DEF ToSet, Surjection
<1> QED BY <1>7, <1>8 DEF g

-----------------------------------------------------------------------------
(* Importers: the files reached so far are a level of the graph of files.  *)

\* From a file to the files with an edge into it, what is how far from the file asked
\* for, and the edges of a file that lead nearer to it.
LeadsTo(E) == {<<FileOf[e[2]], FileOf[e[1]]>> : e \in E}
Near(E, a) == Level(LeadsTo(E), {a.file}, a.depth)
Far(E, a, f) == Least({k \in 0..a.depth : f \in Near(E, a)[k]})
Inward(E, a, f) == {e \in E : /\ FileOf[e[1]] = f
                              /\ FileOf[e[2]] \in Near(E, a)[a.depth]
                              /\ Far(E, a, FileOf[e[2]]) < Far(E, a, f)}
Counted(E, a, f) == [depth |-> Far(E, a, f), edges |-> Cardinality(Inward(E, a, f))]

ImportersRun(E, a, r) ==
  /\ r = [depth |-> r.depth, frontier |-> r.frontier, reached |-> r.reached,
          result |-> r.result]
  /\ r.depth \in 0..a.depth
  /\ r.reached = Near(E, a)[r.depth]
  /\ r.frontier = {} => Onto(LeadsTo(E), r.reached) \subseteq r.reached
  /\ r.result = [f \in r.reached \ {a.file} |-> Counted(E, a, f)]

LEMMA NearFacts ==
  ASSUME NEW E, NEW a, a.depth \in Nat
  PROVE  /\ \A k \in 0..a.depth : a.file \in Near(E, a)[k]
         /\ \A f : \A k \in 0..a.depth : f \in Near(E, a)[k] <=>
              f \in Near(E, a)[a.depth] /\ Far(E, a, f) <= k
         /\ \A f \in Near(E, a)[a.depth] : Far(E, a, f) \in 0..a.depth
<1> DEFINE L == Near(E, a)
<1>1. L[0] = {a.file} /\ \A j, k \in 0..a.depth : j <= k => L[j] \subseteq L[k]
  BY LevelSteps, LevelGrows DEF Near
<1> HIDE DEF L
<1>2. \A k \in 0..a.depth : a.file \in L[k]
  BY <1>1
<1>3. ASSUME NEW f, NEW k \in 0..a.depth, f \in L[k]
      PROVE  f \in L[a.depth] /\ Far(E, a, f) <= k
  <2> DEFINE K == {j \in 0..a.depth : f \in L[j]}
  <2>1. K \in SUBSET Nat /\ k \in K
    BY <1>3
  <2>2. Least(K) <= k
    <3> HIDE DEF K
    <3> QED BY <2>1, LeastExists
  <2> QED BY <1>1, <1>3, <2>2 DEF Far, L
<1>4. ASSUME NEW f \in L[a.depth]
      PROVE  Far(E, a, f) \in 0..a.depth /\ f \in L[Far(E, a, f)]
  <2> DEFINE K == {j \in 0..a.depth : f \in L[j]}
  <2>1. K \in SUBSET Nat /\ a.depth \in K
    BY <1>4
  <2>2. Least(K) \in K
    <3> HIDE DEF K
    <3> QED BY <2>1, LeastExists
  <2> QED BY <2>2 DEF Far, L
<1>5. ASSUME NEW f \in L[a.depth], NEW k \in 0..a.depth, Far(E, a, f) <= k
      PROVE  f \in L[k]
  BY <1>1, <1>4, <1>5
<1> QED BY <1>2, <1>3, <1>4, <1>5 DEF L

\* The run after a wave.
Crossing(E, r) == {e \in E : FileOf[e[2]] \in r.reached /\ FileOf[e[1]] \notin r.reached}
AfterWave(E, r) ==
  LET files == {FileOf[e[1]] : e \in Crossing(E, r)} IN
  [r EXCEPT !.depth = @ + 1, !.frontier = files, !.reached = @ \cup files,
     !.result = Joined(@, [f \in files |->
        [depth |-> r.depth + 1,
         edges |-> Cardinality({e \in Crossing(E, r) : FileOf[e[1]] = f})]])]

LEMMA WaveKeeps ==
  ASSUME NEW E, NEW a, a.depth \in Nat, NEW r, ImportersRun(E, a, r), r.depth < a.depth
  PROVE  ImportersRun(E, a, AfterWave(E, r))
<1> PICK crossing : crossing = Crossing(E, r)
  OBVIOUS
<1>0. crossing = {e \in E : FileOf[e[2]] \in r.reached /\ FileOf[e[1]] \notin r.reached}
  BY DEF Crossing
<1> PICK files : files = {FileOf[e[1]] : e \in crossing}
  BY Zenon
<1> PICK s : s = AfterWave(E, r)
  OBVIOUS
<1> DEFINE n == r.depth + 1
           part == [f \in files |->
                      [depth |-> n, edges |-> Cardinality({e \in crossing : FileOf[e[1]] = f})]]
<1>1. s = [depth |-> n, frontier |-> files, reached |-> r.reached \cup files,
           result |-> Joined(r.result, part)]
  BY Zenon DEF ImportersRun, AfterWave
<1>2. r.depth \in 0..a.depth /\ n \in 0..a.depth /\ r.reached = Near(E, a)[r.depth]
  BY DEF ImportersRun
<1>3. files = Onto(LeadsTo(E), r.reached) \ r.reached
  <2>1. ASSUME NEW f \in files PROVE f \in Onto(LeadsTo(E), r.reached) \ r.reached
    <3>1. PICK e \in E : /\ FileOf[e[2]] \in r.reached /\ FileOf[e[1]] \notin r.reached
                         /\ f = FileOf[e[1]]
      BY <1>0, <2>1
    <3>2. <<FileOf[e[2]], f>> \in LeadsTo(E)
      BY <3>1 DEF LeadsTo
    <3> QED BY <3>1, <3>2 DEF Onto
  <2>2. ASSUME NEW f \in Onto(LeadsTo(E), r.reached) \ r.reached PROVE f \in files
    <3>1. PICK p \in LeadsTo(E) : p[1] \in r.reached /\ p[2] = f
      BY <2>2 DEF Onto
    <3>2. PICK e \in E : p = <<FileOf[e[2]], FileOf[e[1]]>>
      BY <3>1 DEF LeadsTo
    <3> QED BY <1>0, <2>2, <3>1, <3>2
  <2> QED BY <2>1, <2>2
<1>4. Near(E, a)[n] = r.reached \cup files
  <2>1. Near(E, a)[n] = r.reached \cup Onto(LeadsTo(E), r.reached)
    BY <1>2, LevelSteps DEF Near
  <2> QED BY <1>3, <2>1
<1>5. ASSUME NEW f \in files PROVE Counted(E, a, f) = part[f]
  <2>1. f \in Near(E, a)[n] /\ f \notin Near(E, a)[r.depth]
    BY <1>2, <1>3, <1>4
  <2>2. f \in Near(E, a)[a.depth] /\ Far(E, a, f) \in 0..a.depth /\ Far(E, a, f) <= n
    BY <1>2, <2>1, NearFacts
  <2>3. ~ (Far(E, a, f) <= r.depth)
    BY <1>2, <2>1, <2>2, NearFacts
  <2>4. Far(E, a, f) = n
    BY <1>2, <2>2, <2>3
  <2>5. \A g : g \in r.reached <=> g \in Near(E, a)[a.depth] /\ Far(E, a, g) <= r.depth
    BY <1>2, NearFacts
  <2>6. \A g \in Near(E, a)[a.depth] : Far(E, a, g) <= r.depth <=> Far(E, a, g) < Far(E, a, f)
    BY <1>2, <2>4, NearFacts
  <2>7. Inward(E, a, f) = {e \in crossing : FileOf[e[1]] = f}
    BY <1>0, <1>2, <2>1, <2>5, <2>6 DEF Inward
  <2> QED BY <2>4, <2>7 DEF Counted
<1>6. a.file \notin files
  BY <1>2, <1>3, NearFacts
<1>7. s.result = [f \in s.reached \ {a.file} |-> Counted(E, a, f)]
  <2>1. r.result = [f \in r.reached \ {a.file} |-> Counted(E, a, f)]
    BY DEF ImportersRun
  <2>2. DOMAIN r.result = r.reached \ {a.file} /\ DOMAIN part = files
    BY <2>1
  <2>3. s.reached \ {a.file} = DOMAIN r.result \cup DOMAIN part
    <3>1. s.reached = r.reached \cup files
      BY <1>1
    <3> HIDE DEF part
    <3> QED BY <1>6, <2>2, <3>1
  <2>4. \A f \in s.reached \ {a.file} :
          Counted(E, a, f) = IF f \in DOMAIN r.result THEN r.result[f] ELSE part[f]
    BY <1>5, <2>1, <2>2, <2>3, Zenon
  <2>5. s.result = [f \in DOMAIN r.result \cup DOMAIN part |->
                      IF f \in DOMAIN r.result THEN r.result[f] ELSE part[f]]
    BY <1>1 DEF Joined
  <2> HIDE DEF part
  <2> QED BY <2>3, <2>4, <2>5
<1>8. s.frontier = files
  <2> HIDE DEF part
  <2> QED BY <1>1
<1>9. s.frontier = {} => Onto(LeadsTo(E), s.reached) \subseteq s.reached
  <2> HAVE s.frontier = {}
  <2>2. s.reached = r.reached \cup files
    BY <1>1
  <2>3. files = {} /\ s.reached = r.reached
    BY <1>8, <2>2, Zenon
  <2> QED BY <1>3, <2>3
<1>10. s.depth = n /\ s.reached = Near(E, a)[n] /\ s = [depth |-> s.depth, frontier |-> s.frontier,
        reached |-> s.reached, result |-> s.result]
  BY <1>1, <1>4
<1> QED BY <1>2, <1>7, <1>9, <1>10 DEF ImportersRun

\* When the waves end, the files reached are all those within the depth.
LEMMA WavesEnd ==
  ASSUME NEW E, NEW a, a.depth \in Nat, NEW r, ImportersRun(E, a, r),
         r.depth >= a.depth \/ r.frontier = {}
  PROVE  r.result = [f \in Near(E, a)[a.depth] \ {a.file} |-> Counted(E, a, f)]
<1>1. r.depth \in 0..a.depth /\ r.reached = Near(E, a)[r.depth]
  BY DEF ImportersRun
<1>2. r.reached = Near(E, a)[a.depth]
  <2>1. CASE r.depth >= a.depth
    <3>1. r.depth = a.depth
      BY <1>1, <2>1
    <3> QED BY <1>1, <3>1
  <2>2. CASE r.frontier = {}
    <3>1. Onto(LeadsTo(E), Near(E, a)[r.depth]) \subseteq Near(E, a)[r.depth]
      BY <1>1, <2>2 DEF ImportersRun
    <3>2. r.depth \in 0..a.depth /\ a.depth \in 0..a.depth /\ r.depth <= a.depth
      BY <1>1
    <3>3. Near(E, a)[a.depth] = Near(E, a)[r.depth]
      <4>1. PICK S, R, d, j : S = {a.file} /\ R = LeadsTo(E) /\ d = a.depth /\ j = r.depth
        BY Zenon
      <4>2. d \in Nat /\ j \in 0..d /\ d \in 0..d /\ j <= d
        BY <3>2, <4>1
      <4>3. Near(E, a) = Level(R, S, d)
        BY <4>1 DEF Near
      <4>4. Onto(R, Level(R, S, d)[j]) \subseteq Level(R, S, d)[j]
        BY <3>1, <4>1, <4>3
      <4>5. Level(R, S, d)[d] = Level(R, S, d)[j]
        BY <4>2, <4>4, LevelClosed
      <4> QED BY <4>1, <4>3, <4>5
    <3> QED BY <1>1, <3>3
  <2> QED BY <2>1, <2>2
<1> QED BY <1>2 DEF ImportersRun

-----------------------------------------------------------------------------
(* Affected: the rows of a walk are its levels, the candidates the least    *)
(* depth over the walks that are done.                                      *)

\* From a symbol to whoever uses it, and what that reaches.
UsedBy(E) == Reversed(Pairs(E, WalkKinds))
From(E, a, S) == Level(UsedBy(E), S, a.depth)
\* The depths of n below the changed symbols that are done, and zero for the root.
Seen(E, a, r, n) == {k \in 0..a.depth : n \in From(E, a, a.changed \ (r.todo \cup r.root))[k]}
                      \cup {k \in {0} : n \in r.root}

AffectedRun(E, a, r) ==
  /\ r = [todo |-> r.todo, root |-> r.root, queue |-> r.queue, rows |-> r.rows,
          cand |-> r.cand]
  /\ r.todo \subseteq a.changed /\ r.root \subseteq a.changed
  /\ r.todo \cap r.root = {}
  /\ \A x, y \in r.root : x = y
  /\ r.cand = [n \in {x \in Nodes : Seen(E, a, r, x) # {}} |-> Least(Seen(E, a, r, n))]
  /\ r.rows \subseteq Nodes \X (0..a.depth)
  /\ r.queue \in Seq(r.rows)
  /\ \A x \in r.rows : x[1] \in From(E, a, r.root)[x[2]]
  /\ a.depth > 0 => \A x \in r.root : <<x, 0>> \in r.rows
  /\ r.root = {} \/ a.depth = 0 => r.rows = {}
  /\ \A x \in r.rows : x[2] < a.depth /\ x \notin ToSet(r.queue) =>
       \A m \in Nodes : <<x[1], m>> \in UsedBy(E) => <<m, x[2] + 1>> \in r.rows

AffectedAsk(E, a) ==
  /\ E \subseteq Nodes \X Nodes \X Kinds /\ a.depth \in Nat /\ a.changed \subseteq Nodes

LEMMA UsersAre ==
  ASSUME NEW E, NEW a, AffectedAsk(E, a)
  PROVE  /\ \A n, m : <<n, m>> \in UsedBy(E) <=>
              \E e \in E : e[3] \in WalkKinds /\ e[2] = n /\ e[1] = m
         /\ \A p \in UsedBy(E) : p = <<p[1], p[2]>> /\ p[1] \in Nodes /\ p[2] \in Nodes
<1>1. \A p \in UsedBy(E) : \E e \in E : e[3] \in WalkKinds /\ p = <<e[2], e[1]>>
  BY DEF UsedBy, Reversed, Pairs
<1>2. ASSUME NEW e \in E, e[3] \in WalkKinds PROVE <<e[2], e[1]>> \in UsedBy(E)
  <2>1. <<e[1], e[2]>> \in Pairs(E, WalkKinds)
    BY <1>2 DEF Pairs
  <2> QED BY <2>1 DEF UsedBy, Reversed
<1>3. \A e \in E : e[1] \in Nodes /\ e[2] \in Nodes
  BY DEF AffectedAsk
<1>4. ASSUME NEW n, NEW m
      PROVE  <<n, m>> \in UsedBy(E) <=> \E e \in E : e[3] \in WalkKinds /\ e[2] = n /\ e[1] = m
  BY <1>1, <1>2
<1>5. \A p \in UsedBy(E) : p = <<p[1], p[2]>> /\ p[1] \in Nodes /\ p[2] \in Nodes
  BY <1>1, <1>3
<1> QED BY <1>4, <1>5

LEMMA SeenTyped ==
  ASSUME NEW E, NEW a, a.depth \in Nat, NEW r
  PROVE  /\ \A n : Seen(E, a, r, n) \subseteq Nat
         /\ \A n : Seen(E, a, r, n) # {} =>
              /\ Least(Seen(E, a, r, n)) \in Seen(E, a, r, n)
              /\ \A k \in Seen(E, a, r, n) : Least(Seen(E, a, r, n)) <= k
<1>1. \A n : Seen(E, a, r, n) \in SUBSET Nat
  BY DEF Seen
<1> QED BY <1>1, LeastExists

LEMMA NextChangedKeeps ==
  ASSUME NEW E, NEW a, AffectedAsk(E, a), NEW r, AffectedRun(E, a, r),
         r.queue = <<>>, r.root = {}, NEW n \in r.todo, NEW s,
         s = [r EXCEPT !.todo = @ \ {n}, !.root = {n}, !.cand = Bump(@, n, 0),
                !.queue = IF a.depth = 0 THEN <<>> ELSE <<<<n, 0>>>>,
                !.rows = IF a.depth = 0 THEN {} ELSE {<<n, 0>>}]
  PROVE  AffectedRun(E, a, s)
<1>1. s = [todo |-> r.todo \ {n}, root |-> {n},
           queue |-> IF a.depth = 0 THEN <<>> ELSE <<<<n, 0>>>>,
           rows |-> IF a.depth = 0 THEN {} ELSE {<<n, 0>>}, cand |-> Bump(r.cand, n, 0)]
  BY Zenon DEF AffectedRun
<1>2. n \in Nodes /\ a.depth \in Nat /\ r.todo \subseteq a.changed /\ n \in a.changed
  BY DEF AffectedRun, AffectedAsk
<1>3. a.changed \ (s.todo \cup s.root) = a.changed \ (r.todo \cup r.root)
  BY <1>1
<1>4. \A x : Seen(E, a, s, x) = Seen(E, a, r, x) \cup {k \in {0} : x = n}
  BY <1>1, <1>3, Zenon DEF Seen
<1>5. s.cand = [x \in {y \in Nodes : Seen(E, a, s, y) # {}} |-> Least(Seen(E, a, s, x))]
  <2>1. r.cand = [x \in {y \in Nodes : Seen(E, a, r, y) # {}} |-> Least(Seen(E, a, r, x))]
    BY DEF AffectedRun
  <2>2. DOMAIN r.cand \cup {n} = {y \in Nodes : Seen(E, a, s, y) # {}}
    <3>1. Seen(E, a, s, n) # {}
      BY <1>4
    <3>2. \A y : y # n => Seen(E, a, s, y) = Seen(E, a, r, y)
      BY <1>4, Zenon
    <3> QED BY <1>2, <2>1, <3>1, <3>2, Zenon
  <2>3. \A x \in Nodes : x # n => Least(Seen(E, a, s, x)) = Least(Seen(E, a, r, x))
    <3>1. \A y : y # n => Seen(E, a, s, y) = Seen(E, a, r, y)
      BY <1>4, Zenon
    <3> QED BY <3>1
  <2>4. Least(Seen(E, a, s, n)) = 0
    <3>1. Seen(E, a, s, n) \in SUBSET Nat /\ 0 \in Seen(E, a, s, n)
      BY <1>2, <1>4, SeenTyped
    <3>2. \A k \in Seen(E, a, s, n) : 0 <= k
      BY <3>1
    <3> QED BY <3>1, <3>2, LeastIs
  <2>5. n \in DOMAIN r.cand => Least({r.cand[n], 0}) = 0
    <3> HAVE n \in DOMAIN r.cand
    <3>1. r.cand[n] \in Nat
      BY <1>2, <2>1, SeenTyped
    <3>2. {r.cand[n], 0} \in SUBSET Nat /\ \A k \in {r.cand[n], 0} : 0 <= k
      BY <3>1
    <3> QED BY <3>2, LeastIs, Zenon
  <2>6. s.cand = [x \in DOMAIN r.cand \cup {n} |-> IF x # n THEN r.cand[x] ELSE 0]
    <3>1. s.cand = Bump(r.cand, n, 0)
      BY <1>1
    <3> QED BY <2>5, <3>1 DEF Bump
  <2>7. \A x \in DOMAIN r.cand \cup {n} :
          Least(Seen(E, a, s, x)) = IF x # n THEN r.cand[x] ELSE 0
    BY <2>1, <2>3, <2>4, Zenon
  <2> QED BY <2>2, <2>6, <2>7
<1>6. From(E, a, s.root)[0] = {n}
  BY <1>1, <1>2, LevelSteps DEF From
<1>7. s.queue \in Seq(s.rows) /\ s.rows \subseteq ToSet(s.queue)
  <2>1. CASE a.depth = 0
    BY <1>1, <2>1
  <2>2. CASE a.depth # 0
    <3>1. s.queue = <<<<n, 0>>>> /\ s.rows = {<<n, 0>>}
      BY <1>1, <2>2
    <3>2. ToSet(s.queue) = {<<n, 0>>}
      BY <3>1 DEF ToSet
    <3> QED BY <3>1, <3>2
  <2> QED BY <2>1, <2>2
<1>8. s.rows \subseteq {<<n, 0>>} /\ s.root = {n} /\ s.todo = r.todo \ {n}
  BY <1>1
<1>9. (a.depth > 0 => <<n, 0>> \in s.rows) /\ (a.depth = 0 => s.rows = {})
  BY <1>1, <1>2
<1>10. s.rows \subseteq Nodes \X (0..a.depth)
  BY <1>2, <1>8
<1>11. ASSUME NEW x \in s.rows PROVE x[1] \in From(E, a, s.root)[x[2]]
  <2>1. x[1] = n /\ x[2] = 0
    BY <1>8
  <2> QED BY <1>6, <2>1, Zenon
<1>12. s = [todo |-> s.todo, root |-> s.root, queue |-> s.queue, rows |-> s.rows, cand |-> s.cand]
  BY <1>1, Zenon
<1>13. s.todo \subseteq a.changed /\ s.root \subseteq a.changed /\ s.todo \cap s.root = {}
       /\ \A x, y \in s.root : x = y
  BY <1>2, <1>8
<1>14. \A x \in s.root : a.depth > 0 => <<x, 0>> \in s.rows
  BY <1>8, <1>9
<1>15. \A x \in s.rows : x \in ToSet(s.queue)
  BY <1>7
<1>16. s.root # {}
  BY <1>8
<1> QED BY <1>5, <1>7, <1>9, <1>10, <1>11, <1>12, <1>13, <1>14, <1>15, <1>16, Zenon DEF AffectedRun

\* The run after a row: the rows of its successors that are not there yet are new.
NewRows(E, a, r) ==
  LET n == Head(r.queue)[1]  d == Head(r.queue)[2] IN
  IF d >= a.depth THEN {}
  ELSE {<<x[1], d + 1>> : x \in {e \in E : e[2] = n /\ e[3] \in WalkKinds}} \ r.rows
AfterRow(E, a, r) ==
  LET new == NewRows(E, a, r) IN
  [r EXCEPT !.queue = Tail(@) \o SetToSeq(new), !.rows = @ \cup new]

LEMMA BlastRowKeeps ==
  ASSUME NEW E, NEW a, AffectedAsk(E, a), NEW r, AffectedRun(E, a, r), r.queue # <<>>
  PROVE  AffectedRun(E, a, AfterRow(E, a, r))
<1> PICK n, d : n = Head(r.queue)[1] /\ d = Head(r.queue)[2]
  BY Zenon
<1> PICK new : new = NewRows(E, a, r)
  OBVIOUS
<1> PICK s : s = AfterRow(E, a, r)
  OBVIOUS
<1>0. /\ new = (IF d >= a.depth THEN {}
                ELSE {<<x[1], d + 1>> : x \in {e \in E : e[2] = n /\ e[3] \in WalkKinds}} \ r.rows)
      /\ s = [r EXCEPT !.queue = Tail(@) \o SetToSeq(new), !.rows = @ \cup new]
  BY DEF NewRows, AfterRow
<1>1. s = [todo |-> r.todo, root |-> r.root, queue |-> Tail(r.queue) \o SetToSeq(new),
           rows |-> r.rows \cup new, cand |-> r.cand]
  BY <1>0, Zenon DEF AffectedRun
<1> DEFINE h == Head(r.queue)
<1>2. r.queue \in Seq(r.rows) /\ r.rows \subseteq Nodes \X (0..a.depth) /\ a.depth \in Nat
  BY DEF AffectedRun, AffectedAsk
<1>3. h \in r.rows /\ Tail(r.queue) \in Seq(r.rows) /\ ToSet(r.queue) \subseteq {h} \cup ToSet(Tail(r.queue))
  <2>1. h \in r.rows /\ Tail(r.queue) \in Seq(r.rows)
    BY <1>2, HeadTailProperties, Zenon
  <2>2. ASSUME NEW x \in ToSet(r.queue), x # h PROVE x \in ToSet(Tail(r.queue))
    <3>1. PICK i \in DOMAIN r.queue : x = r.queue[i]
      BY DEF ToSet
    <3>2. i \in 1..Len(r.queue) /\ i # 1
      BY <1>2, <2>2, <3>1
    <3>3. i - 1 \in 1..Len(Tail(r.queue)) /\ Tail(r.queue)[i - 1] = x
      BY <1>2, <3>1, <3>2
    <3>4. i - 1 \in DOMAIN Tail(r.queue)
      BY <2>1, <3>3
    <3> QED BY <3>3, <3>4 DEF ToSet
  <2> QED BY <2>1, <2>2
<1>4. h = <<n, d>> /\ n \in Nodes /\ d \in 0..a.depth
  BY <1>2, <1>3
<1>5. \A x : x \in new <=> /\ d < a.depth /\ x \notin r.rows
                           /\ \E m \in Nodes : <<n, m>> \in UsedBy(E) /\ x = <<m, d + 1>>
  <2>1. d >= a.depth <=> ~ (d < a.depth)
    BY <1>2, <1>4
  <2>2. CASE d >= a.depth
    BY <1>0, <2>1, <2>2
  <2>3. CASE d < a.depth
    <3>1. new = {<<x[1], d + 1>> : x \in {e \in E : e[2] = n /\ e[3] \in WalkKinds}} \ r.rows
      BY <1>0, <2>1, <2>3
    <3>2. \A e \in E : e[1] \in Nodes
      BY DEF AffectedAsk
    <3>3. \A m : <<n, m>> \in UsedBy(E) <=> \E e \in E : e[3] \in WalkKinds /\ e[2] = n /\ e[1] = m
      BY UsersAre
    <3>4. ASSUME NEW x \in new
          PROVE  x \notin r.rows /\ \E m \in Nodes : <<n, m>> \in UsedBy(E) /\ x = <<m, d + 1>>
      <4>1. PICK e \in E : e[2] = n /\ e[3] \in WalkKinds /\ x = <<e[1], d + 1>>
        BY <3>1, <3>4
      <4>2. <<n, e[1]>> \in UsedBy(E) /\ e[1] \in Nodes /\ x \notin r.rows
        BY <3>1, <3>2, <3>3, <3>4, <4>1
      <4> QED BY <4>1, <4>2
    <3>5. ASSUME NEW m \in Nodes, <<n, m>> \in UsedBy(E), <<m, d + 1>> \notin r.rows
          PROVE  <<m, d + 1>> \in new
      BY <3>1, <3>3, <3>5
    <3>6. ASSUME NEW x
          PROVE  x \in new <=> x \notin r.rows /\ \E m \in Nodes : <<n, m>> \in UsedBy(E) /\ x = <<m, d + 1>>
      BY <3>4, <3>5, Zenon
    <3> QED BY <2>3, <3>6, Zenon
  <2> QED BY <2>1, <2>2, <2>3, Zenon
<1>6. IsFiniteSet(new)
  <2>1. IsFiniteSet(Nodes \X {d + 1})
    BY GraphAssumption, FS_Singleton, FS_Product, Zenon
  <2>2. ASSUME NEW x \in new PROVE x \in Nodes \X {d + 1}
    <3>1. PICK m \in Nodes : x = <<m, d + 1>>
      BY <1>5, <2>2, Zenon
    <3> QED BY <3>1
  <2> QED BY <2>1, <2>2, FS_Subset
<1>7. SetToSeq(new) \in Seq(new) /\ ToSet(SetToSeq(new)) = new
  BY <1>6, SeqOfSet
<1>8. /\ s.queue \in Seq(s.rows)
      /\ ToSet(s.queue) = ToSet(Tail(r.queue)) \cup new
  <2> DEFINE t == Tail(r.queue)  u == SetToSeq(new)
  <2>1. t \in Seq(s.rows) /\ u \in Seq(s.rows)
    <3>1. s.rows = r.rows \cup new
      BY <1>1
    <3>2. r.rows \subseteq s.rows /\ new \subseteq s.rows
      BY <3>1
    <3> QED BY <1>3, <1>7, <3>2, SeqMonotonic
  <2>2. s.queue = t \o u
    BY <1>1
  <2> HIDE DEF t, u
  <2>3. t \o u \in Seq(s.rows)
    BY <2>1
  <2>4. ToSet(t \o u) = ToSet(t) \cup ToSet(u)
    <3>1. /\ Len(t \o u) = Len(t) + Len(u) /\ Len(t) \in Nat /\ Len(u) \in Nat
          /\ DOMAIN t = 1..Len(t) /\ DOMAIN u = 1..Len(u) /\ DOMAIN (t \o u) = 1..Len(t \o u)
          /\ \A i \in 1..Len(t) : (t \o u)[i] = t[i]
          /\ \A i \in 1..Len(u) : (t \o u)[Len(t) + i] = u[i]
      BY <2>1, <2>3
    <3>2. ASSUME NEW x \in ToSet(t \o u) PROVE x \in ToSet(t) \cup ToSet(u)
      <4>1. PICK i \in 1..Len(t \o u) : x = (t \o u)[i]
        BY <3>1 DEF ToSet
      <4>2. CASE i \in 1..Len(t)
        BY <3>1, <4>1, <4>2 DEF ToSet
      <4>3. CASE i \notin 1..Len(t)
        <5>1. i - Len(t) \in 1..Len(u) /\ i = Len(t) + (i - Len(t))
          BY <3>1, <4>3
        <5>2. x = u[i - Len(t)]
          BY <3>1, <4>1, <5>1
        <5> QED BY <3>1, <5>1, <5>2 DEF ToSet
      <4> QED BY <4>2, <4>3
    <3>3. ASSUME NEW x \in ToSet(t) PROVE x \in ToSet(t \o u)
      <4>1. PICK i \in 1..Len(t) : x = t[i]
        BY <3>1, <3>3 DEF ToSet
      <4>2. i \in 1..Len(t \o u) /\ x = (t \o u)[i]
        BY <3>1, <4>1
      <4> QED BY <3>1, <4>2 DEF ToSet
    <3>4. ASSUME NEW x \in ToSet(u) PROVE x \in ToSet(t \o u)
      <4>1. PICK i \in 1..Len(u) : x = u[i]
        BY <3>1, <3>4 DEF ToSet
      <4>2. Len(t) + i \in 1..Len(t \o u) /\ x = (t \o u)[Len(t) + i]
        BY <3>1, <4>1
      <4> QED BY <3>1, <4>2, Zenon DEF ToSet
    <3> QED BY <3>2, <3>3, <3>4
  <2> QED BY <1>7, <2>2, <2>3, <2>4 DEF t, u
<1>9. d < a.depth => From(E, a, r.root)[d + 1] = From(E, a, r.root)[d] \cup Onto(UsedBy(E), From(E, a, r.root)[d])
  <2>1. a.depth \in Nat /\ d \in 0..a.depth
    BY <1>2, <1>4
  <2> DEFINE L == From(E, a, r.root)
  <2>2. \A k \in 0..a.depth : k < a.depth => L[k + 1] = L[k] \cup Onto(UsedBy(E), L[k])
    BY <2>1, LevelSteps DEF From
  <2> HIDE DEF L
  <2>3. d < a.depth => L[d + 1] = L[d] \cup Onto(UsedBy(E), L[d])
    BY <2>1, <2>2
  <2> QED BY <2>3 DEF L
<1>10. \A x \in s.rows : x[1] \in From(E, a, s.root)[x[2]]
  <2>1. \A x \in r.rows : x[1] \in From(E, a, r.root)[x[2]]
    BY DEF AffectedRun
  <2>2. ASSUME NEW x \in new PROVE x[1] \in From(E, a, r.root)[x[2]]
    <3>1. PICK m \in Nodes : <<n, m>> \in UsedBy(E) /\ x = <<m, d + 1>>
      BY <1>5, <2>2, Zenon
    <3>2. n \in From(E, a, r.root)[d]
      BY <1>3, <1>4, <2>1
    <3>3. m \in Onto(UsedBy(E), From(E, a, r.root)[d])
      <4>1. <<n, m>>[1] = n /\ <<n, m>>[2] = m
        OBVIOUS
      <4> QED BY <3>1, <3>2, <4>1 DEF Onto
    <3>4. d < a.depth
      BY <1>5, <2>2
    <3> QED BY <1>9, <3>1, <3>3, <3>4
  <2>3. s.rows = r.rows \cup new /\ s.root = r.root
    BY <1>1
  <2> QED BY <2>1, <2>2, <2>3
<1>11. s.rows \subseteq Nodes \X (0..a.depth)
  <2>1. ASSUME NEW x \in new PROVE x \in Nodes \X (0..a.depth)
    <3>1. PICK m \in Nodes : x = <<m, d + 1>>
      BY <1>5, <2>1, Zenon
    <3>2. d + 1 \in 0..a.depth
      BY <1>2, <1>4, <1>5, <2>1
    <3> QED BY <3>1, <3>2
  <2>2. s.rows = r.rows \cup new
    BY <1>1
  <2> QED BY <1>2, <2>1, <2>2
<1>12. \A x \in s.rows : x[2] < a.depth /\ x \notin ToSet(s.queue) =>
         \A m \in Nodes : <<x[1], m>> \in UsedBy(E) => <<m, x[2] + 1>> \in s.rows
  <2> SUFFICES ASSUME NEW x \in s.rows, x[2] < a.depth, x \notin ToSet(s.queue),
                      NEW m \in Nodes, <<x[1], m>> \in UsedBy(E)
               PROVE  <<m, x[2] + 1>> \in s.rows
    OBVIOUS
  <2>1. x \in r.rows /\ x \notin ToSet(Tail(r.queue)) /\ s.rows = r.rows \cup new
    BY <1>1, <1>8
  <2>2. CASE x = h
    BY <1>4, <1>5, <2>1, <2>2
  <2>3. CASE x # h
    <3>1. x \notin ToSet(r.queue)
      BY <1>3, <2>1, <2>3
    <3>2. <<m, x[2] + 1>> \in r.rows
      BY <2>1, <3>1 DEF AffectedRun
    <3> QED BY <2>1, <3>2
  <2> QED BY <2>2, <2>3
<1>13. \A x : Seen(E, a, s, x) = Seen(E, a, r, x)
  BY <1>1 DEF Seen
<1>14. s.cand = [x \in {y \in Nodes : Seen(E, a, s, y) # {}} |-> Least(Seen(E, a, s, x))]
  <2>1. r.cand = [x \in {y \in Nodes : Seen(E, a, r, y) # {}} |-> Least(Seen(E, a, r, x))]
    BY DEF AffectedRun
  <2>2. {y \in Nodes : Seen(E, a, s, y) # {}} = {y \in Nodes : Seen(E, a, r, y) # {}}
    BY <1>13
  <2>3. s.cand = r.cand
    BY <1>1
  <2> QED BY <1>13, <2>1, <2>2, <2>3
<1>15. ~ (r.root = {} \/ a.depth = 0)
  BY <1>3 DEF AffectedRun
<1>16. /\ s.todo = r.todo /\ s.root = r.root /\ r.rows \subseteq s.rows
       /\ s = [todo |-> s.todo, root |-> s.root, queue |-> s.queue, rows |-> s.rows, cand |-> s.cand]
  <2>1. s.todo = r.todo /\ s.root = r.root /\ s.rows = r.rows \cup new
    BY <1>1
  <2>2. s = [todo |-> s.todo, root |-> s.root, queue |-> s.queue, rows |-> s.rows, cand |-> s.cand]
    BY <1>1
  <2> QED BY <2>1, <2>2
<1>17. /\ r.todo \subseteq a.changed /\ r.root \subseteq a.changed /\ r.todo \cap r.root = {}
       /\ \A x, y \in r.root : x = y
       /\ \A x \in r.root : a.depth > 0 => <<x, 0>> \in r.rows
  BY DEF AffectedRun
<1>18. \A x \in s.root : a.depth > 0 => <<x, 0>> \in s.rows
  BY <1>16, <1>17
<1> QED BY <1>8, <1>10, <1>11, <1>12, <1>14, <1>15, <1>16, <1>17, <1>18 DEF AffectedRun

LEMMA LeastOfUnion ==
  ASSUME NEW A \in SUBSET Nat, NEW B \in SUBSET Nat, A # {}, B # {}
  PROVE  Least(A \cup B) = Least({Least(A), Least(B)})
<1>1. /\ Least(A) \in A /\ \A x \in A : Least(A) <= x
      /\ Least(B) \in B /\ \A x \in B : Least(B) <= x
  BY LeastExists
<1>2. {Least(A), Least(B)} \in SUBSET Nat /\ A \cup B \in SUBSET Nat
  BY <1>1, Zenon
<1> DEFINE m == Least({Least(A), Least(B)})
<1>3. m \in {Least(A), Least(B)} /\ m <= Least(A) /\ m <= Least(B)
  BY <1>2, LeastExists
<1> HIDE DEF m
<1>4. m \in A \cup B /\ m \in Nat
  BY <1>1, <1>2, <1>3
<1>5. ASSUME NEW x \in A \cup B PROVE m <= x
  <2>1. x \in Nat /\ Least(A) \in Nat /\ Least(B) \in Nat
    BY <1>2
  <2>2. Least(A) <= x \/ Least(B) <= x
    BY <1>1
  <2> QED BY <1>3, <1>4, <2>1, <2>2
<1>6. Least(A \cup B) = m
  BY <1>2, <1>4, <1>5, LeastIs
<1> QED BY <1>6 DEF m

\* The depths of n below the root, and those of its rows.
Below(E, a, r, n) == {k \in 0..a.depth : n \in From(E, a, r.root)[k]}
Depths(r, n) == {x[2] : x \in {y \in r.rows : y[1] = n}}

LEMMA SeenGrows ==
  ASSUME NEW E, NEW a, AffectedAsk(E, a), NEW r, AffectedRun(E, a, r), NEW x
  PROVE  {k \in 0..a.depth : x \in From(E, a, a.changed \ r.todo)[k]}
           = Seen(E, a, r, x) \cup Below(E, a, r, x)
<1> DEFINE C == a.changed \ (r.todo \cup r.root)
<1>1. a.depth \in Nat /\ r.root \subseteq a.changed /\ r.todo \cap r.root = {}
  BY DEF AffectedAsk, AffectedRun
<1>2. a.changed \ r.todo = C \cup r.root
  BY <1>1
<1>3. Seen(E, a, r, x) = {k \in 0..a.depth : x \in From(E, a, C)[k]} \cup {k \in {0} : x \in r.root}
  BY DEF Seen
<1> HIDE DEF C
<1>4. \A k \in 0..a.depth : From(E, a, C \cup r.root)[k] = From(E, a, C)[k] \cup From(E, a, r.root)[k]
  <2> SUFFICES ASSUME NEW k \in 0..a.depth
               PROVE  From(E, a, C \cup r.root)[k] = From(E, a, C)[k] \cup From(E, a, r.root)[k]
    BY Zenon
  <2>1. PICK U, V, d, R : U = C \cup V /\ V = r.root /\ d = a.depth /\ R = UsedBy(E)
    BY Zenon
  <2>2. U = C \cup V /\ d \in Nat /\ k \in 0..d
    BY <1>1, <2>1
  <2>3. ASSUME NEW n
        PROVE  n \in Level(R, U, d)[k] <=> n \in Level(R, C, d)[k] \/ n \in Level(R, V, d)[k]
    BY <2>2, LevelUnion, Zenon
  <2>4. Level(R, U, d)[k] = Level(R, C, d)[k] \cup Level(R, V, d)[k]
    BY <2>3
  <2> QED BY <2>1, <2>4, Zenon DEF From
<1>5. From(E, a, r.root)[0] = r.root
  BY <1>1, LevelSteps DEF From
<1>6. x \in r.root => 0 \in Below(E, a, r, x)
  BY <1>1, <1>5 DEF Below
<1>7. {k \in 0..a.depth : x \in From(E, a, C \cup r.root)[k]}
        = {k \in 0..a.depth : x \in From(E, a, C)[k]} \cup Below(E, a, r, x)
  BY <1>4, Zenon DEF Below
<1> QED BY <1>2, <1>3, <1>6, <1>7, Zenon

\* When no row is left to look at, the rows hold the least depth of every node that
\* the root reaches.
LEMMA RowsAreLevels ==
  ASSUME NEW E, NEW a, AffectedAsk(E, a), NEW r, AffectedRun(E, a, r), r.queue = <<>>,
         NEW n, n \notin r.root
  PROVE  /\ Depths(r, n) \subseteq Nat /\ Below(E, a, r, n) \subseteq Nat
         /\ Depths(r, n) = {} <=> Below(E, a, r, n) = {}
         /\ Depths(r, n) # {} => Least(Depths(r, n)) = Least(Below(E, a, r, n))
<1> PICK D : D = Depths(r, n)
  OBVIOUS
<1> PICK K : K = Below(E, a, r, n)
  OBVIOUS
<1> USE DEF Depths, Below
<1> DEFINE L == From(E, a, r.root)
<1>1. a.depth \in Nat /\ r.rows \subseteq Nodes \X (0..a.depth)
  BY DEF AffectedAsk, AffectedRun
<1>2. L[0] = r.root /\ \A k \in 0..a.depth : k < a.depth => L[k + 1] = L[k] \cup Onto(UsedBy(E), L[k])
  BY <1>1, LevelSteps DEF From
<1>3. \A x \in r.rows : x[1] \in L[x[2]]
  BY DEF AffectedRun
<1> HIDE DEF L
<1>4. ASSUME NEW j \in D PROVE j \in K
  <2>1. PICK x \in r.rows : x[1] = n /\ x[2] = j
    BY <1>4
  <2> QED BY <1>1, <1>3, <2>1 DEF L
<1>5. ASSUME NEW k \in K PROVE \E j \in D : j <= k
  <2>1. n \in L[k] /\ k \in 0..a.depth
    BY <1>5 DEF L
  <2>2. CASE a.depth = 0
    <3>1. k = 0
      BY <2>1, <2>2
    <3> QED BY <1>2, <2>1, <3>1
  <2>3. CASE a.depth # 0
    <3> DEFINE P == {i \in 0..a.depth : \A m \in L[i] : \E j \in 0..i : <<m, j>> \in r.rows}
    <3>1. 0 \in P
      <4>1. \A m \in r.root : <<m, 0>> \in r.rows
        <5>1. a.depth > 0
          BY <1>1, <2>3
        <5> QED BY <5>1, Zenon DEF AffectedRun
      <4> QED BY <1>1, <1>2, <4>1
    <3>2. ASSUME NEW i \in 0..a.depth, i < a.depth, i \in P PROVE i + 1 \in P
      <4>1. i + 1 \in 0..a.depth
        BY <1>1, <3>2
      <4>2. ASSUME NEW m \in L[i + 1] PROVE \E j \in 0..(i + 1) : <<m, j>> \in r.rows
        <5>1. CASE m \in L[i]
          <6>1. PICK j \in 0..i : <<m, j>> \in r.rows
            BY <3>2, <5>1
          <6>2. j \in 0..(i + 1)
            OBVIOUS
          <6> QED BY <6>1, <6>2
        <5>2. CASE m \notin L[i]
          <6>1. m \in Onto(UsedBy(E), L[i])
            BY <1>2, <3>2, <4>2, <5>2
          <6>2. PICK p \in UsedBy(E) : p[1] \in L[i] /\ p[2] = m
            BY <6>1 DEF Onto
          <6>3. m \in Nodes /\ <<p[1], m>> \in UsedBy(E)
            BY <6>2, UsersAre
          <6>4. PICK j \in 0..i : <<p[1], j>> \in r.rows
            BY <3>2, <6>2
          <6>5. <<p[1], j>> \notin ToSet(r.queue)
            BY DEF ToSet
          <6>6. j < a.depth
            BY <1>1, <3>2
          <6>7. <<p[1], j>>[1] = p[1] /\ <<p[1], j>>[2] = j
            OBVIOUS
          <6>8. \A x \in r.rows : x[2] < a.depth /\ x \notin ToSet(r.queue) =>
                  \A y \in Nodes : <<x[1], y>> \in UsedBy(E) => <<y, x[2] + 1>> \in r.rows
            BY DEF AffectedRun
          <6>9. <<m, j + 1>> \in r.rows
            BY <6>3, <6>4, <6>5, <6>6, <6>7, <6>8
          <6>10. j + 1 \in 0..(i + 1)
            OBVIOUS
          <6> QED BY <6>9, <6>10
        <5> QED BY <5>1, <5>2
      <4> QED BY <4>1, <4>2, Zenon
    <3>3. 0..a.depth \subseteq P
      <4> HIDE DEF P
      <4> QED BY <1>1, <3>1, <3>2, Climbing, Zenon
    <3>4. PICK j \in 0..k : <<n, j>> \in r.rows
      BY <2>1, <3>3, Zenon
    <3>5. j \in D
      <4>1. <<n, j>>[1] = n /\ <<n, j>>[2] = j
        OBVIOUS
      <4> QED BY <3>4, <4>1
    <3>6. j <= k
      BY <2>1
    <3> QED BY <3>5, <3>6
  <2> QED BY <2>2, <2>3
<1>6. D \in SUBSET Nat /\ K \in SUBSET Nat
  BY <1>4
<1>7. D # {} => Least(D) = Least(K)
  <2> HAVE D # {}
  <2>1. Least(D) \in D /\ \A x \in D : Least(D) <= x
    BY <1>6, LeastExists, Zenon
  <2>2. Least(D) \in K
    BY <1>4, <2>1
  <2>3. ASSUME NEW k \in K PROVE Least(D) <= k
    <3>1. PICK j \in D : j <= k
      BY <1>5
    <3>2. Least(D) <= j /\ Least(D) \in Nat /\ j \in Nat /\ k \in Nat
      BY <1>6, <2>1, Zenon
    <3> QED BY <3>1, <3>2
  <2> QED BY <1>6, <2>2, <2>3, LeastIs
<1>8. D = {} <=> K = {}
  BY <1>4, <1>5, Zenon
<1> QED BY <1>6, <1>7, <1>8, Zenon

\* The run after a walk.
AfterWalk(r) ==
  LET found == {x[1] : x \in r.rows} \ r.root IN
  [r EXCEPT !.root = {}, !.rows = {},
     !.cand = [x \in DOMAIN @ \cup found |->
                 IF x \notin found THEN @[x]
                 ELSE IF x \in DOMAIN @ THEN Least({@[x], Least(Depths(r, x))})
                 ELSE Least(Depths(r, x))]]

LEMMA BlastEndsKeeps ==
  ASSUME NEW E, NEW a, AffectedAsk(E, a), NEW r, AffectedRun(E, a, r), r.queue = <<>>
  PROVE  AffectedRun(E, a, AfterWalk(r))
<1> PICK found : found = {x[1] : x \in r.rows} \ r.root
  BY Zenon
<1> PICK s : s = AfterWalk(r)
  OBVIOUS
<1> DEFINE cand == [x \in DOMAIN r.cand \cup found |->
                      IF x \notin found THEN r.cand[x]
                      ELSE IF x \in DOMAIN r.cand THEN Least({r.cand[x], Least(Depths(r, x))})
                      ELSE Least(Depths(r, x))]
<1>1. s = [todo |-> r.todo, root |-> {}, queue |-> r.queue, rows |-> {}, cand |-> cand]
  BY Zenon DEF AffectedRun, AfterWalk
<1>2. a.depth \in Nat /\ r.rows \subseteq Nodes \X (0..a.depth) /\ r.root \subseteq Nodes
      /\ r.root \subseteq a.changed /\ r.todo \subseteq a.changed /\ r.todo \cap r.root = {}
  BY DEF AffectedAsk, AffectedRun
<1>3. r.cand = [n \in {x \in Nodes : Seen(E, a, r, x) # {}} |-> Least(Seen(E, a, r, n))]
  BY DEF AffectedRun
<1>4. ASSUME NEW x PROVE Seen(E, a, s, x) = Seen(E, a, r, x) \cup Below(E, a, r, x)
  <2>1. s.todo = r.todo /\ s.root = {}
    BY <1>1
  <2>2. Seen(E, a, s, x) = {k \in 0..a.depth : x \in From(E, a, a.changed \ r.todo)[k]}
    BY <2>1 DEF Seen
  <2> QED BY <2>2, SeenGrows
<1> HIDE DEF cand
<1>5. ASSUME NEW x, x \notin r.root
      PROVE  /\ Below(E, a, r, x) \subseteq Nat
             /\ x \in found <=> Below(E, a, r, x) # {}
             /\ x \in found => Least(Depths(r, x)) = Least(Below(E, a, r, x)) /\ x \in Nodes
  <2>1. x \in found <=> Depths(r, x) # {}
    BY <1>5 DEF Depths
  <2>2. /\ Depths(r, x) \subseteq Nat /\ Below(E, a, r, x) \subseteq Nat
        /\ Depths(r, x) = {} <=> Below(E, a, r, x) = {}
        /\ Depths(r, x) # {} => Least(Depths(r, x)) = Least(Below(E, a, r, x))
    BY <1>5, RowsAreLevels
  <2>3. x \in found => x \in Nodes
    BY <1>2
  <2> QED BY <2>1, <2>2, <2>3
<1>6. \A x \in r.root : x \notin found /\ 0 \in Seen(E, a, r, x)
  BY DEF Seen
<1>7. ASSUME NEW x
      PROVE  x \in Nodes /\ Seen(E, a, s, x) # {} <=> x \in DOMAIN r.cand \cup found
  <2>1. CASE x \in r.root
    BY <1>2, <1>3, <1>4, <1>6, <2>1
  <2>2. CASE x \notin r.root
    <3>1. Seen(E, a, s, x) = Seen(E, a, r, x) \cup Below(E, a, r, x)
      BY <1>4
    <3>2. x \in found <=> Below(E, a, r, x) # {}
      BY <1>5, <2>2
    <3>3. x \in found => x \in Nodes
      BY <1>5, <2>2
    <3>4. x \in DOMAIN r.cand <=> x \in Nodes /\ Seen(E, a, r, x) # {}
      BY <1>3
    <3> QED BY <3>1, <3>2, <3>3, <3>4
  <2> QED BY <2>1, <2>2
<1>8. ASSUME NEW x \in DOMAIN r.cand \cup found
      PROVE  cand[x] = Least(Seen(E, a, s, x))
  <2>1. Seen(E, a, s, x) = Seen(E, a, r, x) \cup Below(E, a, r, x)
    BY <1>4
  <2>2. Seen(E, a, r, x) \in SUBSET Nat /\ Seen(E, a, s, x) \in SUBSET Nat
    BY <1>2, SeenTyped
  <2>3. x \in DOMAIN r.cand => r.cand[x] = Least(Seen(E, a, r, x)) /\ Seen(E, a, r, x) # {}
    BY <1>3
  <2>4. x \in DOMAIN r.cand \/ x \in found
    BY <1>8
  <2>5. cand[x] = IF x \notin found THEN r.cand[x]
                  ELSE IF x \in DOMAIN r.cand THEN Least({r.cand[x], Least(Depths(r, x))})
                  ELSE Least(Depths(r, x))
    BY DEF cand
  <2>6. CASE x \in r.root
    <3>1. x \notin found /\ 0 \in Seen(E, a, r, x) /\ 0 \in Seen(E, a, s, x)
      BY <1>6, <2>1, <2>6
    <3>2. ASSUME NEW k \in Seen(E, a, r, x) PROVE 0 <= k
      <4>1. k \in Nat
        BY <2>2
      <4> QED BY <4>1
    <3>3. ASSUME NEW k \in Seen(E, a, s, x) PROVE 0 <= k
      <4>1. k \in Nat
        BY <2>2
      <4> QED BY <4>1
    <3>4. Least(Seen(E, a, r, x)) = 0 /\ Least(Seen(E, a, s, x)) = 0
      BY <2>2, <3>1, <3>2, <3>3, LeastIs
    <3> QED BY <2>3, <2>4, <2>5, <3>1, <3>4
  <2>7. CASE x \notin r.root /\ x \notin found
    <3>1. Seen(E, a, s, x) = Seen(E, a, r, x)
      BY <1>5, <2>1, <2>7
    <3> QED BY <2>3, <2>4, <2>5, <2>7, <3>1
  <2>8. CASE x \notin r.root /\ x \in found /\ x \in DOMAIN r.cand
    <3>1. Below(E, a, r, x) \in SUBSET Nat /\ Below(E, a, r, x) # {} /\ Least(Depths(r, x)) = Least(Below(E, a, r, x))
      BY <1>5, <2>8
    <3>2. Least(Seen(E, a, r, x) \cup Below(E, a, r, x)) = Least({Least(Seen(E, a, r, x)), Least(Below(E, a, r, x))})
      BY <2>2, <2>3, <2>8, <3>1, LeastOfUnion, Zenon
    <3> QED BY <2>1, <2>3, <2>5, <2>8, <3>1, <3>2, Zenon
  <2>9. CASE x \notin r.root /\ x \in found /\ x \notin DOMAIN r.cand
    <3>1. Below(E, a, r, x) # {} /\ Least(Depths(r, x)) = Least(Below(E, a, r, x)) /\ x \in Nodes
      BY <1>5, <2>9
    <3>2. Seen(E, a, r, x) = {}
      BY <1>3, <2>9, <3>1
    <3>3. Seen(E, a, s, x) = Below(E, a, r, x)
      BY <2>1, <3>2
    <3> QED BY <2>5, <2>9, <3>1, <3>3
  <2> QED BY <2>6, <2>7, <2>8, <2>9
<1>9. s.cand = [x \in {y \in Nodes : Seen(E, a, s, y) # {}} |-> Least(Seen(E, a, s, x))]
  <2>1. s.cand = cand /\ cand = [x \in DOMAIN r.cand \cup found |-> cand[x]]
    BY <1>1 DEF cand
  <2>2. {y \in Nodes : Seen(E, a, s, y) # {}} = DOMAIN r.cand \cup found
    BY <1>7
  <2> QED BY <1>8, <2>1, <2>2
<1>10. /\ s.todo = r.todo /\ s.root = {} /\ s.rows = {} /\ s.queue = <<>>
       /\ s = [todo |-> s.todo, root |-> s.root, queue |-> s.queue, rows |-> s.rows, cand |-> s.cand]
  <2>1. s.todo = r.todo /\ s.root = {} /\ s.rows = {} /\ s.queue = <<>>
    BY <1>1
  <2>2. s = [todo |-> s.todo, root |-> s.root, queue |-> s.queue, rows |-> s.rows, cand |-> s.cand]
    BY <1>1
  <2> QED BY <2>1, <2>2
<1>11. s.queue \in Seq(s.rows)
  <2>1. \A S : <<>> \in Seq(S)
    OBVIOUS
  <2>2. s.queue = <<>>
    BY <1>10
  <2> QED BY <2>1, <2>2
<1> QED BY <1>2, <1>9, <1>10, <1>11 DEF AffectedRun

\* When no symbol is left, the candidates are what the changed symbols reach.
LEMMA WalksEnd ==
  ASSUME NEW E, NEW a, AffectedAsk(E, a), NEW r, AffectedRun(E, a, r), r.root = {}, r.todo = {}
  PROVE  r.cand = [n \in From(E, a, a.changed)[a.depth] |->
                     Least({k \in 0..a.depth : n \in From(E, a, a.changed)[k]})]
<1> DEFINE L == From(E, a, a.changed)
<1>1. a.depth \in Nat /\ a.changed \subseteq Nodes
  BY DEF AffectedAsk
<1>2. a.changed \ (r.todo \cup r.root) = a.changed
  OBVIOUS
<1>3. \A n : Seen(E, a, r, n) = {k \in 0..a.depth : n \in L[k]}
  BY <1>2 DEF Seen
<1>4. \A k \in 0..a.depth : L[k] \subseteq L[a.depth]
  BY <1>1, LevelGrows DEF From
<1>5. L[a.depth] \subseteq Nodes
  <2>1. Onto(UsedBy(E), Nodes) \subseteq Nodes
    BY UsersAre DEF Onto
  <2> QED BY <1>1, <2>1, LevelWithin DEF From
<1> HIDE DEF L
<1>6. {x \in Nodes : Seen(E, a, r, x) # {}} = L[a.depth]
  <2>1. ASSUME NEW x \in Nodes, Seen(E, a, r, x) # {} PROVE x \in L[a.depth]
    BY <1>3, <1>4, <2>1
  <2>2. ASSUME NEW x \in L[a.depth] PROVE x \in Nodes /\ a.depth \in Seen(E, a, r, x)
    BY <1>1, <1>3, <1>5, <2>2
  <2> QED BY <2>1, <2>2
<1>7. r.cand = [n \in {x \in Nodes : Seen(E, a, r, x) # {}} |-> Least(Seen(E, a, r, n))]
  BY DEF AffectedRun
<1> QED BY <1>3, <1>6, <1>7, Zenon DEF L

-----------------------------------------------------------------------------
(* The steps of the two queries, and of the others.                         *)

ImpactTyped ==
  ask.job \in {"affected", "importers"} =>
    /\ edges \subseteq Nodes \X Nodes \X Kinds /\ ask.depth \in Nat
    /\ ask.job = "affected" => ask.changed \subseteq Nodes

\* While a query runs, what it keeps is a stage of the answer.
ImpactInv ==
  /\ ImpactTyped
  /\ Running("affected") => AffectedRun(edges, ask, run)
  /\ Running("importers") => ImportersRun(edges, ask, run)
  /\ ImpactIsExact

LEMMA AffectedStarts ==
  ASSUME NEW E, NEW a, AffectedAsk(E, a), a.job = "affected"
  PROVE  AffectedRun(E, a, Start(a))
<1> DEFINE s == [todo |-> a.changed, root |-> {}, queue |-> <<>>, rows |-> {}, cand |-> Empty]
<1>1. Start(a) = s
  BY DEF Start
<1>2. ASSUME NEW x PROVE Seen(E, a, s, x) = {}
  <2>1. a.changed \ (s.todo \cup s.root) = {}
    OBVIOUS
  <2>2. \A k \in 0..a.depth : From(E, a, {})[k] \subseteq {}
    <3>1. Onto(UsedBy(E), {}) \subseteq {} /\ a.depth \in Nat
      BY DEF Onto, AffectedAsk
    <3> QED BY <3>1, LevelWithin DEF From
  <2>3. s.root = {}
    OBVIOUS
  <2> HIDE DEF s
  <2> QED BY <2>1, <2>2, <2>3 DEF Seen
<1>3. /\ s.todo = a.changed /\ s.root = {} /\ s.queue = <<>> /\ s.rows = {} /\ s.cand = Empty
      /\ s = [todo |-> s.todo, root |-> s.root, queue |-> s.queue, rows |-> s.rows, cand |-> s.cand]
  OBVIOUS
<1> HIDE DEF s
<1>4. {x \in Nodes : Seen(E, a, s, x) # {}} = {}
  BY <1>2
<1>5. s.cand = [n \in {x \in Nodes : Seen(E, a, s, x) # {}} |-> Least(Seen(E, a, s, n))]
  BY <1>3, <1>4 DEF Empty
<1>6. s.queue \in Seq(s.rows)
  <2>1. \A S : <<>> \in Seq(S)
    OBVIOUS
  <2>2. s.queue = <<>>
    BY <1>3
  <2> QED BY <2>1, <2>2
<1>7. AffectedRun(E, a, s)
  BY <1>3, <1>5, <1>6 DEF AffectedRun
<1> QED BY <1>1, <1>7

LEMMA ImportersStart ==
  ASSUME NEW E, NEW a, a.depth \in Nat, a.job = "importers"
  PROVE  ImportersRun(E, a, Start(a))
<1> DEFINE s == [depth |-> 0, frontier |-> {a.file}, reached |-> {a.file}, result |-> Empty]
<1>1. Start(a) = s
  BY DEF Start
<1>2. Near(E, a)[0] = {a.file}
  BY LevelSteps DEF Near
<1>3. s.result = [f \in s.reached \ {a.file} |-> Counted(E, a, f)]
  <2>1. s.reached \ {a.file} = {} /\ s.result = Empty
    OBVIOUS
  <2> HIDE DEF s
  <2> QED BY <2>1 DEF Empty
<1>4. /\ s.depth = 0 /\ s.frontier # {} /\ s.reached = {a.file}
      /\ s = [depth |-> s.depth, frontier |-> s.frontier, reached |-> s.reached, result |-> s.result]
  OBVIOUS
<1> HIDE DEF s
<1> QED BY <1>1, <1>2, <1>3, <1>4 DEF ImportersRun

LEMMA ImpactInitially == GraphInit => ImpactInv
<1> SUFFICES ASSUME GraphInit PROVE ImpactInv
  OBVIOUS
<1>1. edges \in Graphs /\ ask \in Asks /\ run = Start(ask) /\ answer = NoAnswer
  BY DEF GraphInit
<1>2. ImpactTyped
  BY <1>1, GraphAssumption DEF ImpactTyped
<1>3. Running("affected") => AffectedRun(edges, ask, run)
  BY <1>1, <1>2, AffectedStarts DEF Running, AffectedAsk, ImpactTyped
<1>4. Running("importers") => ImportersRun(edges, ask, run)
  BY <1>1, <1>2, ImportersStart DEF Running, ImpactTyped
<1>5. ImpactIsExact
  BY <1>1 DEF ImpactIsExact, Answered
<1> QED BY <1>2, <1>3, <1>4, <1>5 DEF ImpactInv

\* What a step that goes on, and one that returns, leaves to show.
LEMMA GoesOn ==
  ASSUME ImpactInv, NEW job, Running(job), NEW r, Continue(r),
         job = "affected" => AffectedRun(edges, ask, r),
         job = "importers" => ImportersRun(edges, ask, r)
  PROVE  ImpactInv'
<1>1. ask.job = job /\ answer = NoAnswer
  BY DEF Running
<1>2. edges' = edges /\ ask' = ask /\ answer' = answer /\ run' = r
  BY DEF Continue
<1>3. ImpactTyped'
  BY <1>2 DEF ImpactInv, ImpactTyped
<1>4. ImpactIsExact'
  BY <1>1, <1>2 DEF ImpactIsExact, Answered
<1>5. (Running("affected") => AffectedRun(edges, ask, run))'
  BY <1>1, <1>2 DEF Running
<1>6. (Running("importers") => ImportersRun(edges, ask, run))'
  BY <1>1, <1>2 DEF Running
<1> QED BY <1>3, <1>4, <1>5, <1>6 DEF ImpactInv

LEMMA Returns ==
  ASSUME ImpactInv, NEW job, Running(job), NEW v, Return(v), job \notin {"affected", "importers"}
  PROVE  ImpactInv'
<1>1. ask' = ask /\ ask.job = job
  BY DEF Return, Running
<1> QED BY <1>1 DEF ImpactInv, ImpactTyped, ImpactIsExact, Running, Answered

LEMMA AffectedEndsExact == ImpactInv /\ AffectedEnds => ImpactInv'
<1> SUFFICES ASSUME ImpactInv, AffectedEnds PROVE ImpactInv'
  OBVIOUS
<1>1. /\ ask.job = "affected" /\ AffectedRun(edges, ask, run) /\ AffectedAsk(edges, ask)
      /\ run.root = {} /\ run.todo = {}
  BY DEF AffectedEnds, ImpactInv, ImpactTyped, Running, AffectedAsk
<1>2. /\ edges' = edges /\ ask' = ask
      /\ answer' = [found |-> TRUE, value |-> [n \in DOMAIN run.cand \cap Tests |-> run.cand[n]]]
  BY DEF AffectedEnds, Return
<1>3. answer'.value = [n \in DOMAIN run.cand \cap Tests |-> run.cand[n]]
      /\ answer' # NoAnswer
  BY <1>2 DEF NoAnswer
<1>4. run.cand = Distances(UsedBy(edges), ask.changed, ask.depth)
  BY <1>1, WalksEnd DEF Distances, From
<1>5. ImpactIsExact'
  BY <1>1, <1>2, <1>3, <1>4 DEF ImpactIsExact, Answered, UsedBy
<1>6. ~ Running("affected")' /\ ~ Running("importers")'
  BY <1>3 DEF Running
<1>7. ImpactTyped'
  BY <1>2 DEF ImpactInv, ImpactTyped
<1> QED BY <1>5, <1>6, <1>7 DEF ImpactInv

LEMMA ImportersEndExact == ImpactInv /\ ImportersEnd => ImpactInv'
<1> SUFFICES ASSUME ImpactInv, ImportersEnd PROVE ImpactInv'
  OBVIOUS
<1>1. /\ ask.job = "importers" /\ ImportersRun(edges, ask, run) /\ ask.depth \in Nat
      /\ run.depth >= ask.depth \/ run.frontier = {}
  BY DEF ImportersEnd, ImpactInv, ImpactTyped, Running
<1>2. edges' = edges /\ ask' = ask /\ answer' = [found |-> TRUE, value |-> run.result]
  BY DEF ImportersEnd, Return
<1>3. answer'.value = run.result /\ answer' # NoAnswer
  BY <1>2 DEF NoAnswer
<1> PICK dist : dist = Distances(LeadsTo(edges), {ask.file}, ask.depth)
  OBVIOUS
<1>4. dist = [f \in Near(edges, ask)[ask.depth] |-> Far(edges, ask, f)]
  BY DEF Distances, Near, Far
<1>5. run.result = [f \in Near(edges, ask)[ask.depth] \ {ask.file} |-> Counted(edges, ask, f)]
  BY <1>1, WavesEnd
<1>6. ASSUME NEW f \in DOMAIN dist
      PROVE  Inward(edges, ask, f) = {e \in edges : /\ FileOf[e[1]] = f
                                                    /\ FileOf[e[2]] \in DOMAIN dist
                                                    /\ dist[FileOf[e[2]]] < dist[f]}
  BY <1>4 DEF Inward
<1>7. run.result = [f \in DOMAIN dist \ {ask.file} |->
                      [depth |-> dist[f],
                       edges |-> Cardinality({e \in edges : /\ FileOf[e[1]] = f
                                                            /\ FileOf[e[2]] \in DOMAIN dist
                                                            /\ dist[FileOf[e[2]]] < dist[f]})]]
  BY <1>4, <1>5, <1>6, Zenon DEF Counted
<1>8. ImpactIsExact'
  <2>1. edges' = edges /\ ask'.file = ask.file /\ ask'.depth = ask.depth /\ ask'.job = "importers"
    BY <1>1, <1>2
  <2>2. Distances({<<FileOf[e[2]], FileOf[e[1]]>> : e \in edges'}, {ask'.file}, ask'.depth) = dist
    BY <2>1 DEF LeadsTo
  <2>3. answer'.value = [f \in DOMAIN dist \ {ask'.file} |->
                      [depth |-> dist[f],
                       edges |-> Cardinality({e \in edges' : /\ FileOf[e[1]] = f
                                                            /\ FileOf[e[2]] \in DOMAIN dist
                                                            /\ dist[FileOf[e[2]]] < dist[f]})]]
    BY <1>3, <1>7, <2>1
  <2> QED BY <2>1, <2>2, <2>3, Zenon DEF ImpactIsExact, Answered
<1>9. ~ Running("affected")' /\ ~ Running("importers")'
  BY <1>3 DEF Running
<1>10. ImpactTyped'
  BY <1>2 DEF ImpactInv, ImpactTyped
<1> QED BY <1>8, <1>9, <1>10 DEF ImpactInv

LEMMA ImpactStep == ImpactInv /\ [GraphNext]_graphVars => ImpactInv'
<1> SUFFICES ASSUME ImpactInv, [GraphNext]_graphVars PROVE ImpactInv'
  OBVIOUS
<1>1. CASE UNCHANGED graphVars
  BY <1>1 DEF graphVars, ImpactInv, ImpactTyped, ImpactIsExact, Running, Answered
<1>2. CASE bfs
  BY <1>2, GoesOn DEF bfs
<1>3. CASE WalkEnds
  BY <1>3, Returns DEF WalkEnds
<1>4. CASE NextRoot
  BY <1>4, GoesOn DEF NextRoot
<1>5. CASE Enter
  BY <1>5, GoesOn DEF Enter
<1>6. CASE NextChild
  BY <1>6, GoesOn DEF NextChild
<1>7. CASE Leave
  BY <1>7, GoesOn DEF Leave
<1>8. CASE CyclesEnd
  BY <1>8, Returns DEF CyclesEnd
<1>9. CASE WhyForward
  BY <1>9, GoesOn, Returns DEF WhyForward
<1>10. CASE WhyBackward
  BY <1>10, GoesOn, Returns DEF WhyBackward
<1>11. CASE WhyEnds
  BY <1>11, Returns DEF WhyEnds
<1>12. CASE NextChanged
  <2>1. /\ Running("affected") /\ AffectedRun(edges, ask, run) /\ AffectedAsk(edges, ask)
        /\ run.queue = <<>> /\ run.root = {}
    BY <1>12 DEF NextChanged, ImpactInv, ImpactTyped, Running, AffectedAsk
  <2>2. PICK n \in run.todo :
          Continue([run EXCEPT !.todo = @ \ {n}, !.root = {n}, !.cand = Bump(@, n, 0),
                      !.queue = IF ask.depth = 0 THEN <<>> ELSE <<<<n, 0>>>>,
                      !.rows = IF ask.depth = 0 THEN {} ELSE {<<n, 0>>}])
    BY <1>12, Zenon DEF NextChanged
  <2> PICK s : s = [run EXCEPT !.todo = @ \ {n}, !.root = {n}, !.cand = Bump(@, n, 0),
                      !.queue = IF ask.depth = 0 THEN <<>> ELSE <<<<n, 0>>>>,
                      !.rows = IF ask.depth = 0 THEN {} ELSE {<<n, 0>>}]
    OBVIOUS
  <2>3. AffectedRun(edges, ask, s)
    BY <2>1, NextChangedKeeps, Zenon
  <2>4. Continue(s)
    BY <2>2
  <2> QED BY <2>1, <2>3, <2>4, GoesOn
<1>13. CASE BlastRow
  <2>1. /\ Running("affected") /\ AffectedRun(edges, ask, run) /\ AffectedAsk(edges, ask)
        /\ run.queue # <<>>
    BY <1>13 DEF BlastRow, ImpactInv, ImpactTyped, Running, AffectedAsk
  <2>2. AffectedRun(edges, ask, AfterRow(edges, ask, run))
    BY <2>1, BlastRowKeeps
  <2>3. Continue(AfterRow(edges, ask, run))
    BY <1>13 DEF BlastRow, AfterRow, NewRows
  <2> QED BY <2>1, <2>2, <2>3, GoesOn
<1>14. CASE BlastEnds
  <2>1. /\ Running("affected") /\ AffectedRun(edges, ask, run) /\ AffectedAsk(edges, ask)
        /\ run.queue = <<>>
    BY <1>14 DEF BlastEnds, ImpactInv, ImpactTyped, Running, AffectedAsk
  <2>2. AffectedRun(edges, ask, AfterWalk(run))
    BY <2>1, BlastEndsKeeps
  <2>3. Continue(AfterWalk(run))
    BY <1>14 DEF BlastEnds, AfterWalk, Depths
  <2> QED BY <2>1, <2>2, <2>3, GoesOn
<1>15. CASE AffectedEnds
  BY <1>15, AffectedEndsExact
<1>16. CASE Wave
  <2>1. /\ Running("importers") /\ ImportersRun(edges, ask, run) /\ ask.depth \in Nat
        /\ run.depth < ask.depth
    BY <1>16 DEF Wave, ImpactInv, ImpactTyped, Running
  <2>2. ImportersRun(edges, ask, AfterWave(edges, run))
    BY <2>1, WaveKeeps
  <2>3. Continue(AfterWave(edges, run))
    BY <1>16 DEF Wave, AfterWave, Crossing
  <2> QED BY <2>1, <2>2, <2>3, GoesOn
<1>17. CASE ImportersEnd
  BY <1>17, ImportersEndExact
<1> QED BY <1>1, <1>2, <1>3, <1>4, <1>5, <1>6, <1>7, <1>8, <1>9, <1>10, <1>11, <1>12, <1>13, <1>14,
           <1>15, <1>16, <1>17 DEF GraphNext

-----------------------------------------------------------------------------
(* Sequences of what a walk has met.                                       *)

LEMMA ConcatSet ==
  ASSUME NEW S, NEW t \in Seq(S), NEW u \in Seq(S)
  PROVE  t \o u \in Seq(S) /\ ToSet(t \o u) = ToSet(t) \cup ToSet(u)
<1>0. t \o u \in Seq(S)
  OBVIOUS
<1>1. /\ Len(t \o u) = Len(t) + Len(u) /\ Len(t) \in Nat /\ Len(u) \in Nat
      /\ DOMAIN t = 1..Len(t) /\ DOMAIN u = 1..Len(u) /\ DOMAIN (t \o u) = 1..Len(t \o u)
      /\ \A i \in 1..Len(t) : (t \o u)[i] = t[i]
      /\ \A i \in 1..Len(u) : (t \o u)[Len(t) + i] = u[i]
  BY <1>0
<1>2. ASSUME NEW x \in ToSet(t \o u) PROVE x \in ToSet(t) \cup ToSet(u)
  <2>1. PICK i \in 1..Len(t \o u) : x = (t \o u)[i]
    BY <1>1 DEF ToSet
  <2>2. CASE i \in 1..Len(t)
    BY <1>1, <2>1, <2>2 DEF ToSet
  <2>3. CASE i \notin 1..Len(t)
    <3>1. i - Len(t) \in 1..Len(u) /\ i = Len(t) + (i - Len(t))
      BY <1>1, <2>3
    <3>2. x = u[i - Len(t)]
      BY <1>1, <2>1, <3>1
    <3> QED BY <1>1, <3>1, <3>2 DEF ToSet
  <2> QED BY <2>2, <2>3
<1>3. ASSUME NEW x \in ToSet(t) PROVE x \in ToSet(t \o u)
  <2>1. PICK i \in 1..Len(t) : x = t[i]
    BY <1>1, <1>3 DEF ToSet
  <2>2. i \in 1..Len(t \o u) /\ x = (t \o u)[i]
    BY <1>1, <2>1
  <2> QED BY <1>1, <2>2 DEF ToSet
<1>4. ASSUME NEW x \in ToSet(u) PROVE x \in ToSet(t \o u)
  <2>1. PICK i \in 1..Len(u) : x = u[i]
    BY <1>1, <1>4 DEF ToSet
  <2>2. Len(t) + i \in 1..Len(t \o u) /\ x = (t \o u)[Len(t) + i]
    BY <1>1, <2>1
  <2> QED BY <1>1, <2>2, Zenon DEF ToSet
<1> QED BY <1>0, <1>2, <1>3, <1>4

LEMMA HeadTailSet ==
  ASSUME NEW S, NEW s \in Seq(S), s # <<>>
  PROVE  /\ Head(s) \in S /\ Tail(s) \in Seq(S) /\ ToSet(s) = {Head(s)} \cup ToSet(Tail(s))
         /\ Len(Tail(s)) = Len(s) - 1 /\ \A i \in 1..Len(Tail(s)) : Tail(s)[i] = s[i + 1]
<1>1. /\ Head(s) \in S /\ Tail(s) \in Seq(S) /\ Len(Tail(s)) = Len(s) - 1
      /\ \A i \in 1..Len(Tail(s)) : Tail(s)[i] = s[i + 1]
  BY HeadTailProperties
<1>2. DOMAIN s = 1..Len(s) /\ Len(s) \in Nat /\ Len(s) # 0 /\ Head(s) = s[1]
  OBVIOUS
<1>3. DOMAIN Tail(s) = 1..Len(Tail(s))
  BY <1>1
<1>4. ASSUME NEW x \in ToSet(s) PROVE x \in {Head(s)} \cup ToSet(Tail(s))
  <2>1. PICK i \in 1..Len(s) : x = s[i]
    BY <1>2, <1>4 DEF ToSet
  <2>2. CASE i = 1
    BY <1>2, <2>1, <2>2
  <2>3. CASE i # 1
    <3>1. i - 1 \in 1..Len(Tail(s)) /\ (i - 1) + 1 = i
      BY <1>1, <1>2, <2>3
    <3>2. Tail(s)[i - 1] = x
      BY <1>1, <2>1, <3>1
    <3> QED BY <1>3, <3>1, <3>2, Zenon DEF ToSet
  <2> QED BY <2>2, <2>3
<1>5. ASSUME NEW x \in ToSet(Tail(s)) PROVE x \in ToSet(s)
  <2>1. PICK i \in 1..Len(Tail(s)) : x = Tail(s)[i]
    BY <1>3, <1>5 DEF ToSet
  <2>2. i + 1 \in 1..Len(s) /\ s[i + 1] = x
    BY <1>1, <1>2, <2>1
  <2> QED BY <1>2, <2>2 DEF ToSet
<1>6. Head(s) \in ToSet(s)
  BY <1>2 DEF ToSet
<1> QED BY <1>1, <1>4, <1>5, <1>6

\* Each node once, and the nearer ones first.
Sorted(s) == \A i, j \in DOMAIN s : i < j => s[i][1] # s[j][1] /\ s[i][2] <= s[j][2]

LEMMA SortedConcat ==
  ASSUME NEW S, NEW t \in Seq(S), NEW u \in Seq(S), Sorted(t), Sorted(u),
         \A x \in ToSet(t), y \in ToSet(u) : x[1] # y[1] /\ x[2] <= y[2]
  PROVE  Sorted(t \o u)
<1>1. /\ Len(t \o u) = Len(t) + Len(u) /\ Len(t) \in Nat /\ Len(u) \in Nat
      /\ DOMAIN t = 1..Len(t) /\ DOMAIN u = 1..Len(u) /\ DOMAIN (t \o u) = 1..Len(t \o u)
      /\ \A i \in 1..Len(t) : (t \o u)[i] = t[i]
      /\ \A i \in 1..Len(u) : (t \o u)[Len(t) + i] = u[i]
  OBVIOUS
<1> SUFFICES ASSUME NEW i \in DOMAIN (t \o u), NEW j \in DOMAIN (t \o u), i < j
             PROVE  (t \o u)[i][1] # (t \o u)[j][1] /\ (t \o u)[i][2] <= (t \o u)[j][2]
  BY Zenon DEF Sorted
<1>2. ASSUME NEW k \in DOMAIN (t \o u), k \notin 1..Len(t)
      PROVE  k - Len(t) \in 1..Len(u) /\ (t \o u)[k] = u[k - Len(t)]
  <2>1. k - Len(t) \in 1..Len(u) /\ k = Len(t) + (k - Len(t))
    BY <1>1, <1>2
  <2> QED BY <1>1, <2>1
<1>3. CASE j \in 1..Len(t)
  <2>1. i \in 1..Len(t)
    BY <1>1, <1>3
  <2> QED BY <1>1, <1>3, <2>1 DEF Sorted
<1>4. CASE i \notin 1..Len(t)
  <2>1. j \notin 1..Len(t)
    BY <1>1, <1>4
  <2>2. i - Len(t) < j - Len(t)
    BY <1>1
  <2> QED BY <1>1, <1>2, <1>4, <2>1, <2>2 DEF Sorted
<1>5. CASE i \in 1..Len(t) /\ j \notin 1..Len(t)
  <2>1. (t \o u)[i] \in ToSet(t)
    BY <1>1, <1>5 DEF ToSet
  <2>2. (t \o u)[j] \in ToSet(u)
    BY <1>1, <1>2, <1>5 DEF ToSet
  <2> QED BY <2>1, <2>2, Zenon
<1> QED BY <1>3, <1>4, <1>5

LEMMA SortedTail ==
  ASSUME NEW S, NEW s \in Seq(S), s # <<>>, Sorted(s)
  PROVE  /\ Sorted(Tail(s))
         /\ \A y \in ToSet(Tail(s)) : Head(s)[1] # y[1] /\ Head(s)[2] <= y[2]
<1>1. /\ Tail(s) \in Seq(S) /\ Len(Tail(s)) = Len(s) - 1
      /\ \A i \in 1..Len(Tail(s)) : Tail(s)[i] = s[i + 1]
  BY HeadTailSet
<1>2. DOMAIN s = 1..Len(s) /\ Len(s) \in Nat /\ Len(s) # 0 /\ Head(s) = s[1]
      /\ DOMAIN Tail(s) = 1..Len(Tail(s))
  BY <1>1
<1>3. ASSUME NEW i \in DOMAIN Tail(s), NEW j \in DOMAIN Tail(s), i < j
      PROVE  Tail(s)[i][1] # Tail(s)[j][1] /\ Tail(s)[i][2] <= Tail(s)[j][2]
  <2>1. i + 1 \in DOMAIN s /\ j + 1 \in DOMAIN s /\ i + 1 < j + 1
    BY <1>1, <1>2, <1>3
  <2>2. Tail(s)[i] = s[i + 1] /\ Tail(s)[j] = s[j + 1]
    BY <1>1, <1>2
  <2> QED BY <2>1, <2>2 DEF Sorted
<1>4. ASSUME NEW y \in ToSet(Tail(s)) PROVE Head(s)[1] # y[1] /\ Head(s)[2] <= y[2]
  <2>1. PICK i \in 1..Len(Tail(s)) : y = Tail(s)[i]
    BY <1>2, <1>4 DEF ToSet
  <2>2. i + 1 \in DOMAIN s /\ 1 \in DOMAIN s /\ 1 < i + 1 /\ y = s[i + 1]
    BY <1>1, <1>2, <2>1
  <2> QED BY <1>2, <2>2 DEF Sorted
<1> QED BY <1>3, <1>4 DEF Sorted

-----------------------------------------------------------------------------
(* Ascending lists every member of a finite set of numbers.                *)

Enumerates(s, S) ==
  /\ s \in [1..Cardinality(S) -> S]
  /\ \A i, j \in DOMAIN s : i < j => s[i] < s[j]

LEMMA AscendingExists ==
  ASSUME NEW S \in SUBSET Nat, IsFiniteSet(S)
  PROVE  \E s : Enumerates(s, S)
<1> DEFINE d == Cardinality(S)
           P == {n \in 0..d : \A T \in SUBSET Nat :
                   IsFiniteSet(T) /\ Cardinality(T) = n => \E s : Enumerates(s, T)}
<1>1. d \in Nat
  BY FS_CardinalityType
<1>2. 0 \in P
  <2>1. ASSUME NEW T \in SUBSET Nat, IsFiniteSet(T), Cardinality(T) = 0
        PROVE  Enumerates(<<>>, T)
    <3>1. <<>> \in [1..0 -> T] /\ DOMAIN <<>> = {}
      OBVIOUS
    <3> QED BY <2>1, <3>1 DEF Enumerates
  <2> QED BY <1>1, <2>1
<1>3. ASSUME NEW n \in 0..d, n < d, n \in P PROVE n + 1 \in P
  <2>1. ASSUME NEW T \in SUBSET Nat, IsFiniteSet(T), Cardinality(T) = n + 1
        PROVE  \E s : Enumerates(s, T)
    <3>1. T # {}
      BY <1>1, <2>1, FS_EmptySet
    <3>2. PICK m \in T : \A x \in T : m <= x
      BY <3>1, LeastExists, Zenon
    <3> DEFINE U == T \ {m}
    <3>3. IsFiniteSet(U) /\ Cardinality(U) = n /\ U \in SUBSET Nat
      <4>1. IsFiniteSet(U) /\ Cardinality(U) = (n + 1) - 1
        BY <2>1, <3>2, FS_RemoveElement, Zenon
      <4>2. n \in Nat
        BY <1>1
      <4> QED BY <4>1, <4>2
    <3>4. PICK t : Enumerates(t, U)
      BY <1>3, <3>3
    <3>5. t \in [1..n -> U] /\ \A i, j \in 1..n : i < j => t[i] < t[j]
      BY <3>3, <3>4, Zenon DEF Enumerates
    <3>6. \A x \in U : m < x /\ x \in T
      BY <3>2
    <3> DEFINE s == [i \in 1..(n + 1) |-> IF i = 1 THEN m ELSE t[i - 1]]
    <3> HIDE DEF U
    <3>7. ASSUME NEW i \in 1..(n + 1), i # 1 PROVE i - 1 \in 1..n /\ s[i] = t[i - 1] /\ s[i] \in U
      BY <3>5, <3>7
    <3>8. s \in [1..(n + 1) -> T] /\ DOMAIN s = 1..(n + 1) /\ s[1] = m
      BY <3>6, <3>7
    <3> HIDE DEF s
    <3>9. ASSUME NEW i \in 1..(n + 1), NEW j \in 1..(n + 1), i < j PROVE s[i] < s[j]
      <4>1. j # 1
        BY <3>9
      <4>2. CASE i = 1
        BY <3>6, <3>7, <3>8, <4>1, <4>2
      <4>3. CASE i # 1
        <5>1. i - 1 < j - 1
          BY <3>9
        <5> QED BY <3>5, <3>7, <4>1, <4>3, <5>1
      <4> QED BY <4>2, <4>3
    <3>10. Enumerates(s, T)
      BY <2>1, <3>8, <3>9 DEF Enumerates
    <3> QED BY <3>10
  <2>2. n + 1 \in 0..d
    BY <1>1, <1>3
  <2> QED BY <2>1, <2>2
<1>4. 0..d \subseteq P
  <2> HIDE DEF P, d
  <2> QED BY <1>1, <1>2, <1>3, Climbing
<1>5. d \in P
  BY <1>1, <1>4
<1> QED BY <1>5

LEMMA AscendingLists ==
  ASSUME NEW S \in SUBSET Nat, IsFiniteSet(S), NEW s, s = Ascending(S), NEW n, n = Cardinality(S)
  PROVE  /\ n \in Nat /\ s \in [1..n -> S]
         /\ \A i, j \in 1..n : i < j => s[i] < s[j]
         /\ \A x \in S : \E i \in 1..n : s[i] = x
<1>1. n \in Nat
  BY FS_CardinalityType
<1>2. Enumerates(s, S)
  BY AscendingExists DEF Ascending, Enumerates
<1>3. s \in [1..n -> S] /\ \A i, j \in 1..n : i < j => s[i] < s[j]
  BY <1>2 DEF Enumerates
<1>4. s \in Injection(1..n, S)
  <2>1. ASSUME NEW i \in 1..n, NEW j \in 1..n, s[i] = s[j] PROVE i = j
    <3>1. s[i] \in S /\ s[j] \in S
      BY <1>3
    <3>2. s[i] \in Nat /\ s[j] \in Nat
      BY <3>1, Zenon
    <3>3. ~ (i < j) /\ ~ (j < i)
      BY <1>3, <2>1, <3>2
    <3> QED BY <1>1, <3>3
  <2> QED BY <1>3, <2>1 DEF Injection, IsInjective
<1>5. IsFiniteSet(1..n) /\ Cardinality(1..n) = n
  BY <1>1, FS_Interval
<1>6. s \in Surjection(1..n, S)
  BY <1>4, <1>5, FS_Injection
<1> QED BY <1>1, <1>3, <1>6 DEF Surjection

-----------------------------------------------------------------------------
(* Walks: a queue of nodes by their distance.                              *)

\* The calls a walk follows, what is within k of them, and the nodes at distance k.
Flow(E, a) == IF a.reverse THEN Reversed(Pairs(E, {"call"})) ELSE Pairs(E, {"call"})
Reach(E, a) == Level(Flow(E, a), {a.start}, a.depth)
AtDepth(L, n, k) == n \in L[k] /\ \A j \in Nat : j < k => n \notin L[j]

WalkRun(E, a, r) ==
  /\ r = [queue |-> r.queue, seen |-> r.seen, out |-> r.out]
  /\ r.queue \in Seq(Nodes \X (0..a.depth)) /\ r.out \in Seq(Nodes \X (0..a.depth))
  /\ Sorted(r.queue) /\ Sorted(r.out)
  /\ \A x \in ToSet(r.out), y \in ToSet(r.queue) : x[1] # y[1] /\ x[2] <= y[2]
  /\ \A x \in ToSet(r.out) \cup ToSet(r.queue) : AtDepth(Reach(E, a), x[1], x[2])
  /\ \A x \in ToSet(r.out) : x[2] > 0
  /\ r.queue # <<>> => \A x \in ToSet(r.queue) : x[2] <= Head(r.queue)[2] + 1
  /\ r.seen = {a.start} \cup {x[1] : x \in ToSet(r.out) \cup ToSet(r.queue)}
  /\ \A n \in r.seen : \A k \in 0..a.depth :
       k < a.depth /\ AtDepth(Reach(E, a), n, k) /\ <<n, k>> \notin ToSet(r.queue) =>
         Onto(Flow(E, a), {n}) \subseteq r.seen

WalkAsk(E, a) ==
  /\ E \subseteq Nodes \X Nodes \X Kinds /\ a.depth \in Nat /\ a.start \in Nodes

LEMMA FlowStays ==
  ASSUME NEW E, NEW a, WalkAsk(E, a)
  PROVE  \A p \in Flow(E, a) : p[1] \in Nodes /\ p[2] \in Nodes
<1>1. \A e \in E : e[1] \in Nodes /\ e[2] \in Nodes
  BY DEF WalkAsk
<1>2. \A p \in Pairs(E, {"call"}) : p[1] \in Nodes /\ p[2] \in Nodes
  BY <1>1 DEF Pairs
<1>3. \A p \in Reversed(Pairs(E, {"call"})) : p[1] \in Nodes /\ p[2] \in Nodes
  BY <1>2 DEF Reversed
<1> QED BY <1>2, <1>3 DEF Flow

LEMMA DepthExists ==
  ASSUME NEW L, NEW n, NEW k \in Nat, n \in L[k]
  PROVE  \E j \in 0..k : AtDepth(L, n, j)
<1> DEFINE K == {j \in Nat : n \in L[j]}
<1>1. K \in SUBSET Nat /\ k \in K
  OBVIOUS
<1>2. Least(K) \in K /\ \A j \in K : Least(K) <= j
  <2> HIDE DEF K
  <2> QED BY <1>1, LeastExists
<1>3. Least(K) \in Nat /\ Least(K) \in 0..k
  BY <1>1, <1>2
<1>4. AtDepth(L, n, Least(K))
  <2>1. ASSUME NEW j \in Nat, j < Least(K) PROVE n \notin L[j]
    <3>1. ~(Least(K) <= j)
      BY ONLY <1>3, <2>1
    <3>2. j \notin K
      BY <1>2, <3>1
    <3> QED BY <3>2
  <2> QED BY <1>2, <2>1 DEF AtDepth
<1> QED BY <1>3, <1>4

LEMMA DepthUnique ==
  ASSUME NEW L, NEW n, NEW j \in Nat, NEW k \in Nat, AtDepth(L, n, j), AtDepth(L, n, k)
  PROVE  j = k
  BY DEF AtDepth

\* A level and the next, of a walk.
LEMMA ReachSteps ==
  ASSUME NEW E, NEW a, a.depth \in Nat
  PROVE  /\ Reach(E, a)[0] = {a.start}
         /\ \A k \in 0..a.depth : k < a.depth =>
              Reach(E, a)[k + 1] = Reach(E, a)[k] \cup Onto(Flow(E, a), Reach(E, a)[k])
         /\ \A j, k \in 0..a.depth : j <= k => Reach(E, a)[j] \subseteq Reach(E, a)[k]
<1>1. PICK S, R, d, L : S = {a.start} /\ R = Flow(E, a) /\ d = a.depth /\ L = Reach(E, a)
  BY Zenon
<1>2. L = Level(R, S, d) /\ d \in Nat
  BY <1>1 DEF Reach
<1>3. L[0] = S /\ \A k \in 0..d : k < d => L[k + 1] = L[k] \cup Onto(R, L[k])
  BY <1>2, LevelSteps
<1>4. \A j, k \in 0..d : j <= k => L[j] \subseteq L[k]
  BY <1>2, LevelGrows
<1> QED BY <1>1, <1>3, <1>4

\* Everything nearer than what waits has been seen.
LEMMA SeenCovers ==
  ASSUME NEW E, NEW a, WalkAsk(E, a), NEW r, WalkRun(E, a, r), NEW k \in 0..a.depth,
         \A x \in ToSet(r.queue) : k <= x[2]
  PROVE  Reach(E, a)[k] \subseteq r.seen
<1> DEFINE L == Reach(E, a)
           P == {j \in 0..a.depth : j <= k => L[j] \subseteq r.seen}
<1>1. a.depth \in Nat
  BY DEF WalkAsk
<1>2. /\ L[0] = {a.start}
      /\ \A j \in 0..a.depth : j < a.depth => L[j + 1] = L[j] \cup Onto(Flow(E, a), L[j])
  BY <1>1, ReachSteps
<1>3. /\ a.start \in r.seen
      /\ \A n \in r.seen : \A j \in 0..a.depth :
           j < a.depth /\ AtDepth(L, n, j) /\ <<n, j>> \notin ToSet(r.queue) =>
             Onto(Flow(E, a), {n}) \subseteq r.seen
  BY DEF WalkRun
<1> HIDE DEF L
<1>4. 0 \in P
  BY <1>1, <1>2, <1>3
<1>5. ASSUME NEW j \in 0..a.depth, j < a.depth, j \in P PROVE j + 1 \in P
  <2>1. ASSUME j + 1 <= k, NEW m \in L[j + 1] PROVE m \in r.seen
    <3>1. j <= k /\ L[j] \subseteq r.seen
      BY <1>5, <2>1
    <3>2. CASE m \in L[j]
      BY <3>1, <3>2
    <3>3. CASE m \notin L[j]
      <4>1. m \in Onto(Flow(E, a), L[j])
        BY <1>2, <1>5, <2>1, <3>3
      <4>2. PICK p \in Flow(E, a) : p[1] \in L[j] /\ p[2] = m
        BY <4>1 DEF Onto
      <4>3. PICK i \in 0..j : AtDepth(L, p[1], i)
        BY <4>2, DepthExists
      <4>4. i \in 0..a.depth /\ i < a.depth /\ i < k
        BY <1>1, <1>5, <2>1
      <4>5. <<p[1], i>> \notin ToSet(r.queue)
        <5> SUFFICES ASSUME <<p[1], i>> \in ToSet(r.queue) PROVE FALSE
          OBVIOUS
        <5>1. <<p[1], i>>[2] = i
          OBVIOUS
        <5>2. k <= i
          BY <5>1
        <5> QED BY <4>4, <5>2
      <4>6. m \in Onto(Flow(E, a), {p[1]})
        BY <4>2 DEF Onto
      <4> QED BY <1>3, <3>1, <4>2, <4>3, <4>4, <4>5, <4>6
    <3> QED BY <3>2, <3>3
  <2>2. j + 1 \in 0..a.depth
    BY <1>1, <1>5
  <2> QED BY <2>1, <2>2
<1>6. 0..a.depth \subseteq P
  <2> HIDE DEF P
  <2> QED BY <1>1, <1>4, <1>5, Climbing
<1> QED BY <1>6 DEF L

\* The run after a visit: the neighbours not yet seen wait, in ascending order.
NewNodes(E, a, r) ==
  IF Head(r.queue)[2] >= a.depth THEN {} ELSE Onto(Flow(E, a), {Head(r.queue)[1]}) \ r.seen
Waiting(new, d) == [i \in 1..Cardinality(new) |-> <<Ascending(new)[i], d + 1>>]
AfterVisit(E, a, r) ==
  LET new == NewNodes(E, a, r)  d == Head(r.queue)[2] IN
  [r EXCEPT !.queue = Tail(@) \o Waiting(new, d), !.seen = @ \cup new,
            !.out = IF d > 0 THEN Append(@, Head(r.queue)) ELSE @]

LEMMA WaitingSorted ==
  ASSUME NEW new \in SUBSET Nodes, NEW d \in Nat, NEW depth \in Nat, new # {} => d < depth
  PROVE  /\ Waiting(new, d) \in Seq(Nodes \X (0..depth)) /\ Sorted(Waiting(new, d))
         /\ ToSet(Waiting(new, d)) = {<<m, d + 1>> : m \in new}
<1>1. IsFiniteSet(new) /\ new \in SUBSET Nat
  BY GraphAssumption, FS_Subset, Zenon
<1>2. PICK s, n : s = Ascending(new) /\ n = Cardinality(new)
  OBVIOUS
<1>3. /\ n \in Nat /\ s \in [1..n -> new]
      /\ \A i, j \in 1..n : i < j => s[i] < s[j]
      /\ \A x \in new : \E i \in 1..n : s[i] = x
  BY <1>1, <1>2, AscendingLists
<1>4. Waiting(new, d) = [i \in 1..n |-> <<s[i], d + 1>>]
  BY <1>2 DEF Waiting
<1> PICK w : w = Waiting(new, d)
  OBVIOUS
<1>5. w \in Seq(Nodes \X (0..depth))
  <2>1. \A i \in 1..n : w[i] = <<s[i], d + 1>> /\ s[i] \in Nodes /\ d + 1 \in 0..depth
    BY <1>3, <1>4
  <2>2. w \in [1..n -> Nodes \X (0..depth)]
    BY <1>4, <2>1
  <2> QED BY <1>3, <2>2, SeqDef
<1>6. Sorted(w)
  <2>1. ASSUME NEW i \in 1..n, NEW j \in 1..n, i < j
        PROVE  w[i][1] # w[j][1] /\ w[i][2] <= w[j][2]
    <3>1. w[i] = <<s[i], d + 1>> /\ w[j] = <<s[j], d + 1>>
      BY <1>4
    <3>2. s[i] \in Nat /\ s[j] \in Nat /\ s[i] < s[j]
      BY <1>1, <1>3, <2>1, Zenon
    <3> QED BY <3>1, <3>2
  <2>2. DOMAIN w = 1..n
    BY <1>4
  <2> QED BY <2>1, <2>2 DEF Sorted
<1>7. ToSet(w) = {<<m, d + 1>> : m \in new}
  <2>1. DOMAIN w = 1..n /\ \A i \in 1..n : w[i] = <<s[i], d + 1>>
    BY <1>4
  <2>2. ASSUME NEW x \in ToSet(w) PROVE x \in {<<m, d + 1>> : m \in new}
    <3>1. PICK i \in 1..n : x = w[i]
      BY <2>1, <2>2 DEF ToSet
    <3>2. x = <<s[i], d + 1>> /\ s[i] \in new
      BY <1>3, <2>1, <3>1
    <3> QED BY <3>2
  <2>3. ASSUME NEW m \in new PROVE <<m, d + 1>> \in ToSet(w)
    BY <1>3, <2>1 DEF ToSet
  <2> QED BY <2>2, <2>3
<1> QED BY <1>5, <1>6, <1>7

LEMMA InSeq ==
  ASSUME NEW S, NEW s \in Seq(S), NEW x \in ToSet(s)
  PROVE  x \in S
<1>1. DOMAIN s = 1..Len(s) /\ \A i \in 1..Len(s) : s[i] \in S
  OBVIOUS
<1> QED BY <1>1 DEF ToSet

LEMMA VisitKeeps ==
  ASSUME NEW E, NEW a, WalkAsk(E, a), NEW r, WalkRun(E, a, r), r.queue # <<>>
  PROVE  WalkRun(E, a, AfterVisit(E, a, r))
<1>a. PICK S : S = Nodes \X (0..a.depth)
  BY Zenon
<1> PICK L, F, D : L = Reach(E, a) /\ F = Flow(E, a) /\ D = a.depth
  OBVIOUS
<1>c. PICK q, t, h, o, sn : q = r.queue /\ t = Tail(q) /\ h = Head(q) /\ o = r.out /\ sn = r.seen
  BY Zenon
<1>d. PICK n, d : n = h[1] /\ d = h[2]
  OBVIOUS
<1>e. PICK new, w : new = NewNodes(E, a, r) /\ w = Waiting(new, d)
  OBVIOUS
<1>1. D \in Nat /\ a.start \in Nodes /\ \A p \in F : p[1] \in Nodes /\ p[2] \in Nodes
  BY FlowStays DEF WalkAsk
<1>2. /\ r = [queue |-> q, seen |-> sn, out |-> o]
      /\ q \in Seq(S) /\ o \in Seq(S) /\ Sorted(q) /\ Sorted(o)
      /\ q # <<>>
      /\ sn = {a.start} \cup {x[1] : x \in ToSet(o) \cup ToSet(q)}
  BY <1>a, <1>c DEF WalkRun
<1>3. /\ \A x \in ToSet(o), y \in ToSet(q) : x[1] # y[1] /\ x[2] <= y[2]
      /\ \A x \in ToSet(o) \cup ToSet(q) : AtDepth(L, x[1], x[2])
      /\ \A x \in ToSet(o) : x[2] > 0
      /\ \A x \in ToSet(q) : x[2] <= d + 1
      /\ \A m \in sn : \A k \in 0..D :
           k < D /\ AtDepth(L, m, k) /\ <<m, k>> \notin ToSet(q) => Onto(F, {m}) \subseteq sn
  BY <1>2, <1>c, <1>d, Zenon DEF WalkRun
<1>4. /\ h \in S /\ t \in Seq(S) /\ ToSet(q) = {h} \cup ToSet(t) /\ Sorted(t)
      /\ \A y \in ToSet(t) : n # y[1] /\ d <= y[2]
  <2>1. h \in S /\ t \in Seq(S) /\ ToSet(q) = {h} \cup ToSet(t)
    BY <1>2, <1>c, HeadTailSet
  <2>2. Sorted(t) /\ \A y \in ToSet(t) : n # y[1] /\ d <= y[2]
    BY <1>2, <1>c, <1>d, SortedTail
  <2> QED BY <2>1, <2>2
<1>5. h = <<n, d>> /\ n \in Nodes /\ d \in 0..D
  BY <1>4, <1>a, <1>d
<1>6. new = IF d >= D THEN {} ELSE Onto(F, {n}) \ sn
  BY <1>c, <1>d, <1>e DEF NewNodes
<1>7. new \in SUBSET Nodes /\ (new # {} => d < D)
  <2>1. Onto(F, {n}) \subseteq Nodes
    BY <1>1 DEF Onto
  <2>2. D \in Nat /\ d \in Nat /\ d <= D
    BY <1>1, <1>5
  <2>3. CASE d >= D
    <3>1. new = {}
      BY <1>6, <2>3
    <3> QED BY <3>1
  <2>4. CASE ~ (d >= D)
    <3>1. new = Onto(F, {n}) \ sn /\ d < D
      BY <1>6, <2>2, <2>4
    <3> QED BY <2>1, <3>1, Zenon
  <2> QED BY <2>3, <2>4
<1>8. w \in Seq(S) /\ Sorted(w) /\ ToSet(w) = {<<m, d + 1>> : m \in new}
  <2>1. d \in Nat /\ S = Nodes \X (0..D)
    BY <1>1, <1>5, <1>a
  <2> QED BY <1>1, <1>7, <1>e, <2>1, WaitingSorted, Zenon
<1>9. \A x \in ToSet(q) : d <= x[2]
  BY <1>4, <1>5
<1>10. L[d] \subseteq sn
  BY <1>5, <1>9, <1>c, SeenCovers
<1>11. /\ L[0] = {a.start}
       /\ \A k \in 0..D : k < D => L[k + 1] = L[k] \cup Onto(F, L[k])
       /\ \A j, k \in 0..D : j <= k => L[j] \subseteq L[k]
  BY <1>1, ReachSteps
<1>12. AtDepth(L, n, d)
  BY <1>3, <1>4, <1>5
<1>13. \A m \in new : AtDepth(L, m, d + 1) /\ m \notin sn
  <2> SUFFICES ASSUME NEW m \in new PROVE AtDepth(L, m, d + 1) /\ m \notin sn
    OBVIOUS
  <2>1. d < D /\ m \in Onto(F, {n}) /\ m \notin sn
    BY <1>6, <1>7, Zenon
  <2>2. n \in L[d]
    BY <1>12 DEF AtDepth
  <2>3. m \in L[d + 1]
    <3>1. m \in Onto(F, L[d])
      BY <2>1, <2>2 DEF Onto
    <3>2. L[d + 1] = L[d] \cup Onto(F, L[d])
      BY <1>5, <1>11, <2>1
    <3> QED BY <3>1, <3>2
  <2>4. ASSUME NEW j \in Nat, j < d + 1 PROVE m \notin L[j]
    <3>1. j \in 0..D /\ j <= d
      BY <1>1, <1>5, <2>4
    <3>2. L[j] \subseteq L[d]
      BY <1>5, <1>11, <3>1
    <3> QED BY <1>10, <2>1, <3>2
  <2> QED BY <2>1, <2>3, <2>4 DEF AtDepth
<1>f. PICK q2, o2, sn2 : /\ q2 = t \o w /\ sn2 = sn \cup new
                       /\ o2 = IF d > 0 THEN o \o <<h>> ELSE o
  BY Zenon
<1>14. AfterVisit(E, a, r) = [queue |-> q2, seen |-> sn2, out |-> o2]
  <2>1. Append(o, h) = o \o <<h>>
    BY <1>2, <1>4, AppendIsConcat
  <2>2. AfterVisit(E, a, r) =
          [r EXCEPT !.queue = q2, !.seen = sn2, !.out = IF d > 0 THEN Append(@, h) ELSE @]
    BY <1>c, <1>d, <1>e, <1>f DEF AfterVisit
  <2>3. AfterVisit(E, a, r) = [r EXCEPT !.queue = q2, !.seen = sn2, !.out = o2]
    BY <1>c, <1>f, <2>1, <2>2, Zenon
  <2> QED BY <1>2, <2>3, Zenon
<1>15. q2 \in Seq(S) /\ ToSet(q2) = ToSet(t) \cup ToSet(w)
  <2>1. t \o w \in Seq(S) /\ ToSet(t \o w) = ToSet(t) \cup ToSet(w)
    BY <1>4, <1>8, ConcatSet
  <2> QED BY <2>1, <1>f
<1>16. <<h>> \in Seq(S) /\ ToSet(<<h>>) = {h} /\ Sorted(<<h>>)
  <2>1. DOMAIN <<h>> = {1} /\ <<h>>[1] = h
    OBVIOUS
  <2> QED BY <1>4, <2>1 DEF Sorted, ToSet
<1>17. o2 \in Seq(S) /\ ToSet(o2) = ToSet(o) \cup (IF d > 0 THEN {h} ELSE {})
  <2>1. CASE d > 0
    <3>1. o \o <<h>> \in Seq(S) /\ ToSet(o \o <<h>>) = ToSet(o) \cup ToSet(<<h>>)
      BY <1>2, <1>16, ConcatSet, Zenon
    <3> QED BY <1>16, <2>1, <3>1, <1>f
  <2>2. CASE ~ (d > 0)
    BY <1>2, <2>2, <1>f
  <2> QED BY <2>1, <2>2
<1>18. \A x \in ToSet(o) : x[1] \in sn /\ x[2] <= d /\ x[1] # n
  BY <1>2, <1>3, <1>4, <1>5
<1>19. \A x \in ToSet(t) : x[1] \in sn /\ x[2] <= d + 1 /\ d <= x[2] /\ x[1] # n
  BY <1>2, <1>3, <1>4, <1>5
<1>20. \A x \in ToSet(w) : x[1] \in new /\ x[1] \notin sn /\ x[2] = d + 1
  BY <1>8, <1>13
<1>21. n \in sn
  BY <1>2, <1>4, <1>d
<1>22. Sorted(q2)
  <2>1. \A x \in ToSet(t), y \in ToSet(w) : x[1] # y[1] /\ x[2] <= y[2]
    BY <1>19, <1>20
  <2>2. Sorted(t \o w)
    BY <1>4, <1>8, <2>1, SortedConcat
  <2> QED BY <2>2, <1>f
<1>23. Sorted(o2)
  <2>1. \A x \in ToSet(o), y \in ToSet(<<h>>) : x[1] # y[1] /\ x[2] <= y[2]
    BY <1>5, <1>16, <1>18
  <2>2. Sorted(o \o <<h>>)
    BY <1>2, <1>16, <2>1, SortedConcat, Zenon
  <2> QED BY <1>2, <2>2, <1>f
<1>24. ASSUME NEW x \in ToSet(o2), NEW y \in ToSet(q2) PROVE x[1] # y[1] /\ x[2] <= y[2]
  <2>1. x \in ToSet(o) \/ x = h
    BY <1>17
  <2>2. y \in ToSet(t) \/ y \in ToSet(w)
    BY <1>15
  <2>3. CASE x \in ToSet(o) /\ y \in ToSet(t)
    BY <1>3, <1>4, <2>3
  <2>4. CASE x \in ToSet(o) /\ y \in ToSet(w)
    <3>1. x \in S
      BY <1>2, <2>4, InSeq
    <3> QED BY <1>5, <1>18, <1>20, <1>a, <2>4, <3>1
  <2>5. CASE x = h /\ y \in ToSet(t)
    BY <1>4, <1>5, <2>5
  <2>6. CASE x = h /\ y \in ToSet(w)
    BY <1>5, <1>20, <1>21, <2>6
  <2> QED BY <2>1, <2>2, <2>3, <2>4, <2>5, <2>6
<1>25. ASSUME NEW x \in ToSet(o2) \cup ToSet(q2) PROVE AtDepth(L, x[1], x[2])
  <2>1. CASE x \in ToSet(w)
    BY <1>13, <1>20, <2>1
  <2>2. CASE x \notin ToSet(w)
    <3>1. x \in ToSet(o) \cup ToSet(q)
      BY <1>4, <1>15, <1>17, <2>2
    <3> QED BY <1>3, <3>1
  <2> QED BY <2>1, <2>2
<1>26. \A x \in ToSet(o2) : x[2] > 0
  BY <1>3, <1>5, <1>17
<1>27. q2 # <<>> => \A x \in ToSet(q2) : x[2] <= Head(q2)[2] + 1
  <2> SUFFICES ASSUME q2 # <<>>, NEW x \in ToSet(q2) PROVE x[2] <= Head(q2)[2] + 1
    OBVIOUS
  <2>1. Head(q2) \in ToSet(q2) /\ Head(q2) \in S
    <3>1. Head(q2) \in S /\ ToSet(q2) = {Head(q2)} \cup ToSet(Tail(q2))
      BY <1>15, HeadTailSet
    <3> QED BY <3>1
  <2>2. \A y \in ToSet(q2) : d <= y[2] /\ y[2] <= d + 1
    BY <1>5, <1>15, <1>19, <1>20
  <2>3. x \in S
    BY <1>15, InSeq
  <2>4. d <= Head(q2)[2] /\ x[2] <= d + 1
    BY <2>1, <2>2
  <2>5. Head(q2)[2] \in Nat /\ x[2] \in Nat /\ d \in Nat
    BY <1>1, <1>5, <1>a, <2>1, <2>3
  <2> PICK i, j : i = Head(q2)[2] /\ j = x[2]
    OBVIOUS
  <2>6. d <= i /\ j <= d + 1 /\ i \in Nat /\ j \in Nat /\ d \in Nat
    BY <2>4, <2>5
  <2>7. j <= i + 1
    BY <2>6
  <2> QED BY <2>7
<1>28. sn2 = {a.start} \cup {x[1] : x \in ToSet(o2) \cup ToSet(q2)}
  <2>0. sn2 = sn \cup new
    BY <1>f
  <2>1. ASSUME NEW m \in sn2 PROVE m \in {a.start} \cup {x[1] : x \in ToSet(o2) \cup ToSet(q2)}
    <3>1. CASE m \in new
      <4>1. <<m, d + 1>> \in ToSet(q2)
        BY <1>8, <1>15, <3>1
      <4> QED BY <4>1
    <3>2. CASE m \notin new /\ m # a.start
      <4>1. PICK x \in ToSet(o) \cup ToSet(q) : m = x[1]
        BY <1>2, <2>0, <2>1, <3>2
      <4>2. CASE x = h
        <5>1. d # 0
          BY <1>5, <1>11, <1>12, <3>2, <4>1, <4>2 DEF AtDepth
        <5>2. d > 0
          BY <1>5, <5>1
        <5>3. h \in ToSet(o2)
          BY <1>17, <5>2
        <5> QED BY <4>1, <4>2, <5>3
      <4>3. CASE x # h
        <5>1. x \in ToSet(o2) \cup ToSet(q2)
          BY <1>4, <1>15, <1>17, <4>3
        <5> QED BY <4>1, <5>1
      <4> QED BY <4>2, <4>3
    <3> QED BY <3>1, <3>2
  <2>2. a.start \in sn2
    BY <1>2, <2>0
  <2>3. ASSUME NEW x \in ToSet(o2) \cup ToSet(q2) PROVE x[1] \in sn2
    <3>1. x \in ToSet(o) \/ x = h \/ x \in ToSet(t) \/ x \in ToSet(w)
      BY <1>15, <1>17
    <3>2. h[1] = n
      BY <1>5
    <3> QED BY <1>18, <1>19, <1>20, <1>21, <2>0, <3>1, <3>2
  <2> QED BY <2>1, <2>2, <2>3
<1>29. ASSUME NEW m \in sn2, NEW k \in 0..D, k < D, AtDepth(L, m, k), <<m, k>> \notin ToSet(q2)
       PROVE  Onto(F, {m}) \subseteq sn2
  <2>0. sn2 = sn \cup new
    BY <1>f
  <2>1. CASE m \in new
    <3>1. AtDepth(L, m, d + 1) /\ <<m, d + 1>> \in ToSet(q2)
      BY <1>8, <1>13, <1>15, <2>1
    <3>2. k \in Nat /\ d + 1 \in Nat
      BY <1>5
    <3>3. k = d + 1
      BY <1>29, <3>1, <3>2, DepthUnique
    <3> QED BY <1>29, <3>1, <3>3
  <2>2. CASE m \in sn /\ <<m, k>> \notin ToSet(q)
    <3>1. Onto(F, {m}) \subseteq sn
      BY <1>3, <1>29, <2>2
    <3> QED BY <2>0, <3>1, Zenon
  <2>3. CASE m \in sn /\ <<m, k>> \in ToSet(q)
    <3>1. <<m, k>> = h
      BY <1>4, <1>15, <1>29, <2>3
    <3>2. m = n /\ k = d
      BY <1>5, <3>1
    <3>3. new = Onto(F, {n}) \ sn
      BY <1>1, <1>5, <1>6, <1>29, <3>2
    <3> QED BY <2>0, <3>2, <3>3
  <2> QED BY <1>29, <2>0, <2>1, <2>2, <2>3, Zenon
<1> PICK r2 : r2 = AfterVisit(E, a, r)
  OBVIOUS
<1>30. r2.queue = q2 /\ r2.seen = sn2 /\ r2.out = o2 /\ r2 = [queue |-> q2, seen |-> sn2, out |-> o2]
  <2>1. r2 = [queue |-> q2, seen |-> sn2, out |-> o2]
    BY <1>14
  <2> QED BY <2>1
<1>31. WalkRun(E, a, r2)
  <2>1. /\ r2 = [queue |-> r2.queue, seen |-> r2.seen, out |-> r2.out]
        /\ r2.queue \in Seq(S) /\ r2.out \in Seq(S) /\ Sorted(r2.queue) /\ Sorted(r2.out)
    BY <1>15, <1>17, <1>22, <1>23, <1>30
  <2>2. /\ \A x \in ToSet(r2.out), y \in ToSet(r2.queue) : x[1] # y[1] /\ x[2] <= y[2]
        /\ \A x \in ToSet(r2.out) \cup ToSet(r2.queue) : AtDepth(L, x[1], x[2])
        /\ \A x \in ToSet(r2.out) : x[2] > 0
    BY <1>24, <1>25, <1>26, <1>30
  <2>3. /\ r2.queue # <<>> => \A x \in ToSet(r2.queue) : x[2] <= Head(r2.queue)[2] + 1
        /\ r2.seen = {a.start} \cup {x[1] : x \in ToSet(r2.out) \cup ToSet(r2.queue)}
    BY <1>27, <1>28, <1>30
  <2>4. \A m \in r2.seen : \A k \in 0..D :
          k < D /\ AtDepth(L, m, k) /\ <<m, k>> \notin ToSet(r2.queue) => Onto(F, {m}) \subseteq r2.seen
    BY <1>29, <1>30
  <2> QED BY <1>a, <2>1, <2>2, <2>3, <2>4, Zenon DEF WalkRun
<1> QED BY <1>31

LEMMA WalkStarts ==
  ASSUME NEW E, NEW a, WalkAsk(E, a), a.job = "walk"
  PROVE  WalkRun(E, a, Start(a))
<1> PICK r, s, L, D : r = Start(a) /\ s = a.start /\ L = Reach(E, a) /\ D = a.depth
  OBVIOUS
<1>1. r = [queue |-> <<<<s, 0>>>>, seen |-> {s}, out |-> <<>>]
  BY DEF Start
<1>2. r.queue = <<<<s, 0>>>> /\ r.seen = {s} /\ r.out = <<>>
  BY <1>1
<1>3. D \in Nat /\ s \in Nodes
  BY DEF WalkAsk
<1>4. /\ r.queue \in Seq(Nodes \X (0..D)) /\ r.out \in Seq(Nodes \X (0..D))
      /\ ToSet(r.queue) = {<<s, 0>>} /\ ToSet(r.out) = {}
      /\ Sorted(r.queue) /\ Sorted(r.out)
  <2>1. /\ DOMAIN <<<<s, 0>>>> = {1} /\ <<<<s, 0>>>>[1] = <<s, 0>> /\ DOMAIN <<>> = {}
    OBVIOUS
  <2>2. ToSet(r.queue) = {<<s, 0>>} /\ ToSet(r.out) = {}
    BY <1>2, <2>1 DEF ToSet
  <2>3. Sorted(r.queue) /\ Sorted(r.out)
    BY <1>2, <2>1 DEF Sorted
  <2>4. <<s, 0>> \in Nodes \X (0..D)
    BY <1>3
  <2>5. <<<<s, 0>>>> \in Seq(Nodes \X (0..D)) /\ <<>> \in Seq(Nodes \X (0..D))
    BY <2>4
  <2> QED BY <1>2, <2>2, <2>3, <2>5
<1>5. AtDepth(L, s, 0)
  <2>1. L[0] = {s}
    BY <1>3, ReachSteps
  <2> QED BY <2>1 DEF AtDepth
<1>6. ASSUME NEW k \in 0..D, AtDepth(L, s, k) PROVE k = 0
  <2>1. k \in Nat /\ 0 \in Nat
    OBVIOUS
  <2> QED BY <1>5, <1>6, <2>1, DepthUnique
<1>7. r.queue # <<>> => \A x \in ToSet(r.queue) : x[2] <= Head(r.queue)[2] + 1
  <2>1. Head(r.queue) = <<s, 0>>
    BY <1>2
  <2> QED BY <1>4, <2>1
<1>8. r.seen = {s} \cup {x[1] : x \in ToSet(r.out) \cup ToSet(r.queue)}
  BY <1>2, <1>4
<1>9. \A x \in ToSet(r.out) \cup ToSet(r.queue) : AtDepth(L, x[1], x[2])
  BY <1>4, <1>5
<1>10. \A n \in r.seen : \A k \in 0..D :
         k < D /\ AtDepth(L, n, k) /\ <<n, k>> \notin ToSet(r.queue) =>
           Onto(Flow(E, a), {n}) \subseteq r.seen
  <2>1. ASSUME NEW n \in r.seen, NEW k \in 0..D, AtDepth(L, n, k), <<n, k>> \notin ToSet(r.queue)
        PROVE  FALSE
    <3>1. n = s
      BY <1>2, <2>1
    <3>2. k = 0
      BY <1>6, <2>1, <3>1
    <3> QED BY <1>4, <2>1, <3>1, <3>2
  <2> QED BY <2>1
<1>11. r = [queue |-> r.queue, seen |-> r.seen, out |-> r.out]
  BY <1>1, <1>2
<1> QED BY <1>4, <1>7, <1>8, <1>9, <1>10, <1>11 DEF WalkRun

WalkExact(E, a, v) ==
  LET dist == Distances(Flow(E, a), {a.start}, a.depth) IN
  /\ ToSet(v) = {<<n, dist[n]>> : n \in DOMAIN dist \ {a.start}}
  /\ \A i, j \in DOMAIN v : i < j => v[i] # v[j] /\ v[i][2] <= v[j][2]

LEMMA WalkDone ==
  ASSUME NEW E, NEW a, WalkAsk(E, a), NEW r, WalkRun(E, a, r), r.queue = <<>>
  PROVE  WalkExact(E, a, r.out)
<1> PICK s, L, D, v : s = a.start /\ L = Reach(E, a) /\ D = a.depth /\ v = r.out
  OBVIOUS
<1>1. D \in Nat
  BY DEF WalkAsk
<1>2. ToSet(r.queue) = {}
  <2>1. DOMAIN r.queue = {}
    OBVIOUS
  <2> QED BY <2>1 DEF ToSet
<1>3. L[D] \subseteq r.seen
  <2>1. D \in 0..D
    BY <1>1
  <2> QED BY <1>2, <2>1, SeenCovers
<1>4. /\ \A x \in ToSet(v) : AtDepth(L, x[1], x[2]) /\ x[2] > 0
      /\ r.seen = {s} \cup {x[1] : x \in ToSet(v)}
      /\ v \in Seq(Nodes \X (0..D)) /\ Sorted(v)
  BY <1>2 DEF WalkRun
<1>5. \A x \in ToSet(v) : x = <<x[1], x[2]>> /\ x[2] \in 0..D
  BY <1>4, InSeq
<1> PICK dist : dist = Distances(Flow(E, a), {s}, D)
  OBVIOUS
<1>6. dist = [n \in L[D] |-> Least({k \in 0..D : n \in L[k]})]
  BY DEF Distances, Reach
<1>7. L[0] = {s} /\ \A j, k \in 0..D : j <= k => L[j] \subseteq L[k]
  BY <1>1, ReachSteps
<1>8. ASSUME NEW n, NEW k \in 0..D, AtDepth(L, n, k) PROVE n \in DOMAIN dist /\ dist[n] = k
  <2>1. n \in L[k] /\ k \in 0..D /\ D \in 0..D /\ k <= D
    BY <1>1, <1>8 DEF AtDepth
  <2>2. n \in L[D]
    BY <1>7, <2>1
  <2> DEFINE K == {j \in 0..D : n \in L[j]}
  <2>3. K \in SUBSET Nat /\ k \in K
    BY <2>1
  <2>4. ASSUME NEW j \in K PROVE k <= j
    <3>1. j \in Nat /\ n \in L[j] /\ k \in Nat
      OBVIOUS
    <3>2. ~ (j < k)
      BY <1>8, <3>1 DEF AtDepth
    <3> QED BY <3>1, <3>2
  <2>5. Least(K) = k
    <3> HIDE DEF K
    <3> QED BY <2>3, <2>4, LeastIs
  <2> QED BY <1>6, <2>2, <2>5, Zenon
<1>9. ASSUME NEW x \in ToSet(v) PROVE x \in {<<n, dist[n]>> : n \in DOMAIN dist \ {s}}
  <2>1. x[1] \in DOMAIN dist /\ dist[x[1]] = x[2]
    BY <1>4, <1>5, <1>8, Zenon
  <2>2. x[1] # s
    <3>1. 0 \in Nat /\ 0 < x[2]
      BY <1>4, <1>5
    <3> QED BY <1>4, <1>7, <3>1 DEF AtDepth
  <2> QED BY <1>5, <2>1, <2>2
<1>10. ASSUME NEW n \in DOMAIN dist, n # s PROVE <<n, dist[n]>> \in ToSet(v)
  <2>1. n \in r.seen
    BY <1>3, <1>6, <1>10
  <2>2. PICK x \in ToSet(v) : n = x[1]
    BY <1>4, <1>10, <2>1
  <2>3. dist[x[1]] = x[2]
    BY <1>4, <1>5, <1>8, Zenon
  <2> QED BY <1>5, <2>2, <2>3
<1>11. ToSet(v) = {<<n, dist[n]>> : n \in DOMAIN dist \ {s}}
  <2>1. ASSUME NEW y \in {<<n, dist[n]>> : n \in DOMAIN dist \ {s}} PROVE y \in ToSet(v)
    <3>1. PICK n \in DOMAIN dist \ {s} : y = <<n, dist[n]>>
      BY <2>1, Zenon
    <3> QED BY <1>10, <3>1, Zenon
  <2> DEFINE A == {<<n, dist[n]>> : n \in DOMAIN dist \ {s}}
  <2>2. \A y : y \in ToSet(v) <=> y \in A
    BY <1>9, <2>1, Zenon
  <2>3. ToSet(v) = A
    <3> HIDE DEF A
    <3> QED BY <2>2, Zenon
  <2> QED BY <2>3
<1>12. \A i, j \in DOMAIN v : i < j => v[i] # v[j] /\ v[i][2] <= v[j][2]
  BY <1>4 DEF Sorted
<1> QED BY <1>11, <1>12 DEF WalkExact

\* A step of a walk is a visit, and its end returns what it listed.
LEMMA WalkVisits ==
  ASSUME bfs
  PROVE  run' = AfterVisit(edges, ask, run) /\ UNCHANGED <<edges, ask, answer>> /\ run.queue # <<>>
<1>1. \A n : callees(n) = Onto(Pairs(edges, {"call"}), {n})
  BY DEF callees, Onto
<1>2. \A n : callers(n) = Onto(Reversed(Pairs(edges, {"call"})), {n})
  <2> SUFFICES ASSUME NEW n PROVE callers(n) = Onto(Reversed(Pairs(edges, {"call"})), {n})
    OBVIOUS
  <2> PICK P : P = Pairs(edges, {"call"})
    OBVIOUS
  <2>0. \A p \in P : p = <<p[1], p[2]>>
    BY DEF Pairs
  <2>1. ASSUME NEW m \in callers(n) PROVE m \in Onto(Reversed(P), {n})
    <3>1. PICK p \in P : p[2] = n /\ m = p[1]
      BY <2>1 DEF callers
    <3>2. <<n, m>> \in Reversed(P)
      BY <3>1 DEF Reversed
    <3> QED BY <3>2 DEF Onto
  <2>2. ASSUME NEW m \in Onto(Reversed(P), {n}) PROVE m \in callers(n)
    <3>1. PICK q \in Reversed(P) : q[1] = n /\ m = q[2]
      BY <2>2 DEF Onto
    <3>2. PICK p \in P : q = <<p[2], p[1]>>
      BY DEF Reversed
    <3>3. p[2] = n /\ p[1] = m
      BY <3>1, <3>2
    <3> QED BY <3>3 DEF callers
  <2> QED BY <2>1, <2>2
<1>3. \A n : (IF ask.reverse THEN callers(n) ELSE callees(n)) = Onto(Flow(edges, ask), {n})
  BY <1>1, <1>2, Zenon DEF Flow
<1>4. NewNodes(edges, ask, run) =
        IF Head(run.queue)[2] >= ask.depth THEN {}
        ELSE (IF ask.reverse THEN callers(Head(run.queue)[1]) ELSE callees(Head(run.queue)[1])) \ run.seen
  <2>1. PICK n : n = Head(run.queue)[1]
    OBVIOUS
  <2>2. (IF ask.reverse THEN callers(n) ELSE callees(n)) = Onto(Flow(edges, ask), {n})
    BY <1>3
  <2> QED BY <2>1, <2>2, Zenon DEF NewNodes
<1> PICK d, new : d = Head(run.queue)[2] /\ new = NewNodes(edges, ask, run)
  OBVIOUS
<1>5. /\ run' = [run EXCEPT
          !.queue = Tail(@) \o [i \in 1..Cardinality(new) |-> <<Ascending(new)[i], d + 1>>],
          !.seen = @ \cup new,
          !.out = IF d > 0 THEN Append(@, Head(run.queue)) ELSE @]
      /\ UNCHANGED <<edges, ask, answer>> /\ run.queue # <<>>
  BY <1>4 DEF bfs, Continue
<1> QED BY <1>5 DEF AfterVisit, Waiting

-----------------------------------------------------------------------------
(* Paths: one level forward, one level back.                               *)

\* What the lemmas use of Level(R, {s}, d).
Levels(R, s, d, L) ==
  /\ d \in Nat /\ L[0] = {s}
  /\ \A k \in 0..d : k < d => L[k + 1] = L[k] \cup Onto(R, L[k])
  /\ \A j, k \in 0..d : j <= k => L[j] \subseteq L[k]

LEMMA LevelIsLevels ==
  ASSUME NEW R, NEW s, NEW d \in Nat
  PROVE  Levels(R, s, d, Level(R, {s}, d))
<1> PICK S, L : S = {s} /\ L = Level(R, S, d)
  BY Zenon
<1>1. L[0] = S /\ \A k \in 0..d : k < d => L[k + 1] = L[k] \cup Onto(R, L[k])
  BY LevelSteps
<1>2. \A j, k \in 0..d : j <= k => L[j] \subseteq L[k]
  BY LevelGrows
<1> QED BY <1>1, <1>2, Zenon DEF Levels

LEMMA BackAndForth ==
  ASSUME NEW R, \A p \in R : p = <<p[1], p[2]>>, NEW x, NEW y
  PROVE  <<x, y>> \in Reversed(R) <=> <<y, x>> \in R
<1>1. ASSUME <<x, y>> \in Reversed(R) PROVE <<y, x>> \in R
  <2>1. PICK p \in R : <<x, y>> = <<p[2], p[1]>>
    BY <1>1 DEF Reversed
  <2>2. p[2] = x /\ p[1] = y /\ p = <<p[1], p[2]>>
    BY <2>1
  <2> QED BY <2>2
<1>2. ASSUME <<y, x>> \in R PROVE <<x, y>> \in Reversed(R)
  BY <1>2 DEF Reversed
<1> QED BY <1>1, <1>2

LEMMA OntoHas ==
  ASSUME NEW R, \A p \in R : p = <<p[1], p[2]>>, NEW S, NEW y
  PROVE  y \in Onto(R, S) <=> \E x \in S : <<x, y>> \in R
<1>1. ASSUME y \in Onto(R, S) PROVE \E x \in S : <<x, y>> \in R
  <2>1. PICK p \in R : p[1] \in S /\ y = p[2]
    BY <1>1 DEF Onto
  <2>2. <<p[1], y>> \in R
    BY <2>1
  <2> QED BY <2>1, <2>2
<1>2. ASSUME NEW x \in S, <<x, y>> \in R PROVE y \in Onto(R, S)
  BY <1>2 DEF Onto
<1> QED BY <1>1, <1>2, Zenon

\* Both ends meet in the middle exactly when the way is short enough.
LEMMA MeetInTheMiddle ==
  ASSUME NEW R, \A p \in R : p = <<p[1], p[2]>>, NEW s, NEW t, NEW d, NEW L, NEW B,
         Levels(R, s, d, L), Levels(Reversed(R), t, d, B),
         NEW i \in 0..d, NEW j \in 0..d, i + j <= d
  PROVE  t \in L[i + j] <=> \E n : n \in L[i] /\ n \in B[j]
<1> DEFINE P == {k \in 0..d : \A h \in 0..d : h + k <= d =>
                   (t \in L[h + k] <=> \E n : n \in L[h] /\ n \in B[k])}
<1>1. d \in Nat
  BY DEF Levels
<1>2. 0 \in P
  <2>1. B[0] = {t}
    BY DEF Levels
  <2>2. ASSUME NEW h \in 0..d PROVE t \in L[h + 0] <=> \E n : n \in L[h] /\ n \in B[0]
    <3>1. h + 0 = h
      OBVIOUS
    <3> QED BY <2>1, <3>1
  <2> QED BY <1>1, <2>2
<1>3. ASSUME NEW k \in 0..d, k < d, k \in P PROVE k + 1 \in P
  <2>1. ASSUME NEW h \in 0..d, h + (k + 1) <= d
        PROVE  t \in L[h + (k + 1)] <=> \E n : n \in L[h] /\ n \in B[k + 1]
    <3>1. h + 1 \in 0..d /\ h < d /\ (h + 1) + k = h + (k + 1) /\ (h + 1) + k <= d
      BY <1>1, <2>1
    <3>2. t \in L[h + (k + 1)] <=> \E n : n \in L[h + 1] /\ n \in B[k]
      BY <1>3, <3>1
    <3>3. L[h + 1] = L[h] \cup Onto(R, L[h])
      BY <3>1 DEF Levels
    <3>4. B[k + 1] = B[k] \cup Onto(Reversed(R), B[k])
      BY <1>3 DEF Levels
    <3>5. \A p \in Reversed(R) : p = <<p[1], p[2]>>
      BY DEF Reversed
    <3>6. ASSUME NEW n, n \in L[h + 1], n \in B[k] PROVE \E m : m \in L[h] /\ m \in B[k + 1]
      <4>1. CASE n \in L[h]
        BY <3>4, <3>6, <4>1
      <4>2. CASE n \notin L[h]
        <5>1. PICK m \in L[h] : <<m, n>> \in R
          BY <3>3, <3>6, <4>2, OntoHas, Zenon
        <5>2. <<n, m>> \in Reversed(R)
          BY <5>1, BackAndForth
        <5>3. m \in Onto(Reversed(R), B[k])
          BY <3>5, <3>6, <5>2, OntoHas
        <5> QED BY <3>4, <5>3
      <4> QED BY <4>1, <4>2
    <3>7. ASSUME NEW n, n \in L[h], n \in B[k + 1] PROVE \E m : m \in L[h + 1] /\ m \in B[k]
      <4>1. CASE n \in B[k]
        BY <3>3, <3>7, <4>1
      <4>2. CASE n \notin B[k]
        <5>1. PICK m \in B[k] : <<m, n>> \in Reversed(R)
          BY <3>4, <3>5, <3>7, <4>2, OntoHas, Zenon
        <5>2. <<n, m>> \in R
          BY <5>1, BackAndForth
        <5>3. m \in Onto(R, L[h])
          BY <3>7, <5>2, OntoHas
        <5> QED BY <3>3, <5>3
      <4> QED BY <4>1, <4>2
    <3> QED BY <3>2, <3>6, <3>7
  <2>2. k + 1 \in 0..d
    BY <1>1, <1>3
  <2> QED BY <2>1, <2>2
<1>4. 0..d \subseteq P
  <2> HIDE DEF P
  <2> QED BY <1>1, <1>2, <1>3, Climbing
<1> QED BY <1>4

\* A level that adds nothing is the last.
LEMMA Stalls ==
  ASSUME NEW R, NEW s, NEW d, NEW L, Levels(R, s, d, L), NEW i \in 0..d, i < d, L[i + 1] = L[i]
  PROVE  L[d] = L[i]
<1> DEFINE P == {k \in 0..d : i <= k => L[k] = L[i]}
<1>1. d \in Nat
  BY DEF Levels
<1>2. 0 \in P
  BY <1>1
<1>3. ASSUME NEW k \in 0..d, k < d, k \in P PROVE k + 1 \in P
  <2>1. k + 1 \in 0..d /\ (i <= k + 1 => i <= k \/ i = k + 1)
    BY <1>1, <1>3
  <2>2. CASE i <= k
    <3>1. L[k] = L[i]
      BY <1>3, <2>2
    <3>2. L[k + 1] = L[k] \cup Onto(R, L[k]) /\ L[i + 1] = L[i] \cup Onto(R, L[i])
      BY <1>3 DEF Levels
    <3>3. L[k + 1] = L[i]
      BY <3>1, <3>2, Zenon
    <3> QED BY <2>1, <3>3
  <2>3. CASE ~ (i <= k)
    BY <2>1, <2>3
  <2> QED BY <2>2, <2>3
<1>4. 0..d \subseteq P
  <2> HIDE DEF P
  <2> QED BY <1>1, <1>2, <1>3, Climbing
<1>5. d \in P /\ i <= d
  BY <1>1, <1>4
<1> QED BY <1>5

\* One side of the search after i levels: what it has seen, its last level and
\* the parent of each symbol, which is nearer by one.
Lineage(R, s, L, i, up) ==
  /\ DOMAIN up = L[i] \ {s}
  /\ \A n \in DOMAIN up : \A k \in 0..i :
       AtDepth(L, n, k) => k > 0 /\ up[n] \in L[k - 1] /\ <<up[n], n>> \in R
Searched(R, s, L, i, seen, level, up) ==
  /\ seen = L[i] /\ level \subseteq seen /\ Onto(R, seen \ level) \subseteq seen
  /\ Lineage(R, s, L, i, up)

LEMMA SearchGrows ==
  ASSUME NEW R, NEW s, NEW d, NEW L, Levels(R, s, d, L), NEW i \in 0..d, i < d,
         NEW seen, NEW level, NEW up, Searched(R, s, L, i, seen, level, up),
         NEW new, new = Onto(R, level) \ seen, NEW f, f \in Parents(new, level, R),
         NEW all, all = seen \cup new, NEW g, g = Joined(up, f), NEW k, k = i + 1
  PROVE  Searched(R, s, L, k, all, new, g) /\ L[k] = L[i] \cup new
<1>1. /\ d \in Nat /\ L[0] = {s} /\ L[i + 1] = L[i] \cup Onto(R, L[i])
      /\ \A h, j \in 0..d : h <= j => L[h] \subseteq L[j]
  BY DEF Levels
<1>2. seen = L[i] /\ level \subseteq seen /\ Onto(R, seen \ level) \subseteq seen
      /\ Lineage(R, s, L, i, up)
  BY DEF Searched
<1>3. L[i + 1] = seen \cup new
  <2>1. ASSUME NEW n \in Onto(R, L[i]) PROVE n \in seen \cup new
    <3>1. PICK p \in R : p[1] \in L[i] /\ n = p[2]
      BY DEF Onto
    <3>2. CASE p[1] \in level
      <4>1. n \in Onto(R, level)
        BY <3>1, <3>2 DEF Onto
      <4> QED BY <4>1
    <3>3. CASE p[1] \notin level
      <4>1. n \in Onto(R, seen \ level)
        BY <1>2, <3>1, <3>3 DEF Onto
      <4> QED BY <1>2, <4>1
    <3> QED BY <3>2, <3>3
  <2>2. new \subseteq Onto(R, L[i])
    <3>1. Onto(R, level) \subseteq Onto(R, L[i])
      BY <1>2 DEF Onto
    <3> QED BY <3>1
  <2> QED BY <1>1, <1>2, <2>1, <2>2
<1>4. Onto(R, (seen \cup new) \ new) \subseteq seen \cup new
  <2>1. (seen \cup new) \ new = L[i]
    BY <1>2
  <2> QED BY <1>1, <1>3, <2>1, Zenon
<1>5. f \in [new -> level] /\ \A n \in new : <<f[n], n>> \in R
  BY DEF Parents
<1>6. s \in seen
  <2>1. 0 \in 0..d /\ 0 <= i
    BY <1>1
  <2> QED BY <1>1, <1>2, <2>1
<1>7. /\ DOMAIN g = L[i + 1] \ {s}
      /\ \A n \in DOMAIN up : g[n] = up[n] /\ n \in L[i]
      /\ \A n \in new : g[n] = f[n] /\ n \notin L[i]
  <2>1. DOMAIN up = L[i] \ {s} /\ DOMAIN f = new
    BY <1>2, <1>5 DEF Lineage
  <2>2. g = [x \in DOMAIN up \cup DOMAIN f |-> IF x \in DOMAIN up THEN up[x] ELSE f[x]]
    BY DEF Joined
  <2>3. DOMAIN g = DOMAIN up \cup DOMAIN f
    BY <2>2
  <2> QED BY <1>2, <1>3, <1>6, <2>1, <2>2, <2>3
<1>8. ASSUME NEW n \in DOMAIN g, NEW h \in 0..(i + 1), AtDepth(L, n, h)
      PROVE  h > 0 /\ g[n] \in L[h - 1] /\ <<g[n], n>> \in R
  <2>1. CASE n \in DOMAIN up
    <3>1. h \in 0..i
      <4>1. i \in Nat /\ n \in L[i]
        BY <1>1, <1>7, <2>1
      <4>2. ~ (i < h)
        BY <1>8, <4>1 DEF AtDepth
      <4> QED BY <4>1, <4>2
    <3> QED BY <1>2, <1>7, <1>8, <2>1, <3>1 DEF Lineage
  <2>2. CASE n \in new
    <3>1. h = i + 1
      <4>1. ASSUME h <= i PROVE FALSE
        <5>1. L[h] \subseteq L[i]
          BY <1>1, <4>1
        <5> QED BY <1>7, <1>8, <2>2, <5>1 DEF AtDepth
      <4> QED BY <1>1, <4>1
    <3>2. h - 1 = i /\ h > 0
      BY <1>1, <3>1
    <3>3. g[n] \in level /\ <<g[n], n>> \in R
      BY <1>5, <1>7, <2>2
    <3> QED BY <1>2, <3>2, <3>3
  <2>3. n \in DOMAIN up \/ n \in new
    <3>1. DOMAIN up = L[i] \ {s}
      BY <1>2 DEF Lineage
    <3> QED BY <1>2, <1>3, <1>7, <3>1
  <2> QED BY <2>1, <2>2, <2>3
<1>9. Lineage(R, s, L, i + 1, g)
  BY <1>7, <1>8 DEF Lineage
<1> QED BY <1>2, <1>3, <1>4, <1>9, Zenon DEF Searched

\* k steps of R along the sequence w, from x to y.
IsWalk(R, w, x, y, k) ==
  /\ w \in Seq(Nodes) /\ Len(w) = k + 1 /\ w[1] = x /\ w[k + 1] = y
  /\ \A i \in 1..k : <<w[i], w[i + 1]>> \in R

LEMMA WalkAppend ==
  ASSUME NEW R, NEW w, NEW x, NEW y, NEW k \in Nat, IsWalk(R, w, x, y, k),
         NEW z \in Nodes, <<y, z>> \in R
  PROVE  IsWalk(R, Append(w, z), x, z, k + 1)
<1>1. w \in Seq(Nodes) /\ Len(w) = k + 1 /\ w[1] = x /\ w[k + 1] = y
      /\ \A i \in 1..k : <<w[i], w[i + 1]>> \in R
  BY DEF IsWalk
<1> PICK v : v = Append(w, z)
  BY Zenon
<1>2. /\ v \in Seq(Nodes) /\ Len(v) = (k + 1) + 1 /\ v[(k + 1) + 1] = z
      /\ \A i \in 1..(k + 1) : v[i] = w[i]
  BY <1>1, AppendProperties
<1>3. v[1] = x
  BY <1>1, <1>2
<1>4. ASSUME NEW i \in 1..(k + 1) PROVE <<v[i], v[i + 1]>> \in R
  <2>1. CASE i = k + 1
    <3>1. v[i] = y /\ v[i + 1] = z
      BY <1>1, <1>2, <2>1
    <3> QED BY <3>1
  <2>2. CASE i # k + 1
    <3>1. i \in 1..k /\ i + 1 \in 1..(k + 1)
      BY <2>2
    <3>2. v[i] = w[i] /\ v[i + 1] = w[i + 1]
      BY <1>2, <3>1
    <3> QED BY <1>1, <3>1, <3>2
  <2> QED BY <2>1, <2>2, Zenon
<1> QED BY <1>2, <1>3, <1>4 DEF IsWalk

LEMMA WalkConcat ==
  ASSUME NEW R, NEW u, NEW x, NEW m, NEW i \in Nat, IsWalk(R, u, x, m, i),
         NEW w \in Seq(Nodes), NEW y, NEW j \in Nat, IsWalk(R, <<m>> \o w, m, y, j)
  PROVE  IsWalk(R, u \o w, x, y, i + j)
<1>1. u \in Seq(Nodes) /\ Len(u) = i + 1 /\ u[1] = x /\ u[i + 1] = m
      /\ \A h \in 1..i : <<u[h], u[h + 1]>> \in R
  BY Zenon DEF IsWalk
<1> PICK v : v = <<m>> \o w
  BY Zenon
<1>2. v \in Seq(Nodes) /\ Len(v) = j + 1 /\ v[1] = m /\ v[j + 1] = y
      /\ \A h \in 1..j : <<v[h], v[h + 1]>> \in R
  BY DEF IsWalk
<1>3. m \in Nodes
  <2>1. 1 \in 1..Len(v)
    BY <1>2
  <2> QED BY <1>2, <2>1
<1>4. <<m>> \in Seq(Nodes) /\ Len(<<m>>) = 1
  BY <1>3
<1>5. Len(w) = j /\ \A h \in 1..j : v[h + 1] = w[h]
  <2>1. Len(v) = 1 + Len(w) /\ \A h \in 1..Len(w) : v[1 + h] = w[h]
    BY <1>4
  <2>2. Len(w) = j
    BY <1>2, <2>1
  <2> QED BY <2>1, <2>2
<1> PICK c : c = u \o w
  BY Zenon
<1>6. /\ c \in Seq(Nodes) /\ Len(c) = (i + 1) + j
      /\ \A h \in 1..(i + 1) : c[h] = u[h]
      /\ \A h \in 1..j : c[(i + 1) + h] = w[h]
  <2>1. /\ c \in Seq(Nodes) /\ Len(c) = Len(u) + Len(w)
        /\ \A h \in 1..Len(u) : c[h] = u[h]
        /\ \A h \in 1..Len(w) : c[Len(u) + h] = w[h]
    <3>1. u \in Seq(Nodes)
      BY <1>1
    <3>2. c \in Seq(Nodes) /\ Len(c) = Len(u) + Len(w)
          /\ \A h \in 1..(Len(u) + Len(w)) : c[h] = IF h <= Len(u) THEN u[h] ELSE w[h - Len(u)]
      BY <3>1, ConcatProperties
    <3>3. Len(u) \in Nat /\ Len(w) \in Nat
      BY <3>1
    <3>4. ASSUME NEW h \in 1..Len(w) PROVE c[Len(u) + h] = w[h]
      <4>1. Len(u) + h \in 1..(Len(u) + Len(w)) /\ ~ (Len(u) + h <= Len(u))
            /\ (Len(u) + h) - Len(u) = h
        BY <3>3
      <4> QED BY <3>2, <4>1
    <3> QED BY <3>2, <3>3, <3>4
  <2> QED BY <1>1, <1>5, <2>1, Zenon
<1>7. ASSUME NEW h \in 1..(j + 1) PROVE c[i + h] = v[h]
  <2>1. CASE h = 1
    <3>1. i + h = i + 1 /\ i + 1 \in 1..(i + 1)
      BY <2>1
    <3> QED BY <1>1, <1>2, <1>6, <2>1, <3>1
  <2>2. CASE h # 1
    <3>1. h - 1 \in 1..j /\ (i + 1) + (h - 1) = i + h /\ (h - 1) + 1 = h
      BY <2>2
    <3>2. c[(i + 1) + (h - 1)] = w[h - 1] /\ v[(h - 1) + 1] = w[h - 1]
      BY <1>5, <1>6, <3>1
    <3> QED BY <3>1, <3>2, Zenon
  <2> QED BY <2>1, <2>2, Zenon
<1>8. c[1] = x
  BY <1>1, <1>6
<1>9. c[(i + j) + 1] = y
  <2>1. j + 1 \in 1..(j + 1) /\ i + (j + 1) = (i + j) + 1
    OBVIOUS
  <2>2. c[i + (j + 1)] = v[j + 1]
    BY <1>7, <2>1, Zenon
  <2> QED BY <1>2, <2>1, <2>2, Zenon
<1>10. ASSUME NEW h \in 1..(i + j) PROVE <<c[h], c[h + 1]>> \in R
  <2>1. CASE h <= i
    <3>1. h \in 1..i /\ h \in 1..(i + 1) /\ h + 1 \in 1..(i + 1)
      BY <2>1
    <3>2. c[h] = u[h] /\ c[h + 1] = u[h + 1]
      BY <1>6, <3>1, Zenon
    <3> QED BY <1>1, <3>1, <3>2
  <2>2. CASE ~ (h <= i)
    <3>1. /\ h - i \in 1..j /\ h - i \in 1..(j + 1) /\ (h - i) + 1 \in 1..(j + 1)
          /\ i + (h - i) = h /\ i + ((h - i) + 1) = h + 1
      BY <2>2
    <3>2. c[i + (h - i)] = v[h - i] /\ c[i + ((h - i) + 1)] = v[(h - i) + 1]
      BY <1>7, <3>1, Zenon
    <3> QED BY <1>2, <3>1, <3>2, Zenon
  <2> QED BY <2>1, <2>2, Zenon
<1>11. Len(c) = (i + j) + 1
  BY <1>6
<1> QED BY <1>6, <1>8, <1>9, <1>10, <1>11, Zenon DEF IsWalk

LEMMA NoWalk ==
  ASSUME NEW R, NEW x \in Nodes
  PROVE  IsWalk(R, <<x>>, x, x, 0)
<1>1. <<x>> \in Seq(Nodes) /\ Len(<<x>>) = 0 + 1 /\ <<x>>[1] = x /\ <<x>>[0 + 1] = x
  OBVIOUS
<1>2. \A j \in 1..0 : FALSE
  OBVIOUS
<1> QED BY <1>1, <1>2 DEF IsWalk

\* A function along the parents of one side of the search.
Chain(s, up, first, step, V, X, g) ==
  /\ g \in [X -> V]
  /\ \A n \in X : /\ n = s => g[n] = first
                  /\ n # s => g[n] = step[<<g[up[n]], n>>] /\ g[up[n]] \in V

LEMMA ChainExists ==
  ASSUME NEW R, NEW s, NEW d, NEW L, Levels(R, s, d, L), NEW i \in 0..d,
         NEW up, Lineage(R, s, L, i, up), NEW V, NEW first \in V,
         NEW X, X = L[i], NEW step \in [V \X X -> V]
  PROVE  \E g : Chain(s, up, first, step, V, X, g)
<1> DEFINE Good(g, k) == /\ g \in [L[k] -> V]
                         /\ \A n \in L[k] : /\ n = s => g[n] = first
                                            /\ n # s => g[n] = step[<<g[up[n]], n>>] /\ up[n] \in L[k]
           P == {k \in 0..i : \E g : Good(g, k)}
<1>1. d \in Nat /\ i \in Nat /\ L[0] = {s} /\ \A j, k \in 0..d : j <= k => L[j] \subseteq L[k]
  BY DEF Levels
<1>2. 0 \in P
  <2> DEFINE g == [n \in {s} |-> first]
  <2>0. g \in [L[0] -> V] /\ \A n \in L[0] : n = s /\ g[n] = first
    BY <1>1
  <2>1. Good(g, 0)
    <3> HIDE DEF g
    <3> QED BY <2>0
  <2>2. 0 \in 0..i
    BY <1>1
  <2> HIDE DEF Good
  <2> QED BY <2>1, <2>2
<1>3. ASSUME NEW k \in 0..i, k < i, k \in P PROVE k + 1 \in P
  <2>1. PICK p : Good(p, k)
    BY <1>3
  <2>2. /\ k \in 0..d /\ k + 1 \in 0..d /\ 0 \in 0..d /\ i \in 0..d
        /\ 0 <= k /\ k <= k + 1 /\ k + 1 <= i /\ k + 1 \in 0..i /\ k + 1 \in Nat
    BY <1>1, <1>3
  <2>3. L[0] \subseteq L[k] /\ L[k] \subseteq L[k + 1] /\ L[k + 1] \subseteq L[i]
    BY <1>1, <2>2
  <2>4. ASSUME NEW n \in L[k + 1], n # s PROVE n \in DOMAIN up /\ up[n] \in L[k]
    <3>1. n \in DOMAIN up
      BY <2>3, <2>4 DEF Lineage
    <3>2. PICK j \in 0..(k + 1) : AtDepth(L, n, j)
      BY <2>2, DepthExists
    <3>3. j \in 0..i
      BY <2>2
    <3>4. j > 0 /\ up[n] \in L[j - 1]
      BY <3>1, <3>2, <3>3, Zenon DEF Lineage
    <3>5. j - 1 \in 0..d /\ j - 1 <= k
      BY <1>1, <2>2, <3>4
    <3>6. L[j - 1] \subseteq L[k]
      BY <1>1, <2>2, <3>5
    <3> QED BY <3>1, <3>4, <3>6
  <2> DEFINE g == [n \in L[k + 1] |-> IF n \in L[k] THEN p[n] ELSE step[<<p[up[n]], n>>]]
  <2>5. \A n \in L[k] : p[n] \in V
    BY <2>1
  <2>6. ASSUME NEW n \in L[k + 1], n \notin L[k] PROVE n # s /\ step[<<p[up[n]], n>>] \in V
    <3>1. n # s
      BY <1>1, <2>3, <2>6
    <3>2. p[up[n]] \in V /\ n \in L[i]
      BY <2>3, <2>4, <2>5, <3>1
    <3> QED BY <3>1, <3>2
  <2>7. g \in [L[k + 1] -> V] /\ \A n \in L[k] : g[n] = p[n]
    BY <2>3, <2>5, <2>6
  <2>8. \A n \in L[k + 1] : n \notin L[k] => g[n] = step[<<p[up[n]], n>>]
    OBVIOUS
  <2> HIDE DEF g
  <2>9. ASSUME NEW n \in L[k + 1]
        PROVE  /\ n = s => g[n] = first
               /\ n # s => g[n] = step[<<g[up[n]], n>>] /\ up[n] \in L[k + 1]
    <3>1. CASE n = s
      <4>1. s \in L[k]
        BY <1>1, <2>3
      <4> QED BY <2>1, <2>7, <3>1, <4>1, Zenon
    <3>2. CASE n # s
      <4>1. up[n] \in L[k] /\ g[up[n]] = p[up[n]] /\ up[n] \in L[k + 1]
        BY <2>3, <2>4, <2>7, <3>2
      <4>2. CASE n \in L[k]
        BY <2>1, <2>7, <3>2, <4>1, <4>2
      <4>3. CASE n \notin L[k]
        BY <2>8, <3>2, <4>1, <4>3
      <4> QED BY <3>2, <4>1, <4>2, <4>3
    <3> QED BY <3>1, <3>2
  <2>10. Good(g, k + 1)
    BY <2>7, <2>9
  <2> HIDE DEF Good
  <2> QED BY <2>2, <2>10
<1>4. 0..i \subseteq P
  <2> HIDE DEF P
  <2> QED BY <1>1, <1>2, <1>3, Climbing
<1>5. PICK g : Good(g, i)
  BY <1>1, <1>4
<1>6. \A n \in L[i] : n # s => g[up[n]] \in V
  BY <1>5, Zenon
<1> QED BY <1>5, <1>6 DEF Chain

\* The equations FrontHalf and BackHalf choose their functions by.
FrontPath(s, up, g) ==
  g = [n \in {s} \cup DOMAIN up |-> IF n = s THEN <<n>> ELSE Append(g[up[n]], n)]
BackPath(t, down, g) ==
  g = [n \in {t} \cup DOMAIN down |-> IF n = t THEN <<>> ELSE <<down[n]>> \o g[down[n]]]

LEMMA LineageNearer ==
  ASSUME NEW R, NEW s, NEW d, NEW L, Levels(R, s, d, L), NEW i \in 0..d,
         NEW up, Lineage(R, s, L, i, up), NEW n \in L[i], NEW k \in 0..i, AtDepth(L, n, k)
  PROVE  /\ n = s <=> k = 0
         /\ n # s => n \in DOMAIN up /\ AtDepth(L, up[n], k - 1) /\ <<up[n], n>> \in R
                     /\ k - 1 \in 0..i /\ up[n] \in L[i]
<1>1. /\ d \in Nat /\ i \in Nat /\ L[0] = {s} /\ \A j, h \in 0..d : j <= h => L[j] \subseteq L[h]
      /\ \A h \in 0..d : h < d => L[h + 1] = L[h] \cup Onto(R, L[h])
  BY DEF Levels
<1>2. n = s <=> k = 0
  <2>1. AtDepth(L, s, 0)
    BY <1>1 DEF AtDepth
  <2>2. k \in Nat /\ 0 \in Nat
    OBVIOUS
  <2>3. n = s => k = 0
    BY <2>1, <2>2, DepthUnique
  <2>4. k = 0 => n = s
    BY <1>1 DEF AtDepth
  <2> QED BY <2>3, <2>4
<1>3. ASSUME n # s
      PROVE  n \in DOMAIN up /\ AtDepth(L, up[n], k - 1) /\ <<up[n], n>> \in R
             /\ k - 1 \in 0..i /\ up[n] \in L[i]
  <2>1. n \in DOMAIN up
    BY <1>3 DEF Lineage
  <2>2. k > 0 /\ up[n] \in L[k - 1] /\ <<up[n], n>> \in R
    BY <2>1 DEF Lineage
  <2>3. k - 1 \in 0..i /\ k - 1 \in 0..d /\ i \in 0..d /\ k - 1 <= i
    BY <1>1, <2>2
  <2>4. up[n] \in L[i]
    <3>1. L[k - 1] \subseteq L[i]
      BY <1>1, <2>3
    <3> QED BY <2>2, <3>1
  <2>5. ASSUME NEW j \in Nat, j < k - 1 PROVE up[n] \notin L[j]
    <3> SUFFICES ASSUME up[n] \in L[j] PROVE FALSE
      OBVIOUS
    <3>1. j \in 0..d /\ j < d /\ j + 1 < k /\ j + 1 \in Nat
      BY <1>1, <2>3, <2>5
    <3>2. n \in Onto(R, L[j])
      <4>1. <<up[n], n>>[1] = up[n] /\ <<up[n], n>>[2] = n
        OBVIOUS
      <4> QED BY <2>2, <4>1 DEF Onto
    <3>3. n \in L[j + 1]
      BY <1>1, <3>1, <3>2
    <3> QED BY <3>1, <3>3 DEF AtDepth
  <2> QED BY <2>1, <2>2, <2>3, <2>4, <2>5 DEF AtDepth
<1> QED BY <1>2, <1>3

LEMMA FrontWalks ==
  ASSUME NEW R, NEW s, NEW d, NEW L, Levels(R, s, d, L), NEW i \in 0..d,
         NEW up, Lineage(R, s, L, i, up), L[i] \subseteq Nodes,
         NEW g, g = CHOOSE h : FrontPath(s, up, h)
  PROVE  \A n \in L[i] : \A k \in 0..i : AtDepth(L, n, k) => IsWalk(R, g[n], s, n, k)
<1>1. d \in Nat /\ i \in Nat /\ s \in L[i] /\ {s} \cup DOMAIN up = L[i] /\ s \in Nodes
  <2>1. d \in Nat /\ L[0] = {s} /\ \A j, h \in 0..d : j <= h => L[j] \subseteq L[h]
    BY DEF Levels
  <2>2. i \in Nat /\ i \in 0..d /\ 0 \in 0..d /\ 0 <= i
    BY <2>1
  <2>3. L[0] \subseteq L[i]
    BY <2>1, <2>2
  <2>4. s \in L[i]
    BY <2>1, <2>3
  <2> QED BY <2>1, <2>2, <2>4 DEF Lineage
<1>2. FrontPath(s, up, g)
  <2>0. PICK X : X = L[i]
    OBVIOUS
  <2> DEFINE V == Seq(Nodes)
             step == [x \in V \X X |-> Append(x[1], x[2])]
  <2>1. step \in [V \X X -> V]
    <3>1. \A x \in V \X X : Append(x[1], x[2]) \in V
      <4> HIDE DEF V
      <4>1. \A x \in V \X X : x[1] \in V /\ x[2] \in Nodes
        BY <2>0
      <4> USE DEF V
      <4> QED BY <4>1, AppendProperties
    <3> QED BY <3>1
  <2>2. \A v \in V, n \in X : step[<<v, n>>] = Append(v, n)
    OBVIOUS
  <2>3. <<s>> \in V
    BY <1>1
  <2> HIDE DEF step, V
  <2>4. PICK h \in [X -> V] :
          \A n \in X : /\ n = s => h[n] = <<s>>
                       /\ n # s => h[n] = step[<<h[up[n]], n>>] /\ h[up[n]] \in V
    <3>1. PICK W, z, st : W = V /\ z = <<s>> /\ st = step
      BY Zenon
    <3>2. z \in W /\ st \in [W \X X -> W]
      BY <2>1, <2>3, <3>1
    <3>3. \E h : Chain(s, up, z, st, W, X, h)
      BY <2>0, <3>2, ChainExists
    <3> QED BY <3>1, <3>3 DEF Chain
  <2>5. ASSUME NEW n \in X PROVE h[n] = IF n = s THEN <<n>> ELSE Append(h[up[n]], n)
    <3>1. CASE n = s
      BY <2>4, <3>1, Zenon
    <3>2. CASE n # s
      <4>1. PICK v \in V : v = h[up[n]] /\ h[n] = step[<<v, n>>]
        BY <2>4, <3>2, Zenon
      <4>2. h[n] = Append(v, n)
        BY <2>2, <4>1, Zenon
      <4> QED BY <3>2, <4>1, <4>2
    <3> QED BY <3>1, <3>2
  <2>6. FrontPath(s, up, h)
    BY <1>1, <2>0, <2>4, <2>5, Zenon DEF FrontPath
  <2> QED BY <2>6
<1>3. \A n \in L[i] : g[n] = IF n = s THEN <<n>> ELSE Append(g[up[n]], n)
  BY <1>1, <1>2, Zenon DEF FrontPath
<1> DEFINE P == {k \in 0..i : \A n \in L[i] : AtDepth(L, n, k) => IsWalk(R, g[n], s, n, k)}
<1>4. 0 \in P
  <2>1. ASSUME NEW n \in L[i], AtDepth(L, n, 0) PROVE IsWalk(R, g[n], s, n, 0)
    <3>0. 0 \in 0..i
      BY <1>1
    <3>1. n = s
      BY <2>1, <3>0, LineageNearer, Zenon
    <3>2. g[n] = <<s>>
      BY <1>3, <3>1, Zenon
    <3>3. IsWalk(R, <<s>>, s, s, 0)
      BY <1>1, NoWalk
    <3> QED BY <3>1, <3>2, <3>3
  <2>2. 0 \in 0..i
    BY <1>1
  <2> QED BY <2>1, <2>2
<1>5. ASSUME NEW k \in 0..i, k < i, k \in P PROVE k + 1 \in P
  <2>1. k + 1 \in 0..i /\ k \in Nat /\ (k + 1) - 1 = k /\ k + 1 # 0
    BY <1>1, <1>5
  <2>2. ASSUME NEW n \in L[i], AtDepth(L, n, k + 1) PROVE IsWalk(R, g[n], s, n, k + 1)
    <3>0. PICK j \in 0..i : j = k + 1
      BY <2>1
    <3>1. n # s
      <4>1. AtDepth(L, n, j)
        BY <2>2, <3>0
      <4>2. n = s <=> j = 0
        BY <4>1, LineageNearer, Zenon
      <4> QED BY <2>1, <3>0, <4>2
    <3>2. AtDepth(L, up[n], k) /\ <<up[n], n>> \in R /\ up[n] \in L[i]
      <4>1. AtDepth(L, up[n], j - 1) /\ <<up[n], n>> \in R /\ up[n] \in L[i]
        BY <2>2, <3>0, <3>1, LineageNearer
      <4>2. j - 1 = k
        BY <2>1, <3>0
      <4> QED BY <4>1, <4>2
    <3>3. IsWalk(R, g[up[n]], s, up[n], k)
      BY <1>5, <3>2
    <3>4. g[n] = Append(g[up[n]], n)
      BY <1>3, <3>1, Zenon
    <3>5. n \in Nodes
      OBVIOUS
    <3>6. IsWalk(R, Append(g[up[n]], n), s, n, k + 1)
      BY <2>1, <3>2, <3>3, <3>5, WalkAppend
    <3> QED BY <3>4, <3>6, Zenon
  <2> QED BY <2>1, <2>2
<1>6. 0..i \subseteq P
  <2> HIDE DEF P
  <2> QED BY <1>1, <1>4, <1>5, Climbing
<1> QED BY <1>6

LEMMA BackWalks ==
  ASSUME NEW R, \A p \in R : p = <<p[1], p[2]>>, NEW t, NEW d, NEW B, Levels(Reversed(R), t, d, B),
         NEW i \in 0..d, NEW down, Lineage(Reversed(R), t, B, i, down), B[i] \subseteq Nodes,
         NEW g, g = CHOOSE h : BackPath(t, down, h)
  PROVE  \A n \in B[i] : \A k \in 0..i :
           AtDepth(B, n, k) => g[n] \in Seq(Nodes) /\ IsWalk(R, <<n>> \o g[n], n, t, k)
<1>q. PICK Q : Q = Reversed(R)
  OBVIOUS
<1>0. Levels(Q, t, d, B) /\ Lineage(Q, t, B, i, down)
  BY <1>q
<1>1. d \in Nat /\ i \in Nat /\ t \in B[i] /\ {t} \cup DOMAIN down = B[i] /\ t \in Nodes
  <2>1. d \in Nat /\ B[0] = {t} /\ \A j, h \in 0..d : j <= h => B[j] \subseteq B[h]
    BY <1>0 DEF Levels
  <2>2. i \in Nat /\ i \in 0..d /\ 0 \in 0..d /\ 0 <= i
    BY <2>1
  <2>3. B[0] \subseteq B[i]
    BY <2>1, <2>2
  <2>4. t \in B[i]
    BY <2>1, <2>3
  <2> QED BY <1>0, <2>1, <2>2, <2>4 DEF Lineage
<1>2. ASSUME NEW n \in B[i], n # t PROVE n \in DOMAIN down /\ down[n] \in B[i]
  <2>1. n \in B[i] /\ i \in Nat
    BY <1>1
  <2>2. PICK j \in 0..i : AtDepth(B, n, j)
    BY <2>1, DepthExists
  <2> QED BY <1>0, <1>2, <2>2, LineageNearer, Zenon
<1>3. BackPath(t, down, g)
  <2>0. PICK X : X = B[i]
    OBVIOUS
  <2> DEFINE V == Seq(Nodes)
             step == [x \in V \X X |-> IF x[2] = t THEN <<>> ELSE <<down[x[2]]>> \o x[1]]
  <2>1. step \in [V \X X -> V]
    <3>1. ASSUME NEW v \in V, NEW n \in X, n # t PROVE <<down[n]>> \o v \in V
      <4>1. down[n] \in Nodes
        BY <1>2, <2>0, <3>1
      <4>2. <<down[n]>> \in V
        BY <4>1
      <4> QED BY <3>1, <4>2, ConcatProperties
    <3>2. <<>> \in V
      OBVIOUS
    <3> HIDE DEF V
    <3>3. \A x \in V \X X : x[1] \in V /\ x[2] \in X
      OBVIOUS
    <3> QED BY <3>1, <3>2, <3>3
  <2>2. \A v \in V, n \in X : n # t => step[<<v, n>>] = <<down[n]>> \o v
    OBVIOUS
  <2>3. <<>> \in V
    BY <1>1
  <2> HIDE DEF step, V
  <2>4. PICK h \in [X -> V] :
          \A n \in X : /\ n = t => h[n] = <<>>
                       /\ n # t => h[n] = step[<<h[down[n]], n>>] /\ h[down[n]] \in V
    <3>1. PICK W, z, st : W = V /\ z = <<>> /\ st = step
      OBVIOUS
    <3>2. z \in W /\ st \in [W \X X -> W]
      BY <2>1, <2>3, <3>1
    <3>3. \E h : Chain(t, down, z, st, W, X, h)
      BY <1>0, <2>0, <3>2, ChainExists
    <3> QED BY <3>1, <3>3 DEF Chain
  <2>5. ASSUME NEW n \in X PROVE h[n] = IF n = t THEN <<>> ELSE <<down[n]>> \o h[down[n]]
    <3>1. CASE n = t
      BY <2>4, <3>1, Zenon
    <3>2. CASE n # t
      <4>1. PICK v \in V : v = h[down[n]] /\ h[n] = step[<<v, n>>]
        BY <2>4, <3>2, Zenon
      <4>2. h[n] = <<down[n]>> \o v
        BY <2>2, <3>2, <4>1, Zenon
      <4> QED BY <3>2, <4>1, <4>2
    <3> QED BY <3>1, <3>2
  <2>6. BackPath(t, down, h)
    BY <1>1, <2>0, <2>4, <2>5, Zenon DEF BackPath
  <2> QED BY <2>6
<1>4. \A n \in B[i] : g[n] = IF n = t THEN <<>> ELSE <<down[n]>> \o g[down[n]]
  BY <1>1, <1>3, Zenon DEF BackPath
<1> DEFINE Ok(n, k) == g[n] \in Seq(Nodes) /\ IsWalk(R, <<n>> \o g[n], n, t, k)
           P == {k \in 0..i : \A n \in B[i] : AtDepth(B, n, k) => Ok(n, k)}
<1>5. 0 \in P
  <2>1. ASSUME NEW n \in B[i], AtDepth(B, n, 0) PROVE Ok(n, 0)
    <3>0. 0 \in 0..i
      BY <1>1
    <3>1. n = t
      BY <1>0, <2>1, <3>0, LineageNearer, Zenon
    <3>2. g[n] = <<>>
      BY <1>4, <3>1, Zenon
    <3>5. <<t>> \in Seq(Nodes) /\ <<>> \in Seq(Nodes)
      BY <1>1
    <3>6. <<t>> \o <<>> = <<t>> /\ IsWalk(R, <<t>>, t, t, 0)
      BY <1>1, <3>5, ConcatEmptySeq, NoWalk
    <3>7. g[n] \in Seq(Nodes)
      BY <3>2, <3>5, Zenon
    <3>8. <<n>> \o g[n] = <<t>>
      BY <3>1, <3>2, <3>6, Zenon
    <3> QED BY <3>1, <3>6, <3>7, <3>8, Zenon
  <2>2. 0 \in 0..i
    BY <1>1
  <2> QED BY <2>1, <2>2
<1>6. ASSUME NEW k \in 0..i, k < i, k \in P PROVE k + 1 \in P
  <2>1. k + 1 \in 0..i /\ k \in Nat /\ (k + 1) - 1 = k /\ k + 1 # 0
    BY <1>1, <1>6
  <2>2. ASSUME NEW n \in B[i], AtDepth(B, n, k + 1) PROVE Ok(n, k + 1)
    <3>0. PICK j \in 0..i : j = k + 1
      BY <2>1
    <3>1. n # t
      <4>1. AtDepth(B, n, j)
        BY <2>2, <3>0
      <4>2. n = t <=> j = 0
        BY <1>0, <4>1, LineageNearer, Zenon
      <4> QED BY <2>1, <3>0, <4>2
    <3>a. PICK m : m = down[n]
      OBVIOUS
    <3>2. AtDepth(B, m, k) /\ <<m, n>> \in Q /\ m \in B[i]
      <4>1. n \in DOMAIN down /\ AtDepth(B, down[n], j - 1) /\ <<down[n], n>> \in Q /\ down[n] \in B[i]
        BY <1>0, <2>2, <3>0, <3>1, LineageNearer
      <4>2. j - 1 = k
        BY <2>1, <3>0
      <4> QED BY <3>a, <4>1, <4>2
    <3>3. g[m] \in Seq(Nodes) /\ IsWalk(R, <<m>> \o g[m], m, t, k)
      BY <1>6, <3>2
    <3>4. g[n] = <<m>> \o g[m]
      BY <1>4, <3>1, <3>a, Zenon
    <3>5. n \in Nodes /\ m \in Nodes
      BY <3>2
    <3>6. <<n, m>> \in R
      BY <1>q, <3>2, BackAndForth
    <3>7. <<n>> \in Seq(Nodes) /\ <<m>> \in Seq(Nodes)
      BY <3>5
    <3> PICK v : v = Append(<<n>>, m)
      BY Zenon
    <3>8. IsWalk(R, v, n, m, 1)
      <4>1. IsWalk(R, <<n>>, n, n, 0)
        BY <3>5, NoWalk
      <4>2. IsWalk(R, v, n, m, 0 + 1)
        BY <3>5, <3>6, <4>1, WalkAppend
      <4> QED BY <4>2
    <3>9. IsWalk(R, v \o g[m], n, t, 1 + k)
      BY <2>1, <3>3, <3>8, WalkConcat, Zenon
    <3>10. v \o g[m] = <<n>> \o g[n]
      <4>1. (<<n>> \o <<m>>) \o g[m] = <<n>> \o (<<m>> \o g[m])
        BY <3>3, <3>7, ConcatAssociative
      <4>2. v = <<n>> \o <<m>>
        BY <3>5, <3>7, AppendIsConcat
      <4> QED BY <3>4, <4>1, <4>2, Zenon
    <3>11. g[n] \in Seq(Nodes)
      <4>1. <<m>> \o g[m] \in Seq(Nodes)
        BY <3>3, <3>7, ConcatProperties
      <4> QED BY <3>4, <4>1, Zenon
    <3>12. 1 + k = k + 1
      BY <2>1
    <3> QED BY <3>9, <3>10, <3>11, <3>12, Zenon
  <2> QED BY <2>1, <2>2
<1>7. 0..i \subseteq P
  <2> HIDE DEF P
  <2> QED BY <1>1, <1>5, <1>6, Climbing
<1> QED BY <1>7

\* The edges why follows, and what is within k of its two ends.
Ways(E) == Pairs(E, Kinds)
Ahead(E, a) == Level(Ways(E), {a.src}, a.depth)
Astern(E, a) == Level(Reversed(Ways(E)), {a.dst}, a.depth)

WhyAsk(E, a) ==
  /\ E \subseteq Nodes \X Nodes \X Kinds /\ a.depth \in Nat /\ a.src \in Nodes /\ a.dst \in Nodes

\* What `why` keeps after f levels forward and b back.
WhyAt(E, a, r, f, b) ==
  /\ r = [turn |-> r.turn, hops |-> r.hops, fwd |-> r.fwd, rev |-> r.rev,
          seenFwd |-> r.seenFwd, seenRev |-> r.seenRev, up |-> r.up, down |-> r.down]
  /\ \/ r.turn = "fwd" /\ f = b
     \/ r.turn = "rev" /\ f = b + 1
  /\ r.hops = f + b /\ r.hops <= a.depth
  /\ a.src = a.dst => r.hops = 0
  /\ Searched(Ways(E), a.src, Ahead(E, a), f, r.seenFwd, r.fwd, r.up)
  /\ Searched(Reversed(Ways(E)), a.dst, Astern(E, a), b, r.seenRev, r.rev, r.down)
  /\ a.src # a.dst => r.seenFwd \cap r.seenRev = {}
WhyRun(E, a, r) == \E f, b \in 0..a.depth : WhyAt(E, a, r, f, b)

WhyExact(E, a, v) ==
  LET dist == Distances(Ways(E), {a.src}, a.depth) IN
  IF a.dst \notin DOMAIN dist THEN v = <<>>
  ELSE /\ v # <<>> /\ v[1] = a.src /\ Last(v) = a.dst
       /\ Len(v) = dist[a.dst] + 1
       /\ \A i \in 1..Len(v) - 1 : <<v[i], v[i + 1]>> \in Ways(E)

LEMMA WaysAre ==
  ASSUME NEW E, E \subseteq Nodes \X Nodes \X Kinds
  PROVE  /\ \A p \in Ways(E) : p = <<p[1], p[2]>> /\ p[1] \in Nodes /\ p[2] \in Nodes
         /\ \A p \in Reversed(Ways(E)) : p = <<p[1], p[2]>> /\ p[1] \in Nodes /\ p[2] \in Nodes
         /\ \A x, y : <<x, y>> \in Ways(E) <=> \E e \in E : e[1] = x /\ e[2] = y
<1>1. \A e \in E : e[1] \in Nodes /\ e[2] \in Nodes /\ e[3] \in Kinds
  OBVIOUS
<1>2. \A p \in Ways(E) : p = <<p[1], p[2]>> /\ p[1] \in Nodes /\ p[2] \in Nodes
  BY <1>1 DEF Ways, Pairs
<1>3. \A p \in Reversed(Ways(E)) : p = <<p[1], p[2]>> /\ p[1] \in Nodes /\ p[2] \in Nodes
  BY <1>2 DEF Reversed
<1>4. ASSUME NEW x, NEW y, <<x, y>> \in Ways(E) PROVE \E e \in E : e[1] = x /\ e[2] = y
  <2>1. PICK e \in E : <<x, y>> = <<e[1], e[2]>>
    BY <1>4 DEF Ways, Pairs
  <2>2. e[1] = x /\ e[2] = y
    BY <2>1
  <2> QED BY <2>2
<1>5. ASSUME NEW e \in E PROVE <<e[1], e[2]>> \in Ways(E)
  BY <1>1 DEF Ways, Pairs
<1> QED BY <1>2, <1>3, <1>4, <1>5

LEMMA AheadLevels ==
  ASSUME NEW E, NEW a, WhyAsk(E, a)
  PROVE  /\ Levels(Ways(E), a.src, a.depth, Ahead(E, a))
         /\ Levels(Reversed(Ways(E)), a.dst, a.depth, Astern(E, a))
         /\ \A k \in 0..a.depth : Ahead(E, a)[k] \subseteq Nodes /\ Astern(E, a)[k] \subseteq Nodes
<1> PICK R, Q, s, t, d : R = Ways(E) /\ Q = Reversed(R) /\ s = a.src /\ t = a.dst /\ d = a.depth
  OBVIOUS
<1>1. d \in Nat /\ s \in Nodes /\ t \in Nodes
  BY DEF WhyAsk
<1>2. Levels(R, s, d, Level(R, {s}, d)) /\ Levels(Q, t, d, Level(Q, {t}, d))
  BY <1>1, LevelIsLevels
<1>3. /\ \A p \in R : p = <<p[1], p[2]>> /\ p[1] \in Nodes /\ p[2] \in Nodes
      /\ \A p \in Q : p = <<p[1], p[2]>> /\ p[1] \in Nodes /\ p[2] \in Nodes
  BY WaysAre DEF WhyAsk
<1>4. Onto(R, Nodes) \subseteq Nodes /\ Onto(Q, Nodes) \subseteq Nodes
  BY <1>3 DEF Onto
<1>5. PICK S, T : S = {s} /\ T = {t}
  BY Zenon
<1>6. S \subseteq Nodes /\ T \subseteq Nodes
  BY <1>1, <1>5
<1>7. \A k \in 0..d : Level(R, S, d)[k] \subseteq Nodes
  BY <1>1, <1>4, <1>6, LevelWithin
<1>8. \A k \in 0..d : Level(Q, T, d)[k] \subseteq Nodes
  BY <1>1, <1>4, <1>6, LevelWithin
<1> QED BY <1>2, <1>5, <1>7, <1>8, Zenon DEF Ahead, Astern

LEMMA WhyFound ==
  ASSUME NEW E, NEW a, WhyAsk(E, a), NEW k \in 0..a.depth, AtDepth(Ahead(E, a), a.dst, k),
         NEW v, IsWalk(Ways(E), v, a.src, a.dst, k)
  PROVE  WhyExact(E, a, v)
<1> PICK L, s, t, d, R : L = Ahead(E, a) /\ s = a.src /\ t = a.dst /\ d = a.depth /\ R = Ways(E)
  OBVIOUS
<1>1. d \in Nat /\ \A j, h \in 0..d : j <= h => L[j] \subseteq L[h]
  BY AheadLevels DEF Levels
<1> PICK dist : dist = Distances(R, {s}, d)
  OBVIOUS
<1>2. dist = [n \in L[d] |-> Least({j \in 0..d : n \in L[j]})]
  BY DEF Distances, Ahead
<1>3. t \in L[k] /\ \A j \in Nat : j < k => t \notin L[j]
  BY DEF AtDepth
<1>4. t \in L[d]
  <2>1. k \in 0..d /\ d \in 0..d /\ k <= d
    BY <1>1
  <2> QED BY <1>1, <1>3, <2>1
<1>5. Least({j \in 0..d : t \in L[j]}) = k
  <2> DEFINE K == {j \in 0..d : t \in L[j]}
  <2>1. K \in SUBSET Nat /\ k \in K
    BY <1>3
  <2>2. ASSUME NEW j \in K PROVE k <= j
    <3>1. j \in Nat /\ t \in L[j] /\ k \in Nat
      OBVIOUS
    <3>2. ~ (j < k)
      BY <1>3, <3>1
    <3> QED BY <3>1, <3>2
  <2> HIDE DEF K
  <2>3. Least(K) = k
    BY <2>1, <2>2, LeastIs
  <2> QED BY <2>3 DEF K
<1>6. t \in DOMAIN dist /\ dist[t] = k
  <2>1. t \in DOMAIN dist /\ dist[t] = Least({j \in 0..d : t \in L[j]})
    BY <1>2, <1>4
  <2> QED BY <1>5, <2>1
<1>7. /\ v \in Seq(Nodes) /\ Len(v) = k + 1 /\ v[1] = s /\ v[k + 1] = t
      /\ \A i \in 1..k : <<v[i], v[i + 1]>> \in R
  BY DEF IsWalk
<1>8. v # <<>> /\ Last(v) = t
  <2>1. k \in Nat
    OBVIOUS
  <2> QED BY <1>7, <2>1 DEF Last
<1>9. Len(v) - 1 = k
  BY <1>7
<1> QED BY <1>6, <1>7, <1>8, <1>9 DEF WhyExact

LEMMA WhyNone ==
  ASSUME NEW E, NEW a, a.dst \notin Ahead(E, a)[a.depth]
  PROVE  WhyExact(E, a, <<>>)
<1>1. DOMAIN Distances(Ways(E), {a.src}, a.depth) = Ahead(E, a)[a.depth]
  BY DEF Distances, Ahead
<1> QED BY <1>1 DEF WhyExact

\* Where the two sides first meet, the symbols before and after it are a shortest path.
LEMMA WhyMeets ==
  ASSUME NEW E, NEW a, WhyAsk(E, a), NEW i \in 0..a.depth, NEW j \in 0..a.depth, NEW c \in 0..a.depth,
         i + j = c + 1, i + j <= a.depth, a.dst \notin Ahead(E, a)[c],
         NEW up, Lineage(Ways(E), a.src, Ahead(E, a), i, up),
         NEW down, Lineage(Reversed(Ways(E)), a.dst, Astern(E, a), j, down),
         NEW meet, meet \in Ahead(E, a)[i], meet \in Astern(E, a)[j],
         NEW g, g = CHOOSE h : FrontPath(a.src, up, h),
         NEW w, w = CHOOSE h : BackPath(a.dst, down, h)
  PROVE  WhyExact(E, a, g[meet] \o w[meet])
<1>a. PICK L, B, s, t, d, R, Q : /\ L = Ahead(E, a) /\ B = Astern(E, a) /\ s = a.src /\ t = a.dst
                                 /\ d = a.depth /\ R = Ways(E) /\ Q = Reversed(R)
  OBVIOUS
<1>1. /\ i \in 0..d /\ j \in 0..d /\ c \in 0..d /\ i + j = c + 1 /\ i + j <= d /\ t \notin L[c]
      /\ Lineage(R, s, L, i, up) /\ Lineage(Q, t, B, j, down)
      /\ meet \in L[i] /\ meet \in B[j]
      /\ g = CHOOSE h : FrontPath(s, up, h)
      /\ w = CHOOSE h : BackPath(t, down, h)
  BY <1>a
<1>2. Levels(R, s, d, L) /\ Levels(Q, t, d, B) /\ L[i] \subseteq Nodes /\ B[j] \subseteq Nodes
  BY <1>1, <1>a, AheadLevels
<1>3. \A p \in R : p = <<p[1], p[2]>>
  BY <1>a, WaysAre DEF WhyAsk
<1>4. d \in Nat /\ \A x, y \in 0..d : x <= y => L[x] \subseteq L[y]
  BY <1>2 DEF Levels
<1>5. i \in Nat /\ j \in Nat
  BY <1>1
<1>6. PICK m \in 0..i : AtDepth(L, meet, m)
  BY <1>1, <1>5, DepthExists
<1>7. PICK n \in 0..j : AtDepth(B, meet, n)
  BY <1>1, <1>5, DepthExists
<1>8. m \in 0..d /\ n \in 0..d /\ m + n <= d /\ m + n <= i + j
  BY <1>1, <1>4, <1>6, <1>7
<1>9. t \in L[m + n]
  <2>1. meet \in L[m] /\ meet \in B[n]
    BY <1>6, <1>7 DEF AtDepth
  <2> QED BY <1>2, <1>3, <1>8, <1>a, <2>1, MeetInTheMiddle
<1>10. ASSUME NEW x \in Nat, t \in L[x], x <= d PROVE i + j <= x
  <2> SUFFICES ASSUME x < i + j PROVE FALSE
    BY <1>5
  <2>1. x <= c /\ x \in 0..d
    BY <1>1, <1>4, <1>10
  <2>2. L[x] \subseteq L[c]
    BY <1>1, <1>4, <2>1
  <2> QED BY <1>1, <1>10, <2>2
<1>11. m + n = i + j /\ m + n \in Nat
  <2>1. m + n \in Nat
    BY <1>8
  <2>2. i + j <= m + n
    BY <1>8, <1>9, <1>10, <2>1
  <2> QED BY <1>5, <1>8, <2>1, <2>2
<1>12. AtDepth(L, t, m + n)
  <2>1. ASSUME NEW x \in Nat, x < m + n PROVE t \notin L[x]
    <3>1. x <= d /\ ~ (i + j <= x)
      BY <1>1, <1>4, <1>11, <2>1
    <3> QED BY <1>10, <3>1
  <2> QED BY <1>9, <2>1 DEF AtDepth
<1>13. IsWalk(R, g[meet], s, meet, m)
  <2>1. \A x \in L[i] : \A k \in 0..i : AtDepth(L, x, k) => IsWalk(R, g[x], s, x, k)
    BY <1>1, <1>2, FrontWalks, Zenon
  <2> QED BY <1>1, <1>6, <2>1
<1>14. w[meet] \in Seq(Nodes) /\ IsWalk(R, <<meet>> \o w[meet], meet, t, n)
  <2>1. Levels(Reversed(R), t, d, B) /\ Lineage(Reversed(R), t, B, j, down)
    BY <1>1, <1>2, <1>a
  <2>2. \A x \in B[j] : \A k \in 0..j :
          AtDepth(B, x, k) => w[x] \in Seq(Nodes) /\ IsWalk(R, <<x>> \o w[x], x, t, k)
    BY <1>1, <1>2, <1>3, <2>1, BackWalks, Zenon
  <2> QED BY <1>1, <1>7, <2>2
<1>15. IsWalk(R, g[meet] \o w[meet], s, t, m + n)
  <2>1. m \in Nat /\ n \in Nat
    BY <1>8
  <2> QED BY <1>13, <1>14, <2>1, WalkConcat
<1>16. PICK k \in 0..a.depth : k = m + n
  BY <1>8, <1>11, <1>a
<1> QED BY <1>12, <1>15, <1>16, <1>a, WhyFound

LEMMA WhyStarts ==
  ASSUME NEW E, NEW a, WhyAsk(E, a), a.job = "why"
  PROVE  WhyRun(E, a, Start(a))
<1>a. PICK r, L, B, s, t, d, R, Q :
          /\ r = Start(a) /\ L = Ahead(E, a) /\ B = Astern(E, a) /\ s = a.src /\ t = a.dst
          /\ d = a.depth /\ R = Ways(E) /\ Q = Reversed(R)
  OBVIOUS
<1>1. r = [turn |-> "fwd", hops |-> 0, fwd |-> {s}, rev |-> {t},
           seenFwd |-> {s}, seenRev |-> {t}, up |-> Empty, down |-> Empty]
  BY <1>a DEF Start
<1>2. /\ r.turn = "fwd" /\ r.hops = 0 /\ r.fwd = {s} /\ r.rev = {t}
      /\ r.seenFwd = {s} /\ r.seenRev = {t} /\ r.up = Empty /\ r.down = Empty
  BY <1>1
<1>3. d \in Nat /\ L[0] = {s} /\ B[0] = {t}
  BY <1>a, AheadLevels DEF Levels
<1>4. Onto(R, {}) = {} /\ Onto(Q, {}) = {} /\ DOMAIN Empty = {}
  BY DEF Onto, Empty
<1>5. Searched(R, s, L, 0, {s}, {s}, Empty)
  BY <1>3, <1>4, Zenon DEF Searched, Lineage
<1>6. Searched(Q, t, B, 0, {t}, {t}, Empty)
  BY <1>3, <1>4, Zenon DEF Searched, Lineage
<1>7. r = [turn |-> r.turn, hops |-> r.hops, fwd |-> r.fwd, rev |-> r.rev,
           seenFwd |-> r.seenFwd, seenRev |-> r.seenRev, up |-> r.up, down |-> r.down]
  BY <1>1, <1>2
<1>8. 0 \in 0..d
  BY <1>3
<1>9. WhyAt(E, a, r, 0, 0)
  BY <1>2, <1>3, <1>5, <1>6, <1>7, <1>a DEF WhyAt
<1> QED BY <1>8, <1>9, <1>a DEF WhyRun

\* What the lemmas use of the run before a step.
LEMMA WhyFacts ==
  ASSUME NEW E, NEW a, WhyAsk(E, a), NEW r, NEW f \in 0..a.depth, NEW b \in 0..a.depth,
         WhyAt(E, a, r, f, b), a.src # a.dst
  PROVE  /\ f + b = r.hops /\ r.hops <= a.depth /\ f + b \in 0..a.depth
         /\ a.dst \notin Ahead(E, a)[f + b]
<1>a. PICK L, B, s, t, d, R : /\ L = Ahead(E, a) /\ B = Astern(E, a) /\ s = a.src /\ t = a.dst
                              /\ d = a.depth /\ R = Ways(E)
  OBVIOUS
<1>1. f + b = r.hops /\ r.hops <= d /\ f \in 0..d /\ b \in 0..d
  BY <1>a DEF WhyAt
<1>2. Levels(R, s, d, L) /\ Levels(Reversed(R), t, d, B)
  BY <1>a, AheadLevels
<1>3. \A p \in R : p = <<p[1], p[2]>>
  BY <1>a, WaysAre DEF WhyAsk
<1>4. r.seenFwd = L[f] /\ r.seenRev = B[b] /\ r.seenFwd \cap r.seenRev = {}
  BY <1>a DEF WhyAt, Searched
<1>5. t \in L[f + b] <=> \E n : n \in L[f] /\ n \in B[b]
  BY <1>1, <1>2, <1>3, MeetInTheMiddle
<1>6. t \notin L[f + b]
  BY <1>4, <1>5
<1>7. f + b \in 0..d
  BY <1>1
<1> QED BY <1>1, <1>6, <1>7, <1>a

\* A level forward that adds nothing, or reaches the other side, or neither.
WhyStep(r, new, all) ==
  [r EXCEPT !.hops = @ + 1, !.turn = "rev", !.fwd = new, !.seenFwd = @ \cup new, !.up = all]
WhyBack(r, new, all) ==
  [r EXCEPT !.hops = @ + 1, !.turn = "fwd", !.rev = new, !.seenRev = @ \cup new, !.down = all]

\* Wherever in M the two sides join, the symbols on the way are the answer.
Joins(E, a, M, up, down) ==
  \A meet \in M : \A g, w :
     g = (CHOOSE h : FrontPath(a.src, up, h)) /\ w = (CHOOSE h : BackPath(a.dst, down, h)) =>
       WhyExact(E, a, g[meet] \o w[meet])

LEMMA ForwardStep ==
  ASSUME NEW E, NEW a, WhyAsk(E, a), NEW r, NEW f \in 0..a.depth, NEW b \in 0..a.depth,
         WhyAt(E, a, r, f, b), r.turn = "fwd", a.src # a.dst, r.hops < a.depth,
         NEW new, new = Onto(Ways(E), r.fwd) \ r.seenFwd,
         NEW p, p \in Parents(new, r.fwd, Ways(E)), NEW all, all = Joined(r.up, p)
  PROVE  /\ new = {} => WhyExact(E, a, <<>>)
         /\ Joins(E, a, new \cap r.seenRev, all, r.down)
         /\ new \cap r.seenRev = {} => WhyRun(E, a, WhyStep(r, new, all))
<1>a. PICK L, B, s, t, d, R, Q : /\ L = Ahead(E, a) /\ B = Astern(E, a) /\ s = a.src /\ t = a.dst
                                 /\ d = a.depth /\ R = Ways(E) /\ Q = Reversed(R)
  OBVIOUS
<1>1. /\ f + b = r.hops /\ r.hops < d /\ f + b \in 0..d /\ t \notin L[f + b]
      /\ f \in 0..d /\ b \in 0..d /\ f = b /\ d \in Nat /\ s # t
  <2>1. f = b
    BY DEF WhyAt
  <2> QED BY <1>a, <2>1, WhyFacts DEF WhyAsk
<1>2. f < d /\ f + 1 \in 0..d /\ (f + 1) + b = (f + b) + 1 /\ (f + 1) + b <= d
  BY <1>1
<1>3. /\ Searched(R, s, L, f, r.seenFwd, r.fwd, r.up) /\ Searched(Q, t, B, b, r.seenRev, r.rev, r.down)
      /\ r.seenFwd \cap r.seenRev = {}
  BY <1>1, <1>a DEF WhyAt
<1>4. Levels(R, s, d, L) /\ Levels(Q, t, d, B)
  BY <1>a, AheadLevels
<1>5. /\ Searched(R, s, L, f + 1, r.seenFwd \cup new, new, all)
      /\ L[f + 1] = L[f] \cup new
  <2>1. PICK se, le, up : se = r.seenFwd /\ le = r.fwd /\ up = r.up
    OBVIOUS
  <2>2. Searched(R, s, L, f, se, le, up) /\ new = Onto(R, le) \ se /\ p \in Parents(new, le, R)
    BY <1>3, <1>a, <2>1
  <2>3. Searched(R, s, L, f + 1, se \cup new, new, Joined(up, p)) /\ L[f + 1] = L[f] \cup new
    <3>1. f \in 0..d /\ f < d /\ Levels(R, s, d, L)
      BY <1>1, <1>2, <1>4
    <3>2. PICK nw, pp : nw = new /\ pp = p
      OBVIOUS
    <3>3. Searched(R, s, L, f, se, le, up) /\ nw = Onto(R, le) \ se /\ pp \in Parents(nw, le, R)
      BY <2>2, <3>2, Zenon
    <3>4. PICK un, jo, k : un = se \cup nw /\ jo = Joined(up, pp) /\ k = f + 1
      BY Zenon
    <3>5. Searched(R, s, L, k, un, nw, jo) /\ L[k] = L[f] \cup nw
      BY <3>1, <3>3, <3>4, SearchGrows
    <3> QED BY <3>2, <3>4, <3>5
  <2> QED BY <2>1, <2>3
<1>6. ASSUME new = {} PROVE WhyExact(E, a, <<>>)
  <2>1. L[f + 1] = L[f]
    BY <1>5, <1>6
  <2>2. L[d] = L[f]
    BY <1>1, <1>2, <1>4, <2>1, Stalls
  <2>3. t \notin L[d]
    <3>1. L[f] \subseteq L[f + b]
      <4>1. f <= f + b
        BY <1>1
      <4> QED BY <1>1, <1>4, <4>1 DEF Levels
    <3> QED BY <1>1, <2>2, <3>1
  <2> QED BY <1>a, <2>3, WhyNone
<1>7. ASSUME NEW meet \in new \cap r.seenRev, NEW g, NEW w, g = CHOOSE h : FrontPath(s, all, h),
             w = CHOOSE h : BackPath(t, r.down, h)
      PROVE  WhyExact(E, a, g[meet] \o w[meet])
  <2>1. meet \in L[f + 1] /\ meet \in B[b]
    BY <1>3, <1>5, <1>7 DEF Searched
  <2>2. Lineage(R, s, L, f + 1, all) /\ Lineage(Q, t, B, b, r.down)
    BY <1>3, <1>5 DEF Searched
  <2>3. PICK i \in 0..a.depth, c \in 0..a.depth : i = f + 1 /\ c = f + b
    BY <1>1, <1>2, <1>a
  <2>4. /\ i + b = c + 1 /\ i + b <= a.depth /\ a.dst \notin Ahead(E, a)[c]
        /\ Lineage(Ways(E), a.src, Ahead(E, a), i, all)
        /\ Lineage(Reversed(Ways(E)), a.dst, Astern(E, a), b, r.down)
        /\ meet \in Ahead(E, a)[i] /\ meet \in Astern(E, a)[b]
        /\ g = CHOOSE h : FrontPath(a.src, all, h)
        /\ w = CHOOSE h : BackPath(a.dst, r.down, h)
    BY <1>1, <1>2, <1>7, <1>a, <2>1, <2>2, <2>3
  <2>5. PICK down : down = r.down
    OBVIOUS
  <2>6. /\ Lineage(Reversed(Ways(E)), a.dst, Astern(E, a), b, down)
        /\ w = CHOOSE h : BackPath(a.dst, down, h)
    BY <2>4, <2>5
  <2>7. PICK mt, up : mt = meet /\ up = all
    OBVIOUS
  <2>8. /\ Lineage(Ways(E), a.src, Ahead(E, a), i, up)
        /\ mt \in Ahead(E, a)[i] /\ mt \in Astern(E, a)[b]
        /\ g = CHOOSE h : FrontPath(a.src, up, h)
    BY <2>4, <2>7
  <2>9. i + b = c + 1 /\ i + b <= a.depth /\ a.dst \notin Ahead(E, a)[c]
    BY <2>4
  <2>10. WhyExact(E, a, g[mt] \o w[mt])
    BY <2>6, <2>8, <2>9, WhyMeets, Zenon
  <2> QED BY <2>7, <2>10
<1>8. ASSUME new \cap r.seenRev = {} PROVE WhyRun(E, a, WhyStep(r, new, all))
  <2>1. PICK q : q = WhyStep(r, new, all)
    OBVIOUS
  <2>2. r = [turn |-> r.turn, hops |-> r.hops, fwd |-> r.fwd, rev |-> r.rev,
             seenFwd |-> r.seenFwd, seenRev |-> r.seenRev, up |-> r.up, down |-> r.down]
    BY DEF WhyAt
  <2>3. q = [turn |-> "rev", hops |-> r.hops + 1, fwd |-> new, rev |-> r.rev,
             seenFwd |-> r.seenFwd \cup new, seenRev |-> r.seenRev, up |-> all, down |-> r.down]
    BY <2>1, <2>2, Zenon DEF WhyStep
  <2>4. /\ q.turn = "rev" /\ q.hops = r.hops + 1 /\ q.fwd = new /\ q.rev = r.rev
        /\ q.seenFwd = r.seenFwd \cup new /\ q.seenRev = r.seenRev /\ q.up = all /\ q.down = r.down
    BY <2>3
  <2>5. q = [turn |-> q.turn, hops |-> q.hops, fwd |-> q.fwd, rev |-> q.rev,
             seenFwd |-> q.seenFwd, seenRev |-> q.seenRev, up |-> q.up, down |-> q.down]
    BY <2>3, <2>4
  <2>6. /\ Searched(R, s, L, f + 1, q.seenFwd, q.fwd, q.up)
        /\ Searched(Q, t, B, b, q.seenRev, q.rev, q.down)
    BY <1>3, <1>5, <2>4
  <2>7. q.seenFwd \cap q.seenRev = {}
    BY <1>3, <1>8, <2>4
  <2>8. q.hops = (f + 1) + b /\ q.hops <= d /\ f + 1 = b + 1
    BY <1>1, <1>2, <2>4
  <2>9. WhyAt(E, a, q, f + 1, b)
    BY <1>1, <1>a, <2>4, <2>5, <2>6, <2>7, <2>8 DEF WhyAt
  <2>10. f + 1 \in 0..a.depth /\ b \in 0..a.depth
    BY <1>1, <1>2, <1>a
  <2> QED BY <2>1, <2>9, <2>10 DEF WhyRun
<1> QED BY <1>6, <1>7, <1>8, <1>a DEF Joins

LEMMA BackwardStep ==
  ASSUME NEW E, NEW a, WhyAsk(E, a), NEW r, NEW f \in 0..a.depth, NEW b \in 0..a.depth,
         WhyAt(E, a, r, f, b), r.turn = "rev", r.hops < a.depth,
         NEW new, new = Onto(Reversed(Ways(E)), r.rev) \ r.seenRev,
         NEW p, p \in Parents(new, r.rev, Reversed(Ways(E))),
         NEW all, all = Joined(r.down, p)
  PROVE  /\ new = {} => WhyExact(E, a, <<>>)
         /\ Joins(E, a, new \cap r.seenFwd, r.up, all)
         /\ new \cap r.seenFwd = {} => WhyRun(E, a, WhyBack(r, new, all))
<1>a. PICK L, B, s, t, d, R, Q : /\ L = Ahead(E, a) /\ B = Astern(E, a) /\ s = a.src /\ t = a.dst
                                 /\ d = a.depth /\ R = Ways(E) /\ Q = Reversed(R)
  OBVIOUS
<1>1. /\ f + b = r.hops /\ r.hops < d /\ f + b \in 0..d /\ t \notin L[f + b]
      /\ f \in 0..d /\ b \in 0..d /\ f = b + 1 /\ d \in Nat /\ s # t
  <2>1. f = b + 1 /\ a.src # a.dst
    BY DEF WhyAt
  <2> QED BY <1>a, <2>1, WhyFacts DEF WhyAsk
<1>2. b < d /\ b + 1 \in 0..d /\ f + (b + 1) = (f + b) + 1 /\ f + (b + 1) <= d
  BY <1>1
<1>3. /\ Searched(R, s, L, f, r.seenFwd, r.fwd, r.up) /\ Searched(Q, t, B, b, r.seenRev, r.rev, r.down)
      /\ r.seenFwd \cap r.seenRev = {}
  BY <1>1, <1>a DEF WhyAt
<1>4. Levels(R, s, d, L) /\ Levels(Q, t, d, B)
  BY <1>a, AheadLevels
<1>5. /\ Searched(Q, t, B, b + 1, r.seenRev \cup new, new, all)
      /\ B[b + 1] = B[b] \cup new
  <2>1. PICK se, le, dn : se = r.seenRev /\ le = r.rev /\ dn = r.down
    OBVIOUS
  <2>2. Searched(Q, t, B, b, se, le, dn) /\ new = Onto(Q, le) \ se /\ p \in Parents(new, le, Q)
    BY <1>3, <1>a, <2>1
  <2>3. Searched(Q, t, B, b + 1, se \cup new, new, Joined(dn, p)) /\ B[b + 1] = B[b] \cup new
    <3>1. b \in 0..d /\ b < d /\ Levels(Q, t, d, B)
      BY <1>1, <1>2, <1>4
    <3>2. PICK nw, pp : nw = new /\ pp = p
      OBVIOUS
    <3>3. Searched(Q, t, B, b, se, le, dn) /\ nw = Onto(Q, le) \ se /\ pp \in Parents(nw, le, Q)
      BY <2>2, <3>2
    <3>4. PICK un, jo, k : un = se \cup nw /\ jo = Joined(dn, pp) /\ k = b + 1
      BY Zenon
    <3>5. Searched(Q, t, B, k, un, nw, jo) /\ B[k] = B[b] \cup nw
      BY <3>1, <3>3, <3>4, SearchGrows
    <3> QED BY <3>2, <3>4, <3>5
  <2> QED BY <2>1, <2>3
<1>6. ASSUME new = {} PROVE WhyExact(E, a, <<>>)
  <2>1. B[b + 1] = B[b]
    BY <1>5, <1>6
  <2>2. B[d] = B[b]
    BY <1>1, <1>2, <1>4, <2>1, Stalls
  <2>3. t \notin L[d]
    <3>1. L[0] = {s} /\ L[0] \subseteq L[f]
      <4>1. 0 \in 0..d /\ f \in 0..d /\ 0 <= f
        BY <1>1
      <4> QED BY <1>4, <4>1 DEF Levels
    <3>2. \A n : ~ (n \in L[f] /\ n \in B[b])
      BY <1>3 DEF Searched
    <3>3. s \notin B[d]
      BY <2>2, <3>1, <3>2
    <3>4. PICK z \in 0..d : z = 0
      BY <1>1
    <3>5. d \in 0..d /\ z + d <= d /\ z + d = d
      BY <1>1, <3>4
    <3>6. \A q \in R : q = <<q[1], q[2]>>
      BY <1>a, WaysAre DEF WhyAsk
    <3>7. Levels(R, s, d, L) /\ Levels(Reversed(R), t, d, B)
      BY <1>4, <1>a
    <3>8. t \in L[z + d] <=> \E n : n \in L[z] /\ n \in B[d]
      BY <3>5, <3>6, <3>7, MeetInTheMiddle
    <3> QED BY <3>1, <3>3, <3>4, <3>5, <3>8
  <2> QED BY <1>a, <2>3, WhyNone
<1>7. ASSUME NEW meet \in new \cap r.seenFwd, NEW g, NEW w, g = CHOOSE h : FrontPath(s, r.up, h),
             w = CHOOSE h : BackPath(t, all, h)
      PROVE  WhyExact(E, a, g[meet] \o w[meet])
  <2>1. meet \in L[f] /\ meet \in B[b + 1]
    BY <1>3, <1>5, <1>7 DEF Searched
  <2>2. Lineage(R, s, L, f, r.up) /\ Lineage(Q, t, B, b + 1, all)
    BY <1>3, <1>5 DEF Searched
  <2>3. PICK j \in 0..a.depth, c \in 0..a.depth : j = b + 1 /\ c = f + b
    BY <1>1, <1>2, <1>a
  <2>4. PICK mt, up, down : mt = meet /\ up = r.up /\ down = all
    OBVIOUS
  <2>5. /\ Lineage(Ways(E), a.src, Ahead(E, a), f, up)
        /\ Lineage(Reversed(Ways(E)), a.dst, Astern(E, a), j, down)
        /\ mt \in Ahead(E, a)[f] /\ mt \in Astern(E, a)[j]
        /\ g = CHOOSE h : FrontPath(a.src, up, h)
        /\ w = CHOOSE h : BackPath(a.dst, down, h)
    BY <1>7, <1>a, <2>1, <2>2, <2>3, <2>4
  <2>6. f + j = c + 1 /\ f + j <= a.depth /\ a.dst \notin Ahead(E, a)[c]
    BY <1>1, <1>2, <1>a, <2>3
  <2>7. WhyExact(E, a, g[mt] \o w[mt])
    BY <2>5, <2>6, WhyMeets, Zenon
  <2> QED BY <2>4, <2>7
<1>8. ASSUME new \cap r.seenFwd = {} PROVE WhyRun(E, a, WhyBack(r, new, all))
  <2>1. PICK q : q = WhyBack(r, new, all)
    OBVIOUS
  <2>2. r = [turn |-> r.turn, hops |-> r.hops, fwd |-> r.fwd, rev |-> r.rev,
             seenFwd |-> r.seenFwd, seenRev |-> r.seenRev, up |-> r.up, down |-> r.down]
    BY DEF WhyAt
  <2>3. q = [turn |-> "fwd", hops |-> r.hops + 1, fwd |-> r.fwd, rev |-> new,
             seenFwd |-> r.seenFwd, seenRev |-> r.seenRev \cup new, up |-> r.up, down |-> all]
    BY <2>1, <2>2, Zenon DEF WhyBack
  <2>4. /\ q.turn = "fwd" /\ q.hops = r.hops + 1 /\ q.fwd = r.fwd /\ q.rev = new
        /\ q.seenFwd = r.seenFwd /\ q.seenRev = r.seenRev \cup new /\ q.up = r.up /\ q.down = all
    BY <2>3
  <2>5. q = [turn |-> q.turn, hops |-> q.hops, fwd |-> q.fwd, rev |-> q.rev,
             seenFwd |-> q.seenFwd, seenRev |-> q.seenRev, up |-> q.up, down |-> q.down]
    BY <2>3, <2>4
  <2>6. /\ Searched(R, s, L, f, q.seenFwd, q.fwd, q.up)
        /\ Searched(Q, t, B, b + 1, q.seenRev, q.rev, q.down)
    BY <1>3, <1>5, <2>4
  <2>7. q.seenFwd \cap q.seenRev = {}
    BY <1>3, <1>8, <2>4
  <2>8. q.hops = f + (b + 1) /\ q.hops <= d /\ f = b + 1
    BY <1>1, <1>2, <2>4
  <2>9. WhyAt(E, a, q, f, b + 1)
    BY <1>1, <1>a, <2>4, <2>5, <2>6, <2>7, <2>8 DEF WhyAt
  <2>10. f \in 0..a.depth /\ b + 1 \in 0..a.depth
    BY <1>1, <1>2, <1>a
  <2> QED BY <2>1, <2>9, <2>10 DEF WhyRun
<1> QED BY <1>6, <1>7, <1>8, <1>a DEF Joins

LEMMA WhyGivesUp ==
  ASSUME NEW E, NEW a, WhyAsk(E, a), NEW r, WhyRun(E, a, r), a.src # a.dst, r.hops >= a.depth
  PROVE  WhyExact(E, a, <<>>)
<1>1. PICK f \in 0..a.depth, b \in 0..a.depth : WhyAt(E, a, r, f, b)
  BY DEF WhyRun
<1>2. /\ f + b = r.hops /\ r.hops <= a.depth /\ f + b \in 0..a.depth
      /\ a.dst \notin Ahead(E, a)[f + b]
  BY <1>1, WhyFacts
<1>3. f + b = a.depth
  BY <1>2 DEF WhyAsk
<1> QED BY <1>2, <1>3, WhyNone

LEMMA WhyHere ==
  ASSUME NEW E, NEW a, WhyAsk(E, a), a.src = a.dst
  PROVE  WhyExact(E, a, <<a.src>>)
<1>1. PICK z \in 0..a.depth : z = 0
  BY DEF WhyAsk
<1>2. Ahead(E, a)[0] = {a.src}
  BY AheadLevels DEF Levels
<1>3. AtDepth(Ahead(E, a), a.dst, z)
  BY <1>1, <1>2 DEF AtDepth
<1>4. IsWalk(Ways(E), <<a.src>>, a.src, a.dst, z)
  BY <1>1, NoWalk DEF WhyAsk
<1> QED BY <1>3, <1>4, WhyFound

\* The levels and links of the actions.
LEMMA LevelSets ==
  ASSUME NEW S, edges \subseteq Nodes \X Nodes \X Kinds
  PROVE  /\ UNION {After(n) : n \in S} = Onto(Ways(edges), S)
         /\ UNION {Before(n) : n \in S} = Onto(Reversed(Ways(edges)), S)
         /\ Links = Ways(edges)
<1> PICK R : R = Ways(edges)
  OBVIOUS
<1>1. /\ \A p \in R : p = <<p[1], p[2]>>
      /\ \A p \in Reversed(R) : p = <<p[1], p[2]>>
      /\ \A x, y : <<x, y>> \in R <=> \E e \in edges : e[1] = x /\ e[2] = y
  BY WaysAre
<1>2. ASSUME NEW n, NEW y PROVE y \in After(n) <=> <<n, y>> \in R
  BY <1>1 DEF After
<1>3. ASSUME NEW n, NEW y PROVE y \in Before(n) <=> <<n, y>> \in Reversed(R)
  <2>1. y \in Before(n) <=> <<y, n>> \in R
    BY <1>1 DEF Before
  <2>2. <<n, y>> \in Reversed(R) <=> <<y, n>> \in R
    BY <1>1, BackAndForth
  <2> QED BY <2>1, <2>2
<1>4. ASSUME NEW y PROVE y \in UNION {After(n) : n \in S} <=> y \in Onto(R, S)
  <2>1. y \in Onto(R, S) <=> \E n \in S : <<n, y>> \in R
    BY <1>1, OntoHas, Zenon
  <2> QED BY <1>2, <2>1, Zenon
<1>5. ASSUME NEW y PROVE y \in UNION {Before(n) : n \in S} <=> y \in Onto(Reversed(R), S)
  <2>1. PICK Q : Q = Reversed(R)
    OBVIOUS
  <2>2. y \in Onto(Q, S) <=> \E n \in S : <<n, y>> \in Q
    BY <1>1, <2>1, OntoHas, Zenon
  <2> QED BY <1>3, <2>1, <2>2, Zenon
<1>6. Links = Ways(edges)
  BY DEF Links, Ways
<1> QED BY <1>4, <1>5, <1>6

\* What is kept between two steps is what the walk, or the two searches, have met,
\* and an answer is exact.
PathsInv ==
  /\ ask.job = "walk" => WalkAsk(edges, ask)
  /\ ask.job = "why" => WhyAsk(edges, ask)
  /\ Running("walk") => WalkRun(edges, ask, run)
  /\ Running("why") => WhyRun(edges, ask, run)
  /\ PathsAreExact

LEMMA PathsInitially == GraphInit => PathsInv
<1> SUFFICES ASSUME GraphInit PROVE PathsInv
  OBVIOUS
<1>1. edges \in Graphs /\ ask \in Asks /\ run = Start(ask) /\ answer = NoAnswer
  BY DEF GraphInit
<1>2. ask.job = "walk" => WalkAsk(edges, ask)
  BY <1>1, GraphAssumption DEF WalkAsk
<1>3. ask.job = "why" => WhyAsk(edges, ask)
  BY <1>1, GraphAssumption DEF WhyAsk
<1>4. Running("walk") => WalkRun(edges, ask, run)
  BY <1>1, <1>2, WalkStarts DEF Running
<1>5. Running("why") => WhyRun(edges, ask, run)
  BY <1>1, <1>3, WhyStarts DEF Running
<1>6. PathsAreExact
  BY <1>1 DEF PathsAreExact, WalksAreExact, WhyIsShortest, Answered
<1> QED BY <1>2, <1>3, <1>4, <1>5, <1>6 DEF PathsInv

LEMMA PathsGoOn ==
  ASSUME PathsInv, NEW job, Running(job), NEW r, Continue(r),
         job = "walk" => WalkRun(edges, ask, r),
         job = "why" => WhyRun(edges, ask, r)
  PROVE  PathsInv'
<1>1. ask.job = job /\ answer = NoAnswer
  BY DEF Running
<1>2. edges' = edges /\ ask' = ask /\ answer' = answer /\ run' = r
  BY DEF Continue
<1>3. (ask.job = "walk" => WalkAsk(edges, ask))' /\ (ask.job = "why" => WhyAsk(edges, ask))'
  BY <1>2 DEF PathsInv
<1>4. PathsAreExact'
  BY <1>1, <1>2 DEF PathsAreExact, WalksAreExact, WhyIsShortest, Answered
<1>5. (Running("walk") => WalkRun(edges, ask, run))'
  BY <1>1, <1>2 DEF Running
<1>6. (Running("why") => WhyRun(edges, ask, run))'
  BY <1>1, <1>2 DEF Running
<1> QED BY <1>3, <1>4, <1>5, <1>6 DEF PathsInv

LEMMA PathsReturn ==
  ASSUME PathsInv, NEW job, Running(job), NEW v, Return(v),
         job = "walk" => WalkExact(edges, ask, v),
         job = "why" => WhyExact(edges, ask, v)
  PROVE  PathsInv'
<1>1. edges' = edges /\ ask' = ask /\ answer' = [found |-> TRUE, value |-> v] /\ ask.job = job
  BY DEF Return, Running
<1>2. answer' # NoAnswer /\ answer'.value = v
  BY <1>1 DEF NoAnswer
<1>3. (ask.job = "walk" => WalkAsk(edges, ask))' /\ (ask.job = "why" => WhyAsk(edges, ask))'
  BY <1>1 DEF PathsInv
<1>4. ~ Running("walk")' /\ ~ Running("why")'
  BY <1>2 DEF Running
<1>5. WalksAreExact'
  <2>1. CASE job = "walk"
    <3>1. WalkExact(edges, ask, v)
      BY <2>1
    <3> QED BY <1>1, <1>2, <3>1, Zenon DEF WalksAreExact, WalkExact, Flow, Answered
  <2>2. CASE job # "walk"
    BY <1>1, <2>2 DEF WalksAreExact, Answered
  <2> QED BY <2>1, <2>2
<1>6. WhyIsShortest'
  <2>1. CASE job = "why"
    <3>1. WhyExact(edges, ask, v)
      BY <2>1
    <3>2. edges \subseteq Nodes \X Nodes \X Kinds
      BY <1>1, <2>1 DEF PathsInv, WhyAsk
    <3>3. ASSUME NEW x, NEW y, <<x, y>> \in Ways(edges) PROVE y \in After(x)
      <4>1. PICK e \in edges : e[1] = x /\ e[2] = y
        BY <3>2, <3>3, WaysAre
      <4> QED BY <4>1 DEF After
    <3>4. PICK dist : dist = Distances(Pairs(edges, Kinds), {ask.src}, ask.depth)
      OBVIOUS
    <3>5. IF ask.dst \notin DOMAIN dist THEN v = <<>>
          ELSE /\ v # <<>> /\ v[1] = ask.src /\ Last(v) = ask.dst
               /\ Len(v) = dist[ask.dst] + 1
               /\ \A i \in 1..Len(v) - 1 : <<v[i], v[i + 1]>> \in Ways(edges)
      BY <3>1, <3>4 DEF WhyExact, Ways
    <3>6. IF ask.dst \notin DOMAIN dist THEN v = <<>>
          ELSE /\ v # <<>> /\ v[1] = ask.src /\ Last(v) = ask.dst
               /\ Len(v) = dist[ask.dst] + 1
               /\ \A i \in 1..Len(v) - 1 : v[i + 1] \in After(v[i])
      BY <3>3, <3>5, Zenon
    <3>7. \A x : After(x)' = After(x)
      BY <1>1 DEF After
    <3> QED BY <1>1, <1>2, <3>4, <3>6, <3>7 DEF WhyIsShortest, Answered
  <2>2. CASE job # "why"
    BY <1>1, <2>2 DEF WhyIsShortest, Answered
  <2> QED BY <2>1, <2>2
<1> QED BY <1>3, <1>4, <1>5, <1>6 DEF PathsInv, PathsAreExact

LEMMA WhyForwardKeeps == PathsInv /\ WhyForward => PathsInv'
<1> SUFFICES ASSUME PathsInv, WhyForward PROVE PathsInv'
  OBVIOUS
<1>1. /\ Running("why") /\ ask.src # ask.dst /\ run.turn = "fwd" /\ run.hops < ask.depth
  BY DEF WhyForward
<1>2. WhyAsk(edges, ask) /\ WhyRun(edges, ask, run) /\ edges \subseteq Nodes \X Nodes \X Kinds
  BY <1>1 DEF PathsInv, Running, WhyAsk
<1>3. PICK f \in 0..ask.depth, b \in 0..ask.depth : WhyAt(edges, ask, run, f, b)
  BY <1>2 DEF WhyRun
<1>4. PICK new : new = Onto(Ways(edges), run.fwd) \ run.seenFwd
  BY Zenon
<1>5. (UNION {After(n) : n \in run.fwd}) \ run.seenFwd = new /\ Links = Ways(edges)
  <2>1. PICK S : S = run.fwd
    OBVIOUS
  <2>2. UNION {After(n) : n \in S} = Onto(Ways(edges), S) /\ Links = Ways(edges)
    BY <1>2, LevelSets
  <2>3. PICK U : U = UNION {After(n) : n \in run.fwd}
    BY Zenon
  <2>4. U = Onto(Ways(edges), run.fwd)
    BY <2>1, <2>2, <2>3
  <2>5. U \ run.seenFwd = new
    BY <1>4, <2>4
  <2> QED BY <2>2, <2>3, <2>5
<1>6. PICK p \in Parents(new, run.fwd, Ways(edges)) :
        LET all == Joined(run.up, p) IN
        \/ new = {} /\ Return(<<>>)
        \/ \E meet \in new \cap run.seenRev : Return(FrontHalf(all, meet) \o BackHalf(run.down, meet))
        \/ /\ new # {} /\ new \cap run.seenRev = {}
           /\ Continue(WhyStep(run, new, all))
  BY <1>5, Zenon DEF WhyForward, WhyStep
<1>7. PICK all : all = Joined(run.up, p)
  OBVIOUS
<1>8. /\ new = {} => WhyExact(edges, ask, <<>>)
      /\ Joins(edges, ask, new \cap run.seenRev, all, run.down)
      /\ new \cap run.seenRev = {} => WhyRun(edges, ask, WhyStep(run, new, all))
  BY <1>1, <1>2, <1>3, <1>4, <1>7, ForwardStep, Zenon
<1>9. CASE new = {} /\ Return(<<>>)
  BY <1>1, <1>8, <1>9, PathsReturn
<1>10. ASSUME NEW meet \in new \cap run.seenRev, Return(FrontHalf(all, meet) \o BackHalf(run.down, meet))
       PROVE  PathsInv'
  <2>1. PICK g, w : g = (CHOOSE h : FrontPath(ask.src, all, h))
                    /\ w = (CHOOSE h : BackPath(ask.dst, run.down, h))
    OBVIOUS
  <2>2. WhyExact(edges, ask, g[meet] \o w[meet])
    BY <1>8, <2>1 DEF Joins
  <2>3. FrontHalf(all, meet) = g[meet] /\ BackHalf(run.down, meet) = w[meet]
    BY <2>1 DEF FrontHalf, BackHalf, FrontPath, BackPath
  <2>4. PICK v : v = g[meet] \o w[meet]
    BY Zenon
  <2>5. Return(v) /\ WhyExact(edges, ask, v)
    BY <1>10, <2>2, <2>3, <2>4
  <2> QED BY <1>1, <2>5, PathsReturn
<1>11. CASE new \cap run.seenRev = {} /\ Continue(WhyStep(run, new, all))
  BY <1>1, <1>8, <1>11, PathsGoOn
<1> QED BY <1>6, <1>7, <1>9, <1>10, <1>11

LEMMA WhyBackwardKeeps == PathsInv /\ WhyBackward => PathsInv'
<1> SUFFICES ASSUME PathsInv, WhyBackward PROVE PathsInv'
  OBVIOUS
<1>1. /\ Running("why") /\ run.turn = "rev" /\ run.hops < ask.depth
  BY DEF WhyBackward
<1>2. WhyAsk(edges, ask) /\ WhyRun(edges, ask, run) /\ edges \subseteq Nodes \X Nodes \X Kinds
  BY <1>1 DEF PathsInv, Running, WhyAsk
<1>3. PICK f \in 0..ask.depth, b \in 0..ask.depth : WhyAt(edges, ask, run, f, b)
  BY <1>2 DEF WhyRun
<1>4. PICK new : new = Onto(Reversed(Ways(edges)), run.rev) \ run.seenRev
  BY Zenon
<1>5. (UNION {Before(n) : n \in run.rev}) \ run.seenRev = new /\ Links = Ways(edges)
  <2>1. PICK S : S = run.rev
    OBVIOUS
  <2>2. UNION {Before(n) : n \in S} = Onto(Reversed(Ways(edges)), S) /\ Links = Ways(edges)
    BY <1>2, LevelSets
  <2>3. PICK U : U = UNION {Before(n) : n \in run.rev}
    BY Zenon
  <2>4. U = Onto(Reversed(Ways(edges)), run.rev)
    BY <2>1, <2>2, <2>3
  <2>5. U \ run.seenRev = new
    BY <1>4, <2>4
  <2> QED BY <2>2, <2>3, <2>5
<1>6. PICK p \in Parents(new, run.rev, Reversed(Ways(edges))) :
        LET all == Joined(run.down, p) IN
        \/ new = {} /\ Return(<<>>)
        \/ \E meet \in new \cap run.seenFwd : Return(FrontHalf(run.up, meet) \o BackHalf(all, meet))
        \/ /\ new # {} /\ new \cap run.seenFwd = {}
           /\ Continue(WhyBack(run, new, all))
  BY <1>5, Zenon DEF WhyBackward, WhyBack
<1>7. PICK all : all = Joined(run.down, p)
  OBVIOUS
<1>8. /\ new = {} => WhyExact(edges, ask, <<>>)
      /\ Joins(edges, ask, new \cap run.seenFwd, run.up, all)
      /\ new \cap run.seenFwd = {} => WhyRun(edges, ask, WhyBack(run, new, all))
  BY <1>1, <1>2, <1>3, <1>4, <1>7, BackwardStep, Zenon
<1>9. CASE new = {} /\ Return(<<>>)
  BY <1>1, <1>8, <1>9, PathsReturn
<1>10. ASSUME NEW meet \in new \cap run.seenFwd, Return(FrontHalf(run.up, meet) \o BackHalf(all, meet))
       PROVE  PathsInv'
  <2>1. PICK g, w : g = (CHOOSE h : FrontPath(ask.src, run.up, h))
                    /\ w = (CHOOSE h : BackPath(ask.dst, all, h))
    OBVIOUS
  <2>2. WhyExact(edges, ask, g[meet] \o w[meet])
    BY <1>8, <2>1 DEF Joins
  <2>3. FrontHalf(run.up, meet) = g[meet] /\ BackHalf(all, meet) = w[meet]
    BY <2>1 DEF FrontHalf, BackHalf, FrontPath, BackPath
  <2>4. PICK v : v = g[meet] \o w[meet]
    BY Zenon
  <2>5. Return(v) /\ WhyExact(edges, ask, v)
    BY <1>10, <2>2, <2>3, <2>4
  <2> QED BY <1>1, <2>5, PathsReturn
<1>11. CASE new \cap run.seenFwd = {} /\ Continue(WhyBack(run, new, all))
  BY <1>1, <1>8, <1>11, PathsGoOn
<1> QED BY <1>6, <1>7, <1>9, <1>10, <1>11

LEMMA WhyEndsExact == PathsInv /\ WhyEnds => PathsInv'
<1> SUFFICES ASSUME PathsInv, WhyEnds PROVE PathsInv'
  OBVIOUS
<1>1. Running("why") /\ WhyAsk(edges, ask) /\ WhyRun(edges, ask, run)
  BY DEF WhyEnds, PathsInv, Running
<1>2. CASE ask.src = ask.dst /\ Return(<<ask.src>>)
  <2>1. WhyExact(edges, ask, <<ask.src>>)
    BY <1>1, <1>2, WhyHere
  <2> QED BY <1>1, <1>2, <2>1, PathsReturn
<1>3. CASE ask.src # ask.dst /\ run.hops >= ask.depth /\ Return(<<>>)
  <2>1. WhyExact(edges, ask, <<>>)
    BY <1>1, <1>3, WhyGivesUp
  <2> QED BY <1>1, <1>3, <2>1, PathsReturn
<1> QED BY <1>2, <1>3 DEF WhyEnds

LEMMA PathsStep == PathsInv /\ [GraphNext]_graphVars => PathsInv'
<1> SUFFICES ASSUME PathsInv, [GraphNext]_graphVars PROVE PathsInv'
  OBVIOUS
<1>1. CASE UNCHANGED graphVars
  BY <1>1, Zenon DEF graphVars, PathsInv, PathsAreExact, WalksAreExact, WhyIsShortest, Running, Answered, After
<1>2. CASE bfs
  <2>1. Running("walk") /\ WalkAsk(edges, ask) /\ WalkRun(edges, ask, run)
    BY <1>2 DEF bfs, PathsInv, Running
  <2>2. run' = AfterVisit(edges, ask, run) /\ UNCHANGED <<edges, ask, answer>> /\ run.queue # <<>>
    BY <1>2, WalkVisits
  <2>3. WalkRun(edges, ask, AfterVisit(edges, ask, run))
    BY <2>1, <2>2, VisitKeeps
  <2>4. Continue(AfterVisit(edges, ask, run))
    BY <2>2 DEF Continue
  <2> QED BY <2>1, <2>3, <2>4, PathsGoOn
<1>3. CASE WalkEnds
  <2>1. /\ Running("walk") /\ WalkAsk(edges, ask) /\ WalkRun(edges, ask, run)
        /\ run.queue = <<>> /\ Return(run.out)
    BY <1>3 DEF WalkEnds, PathsInv, Running
  <2>2. WalkExact(edges, ask, run.out)
    BY <2>1, WalkDone
  <2> QED BY <2>1, <2>2, PathsReturn
<1>4. CASE NextRoot
  BY <1>4, PathsGoOn DEF NextRoot
<1>5. CASE Enter
  BY <1>5, PathsGoOn DEF Enter
<1>6. CASE NextChild
  BY <1>6, PathsGoOn DEF NextChild
<1>7. CASE Leave
  BY <1>7, PathsGoOn DEF Leave
<1>8. CASE CyclesEnd
  BY <1>8, PathsReturn DEF CyclesEnd
<1>9. CASE WhyForward
  BY <1>9, WhyForwardKeeps
<1>10. CASE WhyBackward
  BY <1>10, WhyBackwardKeeps
<1>11. CASE WhyEnds
  BY <1>11, WhyEndsExact
<1>12. CASE NextChanged
  BY <1>12, PathsGoOn DEF NextChanged
<1>13. CASE BlastRow
  BY <1>13, PathsGoOn DEF BlastRow
<1>14. CASE BlastEnds
  BY <1>14, PathsGoOn DEF BlastEnds
<1>15. CASE AffectedEnds
  BY <1>15, PathsReturn DEF AffectedEnds
<1>16. CASE Wave
  BY <1>16, PathsGoOn DEF Wave
<1>17. CASE ImportersEnd
  BY <1>17, PathsReturn DEF ImportersEnd
<1> QED BY <1>1, <1>2, <1>3, <1>4, <1>5, <1>6, <1>7, <1>8, <1>9, <1>10, <1>11, <1>12, <1>13, <1>14,
           <1>15, <1>16, <1>17 DEF GraphNext

-----------------------------------------------------------------------------
(* cycles: what can be reached at all, as the least closed sets.           *)

EdgeClosed(R, C) == \A x, y : <<x, y>> \in R /\ x \in C => y \in C
\* reach[n] is the least closed set n is in.
Reaching(R, reach) ==
  /\ R \subseteq Nodes \X Nodes
  /\ \A n \in Nodes : n \in reach[n] /\ reach[n] \subseteq Nodes /\ EdgeClosed(R, reach[n])
  /\ \A n \in Nodes : \A C \in SUBSET Nodes : n \in C /\ EdgeClosed(R, C) => reach[n] \subseteq C
Class(reach, n) == {m \in reach[n] : n \in reach[m]}

LEMMA OntoClosed ==
  ASSUME NEW R \in SUBSET (Nodes \X Nodes), NEW C
  PROVE  EdgeClosed(R, C) <=> Onto(R, C) \subseteq C
<1>1. \A p \in R : p = <<p[1], p[2]>>
  OBVIOUS
<1>2. \A y : y \in Onto(R, C) <=> \E x \in C : <<x, y>> \in R
  BY <1>1, OntoHas, Zenon
<1> QED BY <1>2, Zenon DEF EdgeClosed

LEMMA ReachIs ==
  ASSUME NEW R \in SUBSET (Nodes \X Nodes), NEW reach, reach = [n \in Nodes |-> Reached(R, n)]
  PROVE  Reaching(R, reach)
<1>1. PICK N : N = Cardinality(Nodes)
  OBVIOUS
<1>2. N \in Nat /\ IsFiniteSet(Nodes)
  BY <1>1, GraphAssumption, FS_CardinalityType
<1>3. ASSUME NEW n \in Nodes
      PROVE  /\ n \in reach[n] /\ reach[n] \subseteq Nodes /\ EdgeClosed(R, reach[n])
             /\ \A C \in SUBSET Nodes : n \in C /\ EdgeClosed(R, C) => reach[n] \subseteq C
  <2>1. PICK S, L : S = {n} /\ L = Level(R, S, N)
    BY Zenon
  <2>2. reach[n] = L[N]
    BY <1>1, <2>1 DEF Reached
  <2>3. L[0] = S /\ \A k \in 0..N : k < N => L[k + 1] = L[k] \cup Onto(R, L[k])
    BY <1>2, <2>1, LevelSteps
  <2>4. L[0] \subseteq L[N]
    BY <1>2, <2>1, LevelGrows
  <2>5. \A C \in SUBSET Nodes : n \in C /\ EdgeClosed(R, C) => \A k \in 0..N : L[k] \subseteq C
    <3>1. ASSUME NEW C \in SUBSET Nodes, n \in C, EdgeClosed(R, C), NEW k \in 0..N PROVE L[k] \subseteq C
      <4>1. S \subseteq C /\ Onto(R, C) \subseteq C
        BY <2>1, <3>1, OntoClosed
      <4> QED BY <1>2, <2>1, <4>1, LevelWithin
    <3> QED BY <3>1
  <2>6. EdgeClosed(R, Nodes)
    BY DEF EdgeClosed
  <2>7. \A k \in 0..N : L[k] \in SUBSET Nodes /\ IsFiniteSet(L[k])
    <3>1. \A k \in 0..N : L[k] \in SUBSET Nodes
      BY <2>5, <2>6
    <3> QED BY <1>2, <3>1, FS_Subset
  <2> DEFINE P == {k \in 0..N : Cardinality(L[k]) > k \/ \E j \in 0..k : Onto(R, L[j]) \subseteq L[j]}
  <2>8. 0 \in P
    <3>1. Cardinality(L[0]) = 1
      BY <2>1, <2>3, FS_Singleton, Zenon
    <3> QED BY <1>2, <3>1
  <2>9. ASSUME NEW k \in 0..N, k < N, k \in P PROVE k + 1 \in P
    <3>1. k + 1 \in 0..N
      BY <1>2, <2>9
    <3>2. CASE \E j \in 0..k : Onto(R, L[j]) \subseteq L[j]
      <4>1. 0..k \subseteq 0..(k + 1)
        BY <1>2
      <4> QED BY <3>1, <3>2, <4>1
    <3>3. CASE Cardinality(L[k]) > k
      <4>1. CASE Onto(R, L[k]) \subseteq L[k]
        <5>1. k \in 0..(k + 1)
          BY <1>2
        <5> QED BY <3>1, <4>1, <5>1
      <4>2. CASE ~(Onto(R, L[k]) \subseteq L[k])
        <5>1. L[k] \in SUBSET L[k + 1] /\ L[k] # L[k + 1]
          BY <2>3, <2>9, <4>2
        <5>2. Cardinality(L[k]) <= Cardinality(L[k + 1]) /\ Cardinality(L[k]) # Cardinality(L[k + 1])
          BY <2>7, <3>1, <5>1, FS_Subset
        <5>3. Cardinality(L[k]) \in Nat /\ Cardinality(L[k + 1]) \in Nat
          BY <2>7, <3>1, FS_CardinalityType
        <5>4. Cardinality(L[k + 1]) > k + 1
          BY <3>3, <5>2, <5>3
        <5> QED BY <3>1, <5>4
      <4> QED BY <4>1, <4>2
    <3> QED BY <2>9, <3>2, <3>3
  <2>10. 0..N \subseteq P
    <3> HIDE DEF P
    <3> QED BY <1>2, <2>8, <2>9, Climbing
  <2>11. N \in P /\ N \in 0..N
    BY <1>2, <2>10
  <2>12. PICK j \in 0..N : Onto(R, L[j]) \subseteq L[j]
    <3>1. Cardinality(L[N]) <= N
      BY <1>1, <1>2, <2>7, <2>11, FS_Subset
    <3>2. Cardinality(L[N]) \in Nat
      BY <2>7, <2>11, FS_CardinalityType
    <3>3. ~(Cardinality(L[N]) > N)
      BY <1>2, <3>1, <3>2
    <3> QED BY <2>11, <3>3
  <2>13. L[N] = L[j]
    <3>1. j <= N
      BY <1>2
    <3>2. Onto(R, Level(R, S, N)[j]) \subseteq Level(R, S, N)[j]
      BY <2>1, <2>12
    <3>3. Level(R, S, N)[N] = Level(R, S, N)[j]
      BY ONLY <1>2, <2>11, <3>1, <3>2, j \in 0..N, LevelClosed
    <3> QED BY <2>1, <3>3
  <2>14. EdgeClosed(R, L[N])
    BY <2>12, <2>13, OntoClosed
  <2> QED BY <2>1, <2>2, <2>3, <2>4, <2>5, <2>7, <2>11, <2>14, Zenon
<1> QED BY <1>3 DEF Reaching

LEMMA ReachGoesOn ==
  ASSUME NEW R, NEW reach, Reaching(R, reach), NEW x \in Nodes
  PROVE  /\ x \in reach[x] /\ reach[x] \subseteq Nodes
         /\ \A y, z : y \in reach[x] /\ z \in reach[y] => z \in reach[x]
         /\ \A y, z : y \in reach[x] /\ <<y, z>> \in R => z \in reach[x]
         /\ \A y : <<x, y>> \in R => y \in reach[x]
<1>1. x \in reach[x] /\ reach[x] \subseteq Nodes /\ EdgeClosed(R, reach[x])
  BY DEF Reaching
<1>2. ASSUME NEW y \in reach[x] PROVE reach[y] \subseteq reach[x]
  <2>1. y \in Nodes /\ reach[x] \in SUBSET Nodes
    BY <1>1
  <2> QED BY <1>1, <1>2, <2>1 DEF Reaching
<1> QED BY <1>1, <1>2 DEF EdgeClosed

LEMMA ClassIs ==
  ASSUME NEW R, NEW reach, Reaching(R, reach), NEW x \in Nodes, NEW y
  PROVE  /\ x \in Class(reach, x) /\ Class(reach, x) \subseteq Nodes
         /\ y \in Class(reach, x) => Class(reach, y) = Class(reach, x)
<1>1. x \in Class(reach, x) /\ Class(reach, x) \subseteq Nodes
  BY ReachGoesOn DEF Class
<1>2. ASSUME y \in Class(reach, x) PROVE Class(reach, y) = Class(reach, x)
  <2>1. y \in Nodes /\ y \in reach[x] /\ x \in reach[y]
    BY <1>1, <1>2 DEF Class
  <2>2. ASSUME NEW m PROVE m \in Class(reach, y) <=> m \in Class(reach, x)
    <3>1. \A u \in Nodes : \A v, w : v \in reach[u] /\ w \in reach[v] => w \in reach[u]
      BY ReachGoesOn
    <3>2. (m \in reach[x] \/ m \in reach[y]) => m \in Nodes
      BY <2>1, ReachGoesOn
    <3> QED BY <2>1, <3>1, <3>2 DEF Class
  <2> QED BY <2>2 DEF Class
<1> QED BY <1>1, <1>2

-----------------------------------------------------------------------------
(* cycles: what holds between two iterations, of the frames F, the numbers  *)
(* ix and lo, the set O of the open nodes and the components C.             *)

Entered(F) == {i \in 1..Len(F) : F[i].entered}
\* An edge that no entered frame has still to look at.
Looked(R, F, x, y) ==
  <<x, y>> \in R /\ \A i \in Entered(F) : F[i].node = x => y \notin ToSet(F[i].todo)
\* x is open since the i-th frame was entered, and before the next one was.
Above(F, ix, i, x) ==
  /\ ix[F[i].node] <= ix[x]
  /\ \A j \in Entered(F) : i < j => ix[x] < ix[F[j].node]

Kinded(F, ix, lo, O) ==
  /\ Len(F) \in Nat /\ \A i \in 1..Len(F) : F[i].node \in Nodes /\ F[i].entered \in BOOLEAN
  /\ DOMAIN ix \subseteq Nodes /\ DOMAIN lo = DOMAIN ix /\ O \subseteq DOMAIN ix
  /\ \A x \in DOMAIN ix : ix[x] \in Nat /\ lo[x] \in Nat
Nested(R, F, ix, O) ==
  /\ \A i \in 1..Len(F) : ~F[i].entered => i = Len(F) /\ F[i].node \notin DOMAIN ix
  /\ \A i \in Entered(F) : F[i].node \in O /\ \A y \in ToSet(F[i].todo) : <<F[i].node, y>> \in R
  /\ \A i, j \in Entered(F) : i < j => ix[F[i].node] < ix[F[j].node]
  /\ \A i \in 1..Len(F) : i < Len(F) => <<F[i].node, F[i + 1].node>> \in R
Numbered(ix) ==
  /\ \A x, y \in DOMAIN ix : ix[x] = ix[y] => x = y
  /\ \A x \in DOMAIN ix : ix[x] < Cardinality(DOMAIN ix)
Followed(R, F, ix) ==
  \A x \in DOMAIN ix : \A y : Looked(R, F, x, y) =>
    y \in DOMAIN ix \/ \E i \in 1..Len(F) : ~F[i].entered /\ y = F[i].node
\* An entered frame reaches what was opened since; what is open reaches a frame
\* that was entered before.
Down(reach, F, ix, O) ==
  \A i \in Entered(F) : \A x \in O : ix[F[i].node] <= ix[x] => x \in reach[F[i].node]
Up(reach, F, ix, O) ==
  \A x \in O : \E i \in Entered(F) : ix[F[i].node] <= ix[x] /\ F[i].node \in reach[x]
\* low is the number of an open node that is reached, and no greater than those one
\* looked-at edge leads to.
LowReached(reach, ix, lo, O) ==
  \A x \in O : lo[x] <= ix[x] /\ \E y \in O : ix[y] = lo[x] /\ y \in reach[x]
LowLeast(R, F, ix, lo, O) ==
  \A i \in Entered(F) : \A x \in O : Above(F, ix, i, x) =>
    \A y \in O : Looked(R, F, x, y) => lo[F[i].node] <= ix[y]
Finished(R, reach, ix, O, C) ==
  /\ C = {Class(reach, n) : n \in DOMAIN ix \ O}
  /\ EdgeClosed(R, DOMAIN ix \ O)

Tarjan(R, reach, F, ix, lo, O, C) ==
  /\ Kinded(F, ix, lo, O) /\ Nested(R, F, ix, O) /\ Numbered(ix) /\ Followed(R, F, ix)
  /\ Down(reach, F, ix, O) /\ Up(reach, F, ix, O)
  /\ LowReached(reach, ix, lo, O) /\ LowLeast(R, F, ix, lo, O) /\ Finished(R, reach, ix, O, C)

LEMMA TarjanStarts ==
  ASSUME NEW R, NEW reach, NEW ix, DOMAIN ix = {}, NEW lo, DOMAIN lo = {}
  PROVE  Tarjan(R, reach, <<>>, ix, lo, {}, {})
<1>1. Len(<<>>) = 0 /\ 1..0 = {} /\ Entered(<<>>) = {}
  BY DEF Entered
<1>2. Kinded(<<>>, ix, lo, {}) /\ Nested(R, <<>>, ix, {}) /\ Numbered(ix) /\ Followed(R, <<>>, ix)
  BY <1>1 DEF Kinded, Nested, Numbered, Followed
<1>3. /\ Down(reach, <<>>, ix, {}) /\ Up(reach, <<>>, ix, {})
      /\ LowReached(reach, ix, lo, {}) /\ LowLeast(R, <<>>, ix, lo, {})
  BY <1>1 DEF Down, Up, LowReached, LowLeast
<1>4. Finished(R, reach, ix, {}, {})
  BY DEF Finished, EdgeClosed
<1> QED BY <1>2, <1>3, <1>4 DEF Tarjan

\* Without an entered frame nothing is open.
LEMMA NothingOpen ==
  ASSUME NEW R, NEW reach, NEW F, NEW ix, NEW lo, NEW O, NEW C, Tarjan(R, reach, F, ix, lo, O, C),
         Len(F) = 0
  PROVE  O = {}
<1>1. Entered(F) = {}
  BY DEF Entered
<1> QED BY <1>1 DEF Tarjan, Up

-----------------------------------------------------------------------------
(* A root.                                                                 *)

LEMMA RootKeeps ==
  ASSUME NEW R, NEW reach, NEW F, NEW ix, NEW lo, NEW O, NEW C, Tarjan(R, reach, F, ix, lo, O, C),
         Len(F) = 0, NEW G, Len(G) = 1, ~G[1].entered, G[1].entered \in BOOLEAN,
         G[1].node \in Nodes, G[1].node \notin DOMAIN ix
  PROVE  Tarjan(R, reach, G, ix, lo, O, C)
<1>1. 1..1 = {1} /\ 1..0 = {}
  OBVIOUS
<1>2. Entered(F) = {} /\ Entered(G) = {} /\ O = {}
  BY <1>1, NothingOpen DEF Entered
<1>3. Kinded(G, ix, lo, O)
  BY <1>1 DEF Tarjan, Kinded
<1>4. Nested(R, G, ix, O)
  BY <1>1, <1>2 DEF Nested
<1>5. Followed(R, G, ix)
  <2>1. \A x, y : Looked(R, G, x, y) => Looked(R, F, x, y)
    BY <1>2 DEF Looked
  <2> QED BY <1>1, <2>1 DEF Tarjan, Followed
<1>6. /\ Down(reach, G, ix, O) /\ Up(reach, G, ix, O)
      /\ LowReached(reach, ix, lo, O) /\ LowLeast(R, G, ix, lo, O)
  BY <1>2 DEF Down, Up, LowReached, LowLeast
<1> QED BY <1>3, <1>4, <1>5, <1>6 DEF Tarjan

-----------------------------------------------------------------------------
(* A node is numbered.                                                     *)

\* The last frame of F is entered in G, as number k.
Entering(R, F, G, ix, jx, lo, mo, k) ==
  LET m == Len(F)  n == F[Len(F)].node IN
  /\ m \in 1..Len(F) /\ ~F[m].entered /\ Len(G) = m
  /\ \A i \in 1..m : i # m => G[i] = F[i]
  /\ G[m].node = n /\ G[m].entered = TRUE
  /\ \A y : y \in ToSet(G[m].todo) <=> <<n, y>> \in R
  /\ k = Cardinality(DOMAIN ix)
  /\ jx = [x \in DOMAIN ix \cup {n} |-> IF x = n THEN k ELSE ix[x]]
  /\ mo = [x \in DOMAIN lo \cup {n} |-> IF x = n THEN k ELSE lo[x]]

LEMMA EnterKeeps ==
  ASSUME NEW R, NEW reach, Reaching(R, reach),
         NEW F, NEW ix, NEW lo, NEW O, NEW C, Tarjan(R, reach, F, ix, lo, O, C),
         NEW G, NEW jx, NEW mo, NEW k, Entering(R, F, G, ix, jx, lo, mo, k),
         NEW P, P = O \cup {F[Len(F)].node}
  PROVE  Tarjan(R, reach, G, jx, mo, P, C)
<1>1. PICK m, n, V : m = Len(F) /\ n = F[m].node /\ V = DOMAIN ix
  OBVIOUS
<1>2. /\ m \in 1..m /\ ~F[m].entered /\ Len(G) = m /\ Len(F) = m
      /\ \A i \in 1..m : i # m => G[i] = F[i]
      /\ G[m].node = n /\ G[m].entered = TRUE
      /\ \A y : y \in ToSet(G[m].todo) <=> <<n, y>> \in R
      /\ k = Cardinality(V)
      /\ jx = [x \in V \cup {n} |-> IF x = n THEN k ELSE ix[x]]
      /\ mo = [x \in V \cup {n} |-> IF x = n THEN k ELSE lo[x]]
      /\ P = O \cup {n}
  BY <1>1 DEF Entering, Tarjan, Kinded
<1>3. /\ m \in Nat /\ \A i \in 1..m : F[i].node \in Nodes /\ F[i].entered \in BOOLEAN
      /\ V \subseteq Nodes /\ DOMAIN lo = V /\ O \subseteq V
      /\ \A x \in V : ix[x] \in Nat /\ lo[x] \in Nat
  BY <1>1 DEF Tarjan, Kinded
<1>4. /\ \A i \in 1..m : ~F[i].entered => i = m /\ F[i].node \notin V
      /\ \A i \in Entered(F) : F[i].node \in O /\ \A y \in ToSet(F[i].todo) : <<F[i].node, y>> \in R
      /\ \A i, j \in Entered(F) : i < j => ix[F[i].node] < ix[F[j].node]
      /\ \A i \in 1..m : i < m => <<F[i].node, F[i + 1].node>> \in R
  BY <1>1 DEF Tarjan, Nested
<1>5. n \in Nodes /\ n \notin V /\ n \notin O
  BY <1>1, <1>2, <1>3, <1>4
<1>6. IsFiniteSet(V) /\ k \in Nat /\ Cardinality(V \cup {n}) = k + 1
  <2>1. IsFiniteSet(V)
    BY <1>3, GraphAssumption, FS_Subset, Zenon
  <2>2. Cardinality(V \cup {n}) = Cardinality(V) + 1
    BY <1>5, <2>1, FS_AddElement, Zenon
  <2> QED BY <1>2, <2>1, <2>2, FS_CardinalityType
<1>7. /\ DOMAIN jx = V \cup {n} /\ jx[n] = k /\ mo[n] = k /\ DOMAIN mo = V \cup {n}
      /\ \A x \in V : jx[x] = ix[x] /\ mo[x] = lo[x] /\ x # n
  BY <1>2, <1>5
<1>8. /\ \A i \in Entered(F) : i \in 1..m /\ i # m /\ i < m /\ F[i].node \in O /\ F[i].node \in V /\ F[i].node # n
      /\ \A i : i \in Entered(G) <=> i \in Entered(F) \/ i = m
      /\ \A i \in Entered(F) : G[i] = F[i]
  <2>1. ASSUME NEW i \in Entered(F)
        PROVE  i \in 1..m /\ i # m /\ i < m /\ F[i].node \in O /\ F[i].node \in V /\ F[i].node # n /\ G[i] = F[i]
    <3>1. i \in 1..m /\ F[i].entered
      BY <1>2, <2>1 DEF Entered
    <3>2. i # m /\ i < m
      BY <1>2, <1>3, <3>1
    <3> QED BY <1>2, <1>3, <1>4, <1>5, <2>1, <3>1, <3>2
  <2>2. ASSUME NEW i \in 1..m, i # m PROVE G[i].entered = F[i].entered
    BY <1>2, <2>2
  <2>3. \A i : i \in Entered(G) <=> i \in Entered(F) \/ i = m
    BY <1>2, <2>1, <2>2 DEF Entered
  <2> QED BY <2>1, <2>3
<1>9. \A x \in V : ix[x] < k
  BY <1>1, <1>2 DEF Tarjan, Numbered
<1>10. \A x, y : Looked(R, G, x, y) => Looked(R, F, x, y) /\ x # n
  BY <1>2, <1>8 DEF Looked
<1>11. Kinded(G, jx, mo, P)
  <2>1. \A i \in 1..m : G[i].node \in Nodes /\ G[i].entered \in BOOLEAN
    BY <1>2, <1>3, <1>5, Zenon
  <2> QED BY <1>2, <1>3, <1>5, <1>6, <1>7, <2>1 DEF Kinded
<1>12. Nested(R, G, jx, P)
  <2>1. \A i \in 1..m : ~G[i].entered => i = m /\ G[i].node \notin DOMAIN jx
    BY <1>2, <1>4
  <2>2. \A i \in Entered(G) : G[i].node \in P /\ \A y \in ToSet(G[i].todo) : <<G[i].node, y>> \in R
    BY <1>2, <1>4, <1>8
  <2>3. ASSUME NEW i \in Entered(G), NEW j \in Entered(G), i < j PROVE jx[G[i].node] < jx[G[j].node]
    <3>1. i \in Entered(F)
      BY <1>3, <1>8, <2>3
    <3>2. CASE j = m
      BY <1>2, <1>7, <1>8, <1>9, <3>1, <3>2
    <3>3. CASE j # m
      BY <1>4, <1>7, <1>8, <2>3, <3>1, <3>3
    <3> QED BY <3>2, <3>3
  <2>4. ASSUME NEW i \in 1..m, i < m PROVE <<G[i].node, G[i + 1].node>> \in R
    <3>1. i + 1 \in 1..m /\ i # m
      BY <1>3, <2>4
    <3>2. G[i + 1].node = F[i + 1].node
      BY <1>1, <1>2, <3>1
    <3> QED BY <1>2, <1>4, <2>4, <3>1, <3>2
  <2> QED BY <1>2, <2>1, <2>2, <2>3, <2>4, Zenon DEF Nested
<1>13. Numbered(jx)
  <2>1. \A x, y \in V : ix[x] = ix[y] => x = y
    BY <1>1 DEF Tarjan, Numbered
  <2>2. \A x \in V : ix[x] # k /\ ix[x] < k + 1 /\ k < k + 1
    BY <1>3, <1>6, <1>9
  <2>3. k < k + 1
    BY <1>6
  <2> QED BY <1>6, <1>7, <2>1, <2>2, <2>3 DEF Numbered
<1>14. Followed(R, G, jx)
  <2>1. ASSUME NEW x \in V \cup {n}, NEW y, Looked(R, G, x, y) PROVE y \in V \cup {n}
    <3>1. x \in V /\ Looked(R, F, x, y)
      BY <1>10, <2>1
    <3>2. y \in V \/ \E i \in 1..m : ~F[i].entered /\ y = F[i].node
      BY <1>1, <3>1 DEF Tarjan, Followed
    <3> QED BY <1>1, <1>4, <3>2
  <2> QED BY <1>7, <2>1 DEF Followed
<1>15. Down(reach, G, jx, P)
  <2>1. ASSUME NEW i \in Entered(G), NEW x \in P, jx[G[i].node] <= jx[x] PROVE x \in reach[G[i].node]
    <3>1. CASE i = m
      <4>1. x = n
        <5>1. ASSUME x \in O PROVE FALSE
          <6>1. x \in V /\ jx[x] = ix[x] /\ ix[x] < k /\ ix[x] \in Nat
            BY <1>3, <1>7, <1>9, <5>1
          <6>2. k <= ix[x]
            BY <1>2, <1>7, <2>1, <3>1, <6>1
          <6> QED BY <1>6, <6>1, <6>2
        <5> QED BY <1>2, <5>1
      <4> QED BY <1>2, <1>5, <3>1, <4>1, ReachGoesOn
    <3>2. CASE i # m
      <4>1. i \in Entered(F) /\ G[i] = F[i]
        BY <1>8, <3>2
      <4>2. CASE x = n
        <5>1. PICK j : j = m - 1
          OBVIOUS
        <5>2. j \in 1..m /\ j < m /\ j + 1 = m /\ j # m /\ i <= j
          BY <1>3, <1>8, <4>1, <5>1
        <5>3. j \in Entered(F)
          BY <1>2, <1>4, <5>2 DEF Entered
        <5>4. ix[F[i].node] <= ix[F[j].node]
          <6>1. CASE i = j
            BY <1>3, <1>8, <5>3, <6>1
          <6>2. CASE i # j
            <7>1. i \in Nat /\ j \in Nat /\ i < j
              BY <1>3, <1>8, <4>1, <5>2, <6>2
            <7> QED BY <1>3, <1>4, <1>8, <4>1, <5>3, <7>1
          <6> QED BY <6>1, <6>2
        <5>5. F[j].node \in reach[F[i].node]
          BY <1>1, <1>8, <4>1, <5>3, <5>4 DEF Tarjan, Down
        <5>6. <<F[j].node, n>> \in R
          BY <1>1, <1>4, <5>2
        <5>7. F[i].node \in Nodes
          BY <1>3, <1>8, <4>1
        <5> QED BY <4>1, <4>2, <5>5, <5>6, <5>7, ReachGoesOn
      <4>3. CASE x # n
        <5>1. x \in O /\ x \in V /\ jx[x] = ix[x] /\ jx[G[i].node] = ix[F[i].node]
          BY <1>2, <1>3, <1>7, <1>8, <4>1, <4>3
        <5> QED BY <2>1, <4>1, <5>1 DEF Tarjan, Down
      <4> QED BY <4>2, <4>3
    <3> QED BY <3>1, <3>2
  <2> QED BY <2>1 DEF Down
<1>16. Up(reach, G, jx, P)
  <2>1. ASSUME NEW x \in P PROVE \E i \in Entered(G) : jx[G[i].node] <= jx[x] /\ G[i].node \in reach[x]
    <3>1. CASE x = n
      <4>1. m \in Entered(G) /\ G[m].node = n /\ jx[n] <= jx[n] /\ n \in reach[n]
        BY <1>2, <1>5, <1>6, <1>7, <1>8, ReachGoesOn
      <4> QED BY <3>1, <4>1
    <3>2. CASE x # n
      <4>1. x \in O /\ x \in V
        BY <1>2, <1>3, <3>2
      <4>2. PICK i \in Entered(F) : ix[F[i].node] <= ix[x] /\ F[i].node \in reach[x]
        BY <4>1 DEF Tarjan, Up
      <4> QED BY <1>7, <1>8, <4>1, <4>2
    <3> QED BY <3>1, <3>2
  <2> QED BY <2>1 DEF Up
<1>17. LowReached(reach, jx, mo, P)
  <2>1. ASSUME NEW x \in P PROVE mo[x] <= jx[x] /\ \E y \in P : jx[y] = mo[x] /\ y \in reach[x]
    <3>1. CASE x = n
      <4>1. n \in reach[n]
        BY <1>5, ReachGoesOn
      <4> QED BY <1>2, <1>6, <1>7, <3>1, <4>1
    <3>2. CASE x # n
      <4>1. x \in O /\ x \in V
        BY <1>2, <1>3, <3>2
      <4>2. lo[x] <= ix[x] /\ \E y \in O : ix[y] = lo[x] /\ y \in reach[x]
        BY <4>1 DEF Tarjan, LowReached
      <4> QED BY <1>2, <1>3, <1>7, <4>1, <4>2
    <3> QED BY <3>1, <3>2
  <2> QED BY <2>1 DEF LowReached
<1>18. LowLeast(R, G, jx, mo, P)
  <2>1. ASSUME NEW i \in Entered(G), NEW x \in P, Above(G, jx, i, x), NEW y \in P, Looked(R, G, x, y)
        PROVE  mo[G[i].node] <= jx[y]
    <3>1. x # n /\ Looked(R, F, x, y) /\ x \in O /\ x \in V
      BY <1>2, <1>3, <1>10, <2>1
    <3>2. i # m
      <4>1. ASSUME i = m PROVE FALSE
        <5>1. k <= ix[x]
          BY <1>2, <1>7, <2>1, <3>1, <4>1 DEF Above
        <5> QED BY <1>3, <1>6, <1>9, <3>1, <5>1
      <4> QED BY <4>1
    <3>3. i \in Entered(F) /\ G[i] = F[i] /\ F[i].node \in O /\ F[i].node \in V
      BY <1>8, <3>2
    <3>4. Above(F, ix, i, x)
      BY <1>7, <1>8, <2>1, <3>1, <3>3 DEF Above
    <3>5. CASE y = n
      <4>1. lo[F[i].node] <= ix[F[i].node] /\ ix[F[i].node] < k
        BY <1>9, <3>3 DEF Tarjan, LowReached
      <4> QED BY <1>3, <1>6, <1>7, <3>3, <3>5, <4>1
    <3>6. CASE y # n
      <4>1. y \in O /\ y \in V
        BY <1>2, <1>3, <3>6
      <4>2. lo[F[i].node] <= ix[y]
        BY <3>1, <3>3, <3>4, <4>1 DEF Tarjan, LowLeast
      <4> QED BY <1>7, <3>3, <4>1, <4>2
    <3> QED BY <3>5, <3>6
  <2> QED BY <2>1 DEF LowLeast
<1>19. Finished(R, reach, jx, P, C)
  <2>1. DOMAIN jx \ P = V \ O
    BY <1>2, <1>5, <1>7
  <2> QED BY <1>1, <2>1, Zenon DEF Tarjan, Finished
<1> QED BY <1>11, <1>12, <1>13, <1>14, <1>15, <1>16, <1>17, <1>18, <1>19 DEF Tarjan

-----------------------------------------------------------------------------
(* A child is looked at.                                                   *)

Lowers(lo, mo, n, c) ==
  /\ DOMAIN mo = DOMAIN lo /\ \A x \in DOMAIN lo : x # n => mo[x] = lo[x]
  /\ mo[n] <= lo[n] /\ mo[n] <= lo[c] /\ mo[n] \in {lo[n], lo[c]}

LEMMA LoweredIs ==
  ASSUME NEW lo, \A x \in DOMAIN lo : lo[x] \in Nat, lo = [x \in DOMAIN lo |-> lo[x]],
         NEW n \in DOMAIN lo, NEW c \in DOMAIN lo, NEW mo, mo = Lowered(lo, n, c)
  PROVE  Lowers(lo, mo, n, c)
<1>1. PICK v : v = Least({lo[n], lo[c]})
  OBVIOUS
<1>2. v \in {lo[n], lo[c]} /\ v <= lo[n] /\ v <= lo[c]
  BY <1>1, LeastExists
<1>3. mo = [lo EXCEPT ![n] = v]
  BY <1>1 DEF Lowered
<1> QED BY <1>2, <1>3 DEF Lowers

\* G looks at the child c of the last frame of F, and may have a frame more.
Advancing(F, G, c) ==
  LET m == Len(F) IN
  /\ m \in 1..Len(F) /\ F[m].entered /\ Len(G) \in {m, m + 1}
  /\ \A i \in 1..m : i # m => G[i] = F[i]
  /\ G[m].node = F[m].node /\ G[m].entered = TRUE
  /\ ToSet(F[m].todo) = {c} \cup ToSet(G[m].todo)
  /\ Len(G) = m + 1 => G[m + 1].node = c /\ G[m + 1].entered = FALSE

\* What a child changes in either case.
Advanced(R, F, G, c, n) ==
  /\ Entered(G) = Entered(F) /\ \A i \in Entered(F) : G[i].node = F[i].node /\ i <= Len(F)
  /\ n = F[Len(F)].node /\ <<n, c>> \in R
  /\ \A i \in Entered(F) : ToSet(G[i].todo) \subseteq ToSet(F[i].todo)
  /\ \A x, y : Looked(R, G, x, y) => Looked(R, F, x, y) \/ (x = n /\ y = c)

LEMMA AdvancingIs ==
  ASSUME NEW R, NEW F, NEW ix, NEW lo, NEW O, Kinded(F, ix, lo, O), Nested(R, F, ix, O),
         NEW G, NEW c, Advancing(F, G, c)
  PROVE  Advanced(R, F, G, c, F[Len(F)].node)
<1>1. PICK m, n : m = Len(F) /\ n = F[m].node
  BY Zenon
<1>2. /\ m \in 1..m /\ F[m].entered /\ Len(G) \in {m, m + 1} /\ Len(F) = m /\ m \in Nat
      /\ \A i \in 1..m : i # m => G[i] = F[i]
      /\ G[m].node = n /\ G[m].entered = TRUE
      /\ ToSet(F[m].todo) = {c} \cup ToSet(G[m].todo)
      /\ Len(G) = m + 1 => G[m + 1].node = c /\ G[m + 1].entered = FALSE
  BY <1>1 DEF Advancing, Kinded
<1>3. m \in Entered(F)
  BY <1>2 DEF Entered
<1>4. ASSUME NEW i PROVE i \in Entered(G) <=> i \in Entered(F)
  <2>1. i \in 1..Len(G) <=> i \in 1..m \/ (i = m + 1 /\ Len(G) = m + 1)
    BY <1>2
  <2>2. \A j \in 1..m : G[j].entered <=> F[j].entered
    BY <1>2
  <2> QED BY <1>2, <2>1, <2>2 DEF Entered
<1>5. <<n, c>> \in R
  BY <1>1, <1>2, <1>3 DEF Nested
<1>6. ASSUME NEW i \in Entered(F)
      PROVE  i \in 1..m /\ G[i].node = F[i].node /\ ToSet(G[i].todo) \subseteq ToSet(F[i].todo)
  <2>1. i \in 1..m
    BY <1>2 DEF Entered
  <2> QED BY <1>1, <1>2, <2>1
<1>7. ASSUME NEW x, NEW y, Looked(R, G, x, y), ~(x = n /\ y = c) PROVE Looked(R, F, x, y)
  <2>1. ASSUME NEW i \in Entered(F), F[i].node = x PROVE y \notin ToSet(F[i].todo)
    <3>1. i \in Entered(G) /\ G[i].node = x /\ i \in 1..m
      BY <1>4, <1>6, <2>1
    <3>2. y \notin ToSet(G[i].todo)
      BY <1>7, <3>1 DEF Looked
    <3>3. CASE i = m
      BY <1>1, <1>2, <1>7, <2>1, <3>2, <3>3
    <3>4. CASE i # m
      BY <1>2, <3>1, <3>2, <3>4
    <3> QED BY <3>3, <3>4
  <2> QED BY <1>7, <2>1 DEF Looked
<1>8. Entered(G) = Entered(F)
  BY <1>4 DEF Entered
<1>9. \A i \in Entered(F) : i <= Len(F)
  BY <1>1, <1>2, <1>6
<1> QED BY <1>1, <1>5, <1>6, <1>7, <1>8, <1>9 DEF Advanced

LEMMA ChildKeeps ==
  ASSUME NEW R, NEW reach, Reaching(R, reach),
         NEW F, NEW ix, NEW lo, NEW O, NEW C, Tarjan(R, reach, F, ix, lo, O, C),
         NEW G, NEW c, Advancing(F, G, c), NEW mo,
         \/ c \in O /\ Len(G) = Len(F) /\ Lowers(lo, mo, F[Len(F)].node, c)
         \/ c \in DOMAIN ix \ O /\ Len(G) = Len(F) /\ mo = lo
         \/ c \in Nodes \ DOMAIN ix /\ Len(G) = Len(F) + 1 /\ mo = lo
  PROVE  Tarjan(R, reach, G, ix, mo, O, C)
<1>1. PICK m, n, V : m = Len(F) /\ n = F[m].node /\ V = DOMAIN ix
  BY Zenon
<1>2. /\ m \in 1..m /\ F[m].entered /\ Len(G) \in {m, m + 1} /\ Len(F) = m /\ m \in Nat
      /\ \A i \in 1..m : i # m => G[i] = F[i]
      /\ G[m].node = n /\ G[m].entered = TRUE
      /\ Len(G) = m + 1 => G[m + 1].node = c /\ G[m + 1].entered = FALSE
  BY <1>1 DEF Advancing, Tarjan, Kinded
<1>3. /\ \A i \in 1..m : F[i].node \in Nodes /\ F[i].entered \in BOOLEAN
      /\ V \subseteq Nodes /\ DOMAIN lo = V /\ O \subseteq V
      /\ \A x \in V : ix[x] \in Nat /\ lo[x] \in Nat
  BY <1>1 DEF Tarjan, Kinded
<1>4. /\ \A i \in 1..m : ~F[i].entered => i = m /\ F[i].node \notin V
      /\ \A i \in Entered(F) : F[i].node \in O /\ \A y \in ToSet(F[i].todo) : <<F[i].node, y>> \in R
      /\ \A i, j \in Entered(F) : i < j => ix[F[i].node] < ix[F[j].node]
      /\ \A i \in 1..m : i < m => <<F[i].node, F[i + 1].node>> \in R
  BY <1>1 DEF Tarjan, Nested
<1>5. /\ Entered(G) = Entered(F) /\ \A i \in Entered(F) : G[i].node = F[i].node /\ i <= m
      /\ <<n, c>> \in R
      /\ \A i \in Entered(F) : ToSet(G[i].todo) \subseteq ToSet(F[i].todo)
      /\ \A x, y : Looked(R, G, x, y) => Looked(R, F, x, y) \/ (x = n /\ y = c)
  <2>1. Advanced(R, F, G, c, F[Len(F)].node)
    BY AdvancingIs DEF Tarjan
  <2> QED BY <1>1, <2>1 DEF Advanced
<1>6. m \in Entered(F) /\ n \in O /\ n \in V /\ n \in Nodes
  <2>1. m \in Entered(F)
    BY <1>2 DEF Entered
  <2> QED BY <1>1, <1>3, <1>4, <2>1
<1>7. /\ DOMAIN mo = V /\ \A x \in V : mo[x] \in Nat /\ mo[x] <= lo[x] /\ (x # n => mo[x] = lo[x])
      /\ c \in O => mo[n] <= lo[c]
      /\ mo[n] = lo[n] \/ (c \in O /\ mo[n] = lo[c])
  <2>1. CASE c \in O /\ Lowers(lo, mo, n, c)
    <3>1. /\ DOMAIN mo = V /\ \A x \in V : x # n => mo[x] = lo[x]
          /\ mo[n] <= lo[n] /\ mo[n] <= lo[c] /\ mo[n] \in {lo[n], lo[c]} /\ c \in V
      BY <1>3, <2>1 DEF Lowers
    <3> QED BY <1>3, <1>6, <2>1, <3>1
  <2>2. CASE mo = lo /\ c \notin O
    BY <1>3, <1>6, <2>2
  <2> QED BY <1>1, <1>3, <2>1, <2>2
<1>8. \A i, x : i \in Entered(F) /\ Above(G, ix, i, x) => Above(F, ix, i, x)
  BY <1>5 DEF Above
<1>9. Kinded(G, ix, mo, O)
  <2>1. ASSUME NEW i \in 1..Len(G) PROVE G[i].node \in Nodes /\ G[i].entered \in BOOLEAN
    <3>1. CASE i \in 1..m
      BY <1>2, <1>3, <1>6, <3>1, Zenon
    <3>2. CASE i \notin 1..m
      <4>1. i = m + 1 /\ Len(G) = m + 1 /\ c \in Nodes
        BY <1>1, <1>2, <3>2
      <4> QED BY <1>2, <4>1, Zenon
    <3> QED BY <3>1, <3>2
  <2> QED BY <1>1, <1>2, <1>3, <1>7, <2>1 DEF Kinded
<1>10. Nested(R, G, ix, O)
  <2>1. ASSUME NEW i \in 1..Len(G), ~G[i].entered PROVE i = Len(G) /\ G[i].node \notin V
    <3>1. ASSUME i \in 1..m PROVE FALSE
      <4>1. i # m /\ ~F[i].entered
        BY <1>2, <2>1, <3>1
      <4> QED BY <1>4, <3>1, <4>1
    <3>2. i = m + 1 /\ Len(G) = m + 1 /\ c \in Nodes \ V
      BY <1>1, <1>2, <3>1
    <3> QED BY <1>2, <3>2
  <2>2. \A i \in Entered(G) : G[i].node \in O /\ \A y \in ToSet(G[i].todo) : <<G[i].node, y>> \in R
    BY <1>4, <1>5
  <2>3. \A i, j \in Entered(G) : i < j => ix[G[i].node] < ix[G[j].node]
    BY <1>4, <1>5
  <2>4. ASSUME NEW i \in 1..Len(G), i < Len(G) PROVE <<G[i].node, G[i + 1].node>> \in R
    <3>1. CASE i < m
      <4>1. i + 1 \in 1..m /\ i \in 1..m /\ i # m
        BY <1>2, <3>1
      <4>2. G[i + 1].node = F[i + 1].node
        BY <1>1, <1>2, <4>1
      <4> QED BY <1>2, <1>4, <3>1, <4>1, <4>2
    <3>2. CASE ~(i < m)
      <4>1. i = m /\ Len(G) = m + 1
        BY <1>2, <2>4, <3>2
      <4> QED BY <1>2, <1>5, <4>1
    <3> QED BY <3>1, <3>2
  <2> QED BY <1>1, <2>1, <2>2, <2>3, <2>4 DEF Nested
<1>11. Followed(R, G, ix)
  <2>1. ASSUME NEW x \in V, NEW y, Looked(R, G, x, y)
        PROVE  y \in V \/ \E i \in 1..Len(G) : ~G[i].entered /\ y = G[i].node
    <3>1. CASE Looked(R, F, x, y)
      <4>1. y \in V \/ \E i \in 1..m : ~F[i].entered /\ y = F[i].node
        BY <1>1, <3>1 DEF Tarjan, Followed
      <4>2. \A i \in 1..m : F[i].entered
        BY <1>2, <1>4
      <4> QED BY <4>1, <4>2
    <3>2. CASE y = c
      <4>1. CASE c \in V
        BY <3>2, <4>1
      <4>2. CASE c \notin V
        <5>1. Len(G) = m + 1
          BY <1>1, <1>3, <4>2
        <5>2. m + 1 \in 1..Len(G) /\ ~G[m + 1].entered /\ y = G[m + 1].node
          BY <1>2, <3>2, <5>1
        <5> QED BY <5>2
      <4> QED BY <4>1, <4>2
    <3> QED BY <1>5, <2>1, <3>1, <3>2
  <2> QED BY <1>1, <2>1 DEF Followed
<1>12. Down(reach, G, ix, O)
  BY <1>5 DEF Tarjan, Down
<1>13. Up(reach, G, ix, O)
  <2>1. Up(reach, F, ix, O)
    BY DEF Tarjan
  <2> QED BY <1>5, <2>1 DEF Up
<1>14. LowReached(reach, ix, mo, O)
  <2>1. ASSUME NEW x \in O PROVE mo[x] <= ix[x] /\ \E y \in O : ix[y] = mo[x] /\ y \in reach[x]
    <3>1. x \in V /\ lo[x] <= ix[x] /\ \E y \in O : ix[y] = lo[x] /\ y \in reach[x]
      BY <1>3 DEF Tarjan, LowReached
    <3>2. mo[x] <= ix[x]
      BY <1>3, <1>7, <3>1
    <3>3. CASE mo[x] = lo[x]
      BY <3>1, <3>2, <3>3
    <3>4. CASE mo[x] # lo[x]
      <4>1. x = n /\ c \in O /\ mo[n] = lo[c]
        BY <1>7, <3>1, <3>4
      <4>2. PICK y \in O : ix[y] = lo[c] /\ y \in reach[c]
        BY <4>1 DEF Tarjan, LowReached
      <4>3. c \in reach[n]
        BY <1>5, <1>6, ReachGoesOn
      <4>4. y \in reach[n]
        BY <1>6, <4>2, <4>3, ReachGoesOn
      <4> QED BY <3>2, <4>1, <4>2, <4>4
    <3> QED BY <3>3, <3>4
  <2> QED BY <2>1 DEF LowReached
<1>15. LowLeast(R, G, ix, mo, O)
  <2>1. ASSUME NEW i \in Entered(G), NEW x \in O, Above(G, ix, i, x), NEW y \in O, Looked(R, G, x, y)
        PROVE  mo[G[i].node] <= ix[y]
    <3>1. i \in Entered(F) /\ Above(F, ix, i, x) /\ G[i].node = F[i].node
      BY <1>5, <1>8, <2>1
    <3>2. F[i].node \in V /\ y \in V
      BY <1>3, <1>4, <3>1
    <3>3. CASE Looked(R, F, x, y)
      <4>1. lo[F[i].node] <= ix[y]
        BY <3>1, <3>3 DEF Tarjan, LowLeast
      <4> QED BY <1>3, <1>7, <3>1, <3>2, <4>1
    <3>4. CASE x = n /\ y = c
      <4>1. i = m
        <5>1. i \in Nat /\ i <= m
          BY <1>2, <1>5, <3>1 DEF Entered
        <5>2. ASSUME i < m PROVE FALSE
          <6>1. ix[n] < ix[n]
            BY <1>1, <1>6, <3>1, <3>4, <5>2 DEF Above
          <6> QED BY <1>3, <1>6, <6>1
        <5> QED BY <1>2, <5>1, <5>2
      <4>2. mo[n] <= lo[c] /\ lo[c] <= ix[c]
        BY <1>7, <3>4 DEF Tarjan, LowReached
      <4> QED BY <1>1, <1>3, <1>6, <1>7, <3>1, <3>2, <3>4, <4>1, <4>2
    <3> QED BY <1>5, <2>1, <3>3, <3>4
  <2> QED BY <2>1 DEF LowLeast
<1>16. Numbered(ix) /\ Finished(R, reach, ix, O, C)
  BY DEF Tarjan
<1> QED BY <1>9, <1>10, <1>11, <1>12, <1>13, <1>14, <1>15, <1>16 DEF Tarjan

-----------------------------------------------------------------------------
(* A node leaves the frames.                                               *)

\* The last frame of F has looked at all its children, and G is without it.
Leaving(F, G) ==
  LET m == Len(F) IN
  /\ m \in 1..Len(F) /\ F[m].entered /\ ToSet(F[m].todo) = {}
  /\ Len(G) = m - 1 /\ \A i \in 1..(m - 1) : G[i] = F[i]

\* What is left after a frame is gone, m that of node n.
Left(R, F, G, m, n) ==
  /\ m \in Nat \ {0} /\ Len(F) = m /\ Len(G) = m - 1
  /\ m \in Entered(F) /\ F[m].node = n
  /\ \A i : i \in Entered(G) <=> i \in Entered(F) /\ i # m
  /\ \A i \in Entered(F) : i \in 1..m /\ (i # m => i < m /\ G[i] = F[i])
  /\ \A i \in 1..(m - 1) : i \in Entered(F) /\ i \in 1..m /\ G[i] = F[i]
  /\ \A x, y : Looked(R, G, x, y) => Looked(R, F, x, y)

LEMMA LeavingIs ==
  ASSUME NEW R, NEW F, NEW ix, NEW lo, NEW O, Kinded(F, ix, lo, O), Nested(R, F, ix, O),
         NEW G, Leaving(F, G)
  PROVE  Left(R, F, G, Len(F), F[Len(F)].node)
<1>1. PICK m, n : m = Len(F) /\ n = F[m].node
  BY Zenon
<1>2. /\ m \in Nat \ {0} /\ m \in 1..m /\ F[m].entered /\ ToSet(F[m].todo) = {}
      /\ Len(G) = m - 1 /\ Len(F) = m /\ \A i \in 1..(m - 1) : G[i] = F[i]
  BY <1>1 DEF Leaving, Kinded
<1>3. m \in Entered(F)
  BY <1>2 DEF Entered
<1>4. ASSUME NEW i \in Entered(F) PROVE i \in 1..m /\ (i # m => i < m /\ i \in 1..(m - 1) /\ G[i] = F[i])
  <2>1. i \in 1..m
    BY <1>2 DEF Entered
  <2>2. ASSUME i # m PROVE i < m /\ i \in 1..(m - 1) /\ G[i] = F[i]
    <3>1. i < m /\ i \in 1..(m - 1)
      BY <1>2, <2>1, <2>2
    <3> QED BY <1>2, <3>1
  <2> QED BY <2>1, <2>2
<1>5. ASSUME NEW i \in 1..(m - 1) PROVE i \in Entered(F) /\ i \in 1..m /\ i # m /\ G[i] = F[i]
  <2>1. i \in 1..m /\ i # m
    BY <1>2, <1>5
  <2>2. F[i].entered
    BY <1>1, <2>1 DEF Nested
  <2> QED BY <1>2, <2>1, <2>2 DEF Entered
<1>6. ASSUME NEW i PROVE i \in Entered(G) <=> i \in Entered(F) /\ i # m
  <2>1. ASSUME i \in Entered(G) PROVE i \in Entered(F) /\ i # m
    <3>1. i \in 1..(m - 1)
      BY <1>2, <2>1 DEF Entered
    <3> QED BY <1>5, <3>1
  <2>2. ASSUME i \in Entered(F), i # m PROVE i \in Entered(G)
    <3>1. i \in 1..(m - 1) /\ G[i] = F[i] /\ F[i].entered
      BY <1>4, <2>2 DEF Entered
    <3> QED BY <1>2, <3>1 DEF Entered
  <2> QED BY <2>1, <2>2
<1>7. ASSUME NEW x, NEW y, Looked(R, G, x, y) PROVE Looked(R, F, x, y)
  <2>1. ASSUME NEW i \in Entered(F), F[i].node = x PROVE y \notin ToSet(F[i].todo)
    <3>1. CASE i = m
      BY <1>2, <3>1
    <3>2. CASE i # m
      BY <1>4, <1>6, <1>7, <2>1, <3>2 DEF Looked
    <3> QED BY <3>1, <3>2
  <2> QED BY <1>7, <2>1 DEF Looked
<1> QED BY <1>1, <1>2, <1>3, <1>4, <1>5, <1>6, <1>7, Zenon DEF Left

\* What the lemmas on leaving use of the invariant.
LEMMA LeavingFacts ==
  ASSUME NEW R, NEW reach, Reaching(R, reach),
         NEW F, NEW ix, NEW lo, NEW O, NEW C, Tarjan(R, reach, F, ix, lo, O, C),
         NEW G, Leaving(F, G), NEW m, m = Len(F), NEW n, n = F[m].node, NEW V, V = DOMAIN ix
  PROVE  /\ Left(R, F, G, m, n) /\ n \in O /\ n \in V /\ n \in Nodes
         /\ V \subseteq Nodes /\ DOMAIN lo = V /\ O \subseteq V
         /\ \A x \in V : ix[x] \in Nat /\ lo[x] \in Nat
         /\ \A i \in Entered(F) : /\ F[i].node \in O /\ F[i].node \in V /\ F[i].node \in Nodes
                                  /\ i # m => ix[F[i].node] < ix[n]
         /\ \A x, y : Looked(R, F, x, y) /\ x \in V => y \in V
<1>1. Left(R, F, G, m, n)
  BY LeavingIs DEF Tarjan
<1>2. /\ V \subseteq Nodes /\ DOMAIN lo = V /\ O \subseteq V
      /\ \A x \in V : ix[x] \in Nat /\ lo[x] \in Nat
  BY DEF Tarjan, Kinded
<1>3. ASSUME NEW i \in Entered(F)
      PROVE  /\ F[i].node \in O /\ F[i].node \in V /\ F[i].node \in Nodes
             /\ i # m => ix[F[i].node] < ix[n]
  <2>1. F[i].node \in O
    BY DEF Tarjan, Nested
  <2>2. ASSUME i # m PROVE ix[F[i].node] < ix[n]
    <3>1. i < m /\ m \in Entered(F)
      BY <1>1, <2>2 DEF Left
    <3> QED BY <3>1 DEF Tarjan, Nested
  <2> QED BY <1>2, <2>1, <2>2
<1>4. n \in O /\ n \in V /\ n \in Nodes
  BY <1>1, <1>3 DEF Left
<1>5. ASSUME NEW x \in V, NEW y, Looked(R, F, x, y) PROVE y \in V
  <2>1. y \in V \/ \E i \in 1..Len(F) : ~F[i].entered /\ y = F[i].node
    BY <1>5 DEF Tarjan, Followed
  <2>2. ASSUME NEW i \in 1..Len(F) PROVE F[i].entered
    <3>1. F[m].entered
      BY <1>1 DEF Left, Entered
    <3> QED BY <3>1 DEF Tarjan, Nested
  <2> QED BY <2>1, <2>2
<1> QED BY <1>1, <1>2, <1>3, <1>4, <1>5

LEMMA LeaveStaysNested ==
  ASSUME NEW R, NEW reach, Reaching(R, reach),
         NEW F, NEW ix, NEW lo, NEW O, NEW C, Tarjan(R, reach, F, ix, lo, O, C),
         NEW G, Leaving(F, G), NEW mo, DOMAIN mo = DOMAIN ix, \A x \in DOMAIN ix : mo[x] \in Nat,
         NEW P \in SUBSET O, \A x \in O : ix[x] < ix[F[Len(F)].node] => x \in P
  PROVE  Kinded(G, ix, mo, P) /\ Nested(R, G, ix, P) /\ Followed(R, G, ix) /\ Down(reach, G, ix, P)
<1>1. PICK m, n, V : m = Len(F) /\ n = F[m].node /\ V = DOMAIN ix
  OBVIOUS
<1>2. /\ Left(R, F, G, m, n) /\ V \subseteq Nodes /\ O \subseteq V
      /\ \A x \in V : ix[x] \in Nat /\ lo[x] \in Nat
      /\ \A i \in Entered(F) : /\ F[i].node \in O /\ F[i].node \in V /\ F[i].node \in Nodes
                               /\ i # m => ix[F[i].node] < ix[n]
      /\ \A x, y : Looked(R, F, x, y) /\ x \in V => y \in V
  BY <1>1, LeavingFacts
<1>3. /\ m \in Nat \ {0} /\ Len(F) = m /\ Len(G) = m - 1
      /\ \A i : i \in Entered(G) <=> i \in Entered(F) /\ i # m
      /\ \A i \in Entered(F) : i \in 1..m /\ (i # m => i < m /\ G[i] = F[i])
      /\ \A i \in 1..(m - 1) : i \in Entered(F) /\ i \in 1..m /\ G[i] = F[i]
      /\ \A x, y : Looked(R, G, x, y) => Looked(R, F, x, y)
  BY <1>2 DEF Left
<1>4. \A i \in 1..(m - 1) : G[i].node \in Nodes /\ G[i].entered \in BOOLEAN /\ G[i].entered
  <2>1. \A i \in Entered(F) : F[i].entered
    BY DEF Entered
  <2>2. \A i \in 1..m : F[i].entered \in BOOLEAN
    BY <1>3 DEF Tarjan, Kinded
  <2> QED BY <1>2, <1>3, <2>1, <2>2
<1>5. Kinded(G, ix, mo, P)
  <2>1. Len(G) \in Nat
    BY <1>3
  <2> QED BY <1>1, <1>2, <1>3, <1>4, <2>1 DEF Kinded
<1>6. Nested(R, G, ix, P)
  <2>1. ASSUME NEW i \in Entered(G) PROVE G[i].node \in P /\ \A y \in ToSet(G[i].todo) : <<G[i].node, y>> \in R
    <3>1. i \in Entered(F) /\ i # m /\ G[i] = F[i]
      BY <1>3, <2>1
    <3>2. F[i].node \in O /\ ix[F[i].node] < ix[n]
      BY <1>2, <3>1
    <3> QED BY <1>1, <3>1, <3>2 DEF Tarjan, Nested
  <2>2. ASSUME NEW i \in Entered(G), NEW j \in Entered(G), i < j PROVE ix[G[i].node] < ix[G[j].node]
    <3>1. i \in Entered(F) /\ G[i] = F[i] /\ j \in Entered(F) /\ G[j] = F[j]
      BY <1>3, <2>2
    <3> QED BY <2>2, <3>1 DEF Tarjan, Nested
  <2>3. ASSUME NEW i \in 1..(m - 1), i < m - 1 PROVE <<G[i].node, G[i + 1].node>> \in R
    <3>1. i + 1 \in 1..(m - 1) /\ i \in 1..m /\ i < m
      BY <1>3, <2>3
    <3>2. G[i] = F[i] /\ G[i + 1] = F[i + 1]
      BY <1>3, <3>1
    <3> QED BY <1>3, <3>1, <3>2 DEF Tarjan, Nested
  <2> QED BY <1>3, <1>4, <2>1, <2>2, <2>3 DEF Nested
<1>7. Followed(R, G, ix)
  BY <1>1, <1>2, <1>3 DEF Followed
<1>8. Down(reach, G, ix, P)
  <2>1. Down(reach, F, ix, O)
    BY DEF Tarjan
  <2> QED BY <1>3, <2>1 DEF Down
<1> QED BY <1>5, <1>6, <1>7, <1>8

-----------------------------------------------------------------------------
\* The node reaches something older: it stays open, and so does a frame below it.
LEMMA InsideFacts ==
  ASSUME NEW R, NEW reach, Reaching(R, reach),
         NEW F, NEW ix, NEW lo, NEW O, NEW C, Tarjan(R, reach, F, ix, lo, O, C),
         NEW G, Leaving(F, G), NEW m, m = Len(F), NEW n, n = F[m].node, lo[n] # ix[n]
  PROVE  /\ m - 1 \in 1..(m - 1) /\ m - 1 \in Entered(F) /\ ix[F[m - 1].node] < ix[n]
         /\ \E i \in Entered(F) : i # m /\ ix[F[i].node] < ix[n] /\ F[i].node \in reach[n]
         /\ n \in reach[F[m - 1].node]
<1>1. PICK V : V = DOMAIN ix
  OBVIOUS
<1>2. /\ Left(R, F, G, m, n) /\ n \in O /\ n \in Nodes /\ V \subseteq Nodes /\ O \subseteq V
      /\ \A x \in V : ix[x] \in Nat /\ lo[x] \in Nat
      /\ \A i \in Entered(F) : /\ F[i].node \in O /\ F[i].node \in V /\ F[i].node \in Nodes
                               /\ i # m => ix[F[i].node] < ix[n]
  BY <1>1, LeavingFacts
<1>3. PICK y \in O : ix[y] = lo[n] /\ y \in reach[n] /\ lo[n] <= ix[n]
  BY <1>2 DEF Tarjan, LowReached
<1>4. ix[y] < ix[n]
  BY <1>2, <1>3
<1>5. PICK i \in Entered(F) : ix[F[i].node] <= ix[y] /\ F[i].node \in reach[y]
  BY DEF Tarjan, Up
<1>6. ix[F[i].node] < ix[n] /\ i # m
  <2>1. F[i].node \in V /\ y \in V /\ n \in V
    BY <1>2
  <2>2. ix[F[i].node] < ix[n]
    BY <1>2, <1>4, <1>5, <2>1
  <2>3. i # m
    BY <1>2, <2>1, <2>2
  <2> QED BY <2>2, <2>3
<1>7. F[i].node \in reach[n]
  BY <1>2, <1>3, <1>5, ReachGoesOn
<1>8. /\ m \in Nat \ {0} /\ Len(F) = m
      /\ \A j \in Entered(F) : j \in 1..m /\ (j # m => j < m)
      /\ \A j \in 1..(m - 1) : j \in Entered(F)
  BY <1>2 DEF Left
<1>9. m - 1 \in 1..(m - 1)
  BY <1>6, <1>8
<1>10. m - 1 \in Entered(F) /\ m - 1 # m /\ ix[F[m - 1].node] < ix[n]
  BY <1>2, <1>8, <1>9
<1>11. <<F[m - 1].node, n>> \in R
  <2>1. m - 1 \in 1..m /\ m - 1 < m /\ (m - 1) + 1 = m
    BY <1>8, <1>9
  <2>2. <<F[m - 1].node, F[(m - 1) + 1].node>> \in R
    BY <1>8, <2>1 DEF Tarjan, Nested
  <2> QED BY <2>1, <2>2
<1>12. n \in reach[F[m - 1].node]
  BY <1>2, <1>10, <1>11, ReachGoesOn
<1> QED BY <1>6, <1>7, <1>9, <1>10, <1>12

LEMMA LeaveInside ==
  ASSUME NEW R, NEW reach, Reaching(R, reach),
         NEW F, NEW ix, NEW lo, NEW O, NEW C, Tarjan(R, reach, F, ix, lo, O, C),
         NEW G, Leaving(F, G), lo[F[Len(F)].node] # ix[F[Len(F)].node],
         NEW mo, Len(F) # 1 => Lowers(lo, mo, F[Len(F) - 1].node, F[Len(F)].node)
  PROVE  Tarjan(R, reach, G, ix, mo, O, C)
<1>1. PICK m, n, V, p : m = Len(F) /\ n = F[m].node /\ V = DOMAIN ix /\ p = F[m - 1].node
  OBVIOUS
<1>2. /\ Left(R, F, G, m, n) /\ n \in O /\ n \in V /\ n \in Nodes
      /\ V \subseteq Nodes /\ DOMAIN lo = V /\ O \subseteq V
      /\ \A x \in V : ix[x] \in Nat /\ lo[x] \in Nat
      /\ \A i \in Entered(F) : /\ F[i].node \in O /\ F[i].node \in V /\ F[i].node \in Nodes
                               /\ i # m => ix[F[i].node] < ix[n]
  BY <1>1, LeavingFacts
<1>3. /\ m - 1 \in 1..(m - 1) /\ m - 1 \in Entered(F) /\ ix[p] < ix[n] /\ n \in reach[p]
      /\ \E i \in Entered(F) : i # m /\ ix[F[i].node] < ix[n] /\ F[i].node \in reach[n]
  <2>1. /\ m - 1 \in 1..(m - 1) /\ m - 1 \in Entered(F) /\ ix[F[m - 1].node] < ix[n]
        /\ \E i \in Entered(F) : i # m /\ ix[F[i].node] < ix[n] /\ F[i].node \in reach[n]
        /\ n \in reach[F[m - 1].node]
    <3>1. m = Len(F) /\ n = F[m].node /\ lo[n] # ix[n]
      BY <1>1
    <3> QED BY <3>1, InsideFacts
  <2> QED BY <1>1, <2>1
<1>4. /\ m \in Nat \ {0} /\ Len(F) = m /\ m \in Entered(F)
      /\ \A i : i \in Entered(G) <=> i \in Entered(F) /\ i # m
      /\ \A i \in Entered(F) : i \in 1..m /\ (i # m => i < m /\ G[i] = F[i])
      /\ \A i \in 1..(m - 1) : i \in Entered(F) /\ i \in 1..m /\ G[i] = F[i]
      /\ \A x, y : Looked(R, G, x, y) => Looked(R, F, x, y)
  BY <1>2 DEF Left
<1>5. Lowers(lo, mo, p, n) /\ p \in O /\ p \in V /\ p \in Nodes
  <2>1. m # 1
    BY <1>3
  <2> QED BY <1>1, <1>2, <1>3, <2>1, Zenon
<1>6. /\ DOMAIN mo = V /\ \A x \in V : x # p => mo[x] = lo[x]
      /\ mo[p] \in {lo[p], lo[n]} /\ mo[p] <= lo[p] /\ mo[p] <= lo[n]
  BY <1>2, <1>5 DEF Lowers
<1>7. \A x \in V : mo[x] \in Nat /\ mo[x] <= lo[x]
  BY <1>2, <1>5, <1>6
<1>8. Kinded(G, ix, mo, O) /\ Nested(R, G, ix, O) /\ Followed(R, G, ix) /\ Down(reach, G, ix, O)
  BY <1>1, <1>6, <1>7, LeaveStaysNested
<1>9. Up(reach, G, ix, O)
  <2>1. ASSUME NEW x \in O
        PROVE  \E i \in Entered(G) : ix[G[i].node] <= ix[x] /\ G[i].node \in reach[x]
    <3>1. PICK i \in Entered(F) : ix[F[i].node] <= ix[x] /\ F[i].node \in reach[x]
      BY DEF Tarjan, Up
    <3>2. CASE i # m
      BY <1>4, <3>1, <3>2, Zenon
    <3>3. CASE i = m
      <4>1. PICK j \in Entered(F) : j # m /\ ix[F[j].node] < ix[n] /\ F[j].node \in reach[n]
        BY <1>3
      <4>2. ix[n] <= ix[x] /\ n \in reach[x]
        BY <1>1, <3>1, <3>3
      <4>3. F[j].node \in reach[x]
        BY <1>2, <4>1, <4>2, ReachGoesOn
      <4>4. ix[F[j].node] <= ix[x]
        <5>1. F[j].node \in V /\ x \in V
          BY <1>2
        <5> QED BY <1>2, <4>1, <4>2, <5>1
      <4> QED BY <1>4, <4>1, <4>3, <4>4
    <3> QED BY <3>2, <3>3
  <2> QED BY <2>1 DEF Up
<1>10. LowReached(reach, ix, mo, O)
  <2>1. ASSUME NEW x \in O PROVE mo[x] <= ix[x] /\ \E y \in O : ix[y] = mo[x] /\ y \in reach[x]
    <3>1. x \in V /\ lo[x] <= ix[x] /\ \E y \in O : ix[y] = lo[x] /\ y \in reach[x]
      BY <1>2 DEF Tarjan, LowReached
    <3>2. mo[x] <= ix[x]
      BY <1>2, <1>7, <3>1
    <3>3. CASE mo[x] = lo[x]
      BY <3>1, <3>2, <3>3
    <3>4. CASE mo[x] # lo[x]
      <4>1. x = p /\ mo[x] = lo[n]
        BY <1>6, <3>1, <3>4
      <4>2. PICK y \in O : ix[y] = lo[n] /\ y \in reach[n]
        BY <1>2, Zenon DEF Tarjan, LowReached
      <4>3. y \in reach[x]
        BY <1>3, <1>5, <4>1, <4>2, ReachGoesOn
      <4> QED BY <3>2, <4>1, <4>2, <4>3
    <3> QED BY <3>3, <3>4
  <2> QED BY <2>1 DEF LowReached
<1>11. LowLeast(R, G, ix, mo, O)
  <2>1. ASSUME NEW i \in Entered(G), NEW x \in O, Above(G, ix, i, x), NEW y \in O, Looked(R, G, x, y)
        PROVE  mo[G[i].node] <= ix[y]
    <3>1. i \in Entered(F) /\ i # m /\ i < m /\ i \in 1..m /\ G[i] = F[i] /\ Looked(R, F, x, y)
      BY <1>4, <2>1
    <3>2. x \in V /\ y \in V /\ F[i].node \in V
      BY <1>2, <3>1
    <3>3. ix[F[i].node] <= ix[x] /\ \A j \in Entered(F) : j # m /\ i < j => ix[x] < ix[F[j].node]
      BY <1>4, <2>1, <3>1 DEF Above
    <3>4. CASE ix[x] < ix[n]
      <4>1. Above(F, ix, i, x)
        BY <1>1, <3>3, <3>4 DEF Above
      <4>2. lo[F[i].node] <= ix[y]
        BY <3>1, <4>1 DEF Tarjan, LowLeast
      <4> QED BY <1>2, <1>7, <3>1, <3>2, <4>2
    <3>5. CASE ~(ix[x] < ix[n])
      <4>1. i = m - 1
        <5>1. ~(i < m - 1)
          <6>1. ASSUME i < m - 1 PROVE FALSE
            <7>1. ix[x] < ix[p]
              BY <1>1, <1>3, <1>4, <3>3, <6>1
            <7> QED BY <1>2, <1>3, <1>5, <3>2, <3>5, <7>1
          <6> QED BY <6>1
        <5> QED BY <1>4, <3>1, <5>1
      <4>2. Above(F, ix, m, x)
        <5>1. ix[F[m].node] <= ix[x]
          BY <1>1, <1>2, <3>2, <3>5
        <5>2. \A j \in Entered(F) : ~(m < j)
          BY <1>4
        <5> QED BY <5>1, <5>2 DEF Above
      <4>3. lo[n] <= ix[y]
        BY <1>1, <1>4, <3>1, <4>2 DEF Tarjan, LowLeast
      <4>4. G[i].node = p
        BY <1>1, <3>1, <4>1
      <4> QED BY <1>2, <1>5, <1>6, <1>7, <3>2, <4>3, <4>4
    <3> QED BY <3>4, <3>5
  <2> QED BY <2>1 DEF LowLeast
<1>12. Numbered(ix) /\ Finished(R, reach, ix, O, C)
  BY DEF Tarjan
<1> QED BY <1>8, <1>9, <1>10, <1>11, <1>12 DEF Tarjan

-----------------------------------------------------------------------------
\* What was opened since n is its class, and nothing finished leads to what is open.
Component(R, reach, V, O, S, n) == EdgeClosed(R, (V \ O) \cup S) /\ S = Class(reach, n)

\* The node reaches nothing older.
LEMMA RootFacts ==
  ASSUME NEW R, NEW reach, Reaching(R, reach),
         NEW F, NEW ix, NEW lo, NEW O, NEW C, Tarjan(R, reach, F, ix, lo, O, C),
         NEW G, Leaving(F, G), NEW m, m = Len(F), NEW n, n = F[m].node, lo[n] = ix[n],
         NEW S \in SUBSET O, \A x \in O : x \in S <=> ix[n] <= ix[x],
         NEW V, V = DOMAIN ix
  PROVE  Component(R, reach, V, O, S, n)
<1>1. /\ Left(R, F, G, m, n) /\ n \in O /\ n \in V /\ n \in Nodes
      /\ V \subseteq Nodes /\ DOMAIN lo = V /\ O \subseteq V
      /\ \A x \in V : ix[x] \in Nat /\ lo[x] \in Nat
      /\ \A i \in Entered(F) : /\ F[i].node \in O /\ F[i].node \in V /\ F[i].node \in Nodes
                               /\ i # m => ix[F[i].node] < ix[n]
      /\ \A x, y : Looked(R, F, x, y) /\ x \in V => y \in V
  BY LeavingFacts
<1>2. /\ Len(F) = m /\ m \in Entered(F) /\ \A i \in Entered(F) : ~(m < i)
      /\ ToSet(F[m].todo) = {}
  <2>1. Len(F) = m /\ m \in Entered(F) /\ \A i \in Entered(F) : ~(m < i)
    BY <1>1 DEF Left
  <2>2. ToSet(F[m].todo) = {}
    BY DEF Leaving
  <2> QED BY <2>1, <2>2
<1>3. n \in S /\ S \subseteq O
  BY <1>1
<1>4. ASSUME NEW x \in S PROVE x \in reach[n] /\ n \in reach[x]
  <2>1. x \in reach[n]
    BY <1>1, <1>2 DEF Tarjan, Down
  <2>2. PICK i \in Entered(F) : ix[F[i].node] <= ix[x] /\ F[i].node \in reach[x]
    BY <1>3 DEF Tarjan, Up
  <2>3. CASE i = m
    BY <2>1, <2>2, <2>3
  <2>4. CASE i # m
    <3>1. ix[F[i].node] <= ix[n] /\ F[i].node \in V
      BY <1>1, <2>4
    <3>2. n \in reach[F[i].node]
      BY <1>1, <3>1 DEF Tarjan, Down
    <3>3. x \in Nodes
      BY <1>1, <1>3
    <3> QED BY <2>1, <2>2, <3>2, <3>3, ReachGoesOn
  <2> QED BY <2>3, <2>4
<1>5. EdgeClosed(R, V \ O)
  BY DEF Tarjan, Finished
<1>6. ASSUME NEW x, NEW y, <<x, y>> \in R, x \in (V \ O) \cup S PROVE y \in (V \ O) \cup S
  <2>1. CASE x \in V \ O
    BY <1>5, <1>6, <2>1 DEF EdgeClosed
  <2>2. CASE x \in S
    <3>1. x \in O /\ x \in V /\ ix[n] <= ix[x]
      BY <1>1, <2>2
    <3>2. ASSUME NEW i \in Entered(F), F[i].node = x PROVE y \notin ToSet(F[i].todo)
      <4>1. i = m
        BY <1>1, <3>1, <3>2
      <4> QED BY <1>2, <4>1
    <3>3. Looked(R, F, x, y)
      BY <1>6, <3>2 DEF Looked
    <3>4. y \in V
      BY <1>1, <3>1, <3>3
    <3>5. ASSUME y \in O PROVE y \in S
      <4>1. Above(F, ix, m, x)
        BY <1>2, <3>1 DEF Above
      <4>2. lo[n] <= ix[y]
        BY <1>2, <3>1, <3>3, <3>5, <4>1 DEF Tarjan, LowLeast
      <4> QED BY <3>5, <4>2
    <3> QED BY <3>4, <3>5
  <2> QED BY <1>6, <2>1, <2>2
<1>7. EdgeClosed(R, (V \ O) \cup S)
  BY <1>6 DEF EdgeClosed
<1>8. ASSUME NEW z, z \in Class(reach, n) PROVE z \in S
  <2>1. z \in reach[n] /\ n \in reach[z]
    BY <1>8 DEF Class
  <2>2. (V \ O) \cup S \in SUBSET Nodes /\ n \in (V \ O) \cup S
    BY <1>1, <1>3
  <2>3. z \in (V \ O) \cup S
    BY <1>1, <1>7, <2>1, <2>2 DEF Reaching
  <2>4. ASSUME z \in V \ O PROVE FALSE
    <3>1. V \ O \in SUBSET Nodes /\ z \in Nodes
      BY <1>1, <2>4
    <3>2. reach[z] \subseteq V \ O
      BY <1>5, <2>4, <3>1 DEF Reaching
    <3> QED BY <1>1, <2>1, <3>2
  <2> QED BY <2>3, <2>4
<1>9. ASSUME NEW z PROVE z \in S <=> z \in Class(reach, n)
  BY <1>4, <1>8 DEF Class
<1>10. S = Class(reach, n)
  <2>1. \A z : z \in S <=> z \in Class(reach, n)
    BY <1>9
  <2> QED BY ONLY <2>1
<1> QED BY <1>7, <1>10 DEF Component

LEMMA LeaveRoot ==
  ASSUME NEW R, NEW reach, Reaching(R, reach),
         NEW F, NEW ix, NEW lo, NEW O, NEW C, Tarjan(R, reach, F, ix, lo, O, C),
         NEW G, Leaving(F, G), lo[F[Len(F)].node] = ix[F[Len(F)].node],
         NEW mo, Len(F) = 1 => mo = lo,
         Len(F) # 1 => Lowers(lo, mo, F[Len(F) - 1].node, F[Len(F)].node),
         NEW S, S = {x \in O : ix[F[Len(F)].node] <= ix[x]},
         NEW P, P = {x \in O : ix[x] < ix[F[Len(F)].node]}
  PROVE  Tarjan(R, reach, G, ix, mo, P, C \cup {S})
<1>1. PICK m, n, V, p : m = Len(F) /\ n = F[m].node /\ V = DOMAIN ix /\ p = F[m - 1].node
  OBVIOUS
<1>2. /\ Left(R, F, G, m, n) /\ n \in O /\ n \in V /\ n \in Nodes
      /\ V \subseteq Nodes /\ DOMAIN lo = V /\ O \subseteq V
      /\ \A x \in V : ix[x] \in Nat /\ lo[x] \in Nat
      /\ \A i \in Entered(F) : /\ F[i].node \in O /\ F[i].node \in V /\ F[i].node \in Nodes
                               /\ i # m => ix[F[i].node] < ix[n]
  <2>1. m = Len(F) /\ n = F[m].node /\ V = DOMAIN ix
    BY <1>1
  <2> QED BY <2>1, LeavingFacts
<1>3. /\ m \in Nat \ {0} /\ Len(F) = m /\ m \in Entered(F)
      /\ \A i : i \in Entered(G) <=> i \in Entered(F) /\ i # m
      /\ \A i \in Entered(F) : i \in 1..m /\ (i # m => i < m /\ G[i] = F[i])
      /\ \A i \in 1..(m - 1) : i \in Entered(F) /\ i \in 1..m /\ G[i] = F[i]
      /\ \A x, y : Looked(R, G, x, y) => Looked(R, F, x, y)
  BY <1>2 DEF Left
<1>4. S = {x \in O : ix[n] <= ix[x]} /\ P = {x \in O : ix[x] < ix[n]} /\ lo[n] = ix[n]
  BY <1>1
<1>5. EdgeClosed(R, (V \ O) \cup S) /\ S = Class(reach, n)
  <2>1. /\ m = Len(F) /\ n = F[m].node /\ lo[n] = ix[n] /\ V = DOMAIN ix
        /\ S \in SUBSET O /\ \A x \in O : x \in S <=> ix[n] <= ix[x]
    BY <1>1, <1>4
  <2>2. Component(R, reach, V, O, S, n)
    BY <2>1, RootFacts, Zenon
  <2> QED BY <2>2 DEF Component
<1>6. \A x \in O : lo[x] <= ix[x] /\ \E y \in O : ix[y] = lo[x] /\ y \in reach[x]
  BY DEF Tarjan, LowReached
<1>7. DOMAIN mo = V /\ \A x \in V : mo[x] = lo[x]
  <2>1. CASE m = 1
    BY <1>1, <1>2, <2>1
  <2>2. CASE m # 1
    <3>1. m - 1 \in 1..(m - 1) /\ m - 1 # m
      BY <1>3, <2>2
    <3>2. p \in O /\ p \in V /\ ix[p] < ix[n]
      BY <1>1, <1>2, <1>3, <3>1, Zenon
    <3>3. /\ DOMAIN mo = V /\ \A x \in V : x # p => mo[x] = lo[x]
          /\ mo[p] <= lo[p] /\ mo[p] \in {lo[p], lo[n]}
      BY <1>1, <1>2, <2>2 DEF Lowers
    <3>4. lo[p] < lo[n]
      BY <1>2, <1>4, <1>6, <3>2
    <3>5. mo[p] = lo[p]
      BY <1>2, <3>2, <3>3, <3>4
    <3> QED BY <3>3, <3>5
  <2> QED BY <2>1, <2>2
<1>8. P \in SUBSET O /\ \A x \in O : ix[x] < ix[n] => x \in P
  BY <1>4
<1>9. Kinded(G, ix, mo, P) /\ Nested(R, G, ix, P) /\ Followed(R, G, ix) /\ Down(reach, G, ix, P)
  BY <1>1, <1>2, <1>7, <1>8, LeaveStaysNested, Zenon
<1>10. Up(reach, G, ix, P)
  <2>1. ASSUME NEW x \in P
        PROVE  \E i \in Entered(G) : ix[G[i].node] <= ix[x] /\ G[i].node \in reach[x]
    <3>1. x \in O /\ x \in V /\ ix[x] < ix[n]
      BY <1>2, <1>4
    <3>2. PICK i \in Entered(F) : ix[F[i].node] <= ix[x] /\ F[i].node \in reach[x]
      BY <3>1 DEF Tarjan, Up
    <3>3. i # m
      BY <1>1, <1>2, <3>1, <3>2
    <3> QED BY <1>3, <3>2, <3>3, Zenon
  <2> QED BY <2>1 DEF Up
<1>11. LowReached(reach, ix, mo, P)
  <2>1. ASSUME NEW x \in P PROVE mo[x] <= ix[x] /\ \E y \in P : ix[y] = mo[x] /\ y \in reach[x]
    <3>1. x \in O /\ x \in V /\ ix[x] < ix[n] /\ mo[x] = lo[x] /\ lo[x] <= ix[x]
      BY <1>2, <1>4, <1>6, <1>7
    <3>2. PICK y \in O : ix[y] = lo[x] /\ y \in reach[x]
      BY <1>6, <3>1
    <3>3. y \in P
      BY <1>2, <1>8, <3>1, <3>2
    <3> QED BY <3>1, <3>2, <3>3
  <2> QED BY <2>1 DEF LowReached
<1>12. LowLeast(R, G, ix, mo, P)
  <2>1. ASSUME NEW i \in Entered(G), NEW x \in P, Above(G, ix, i, x), NEW y \in P, Looked(R, G, x, y)
        PROVE  mo[G[i].node] <= ix[y]
    <3>1. i \in Entered(F) /\ G[i] = F[i] /\ Looked(R, F, x, y) /\ x \in O /\ y \in O
      BY <1>3, <1>8, <2>1, Zenon
    <3>2. ix[x] < ix[n]
      BY <1>4
    <3>3. Above(F, ix, i, x)
      <4>1. ix[F[i].node] <= ix[x]
        BY <2>1, <3>1 DEF Above
      <4>2. ASSUME NEW j \in Entered(F), i < j PROVE ix[x] < ix[F[j].node]
        <5>1. CASE j = m
          BY <1>1, <3>2, <5>1
        <5>2. CASE j # m
          <6>1. j \in Entered(G) /\ G[j] = F[j]
            BY <1>3, <5>2
          <6> QED BY <2>1, <4>2, <6>1 DEF Above
        <5> QED BY <5>1, <5>2
      <4> QED BY <4>1, <4>2 DEF Above
    <3>4. lo[F[i].node] <= ix[y]
      BY <3>1, <3>3 DEF Tarjan, LowLeast
    <3> QED BY <1>2, <1>7, <3>1, <3>4
  <2> QED BY <2>1 DEF LowLeast
<1>13. Finished(R, reach, ix, P, C \cup {S})
  <2>1. V \ P = (V \ O) \cup S
    <3>1. ASSUME NEW x \in O PROVE x \notin P <=> x \in S
      BY <1>2, <1>4
    <3> QED BY <1>2, <1>8, <1>4, <3>1
  <2>2. C = {Class(reach, k) : k \in V \ O}
    BY <1>1 DEF Tarjan, Finished
  <2>3. ASSUME NEW k \in S PROVE Class(reach, k) = S
    BY <1>2, <1>5, ClassIs
  <2>4. n \in S
    BY <1>2, <1>4
  <2>5. ASSUME NEW c PROVE c \in C \cup {S} <=> c \in {Class(reach, k) : k \in V \ P}
    BY <2>1, <2>2, <2>3, <2>4, Zenon
  <2>6. C \cup {S} = {Class(reach, k) : k \in V \ P}
    BY <2>5, Zenon
  <2> QED BY <1>1, <1>5, <2>1, <2>6, Zenon DEF Finished
<1>14. Numbered(ix)
  BY DEF Tarjan
<1> QED BY <1>9, <1>10, <1>11, <1>12, <1>13, <1>14 DEF Tarjan

-----------------------------------------------------------------------------
(* What cycles returns.                                                    *)

\* D are the classes of more than one symbol, Q the callers nothing calls, and what
\* calls something is reached from Q, from D or from a symbol that calls itself.
Components(reach) == {Class(reach, n) : n \in {x \in Nodes : Class(reach, x) # {x}}}
Roots(R, D, Q) == Q \cup (UNION D) \cup {n \in Nodes : <<n, n>> \in R}
CyclesAre(R, reach, D, Q) ==
  D = Components(reach) /\ {p[1] : p \in R} \subseteq UNION {reach[n] : n \in Roots(R, D, Q)}
\* Q has every symbol that calls and that nothing calls.
Uncalled(R, Q) ==
  \A n \in Nodes : (\E y : <<n, y>> \in R) /\ (\A b : <<b, n>> \notin R) => n \in Q
HasRoot(R, reach, Q, x) ==
  \E a \in Nodes : x \in reach[a] /\ (a \in Q \/ Class(reach, a) # {a} \/ <<a, a>> \in R)
Sourced(R, V) == \A x, y : <<x, y>> \in R => x \in V

LEMMA ClassIsLarge ==
  ASSUME NEW R, NEW reach, Reaching(R, reach), NEW n \in Nodes
  PROVE  Cardinality(Class(reach, n)) >= 2 <=> Class(reach, n) # {n}
<1>1. PICK S : S = Class(reach, n)
  OBVIOUS
<1>2. n \in S /\ S \in SUBSET Nodes
  BY <1>1, ClassIs
<1>3. IsFiniteSet(S) /\ Cardinality(S) \in Nat
  BY <1>2, GraphAssumption, FS_Subset, FS_CardinalityType, Zenon
<1>4. Cardinality(S) # 0
  BY <1>2, <1>3, FS_EmptySet
<1>5. Cardinality(S) = 1 <=> S = {n}
  <2>1. Cardinality(S) = 1 <=> \E x : S = {x}
    BY <1>3, FS_Singleton, Zenon
  <2> QED BY <1>2, <2>1
<1> QED BY <1>1, <1>3, <1>4, <1>5

\* What calls nothing reaches only itself.
LEMMA Sink ==
  ASSUME NEW R, NEW reach, Reaching(R, reach), NEW n \in Nodes, \A y : <<n, y>> \notin R
  PROVE  reach[n] = {n}
<1>1. EdgeClosed(R, {n}) /\ {n} \in SUBSET Nodes
  BY DEF EdgeClosed
<1> QED BY <1>1 DEF Reaching

LEMMA ComponentsAre ==
  ASSUME NEW R, NEW reach, Reaching(R, reach),
         NEW V \in SUBSET Nodes, Sourced(R, V),
         NEW C, C = {Class(reach, n) : n \in V}, NEW D, D = {c \in C : Cardinality(c) >= 2}
  PROVE  D = Components(reach)
<1>1. ASSUME NEW n \in Nodes, Class(reach, n) # {n} PROVE n \in V
  <2>1. ASSUME n \notin V PROVE FALSE
    <3>1. reach[n] = {n}
      BY <2>1, Sink DEF Sourced
    <3> QED BY <1>1, <3>1, ClassIs DEF Class
  <2> QED BY <2>1
<1>2. \A n \in Nodes : Cardinality(Class(reach, n)) >= 2 <=> Class(reach, n) # {n}
  BY ClassIsLarge
<1>3. ASSUME NEW c PROVE c \in D <=> \E n \in Nodes : Class(reach, n) # {n} /\ c = Class(reach, n)
  <2>1. ASSUME c \in D PROVE \E n \in Nodes : Class(reach, n) # {n} /\ c = Class(reach, n)
    <3>1. PICK n \in V : c = Class(reach, n) /\ Cardinality(c) >= 2
      BY <2>1
    <3> QED BY <1>2, <3>1
  <2>2. ASSUME NEW n \in Nodes, Class(reach, n) # {n}, c = Class(reach, n) PROVE c \in D
    BY <1>1, <1>2, <2>2
  <2> QED BY <2>1, <2>2
<1> QED BY <1>3 DEF Components

\* Up the callers of a symbol there is one that nothing calls, or a cycle.
LEMMA RootsReach ==
  ASSUME NEW R, NEW reach, Reaching(R, reach), NEW Q, Uncalled(R, Q),
         NEW x \in Nodes, NEW z, <<x, z>> \in R
  PROVE  HasRoot(R, reach, Q, x)
<1> DEFINE anc(a) == {b \in Nodes : a \in reach[b]}
           A == anc(x)
           W == {Cardinality(anc(a)) : a \in A}
<1>1. \A a \in Nodes : IsFiniteSet(anc(a)) /\ Cardinality(anc(a)) \in Nat
  <2>1. \A a \in Nodes : anc(a) \in SUBSET Nodes
    OBVIOUS
  <2> QED BY <2>1, GraphAssumption, FS_Subset, FS_CardinalityType
<1>2. x \in A /\ A \subseteq Nodes
  BY ReachGoesOn
<1>3. PICK a \in A : \A b \in A : Cardinality(anc(a)) <= Cardinality(anc(b))
  <2>1. W \subseteq Nat /\ W # {}
    BY <1>1, <1>2, Zenon
  <2>2. PICK w \in W : \A v \in W : w <= v
    BY <2>1, LeastExists, Zenon
  <2> QED BY <2>2, Zenon
<1>4. a \in Nodes /\ x \in reach[a]
  BY <1>3
<1>5. ASSUME a \notin Q, Class(reach, a) = {a}, <<a, a>> \notin R PROVE FALSE
  <2>1. \E y : <<a, y>> \in R
    <3>1. ASSUME \A y : <<a, y>> \notin R PROVE FALSE
      <4>1. reach[a] = {a}
        BY <1>4, <3>1, Sink
      <4>2. a = x
        BY <1>4, <4>1
      <4> QED BY <3>1, <4>2
    <3> QED BY <3>1, Zenon
  <2>2. PICK b : <<b, a>> \in R
    BY <1>4, <1>5, <2>1, Zenon DEF Uncalled
  <2>3. b \in Nodes /\ b # a
    BY <1>5, <2>2 DEF Reaching
  <2>4. a \in reach[b] /\ x \in reach[b]
    BY <1>4, <2>2, <2>3, ReachGoesOn
  <2>5. b \notin reach[a]
    BY <1>5, <2>3, <2>4 DEF Class
  <2>6. anc(b) \in SUBSET anc(a)
    BY <2>2, ReachGoesOn
  <2>7. a \in anc(a) /\ a \notin anc(b)
    BY <1>4, <2>5, ReachGoesOn
  <2>8. Cardinality(anc(b)) <= Cardinality(anc(a)) /\ Cardinality(anc(b)) # Cardinality(anc(a))
    <3> HIDE DEF anc
    <3> QED BY <1>1, <1>4, <2>6, <2>7, FS_Subset
  <2>9. b \in A
    BY <2>3, <2>4
  <2>10. Cardinality(anc(a)) <= Cardinality(anc(b))
    BY <1>3, <2>9
  <2>11. Cardinality(anc(a)) \in Nat /\ Cardinality(anc(b)) \in Nat
    BY <1>1, <1>4, <2>3
  <2> HIDE DEF anc, A, W
  <2> QED BY <2>8, <2>10, <2>11
<1> QED BY <1>4, <1>5 DEF HasRoot

LEMMA CyclesExact ==
  ASSUME NEW R, NEW reach, Reaching(R, reach),
         NEW F, NEW ix, NEW lo, NEW O, NEW C, Tarjan(R, reach, F, ix, lo, O, C), Len(F) = 0,
         Sourced(R, DOMAIN ix),
         NEW D, D = {c \in C : Cardinality(c) >= 2},
         NEW Q, Uncalled(R, Q)
  PROVE  CyclesAre(R, reach, D, Q)
<1>1. PICK V : V = DOMAIN ix
  OBVIOUS
<1>2. O = {}
  BY NothingOpen
<1>3. V \in SUBSET Nodes /\ V \ O = V
  BY <1>1, <1>2 DEF Tarjan, Kinded
<1>4. C = {Class(reach, n) : n \in V}
  <2>1. C = {Class(reach, n) : n \in V \ O}
    BY <1>1 DEF Tarjan, Finished
  <2> QED BY <1>3, <2>1
<1>5. D = Components(reach)
  <2>1. Sourced(R, V)
    BY <1>1
  <2> QED BY <1>3, <1>4, <2>1, ComponentsAre, Zenon
<1>6. ASSUME NEW p \in R
      PROVE  \E a \in Roots(R, D, Q) : p[1] \in reach[a]
  <2>1. PICK x \in Nodes, y \in Nodes : p = <<x, y>> /\ <<x, y>> \in R
    <3>1. p \in Nodes \X Nodes
      BY DEF Reaching
    <3>2. PICK x \in Nodes, y \in Nodes : p = <<x, y>>
      BY ONLY <3>1
    <3> QED BY <3>2
  <2>2. PICK a \in Nodes : /\ x \in reach[a]
                           /\ a \in Q \/ Class(reach, a) # {a} \/ <<a, a>> \in R
    <3>1. HasRoot(R, reach, Q, x)
      BY <2>1, RootsReach
    <3> QED BY <3>1 DEF HasRoot
  <2>3. ASSUME Class(reach, a) # {a} PROVE a \in UNION D
    <3>1. Class(reach, a) \in D
      BY <1>5, <2>3 DEF Components
    <3>2. a \in Class(reach, a)
      BY ClassIs
    <3> QED BY <3>1, <3>2
  <2>4. a \in Roots(R, D, Q)
    BY <2>2, <2>3 DEF Roots
  <2> QED BY <2>1, <2>2, <2>4, Zenon
<1>7. {p[1] : p \in R} \subseteq UNION {reach[n] : n \in Roots(R, D, Q)}
  <2>1. ASSUME NEW p \in R PROVE p[1] \in UNION {reach[n] : n \in Roots(R, D, Q)}
    <3>1. PICK a \in Roots(R, D, Q) : p[1] \in reach[a]
      BY <1>6, Zenon
    <3> QED BY ONLY <3>1
  <2> QED BY ONLY <2>1
<1> QED BY <1>5, <1>7, Zenon DEF CyclesAre

-----------------------------------------------------------------------------
(* cycles: what run keeps, and its steps.                                  *)

Frames == [node : Nodes, entered : BOOLEAN, todo : Seq(Nodes)]
\* The open nodes are kept in the order of their numbers.
Ordered(ix, op) == \A i, j \in DOMAIN op : i < j => ix[op[i]] < ix[op[j]]
Stacked(R, reach, F, ix, lo, op, C) ==
  /\ F \in Seq(Frames) /\ op \in Seq(Nodes) /\ lo = [x \in DOMAIN lo |-> lo[x]]
  /\ Ordered(ix, op) /\ Tarjan(R, reach, F, ix, lo, ToSet(op), C)

\* G is F with z as its last element.
Replaced(X, F, G, m, z) ==
  /\ m \in Nat \ {0} /\ m \in 1..m /\ Last(F) = F[m] /\ F[m] \in X
  /\ G \in Seq(X) /\ Len(G) = m /\ G[m] = z /\ \A i \in 1..m : i # m => G[i] = F[i]

LEMMA LastReplaced ==
  ASSUME NEW X, NEW F \in Seq(X), F # <<>>, NEW z \in X, NEW G, G = Append(Front(F), z),
         NEW m, m = Len(F)
  PROVE  Replaced(X, F, G, m, z)
<1>1. m \in Nat \ {0} /\ m \in 1..m /\ F[m] \in X /\ Last(F) = F[m]
  <2>1. m \in Nat /\ m # 0
    OBVIOUS
  <2>2. m \in 1..m
    BY <2>1
  <2> QED BY <2>1, <2>2 DEF Last
<1>2. PICK H : H = Front(F)
  OBVIOUS
<1>3. H \in Seq(X) /\ Len(H) = m - 1 /\ \A i \in 1..(m - 1) : H[i] = F[i]
  BY <1>1, <1>2, SubSeqProperties DEF Front
<1>4. G = Append(H, z)
  BY <1>2
<1>5. G \in Seq(X) /\ Len(G) = m /\ G[m] = z /\ \A i \in 1..(m - 1) : G[i] = H[i]
  BY <1>1, <1>3, <1>4
<1>6. ASSUME NEW i \in 1..m, i # m PROVE G[i] = F[i]
  <2>1. i \in 1..(m - 1)
    BY <1>1, <1>6
  <2> QED BY <1>3, <1>5, <2>1, Zenon
<1> QED BY <1>1, <1>5, <1>6 DEF Replaced

LEMMA AppendSet ==
  ASSUME NEW S, NEW s \in Seq(S), NEW x \in S
  PROVE  Append(s, x) \in Seq(S) /\ ToSet(Append(s, x)) = ToSet(s) \cup {x}
<1>1. PICK t : t = <<x>>
  BY Zenon
<1>2. t \in Seq(S) /\ DOMAIN t = {1} /\ t[1] = x
  BY <1>1
<1>3. ToSet(t) = {x}
  BY <1>2 DEF ToSet
<1>4. s \o t \in Seq(S) /\ ToSet(s \o t) = ToSet(s) \cup ToSet(t)
  BY <1>2, ConcatSet
<1>5. Append(s, x) = s \o t
  BY <1>1
<1> QED BY <1>3, <1>4, <1>5

LEMMA RootStacked ==
  ASSUME NEW R, NEW reach, Reaching(R, reach),
         NEW F, NEW ix, NEW lo, NEW op, NEW C, Stacked(R, reach, F, ix, lo, op, C),
         F = <<>>, NEW n \in Nodes \ DOMAIN ix,
         NEW G, G = <<[node |-> n, entered |-> FALSE, todo |-> <<>>]>>
  PROVE  Stacked(R, reach, G, ix, lo, op, C)
<1>1. /\ G \in Seq(Frames) /\ Len(G) = 1 /\ ~G[1].entered /\ G[1].entered \in BOOLEAN
      /\ G[1].node \in Nodes /\ G[1].node \notin DOMAIN ix
  <2>1. PICK f : f = [node |-> n, entered |-> FALSE, todo |-> <<>>]
    OBVIOUS
  <2>2. f \in Frames /\ f.node = n /\ f.entered = FALSE
    BY <2>1 DEF Frames
  <2>3. G = <<f>> /\ f.node \in Nodes /\ f.node \notin DOMAIN ix
    BY <2>1, <2>2
  <2>4. G \in Seq(Frames) /\ Len(G) = 1 /\ G[1] = f
    BY ONLY <2>2, <2>3
  <2> QED BY <2>2, <2>3, <2>4, Zenon
<1>2. Len(F) = 0 /\ Tarjan(R, reach, F, ix, lo, ToSet(op), C)
  BY DEF Stacked
<1>3. Tarjan(R, reach, G, ix, lo, ToSet(op), C)
  BY <1>1, <1>2, RootKeeps, Zenon
<1> QED BY <1>1, <1>3 DEF Stacked

\* Enter, as it changes the frames F, the numbers ix and the links lo.
NewFrame(R, F, ix, lo, n, todo, k, jx, mo, G) ==
  /\ F # <<>> /\ ~Last(F).entered /\ n = Last(F).node
  /\ todo \in Seq(Nodes) /\ \A y : y \in ToSet(todo) <=> <<n, y>> \in R
  /\ k = Cardinality(DOMAIN ix)
  /\ jx = [x \in DOMAIN ix \cup {n} |-> IF x = n THEN k ELSE ix[x]]
  /\ mo = [x \in DOMAIN lo \cup {n} |-> IF x = n THEN k ELSE lo[x]]
  /\ G = Append(Front(F), [node |-> n, entered |-> TRUE, todo |-> todo])

LEMMA EnterStacked ==
  ASSUME NEW R, NEW reach, Reaching(R, reach),
         NEW F, NEW ix, NEW lo, NEW op, NEW C, Stacked(R, reach, F, ix, lo, op, C),
         NEW n, NEW todo, NEW k, NEW jx, NEW mo, NEW G, NewFrame(R, F, ix, lo, n, todo, k, jx, mo, G)
  PROVE  Stacked(R, reach, G, jx, mo, Append(op, n), C)
<1>0. /\ F # <<>> /\ ~Last(F).entered /\ n = Last(F).node
      /\ todo \in Seq(Nodes) /\ \A y : y \in ToSet(todo) <=> <<n, y>> \in R
      /\ k = Cardinality(DOMAIN ix)
      /\ jx = [x \in DOMAIN ix \cup {n} |-> IF x = n THEN k ELSE ix[x]]
      /\ mo = [x \in DOMAIN lo \cup {n} |-> IF x = n THEN k ELSE lo[x]]
      /\ G = Append(Front(F), [node |-> n, entered |-> TRUE, todo |-> todo])
  BY DEF NewFrame
<1> USE <1>0
<1>1. PICK m, f, O : m = Len(F) /\ f = [node |-> n, entered |-> TRUE, todo |-> todo] /\ O = ToSet(op)
  BY Zenon
<1>2. F \in Seq(Frames) /\ op \in Seq(Nodes) /\ Ordered(ix, op) /\ Tarjan(R, reach, F, ix, lo, O, C)
  BY <1>1 DEF Stacked
<1>3. Last(F) = F[m] /\ F[m] \in Frames
  <2>1. m \in Nat /\ m # 0 /\ m \in 1..m
    BY <1>1, <1>2
  <2> QED BY <1>1, <1>2, <2>1 DEF Last
<1>4. n \in Nodes /\ f \in Frames /\ f.node = n /\ f.entered = TRUE /\ f.todo = todo
  <2>1. n \in Nodes
    BY <1>3 DEF Frames
  <2> QED BY <1>1, <2>1 DEF Frames
<1>5. /\ m \in Nat \ {0} /\ m \in 1..m /\ G \in Seq(Frames) /\ Len(G) = m /\ G[m] = f
      /\ \A i \in 1..m : i # m => G[i] = F[i]
  <2>1. f \in Frames /\ F \in Seq(Frames) /\ F # <<>> /\ G = Append(Front(F), f) /\ m = Len(F)
    BY <1>1, <1>2, <1>4
  <2>2. Replaced(Frames, F, G, m, f)
    BY <2>1, LastReplaced, Zenon
  <2> QED BY <2>2 DEF Replaced
<1>6. Entering(R, F, G, ix, jx, lo, mo, k)
  <2>1. F[Len(F)].node = n /\ ~F[Len(F)].entered
    BY <1>1, <1>3
  <2> QED BY <1>1, <1>4, <1>5, <2>1 DEF Entering
<1>7. Tarjan(R, reach, G, jx, mo, O \cup {n}, C)
  <2>1. F[Len(F)].node = n
    BY <1>1, <1>3
  <2> QED BY <1>2, <1>6, <2>1, EnterKeeps
<1>8. PICK oq : oq = Append(op, n)
  BY Zenon
<1>9. oq \in Seq(Nodes) /\ ToSet(oq) = O \cup {n}
  BY <1>1, <1>2, <1>4, <1>8, AppendSet
<1>10. Ordered(jx, oq)
  <2>1. /\ DOMAIN op = 1..Len(op) /\ Len(op) \in Nat /\ DOMAIN oq = 1..(Len(op) + 1)
        /\ \A i \in 1..Len(op) : oq[i] = op[i]
        /\ oq[Len(op) + 1] = n
    BY <1>2, <1>4, <1>8
  <2>2. \A i \in DOMAIN op : op[i] \in O
    BY <1>1 DEF ToSet
  <2>3. O \subseteq DOMAIN ix /\ n \notin DOMAIN ix /\ \A x \in DOMAIN ix : ix[x] < k
    <3>1. n \notin DOMAIN ix
      BY <1>1, <1>2, <1>3, <1>5 DEF Tarjan, Nested
    <3> QED BY <1>2, <3>1 DEF Tarjan, Kinded, Numbered
  <2>4. jx[n] = k /\ \A x \in DOMAIN ix : jx[x] = ix[x]
    BY <2>3
  <2>5. ASSUME NEW i \in DOMAIN oq, NEW j \in DOMAIN oq, i < j PROVE jx[oq[i]] < jx[oq[j]]
    <3>1. i \in DOMAIN op /\ oq[i] = op[i] /\ op[i] \in DOMAIN ix
      BY <2>1, <2>2, <2>3, <2>5
    <3>2. CASE j = Len(op) + 1
      BY <2>1, <2>3, <2>4, <3>1, <3>2
    <3>3. CASE j # Len(op) + 1
      <4>1. j \in DOMAIN op /\ oq[j] = op[j] /\ op[j] \in DOMAIN ix
        BY <2>1, <2>2, <2>3, <3>3
      <4> QED BY <1>2, <2>4, <2>5, <3>1, <4>1 DEF Ordered
    <3> QED BY <3>2, <3>3
  <2> QED BY <2>5, Zenon DEF Ordered
<1>11. mo = [x \in DOMAIN mo |-> mo[x]]
  OBVIOUS
<1> QED BY <1>5, <1>7, <1>8, <1>9, <1>10, <1>11, Zenon DEF Stacked

-----------------------------------------------------------------------------
\* NextChild, as it changes the frames F and the links lo.
Look(F, ix, lo, op, fr, c, fs, G, mo) ==
  /\ F # <<>> /\ fr = Last(F) /\ fr.entered /\ fr.todo # <<>> /\ c = Head(fr.todo)
  /\ fs = Append(Front(F), [fr EXCEPT !.todo = Tail(@)])
  /\ G = IF c \in DOMAIN ix THEN fs
         ELSE Append(fs, [node |-> c, entered |-> FALSE, todo |-> <<>>])
  /\ mo = IF c \in DOMAIN ix /\ c \in ToSet(op) THEN Lowered(lo, fr.node, c) ELSE lo

LEMMA ChildStacked ==
  ASSUME NEW R, NEW reach, Reaching(R, reach),
         NEW F, NEW ix, NEW lo, NEW op, NEW C, Stacked(R, reach, F, ix, lo, op, C),
         NEW fr, NEW c, NEW fs, NEW G, NEW mo, Look(F, ix, lo, op, fr, c, fs, G, mo)
  PROVE  Stacked(R, reach, G, ix, mo, op, C)
<1>0. /\ F # <<>> /\ fr = Last(F) /\ fr.entered /\ fr.todo # <<>> /\ c = Head(fr.todo)
      /\ fs = Append(Front(F), [fr EXCEPT !.todo = Tail(@)])
      /\ G = IF c \in DOMAIN ix THEN fs
             ELSE Append(fs, [node |-> c, entered |-> FALSE, todo |-> <<>>])
      /\ mo = IF c \in DOMAIN ix /\ c \in ToSet(op) THEN Lowered(lo, fr.node, c) ELSE lo
  BY DEF Look
<1> USE <1>0
<1>1. PICK m, n, f, g, O :
        /\ m = Len(F) /\ n = fr.node /\ f = [fr EXCEPT !.todo = Tail(@)] /\ O = ToSet(op)
        /\ g = [node |-> c, entered |-> FALSE, todo |-> <<>>]
  BY Zenon
<1>2. /\ F \in Seq(Frames) /\ op \in Seq(Nodes) /\ Ordered(ix, op) /\ lo = [x \in DOMAIN lo |-> lo[x]]
      /\ Tarjan(R, reach, F, ix, lo, O, C)
  BY <1>1 DEF Stacked
<1>3. m \in Nat /\ m \in 1..m /\ fr = F[m] /\ fr \in Frames
  <2>1. m \in Nat /\ m # 0
    BY <1>1, <1>2
  <2>2. m \in 1..m
    BY <2>1
  <2> QED BY <1>1, <1>2, <2>1, <2>2 DEF Last
<1>4. fr.todo \in Seq(Nodes) /\ n \in Nodes /\ fr.entered = TRUE
  BY <1>1, <1>3 DEF Frames
<1>5. c \in Nodes /\ Tail(fr.todo) \in Seq(Nodes) /\ ToSet(fr.todo) = {c} \cup ToSet(Tail(fr.todo))
  BY <1>4, HeadTailSet
<1>6. f \in Frames /\ f.node = n /\ f.entered = TRUE /\ f.todo = Tail(fr.todo)
  <2>1. f = [node |-> n, entered |-> TRUE, todo |-> Tail(fr.todo)]
    BY <1>1, <1>3, <1>4, Zenon DEF Frames
  <2> QED BY <1>4, <1>5, <2>1 DEF Frames
<1>7. g \in Frames /\ g.node = c /\ g.entered = FALSE
  BY <1>1, <1>5 DEF Frames
<1>8. fs \in Seq(Frames) /\ Len(fs) = m /\ fs[m] = f /\ \A i \in 1..m : i # m => fs[i] = F[i]
  <2>1. fs = Append(Front(F), f)
    BY <1>1
  <2>2. Replaced(Frames, F, fs, m, f)
    BY <1>1, <1>2, <1>6, <2>1, LastReplaced, Zenon
  <2> QED BY <2>2 DEF Replaced
<1>9. /\ G \in Seq(Frames) /\ Len(G) \in {m, m + 1} /\ \A i \in 1..m : G[i] = fs[i]
      /\ Len(G) = IF c \in DOMAIN ix THEN m ELSE m + 1
      /\ Len(G) = m + 1 => G[m + 1] = g
  <2>1. CASE c \in DOMAIN ix
    BY <1>3, <1>8, <2>1
  <2>2. CASE c \notin DOMAIN ix
    <3>1. G = Append(fs, g)
      BY <1>1, <2>2
    <3> QED BY <1>3, <1>7, <1>8, <2>2, <3>1
  <2> QED BY <2>1, <2>2, Zenon
<1>10. Advancing(F, G, c)
  <2>1. \A i \in 1..m : i # m => G[i] = F[i]
    BY <1>8, <1>9
  <2>2. G[m] = f
    BY <1>3, <1>8, <1>9
  <2>3. Len(F) = m /\ F[m].entered /\ F[m].node = n /\ F[m].todo = fr.todo
    BY <1>1, <1>3
  <2> QED BY <1>3, <1>5, <1>6, <1>7, <1>9, <2>1, <2>2, <2>3 DEF Advancing
<1>11. /\ DOMAIN lo = DOMAIN ix /\ O \subseteq DOMAIN ix /\ \A x \in DOMAIN lo : lo[x] \in Nat
       /\ F[Len(F)].node = n /\ n \in O
  <2>1. DOMAIN lo = DOMAIN ix /\ O \subseteq DOMAIN ix /\ \A x \in DOMAIN lo : lo[x] \in Nat
    BY <1>2 DEF Tarjan, Kinded
  <2>2. F[Len(F)].node = n /\ m \in Entered(F)
    BY <1>1, <1>3 DEF Entered
  <2>3. F[m].node \in O
    BY <1>2, <2>2 DEF Tarjan, Nested
  <2> QED BY <1>1, <1>3, <2>1, <2>2, <2>3
<1>12. \/ c \in O /\ Len(G) = Len(F) /\ Lowers(lo, mo, F[Len(F)].node, c)
       \/ c \in DOMAIN ix \ O /\ Len(G) = Len(F) /\ mo = lo
       \/ c \in Nodes \ DOMAIN ix /\ Len(G) = Len(F) + 1 /\ mo = lo
  <2>1. CASE c \in O
    <3>1. c \in DOMAIN lo /\ n \in DOMAIN lo /\ c \in DOMAIN ix /\ mo = Lowered(lo, n, c)
      BY <1>1, <1>11, <2>1
    <3>2. Lowers(lo, mo, n, c)
      BY <1>2, <1>11, <3>1, LoweredIs, Zenon
    <3> QED BY <1>1, <1>9, <1>11, <2>1, <3>1, <3>2
  <2>2. CASE c \notin O
    BY <1>1, <1>5, <1>9, <2>2
  <2> QED BY <2>1, <2>2
<1>13. Tarjan(R, reach, G, ix, mo, O, C)
  BY <1>2, <1>10, <1>12, ChildKeeps, Zenon
<1>14. mo = [x \in DOMAIN mo |-> mo[x]]
  <2>1. CASE mo = lo
    BY <1>2, <2>1, Zenon
  <2>2. CASE mo = Lowered(lo, n, c)
    BY <1>2, <2>2, Zenon DEF Lowered
  <2> QED BY <1>1, <2>1, <2>2
<1> QED BY <1>1, <1>2, <1>9, <1>13, <1>14 DEF Stacked

\* Before the place of n are the open nodes with a smaller number.
Split(ix, op, n, lows, highs) ==
  /\ lows \in Seq(Nodes) /\ Ordered(ix, lows)
  /\ ToSet(lows) = {x \in ToSet(op) : ix[x] < ix[n]}
  /\ ToSet(highs) = {x \in ToSet(op) : ix[n] <= ix[x]}
LEMMA OpenSplit ==
  ASSUME NEW ix, NEW op \in Seq(Nodes), Ordered(ix, op), \A x \in ToSet(op) : ix[x] \in Nat,
         NEW n \in ToSet(op), NEW at, at = CHOOSE i \in 1..Len(op) : op[i] = n,
         NEW lows, lows = SubSeq(op, 1, at - 1), NEW highs, highs = SubSeq(op, at, Len(op))
  PROVE  Split(ix, op, n, lows, highs)
<1>1. PICK N : N = Len(op)
  OBVIOUS
<1>2. N \in Nat /\ DOMAIN op = 1..N /\ \A i \in 1..N : op[i] \in Nodes
  BY <1>1
<1>3. at \in 1..N /\ op[at] = n
  <2>1. \E i \in 1..N : op[i] = n
    BY <1>2 DEF ToSet
  <2> QED BY <1>1, <2>1
<1>4. /\ lows \in Seq(Nodes) /\ Len(lows) = at - 1 /\ \A i \in 1..(at - 1) : lows[i] = op[i]
      /\ DOMAIN lows = 1..(at - 1)
  <2>1. \A i \in 1..(at - 1) : i \in 1..N /\ op[i] \in Nodes
    BY <1>2, <1>3
  <2>2. lows \in Seq(Nodes)
    BY <1>3, <2>1, SubSeqProperties
  <2>3. Len(lows) = at - 1
    BY <1>3, <2>1, SubSeqProperties
  <2>4. \A i \in 1..(at - 1) : lows[i] = op[i]
    BY <1>3, <2>1, SubSeqProperties
  <2>5. DOMAIN lows = 1..Len(lows)
    BY ONLY <2>2
  <2> QED BY ONLY <2>2, <2>3, <2>4, <2>5
<1>5. /\ DOMAIN highs = 1..(N - at + 1) /\ \A i \in 1..(N - at + 1) : highs[i] = op[at + i - 1]
  <2>1. \A i \in at..N : op[i] \in Nodes
    BY <1>2, <1>3
  <2>2. highs = SubSeq(op, at, N) /\ at \in Int /\ N \in Int /\ at <= N
    BY <1>1, <1>2, <1>3
  <2>3. highs \in Seq(Nodes)
    BY <2>1, <2>2, SubSeqProperties
  <2>4. Len(highs) = N - at + 1
    BY <2>1, <2>2, SubSeqProperties
  <2>5. \A i \in 1..(N - at + 1) : highs[i] = op[at + i - 1]
    BY <2>1, <2>2, SubSeqProperties
  <2>6. DOMAIN highs = 1..Len(highs)
    BY ONLY <2>3
  <2> QED BY ONLY <2>4, <2>5, <2>6
<1>6. \A i, j \in 1..N : i < j => ix[op[i]] < ix[op[j]]
  BY <1>2, Zenon DEF Ordered
<1>7. \A i \in 1..N : op[i] \in ToSet(op) /\ ix[op[i]] \in Nat
  BY <1>2 DEF ToSet
<1>8. Ordered(ix, lows)
  <2>1. ASSUME NEW i \in DOMAIN lows, NEW j \in DOMAIN lows, i < j PROVE ix[lows[i]] < ix[lows[j]]
    <3>1. i \in 1..N /\ j \in 1..N
      BY <1>2, <1>3, <1>4
    <3> QED BY <1>4, <1>6, <2>1, <3>1
  <2> QED BY <2>1, Zenon DEF Ordered
<1>9. ASSUME NEW x PROVE x \in ToSet(lows) <=> x \in ToSet(op) /\ ix[x] < ix[n]
  <2>1. ASSUME x \in ToSet(lows) PROVE x \in ToSet(op) /\ ix[x] < ix[n]
    <3>1. PICK i \in 1..(at - 1) : x = lows[i]
      BY <1>4, <2>1, Zenon DEF ToSet
    <3>2. i \in 1..N /\ i < at
      BY <1>2, <1>3
    <3> QED BY <1>3, <1>4, <1>6, <1>7, <3>1, <3>2, Zenon
  <2>2. ASSUME x \in ToSet(op), ix[x] < ix[n] PROVE x \in ToSet(lows)
    <3>1. PICK i \in 1..N : x = op[i]
      BY <1>2, <2>2 DEF ToSet
    <3>2. ~(at < i) /\ i # at
      <4>1. ix[op[i]] < ix[op[at]]
        BY <1>3, <2>2, <3>1
      <4>2. ix[op[i]] \in Nat /\ ix[op[at]] \in Nat
        BY <1>3, <1>7
      <4>3. ASSUME at < i PROVE FALSE
        <5>1. ix[op[at]] < ix[op[i]]
          BY <1>3, <1>6, <4>3
        <5> QED BY <4>1, <4>2, <5>1
      <4>4. ASSUME i = at PROVE FALSE
        BY <4>1, <4>2, <4>4
      <4> QED BY <4>3, <4>4
    <3>3. i \in 1..(at - 1)
      BY <1>2, <1>3, <3>2
    <3> QED BY <1>4, <3>1, <3>3, Zenon DEF ToSet
  <2> QED BY <2>1, <2>2
<1>10. ASSUME NEW x PROVE x \in ToSet(highs) <=> x \in ToSet(op) /\ ix[n] <= ix[x]
  <2>1. ASSUME x \in ToSet(highs) PROVE x \in ToSet(op) /\ ix[n] <= ix[x]
    <3>1. PICK i \in 1..(N - at + 1) : x = highs[i]
      BY <1>5, <2>1, Zenon DEF ToSet
    <3>2. PICK j : j = at + i - 1
      BY Zenon
    <3>3. j \in 1..N /\ at <= j /\ x = op[j]
      BY <1>2, <1>3, <1>5, <3>1, <3>2
    <3>4. CASE j = at
      BY <1>3, <1>7, <3>3, <3>4
    <3>5. CASE j # at
      <4>1. at < j
        BY <1>3, <3>3, <3>5
      <4>2. ix[op[at]] < ix[op[j]]
        BY <1>3, <1>6, <3>3, <4>1
      <4> QED BY <1>3, <1>7, <3>3, <4>2
    <3> QED BY <3>4, <3>5
  <2>2. ASSUME x \in ToSet(op), ix[n] <= ix[x] PROVE x \in ToSet(highs)
    <3>1. PICK j \in 1..N : x = op[j]
      BY <1>2, <2>2 DEF ToSet
    <3>2. ~(j < at)
      BY <1>3, <1>6, <1>7, <2>2, <3>1
    <3>3. PICK i : i = j - at + 1
      BY Zenon
    <3>4. i \in 1..(N - at + 1) /\ at + i - 1 = j
      BY <1>2, <1>3, <3>2, <3>3
    <3> QED BY <1>5, <3>1, <3>4, Zenon DEF ToSet
  <2> QED BY <2>1, <2>2
<1>11. ToSet(lows) = {x \in ToSet(op) : ix[x] < ix[n]}
  BY <1>9
<1>12. ToSet(highs) = {x \in ToSet(op) : ix[n] <= ix[x]}
  BY <1>10
<1> QED BY <1>4, <1>8, <1>11, <1>12 DEF Split

-----------------------------------------------------------------------------
\* Leave, as it changes the components C, the open nodes op and the links lo.
Quit(F, ix, lo, op, C, fr, n, at, D, oq, mo) ==
  /\ F # <<>> /\ fr = Last(F) /\ fr.entered /\ fr.todo = <<>> /\ n = fr.node
  /\ at = CHOOSE i \in 1..Len(op) : op[i] = n
  /\ D = IF lo[n] = ix[n] THEN C \cup {ToSet(SubSeq(op, at, Len(op)))} ELSE C
  /\ oq = IF lo[n] = ix[n] THEN SubSeq(op, 1, at - 1) ELSE op
  /\ mo = IF Len(F) = 1 THEN lo ELSE Lowered(lo, F[Len(F) - 1].node, n)

LEMMA LeaveStacked ==
  ASSUME NEW R, NEW reach, Reaching(R, reach),
         NEW F, NEW ix, NEW lo, NEW op, NEW C, Stacked(R, reach, F, ix, lo, op, C),
         NEW fr, NEW n, NEW at, NEW D, NEW oq, NEW mo, Quit(F, ix, lo, op, C, fr, n, at, D, oq, mo)
  PROVE  Stacked(R, reach, Front(F), ix, mo, oq, D)
<1>0. /\ F # <<>> /\ fr = Last(F) /\ fr.entered /\ fr.todo = <<>> /\ n = fr.node
      /\ at = CHOOSE i \in 1..Len(op) : op[i] = n
      /\ D = IF lo[n] = ix[n] THEN C \cup {ToSet(SubSeq(op, at, Len(op)))} ELSE C
      /\ oq = IF lo[n] = ix[n] THEN SubSeq(op, 1, at - 1) ELSE op
      /\ mo = IF Len(F) = 1 THEN lo ELSE Lowered(lo, F[Len(F) - 1].node, n)
  BY DEF Quit
<1> USE <1>0
<1>1. PICK m, O, G : m = Len(F) /\ O = ToSet(op) /\ G = Front(F)
  BY Zenon
<1>2. /\ F \in Seq(Frames) /\ op \in Seq(Nodes) /\ Ordered(ix, op) /\ lo = [x \in DOMAIN lo |-> lo[x]]
      /\ Tarjan(R, reach, F, ix, lo, O, C)
  BY <1>1 DEF Stacked
<1>3. m \in Nat \ {0} /\ m \in 1..m /\ fr = F[m] /\ fr \in Frames /\ F[m].entered /\ F[m].node = n
  <2>1. m \in Nat /\ m # 0
    BY <1>1, <1>2
  <2>2. m \in 1..m
    BY <2>1
  <2> QED BY <1>1, <1>2, <2>1, <2>2 DEF Last
<1>4. G \in Seq(Frames) /\ Len(G) = m - 1 /\ \A i \in 1..(m - 1) : G[i] = F[i]
  <2>1. Replaced(Frames, F, Append(Front(F), fr), m, fr)
    BY <1>1, <1>2, <1>3, LastReplaced, Zenon
  <2>2. \A i \in 1..(m - 1) : F[i] \in Frames
    BY <1>1, <1>2, <1>3
  <2>3. G = SubSeq(F, 1, m - 1)
    BY <1>1 DEF Front
  <2>4. G \in Seq(Frames)
    BY <1>3, <2>2, <2>3, SubSeqProperties
  <2>5. Len(G) = m - 1
    BY <1>3, <2>2, <2>3, SubSeqProperties
  <2>6. \A i \in 1..(m - 1) : G[i] = F[i]
    BY <1>3, <2>2, <2>3, SubSeqProperties
  <2> QED BY <2>4, <2>5, <2>6
<1>5. ToSet(F[m].todo) = {}
  <2>1. F[m].todo = <<>>
    BY <1>3
  <2> QED BY <2>1 DEF ToSet
<1>6. Leaving(F, G)
  BY <1>1, <1>3, <1>4, <1>5 DEF Leaving
<1>7. /\ DOMAIN lo = DOMAIN ix /\ O \subseteq DOMAIN ix /\ n \in O
      /\ \A x \in DOMAIN lo : lo[x] \in Nat /\ ix[x] \in Nat
      /\ \A i \in Entered(F) : F[i].node \in O
      /\ \A i \in 1..m : ~F[i].entered => i = m
  <2>1. m \in Entered(F)
    BY <1>1, <1>3 DEF Entered
  <2> QED BY <1>1, <1>2, <1>3, <2>1, Zenon DEF Tarjan, Kinded, Nested
<1>8. m # 1 => Lowers(lo, mo, F[m - 1].node, n)
  <2>1. ASSUME m # 1 PROVE Lowers(lo, mo, F[m - 1].node, n)
    <3>1. m - 1 \in 1..m /\ m - 1 # m
      BY <1>3, <2>1
    <3>2. F[m - 1].node \in O
      <4>1. m - 1 \in Entered(F)
        BY <1>1, <1>7, <3>1, Zenon DEF Entered
      <4> QED BY <1>7, <4>1
    <3>3. PICK p : p = F[m - 1].node
      OBVIOUS
    <3>4. p \in DOMAIN lo /\ n \in DOMAIN lo /\ mo = Lowered(lo, p, n)
      BY <1>1, <1>7, <2>1, <3>2, <3>3
    <3>5. Lowers(lo, mo, p, n)
      BY <1>2, <1>7, <3>4, LoweredIs
    <3> QED BY <3>3, <3>5
  <2> QED BY <2>1
<1>9. mo = [x \in DOMAIN mo |-> mo[x]]
  <2>1. CASE m = 1
    BY <1>1, <1>2, <2>1
  <2>2. CASE m # 1
    BY <1>1, <1>2, <2>2, Zenon DEF Lowered
  <2> QED BY <2>1, <2>2
<1>10. F[Len(F)].node = n /\ Len(F) = m
  BY <1>1, <1>3
<1>11. CASE lo[n] # ix[n]
  <2>1. D = C /\ oq = op
    BY <1>11
  <2>2. lo[F[Len(F)].node] # ix[F[Len(F)].node]
    BY <1>10, <1>11
  <2>3. Len(F) # 1 => Lowers(lo, mo, F[Len(F) - 1].node, F[Len(F)].node)
    BY <1>8, <1>10
  <2>4. Tarjan(R, reach, G, ix, mo, O, C)
    BY <1>2, <1>6, <2>2, <2>3, LeaveInside
  <2> QED BY <1>1, <1>2, <1>4, <1>9, <2>1, <2>4, Zenon DEF Stacked
<1>12. CASE lo[n] = ix[n]
  <2>1. PICK S, P : S = ToSet(SubSeq(op, at, Len(op))) /\ P = ToSet(SubSeq(op, 1, at - 1))
    BY Zenon
  <2>2. D = C \cup {S} /\ ToSet(oq) = P /\ oq = SubSeq(op, 1, at - 1)
    BY <1>12, <2>1
  <2>3. /\ oq \in Seq(Nodes) /\ Ordered(ix, oq)
        /\ P = {x \in O : ix[x] < ix[n]} /\ S = {x \in O : ix[n] <= ix[x]}
    <3>1. \A x \in ToSet(op) : ix[x] \in Nat
      BY <1>1, <1>7
    <3>2. Split(ix, op, n, SubSeq(op, 1, at - 1), SubSeq(op, at, Len(op)))
      BY <1>1, <1>2, <1>7, <3>1, OpenSplit, Zenon
    <3> QED BY <1>1, <2>1, <2>2, <3>2, Zenon DEF Split
  <2>4. lo[F[Len(F)].node] = ix[F[Len(F)].node]
    BY <1>10, <1>12
  <2>5. /\ Len(F) = 1 => mo = lo
        /\ Len(F) # 1 => Lowers(lo, mo, F[Len(F) - 1].node, F[Len(F)].node)
    BY <1>8, <1>10
  <2>6. /\ P = {x \in O : ix[x] < ix[F[Len(F)].node]} /\ S = {x \in O : ix[F[Len(F)].node] <= ix[x]}
    BY <1>10, <2>3
  <2>7. Tarjan(R, reach, G, ix, mo, P, C \cup {S})
    BY <1>2, <1>6, <2>4, <2>5, <2>6, LeaveRoot, Zenon
  <2> QED BY <1>1, <1>4, <1>9, <2>2, <2>3, <2>7, Zenon DEF Stacked
<1> QED BY <1>11, <1>12

-----------------------------------------------------------------------------
Calls(E) == Pairs(E, {"call"})
ReachMap(R) == [n \in Nodes |-> Reached(R, n)]
CyclesRun(E, r) ==
  /\ r = [frames |-> r.frames, index |-> r.index, low |-> r.low, open |-> r.open, comps |-> r.comps]
  /\ Stacked(Calls(E), ReachMap(Calls(E)), r.frames, r.index, r.low, r.open, r.comps)
CyclesAnswer(E, v) == CyclesAre(Calls(E), ReachMap(Calls(E)), v.cycles, v.orphans)

\* The stack of the components' search is as Tarjan says, and an answer is exact.
CyclesInv ==
  /\ ask.job = "cycles" => edges \in Graphs
  /\ Running("cycles") => CyclesRun(edges, run)
  /\ CyclesAreComponents

LEMMA CallsAre ==
  ASSUME edges \in Graphs, NEW R, R = Calls(edges), NEW reach, reach = ReachMap(R)
  PROVE  /\ R \in SUBSET (Nodes \X Nodes) /\ Reaching(R, reach)
         /\ \A n : callees(n) \subseteq Nodes /\ \A y : y \in callees(n) <=> <<n, y>> \in R
         /\ \A n, x : x \in callers(n) <=> <<x, n>> \in R
         /\ Calling \subseteq Nodes /\ \A x : x \in Calling <=> \E y : <<x, y>> \in R
         /\ Calling = {p[1] : p \in R}
<1>1. R \in SUBSET (Nodes \X Nodes)
  <2>1. edges \subseteq Nodes \X Nodes \X Kinds
    BY GraphAssumption
  <2>2. \A e \in edges : e[1] \in Nodes /\ e[2] \in Nodes
    BY <2>1
  <2> QED BY <2>2 DEF Calls, Pairs
<1>2. Reaching(R, reach)
  BY <1>1, ReachIs DEF ReachMap
<1>3. \A p \in R : p = <<p[1], p[2]>> /\ p[1] \in Nodes /\ p[2] \in Nodes
  BY <1>1
<1>4. R = Pairs(edges, {"call"})
  BY DEF Calls
<1>5. \A n : callees(n) \subseteq Nodes /\ \A y : y \in callees(n) <=> <<n, y>> \in R
  <2>1. \A n, y : y \in callees(n) <=> \E p \in R : p[1] = n /\ y = p[2]
    BY <1>4 DEF callees
  <2>2. \A n, y : y \in callees(n) <=> <<n, y>> \in R
    BY <1>3, <2>1
  <2> QED BY <1>3, <2>1, <2>2
<1>6. \A n, x : x \in callers(n) <=> <<x, n>> \in R
  <2>1. \A n, x : x \in callers(n) <=> \E p \in R : p[2] = n /\ x = p[1]
    BY <1>4 DEF callers
  <2> QED BY <1>3, <2>1
<1>7. Calling = {p[1] : p \in R}
  BY <1>4 DEF Calling
<1>8. Calling \subseteq Nodes /\ \A x : x \in Calling <=> \E y : <<x, y>> \in R
  <2>1. ASSUME NEW x \in Calling PROVE x \in Nodes /\ \E y : <<x, y>> \in R
    <3>1. PICK p \in R : x = p[1]
      BY <1>7
    <3> QED BY <1>3, <3>1, Zenon
  <2>2. ASSUME NEW x, NEW y, <<x, y>> \in R PROVE x \in Calling
    BY <1>7, <2>2
  <2> QED BY <2>1, <2>2, Zenon
<1> QED BY <1>1, <1>2, <1>5, <1>6, <1>7, <1>8, Zenon

LEMMA CyclesGoOn ==
  ASSUME CyclesInv, NEW job, Running(job), NEW r, Continue(r),
         job = "cycles" => CyclesRun(edges, r)
  PROVE  CyclesInv'
<1>1. ask.job = job /\ answer = NoAnswer
  BY DEF Running
<1>2. edges' = edges /\ ask' = ask /\ answer' = answer /\ run' = r
  BY DEF Continue
<1>3. (ask.job = "cycles" => edges \in Graphs)'
  BY <1>2 DEF CyclesInv
<1>4. (Running("cycles") => CyclesRun(edges, run))'
  BY <1>1, <1>2 DEF Running
<1>5. CyclesAreComponents'
  BY <1>1, <1>2 DEF CyclesAreComponents, Answered
<1> QED BY <1>3, <1>4, <1>5 DEF CyclesInv

LEMMA CyclesReturn ==
  ASSUME CyclesInv, NEW job, Running(job), NEW v, Return(v),
         job = "cycles" => CyclesAnswer(edges, v)
  PROVE  CyclesInv'
<1>1. edges' = edges /\ ask' = ask /\ answer' = [found |-> TRUE, value |-> v] /\ ask.job = job
  BY DEF Return, Running
<1>2. answer' # NoAnswer /\ answer'.value = v
  BY <1>1 DEF NoAnswer
<1>3. (ask.job = "cycles" => edges \in Graphs)'
  BY <1>1 DEF CyclesInv
<1>4. ~ Running("cycles")'
  BY <1>2 DEF Running
<1>5. CyclesAreComponents'
  <2>1. CASE job = "cycles"
    <3>1. CyclesAnswer(edges, v)
      BY <2>1
    <3>2. Calling = {p[1] : p \in Calls(edges)} /\ Calling' = Calling
      BY <1>1 DEF Calling, Calls
    <3> DEFINE R == Pairs(edges', {"call"})
               reach == [n \in Nodes |-> Reached(R, n)]
               w == answer'.value
    <3>3. /\ w.cycles = {Class(reach, n) : n \in {x \in Nodes : Class(reach, x) # {x}}}
          /\ Calling' \subseteq UNION {reach[n] : n \in w.orphans \cup (UNION w.cycles)
                                                      \cup {n \in Nodes : <<n, n>> \in R}}
      <4>1. R = Calls(edges) /\ reach = ReachMap(R) /\ w = v
        BY <1>1, <1>2 DEF Calls, ReachMap
      <4>2. Calling' = {p[1] : p \in R}
        BY <3>2, <4>1
      <4> HIDE DEF R, reach, w
      <4>3. CyclesAre(R, reach, w.cycles, w.orphans)
        BY <3>1, <4>1 DEF CyclesAnswer
      <4> QED BY ONLY <4>2, <4>3, Zenon DEF CyclesAre, Components, Roots
    <3>4. /\ w.cycles = {{m \in reach[n] : n \in reach[m]} :
                         n \in {x \in Nodes : {m \in reach[x] : x \in reach[m]} # {x}}}
          /\ Calling' \subseteq UNION {reach[n] : n \in w.orphans \cup (UNION w.cycles)
                                                      \cup {n \in Nodes : <<n, n>> \in R}}
      <4> HIDE DEF R, reach, w
      <4> QED BY ONLY <3>3, Zenon DEF Class
    <3> QED BY ONLY <3>4, Zenon DEF CyclesAreComponents
  <2>2. CASE job # "cycles"
    BY <1>1, <2>2 DEF CyclesAreComponents, Answered
  <2> QED BY <2>1, <2>2
<1> QED BY <1>3, <1>4, <1>5 DEF CyclesInv

LEMMA NextRootKeeps == CyclesInv /\ NextRoot => CyclesInv'
<1> SUFFICES ASSUME CyclesInv, NextRoot PROVE CyclesInv'
  OBVIOUS
<1>1. PICK R, reach, rest : R = Calls(edges) /\ reach = ReachMap(R) /\ rest = Calling \ DOMAIN run.index
  BY Zenon
<1>2. PICK k, G, r : /\ k = Least(rest) /\ G = <<[node |-> k, entered |-> FALSE, todo |-> <<>>]>>
                     /\ r = [run EXCEPT !.frames = G]
  BY Zenon
<1>3. Running("cycles") /\ run.frames = <<>> /\ rest # {} /\ Continue(r)
  BY <1>1, <1>2 DEF NextRoot
<1>4. edges \in Graphs /\ CyclesRun(edges, run)
  BY <1>3 DEF CyclesInv, Running
<1>5. Reaching(R, reach) /\ Calling \subseteq Nodes
  BY <1>1, <1>4, CallsAre
<1>6. k \in Nodes \ DOMAIN run.index
  <2>1. rest \in SUBSET Nat /\ rest \subseteq Nodes \ DOMAIN run.index
    BY <1>1, <1>5, GraphAssumption, Zenon
  <2> QED BY <1>2, <1>3, <2>1, LeastExists
<1>7. Stacked(R, reach, run.frames, run.index, run.low, run.open, run.comps)
  BY <1>1, <1>4 DEF CyclesRun
<1>8. Stacked(R, reach, G, run.index, run.low, run.open, run.comps)
  BY <1>2, <1>3, <1>5, <1>6, <1>7, RootStacked
<1>9. CyclesRun(edges, r)
  <2>1. r = [frames |-> G, index |-> run.index, low |-> run.low, open |-> run.open, comps |-> run.comps]
    BY <1>2, <1>4, Zenon DEF CyclesRun
  <2> QED BY <1>1, <1>8, <2>1 DEF CyclesRun
<1> QED BY <1>3, <1>9, CyclesGoOn

LEMMA EnterRunKeeps == CyclesInv /\ Enter => CyclesInv'
<1> SUFFICES ASSUME CyclesInv, Enter PROVE CyclesInv'
  OBVIOUS
<1>1. PICK R, reach, fr, n, k :
        /\ R = Calls(edges) /\ reach = ReachMap(R) /\ fr = Last(run.frames) /\ n = fr.node
        /\ k = Cardinality(DOMAIN run.index)
  OBVIOUS
<1>2. PICK todo, jx, mo, G, oq, r :
        /\ todo = Ascending(callees(n)) /\ oq = Append(run.open, n)
        /\ jx = [x \in DOMAIN run.index \cup {n} |-> IF x = n THEN k ELSE run.index[x]]
        /\ mo = [x \in DOMAIN run.low \cup {n} |-> IF x = n THEN k ELSE run.low[x]]
        /\ G = Append(Front(run.frames), [node |-> n, entered |-> TRUE, todo |-> todo])
        /\ r = [run EXCEPT !.index = jx, !.low = mo, !.open = oq, !.frames = G]
  BY Zenon
<1>3. Running("cycles") /\ run.frames # <<>> /\ ~fr.entered
  BY <1>1 DEF Enter
<1>4. edges \in Graphs /\ CyclesRun(edges, run)
  BY <1>3 DEF CyclesInv, Running
<1>5. Reaching(R, reach) /\ callees(n) \subseteq Nodes /\ \A y : y \in callees(n) <=> <<n, y>> \in R
  BY <1>1, <1>4, CallsAre
<1>6. todo \in Seq(Nodes) /\ \A y : y \in ToSet(todo) <=> <<n, y>> \in R
  <2>1. PICK S, c : S = callees(n) /\ c = Cardinality(S)
    OBVIOUS
  <2>2. S \in SUBSET Nat /\ IsFiniteSet(S) /\ S \subseteq Nodes
    BY <1>5, <2>1, GraphAssumption, FS_Subset, Zenon
  <2>3. todo = Ascending(S)
    BY <1>2, <2>1
  <2>4. c \in Nat /\ todo \in [1..c -> S] /\ \A x \in S : \E i \in 1..c : todo[i] = x
    BY <2>1, <2>2, <2>3, AscendingLists
  <2>5. todo \in Seq(Nodes)
    <3>1. todo \in [1..c -> Nodes]
      BY <2>2, <2>4, Zenon
    <3> QED BY <2>4, <3>1
  <2>6. \A y : y \in ToSet(todo) <=> y \in S
    BY <2>4 DEF ToSet
  <2> QED BY <1>5, <2>1, <2>5, <2>6
<1>7. Stacked(R, reach, run.frames, run.index, run.low, run.open, run.comps)
  BY <1>1, <1>4 DEF CyclesRun
<1>8. Stacked(R, reach, G, jx, mo, oq, run.comps)
  <2>1. PICK F, ix, lo, C :
          F = run.frames /\ ix = run.index /\ lo = run.low /\ C = run.comps
    OBVIOUS
  <2>2. /\ F # <<>> /\ ~Last(F).entered /\ n = Last(F).node /\ k = Cardinality(DOMAIN ix)
        /\ jx = [x \in DOMAIN ix \cup {n} |-> IF x = n THEN k ELSE ix[x]]
        /\ mo = [x \in DOMAIN lo \cup {n} |-> IF x = n THEN k ELSE lo[x]]
        /\ G = Append(Front(F), [node |-> n, entered |-> TRUE, todo |-> todo])
        /\ Stacked(R, reach, F, ix, lo, run.open, C)
    BY <1>1, <1>2, <1>3, <1>7, <2>1
  <2>3. Stacked(R, reach, G, jx, mo, Append(run.open, n), C)
    <3>1. NewFrame(R, F, ix, lo, n, todo, k, jx, mo, G)
      BY <1>6, <2>2 DEF NewFrame
    <3> QED BY <1>5, <2>2, <3>1, EnterStacked
  <2> QED BY <1>2, <2>1, <2>3
<1>9. CyclesRun(edges, r)
  <2>1. r = [frames |-> G, index |-> jx, low |-> mo, open |-> oq, comps |-> run.comps]
    BY <1>2, <1>4, Zenon DEF CyclesRun
  <2> QED BY <1>1, <1>8, <2>1 DEF CyclesRun
<1>10. Continue(r)
  BY <1>1, <1>2 DEF Enter
<1> QED BY <1>3, <1>9, <1>10, CyclesGoOn

LEMMA NextChildKeeps == CyclesInv /\ NextChild => CyclesInv'
<1> SUFFICES ASSUME CyclesInv, NextChild PROVE CyclesInv'
  OBVIOUS
<1>1. PICK R, reach, fr, c, fs :
        /\ R = Calls(edges) /\ reach = ReachMap(R) /\ fr = Last(run.frames) /\ c = Head(fr.todo)
        /\ fs = Append(Front(run.frames), [fr EXCEPT !.todo = Tail(@)])
  BY Zenon
<1>2. PICK mo, G, r :
        /\ G = IF c \in DOMAIN run.index THEN fs
               ELSE Append(fs, [node |-> c, entered |-> FALSE, todo |-> <<>>])
        /\ mo = IF c \in DOMAIN run.index /\ c \in ToSet(run.open)
                THEN Lowered(run.low, fr.node, c) ELSE run.low
        /\ r = [run EXCEPT !.frames = G, !.low = mo]
  BY Zenon
<1>3. Running("cycles") /\ run.frames # <<>> /\ fr.entered /\ fr.todo # <<>>
  BY <1>1 DEF NextChild
<1>4. edges \in Graphs /\ CyclesRun(edges, run)
  BY <1>3 DEF CyclesInv, Running
<1>5. Reaching(R, reach)
  BY <1>1, <1>4, CallsAre
<1>6. Stacked(R, reach, run.frames, run.index, run.low, run.open, run.comps)
  BY <1>1, <1>4 DEF CyclesRun
<1>7. Stacked(R, reach, G, run.index, mo, run.open, run.comps)
  <2>1. PICK F, ix, lo, op, C :
          F = run.frames /\ ix = run.index /\ lo = run.low /\ op = run.open /\ C = run.comps
    OBVIOUS
  <2>2. /\ F # <<>> /\ fr = Last(F) /\ fr.entered /\ fr.todo # <<>> /\ c = Head(fr.todo)
        /\ fs = Append(Front(F), [fr EXCEPT !.todo = Tail(@)])
        /\ G = IF c \in DOMAIN ix THEN fs
               ELSE Append(fs, [node |-> c, entered |-> FALSE, todo |-> <<>>])
        /\ mo = IF c \in DOMAIN ix /\ c \in ToSet(op) THEN Lowered(lo, fr.node, c) ELSE lo
        /\ Stacked(R, reach, F, ix, lo, op, C)
    BY <1>1, <1>2, <1>3, <1>6, <2>1
  <2>3. Stacked(R, reach, G, ix, mo, op, C)
    <3>1. Look(F, ix, lo, op, fr, c, fs, G, mo)
      BY <2>2 DEF Look
    <3> QED BY <1>5, <2>2, <3>1, ChildStacked
  <2> QED BY <2>1, <2>3
<1>8. CyclesRun(edges, r)
  <2>1. r = [frames |-> G, index |-> run.index, low |-> mo, open |-> run.open, comps |-> run.comps]
    BY <1>2, <1>4, Zenon DEF CyclesRun
  <2> QED BY <1>1, <1>7, <2>1 DEF CyclesRun
<1>9. Continue(r)
  BY <1>1, <1>2 DEF NextChild
<1> QED BY <1>3, <1>8, <1>9, CyclesGoOn

LEMMA LeaveKeeps == CyclesInv /\ Leave => CyclesInv'
<1> SUFFICES ASSUME CyclesInv, Leave PROVE CyclesInv'
  OBVIOUS
<1>1. PICK R, reach, F, fr, n, at :
        /\ R = Calls(edges) /\ reach = ReachMap(R) /\ F = run.frames /\ fr = Last(F) /\ n = fr.node
        /\ at = CHOOSE i \in 1..Len(run.open) : run.open[i] = n
  OBVIOUS
<1>2. PICK D, oq, mo, r :
        /\ D = IF run.low[n] = run.index[n]
               THEN run.comps \cup {ToSet(SubSeq(run.open, at, Len(run.open)))} ELSE run.comps
        /\ oq = IF run.low[n] = run.index[n] THEN SubSeq(run.open, 1, at - 1) ELSE run.open
        /\ mo = IF Len(F) = 1 THEN run.low ELSE Lowered(run.low, F[Len(F) - 1].node, n)
        /\ r = [run EXCEPT !.frames = Front(F), !.comps = D, !.open = oq, !.low = mo]
  BY Zenon
<1>3. Running("cycles") /\ F # <<>> /\ fr.entered /\ fr.todo = <<>>
  BY <1>1 DEF Leave
<1>4. edges \in Graphs /\ CyclesRun(edges, run)
  BY <1>3 DEF CyclesInv, Running
<1>5. Reaching(R, reach)
  BY <1>1, <1>4, CallsAre
<1>6. Stacked(R, reach, F, run.index, run.low, run.open, run.comps)
  BY <1>1, <1>4 DEF CyclesRun
<1>7. Stacked(R, reach, Front(F), run.index, mo, oq, D)
  <2>1. PICK ix, lo, op, C :
          ix = run.index /\ lo = run.low /\ op = run.open /\ C = run.comps
    OBVIOUS
  <2>2. /\ F # <<>> /\ fr = Last(F) /\ fr.entered /\ fr.todo = <<>> /\ n = fr.node
        /\ at = CHOOSE i \in 1..Len(op) : op[i] = n
        /\ D = IF lo[n] = ix[n] THEN C \cup {ToSet(SubSeq(op, at, Len(op)))} ELSE C
        /\ oq = IF lo[n] = ix[n] THEN SubSeq(op, 1, at - 1) ELSE op
        /\ mo = IF Len(F) = 1 THEN lo ELSE Lowered(lo, F[Len(F) - 1].node, n)
        /\ Stacked(R, reach, F, ix, lo, op, C)
    BY <1>1, <1>2, <1>3, <1>6, <2>1
  <2>3. Stacked(R, reach, Front(F), ix, mo, oq, D)
    <3>1. Quit(F, ix, lo, op, C, fr, n, at, D, oq, mo)
      BY <2>2 DEF Quit
    <3> QED BY <1>5, <2>2, <3>1, LeaveStacked
  <2> QED BY <2>1, <2>3
<1>8. CyclesRun(edges, r)
  <2>1. r = [frames |-> Front(F), index |-> run.index, low |-> mo, open |-> oq, comps |-> D]
    BY <1>2, <1>4, Zenon DEF CyclesRun
  <2> QED BY <1>1, <1>7, <2>1 DEF CyclesRun
<1>9. Continue(r)
  BY <1>1, <1>2 DEF Leave
<1> QED BY <1>3, <1>8, <1>9, CyclesGoOn

-----------------------------------------------------------------------------
LEMMA CyclesEndKeeps == CyclesInv /\ CyclesEnd => CyclesInv'
<1> SUFFICES ASSUME CyclesInv, CyclesEnd PROVE CyclesInv'
  OBVIOUS
<1>1. PICK R, reach, F, D, v :
        /\ R = Calls(edges) /\ reach = ReachMap(R) /\ F = run.frames
        /\ D = {c \in run.comps : Cardinality(c) >= 2} /\ v = [cycles |-> D, orphans |-> orphans]
  BY Zenon
<1>2. Running("cycles") /\ F = <<>> /\ Calling \subseteq DOMAIN run.index /\ Return(v)
  BY <1>1 DEF CyclesEnd
<1>3. edges \in Graphs /\ CyclesRun(edges, run)
  BY <1>2 DEF CyclesInv, Running
<1>4. /\ Reaching(R, reach) /\ \A x : x \in Calling <=> \E y : <<x, y>> \in R
      /\ \A n, x : x \in callers(n) <=> <<x, n>> \in R
  BY <1>1, <1>3, CallsAre, Zenon
<1>5. Tarjan(R, reach, F, run.index, run.low, ToSet(run.open), run.comps) /\ Len(F) = 0
  BY <1>1, <1>2, <1>3 DEF CyclesRun, Stacked
<1>6. Sourced(R, DOMAIN run.index)
  BY <1>2, <1>4, Zenon DEF Sourced
<1>7. Uncalled(R, orphans)
  <2>1. ASSUME NEW n \in Nodes, NEW y, <<n, y>> \in R, \A b : <<b, n>> \notin R PROVE n \in orphans
    <3>1. n \in Calling /\ callers(n) = {}
      BY <1>4, <2>1, Zenon
    <3> QED BY <3>1 DEF orphans
  <2> QED BY <2>1 DEF Uncalled
<1>8. CyclesAre(R, reach, D, orphans)
  BY <1>1, <1>4, <1>5, <1>6, <1>7, CyclesExact
<1>9. CyclesAnswer(edges, v)
  BY <1>1, <1>8 DEF CyclesAnswer
<1> QED BY <1>2, <1>9, CyclesReturn

LEMMA CyclesInitially == GraphInit => CyclesInv
<1> SUFFICES ASSUME GraphInit PROVE CyclesInv
  OBVIOUS
<1>1. edges \in Graphs /\ run = Start(ask) /\ answer = NoAnswer
  BY DEF GraphInit
<1>2. ASSUME ask.job = "cycles" PROVE CyclesRun(edges, run)
  <2>1. PICK e : e = Empty
    OBVIOUS
  <2>2. DOMAIN e = {} /\ e = [x \in DOMAIN e |-> e[x]]
    BY <2>1 DEF Empty
  <2>3. run = [frames |-> <<>>, index |-> e, low |-> e, open |-> <<>>, comps |-> {}]
    BY <1>1, <1>2, <2>1 DEF Start
  <2>4. Tarjan(Calls(edges), ReachMap(Calls(edges)), <<>>, e, e, {}, {})
    BY <2>2, TarjanStarts
  <2>5. ToSet(<<>>) = {} /\ Ordered(e, <<>>) /\ <<>> \in Seq(Frames) /\ <<>> \in Seq(Nodes)
    BY DEF ToSet, Ordered
  <2> QED BY <2>2, <2>3, <2>4, <2>5, Zenon DEF CyclesRun, Stacked
<1> QED BY <1>1, <1>2 DEF CyclesInv, CyclesAreComponents, Answered, Running

\* What CyclesAreComponents says of an answer a.
CyclesBody(E, K, a) ==
  LET R == Pairs(E, {"call"})
      reach == [n \in Nodes |-> Reached(R, n)]
      class(n) == {m \in reach[n] : n \in reach[m]}
      roots == a.value.orphans \cup (UNION a.value.cycles) \cup {n \in Nodes : <<n, n>> \in R}
  IN /\ a.value.cycles = {class(n) : n \in {x \in Nodes : class(x) # {x}}}
     /\ K \subseteq UNION {reach[n] : n \in roots}

LEMMA CyclesStep == CyclesInv /\ [GraphNext]_graphVars => CyclesInv'
<1> SUFFICES ASSUME CyclesInv, [GraphNext]_graphVars PROVE CyclesInv'
  OBVIOUS
<1>1. CASE UNCHANGED graphVars
  <2>1. edges' = edges /\ ask' = ask /\ run' = run /\ answer' = answer
    BY <1>1 DEF graphVars
  <2>2. Calling' = Calling /\ Answered("cycles")' = Answered("cycles")
    BY <2>1 DEF Calling, Answered
  <2>3. CyclesAreComponents'
    <3>1. CyclesAreComponents
      BY DEF CyclesInv
    <3>2. Answered("cycles") => CyclesBody(edges, Calling, answer)
      BY ONLY <3>1, Zenon DEF CyclesAreComponents, CyclesBody
    <3>3. Answered("cycles")' => CyclesBody(edges', Calling', answer')
      BY ONLY <2>1, <2>2, <3>2
    <3> QED BY ONLY <3>3, Zenon DEF CyclesAreComponents, CyclesBody
  <2> QED BY <2>1, <2>3 DEF CyclesInv, Running
<1>2. CASE bfs
  BY <1>2, CyclesGoOn DEF bfs
<1>3. CASE WalkEnds
  BY <1>3, CyclesReturn DEF WalkEnds
<1>4. CASE NextRoot
  BY <1>4, NextRootKeeps
<1>5. CASE Enter
  BY <1>5, EnterRunKeeps
<1>6. CASE NextChild
  BY <1>6, NextChildKeeps
<1>7. CASE Leave
  BY <1>7, LeaveKeeps
<1>8. CASE CyclesEnd
  BY <1>8, CyclesEndKeeps
<1>9. CASE WhyForward
  <2>1. Running("why") /\ ((\E v : Return(v)) \/ (\E r : Continue(r)))
    BY <1>9 DEF WhyForward
  <2> QED BY <2>1, CyclesGoOn, CyclesReturn
<1>10. CASE WhyBackward
  <2>1. Running("why") /\ ((\E v : Return(v)) \/ (\E r : Continue(r)))
    BY <1>10 DEF WhyBackward
  <2> QED BY <2>1, CyclesGoOn, CyclesReturn
<1>11. CASE WhyEnds
  BY <1>11, CyclesReturn DEF WhyEnds
<1>12. CASE NextChanged
  BY <1>12, CyclesGoOn DEF NextChanged
<1>13. CASE BlastRow
  BY <1>13, CyclesGoOn DEF BlastRow
<1>14. CASE BlastEnds
  BY <1>14, CyclesGoOn DEF BlastEnds
<1>15. CASE AffectedEnds
  BY <1>15, CyclesReturn DEF AffectedEnds
<1>16. CASE Wave
  BY <1>16, CyclesGoOn DEF Wave
<1>17. CASE ImportersEnd
  BY <1>17, CyclesReturn DEF ImportersEnd
<1> QED BY <1>1, <1>2, <1>3, <1>4, <1>5, <1>6, <1>7, <1>8, <1>9, <1>10, <1>11, <1>12, <1>13, <1>14,
           <1>15, <1>16, <1>17 DEF GraphNext
=============================================================================
