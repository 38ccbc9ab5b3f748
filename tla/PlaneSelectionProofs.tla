------------------------- MODULE PlaneSelectionProofs -------------------------
(***************************************************************************)
(* Proofs about the selection of planes, for every number of stages and    *)
(* planes, every table of sizes and every width of the knapsack's table.   *)
(***************************************************************************)
EXTENDS MCPlaneSelection, OperatorLemmas

-----------------------------------------------------------------------------
(* Walking back through a table *)

\* A number for each count of planes a stage may keep.
IsTable(c) == \A i \in Lids, k \in Counts : c[i][k] \in Int

\* The knapsack's inputs: costs that are not negative, and a limit.
IsInput(in) ==
  /\ in.limit \in Nat
  /\ \A i \in Lids, k \in Counts : in.cost[i][k] \in Nat

\* Each entry of the table d comes from one of the row above by what some affordable
\* choice for the stage is worth.
Explained(d, v, in) ==
  /\ \A i \in 0 .. NumLids, j \in 0 .. in.limit : d[i][j] \in Int
  /\ \A j \in 0 .. in.limit : d[0][j] = 0
  /\ \A i \in Lids, j \in 0 .. in.limit :
       \E k \in Affordable(in, i, j) : d[i + 1][j] = d[i][j - in.cost[i][k]] + v[i][k]

\* No affordable choice for a stage is worth more than the table says.
Dominates(d, v, in) ==
  /\ \A i \in 0 .. NumLids, j \in 0 .. in.limit : d[i][j] \in Int
  /\ \A j \in 0 .. in.limit : d[0][j] = 0
  /\ \A i \in Lids, j \in 0 .. in.limit :
       \A k \in Affordable(in, i, j) : d[i][j - in.cost[i][k]] + v[i][k] <= d[i + 1][j]

\* Nor less, where the table minimises.
Undercuts(d, v, in) ==
  \A i \in Lids, j \in 0 .. in.limit :
    \A k \in Affordable(in, i, j) : d[i][j - in.cost[i][k]] + v[i][k] >= d[i + 1][j]

\* What each stage adds to the cost of a selection.
Spending(c, sel) == [l \in Lids |-> c[l][sel[l]]]

\* A stage that is decided adds its cost to that of the stages after it.
LEMMA StageDecided ==
  ASSUME NEW c, IsTable(c), NEW sel \in [Lids -> Counts], NEW l \in Lids, NEW k \in Counts
  PROVE  /\ SumFunctionOnSet(Spending(c, sel), l + 1 .. NumLids - 1) \in Int
         /\ SumFunctionOnSet(Spending(c, [sel EXCEPT ![l] = k]), l .. NumLids - 1)
              = c[l][k] + SumFunctionOnSet(Spending(c, sel), l + 1 .. NumLids - 1)
<1> DEFINE J == l + 1 .. NumLids - 1
           u == Spending(c, [sel EXCEPT ![l] = k])
           w == Spending(c, sel)
<1>1. NumLids \in Nat /\ l \in Nat /\ l <= NumLids - 1
  BY SelectionAssumption DEF Lids
<1>2. IsFiniteSet(J)
  BY <1>1, FS_Interval
<1>3. J \subseteq Lids /\ l \notin J /\ l .. NumLids - 1 = {l} \cup J
  BY <1>1 DEF Lids
<1>4. \A i \in J : w[i] \in Int /\ u[i] = w[i]
  BY <1>3 DEF Spending, IsTable
<1>5. u[l] = c[l][k] /\ u[l] \in Int
  BY DEF Spending, IsTable
<1> HIDE DEF J, u, w
<1>6. SumFunctionOnSet(u, J) = SumFunctionOnSet(w, J)
  BY <1>2, <1>4, SumAlike
<1>7. SumFunctionOnSet(w, J) \in Int
  <2>1. \A i \in J : w[i] \in Int
    BY <1>4
  <2>2. J \in SUBSET J
    OBVIOUS
  <2> QED BY <1>2, <2>1, <2>2, SumByChoice
<1>8. SumFunctionOnSet(u, {l} \cup J) = u[l] + SumFunctionOnSet(u, J)
  <2>1. \A i \in J : u[i] \in Int
    BY <1>4
  <2> QED BY <1>2, <1>3, <1>5, <2>1, SumAdd
<1>9. SumFunctionOnSet(u, l .. NumLids - 1) = c[l][k] + SumFunctionOnSet(w, J)
  BY <1>3, <1>5, <1>6, <1>8, Zenon
<1> QED BY <1>7, <1>9 DEF J, u, w

\* The walk back through a table whose entries are all explained finds a selection
\* within the limit that is worth what the table's last entry says.
LEMMA WalkFindsSelection ==
  ASSUME NEW d, NEW v, NEW in, IsTable(v), IsInput(in), Explained(d, v, in)
  PROVE  /\ WalkBack(d, v, in) \in [Lids -> Counts]
         /\ Cost(in.cost, WalkBack(d, v, in)) <= in.limit
         /\ Cost(v, WalkBack(d, v, in)) = d[NumLids][in.limit]
<1> DEFINE L == in.limit
           T == [rem : 0 .. L, kept : [Lids -> Counts]]
           start == [rem |-> L, kept |-> [l \in Lids |-> 0]]
           Explain(w, l) == {k \in Affordable(in, l, w.rem) :
                               d[l + 1][w.rem] = d[l][w.rem - in.cost[l][k]] + v[l][k]}
           Step(w, l) == IF Explain(w, l) = {} THEN w
                         ELSE [rem  |-> w.rem - in.cost[l][Min(Explain(w, l))],
                               kept |-> [w.kept EXCEPT ![l] = Min(Explain(w, l))]]
           Body(h) == [n \in 0 .. NumLids |->
                         IF n = 0 THEN start ELSE Step(h[n - 1], NumLids - n)]
           walk == CHOOSE h : h = Body(h)
           F == [p \in T \X (0 .. NumLids - 1) |-> Step(p[1], NumLids - (p[2] + 1))]
<1>1. WalkBack(d, v, in) = walk[NumLids].kept
  BY Zenon DEF WalkBack
<1>2. NumLids \in Nat /\ L \in Nat /\ 0 \in Counts /\ Counts \subseteq Nat
  BY SelectionAssumption DEF IsInput, Counts
<1>3. start \in T
  BY <1>2
<1>4. ASSUME NEW w \in T, NEW l \in Lids
      PROVE  \E k \in Counts : /\ in.cost[l][k] <= w.rem
                               /\ d[l + 1][w.rem] = d[l][w.rem - in.cost[l][k]] + v[l][k]
                               /\ Step(w, l) = [rem  |-> w.rem - in.cost[l][k],
                                                kept |-> [w.kept EXCEPT ![l] = k]]
  <2>1. w.rem \in 0 .. L
    OBVIOUS
  <2>2. Explain(w, l) # {}
    BY <2>1 DEF Explained
  <2>3. Explain(w, l) \subseteq Counts
    BY DEF Affordable
  <2> DEFINE k == Min(Explain(w, l))
  <2>4. k \in Explain(w, l)
    <3> HIDE DEF Explain
    <3>1. Explain(w, l) \subseteq Nat
      BY <1>2, <2>3
    <3> QED BY <2>2, <3>1, MinIs
  <2>5. Step(w, l) = [rem |-> w.rem - in.cost[l][k], kept |-> [w.kept EXCEPT ![l] = k]]
    <3> HIDE DEF Explain
    <3> QED BY <2>2, Zenon
  <2>6. k \in Counts /\ in.cost[l][k] <= w.rem
    <3> HIDE DEF k
    <3> QED BY <2>4 DEF Affordable
  <2>7. d[l + 1][w.rem] = d[l][w.rem - in.cost[l][k]] + v[l][k]
    <3> HIDE DEF k
    <3> QED BY <2>4
  <2> HIDE DEF k, Step, Explain
  <2> QED BY <2>5, <2>6, <2>7
<1> HIDE DEF Step
<1>5. ASSUME NEW w \in T, NEW l \in Lids PROVE Step(w, l) \in T
  <2>1. PICK k \in Counts : /\ in.cost[l][k] <= w.rem
                            /\ Step(w, l) = [rem  |-> w.rem - in.cost[l][k],
                                             kept |-> [w.kept EXCEPT ![l] = k]]
    BY <1>4
  <2>2. in.cost[l][k] \in Nat /\ w.rem \in 0 .. L
    BY DEF IsInput
  <2>3. w.rem - in.cost[l][k] \in 0 .. L
    BY <1>2, <2>1, <2>2
  <2>4. [w.kept EXCEPT ![l] = k] \in [Lids -> Counts]
    OBVIOUS
  <2> HIDE DEF L
  <2> QED BY <2>1, <2>3, <2>4
<1>6. F \in [T \X (0 .. NumLids - 1) -> T]
  <2>1. ASSUME NEW p \in T \X (0 .. NumLids - 1) PROVE Step(p[1], NumLids - (p[2] + 1)) \in T
    <3>1. p[1] \in T /\ NumLids - (p[2] + 1) \in Lids
      BY <1>2 DEF Lids
    <3> HIDE DEF T
    <3> QED BY <1>5, <3>1
  <2> HIDE DEF T
  <2> QED BY <2>1
<1>7. PICK f \in [0 .. NumLids -> T] : RecursUpTo(NumLids, start, F, f)
  <2> HIDE DEF F, T, start
  <2> QED BY <1>2, <1>3, <1>6, BoundedRecursion, Zenon
<1>8. f = Body(f)
  <2>1. ASSUME NEW n \in 0 .. NumLids
        PROVE  f[n] = IF n = 0 THEN start ELSE Step(f[n - 1], NumLids - n)
    <3>1. CASE n = 0
      BY <1>7, <3>1 DEF RecursUpTo
    <3>2. CASE n # 0
      <4>1. n - 1 \in 0 .. NumLids - 1 /\ (n - 1) + 1 = n /\ f[n - 1] \in T
        BY <3>2, <1>2
      <4>2. f[(n - 1) + 1] = F[<<f[n - 1], n - 1>>]
        BY <1>7, <4>1 DEF RecursUpTo
      <4>3. F[<<f[n - 1], n - 1>>] = Step(f[n - 1], NumLids - ((n - 1) + 1))
        <5> HIDE DEF T
        <5> QED BY <4>1
      <4> HIDE DEF F
      <4> QED BY <3>2, <4>1, <4>2, <4>3
    <3> QED BY <3>1, <3>2
  <2> HIDE DEF start, T
  <2> QED BY <2>1
<1>9. walk = Body(walk)
  <2> HIDE DEF Body
  <2> QED BY <1>8, Zenon
<1> HIDE DEF walk
<1>10. walk[0] = start
  <2> HIDE DEF start
  <2>1. 0 \in 0 .. NumLids
    BY <1>2
  <2> QED BY <1>9, <2>1
<1>11. ASSUME NEW n \in 0 .. NumLids - 1
       PROVE  walk[n + 1] = Step(walk[n], NumLids - (n + 1))
  <2> HIDE DEF start
  <2>1. n + 1 \in 0 .. NumLids /\ n + 1 # 0 /\ (n + 1) - 1 = n
    BY <1>2
  <2> QED BY <1>9, <2>1
<1> DEFINE Spent(c, n) == SumFunctionOnSet(Spending(c, walk[n].kept), NumLids - n .. NumLids - 1)
           N == {n \in Nat : n <= NumLids =>
                   /\ walk[n] \in T
                   /\ Spent(in.cost, n) = L - walk[n].rem
                   /\ Spent(v, n) = d[NumLids][L] - d[NumLids - n][walk[n].rem]}
<1>a. IsTable(in.cost)
  BY DEF IsInput, IsTable
<1>12. 0 \in N
  <2>1. walk[0].rem = L /\ NumLids - 0 = NumLids /\ NumLids .. NumLids - 1 = {}
    BY <1>2, <1>10
  <2>2. \A w : SumFunctionOnSet(w, {}) = 0
    BY FS_EmptySet, SumByChoice
  <2>3. d[NumLids][L] \in Int
    <3>1. NumLids \in 0 .. NumLids /\ L \in 0 .. L
      BY <1>2
    <3> QED BY <3>1 DEF Explained
  <2>4. Spent(in.cost, 0) = 0 /\ Spent(v, 0) = 0
    BY <2>1, <2>2
  <2>5. L - L = 0 /\ d[NumLids][L] - d[NumLids][L] = 0
    BY <1>2, <2>3
  <2> HIDE DEF Spent, T, L
  <2> QED BY <1>3, <1>10, <2>1, <2>4, <2>5
<1>13. ASSUME NEW n \in Nat, n \in N PROVE n + 1 \in N
  <2> SUFFICES ASSUME n + 1 <= NumLids
               PROVE  /\ walk[n + 1] \in T
                      /\ Spent(in.cost, n + 1) = L - walk[n + 1].rem
                      /\ Spent(v, n + 1) = d[NumLids][L] - d[NumLids - (n + 1)][walk[n + 1].rem]
    OBVIOUS
  <2> DEFINE l == NumLids - (n + 1)
             w == walk[n]
  <2>1. n \in 0 .. NumLids - 1 /\ n <= NumLids /\ l \in Lids /\ l + 1 = NumLids - n
    BY <1>2 DEF Lids
  <2>2. /\ w \in T
        /\ Spent(in.cost, n) = L - w.rem
        /\ Spent(v, n) = d[NumLids][L] - d[l + 1][w.rem]
    BY <1>13, <2>1
  <2>3. w.rem \in 0 .. L /\ w.kept \in [Lids -> Counts]
    BY <2>2
  <2>4. walk[n + 1] = Step(w, l)
    BY <1>11, <2>1
  <2>5. PICK k \in Counts : /\ in.cost[l][k] <= w.rem
                            /\ d[l + 1][w.rem] = d[l][w.rem - in.cost[l][k]] + v[l][k]
                            /\ Step(w, l) = [rem  |-> w.rem - in.cost[l][k],
                                             kept |-> [w.kept EXCEPT ![l] = k]]
    <3> HIDE DEF l, w, T
    <3> QED BY <1>4, <2>1, <2>2
  <2>6. walk[n + 1] \in T
    <3> HIDE DEF l, w, T
    <3> QED BY <1>5, <2>1, <2>2, <2>4
  <2>7. walk[n + 1].rem = w.rem - in.cost[l][k] /\ walk[n + 1].kept = [w.kept EXCEPT ![l] = k]
    <3> HIDE DEF l, w
    <3> QED BY <2>4, <2>5
  <2>8. ASSUME NEW c, IsTable(c)
        PROVE  Spent(c, n) \in Int /\ Spent(c, n + 1) = c[l][k] + Spent(c, n)
    <3>1. /\ SumFunctionOnSet(Spending(c, w.kept), l + 1 .. NumLids - 1) \in Int
          /\ SumFunctionOnSet(Spending(c, [w.kept EXCEPT ![l] = k]), l .. NumLids - 1)
              = c[l][k] + SumFunctionOnSet(Spending(c, w.kept), l + 1 .. NumLids - 1)
      <4> HIDE DEF l, w
      <4> QED BY <2>1, <2>3, <2>8, StageDecided
    <3> QED BY <2>1, <2>7, <3>1, Zenon
  <2> HIDE DEF Spent
  <2>9. Spent(in.cost, n + 1) = L - walk[n + 1].rem
    <3>1. in.cost[l][k] \in Nat
      BY <2>1 DEF IsInput
    <3>2. Spent(in.cost, n + 1) = in.cost[l][k] + Spent(in.cost, n)
      BY <1>a, <2>8
    <3>3. L \in Nat /\ w.rem \in 0 .. L
      BY <1>2, <2>3
    <3> HIDE DEF l, w, L
    <3>4. w.rem \in Nat
      BY <3>3
    <3>5. PICK c \in Nat, r \in Nat, m \in Nat : c = in.cost[l][k] /\ r = w.rem /\ m = L
      BY <3>1, <3>3, <3>4, Zenon
    <3>6. walk[n + 1].rem = r - c /\ Spent(in.cost, n) = L - r
      BY <2>2, <2>7, <3>5, Zenon
    <3>7. c + (m - r) = m - (r - c)
      OBVIOUS
    <3> QED BY <3>2, <3>5, <3>6, <3>7, Zenon
  <2>10. Spent(v, n + 1) = d[NumLids][L] - d[l][walk[n + 1].rem]
    <3>1. v[l][k] \in Int
      BY <2>1 DEF IsTable
    <3>2. walk[n + 1].rem \in 0 .. L
      BY <2>6
    <3>3. NumLids \in 0 .. NumLids /\ L \in 0 .. L /\ l \in 0 .. NumLids /\ l + 1 \in 0 .. NumLids
      BY <1>2, <2>1 DEF Lids
    <3> HIDE DEF l, w
    <3>4. PICK a \in Int, b \in Int, e \in Int :
            a = d[NumLids][L] /\ b = d[l + 1][w.rem] /\ e = d[l][walk[n + 1].rem]
      BY <2>3, <3>2, <3>3 DEF Explained
    <3>5. Spent(v, n + 1) = v[l][k] + Spent(v, n)
      BY <2>8
    <3>6. b = e + v[l][k]
      BY <2>5, <2>7, <3>4
    <3>7. Spent(v, n) = a - b
      BY <2>2, <3>4
    <3>8. PICK g \in Int : g = v[l][k]
      BY <3>1
    <3>9. g + (a - (e + g)) = a - e
      OBVIOUS
    <3>10. Spent(v, n + 1) = g + (a - (e + g))
      BY <3>5, <3>6, <3>7, <3>8, Zenon
    <3> QED BY <3>4, <3>9, <3>10, Zenon
  <2> QED BY <2>6, <2>9, <2>10
<1> HIDE DEF N
<1>14. Nat \subseteq N
  BY <1>12, <1>13, SetInduction
<1>15. NumLids \in N /\ NumLids <= NumLids /\ NumLids - NumLids = 0
  BY <1>2, <1>14
<1>16. /\ walk[NumLids] \in T
       /\ Spent(in.cost, NumLids) = L - walk[NumLids].rem
       /\ Spent(v, NumLids) = d[NumLids][L] - d[0][walk[NumLids].rem]
  <2> HIDE DEF Spent, T, L
  <2> QED BY <1>15 DEF N
<1>17. walk[NumLids].rem \in 0 .. L /\ walk[NumLids].kept \in [Lids -> Counts]
  BY <1>16
<1>18. d[0][walk[NumLids].rem] = 0 /\ d[NumLids][L] \in Int
  <2>1. NumLids \in 0 .. NumLids /\ L \in 0 .. L
    BY <1>2
  <2> QED BY <1>17, <2>1 DEF Explained
<1>19. \A c : Spent(c, NumLids) = Cost(c, walk[NumLids].kept)
  BY <1>15 DEF Cost, Spending, Lids
<1> HIDE DEF Spent
<1>20. Cost(in.cost, walk[NumLids].kept) <= L
  BY <1>2, <1>16, <1>17, <1>19
<1>21. Cost(v, walk[NumLids].kept) = d[NumLids][L]
  BY <1>16, <1>18, <1>19
<1> QED BY <1>1, <1>17, <1>20, <1>21

\* No selection within the limit is worth more than the last entry of a table that
\* dominates every choice.
LEMMA NothingBetter ==
  ASSUME NEW d, NEW v, NEW in, IsTable(v), IsInput(in), Dominates(d, v, in),
         NEW sel \in [Lids -> Counts], Cost(in.cost, sel) <= in.limit
  PROVE  Cost(v, sel) \in Int /\ Cost(v, sel) <= d[NumLids][in.limit]
<1> DEFINE L == in.limit
           Spent(n) == SumFunctionOnSet(Spending(in.cost, sel), 0 .. n - 1)
           Worth(n) == SumFunctionOnSet(Spending(v, sel), 0 .. n - 1)
           N == {n \in Nat : n <= NumLids =>
                   /\ Spent(n) \in Nat /\ Worth(n) \in Int
                   /\ \A j \in 0 .. L : Spent(n) <= j => Worth(n) <= d[n][j]}
<1>1. NumLids \in Nat /\ L \in Nat
  BY SelectionAssumption DEF IsInput
<1>2. ASSUME NEW n \in Lids
      PROVE  /\ in.cost[n][sel[n]] \in Nat /\ v[n][sel[n]] \in Int
             /\ Spent(n + 1) = in.cost[n][sel[n]] + Spent(n)
             /\ Worth(n + 1) = v[n][sel[n]] + Worth(n)
  <2>1. \A i \in 0 .. n : /\ Spending(in.cost, sel)[i] = in.cost[i][sel[i]]
                          /\ Spending(v, sel)[i] = v[i][sel[i]]
                          /\ in.cost[i][sel[i]] \in Nat /\ v[i][sel[i]] \in Int
    BY <1>1 DEF Lids, Spending, IsInput, IsTable
  <2>2. n \in Nat /\ (n + 1) - 1 = n /\ n \in 0 .. n
    BY <1>1 DEF Lids
  <2>3. SumFunctionOnSet(Spending(in.cost, sel), 0 .. n)
          = Spending(in.cost, sel)[n] + Spent(n)
    <3>1. \A i \in 0 .. n : Spending(in.cost, sel)[i] \in Int
      BY <2>1
    <3> QED BY <2>2, <3>1, SumUpTo
  <2>4. SumFunctionOnSet(Spending(v, sel), 0 .. n) = Spending(v, sel)[n] + Worth(n)
    <3>1. \A i \in 0 .. n : Spending(v, sel)[i] \in Int
      BY <2>1
    <3> QED BY <2>2, <3>1, SumUpTo
  <2> QED BY <2>1, <2>2, <2>3, <2>4
<1>3. Spent(0) = 0 /\ Worth(0) = 0
  <2>1. \A w : SumFunctionOnSet(w, {}) = 0
    BY FS_EmptySet, SumByChoice
  <2>2. 0 .. 0 - 1 = {}
    OBVIOUS
  <2> QED BY <2>1, <2>2
<1>a. Cost(in.cost, sel) = Spent(NumLids) /\ Cost(v, sel) = Worth(NumLids)
  BY DEF Cost, Spending, Lids
<1> HIDE DEF Spent, Worth
<1>4. 0 \in N
  BY <1>3 DEF Dominates
<1>5. ASSUME NEW n \in Nat, n \in N PROVE n + 1 \in N
  <2> SUFFICES ASSUME n + 1 <= NumLids
               PROVE  /\ Spent(n + 1) \in Nat /\ Worth(n + 1) \in Int
                      /\ \A j \in 0 .. L : Spent(n + 1) <= j => Worth(n + 1) <= d[n + 1][j]
    OBVIOUS
  <2>1. n \in Lids /\ n <= NumLids
    BY <1>1 DEF Lids
  <2> DEFINE c == in.cost[n][sel[n]]
             g == v[n][sel[n]]
  <2>2. c \in Nat /\ g \in Int /\ Spent(n + 1) = c + Spent(n) /\ Worth(n + 1) = g + Worth(n)
    BY <1>2, <2>1
  <2>3. /\ Spent(n) \in Nat /\ Worth(n) \in Int
        /\ \A j \in 0 .. L : Spent(n) <= j => Worth(n) <= d[n][j]
    BY <1>5, <2>1
  <2>4. ASSUME NEW j \in 0 .. L, Spent(n + 1) <= j PROVE Worth(n + 1) <= d[n + 1][j]
    <3>1. sel[n] \in Affordable(in, n, j)
      <4>1. sel[n] \in Counts /\ in.cost[n][sel[n]] <= j
        BY <2>1, <2>2, <2>3, <2>4
      <4> QED BY <4>1 DEF Affordable
    <3>2. j - c \in 0 .. L /\ Spent(n) <= j - c
      <4> HIDE DEF c, g
      <4> QED BY <1>1, <2>2, <2>3, <2>4
    <3>3. d[n][j - c] + g <= d[n + 1][j]
      BY <2>1, <3>1 DEF Dominates
    <3>4. Worth(n) <= d[n][j - c]
      BY <2>3, <3>2
    <3>5. d[n][j - c] \in Int /\ d[n + 1][j] \in Int
      <4>1. n \in 0 .. NumLids /\ n + 1 \in 0 .. NumLids
        BY <1>1, <2>1 DEF Lids
      <4> HIDE DEF c
      <4> QED BY <3>2, <4>1 DEF Dominates
    <3> HIDE DEF c, g
    <3> QED BY <2>2, <2>3, <3>3, <3>4, <3>5
  <2> HIDE DEF c, g
  <2> QED BY <2>2, <2>3, <2>4
<1> HIDE DEF N
<1>6. Nat \subseteq N
  BY <1>4, <1>5, SetInduction
<1>7. NumLids \in N /\ NumLids <= NumLids /\ L \in 0 .. L
  BY <1>1, <1>6
<1> QED BY <1>7, <1>a DEF N

-----------------------------------------------------------------------------
(* The table of the error mode *)

\* A row of the table from the one above it: the code's two inner loops.
Row(v, in, above, i) ==
  [j \in 0 .. in.limit |->
     Max({0} \cup {above[j - in.cost[i][k]] + v[i][k] : k \in Affordable(in, i, j)})]

\* Each entry of a row is the most that an affordable choice makes of the row above:
\* one choice at least costs nothing.
LEMMA RowIsLargest ==
  ASSUME NEW v, NEW in, IsInput(in), \A i \in Lids, k \in Counts : v[i][k] \in Nat,
         \A i \in Lids : in.cost[i][Planes] = 0,
         NEW above \in [0 .. in.limit -> Nat], NEW i \in Lids
  PROVE  /\ Row(v, in, above, i) \in [0 .. in.limit -> Nat]
         /\ \A j \in 0 .. in.limit :
              /\ \E k \in Affordable(in, i, j) :
                   Row(v, in, above, i)[j] = above[j - in.cost[i][k]] + v[i][k]
              /\ \A k \in Affordable(in, i, j) :
                   above[j - in.cost[i][k]] + v[i][k] <= Row(v, in, above, i)[j]
<1>1. Planes \in Counts /\ IsFiniteSet(Counts) /\ in.limit \in Nat
  BY SelectionAssumption, FS_Interval DEF Counts, IsInput
<1>2. ASSUME NEW j \in 0 .. in.limit
      PROVE  /\ Row(v, in, above, i)[j] \in Nat
             /\ \E k \in Affordable(in, i, j) :
                  Row(v, in, above, i)[j] = above[j - in.cost[i][k]] + v[i][k]
             /\ \A k \in Affordable(in, i, j) :
                  above[j - in.cost[i][k]] + v[i][k] <= Row(v, in, above, i)[j]
  <2> DEFINE I == Affordable(in, i, j)
             w == [k \in I |-> above[j - in.cost[i][k]] + v[i][k]]
             S == {0} \cup {above[j - in.cost[i][k]] + v[i][k] : k \in I}
  <2>1. Planes \in I
    BY <1>1 DEF Affordable
  <2>2. IsFiniteSet(I)
    <3>1. I \subseteq Counts
      BY DEF Affordable
    <3> QED BY <1>1, <3>1, FS_Subset
  <2>3. ASSUME NEW k \in I PROVE w[k] \in Nat
    <3>1. k \in Counts /\ in.cost[i][k] \in Nat /\ in.cost[i][k] <= j
      BY DEF Affordable, IsInput
    <3>2. j - in.cost[i][k] \in 0 .. in.limit /\ v[i][k] \in Nat
      BY <1>1, <3>1
    <3>3. above[j - in.cost[i][k]] \in Nat
      BY <3>2
    <3> HIDE DEF I
    <3> QED BY <3>2, <3>3
  <2>4. PICK k \in I : \A m \in I : w[m] <= w[k]
    <3>1. \A m \in I : w[m] \in Int
      BY <2>3
    <3> HIDE DEF w, I
    <3> QED BY <2>1, <2>2, <3>1, LargestExists
  <2>5. S \subseteq Int /\ w[k] \in S /\ \A y \in S : y <= w[k]
    <3>1. S = {0} \cup {w[m] : m \in I}
      OBVIOUS
    <3> HIDE DEF w, I, S
    <3> QED BY <2>3, <2>4, <3>1
  <2>6. Max(S) = w[k]
    <3> HIDE DEF w, I, S
    <3> QED BY <2>5, MaxIs
  <2>7. Row(v, in, above, i)[j] = w[k]
    <3>1. Row(v, in, above, i)[j] = Max(S)
      BY DEF Row
    <3> HIDE DEF w, I, S
    <3> QED BY <2>6, <3>1
  <2>8. \A m \in I : w[m] = above[j - in.cost[i][m]] + v[i][m]
    OBVIOUS
  <2> HIDE DEF w, S
  <2> QED BY <2>3, <2>4, <2>7, <2>8
<1>3. Row(v, in, above, i) = [j \in 0 .. in.limit |-> Row(v, in, above, i)[j]]
  BY DEF Row
<1> QED BY <1>2, <1>3

\* The table of strategy() is explained, and dominates every choice.
LEMMA TableIsSolved ==
  ASSUME NEW v, NEW in, IsInput(in), \A i \in Lids, k \in Counts : v[i][k] \in Nat,
         \A i \in Lids : in.cost[i][Planes] = 0
  PROVE  Explained(DpTable(v, in), v, in) /\ Dominates(DpTable(v, in), v, in)
<1> DEFINE T == [0 .. in.limit -> Nat]
           start == [j \in 0 .. in.limit |-> 0]
           Body(h) == [i \in 0 .. NumLids |->
                         IF i = 0 THEN start ELSE Row(v, in, h[i - 1], i - 1)]
           dp == CHOOSE h : h = Body(h)
           F == [p \in T \X (0 .. NumLids - 1) |-> Row(v, in, p[1], p[2])]
<1>1. DpTable(v, in) = dp
  BY Zenon DEF DpTable, Row
<1>2. NumLids \in Nat /\ start \in T
  BY SelectionAssumption
<1>3. F \in [T \X (0 .. NumLids - 1) -> T]
  <2>1. ASSUME NEW x \in T, NEW i \in Lids PROVE Row(v, in, x, i) \in T
    BY RowIsLargest
  <2> HIDE DEF T
  <2>2. \A p \in T \X (0 .. NumLids - 1) : p[1] \in T /\ p[2] \in Lids
    BY DEF Lids
  <2> QED BY <2>1, <2>2
<1>4. PICK f \in [0 .. NumLids -> T] : RecursUpTo(NumLids, start, F, f)
  <2> HIDE DEF F, T, start
  <2> QED BY <1>2, <1>3, BoundedRecursion, Zenon
<1>5. f = Body(f)
  <2>1. ASSUME NEW n \in 0 .. NumLids
        PROVE  f[n] = IF n = 0 THEN start ELSE Row(v, in, f[n - 1], n - 1)
    <3>1. CASE n = 0
      BY <1>4, <3>1 DEF RecursUpTo
    <3>2. CASE n # 0
      <4>1. n - 1 \in 0 .. NumLids - 1 /\ (n - 1) + 1 = n /\ f[n - 1] \in T
        BY <3>2, <1>2
      <4>2. f[(n - 1) + 1] = F[<<f[n - 1], n - 1>>]
        BY <1>4, <4>1 DEF RecursUpTo
      <4>3. F[<<f[n - 1], n - 1>>] = Row(v, in, f[n - 1], n - 1)
        <5> HIDE DEF T
        <5> QED BY <4>1
      <4> HIDE DEF F
      <4> QED BY <3>2, <4>1, <4>2, <4>3
    <3> QED BY <3>1, <3>2
  <2> HIDE DEF start, T
  <2> QED BY <2>1
<1>6. dp = Body(dp)
  <2> HIDE DEF Body
  <2> QED BY <1>5, Zenon
<1> HIDE DEF dp
<1>7. dp[0] = start
  <2> HIDE DEF start
  <2>1. 0 \in 0 .. NumLids
    BY <1>2
  <2> QED BY <1>6, <2>1
<1>8. ASSUME NEW n \in Lids PROVE dp[n + 1] = Row(v, in, dp[n], n)
  <2> HIDE DEF start
  <2>1. n + 1 \in 0 .. NumLids /\ n + 1 # 0 /\ (n + 1) - 1 = n
    BY <1>2 DEF Lids
  <2> QED BY <1>6, <2>1
<1> DEFINE N == {n \in Nat : n <= NumLids => dp[n] \in T}
<1>9. 0 \in N
  BY <1>2, <1>7
<1>10. ASSUME NEW n \in Nat, n \in N PROVE n + 1 \in N
  <2> SUFFICES ASSUME n + 1 <= NumLids PROVE dp[n + 1] \in T
    OBVIOUS
  <2>1. n \in Lids /\ n <= NumLids
    BY <1>2 DEF Lids
  <2>2. dp[n] \in T
    BY <1>10, <2>1
  <2>3. Row(v, in, dp[n], n) \in T
    BY <2>1, <2>2, RowIsLargest
  <2> QED BY <1>8, <2>1, <2>3
<1> HIDE DEF N
<1>11. Nat \subseteq N
  BY <1>9, <1>10, SetInduction
<1>12. \A i \in 0 .. NumLids : dp[i] \in T
  BY <1>2, <1>11 DEF N
<1>13. ASSUME NEW i \in 0 .. NumLids
       PROVE  dp[i] \in [0 .. in.limit -> Nat] /\ \A j \in 0 .. in.limit : dp[i][j] \in Int
  <2> DEFINE x == dp[i]
  <2>1. x \in T
    <3> HIDE DEF T
    <3> QED BY <1>12
  <2> HIDE DEF x
  <2>2. \A j \in 0 .. in.limit : x[j] \in Int
    BY <2>1
  <2> QED BY <2>1, <2>2 DEF x
<1>14. \A j \in 0 .. in.limit : dp[0][j] = 0
  BY <1>7
<1>15. ASSUME NEW i \in Lids, NEW j \in 0 .. in.limit
       PROVE  /\ \E k \in Affordable(in, i, j) :
                   dp[i + 1][j] = dp[i][j - in.cost[i][k]] + v[i][k]
              /\ \A k \in Affordable(in, i, j) :
                   dp[i][j - in.cost[i][k]] + v[i][k] <= dp[i + 1][j]
  <2>1. dp[i] \in [0 .. in.limit -> Nat]
    <3>1. i \in 0 .. NumLids
      BY <1>2 DEF Lids
    <3> QED BY <1>13, <3>1
  <2>2. dp[i + 1] = Row(v, in, dp[i], i)
    BY <1>8
  <2> DEFINE x == dp[i]
             y == dp[i + 1]
  <2> HIDE DEF x, y
  <2>3. /\ \E k \in Affordable(in, i, j) :
             Row(v, in, x, i)[j] = x[j - in.cost[i][k]] + v[i][k]
        /\ \A k \in Affordable(in, i, j) :
             x[j - in.cost[i][k]] + v[i][k] <= Row(v, in, x, i)[j]
    <3>1. x \in [0 .. in.limit -> Nat]
      BY <2>1 DEF x
    <3> QED BY <3>1, RowIsLargest
  <2>4. y = Row(v, in, x, i)
    BY <2>2 DEF x, y
  <2>5. /\ \E k \in Affordable(in, i, j) : y[j] = x[j - in.cost[i][k]] + v[i][k]
        /\ \A k \in Affordable(in, i, j) : x[j - in.cost[i][k]] + v[i][k] <= y[j]
    BY <2>3, <2>4
  <2> QED BY <2>5 DEF x, y
<1> HIDE DEF T, start, F
<1> QED BY <1>1, <1>13, <1>14, <1>15 DEF Explained, Dominates

-----------------------------------------------------------------------------
(* The table of the bitrate mode *)

\* A row of the table from the one above it: here the least of what the choices make.
LeastRow(u, in, above, i) ==
  [j \in 0 .. in.limit |->
     Min({above[j - in.cost[i][k]] + u[i][k] : k \in Affordable(in, i, j)})]

\* Each entry of a row is the least that an affordable choice makes of the row above:
\* one choice at least costs nothing.
LEMMA RowIsLeast ==
  ASSUME NEW u, NEW in, IsInput(in), \A i \in Lids, k \in Counts : u[i][k] \in Nat,
         \A i \in Lids : in.cost[i][0] = 0,
         NEW above \in [0 .. in.limit -> Nat], NEW i \in Lids
  PROVE  /\ LeastRow(u, in, above, i) \in [0 .. in.limit -> Nat]
         /\ \A j \in 0 .. in.limit :
              /\ \E k \in Affordable(in, i, j) :
                   LeastRow(u, in, above, i)[j] = above[j - in.cost[i][k]] + u[i][k]
              /\ \A k \in Affordable(in, i, j) :
                   above[j - in.cost[i][k]] + u[i][k] >= LeastRow(u, in, above, i)[j]
<1>1. 0 \in Counts /\ in.limit \in Nat
  BY SelectionAssumption DEF Counts, IsInput
<1>2. ASSUME NEW j \in 0 .. in.limit
      PROVE  /\ LeastRow(u, in, above, i)[j] \in Nat
             /\ \E k \in Affordable(in, i, j) :
                  LeastRow(u, in, above, i)[j] = above[j - in.cost[i][k]] + u[i][k]
             /\ \A k \in Affordable(in, i, j) :
                  above[j - in.cost[i][k]] + u[i][k] >= LeastRow(u, in, above, i)[j]
  <2> DEFINE I == Affordable(in, i, j)
             w == [k \in I |-> above[j - in.cost[i][k]] + u[i][k]]
             S == {above[j - in.cost[i][k]] + u[i][k] : k \in I}
  <2>1. 0 \in I
    BY <1>1 DEF Affordable
  <2>3. ASSUME NEW k \in I PROVE w[k] \in Nat
    <3>1. k \in Counts /\ in.cost[i][k] \in Nat /\ in.cost[i][k] <= j
      BY DEF Affordable, IsInput
    <3>2. j - in.cost[i][k] \in 0 .. in.limit /\ u[i][k] \in Nat
      BY <1>1, <3>1
    <3>3. above[j - in.cost[i][k]] \in Nat
      BY <3>2
    <3> HIDE DEF I
    <3> QED BY <3>2, <3>3
  <2>4. S \subseteq Nat /\ S # {}
    <3>1. S = {w[m] : m \in I}
      OBVIOUS
    <3> HIDE DEF w, I, S
    <3> QED BY <2>1, <2>3, <3>1
  <2>5. Min(S) \in S /\ \A y \in S : Min(S) <= y
    <3> HIDE DEF S
    <3> QED BY <2>4, MinIs
  <2>6. PICK k \in I : Min(S) = w[k] /\ \A m \in I : w[k] <= w[m]
    <3>1. S = {w[m] : m \in I}
      OBVIOUS
    <3> HIDE DEF w, I, S
    <3> QED BY <2>5, <3>1
  <2>7. LeastRow(u, in, above, i)[j] = w[k]
    <3>1. LeastRow(u, in, above, i)[j] = Min(S)
      BY DEF LeastRow
    <3> HIDE DEF w, I, S
    <3> QED BY <2>6, <3>1
  <2>8. \A m \in I : w[m] = above[j - in.cost[i][m]] + u[i][m]
    OBVIOUS
  <2> HIDE DEF w, S
  <2> QED BY <2>3, <2>6, <2>7, <2>8
<1>3. LeastRow(u, in, above, i) = [j \in 0 .. in.limit |-> LeastRow(u, in, above, i)[j]]
  BY DEF LeastRow
<1> QED BY <1>2, <1>3

\* The table of strategy_bitrate() is explained, and no choice makes less of it.
LEMMA LeastIsSolved ==
  ASSUME NEW u, NEW in, IsInput(in), \A i \in Lids, k \in Counts : u[i][k] \in Nat,
         \A i \in Lids : in.cost[i][0] = 0
  PROVE  Explained(LeastUncertain(u, in), u, in) /\ Undercuts(LeastUncertain(u, in), u, in)
<1> DEFINE T == [0 .. in.limit -> Nat]
           start == [j \in 0 .. in.limit |-> 0]
           Body(h) == [i \in 0 .. NumLids |->
                         IF i = 0 THEN start ELSE LeastRow(u, in, h[i - 1], i - 1)]
           dp == CHOOSE h : h = Body(h)
           F == [p \in T \X (0 .. NumLids - 1) |-> LeastRow(u, in, p[1], p[2])]
<1>1. LeastUncertain(u, in) = dp
  BY Zenon DEF LeastUncertain, LeastRow
<1>2. NumLids \in Nat /\ start \in T
  BY SelectionAssumption
<1>3. F \in [T \X (0 .. NumLids - 1) -> T]
  <2>1. ASSUME NEW x \in T, NEW i \in Lids PROVE LeastRow(u, in, x, i) \in T
    BY RowIsLeast
  <2> HIDE DEF T
  <2>2. \A p \in T \X (0 .. NumLids - 1) : p[1] \in T /\ p[2] \in Lids
    BY DEF Lids
  <2> QED BY <2>1, <2>2
<1>4. PICK f \in [0 .. NumLids -> T] : RecursUpTo(NumLids, start, F, f)
  <2> HIDE DEF F, T, start
  <2> QED BY <1>2, <1>3, BoundedRecursion, Zenon
<1>5. f = Body(f)
  <2>1. ASSUME NEW n \in 0 .. NumLids
        PROVE  f[n] = IF n = 0 THEN start ELSE LeastRow(u, in, f[n - 1], n - 1)
    <3>1. CASE n = 0
      BY <1>4, <3>1 DEF RecursUpTo
    <3>2. CASE n # 0
      <4>1. n - 1 \in 0 .. NumLids - 1 /\ (n - 1) + 1 = n /\ f[n - 1] \in T
        BY <3>2, <1>2
      <4>2. f[(n - 1) + 1] = F[<<f[n - 1], n - 1>>]
        BY <1>4, <4>1 DEF RecursUpTo
      <4>3. F[<<f[n - 1], n - 1>>] = LeastRow(u, in, f[n - 1], n - 1)
        <5> HIDE DEF T
        <5> QED BY <4>1
      <4> HIDE DEF F
      <4> QED BY <3>2, <4>1, <4>2, <4>3
    <3> QED BY <3>1, <3>2
  <2> HIDE DEF start, T
  <2> QED BY <2>1
<1>6. dp = Body(dp)
  <2> HIDE DEF Body
  <2> QED BY <1>5, Zenon
<1> HIDE DEF dp
<1>7. dp[0] = start
  <2> HIDE DEF start
  <2>1. 0 \in 0 .. NumLids
    BY <1>2
  <2> QED BY <1>6, <2>1
<1>8. ASSUME NEW n \in Lids PROVE dp[n + 1] = LeastRow(u, in, dp[n], n)
  <2> HIDE DEF start
  <2>1. n + 1 \in 0 .. NumLids /\ n + 1 # 0 /\ (n + 1) - 1 = n
    BY <1>2 DEF Lids
  <2> QED BY <1>6, <2>1
<1> DEFINE N == {n \in Nat : n <= NumLids => dp[n] \in T}
<1>9. 0 \in N
  BY <1>2, <1>7
<1>10. ASSUME NEW n \in Nat, n \in N PROVE n + 1 \in N
  <2> SUFFICES ASSUME n + 1 <= NumLids PROVE dp[n + 1] \in T
    OBVIOUS
  <2>1. n \in Lids /\ n <= NumLids
    BY <1>2 DEF Lids
  <2>2. dp[n] \in T
    BY <1>10, <2>1
  <2>3. LeastRow(u, in, dp[n], n) \in T
    BY <2>1, <2>2, RowIsLeast
  <2> QED BY <1>8, <2>1, <2>3
<1> HIDE DEF N
<1>11. Nat \subseteq N
  BY <1>9, <1>10, SetInduction
<1>12. \A i \in 0 .. NumLids : dp[i] \in T
  BY <1>2, <1>11 DEF N
<1>13. ASSUME NEW i \in 0 .. NumLids
       PROVE  dp[i] \in [0 .. in.limit -> Nat] /\ \A j \in 0 .. in.limit : dp[i][j] \in Int
  <2> DEFINE x == dp[i]
  <2>1. x \in T
    <3> HIDE DEF T
    <3> QED BY <1>12
  <2> HIDE DEF x
  <2>2. \A j \in 0 .. in.limit : x[j] \in Int
    BY <2>1
  <2> QED BY <2>1, <2>2 DEF x
<1>14. \A j \in 0 .. in.limit : dp[0][j] = 0
  BY <1>7
<1>15. ASSUME NEW i \in Lids, NEW j \in 0 .. in.limit
       PROVE  /\ \E k \in Affordable(in, i, j) :
                   dp[i + 1][j] = dp[i][j - in.cost[i][k]] + u[i][k]
              /\ \A k \in Affordable(in, i, j) :
                   dp[i][j - in.cost[i][k]] + u[i][k] >= dp[i + 1][j]
  <2>1. dp[i] \in [0 .. in.limit -> Nat]
    <3>1. i \in 0 .. NumLids
      BY <1>2 DEF Lids
    <3> QED BY <1>13, <3>1
  <2>2. dp[i + 1] = LeastRow(u, in, dp[i], i)
    BY <1>8
  <2> DEFINE x == dp[i]
             y == dp[i + 1]
  <2> HIDE DEF x, y
  <2>3. /\ \E k \in Affordable(in, i, j) :
             LeastRow(u, in, x, i)[j] = x[j - in.cost[i][k]] + u[i][k]
        /\ \A k \in Affordable(in, i, j) :
             x[j - in.cost[i][k]] + u[i][k] >= LeastRow(u, in, x, i)[j]
    <3>1. x \in [0 .. in.limit -> Nat]
      BY <2>1 DEF x
    <3> QED BY <3>1, RowIsLeast
  <2>4. y = LeastRow(u, in, x, i)
    BY <2>2 DEF x, y
  <2>5. /\ \E k \in Affordable(in, i, j) : y[j] = x[j - in.cost[i][k]] + u[i][k]
        /\ \A k \in Affordable(in, i, j) : x[j - in.cost[i][k]] + u[i][k] >= y[j]
    BY <2>3, <2>4
  <2> QED BY <2>5 DEF x, y
<1> HIDE DEF T, start, F
<1> QED BY <1>1, <1>13, <1>14, <1>15 DEF Explained, Undercuts

\* No selection within the limit is worth less than the last entry of a table that
\* no choice makes less of.
LEMMA NothingLess ==
  ASSUME NEW d, NEW v, NEW in, IsTable(v), IsInput(in),
         Explained(d, v, in), Undercuts(d, v, in),
         NEW sel \in [Lids -> Counts], Cost(in.cost, sel) <= in.limit
  PROVE  d[NumLids][in.limit] <= Cost(v, sel)
<1> DEFINE e == [i \in 0 .. NumLids |-> [j \in 0 .. in.limit |-> -d[i][j]]]
           u == [i \in Lids |-> [k \in Counts |-> -v[i][k]]]
<1>1. NumLids \in Nat /\ in.limit \in Nat
  BY SelectionAssumption DEF IsInput
<1>2. \A i \in 0 .. NumLids, j \in 0 .. in.limit : e[i][j] = -d[i][j] /\ d[i][j] \in Int
  BY DEF Explained
<1>3. \A i \in Lids, k \in Counts : u[i][k] = -v[i][k] /\ v[i][k] \in Int
  BY DEF IsTable
<1> HIDE DEF e, u
<1>4. IsTable(u)
  BY <1>3 DEF IsTable
<1>5. Dominates(e, u, in)
  <2>1. \A i \in 0 .. NumLids, j \in 0 .. in.limit : e[i][j] \in Int
    BY <1>2
  <2>2. \A j \in 0 .. in.limit : e[0][j] = 0
    BY <1>1, <1>2 DEF Explained
  <2>3. ASSUME NEW i \in Lids, NEW j \in 0 .. in.limit, NEW k \in Affordable(in, i, j)
        PROVE  e[i][j - in.cost[i][k]] + u[i][k] <= e[i + 1][j]
    <3>1. k \in Counts /\ in.cost[i][k] \in Nat /\ in.cost[i][k] <= j
      BY DEF Affordable, IsInput
    <3>2. j - in.cost[i][k] \in 0 .. in.limit /\ i \in 0 .. NumLids /\ i + 1 \in 0 .. NumLids
      BY <1>1, <3>1 DEF Lids
    <3>3. d[i][j - in.cost[i][k]] + v[i][k] >= d[i + 1][j]
      BY DEF Undercuts
    <3>4. PICK a \in Int, b \in Int, c \in Int :
            a = d[i][j - in.cost[i][k]] /\ b = v[i][k] /\ c = d[i + 1][j]
      BY <1>2, <1>3, <3>1, <3>2
    <3>5. /\ e[i][j - in.cost[i][k]] = -a /\ u[i][k] = -b /\ e[i + 1][j] = -c
      BY <1>2, <1>3, <3>1, <3>2, <3>4
    <3> QED BY <3>3, <3>4, <3>5
  <2> QED BY <2>1, <2>2, <2>3 DEF Dominates
<1>6. Cost(u, sel) \in Int /\ Cost(u, sel) <= e[NumLids][in.limit]
  BY <1>4, <1>5, NothingBetter
<1>7. e[NumLids][in.limit] = -d[NumLids][in.limit] /\ d[NumLids][in.limit] \in Int
  <2>1. NumLids \in 0 .. NumLids /\ in.limit \in 0 .. in.limit
    BY <1>1
  <2> QED BY <1>2, <2>1
<1>8. Cost(v, sel) \in Int /\ Cost(u, sel) = -Cost(v, sel)
  <2> DEFINE z == [l \in Lids |-> 0]
  <2>1. IsFiniteSet(Lids)
    BY <1>1, FS_Interval DEF Lids
  <2>2. \A l \in Lids : /\ Spending(u, sel)[l] \in Int /\ Spending(v, sel)[l] \in Int
                        /\ z[l] = Spending(u, sel)[l] + Spending(v, sel)[l]
    BY <1>3 DEF Spending
  <2>3. \A l \in Lids : z[l] = 0
    OBVIOUS
  <2> HIDE DEF z
  <2>4. SumFunctionOnSet(z, Lids)
          = SumFunctionOnSet(Spending(u, sel), Lids) + SumFunctionOnSet(Spending(v, sel), Lids)
    BY <2>1, <2>2, SumPointwise
  <2>5. SumFunctionOnSet(z, Lids) = Cardinality(Lids) * 0 /\ Cardinality(Lids) \in Nat
    BY <2>1, <2>3, SumConstant, FS_CardinalityType
  <2>6. Lids \in SUBSET Lids /\ \A l \in Lids : Spending(v, sel)[l] \in Int
    BY <2>2
  <2>7. SumFunctionOnSet(Spending(v, sel), Lids) \in Int
    BY <2>1, <2>6, SumByChoice
  <2>8. Cost(u, sel) = SumFunctionOnSet(Spending(u, sel), Lids)
        /\ Cost(v, sel) = SumFunctionOnSet(Spending(v, sel), Lids)
    BY DEF Cost, Spending
  <2>9. Cost(v, sel) \in Int
    BY <2>7, <2>8
  <2>10. Cost(u, sel) + Cost(v, sel) = 0
    <3>1. PICK n \in Nat : n = Cardinality(Lids)
      BY <2>5
    <3>2. n * 0 = 0
      OBVIOUS
    <3> QED BY <2>4, <2>5, <2>8, <3>1, <3>2, Zenon
  <2> QED BY <1>6, <2>9, <2>10
<1> QED BY <1>6, <1>7, <1>8

-----------------------------------------------------------------------------
(* The knapsack's inputs *)

\* Tables of plane sizes.
SizeTables == [0 .. NumLids * Planes - 1 -> Nat]

\* Each stage finds the sizes of its planes in the table.
LEMMA SizesOfStage ==
  ASSUME NEW sizes \in SizeTables, NEW l \in Lids
  PROVE  \A b \in 0 .. Planes - 1 : PlaneSizes(sizes, l)[b] \in Nat
<1>1. NumLids \in Nat /\ Planes \in Nat /\ Planes > 0
  BY SelectionAssumption
<1>2. l \in Nat /\ NumLids - 1 - l \in Nat
  BY <1>1 DEF Lids
<1> SUFFICES ASSUME NEW b \in 0 .. Planes - 1 PROVE PlaneSizes(sizes, l)[b] \in Nat
  OBVIOUS
<1>3. PICK x \in Nat, y \in Nat : x = l * Planes /\ y = (NumLids - 1 - l) * Planes
  BY <1>1, <1>2
<1>4. (l + 1) * Planes = x + Planes
  BY <1>1, <1>2, <1>3
<1>5. NumLids * Planes = x + y + Planes
  <2>1. (l + 1 + (NumLids - 1 - l)) * Planes
          = l * Planes + (NumLids - 1 - l) * Planes + Planes
    BY <1>1, <1>2
  <2>2. l + 1 + (NumLids - 1 - l) = NumLids
    BY <1>1, <1>2
  <2> QED BY <1>3, <2>1, <2>2
<1>6. (l + 1) * Planes - b - 1 \in 0 .. NumLids * Planes - 1
  <2>1. x + Planes - b - 1 \in 0 .. x + y + Planes - 1
    BY <1>1, <1>3
  <2>2. PICK z \in Int, w \in Int : z = (l + 1) * Planes /\ w = NumLids * Planes
    BY <1>1, <1>4, <1>5
  <2>3. z - b - 1 \in 0 .. w - 1
    <3>1. z = x + Planes /\ w = x + y + Planes
      BY <1>4, <1>5, <2>2, Zenon
    <3> QED BY <1>1, <2>1, <3>1
  <2> QED BY <2>2, <2>3, Zenon
<1>7. sizes[(l + 1) * Planes - b - 1] \in Nat
  BY <1>6 DEF SizeTables
<1> QED BY <1>7 DEF PlaneSizes

\* What a stage saves and what it keeps are numbers of bytes; a stage that keeps all
\* its planes saves nothing, and one that keeps none costs nothing.
LEMMA SizesAreCounts ==
  ASSUME NEW sizes \in SizeTables
  PROVE  /\ \A l \in Lids, b \in Counts : /\ calcValueTable(sizes)[l][b] \in Nat
                                          /\ calckeptSizeTable(sizes)[l][b] \in Nat
         /\ \A l \in Lids : /\ calcValueTable(sizes)[l][Planes] = 0
                            /\ calckeptSizeTable(sizes)[l][0] = 0
<1>1. Planes \in Nat /\ Planes \in Counts /\ 0 \in Counts
  BY SelectionAssumption DEF Counts
<1>2. ASSUME NEW l \in Lids, NEW b \in Counts
      PROVE  /\ calcValueTable(sizes)[l][b] \in Nat
             /\ calckeptSizeTable(sizes)[l][b] \in Nat
  <2>1. b \in Nat /\ b <= Planes
    BY <1>1 DEF Counts
  <2>2. IsFiniteSet(b .. Planes - 1) /\ IsFiniteSet(0 .. b - 1)
    <3>1. b \in Int /\ Planes - 1 \in Int /\ 0 \in Int /\ b - 1 \in Int
      BY <1>1, <2>1
    <3> QED BY <3>1, FS_Interval
  <2>3. (\A p \in b .. Planes - 1 : PlaneSizes(sizes, l)[p] \in Nat)
        /\ (\A p \in 0 .. b - 1 : PlaneSizes(sizes, l)[p] \in Nat)
    <3>1. \A p \in 0 .. Planes - 1 : PlaneSizes(sizes, l)[p] \in Nat
      BY SizesOfStage
    <3>2. b .. Planes - 1 \subseteq 0 .. Planes - 1 /\ 0 .. b - 1 \subseteq 0 .. Planes - 1
      BY <1>1, <2>1
    <3> QED BY <3>1, <3>2
  <2>4. SumFunctionOnSet(PlaneSizes(sizes, l), b .. Planes - 1) \in Nat
    BY <2>2, <2>3, SumNatural
  <2>5. SumFunctionOnSet(PlaneSizes(sizes, l), 0 .. b - 1) \in Nat
    BY <2>2, <2>3, SumNatural
  <2> QED BY <2>4, <2>5 DEF calcValueTable, calckeptSizeTable
<1>3. ASSUME NEW l \in Lids
      PROVE  calcValueTable(sizes)[l][Planes] = 0 /\ calckeptSizeTable(sizes)[l][0] = 0
  <2>1. \A w : SumFunctionOnSet(w, {}) = 0
    BY FS_EmptySet, SumByChoice
  <2>2. Planes .. Planes - 1 = {} /\ 0 .. 0 - 1 = {}
    BY <1>1
  <2> QED BY <1>1, <2>1, <2>2 DEF calcValueTable, calckeptSizeTable
<1> QED BY <1>2, <1>3

\* What a stage may cost is a number of error bounds, none when it keeps all its
\* planes.
LEMMA UncertaintyIsCount ==
  /\ \A i \in Lids, b \in Counts : calcUncerntaintyBitGroup[i][b] \in Nat
  /\ \A i \in Lids : calcUncerntaintyBitGroup[i][Planes] = 0
<1>1. Planes \in Nat /\ Planes > 0 /\ NumLids \in Nat /\ Planes \in Counts
  BY SelectionAssumption DEF Counts
<1>2. \A n \in Nat : /\ Power(2, n) \in Nat \ {0} /\ Power(5, n) \in Nat \ {0}
                     /\ Power(4, n) \in Nat \ {0}
  <2>1. 2 \in Nat \ {0} /\ 4 \in Nat \ {0} /\ 5 \in Nat \ {0}
    OBVIOUS
  <2> QED BY <2>1, PowerPositive, Zenon
<1>3. ASSUME NEW a \in Nat, NEW s \in Nat \ {0} PROVE a \div s \in Nat
  <2>1. a \div s \in Int /\ (0 * s <= a <=> 0 <= a \div s)
    BY DivLargest
  <2> QED BY <2>1
<1>4. NegabinaryMask \in Nat
  <2>1. PICK a \in Nat : a = Power(2, Planes) - 1
    BY <1>1, <1>2
  <2>2. a \div 3 \in Nat
    BY <1>3
  <2> QED BY <2>1, <2>2 DEF NegabinaryMask
<1>5. ASSUME NEW b \in Counts
      PROVE  calcUncerntaintyNegaBinary(Planes - b) \in Nat
             /\ (b = Planes => calcUncerntaintyNegaBinary(Planes - b) = 0)
  <2>1. Planes - (Planes - b) = b /\ b \in Nat
    BY <1>1 DEF Counts
  <2>2. NegabinaryMask \div Power(2, Planes - (Planes - b)) \in Nat
    BY <1>2, <1>3, <1>4, <2>1
  <2> QED BY <1>1, <2>1, <2>2 DEF calcUncerntaintyNegaBinary
<1> DEFINE cost(b) == IF b = 0 THEN Power(2, Planes) ELSE calcUncerntaintyNegaBinary(Planes - b)
           amplified(c, n) == (c * Power(5, n) + Power(4, n) - 1) \div Power(4, n)
<1>6. ASSUME NEW b \in Counts PROVE cost(b) \in Nat /\ (b = Planes => cost(b) = 0)
  BY <1>1, <1>2, <1>5
<1>7. ASSUME NEW c \in Nat, NEW n \in Nat
      PROVE  amplified(c, n) \in Nat /\ (c = 0 => amplified(c, n) = 0)
  <2>1. PICK f \in Nat \ {0}, g \in Nat \ {0} : f = Power(5, n) /\ g = Power(4, n)
    BY <1>2
  <2>2. c * f + g - 1 \in Nat
    <3>1. c * f \in Nat
      OBVIOUS
    <3> QED BY <3>1
  <2>3. (c * f + g - 1) \div g \in Nat
    BY <1>3, <2>2
  <2>4. ASSUME c = 0 PROVE (c * f + g - 1) \div g = 0
    <3>1. g - 1 \in 0 .. g - 1 /\ 0 \in Int
      OBVIOUS
    <3>2. (0 * g + (g - 1)) \div g = 0
      BY <3>1, DivUnique
    <3>3. c * f + g - 1 = 0 * g + (g - 1)
      BY <2>4
    <3> QED BY <3>2, <3>3
  <2> QED BY <2>1, <2>3, <2>4
<1>8. ASSUME NEW i \in Lids, NEW b \in Counts
      PROVE  calcUncerntaintyBitGroup[i][b]
               = IF Cubic THEN amplified(cost(b), NumLids - 1 - i) ELSE cost(b)
  BY DEF calcUncerntaintyBitGroup
<1>9. \A i \in Lids : NumLids - 1 - i \in Nat
  BY <1>1 DEF Lids
<1> HIDE DEF cost, amplified
<1>10. ASSUME NEW i \in Lids, NEW b \in Counts
       PROVE  /\ calcUncerntaintyBitGroup[i][b] \in Nat
              /\ b = Planes => calcUncerntaintyBitGroup[i][b] = 0
  <2>1. PICK n \in Nat, c \in Nat :
          n = NumLids - 1 - i /\ c = cost(b) /\ (b = Planes => c = 0)
    BY <1>6, <1>9
  <2>2. calcUncerntaintyBitGroup[i][b] = IF Cubic THEN amplified(c, n) ELSE c
    BY <1>8, <2>1
  <2>3. amplified(c, n) \in Nat /\ (c = 0 => amplified(c, n) = 0)
    BY <1>7
  <2> QED BY <2>1, <2>2, <2>3
<1> QED BY <1>1, <1>10

\* The shift exists: the limit fits below its unit times 2^DpBits, and below no
\* smaller one.
LEMMA ShiftIs ==
  ASSUME NEW limit \in Nat
  PROVE  /\ Shift(limit) \in Nat
         /\ limit < Power(2, Shift(limit) + DpBits)
         /\ Shift(limit) # 0 => Power(2, Shift(limit) - 1 + DpBits) <= limit
<1>1. DpBits \in Nat
  BY SelectionAssumption
<1>2. ASSUME NEW n \in Nat
      PROVE  Power(2, n) \in Nat \ {0} /\ (limit \div Power(2, n) = 0 <=> limit < Power(2, n))
  <2>1. PICK p \in Nat \ {0} : p = Power(2, n)
    BY PowerPositive
  <2>2. /\ limit \div p \in Int
        /\ (0 * p <= limit <=> 0 <= limit \div p) /\ (1 * p <= limit <=> 1 <= limit \div p)
    BY DivLargest
  <2>3. limit \div p = 0 <=> limit < p
    BY <2>2
  <2> QED BY <2>1, <2>3
<1> DEFINE G == {s \in Nat : limit < Power(2, s + DpBits)}
<1>3. limit \in G
  <2>1. limit + DpBits \in Nat /\ limit <= limit + DpBits
    BY <1>1
  <2>2. limit + DpBits < Power(2, limit + DpBits) /\ Power(2, limit + DpBits) \in Nat
    BY <2>1, PowerPositive
  <2> QED BY <2>1, <2>2
<1>4. PICK s \in G : \A r \in G : s <= r
  <2>1. G \subseteq Nat /\ G # {}
    BY <1>3
  <2> QED BY <2>1, LeastExists
<1> DEFINE Fits(r) == /\ limit \div Power(2, r + DpBits) = 0
                      /\ r = 0 \/ limit \div Power(2, r - 1 + DpBits) # 0
<1>5. Fits(s)
  <2>1. s + DpBits \in Nat /\ limit < Power(2, s + DpBits)
    BY <1>1
  <2>2. ASSUME s # 0 PROVE limit \div Power(2, s - 1 + DpBits) # 0
    <3>1. s - 1 \in Nat /\ s - 1 + DpBits \in Nat /\ ~(s <= s - 1)
      BY <1>1, <2>2
    <3>2. s - 1 \notin G
      BY <1>4, <3>1
    <3>3. ~(limit < Power(2, s - 1 + DpBits))
      BY <3>1, <3>2
    <3> QED BY <1>2, <3>1, <3>3
  <2> QED BY <1>2, <2>1, <2>2
<1>6. s \in 0 .. limit
  BY <1>3, <1>4
<1> HIDE DEF G
<1>7. Shift(limit) \in 0 .. limit /\ Fits(Shift(limit))
  <2>1. Shift(limit) = CHOOSE r \in 0 .. limit : Fits(r)
    BY Zenon DEF Shift
  <2> HIDE DEF Fits
  <2> QED BY <1>5, <1>6, <2>1, Zenon
<1> DEFINE t == Shift(limit)
<1> HIDE DEF t
<1>8. t \in Nat /\ Fits(t)
  BY <1>7 DEF t
<1>9. limit < Power(2, t + DpBits)
  BY <1>1, <1>2, <1>8
<1>10. ASSUME t # 0 PROVE Power(2, t - 1 + DpBits) <= limit
  <2>1. t - 1 + DpBits \in Nat
    BY <1>1, <1>8, <1>10
  <2> QED BY <1>2, <1>8, <1>10, <2>1
<1> QED BY <1>8, <1>9, <1>10 DEF t

\* The cost of a selection is a number, and a sum over the stages.
LEMMA CostIsNumber ==
  ASSUME NEW c, IsTable(c), NEW sel \in [Lids -> Counts]
  PROVE  /\ Cost(c, sel) \in Int
         /\ (\A i \in Lids, k \in Counts : c[i][k] \in Nat) => Cost(c, sel) \in Nat
<1>1. IsFiniteSet(Lids)
  BY SelectionAssumption, FS_Interval DEF Lids
<1>2. \A l \in Lids : Spending(c, sel)[l] = c[l][sel[l]] /\ c[l][sel[l]] \in Int
  BY DEF Spending, IsTable
<1>3. Cost(c, sel) = SumFunctionOnSet(Spending(c, sel), Lids)
  BY DEF Cost, Spending
<1>4. SumFunctionOnSet(Spending(c, sel), Lids) \in Int
  <2>1. Lids \in SUBSET Lids /\ \A l \in Lids : Spending(c, sel)[l] \in Int
    BY <1>2
  <2> QED BY <1>1, <2>1, SumByChoice
<1>5. ASSUME \A i \in Lids, k \in Counts : c[i][k] \in Nat
      PROVE  SumFunctionOnSet(Spending(c, sel), Lids) \in Nat
  <2>1. \A l \in Lids : Spending(c, sel)[l] \in Nat
    BY <1>2, <1>5
  <2> QED BY <1>1, <2>1, SumNatural
<1> QED BY <1>3, <1>4, <1>5

\* The inputs are costs rounded down to units, and a limit.
Rounded(in, cost, limit, unit) ==
  /\ unit \in Nat \ {0}
  /\ IsInput(in)
  /\ in.limit = limit \div unit
  /\ \A i \in Lids, k \in Counts : in.cost[i][k] = cost[i][k] \div unit
  /\ \A i \in Lids, k \in Counts : cost[i][k] = 0 => in.cost[i][k] = 0

\* What the scaled inputs come to.
LEMMA ScaledIs ==
  ASSUME NEW cost, \A i \in Lids, k \in Counts : cost[i][k] \in Nat, NEW limit \in Nat
  PROVE  Rounded(Scaled(cost, limit), cost, limit, Power(2, Shift(limit)))
<1> DEFINE unit == Power(2, Shift(limit))
           in == Scaled(cost, limit)
<1>1. unit \in Nat \ {0}
  BY ShiftIs, PowerPositive
<1>2. ASSUME NEW a \in Nat PROVE a \div unit \in Nat /\ (a = 0 => a \div unit = 0)
  <2>1. /\ a \div unit \in Int
        /\ (0 * unit <= a <=> 0 <= a \div unit) /\ (1 * unit <= a <=> 1 <= a \div unit)
    BY <1>1, DivLargest
  <2> QED BY <1>1, <2>1
<1>3. /\ in.limit = limit \div unit
      /\ \A i \in Lids, k \in Counts : in.cost[i][k] = cost[i][k] \div unit
  BY DEF Scaled
<1> HIDE DEF unit, in
<1>4. Rounded(in, cost, limit, unit)
  BY <1>1, <1>2, <1>3 DEF Rounded, IsInput
<1> QED BY <1>4 DEF unit, in

\* The knapsack of the error mode, for a target of at least one error bound: what
\* strategy() keeps is a selection within the scaled limit, and none saves more.
LEMMA KeptIsOptimal ==
  ASSUME NEW sizes \in SizeTables, NEW units \in Nat \ {0},
         NEW in, in = Scaled(calcUncerntaintyBitGroup, units - 1),
         NEW sel, sel = SelectPlanes(sizes, units)
  PROVE  /\ sel \in [Lids -> Counts]
         /\ Cost(in.cost, sel) \in Int /\ Cost(in.cost, sel) <= in.limit
         /\ \A other \in [Lids -> Counts] : Cost(in.cost, other) <= in.limit =>
              Cost(calcValueTable(sizes), other) <= Cost(calcValueTable(sizes), sel)
<1> DEFINE v == calcValueTable(sizes)
           d == DpTable(v, in)
<1>1. units - 1 \in Nat
  OBVIOUS
<1>2. IsInput(in) /\ \A i \in Lids : in.cost[i][Planes] = 0
  <2>1. Planes \in Counts
    BY SelectionAssumption DEF Counts
  <2>2. /\ \A i \in Lids, k \in Counts : calcUncerntaintyBitGroup[i][k] \in Nat
        /\ \A i \in Lids : calcUncerntaintyBitGroup[i][Planes] = 0
    BY UncertaintyIsCount
  <2>3. Rounded(in, calcUncerntaintyBitGroup, units - 1, Power(2, Shift(units - 1)))
    BY <1>1, <2>2, ScaledIs, Zenon
  <2>4. IsInput(in)
    BY <2>3, Zenon DEF Rounded
  <2>5. \A i \in Lids, k \in Counts :
          calcUncerntaintyBitGroup[i][k] = 0 => in.cost[i][k] = 0
    BY <2>3, Zenon DEF Rounded
  <2> QED BY <2>1, <2>2, <2>4, <2>5
<1>3. \A i \in Lids, k \in Counts : v[i][k] \in Nat
  BY SizesAreCounts
<1>4. sel = WalkBack(d, v, in)
  BY DEF SelectPlanes, strategy
<1> HIDE DEF v
<1>5. Explained(d, v, in) /\ Dominates(d, v, in)
  BY <1>2, <1>3, TableIsSolved
<1>6. IsTable(v) /\ IsTable(in.cost)
  BY <1>2, <1>3 DEF IsTable, IsInput
<1> HIDE DEF d
<1>7. /\ sel \in [Lids -> Counts]
      /\ Cost(in.cost, sel) <= in.limit
      /\ Cost(v, sel) = d[NumLids][in.limit]
  BY <1>2, <1>4, <1>5, <1>6, WalkFindsSelection
<1>8. Cost(in.cost, sel) \in Int
  BY <1>6, <1>7, CostIsNumber
<1>9. \A other \in [Lids -> Counts] :
        Cost(in.cost, other) <= in.limit => Cost(v, other) <= d[NumLids][in.limit]
  BY <1>2, <1>5, <1>6, NothingBetter
<1> QED BY <1>7, <1>8, <1>9 DEF v

-----------------------------------------------------------------------------
(* The error mode *)

\* What thrown planes cost unscaled: less than one unit more a stage than the scaled
\* costs say.
LEMMA UnscaledCost ==
  ASSUME NEW cost, NEW scaled, NEW unit \in Nat \ {0}, NEW sel \in [Lids -> Counts],
         NEW limit \in Int,
         \A i \in Lids, k \in Counts : cost[i][k] \in Nat /\ scaled[i][k] = cost[i][k] \div unit
  PROVE  /\ Cost(cost, sel) \in Int
         /\ Cost(scaled, sel) <= limit \div unit =>
              Cost(cost, sel) <= limit + NumLids * (unit - 1)
<1>1. NumLids \in Nat
  BY SelectionAssumption
<1> DEFINE u == Spending(cost, sel)
           w == Spending(scaled, sel)
<1>2. \A i \in 0 .. NumLids - 1 :
         u[i] \in Int /\ w[i] \in Int /\ 1 * u[i] <= unit * w[i] + (unit - 1)
  <2> SUFFICES ASSUME NEW i \in 0 .. NumLids - 1
               PROVE  u[i] \in Int /\ w[i] \in Int /\ 1 * u[i] <= unit * w[i] + (unit - 1)
    OBVIOUS
  <2>1. i \in Lids /\ sel[i] \in Counts
    BY DEF Lids
  <2>2. u[i] = cost[i][sel[i]] /\ w[i] = scaled[i][sel[i]]
    BY <2>1 DEF Spending
  <2>3. PICK a \in Nat : a = cost[i][sel[i]]
    BY <2>1
  <2>4. PICK q \in Int, r \in 0 .. unit - 1 : q = a \div unit /\ r = a % unit /\ a = q * unit + r
    <3>1. a \in Int
      OBVIOUS
    <3> QED BY <3>1, Divided, Zenon
  <2>5. scaled[i][sel[i]] = a \div unit
    BY <2>1, <2>3
  <2>6. u[i] = a /\ w[i] = q
    BY <2>2, <2>3, <2>4, <2>5, Zenon
  <2>7. q * unit = unit * q /\ q * unit \in Int
    OBVIOUS
  <2>8. a <= unit * q + (unit - 1)
    BY <2>4, <2>7
  <2> HIDE DEF u, w
  <2> QED BY <2>6, <2>8
<1> HIDE DEF u, w
<1>3. /\ /\ SumFunctionOnSet(u, 0 .. NumLids - 1) \in Int
         /\ SumFunctionOnSet(w, 0 .. NumLids - 1) \in Int
      /\ 1 * SumFunctionOnSet(u, 0 .. NumLids - 1)
           <= unit * SumFunctionOnSet(w, 0 .. NumLids - 1) + NumLids * (unit - 1)
  <2>1. 1 \in Int /\ unit \in Int /\ unit - 1 \in Int
    OBVIOUS
  <2> QED BY <1>1, <1>2, <2>1, SumAtMost
<1>4. Cost(cost, sel) = SumFunctionOnSet(u, 0 .. NumLids - 1)
      /\ Cost(scaled, sel) = SumFunctionOnSet(w, 0 .. NumLids - 1)
  BY DEF Cost, Spending, u, w, Lids
<1>5. PICK x \in Int, y \in Int : x = Cost(cost, sel) /\ y = Cost(scaled, sel)
  BY <1>3, <1>4
<1>6. x <= unit * y + NumLids * (unit - 1)
  <2>1. 1 * x <= unit * y + NumLids * (unit - 1)
    BY <1>3, <1>4, <1>5
  <2> QED BY <2>1
<1>7. ASSUME y <= limit \div unit PROVE x <= limit + NumLids * (unit - 1)
  <2>1. y * unit <= limit
    BY <1>7, DivLargest
  <2>2. y * unit = unit * y /\ y * unit \in Int /\ NumLids * (unit - 1) \in Int
    BY <1>1
  <2> QED BY <1>6, <2>1, <2>2
<1> QED BY <1>5, <1>7

\* A looser limit has a shift at least as large: its unit is a multiple of the tighter
\* limit's.
LEMMA LooserUnit ==
  ASSUME NEW a \in Nat, NEW b \in Nat, a <= b
  PROVE  \E m \in Nat \ {0} : Power(2, Shift(b)) = Power(2, Shift(a)) * m
<1>1. DpBits \in Nat
  BY SelectionAssumption
<1>2. PICK s \in Nat, t \in Nat : s = Shift(a) /\ t = Shift(b)
  BY ShiftIs
<1>3. b < Power(2, t + DpBits)
  BY <1>2, ShiftIs
<1>4. s # 0 => Power(2, s - 1 + DpBits) <= a
  BY <1>2, ShiftIs
<1>5. s <= t
  <2> SUFFICES ASSUME s >= t + 1 PROVE FALSE
    OBVIOUS
  <2>1. t + DpBits \in Nat /\ s - 1 - t \in Nat /\ (t + DpBits) + (s - 1 - t) = s - 1 + DpBits
    BY <1>1
  <2>2. Power(2, (t + DpBits) + (s - 1 - t)) = Power(2, t + DpBits) * Power(2, s - 1 - t)
    BY <2>1, PowerSum
  <2>3. PICK x \in Nat \ {0}, y \in Nat \ {0} :
          x = Power(2, t + DpBits) /\ y = Power(2, s - 1 - t)
    BY <2>1, PowerPositive
  <2>4. x * y >= x
    <3>1. y >= 1 /\ y \in Int
      OBVIOUS
    <3>2. y * x >= x /\ y * x = x * y
      BY <3>1, MultipleAtLeast
    <3> QED BY <3>2
  <2>5. x * y <= a
    BY <1>4, <2>1, <2>2, <2>3
  <2>6. b < x
    BY <1>3, <2>3
  <2>7. x * y \in Int
    OBVIOUS
  <2> QED BY <2>4, <2>5, <2>6, <2>7
<1>6. t - s \in Nat /\ s + (t - s) = t
  BY <1>5
<1>7. Power(2, s + (t - s)) = Power(2, s) * Power(2, t - s)
  BY <1>6, PowerSum
<1>8. Power(2, t - s) \in Nat \ {0}
  BY <1>6, PowerPositive
<1> QED BY <1>2, <1>6, <1>7, <1>8

\* A selection that fits a tighter limit, scaled and rounded, fits a looser one.
LEMMA FitsLooser ==
  ASSUME NEW cost, \A i \in Lids, k \in Counts : cost[i][k] \in Nat,
         NEW a \in Nat, NEW b \in Nat, a <= b,
         NEW x, x = Scaled(cost, a), NEW y, y = Scaled(cost, b),
         NEW sel \in [Lids -> Counts], Cost(x.cost, sel) <= x.limit
  PROVE  Cost(y.cost, sel) <= y.limit
<1>1. NumLids \in Nat
  BY SelectionAssumption
<1>2. PICK m \in Nat \ {0} : Power(2, Shift(b)) = Power(2, Shift(a)) * m
  BY LooserUnit
<1> DEFINE d == Power(2, Shift(a))
           e == Power(2, Shift(b))
<1>3. e = d * m
  BY <1>2
<1>4. Rounded(x, cost, a, d) /\ Rounded(y, cost, b, e)
  <2>1. Rounded(x, cost, a, d)
    BY ScaledIs, Zenon
  <2>2. Rounded(y, cost, b, e)
    BY ScaledIs, Zenon
  <2> QED BY <2>1, <2>2
<1> HIDE DEF d, e
<1>5. /\ d \in Nat \ {0} /\ x.limit = a \div d
      /\ \A i \in Lids, k \in Counts : x.cost[i][k] = cost[i][k] \div d
  BY <1>4, Zenon DEF Rounded
<1>6. /\ e \in Nat \ {0} /\ y.limit = b \div e
      /\ \A i \in Lids, k \in Counts : y.cost[i][k] = cost[i][k] \div e
  BY <1>4, Zenon DEF Rounded
<1> DEFINE u == Spending(y.cost, sel)
           w == Spending(x.cost, sel)
<1>7. \A i \in 0 .. NumLids - 1 :
        u[i] \in Int /\ w[i] \in Int /\ m * u[i] <= 1 * w[i] + 0
  <2> SUFFICES ASSUME NEW i \in 0 .. NumLids - 1
               PROVE  u[i] \in Int /\ w[i] \in Int /\ m * u[i] <= 1 * w[i] + 0
    OBVIOUS
  <2>1. i \in Lids /\ sel[i] \in Counts
    BY DEF Lids
  <2>2. PICK c \in Nat : c = cost[i][sel[i]]
    BY <2>1
  <2>3. u[i] = c \div e /\ w[i] = c \div d
    BY <1>5, <1>6, <2>1, <2>2 DEF Spending
  <2> HIDE DEF u, w
  <2>4. PICK p \in Int, q \in Int : p = u[i] /\ q = w[i]
    BY <1>5, <1>6, <2>3, DivLargest
  <2>5. p * e <= c
    BY <1>6, <2>3, <2>4, DivLargest
  <2>6. p * e = (m * p) * d
    BY <1>3, <1>5
  <2>7. m * p \in Int
    OBVIOUS
  <2>8. m * p <= c \div d
    <3>1. PICK g \in Int : g = m * p
      BY <2>7
    <3>2. g * d <= c
      BY <2>5, <2>6, <3>1
    <3>3. \A k \in Int : k * d <= c <=> k <= c \div d
      <4>1. c \in Int /\ d \in Nat \ {0}
        BY <1>5
      <4> QED BY <4>1, DivLargest, Zenon
    <3>4. g <= c \div d
      BY <3>2, <3>3, Zenon
    <3> QED BY <3>1, <3>4, Zenon
  <2> QED BY <2>3, <2>4, <2>7, <2>8
<1> HIDE DEF u, w
<1>8. /\ /\ SumFunctionOnSet(u, 0 .. NumLids - 1) \in Int
         /\ SumFunctionOnSet(w, 0 .. NumLids - 1) \in Int
      /\ m * SumFunctionOnSet(u, 0 .. NumLids - 1)
           <= 1 * SumFunctionOnSet(w, 0 .. NumLids - 1) + NumLids * 0
  <2>1. m \in Int /\ 1 \in Int /\ 0 \in Int
    OBVIOUS
  <2> QED BY <1>1, <1>7, <2>1, SumAtMost
<1>9. /\ Cost(y.cost, sel) = SumFunctionOnSet(u, 0 .. NumLids - 1)
      /\ Cost(x.cost, sel) = SumFunctionOnSet(w, 0 .. NumLids - 1)
  BY DEF Cost, Spending, u, w, Lids
<1>10. PICK p \in Int, q \in Int : p = Cost(y.cost, sel) /\ q = Cost(x.cost, sel)
  BY <1>8, <1>9
<1>11. m * p <= q
  <2>1. m * p <= 1 * q + NumLids * 0
    BY <1>8, <1>9, <1>10
  <2>2. 1 * q + NumLids * 0 = q
    BY <1>1
  <2> QED BY <2>1, <2>2
<1>12. q * d <= a
  <2>1. q <= a \div d
    BY <1>5, <1>10
  <2> QED BY <1>5, <2>1, DivLargest
<1>13. p * e <= b
  <2>1. (m * p) * d <= q * d
    <3>1. (q - m * p) * d >= 0
      <4>1. q - m * p \in Nat /\ d \in Nat
        BY <1>5, <1>11
      <4> QED BY <4>1
    <3>2. (q - m * p) * d = q * d - (m * p) * d
      BY <1>5
    <3>3. q * d \in Int /\ (m * p) * d \in Int
      BY <1>5
    <3> QED BY <3>1, <3>2, <3>3
  <2>2. p * e = (m * p) * d
    BY <1>3, <1>5
  <2>3. PICK f \in Int, g \in Int : f = (m * p) * d /\ g = q * d
    BY <1>5
  <2>4. f <= b
    BY <1>12, <2>1, <2>3
  <2> QED BY <2>2, <2>3, <2>4
<1> QED BY <1>6, <1>10, <1>13, DivLargest

-----------------------------------------------------------------------------
(* The bitrate mode *)

\* A limit of five or more is still one in units of its shift: where there is a shift,
\* there are eight units.
LEMMA RoomForRounding ==
  ASSUME NEW limit \in Nat, limit >= 5
  PROVE  5 <= limit \div Power(2, Shift(limit))
<1>1. DpBits \in Nat /\ DpBits >= 4
  BY SelectionAssumption, BitrateAssumption
<1>2. PICK s \in Nat : s = Shift(limit)
  BY ShiftIs
<1>3. PICK unit \in Nat \ {0} : unit = Power(2, s)
  BY PowerPositive
<1>4. 5 * unit <= limit
  <2>1. CASE s = 0
    <3>1. unit = 1
      BY <1>3, <2>1, PowerStep
    <3> QED BY <3>1
  <2>2. CASE s # 0
    <3>1. Power(2, s - 1 + DpBits) <= limit
      BY <1>2, <2>2, ShiftIs
    <3>2. DpBits - 1 \in Nat /\ s + (DpBits - 1) = s - 1 + DpBits
      BY <1>1
    <3>3. Power(2, s + (DpBits - 1)) = Power(2, s) * Power(2, DpBits - 1)
      BY <3>2, PowerSum
    <3>4. PICK e \in Nat \ {0} : e = Power(2, DpBits - 1)
      BY <3>2, PowerPositive
    <3>5. e >= 5
      <4>1. Power(2, 3) = 8
        <5>1. Power(2, 0) = 1 /\ Power(2, 0 + 1) = 2 * Power(2, 0)
              /\ Power(2, 1 + 1) = 2 * Power(2, 1) /\ Power(2, 2 + 1) = 2 * Power(2, 2)
          BY PowerStep
        <5> QED BY <5>1
      <4>2. DpBits - 4 \in Nat /\ 3 + (DpBits - 4) = DpBits - 1
        BY <1>1
      <4>3. Power(2, 3 + (DpBits - 4)) = Power(2, 3) * Power(2, DpBits - 4)
        BY <4>2, PowerSum
      <4>4. Power(2, DpBits - 4) \in Nat \ {0}
        BY <4>2, PowerPositive
      <4> QED BY <3>4, <4>1, <4>2, <4>3, <4>4
    <3>6. unit * e <= limit
      BY <1>3, <3>1, <3>2, <3>3, <3>4
    <3>7. 5 * unit <= unit * e
      <4>1. (e - 5) * unit >= 0
        BY <3>5
      <4>2. (e - 5) * unit = unit * e - 5 * unit
        OBVIOUS
      <4>3. unit * e \in Int
        OBVIOUS
      <4> QED BY <4>1, <4>2, <4>3
    <3>8. unit * e \in Int
      OBVIOUS
    <3> QED BY <3>6, <3>7, <3>8
  <2> QED BY <2>1, <2>2
<1>5. 5 <= limit \div unit
  BY <1>4, DivLargest
<1> QED BY <1>2, <1>3, <1>5, Zenon

\* What the scaled sizes come to: the limit less what is set aside.
LEMMA ScaledSizesIs ==
  ASSUME NEW cost, \A i \in Lids, k \in Counts : cost[i][k] \in Nat,
         NEW limit \in Nat, limit >= 5,
         NEW in, in = ScaledSizes(cost, limit), NEW unit, unit = Power(2, Shift(limit))
  PROVE  /\ unit \in Nat \ {0}
         /\ IsInput(in) /\ in.limit = limit \div unit - 5
         /\ \A i \in Lids, k \in Counts : in.cost[i][k] = cost[i][k] \div unit
         /\ \A i \in Lids, k \in Counts : cost[i][k] = 0 => in.cost[i][k] = 0
<1>1. Rounded(Scaled(cost, limit), cost, limit, unit)
  BY ScaledIs
<1>2. in.cost = Scaled(cost, limit).cost /\ in.limit = Scaled(cost, limit).limit - 5
  BY DEF ScaledSizes, Scaled
<1>3. PICK x : x = Scaled(cost, limit)
  OBVIOUS
<1>4. /\ unit \in Nat \ {0}
      /\ IsInput(x)
      /\ x.limit = limit \div unit
      /\ \A i \in Lids, k \in Counts : x.cost[i][k] = cost[i][k] \div unit
      /\ \A i \in Lids, k \in Counts : cost[i][k] = 0 => x.cost[i][k] = 0
  BY <1>1, <1>3, Zenon DEF Rounded
<1>5. in.cost = x.cost /\ in.limit = x.limit - 5
  BY <1>2, <1>3
<1>6. in.limit \in Nat
  <2>1. 5 <= limit \div unit
    BY RoomForRounding
  <2>2. x.limit \in Nat
    BY <1>4 DEF IsInput
  <2>3. 5 <= x.limit
    BY <1>4, <2>1, Zenon
  <2> QED BY <1>5, <2>2, <2>3
<1>7. IsInput(in)
  BY <1>4, <1>5, <1>6 DEF IsInput
<1>8. in.limit = limit \div unit - 5
  BY <1>4, <1>5, Zenon
<1> QED BY <1>4, <1>5, <1>7, <1>8, Zenon

\* The knapsack of the bitrate mode: what strategy_bitrate() keeps is a selection within
\* the scaled budget, and none leaves less uncertain.
LEMMA KeptIsLeast ==
  ASSUME NEW sizes \in SizeTables, NEW limit \in Nat, limit >= 5,
         NEW in, in = ScaledSizes(calckeptSizeTable(sizes), limit),
         NEW sel, sel = strategy_bitrate(calckeptSizeTable(sizes), calcUncerntaintyBitGroup, limit)
  PROVE  /\ sel \in [Lids -> Counts]
         /\ Cost(in.cost, sel) \in Int /\ Cost(in.cost, sel) <= in.limit
         /\ \A other \in [Lids -> Counts] : Cost(in.cost, other) <= in.limit =>
              Cost(calcUncerntaintyBitGroup, sel) <= Cost(calcUncerntaintyBitGroup, other)
<1>1. PICK v : v = calcUncerntaintyBitGroup
  OBVIOUS
<1>2. PICK d : d = LeastUncertain(v, in)
  OBVIOUS
<1>3. \A i \in Lids, k \in Counts : v[i][k] \in Nat
  BY <1>1, UncertaintyIsCount
<1>4. IsInput(in) /\ \A i \in Lids : in.cost[i][0] = 0
  <2>1. PICK cost, unit : cost = calckeptSizeTable(sizes) /\ unit = Power(2, Shift(limit))
    OBVIOUS
  <2>2. (\A i \in Lids, k \in Counts : cost[i][k] \in Nat) /\ (\A i \in Lids : cost[i][0] = 0)
    BY <2>1, SizesAreCounts
  <2>3. in = ScaledSizes(cost, limit)
    BY <2>1
  <2>4. IsInput(in) /\ \A i \in Lids, k \in Counts : cost[i][k] = 0 => in.cost[i][k] = 0
    BY <2>1, <2>2, <2>3, ScaledSizesIs
  <2>5. 0 \in Counts
    BY SelectionAssumption DEF Counts
  <2> QED BY <2>2, <2>4, <2>5
<1>5. sel = WalkBack(d, v, in)
  BY <1>1, <1>2 DEF strategy_bitrate
<1>6. Explained(d, v, in) /\ Undercuts(d, v, in)
  BY <1>2, <1>3, <1>4, LeastIsSolved
<1>7. IsTable(v) /\ IsTable(in.cost)
  BY <1>3, <1>4 DEF IsTable, IsInput
<1>8. /\ sel \in [Lids -> Counts]
      /\ Cost(in.cost, sel) <= in.limit
      /\ Cost(v, sel) = d[NumLids][in.limit]
  BY <1>4, <1>5, <1>6, <1>7, WalkFindsSelection
<1>9. Cost(in.cost, sel) \in Int
  BY <1>7, <1>8, CostIsNumber
<1>10. \A other \in [Lids -> Counts] :
         Cost(in.cost, other) <= in.limit => d[NumLids][in.limit] <= Cost(v, other)
  BY <1>4, <1>6, <1>7, NothingLess
<1> QED BY <1>1, <1>8, <1>9, <1>10

\* Where there is room, the budget does not wrap, and strategy_bitrate() answers it.
LEMMA AnswerInRoom ==
  ASSUME NEW sizes, NEW budget \in 0 .. MaxBytes, budget >= 3 * HeaderSize + 5
  PROVE  /\ budget - 3 * HeaderSize \in Nat /\ budget - 3 * HeaderSize >= 5
         /\ SelectBitrate(sizes, budget) =
              {Answer("kept", strategy_bitrate(calckeptSizeTable(sizes),
                                               calcUncerntaintyBitGroup,
                                               budget - 3 * HeaderSize))}
<1>1. /\ HeaderSize \in Nat /\ WordBits - 1 \in Nat /\ (WordBits - 1) + 1 = WordBits
      /\ MaxBytes \in Nat /\ MaxBytes < Power(2, WordBits - 1)
  BY SelectionAssumption, BitrateAssumption, RequestAssumption
<1>2. PICK half \in Nat \ {0} : half = Power(2, WordBits - 1)
  BY <1>1, PowerPositive
<1>3. Power(2, WordBits) = 2 * half
  BY <1>1, <1>2, PowerStep
<1>4. PICK limit \in Int : limit = budget - 3 * HeaderSize
  BY <1>1
<1>5. limit \in Nat /\ limit >= 5 /\ limit < half
  BY <1>1, <1>2, <1>4
<1>6. Unsigned(limit) = limit
  <2>1. limit \in 0 .. 2 * half - 1 /\ 2 * half \in Nat \ {0} /\ 0 \in Int
    BY <1>5
  <2>2. (0 * (2 * half) + limit) % (2 * half) = limit
    BY <2>1, DivUnique
  <2>3. 0 * (2 * half) + limit = limit
    BY <1>5
  <2> QED BY <1>3, <2>2, <2>3 DEF Unsigned
<1>7. ~(limit = 0) /\ ~(limit >= Power(2, WordBits - 1)) /\ ~(limit < 5)
  BY <1>2, <1>5
<1>8. calcBitgroup_bitrate(sizes, limit)
        = {Answer("kept", strategy_bitrate(calckeptSizeTable(sizes),
                                           calcUncerntaintyBitGroup, limit))}
  BY <1>7, Zenon DEF calcBitgroup_bitrate
<1>9. SelectBitrate(sizes, budget) = calcBitgroup_bitrate(sizes, limit)
  BY <1>4, <1>6, Zenon DEF SelectBitrate
<1> QED BY <1>4, <1>5, <1>8, <1>9, Zenon

-----------------------------------------------------------------------------
(* The theorems *)

\* The answer is that of the selection, for a table of sizes and a request the callers
\* may make.
SelectionInv ==
  /\ size_lb \in SizeTables
  /\ \/ /\ mode = "error"
        /\ request \in Nat
        /\ answer = Answer("kept", SelectPlanes(size_lb, request))
     \/ /\ mode = "bitrate"
        /\ request \in 0 .. MaxBytes
        /\ answer \in SelectBitrate(size_lb, request)

\* Whatever is asked in turn, the answer is the selection's for what was asked last:
\* the two callers of calcBitgroup() and calcBitgroup_bitrate().
LEMMA SelectionInvariant == Spec => []SelectionInv
<1>1. Init => SelectionInv
  <2> SUFFICES ASSUME Init PROVE SelectionInv
    OBVIOUS
  <2>1. size_lb \in SizeTables
    BY RequestAssumption DEF Init, SizeTables
  <2>2. MaxUnits \in Nat /\ 0 \in 0 .. MaxBytes
    BY RequestAssumption
  <2> QED BY <2>1, <2>2 DEF Init, SelectionInv
<1>2. SelectionInv /\ [Next]_vars => SelectionInv'
  <2> SUFFICES ASSUME SelectionInv, [Next]_vars PROVE SelectionInv'
    OBVIOUS
  <2>1. CASE Tighten
    BY <2>1 DEF Tighten, SelectionInv
  <2>2. CASE Raise
    <3>1. request' \in 0 .. MaxBytes
      BY <2>2, RequestAssumption DEF Raise, SelectionInv
    <3> QED BY <2>2, <3>1 DEF Raise, SelectionInv
  <2>3. CASE UNCHANGED vars
    BY <2>3 DEF vars, SelectionInv
  <2> QED BY <2>1, <2>2, <2>3 DEF Next
<1> QED BY <1>1, <1>2, PTL DEF Spec

\* What is kept for a target of at least one error bound.
LEMMA KeptForTarget ==
  ASSUME SelectionInv, mode = "error", request > 0
  PROVE  /\ size_lb \in SizeTables /\ request \in Nat \ {0}
         /\ kept = SelectPlanes(size_lb, request)
BY DEF SelectionInv, kept, Answer

\* strategy() spends no more than its limit, and no selection within it saves more.
THEOREM KnapsackIsOptimal == Spec => []OptimalWithinLimit
<1>1. SelectionInv => OptimalWithinLimit
  <2> SUFFICES ASSUME SelectionInv, mode = "error", request > 0
               PROVE  /\ Cost(ScaledCost.cost, kept) <= ScaledCost.limit
                      /\ \A sel \in [Lids -> Counts] :
                           Cost(ScaledCost.cost, sel) <= ScaledCost.limit =>
                             Saved(sel) <= Saved(kept)
    BY DEF OptimalWithinLimit
  <2>1. /\ size_lb \in SizeTables /\ request \in Nat \ {0}
        /\ kept = SelectPlanes(size_lb, request)
    BY KeptForTarget
  <2>2. PICK in : in = Scaled(calcUncerntaintyBitGroup, request - 1)
    OBVIOUS
  <2>3. /\ Cost(in.cost, kept) <= in.limit
        /\ \A other \in [Lids -> Counts] : Cost(in.cost, other) <= in.limit =>
             Cost(calcValueTable(size_lb), other) <= Cost(calcValueTable(size_lb), kept)
    BY <2>1, <2>2, KeptIsOptimal
  <2> QED BY <2>2, <2>3 DEF ScaledCost, Saved
<1> QED BY <1>1, SelectionInvariant, PTL

\* The thrown planes, and the quantization, stay within the target, but for the rounding
\* of each stage's cost to scaled units (strategy()'s shift).
THEOREM TargetIsMet == Spec => []WithinTarget
<1>1. SelectionInv => WithinTarget
  <2> SUFFICES ASSUME SelectionInv, mode = "error", request > 0
               PROVE  Cost(calcUncerntaintyBitGroup, kept) + 1
                        <= request + NumLids * (Power(2, Shift(request - 1)) - 1)
    BY DEF WithinTarget
  <2>1. /\ size_lb \in SizeTables /\ request \in Nat \ {0}
        /\ kept = SelectPlanes(size_lb, request)
    BY KeptForTarget
  <2>2. PICK in : in = Scaled(calcUncerntaintyBitGroup, request - 1)
    OBVIOUS
  <2>3. /\ kept \in [Lids -> Counts]
        /\ Cost(in.cost, kept) <= in.limit
    BY <2>1, <2>2, KeptIsOptimal
  <2>4. PICK limit \in Nat : limit = request - 1
    BY <2>1
  <2>5. \A i \in Lids, k \in Counts : calcUncerntaintyBitGroup[i][k] \in Nat
    BY UncertaintyIsCount
  <2>6. Rounded(in, calcUncerntaintyBitGroup, limit, Power(2, Shift(limit)))
    BY <2>2, <2>4, <2>5, ScaledIs, Zenon
  <2>7. PICK unit : unit = Power(2, Shift(limit))
    OBVIOUS
  <2>8. /\ unit \in Nat \ {0} /\ in.limit = limit \div unit
        /\ \A i \in Lids, k \in Counts : in.cost[i][k] = calcUncerntaintyBitGroup[i][k] \div unit
    BY <2>6, <2>7, Zenon DEF Rounded
  <2>9. /\ Cost(calcUncerntaintyBitGroup, kept) \in Int
        /\ Cost(in.cost, kept) <= limit \div unit =>
             Cost(calcUncerntaintyBitGroup, kept) <= limit + NumLids * (unit - 1)
    <3>1. limit \in Int
      OBVIOUS
    <3> QED BY <2>3, <2>5, <2>8, <3>1, UnscaledCost
  <2>10. Cost(in.cost, kept) <= limit \div unit
    BY <2>3, <2>8, Zenon
  <2>11. Cost(calcUncerntaintyBitGroup, kept) <= limit + NumLids * (unit - 1)
    BY <2>9, <2>10, Zenon
  <2>12. PICK x \in Int, y \in Int :
           x = Cost(calcUncerntaintyBitGroup, kept) /\ y = NumLids * (unit - 1)
    BY <2>8, <2>9, SelectionAssumption
  <2>13. x + 1 <= request + y
    BY <2>1, <2>4, <2>11, <2>12
  <2> QED BY <2>4, <2>7, <2>12, <2>13, Zenon
<1> QED BY <1>1, SelectionInvariant, PTL

\* A tighter target never reads less: what fits its limit fits the looser one, where
\* nothing saves more than what was kept for it (decompress() for a list of targets).
THEOREM TighterReads == Spec => TighterReadsMore
<1>1. SelectionInv /\ SelectionInv' /\ [Next]_vars =>
        [mode = "error" => Saved(kept') <= Saved(kept)]_vars
  <2> SUFFICES ASSUME SelectionInv, SelectionInv', Next, mode = "error"
               PROVE  Saved(kept') <= Saved(kept)
    OBVIOUS
  <2>1. Tighten
    BY DEF Next, Raise
  <2>2. request \in Nat /\ request > 0 /\ request' = request - 1
    BY <2>1 DEF Tighten, SelectionInv
  <2>3. /\ size_lb \in SizeTables /\ request \in Nat \ {0}
        /\ kept = SelectPlanes(size_lb, request)
    BY <2>2, KeptForTarget
  <2>4. kept' = SelectPlanes(size_lb, request - 1)
    BY <2>1, <2>2 DEF Tighten, kept, Answer
  <2>5. PICK v, looser, tighter, new :
          /\ v = calcValueTable(size_lb)
          /\ looser = Scaled(calcUncerntaintyBitGroup, request - 1)
          /\ tighter = Scaled(calcUncerntaintyBitGroup, request - 1 - 1)
          /\ new = kept'
    OBVIOUS
  <2>6. \A l \in Lids, b \in Counts : v[l][b] \in Nat
    BY <2>3, <2>5, SizesAreCounts
  <2>7. /\ kept \in [Lids -> Counts]
        /\ \A other \in [Lids -> Counts] : Cost(looser.cost, other) <= looser.limit =>
             Cost(v, other) <= Cost(v, kept)
    BY <2>3, <2>5, KeptIsOptimal
  <2>8. Cost(v, new) <= Cost(v, kept)
    <3>1. CASE request - 1 = 0
      <4>1. new = [l \in Lids |-> Planes]
        BY <2>4, <2>5, <3>1 DEF SelectPlanes
      <4>2. Cost(v, new) = 0
        <5>1. \A l \in Lids : Spending(v, new)[l] = 0
          BY <2>3, <2>5, <4>1, SizesAreCounts DEF Spending
        <5>2. IsFiniteSet(Lids)
          BY SelectionAssumption, FS_Interval DEF Lids
        <5>3. SumFunctionOnSet(Spending(v, new), Lids) = Cardinality(Lids) * 0
          <6>1. 0 \in Nat
            OBVIOUS
          <6> QED BY <5>1, <5>2, <6>1, SumConstant
        <5>4. PICK n \in Nat : n = Cardinality(Lids)
          BY <5>2, FS_CardinalityType
        <5>5. n * 0 = 0
          OBVIOUS
        <5> QED BY <5>3, <5>4, <5>5, Zenon DEF Cost, Spending
      <4>3. Cost(v, kept) \in Nat
        <5>1. IsTable(v)
          BY <2>6 DEF IsTable
        <5> QED BY <2>6, <2>7, <5>1, CostIsNumber
      <4> QED BY <4>2, <4>3
    <3>2. CASE request - 1 # 0
      <4>1. request - 1 \in Nat \ {0} /\ request - 1 - 1 \in Nat /\ request - 1 - 1 <= request - 1
        BY <2>3, <3>2
      <4>2. new \in [Lids -> Counts] /\ Cost(tighter.cost, new) <= tighter.limit
        BY <2>3, <2>4, <2>5, <4>1, KeptIsOptimal
      <4>3. \A i \in Lids, k \in Counts : calcUncerntaintyBitGroup[i][k] \in Nat
        BY UncertaintyIsCount
      <4>4. PICK a \in Nat, b \in Nat : a = request - 1 - 1 /\ b = request - 1 /\ a <= b
        BY <4>1
      <4>5. /\ tighter = Scaled(calcUncerntaintyBitGroup, a)
            /\ looser = Scaled(calcUncerntaintyBitGroup, b)
        BY <2>5, <4>4
      <4>6. Cost(looser.cost, new) <= looser.limit
        BY <4>2, <4>3, <4>4, <4>5, FitsLooser
      <4> QED BY <2>7, <4>2, <4>6
    <3> QED BY <3>1, <3>2
  <2> QED BY <2>5, <2>8, Zenon DEF Saved
<1> QED BY <1>1, SelectionInvariant, PTL DEF Spec, TighterReadsMore

\* What is kept for a budget that has room.
LEMMA KeptForBudget ==
  ASSUME SelectionInv, Room
  PROVE  /\ size_lb \in SizeTables /\ request \in Nat /\ HeaderSize \in Nat
         /\ Remaining \in Nat /\ Remaining >= 5 /\ request = Remaining + 3 * HeaderSize
         /\ kept = strategy_bitrate(calckeptSizeTable(size_lb), calcUncerntaintyBitGroup,
                                    Remaining)
<1>1. /\ size_lb \in SizeTables /\ request \in 0 .. MaxBytes
      /\ answer \in SelectBitrate(size_lb, request)
      /\ request >= 3 * HeaderSize + 5
  BY DEF SelectionInv, Room
<1>2. /\ Remaining \in Nat /\ Remaining >= 5
      /\ SelectBitrate(size_lb, request) =
           {Answer("kept", strategy_bitrate(calckeptSizeTable(size_lb),
                                            calcUncerntaintyBitGroup, Remaining))}
  BY <1>1, AnswerInRoom DEF Remaining
<1>3. answer = Answer("kept", strategy_bitrate(calckeptSizeTable(size_lb),
                                               calcUncerntaintyBitGroup, Remaining))
  BY <1>1, <1>2
<1>4. kept = strategy_bitrate(calckeptSizeTable(size_lb), calcUncerntaintyBitGroup, Remaining)
  BY <1>3 DEF kept, Answer
<1>5. request \in Nat /\ HeaderSize \in Nat /\ request = Remaining + 3 * HeaderSize
  BY <1>1, BitrateAssumption, RequestAssumption DEF Remaining
<1> QED BY <1>1, <1>2, <1>4, <1>5

\* strategy_bitrate() spends no more than its scaled budget, and no selection within it
\* leaves less uncertain.
THEOREM UncertaintyIsLeast == Spec => []LeastUncertainty
<1>1. SelectionInv => LeastUncertainty
  <2> SUFFICES ASSUME SelectionInv, Room PROVE LeastUncertainty
    BY DEF LeastUncertainty
  <2>1. /\ size_lb \in SizeTables /\ Remaining \in Nat /\ Remaining >= 5
        /\ kept = strategy_bitrate(calckeptSizeTable(size_lb), calcUncerntaintyBitGroup,
                                   Remaining)
    BY KeptForBudget
  <2>2. PICK in : in = ScaledSizes(calckeptSizeTable(size_lb), Remaining)
    OBVIOUS
  <2>3. /\ Cost(in.cost, kept) <= in.limit
        /\ \A other \in [Lids -> Counts] : Cost(in.cost, other) <= in.limit =>
             Cost(calcUncerntaintyBitGroup, kept) <= Cost(calcUncerntaintyBitGroup, other)
    BY <2>1, <2>2, KeptIsLeast
  <2> QED BY <2>2, <2>3 DEF LeastUncertainty
<1> QED BY <1>1, SelectionInvariant, PTL

\* The bytes decompress_bitrate() fetches stay within the budget: what is set aside pays
\* for the rounding of five stages, and three headers for one and the unpredictable block.
THEOREM BudgetIsKept == Spec => []WithinBudget
<1>1. SelectionInv => WithinBudget
  <2> SUFFICES ASSUME SelectionInv, Room PROVE WithinBudget
    BY DEF WithinBudget
  <2>1. /\ size_lb \in SizeTables /\ request \in Nat /\ HeaderSize \in Nat
        /\ Remaining \in Nat /\ Remaining >= 5 /\ request = Remaining + 3 * HeaderSize
        /\ kept = strategy_bitrate(calckeptSizeTable(size_lb), calcUncerntaintyBitGroup,
                                   Remaining)
    BY KeptForBudget
  <2>2. PICK limit \in Nat : limit = Remaining
    BY <2>1
  <2>3. PICK unit, sizes : /\ unit = Power(2, Shift(Remaining))
                           /\ sizes = calckeptSizeTable(size_lb)
    OBVIOUS
  <2>4. /\ limit = Remaining /\ unit = Power(2, Shift(Remaining))
        /\ sizes = calckeptSizeTable(size_lb)
    BY <2>2, <2>3
  <2>5. PICK in : in = ScaledSizes(sizes, limit)
    OBVIOUS
  <2>6. \A i \in Lids, k \in Counts : sizes[i][k] \in Nat
    BY <2>1, <2>4, SizesAreCounts
  <2>7. /\ unit \in Nat \ {0} /\ in.limit = limit \div unit - 5
        /\ \A i \in Lids, k \in Counts : in.cost[i][k] = sizes[i][k] \div unit
    <3>1. limit >= 5 /\ unit = Power(2, Shift(limit))
      BY <2>1, <2>4
    <3> QED BY <2>5, <2>6, <3>1, ScaledSizesIs
  <2>8. /\ kept \in [Lids -> Counts]
        /\ Cost(in.cost, kept) \in Int /\ Cost(in.cost, kept) <= in.limit
    BY <2>1, <2>4, <2>5, KeptIsLeast
  <2>9. limit - 5 * unit \in Int
    BY <2>7
  <2>10. Cost(in.cost, kept) <= (limit - 5 * unit) \div unit
    <3>1. PICK y \in Int, q \in Int : y = Cost(in.cost, kept) /\ q = limit \div unit
      BY <2>7, <2>8, DivLargest
    <3>2. y + 5 <= q
      BY <2>7, <2>8, <3>1
    <3>3. (y + 5) * unit <= limit
      <4>1. y + 5 \in Int /\ limit \in Int
        OBVIOUS
      <4> QED BY <2>7, <3>1, <3>2, <4>1, DivLargest
    <3>4. (y + 5) * unit = y * unit + 5 * unit /\ y * unit \in Int
      BY <2>7
    <3>5. y * unit <= limit - 5 * unit
      BY <2>7, <3>3, <3>4
    <3> QED BY <2>7, <2>9, <3>1, <3>5, DivLargest
  <2>11. /\ Cost(sizes, kept) \in Int
         /\ Cost(in.cost, kept) <= (limit - 5 * unit) \div unit =>
              Cost(sizes, kept) <= (limit - 5 * unit) + NumLids * (unit - 1)
    BY <2>6, <2>7, <2>8, <2>9, UnscaledCost
  <2>12. PICK x \in Int, rounding \in Int :
           x = Cost(sizes, kept) /\ rounding = NumLids * (unit - 1)
    <3>1. NumLids \in Int /\ unit - 1 \in Int
      BY <2>7, SelectionAssumption
    <3>2. NumLids * (unit - 1) \in Int
      BY <3>1
    <3> QED BY <2>11, <3>2, Zenon
  <2>13. x <= (limit - 5 * unit) + rounding
    BY <2>10, <2>11, <2>12, Zenon
  <2>14. PICK block \in Nat :
           /\ block = IF kept = Nothing THEN 0 ELSE UnpredSize
           /\ block <= 2 * HeaderSize
    BY <2>1, UnpredAssumption
  <2>15. Fetched = HeaderSize + x + block
    BY <2>4, <2>12, <2>14, Zenon DEF Fetched
  <2>16. Fetched <= request - 5 * unit + rounding
    <3>1. /\ HeaderSize \in Nat /\ request \in Nat /\ request = limit + 3 * HeaderSize
          /\ unit \in Nat /\ block <= 2 * HeaderSize
      BY <2>1, <2>4, <2>7, <2>14
    <3> QED BY <2>13, <2>15, <3>1
  <2>17. rounding - 5 * unit <= IF NumLids > 5 THEN (NumLids - 5) * (unit - 1) ELSE 0
    <3>1. NumLids \in Nat
      BY SelectionAssumption
    <3>2. PICK n \in Int, g \in Nat, p \in Int :
            n = NumLids - 5 /\ g = unit - 1 /\ p = (NumLids - 5) * (unit - 1)
      BY <2>7, <3>1
    <3>3. rounding = p + 5 * g
      BY <2>7, <2>12, <3>1, <3>2
    <3>4. n <= 0 => p <= 0
      BY <3>2
    <3> QED BY <2>7, <3>1, <3>2, <3>3, <3>4
  <2>18. PICK over \in Int : over = IF NumLids > 5 THEN (NumLids - 5) * (unit - 1) ELSE 0
    BY <2>7, SelectionAssumption
  <2>19. Fetched <= request + over
    BY <2>1, <2>7, <2>12, <2>14, <2>15, <2>16, <2>17, <2>18
  <2> QED BY <2>4, <2>18, <2>19, Zenon DEF WithinBudget
<1> QED BY <1>1, SelectionInvariant, PTL
=============================================================================
