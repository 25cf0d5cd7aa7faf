--------------------------- MODULE TimelapseProofs ---------------------------
(***************************************************************************)
(* Theorems about the plan that timelapse.ts makes of the marks of a run,  *)
(* for any marks, any length of the recording and any policy: each pass    *)
(* over the marks or the intervals (pairing, merging, suites, the sweep,   *)
(* the filter, the cap, the pieces) is shown to compute what it stands     *)
(* for, by induction over what it has gone through, and so the film shows  *)
(* what the marks ask for.                                                 *)
(*                                                                         *)
(* The passes are recursive functions.  That one exists is proved once     *)
(* (Recursion), and for each of them that it takes its values step by step *)
(* (MergingDoes, PairingDoes, BoundingDoes, SweepingDoes, KeepingDoes,     *)
(* CappingDoes, LayingDoes).                                               *)
(***************************************************************************)
EXTENDS Timelapse, TLAPS, SequenceTheorems, FiniteSetTheorems, WellFoundedInduction

(* Induction, as the absence of a smallest counterexample. *)
LEMMA SmallestThere ==
  ASSUME NEW S \in SUBSET Nat, S # {}
  PROVE  \E m \in S : \A k \in S : m <= k
<1>1. \E m \in S : \A k \in S : <<k, m>> \notin OpToRel(<, Nat)
  BY NatLessThanWellFounded, WFMin
<1>2. \A k, m \in Nat : k < m => <<k, m>> \in OpToRel(<, Nat)
  BY DEF OpToRel
<1>3. PICK m \in S : \A k \in S : <<k, m>> \notin OpToRel(<, Nat)
  BY <1>1
<1>4. ASSUME NEW k \in S PROVE m <= k
  <2>1. k \in Nat /\ m \in Nat /\ ~(k < m)
    BY <1>2, <1>3
  <2> QED
    BY <2>1
<1> QED
  BY <1>4

(* A set that has the first number and with every number the next.         *)
LEMMA Induction ==
  ASSUME NEW m \in Nat, NEW n \in Nat, NEW S, m \in S,
         \A i \in m + 1..n : i - 1 \in S => i \in S
  PROVE  m..n \subseteq S
<1> DEFINE bad == {i \in Nat : i \in m..n /\ i \notin S}
<1>1. ASSUME bad # {} PROVE FALSE
  <2>1. PICK i \in bad : \A k \in bad : i <= k
    BY <1>1, SmallestThere
  <2>2. i \in m + 1..n /\ i - 1 \in Nat /\ i - 1 \in m..n
    BY <2>1
  <2>3. i - 1 \in S
    BY <2>1, <2>2
  <2> QED
    BY <2>1, <2>2, <2>3
<1> QED
  BY <1>1

(* f[i] is the result of the first i steps. *)
Iterates(f, n, V, base, step) ==
  f \in [0..n -> V] /\ f[0] = base /\ \A i \in 1..n : f[i] = step[i][f[i - 1]]

(* A recursive definition over 1..n has a solution.                        *)
LEMMA Recursion ==
  ASSUME NEW n \in Nat, NEW V, NEW base \in V, NEW step \in [1..n -> [V -> V]]
  PROVE  \E f : Iterates(f, n, V, base, step)
<1> DEFINE Upto(m, f) == f[0] = base /\ \A i \in 1..m : f[i] = step[i][f[i - 1]]
           S == {m \in 0..n : \E f \in [0..m -> V] : Upto(m, f)}
<1>1. 0 \in S
  <2> DEFINE g == [i \in 0..0 |-> base]
  <2>1. g \in [0..0 -> V] /\ Upto(0, g)
    OBVIOUS
  <2> HIDE DEF Upto, g
  <2> QED
    BY <2>1
<1>2. ASSUME NEW m \in 0 + 1..n, m - 1 \in S PROVE m \in S
  <2>1. PICK f \in [0..m - 1 -> V] : Upto(m - 1, f)
    BY <1>2
  <2> DEFINE g == [i \in 0..m |-> IF i = m THEN step[m][f[m - 1]] ELSE f[i]]
  <2>2. m \in 1..n /\ m - 1 \in 0..m - 1 /\ step[m] \in [V -> V]
    OBVIOUS
  <2>3. step[m][f[m - 1]] \in V
    BY <2>1, <2>2
  <2>4. g \in [0..m -> V]
    BY <2>1, <2>3
  <2>5. g[0] = base
    BY <2>1
  <2>6. ASSUME NEW i \in 1..m PROVE g[i] = step[i][g[i - 1]]
    <3>1. i - 1 \in 0..m - 1 /\ g[i - 1] = f[i - 1]
      OBVIOUS
    <3>2. CASE i = m
      BY <3>1, <3>2
    <3>3. CASE i # m
      BY <2>1, <3>1, <3>3
    <3> QED
      BY <3>2, <3>3
  <2>7. Upto(m, g)
    BY <2>5, <2>6
  <2> HIDE DEF Upto, g
  <2> QED
    BY <2>4, <2>7
<1>3. 0..n \subseteq S
  <2> HIDE DEF S
  <2> QED
    BY <1>1, <1>2, Induction
<1>4. n \in S
  BY <1>3
<1> QED
  BY <1>4 DEF Iterates

(* What a function satisfies that is defined by recursion. *)
LEMMA SameIterates ==
  ASSUME NEW n \in Nat, NEW f, NEW g, f[0] = g[0],
         \A i \in 1..n : f[i - 1] = g[i - 1] => f[i] = g[i]
  PROVE  \A i \in 0..n : f[i] = g[i]
<1> DEFINE S == {i \in 0..n : f[i] = g[i]}
<1>1. 0 \in S
  OBVIOUS
<1>2. ASSUME NEW i \in 0 + 1..n, i - 1 \in S PROVE i \in S
  BY <1>2
<1>3. 0..n \subseteq S
  <2> HIDE DEF S
  <2> QED
    BY <1>1, <1>2, Induction
<1> QED
  BY <1>3

(* A finite set ranked by a strict total order. *)
Enumerates(r, n, S, R) ==
  /\ n \in Nat /\ r \in Seq(S) /\ Len(r) = n /\ \A i \in 1..n : r[i] \in S
  /\ \A i, j \in 1..n : i < j => <<r[i], r[j]>> \in R
  /\ \A x \in S : \E i \in 1..n : r[i] = x

(* Ranked enumerates a finite set in the order of a total order on it.     *)
LEMMA RankedOrder ==
  ASSUME NEW S, IsFiniteSet(S), NEW R,
         \A x \in S : <<x, x>> \notin R,
         \A x, y \in S : x # y => <<x, y>> \in R \/ <<y, x>> \in R,
         \A x, y, z \in S : <<x, y>> \in R /\ <<y, z>> \in R => <<x, z>> \in R,
         NEW r, r = Ranked(S, R), NEW n, n = Cardinality(S)
  PROVE  Enumerates(r, n, S, R)
<1> DEFINE below(x) == {y \in S : <<y, x>> \in R}
           rank == [x \in S |-> Cardinality(below(x))]
<1>1. n \in Nat /\ IsFiniteSet(0..n - 1) /\ Cardinality(0..n - 1) = n
  <2>1. n \in Nat
    BY FS_CardinalityType
  <2>2. 0 \in Int /\ n - 1 \in Int
    BY <2>1
  <2>3. IsFiniteSet(0..n - 1) /\ Cardinality(0..n - 1) = IF 0 > n - 1 THEN 0 ELSE n - 1 - 0 + 1
    BY <2>2, FS_Interval
  <2> QED
    BY <2>1, <2>3
<1>2. ASSUME NEW x \in S PROVE IsFiniteSet(below(x)) /\ Cardinality(below(x)) \in 0..n - 1
  <2>1. below(x) \in SUBSET S /\ x \notin below(x)
    OBVIOUS
  <2> HIDE DEF below
  <2>2. IsFiniteSet(below(x)) /\ Cardinality(below(x)) <= Cardinality(S)
    BY <2>1, FS_Subset
  <2>3. Cardinality(below(x)) # Cardinality(S)
    BY <2>1, FS_Subset
  <2>4. Cardinality(below(x)) \in Nat
    BY <2>2, FS_CardinalityType
  <2> QED
    BY <1>1, <2>2, <2>3, <2>4
<1>3. ASSUME NEW x \in S, NEW y \in S, <<x, y>> \in R PROVE rank[x] < rank[y]
  <2>1. below(x) \in SUBSET below(y) /\ x \in below(y) /\ x \notin below(x)
    BY <1>3
  <2>2. IsFiniteSet(below(y)) /\ Cardinality(below(y)) \in Nat /\ Cardinality(below(x)) \in Nat
    <3> HIDE DEF below, rank
    <3>1. Cardinality(below(x)) \in 0..n - 1 /\ Cardinality(below(y)) \in 0..n - 1
      BY <1>2
    <3> QED
      BY <1>1, <1>2, <3>1
  <2>3. rank[x] = Cardinality(below(x)) /\ rank[y] = Cardinality(below(y))
    OBVIOUS
  <2> HIDE DEF below, rank
  <2>4. Cardinality(below(x)) <= Cardinality(below(y))
    BY <2>1, <2>2, FS_Subset
  <2>5. Cardinality(below(x)) # Cardinality(below(y))
    BY <2>1, <2>2, FS_Subset
  <2> QED
    BY <2>2, <2>3, <2>4, <2>5
<1>4. rank \in [S -> 0..n - 1]
  BY <1>2
<1>5. rank \in Injection(S, 0..n - 1)
  <2>1. ASSUME NEW x \in S, NEW y \in S, rank[x] = rank[y] PROVE x = y
    <3> HIDE DEF rank, below
    <3>1. rank[x] \in Int /\ rank[y] \in Int
      BY <1>1, <1>4
    <3>2. ~(rank[x] < rank[y]) /\ ~(rank[y] < rank[x])
      BY <2>1, <3>1
    <3> QED
      BY <1>3, <3>2
  <2> HIDE DEF rank
  <2> QED
    BY <1>4, <2>1 DEF Injection, IsInjective
<1>6. rank \in Surjection(S, 0..n - 1)
  <2> HIDE DEF rank
  <2> QED
    BY <1>1, <1>5, FS_Injection
<1>7. ASSUME NEW i \in 1..n PROVE \E x \in S : rank[x] = i - 1
  <2>1. i - 1 \in 0..n - 1
    BY <1>1
  <2> HIDE DEF rank
  <2> QED
    BY <1>6, <2>1 DEF Surjection
<1>8. ASSUME NEW i \in 1..n PROVE r[i] \in S /\ rank[r[i]] = i - 1
  <2>1. r[i] = CHOOSE x \in S : rank[x] = i - 1
    BY DEF Ranked
  <2> HIDE DEF rank
  <2> QED
    BY <1>7, <2>1
<1>9. r \in [1..n -> S]
  <2> DEFINE at(i) == CHOOSE x \in S : Cardinality(below(x)) = i - 1
  <2>1. r = [i \in 1..n |-> at(i)]
    BY DEF Ranked
  <2> HIDE DEF at, rank
  <2> QED
    BY <1>8, <2>1
<1>10. r \in Seq(S) /\ Len(r) = n
  BY <1>1, <1>9
<1> HIDE DEF rank, below
<1>11. ASSUME NEW i \in 1..n, NEW j \in 1..n, i < j PROVE <<r[i], r[j]>> \in R
  <2>1. rank[r[i]] < rank[r[j]] /\ r[i] \in S /\ r[j] \in S /\ r[i] # r[j]
    BY <1>1, <1>8, <1>11
  <2>2. ~(rank[r[j]] < rank[r[i]])
    BY <1>4, <2>1, <1>1
  <2> QED
    BY <1>3, <2>1, <2>2
<1>12. ASSUME NEW x \in S PROVE \E i \in 1..n : r[i] = x
  <2>1. rank[x] + 1 \in 1..n
    BY <1>1, <1>4
  <2>2. r[rank[x] + 1] \in S /\ rank[r[rank[x] + 1]] = rank[x]
    BY <1>1, <1>4, <1>8, <2>1
  <2>3. r[rank[x] + 1] = x
    BY <1>5, <2>2 DEF Injection, IsInjective
  <2> QED
    BY <2>1, <2>3
<1> QED
  BY <1>1, <1>8, <1>10, <1>11, <1>12 DEF Enumerates

(* The image of a finite set of indices is finite.                         *)
LEMMA ImageFinite ==
  ASSUME NEW S, IsFiniteSet(S), NEW f, DOMAIN f = S, NEW T, T = {f[x] : x \in S}
  PROVE  IsFiniteSet(T)
<1> DEFINE g == [x \in S |-> f[x]]
<1>1. g \in Surjection(S, T)
  BY DEF Surjection
<1> HIDE DEF g
<1> QED
  BY <1>1, FS_Surjection

(* Marks, and marks in order of time. *)
Marks == {m \in [of : Kinds \cup {"suite"}, opens : BOOLEAN, suite : Suite \cup {None}, t : Int] :
            m.of = "suite" => m.suite \in Suite}

InOrder(ms) == ms \in Seq(Marks) /\ \A i, j \in 1..Len(ms) : i <= j => ms[i].t <= ms[j].t

(* Sorted puts any marks in the order of their times.                      *)
LEMMA SortedInOrder ==
  ASSUME NEW marks \in Seq(Marks)
  PROVE  InOrder(Sorted(marks))
<1> DEFINE S == DOMAIN marks
           R == Earlier(marks)
           r == Ranked(S, R)
           n == Cardinality(S)
           ms == Sorted(marks)
<1>1. S = 1..Len(marks) /\ Len(marks) \in Nat /\ \A i \in S : marks[i] \in Marks /\ marks[i].t \in Int
  BY DEF Marks
<1>2. IsFiniteSet(S) /\ n = Len(marks)
  <2>1. 1 \in Int /\ Len(marks) \in Int
    BY <1>1
  <2>2. /\ IsFiniteSet(1..Len(marks))
        /\ Cardinality(1..Len(marks)) = IF 1 > Len(marks) THEN 0 ELSE Len(marks) - 1 + 1
    BY <2>1, FS_Interval
  <2>3. Cardinality(1..Len(marks)) = Len(marks)
    BY <1>1, <2>2
  <2> HIDE DEF S
  <2> QED
    BY <1>1, <2>2, <2>3
<1>3. \A i, j \in S : <<i, j>> \in R <=> \/ marks[i].t < marks[j].t
                                         \/ marks[i].t = marks[j].t /\ i < j
  BY DEF Earlier
<1> HIDE DEF R, S
<1>4. \A i \in S : <<i, i>> \notin R
  BY <1>1, <1>3
<1>5. \A i, j \in S : i # j => <<i, j>> \in R \/ <<j, i>> \in R
  BY <1>1, <1>3
<1>6. \A i, j, k \in S : <<i, j>> \in R /\ <<j, k>> \in R => <<i, k>> \in R
  <2> SUFFICES ASSUME NEW i \in S, NEW j \in S, NEW k \in S, <<i, j>> \in R, <<j, k>> \in R
               PROVE  <<i, k>> \in R
    OBVIOUS
  <2>1. marks[i].t \in Int /\ marks[j].t \in Int /\ marks[k].t \in Int
    BY <1>1
  <2>2. i \in Int /\ j \in Int /\ k \in Int
    BY <1>1
  <2> QED
    BY <1>3, <2>1, <2>2
<1> HIDE DEF r, n
<1>7. /\ \A i \in 1..n : r[i] \in S
      /\ \A i, j \in 1..n : i < j => <<r[i], r[j]>> \in R
  BY <1>2, <1>4, <1>5, <1>6, RankedOrder DEF r, n, Enumerates
<1>8. ms = [i \in S |-> marks[r[i]]]
  BY DEF Sorted, r, R, S
<1> HIDE DEF ms
<1>9. ms \in Seq(Marks) /\ Len(ms) = n /\ \A i \in 1..n : ms[i] = marks[r[i]]
  <2>1. ms \in [1..n -> Marks]
    BY <1>1, <1>2, <1>7, <1>8
  <2> QED
    BY <1>1, <1>2, <1>8, <2>1
<1>10. ASSUME NEW i \in 1..n, NEW j \in 1..n, i <= j PROVE ms[i].t <= ms[j].t
  <2>1. marks[r[i]].t \in Int /\ marks[r[j]].t \in Int /\ r[i] \in S /\ r[j] \in S
    BY <1>1, <1>7
  <2>2. CASE i = j
    BY <1>9, <2>1, <2>2
  <2>3. CASE i # j
    <3>1. i < j
      BY <1>1, <1>2, <1>10, <2>3
    <3>2. <<r[i], r[j]>> \in R
      BY <1>7, <3>1
    <3>3. marks[r[i]].t <= marks[r[j]].t
      BY <1>3, <2>1, <3>2
    <3> QED
      BY <1>9, <3>3
  <2> QED
    BY <2>2, <2>3
<1> QED
  BY <1>9, <1>10 DEF InOrder, ms

-----------------------------------------------------------------------------
Intervals == [from : Int, to : Int]

(* Intervals within the recording and long enough. *)
Good(M, minimum) ==
  /\ M \in SUBSET Intervals /\ IsFiniteSet(M)
  /\ \A m \in M : 0 <= m.from /\ m.to <= Duration /\ m.to - m.from >= minimum

Has(iv, x) == iv.from <= x /\ x < iv.to

(* What merging one more interval does: the same instants are in it.       *)
LEMMA MergeOne ==
  ASSUME NEW minimum \in Nat, NEW M, Good(M, minimum),
         NEW iv, Good({iv}, minimum), \A m \in M : m.from <= iv.from,
         NEW N, N = Merge(M, iv)
  PROVE  /\ Good(N, minimum) /\ \A m \in N : m.from <= iv.from
         /\ \A x \in Int : In(x, N) <=> In(x, M) \/ Has(iv, x)
<1> DEFINE touched == {m \in M : iv.from <= m.to}
           grow(m) == [m EXCEPT !.to = Most(@, iv.to)]
           grown == {grow(m) : m \in touched}
<1>1. /\ iv \in Intervals /\ 0 <= iv.from /\ iv.to <= Duration /\ iv.to - iv.from >= minimum
      /\ Duration \in Int /\ iv.from \in Int /\ iv.to \in Int
  BY TimelapseAssumption DEF Good, Intervals
<1>2. ASSUME NEW m \in M
      PROVE  /\ m \in Intervals /\ m.from \in Int /\ m.to \in Int
             /\ 0 <= m.from /\ m.to <= Duration /\ m.to - m.from >= minimum /\ m.from <= iv.from
  BY DEF Good, Intervals
<1>3. N = IF touched = {} THEN M \cup {iv} ELSE (M \ touched) \cup grown
  BY DEF Merge
<1>4. ASSUME NEW m \in touched
      PROVE  /\ grow(m) \in Intervals /\ grow(m).from = m.from /\ grow(m).to = Most(m.to, iv.to)
             /\ Most(m.to, iv.to) \in Int
  BY <1>1, <1>2 DEF Most, Intervals
<1>5. CASE touched = {}
  <2>1. N = M \cup {iv}
    BY <1>3, <1>5
  <2> HIDE DEF touched
  <2>2. IsFiniteSet(N)
    BY <2>1, FS_AddElement DEF Good
  <2>3. Good(N, minimum) /\ \A m \in N : m.from <= iv.from
    BY <1>1, <1>2, <2>1, <2>2 DEF Good
  <2>4. \A x \in Int : In(x, N) <=> In(x, M) \/ Has(iv, x)
    BY <2>1 DEF In, Has
  <2> QED
    BY <2>3, <2>4
<1>6. CASE touched # {}
  <2>1. N = (M \ touched) \cup grown
    BY <1>3, <1>6
  <2>2. IsFiniteSet(N)
    <3>1. IsFiniteSet(touched) /\ IsFiniteSet(M \ touched)
      BY FS_Subset DEF Good
    <3> DEFINE f == [m \in touched |-> grow(m)]
    <3>2. grown = {f[m] : m \in touched} /\ DOMAIN f = touched
      OBVIOUS
    <3> HIDE DEF f, touched, grown
    <3>3. IsFiniteSet(grown)
      BY <3>1, <3>2, ImageFinite
    <3> QED
      BY <2>1, <3>1, <3>3, FS_Union
  <2>3. ASSUME NEW k \in N
        PROVE  \/ k \in M
               \/ \E m \in touched : k = grow(m)
    BY <2>1
  <2>4. ASSUME NEW m \in touched
        PROVE  /\ 0 <= grow(m).from /\ grow(m).to <= Duration
               /\ grow(m).to - grow(m).from >= minimum /\ grow(m).from <= iv.from
               /\ grow(m) \in Intervals
    <3>1. m \in M
      OBVIOUS
    <3> HIDE DEF grow, touched
    <3> QED
      BY <1>1, <1>2, <1>4, <3>1 DEF Most
  <2>5. ASSUME NEW m \in touched, NEW x \in Int
        PROVE  Has(grow(m), x) <=> Has(m, x) \/ Has(iv, x)
    <3>1. m \in M /\ iv.from <= m.to
      OBVIOUS
    <3> HIDE DEF grow, touched
    <3> QED
      BY <1>1, <1>2, <1>4, <3>1 DEF Most, Has
  <2>6. touched \subseteq M
    OBVIOUS
  <2> HIDE DEF grow
  <2>7. \A m \in touched : grow(m) \in N
    BY <2>1
  <2>8. \A m \in M : m \in N \/ m \in touched
    BY <2>1
  <2> HIDE DEF touched, grown
  <2>9. Good(N, minimum) /\ \A m \in N : m.from <= iv.from
    BY <1>2, <2>2, <2>3, <2>4 DEF Good
  <2>10. ASSUME NEW x \in Int, In(x, N) PROVE In(x, M) \/ Has(iv, x)
    <3>1. PICK k \in N : Has(k, x)
      BY <2>10 DEF In, Has
    <3>2. CASE k \in M
      BY <3>1, <3>2 DEF In, Has
    <3>3. CASE \E m \in touched : k = grow(m)
      <4>1. PICK m \in touched : k = grow(m)
        BY <3>3
      <4>2. Has(m, x) \/ Has(iv, x)
        BY <2>5, <3>1, <4>1
      <4> QED
        BY <2>6, <4>2 DEF In, Has
    <3> QED
      BY <2>3, <3>2, <3>3
  <2>11. ASSUME NEW x \in Int, In(x, M) \/ Has(iv, x) PROVE In(x, N)
    <3>1. PICK n \in touched : TRUE
      BY <1>6
    <3>2. CASE Has(iv, x)
      <4>1. Has(grow(n), x) /\ grow(n) \in N
        BY <2>5, <2>7, <3>2
      <4> QED
        BY <4>1 DEF In, Has
    <3>3. CASE In(x, M)
      <4>1. PICK m \in M : Has(m, x)
        BY <3>3 DEF In, Has
      <4>2. CASE m \in N
        BY <4>1, <4>2 DEF In, Has
      <4>3. CASE m \in touched
        <5>1. Has(grow(m), x) /\ grow(m) \in N
          BY <2>5, <2>7, <4>1, <4>3
        <5> QED
          BY <5>1 DEF In, Has
      <4> QED
        BY <2>8, <4>2, <4>3
    <3> QED
      BY <2>11, <3>2, <3>3
  <2> QED
    BY <2>9, <2>10, <2>11
<1> QED
  BY <1>5, <1>6

LEMMA MergeTyped ==
  ASSUME NEW M \in SUBSET Intervals, NEW iv \in Intervals
  PROVE  Merge(M, iv) \in SUBSET Intervals
<1> DEFINE touched == {m \in M : iv.from <= m.to}
           grow(m) == [m EXCEPT !.to = Most(@, iv.to)]
<1>1. ASSUME NEW m \in M PROVE grow(m) \in Intervals
  <2>1. m \in Intervals /\ m.to \in Int /\ iv.to \in Int
    BY DEF Intervals
  <2>2. Most(m.to, iv.to) \in Int
    BY <2>1 DEF Most
  <2> QED
    BY <2>1, <2>2 DEF Intervals
<1>2. touched \subseteq M
  OBVIOUS
<1>3. Merge(M, iv) = IF touched = {} THEN M \cup {iv}
                     ELSE (M \ touched) \cup {grow(m) : m \in touched}
  BY DEF Merge
<1> HIDE DEF grow, touched
<1> QED
  BY <1>1, <1>2, <1>3

LEMMA MergingDoes ==
  ASSUME NEW s \in Seq(Intervals),
         NEW g, g = Merging(s)
  PROVE  /\ Len(s) \in Nat /\ g \in [0..Len(s) -> SUBSET Intervals] /\ g[0] = {}
         /\ \A i \in 1..Len(s) : g[i] = Merge(g[i - 1], s[i])
<1> DEFINE n == Len(s)
           V == SUBSET Intervals
           NextOf(c, i) == Merge(c, s[i])
           step == [i \in 1..n |-> [c \in V |-> NextOf(c, i)]]
<1>1. n \in Nat /\ {} \in V
  OBVIOUS
<1>2. ASSUME NEW i \in 1..n, NEW c \in V PROVE NextOf(c, i) \in V
  <2>1. s[i] \in Intervals
    BY <1>1
  <2> QED
    BY <2>1, MergeTyped
<1>3. step \in [1..n -> [V -> V]]
  <2> HIDE DEF NextOf, V
  <2> QED
    BY <1>2
<1>4. ASSUME NEW i \in 1..n, NEW c \in V PROVE step[i][c] = NextOf(c, i)
  OBVIOUS
<1>5. PICK f : Iterates(f, n, V, {}, step)
  <2> HIDE DEF step, n, V
  <2> QED
    BY <1>1, <1>3, Recursion
<1>6. f = [i \in 0..n |-> IF i = 0 THEN {} ELSE NextOf(f[i - 1], i)]
  <2> HIDE DEF step, n, V, NextOf
  <2>1. ASSUME NEW i \in 1..n PROVE f[i] = NextOf(f[i - 1], i)
    <3>1. i - 1 \in 0..n
      BY <1>1
    <3> QED
      BY <1>4, <1>5, <3>1 DEF Iterates
  <2> QED
    BY <1>1, <1>5, <2>1 DEF Iterates
<1>7. g = [i \in 0..n |-> IF i = 0 THEN {} ELSE NextOf(g[i - 1], i)]
  BY <1>6 DEF Merging
<1> HIDE DEF step, n, V, NextOf
<1>8. ASSUME NEW i \in 0..n PROVE g[i] = IF i = 0 THEN {} ELSE NextOf(g[i - 1], i)
  BY <1>7
<1>9. g[0] = {} /\ \A i \in 1..n : g[i] = NextOf(g[i - 1], i)
  BY <1>1, <1>8
<1>10. \A i \in 0..n : f[i] = g[i]
  <2>1. f[0] = g[0]
    BY <1>1, <1>6, <1>9
  <2>2. ASSUME NEW i \in 1..n, f[i - 1] = g[i - 1] PROVE f[i] = g[i]
    <3>1. f[i] = NextOf(f[i - 1], i)
      BY <1>1, <1>6
    <3> QED
      BY <1>9, <2>2, <3>1
  <2> QED
    BY <1>1, <2>1, <2>2, SameIterates
<1>11. g \in [0..n -> V]
  BY <1>5, <1>7, <1>10 DEF Iterates
<1> QED
  BY <1>1, <1>9, <1>11 DEF n, V, NextOf

(* Merging intervals in order: what is in one of them is in the result.    *)
LEMMA MergedAll ==
  ASSUME NEW r \in Seq(Intervals), NEW minimum \in Nat,
         \A i \in 1..Len(r) : Good({r[i]}, minimum),
         \A i, j \in 1..Len(r) : i < j => r[i].from <= r[j].from
  PROVE  /\ Good(Merging(r)[Len(r)], minimum)
         /\ \A x \in Int : In(x, Merging(r)[Len(r)]) <=> \E j \in 1..Len(r) : Has(r[j], x)
<1> DEFINE n == Len(r)
           g == Merging(r)
           Done(i) == /\ Good(g[i], minimum)
                      /\ \A m \in g[i] : \A j \in i + 1..n : m.from <= r[j].from
                      /\ \A x \in Int : In(x, g[i]) <=> \E j \in 1..i : Has(r[j], x)
           S == {i \in 0..n : Done(i)}
<1>1. /\ n \in Nat /\ g[0] = {}
      /\ \A i \in 1..n : g[i] = Merge(g[i - 1], r[i])
  BY MergingDoes
<1>2. ASSUME NEW i \in 1..n PROVE r[i] \in Intervals /\ r[i].from \in Int
  <2>1. r[i] \in Intervals
    OBVIOUS
  <2> QED
    BY <2>1 DEF Intervals
<1> HIDE DEF g, n
<1>3. 0 \in S
  <2>1. Good(g[0], minimum)
    BY <1>1, FS_EmptySet DEF Good
  <2>2. \A x \in Int : In(x, g[0]) <=> \E j \in 1..0 : Has(r[j], x)
    BY <1>1 DEF In
  <2>3. \A m \in g[0] : \A j \in 0 + 1..n : m.from <= r[j].from
    BY <1>1
  <2>4. Done(0)
    BY <2>1, <2>2, <2>3
  <2> HIDE DEF Done
  <2> QED
    BY <1>1, <2>4
<1>4. ASSUME NEW i \in 0 + 1..n, i - 1 \in S PROVE i \in S
  <2>1. i \in 1..n /\ i \in 0..n /\ i \in Int /\ i - 1 + 1 = i
    BY <1>1
  <2>2. Good(g[i - 1], minimum) /\ \A m \in g[i - 1] : m.from <= r[i].from
    BY <1>4, <2>1
  <2>3. Good({r[i]}, minimum) /\ g[i] = Merge(g[i - 1], r[i])
    BY <1>1, <2>1 DEF n
  <2> DEFINE N == Merge(g[i - 1], r[i])
  <2>4. /\ Good(N, minimum) /\ \A m \in N : m.from <= r[i].from
        /\ \A x \in Int : In(x, N) <=> In(x, g[i - 1]) \/ Has(r[i], x)
    <3> DEFINE M == g[i - 1]
               iv == r[i]
    <3>1. N = Merge(M, iv) /\ Good(M, minimum) /\ Good({iv}, minimum)
      BY <2>2, <2>3
    <3>2. \A m \in M : m.from <= iv.from
      BY <2>2
    <3> HIDE DEF N, M, iv
    <3>3. /\ Good(N, minimum) /\ \A m \in N : m.from <= iv.from
          /\ \A x \in Int : In(x, N) <=> In(x, M) \/ Has(iv, x)
      BY <3>1, <3>2, MergeOne
    <3> QED
      BY <3>3 DEF M, iv
  <2> HIDE DEF N
  <2>5. g[i] = N
    BY <2>3 DEF N
  <2>6. ASSUME NEW m \in g[i], NEW j \in i + 1..n PROVE m.from <= r[j].from
    <3>1. m.from \in Int /\ m.from <= r[i].from
      BY <2>4, <2>5 DEF Good, Intervals
    <3>2. j \in 1..n /\ i < j
      BY <2>1, <1>1
    <3>3. r[i].from <= r[j].from
      BY <2>1, <3>2 DEF n
    <3> QED
      BY <1>2, <2>1, <3>1, <3>2, <3>3 DEF n
  <2>7. ASSUME NEW x \in Int PROVE In(x, g[i]) <=> \E j \in 1..i : Has(r[j], x)
    <3>1. In(x, g[i - 1]) <=> \E j \in 1..i - 1 : Has(r[j], x)
      BY <1>4
    <3>2. In(x, g[i]) <=> In(x, g[i - 1]) \/ Has(r[i], x)
      BY <2>4, <2>5
    <3>3. 1..i = (1..i - 1) \cup {i}
      BY <2>1
    <3> QED
      BY <3>1, <3>2, <3>3
  <2> QED
    BY <2>1, <2>4, <2>5, <2>6, <2>7
<1>5. 0..n \subseteq S
  <2> HIDE DEF S
  <2> QED
    BY <1>1, <1>3, <1>4, Induction
<1>6. n \in 0..n
  BY <1>1
<1>7. Done(n)
  <2> HIDE DEF Done
  <2> QED
    BY <1>5, <1>6
<1> QED
  BY <1>7 DEF g, n

(* clampMergeIntervals, for all intervals: the result is within the        *)
(* recording, nothing in it is shorter than the least length, and an       *)
(* instant is in it when it is in an interval that is long enough.         *)
THEOREM ClampMerged ==
  ASSUME NEW I \in SUBSET Intervals, IsFiniteSet(I), NEW minimum \in Nat \ {0},
         NEW N, N = ClampMergeIntervals(I, minimum)
  PROVE  /\ Good(N, minimum)
         /\ \A x \in 0..Duration - 1 : In(x, N) <=> \E iv \in I : Shows(iv, minimum, x)
<1> DEFINE all == {Clamped(i) : i \in I}
           long == {iv \in all : iv.to - iv.from >= minimum}
           R == ByStart(long)
           r == Ranked(long, R)
           n == Cardinality(long)
<1>1. Duration \in Nat
  BY TimelapseAssumption
<1>2. ASSUME NEW i \in I
      PROVE  /\ i.from \in Int /\ i.to \in Int /\ Clamped(i) \in Intervals
             /\ Clamped(i).from = Most(0, i.from) /\ Clamped(i).to = Least(Duration, i.to)
             /\ Most(0, i.from) \in Int /\ Least(Duration, i.to) \in Int
  <2>1. i.from \in Int /\ i.to \in Int
    BY DEF Intervals
  <2>2. Most(0, i.from) \in Int /\ Least(Duration, i.to) \in Int
    BY <1>1, <2>1 DEF Most, Least
  <2> QED
    BY <2>1, <2>2 DEF Clamped, Interval, Intervals
<1>3. IsFiniteSet(all)
  <2> DEFINE f == [i \in I |-> Clamped(i)]
  <2>1. all = {f[i] : i \in I} /\ DOMAIN f = I
    OBVIOUS
  <2> HIDE DEF f, all
  <2> QED
    BY <2>1, ImageFinite
<1>4. IsFiniteSet(long)
  <2>1. long \in SUBSET all
    OBVIOUS
  <2> HIDE DEF long, all
  <2> QED
    BY <1>3, <2>1, FS_Subset
<1>5. ASSUME NEW iv \in long
      PROVE  /\ iv \in Intervals /\ iv.from \in Int /\ iv.to \in Int /\ iv = [from |-> iv.from, to |-> iv.to]
             /\ Good({iv}, minimum)
  <2>1. PICK i \in I : iv = Clamped(i)
    OBVIOUS
  <2>2. iv.to - iv.from >= minimum
    OBVIOUS
  <2> HIDE DEF long, all
  <2>3. iv \in Intervals
    BY <1>2, <2>1
  <2>4. iv.from \in Int /\ iv.to \in Int /\ iv = [from |-> iv.from, to |-> iv.to]
    BY <2>3 DEF Intervals
  <2>5. 0 <= iv.from /\ iv.to <= Duration
    BY <1>1, <1>2, <2>1 DEF Most, Least
  <2>6. IsFiniteSet({iv})
    BY FS_Singleton
  <2> QED
    BY <2>2, <2>3, <2>4, <2>5, <2>6 DEF Good
<1>6. \A a, b \in long : <<a, b>> \in R <=> a.from < b.from \/ (a.from = b.from /\ a.to < b.to)
  <2> HIDE DEF long
  <2> QED
    BY DEF ByStart
<1> HIDE DEF R, long
<1>7. ASSUME NEW a \in long PROVE <<a, a>> \notin R
  <2>1. a.from \in Int /\ a.to \in Int
    BY <1>5
  <2> QED
    BY <1>6, <2>1
<1>8. ASSUME NEW a \in long, NEW b \in long, a # b PROVE <<a, b>> \in R \/ <<b, a>> \in R
  <2>1. /\ a.from \in Int /\ a.to \in Int /\ b.from \in Int /\ b.to \in Int
        /\ a = [from |-> a.from, to |-> a.to] /\ b = [from |-> b.from, to |-> b.to]
    BY <1>5
  <2>2. a.from # b.from \/ a.to # b.to
    BY <1>8, <2>1
  <2>3. \/ a.from < b.from \/ (a.from = b.from /\ a.to < b.to)
        \/ b.from < a.from \/ (b.from = a.from /\ b.to < a.to)
    BY <2>1, <2>2
  <2> QED
    BY <1>6, <2>3
<1>9. ASSUME NEW a \in long, NEW b \in long, NEW c \in long, <<a, b>> \in R, <<b, c>> \in R
      PROVE  <<a, c>> \in R
  <2>1. /\ a.from \in Int /\ b.from \in Int /\ c.from \in Int
        /\ a.to \in Int /\ b.to \in Int /\ c.to \in Int
    BY <1>5
  <2> QED
    BY <1>6, <1>9, <2>1
<1> HIDE DEF r, n
<1>10. /\ n \in Nat /\ r \in Seq(long) /\ Len(r) = n /\ \A i \in 1..n : r[i] \in long
       /\ \A i, j \in 1..n : i < j => <<r[i], r[j]>> \in R
       /\ \A x \in long : \E i \in 1..n : r[i] = x
  BY <1>4, <1>7, <1>8, <1>9, RankedOrder DEF r, n, Enumerates
<1>11. r \in Seq(Intervals)
  <2>1. r \in [1..n -> long]
    BY <1>10
  <2>2. \A i \in 1..n : r[i] \in Intervals
    BY <1>5, <1>10
  <2>3. r \in [1..n -> Intervals]
    BY <2>1, <2>2
  <2> QED
    BY <1>10, <2>3
<1>12. \A i \in 1..Len(r) : Good({r[i]}, minimum)
  BY <1>5, <1>10
<1>13. ASSUME NEW i \in 1..Len(r), NEW j \in 1..Len(r), i < j PROVE r[i].from <= r[j].from
  <2>1. r[i] \in long /\ r[j] \in long /\ <<r[i], r[j]>> \in R
    BY <1>10, <1>13
  <2>2. r[i].from \in Int /\ r[j].from \in Int
    BY <1>5, <2>1
  <2>3. r[i].from < r[j].from \/ r[i].from = r[j].from
    BY <1>6, <2>1
  <2> QED
    BY <2>2, <2>3
<1>14. N = Merging(r)[Len(r)]
  BY DEF ClampMergeIntervals, r, R, long
<1>15. /\ Good(N, minimum)
       /\ \A x \in Int : In(x, N) <=> \E j \in 1..Len(r) : Has(r[j], x)
  BY <1>11, <1>12, <1>13, <1>14, MergedAll
<1>16. ASSUME NEW x \in 0..Duration - 1 PROVE In(x, N) <=> \E iv \in I : Shows(iv, minimum, x)
  <2>1. x \in Int /\ 0 <= x /\ x < Duration
    BY <1>1
  <2>2. In(x, N) <=> \E iv \in long : Has(iv, x)
    BY <1>10, <1>15, <2>1
  <2>3. ASSUME NEW i \in I
        PROVE  Shows(i, minimum, x) <=> Clamped(i) \in long /\ Has(Clamped(i), x)
    <3>1. Clamped(i) \in long <=> Clamped(i).to - Clamped(i).from >= minimum
      BY DEF long
    <3>2. (Clamped(i).from <= x /\ x < Clamped(i).to) <=> (i.from <= x /\ x < i.to)
      BY <1>1, <1>2, <2>1 DEF Most, Least
    <3> QED
      BY <1>2, <3>1, <3>2 DEF Shows, Has
  <2>4. \A iv \in long : \E i \in I : iv = Clamped(i)
    BY DEF long
  <2> QED
    BY <2>2, <2>3, <2>4
<1> QED
  BY <1>15, <1>16

(* One more index: the count of those in P. *)
LEMMA CountStep ==
  ASSUME NEW m \in Int, NEW k \in Int, m <= k, NEW P
  PROVE  /\ Cardinality((m..k) \cap P) \in Nat /\ Cardinality((m..k - 1) \cap P) \in Nat
         /\ Cardinality((m..k) \cap P) = Cardinality((m..k - 1) \cap P) + IF k \in P THEN 1 ELSE 0
<1> DEFINE A == (m..k) \cap P
           B == (m..k - 1) \cap P
<1>1. k - 1 \in Int
  OBVIOUS
<1>2. IsFiniteSet(m..k - 1) /\ B \in SUBSET (m..k - 1)
  BY <1>1, FS_Interval
<1>3. IsFiniteSet(B) /\ k \notin B /\ A = IF k \in P THEN B \cup {k} ELSE B
  <2>1. k \notin B /\ A = IF k \in P THEN B \cup {k} ELSE B
    OBVIOUS
  <2> HIDE DEF A, B
  <2>2. IsFiniteSet(B)
    BY <1>2, FS_Subset
  <2> QED
    BY <2>1, <2>2
<1> HIDE DEF A, B
<1>4. Cardinality(B) \in Nat /\ Cardinality(B \cup {k}) = Cardinality(B) + 1
  <2>1. Cardinality(B) \in Nat
    BY <1>3, FS_CardinalityType
  <2>2. Cardinality(B \cup {k}) = Cardinality(B) + 1
    BY <1>3, FS_AddElement
  <2> QED
    BY <2>1, <2>2
<1>5. Cardinality(A) \in Nat /\ Cardinality(A) = Cardinality(B) + IF k \in P THEN 1 ELSE 0
  BY <1>3, <1>4
<1> QED
  BY <1>4, <1>5 DEF A, B

(* What a mark adds. *)
Adds(mark, kind) == IF mark.of # kind THEN 0 ELSE IF mark.opens THEN 1 ELSE -1

(* One more mark adds to the openings less the closings, or not.           *)
LEMMA NetStep ==
  ASSUME NEW ms \in Seq(Marks), NEW kind, NEW k \in 1..Len(ms), NEW m \in 1..k
  PROVE  /\ Net(ms, kind, m, k) \in Int /\ Net(ms, kind, m, k - 1) \in Int
         /\ Net(ms, kind, m, k) = Net(ms, kind, m, k - 1) + Adds(ms[k], kind)
<1> DEFINE U == {i \in 1..Len(ms) : ms[i].of = kind /\ ms[i].opens}
           D == {i \in 1..Len(ms) : ms[i].of = kind /\ ~ms[i].opens}
<1>1. k \in Int /\ m \in Int /\ m <= k /\ m..k \subseteq 1..Len(ms) /\ m..k - 1 \subseteq 1..Len(ms)
  OBVIOUS
<1>2. /\ {i \in m..k : ms[i].of = kind /\ ms[i].opens} = (m..k) \cap U
      /\ {i \in m..k - 1 : ms[i].of = kind /\ ms[i].opens} = (m..k - 1) \cap U
      /\ {i \in m..k : ms[i].of = kind /\ ~ms[i].opens} = (m..k) \cap D
      /\ {i \in m..k - 1 : ms[i].of = kind /\ ~ms[i].opens} = (m..k - 1) \cap D
  BY <1>1
<1>3. /\ Net(ms, kind, m, k) = Cardinality((m..k) \cap U) - Cardinality((m..k) \cap D)
      /\ Net(ms, kind, m, k - 1) = Cardinality((m..k - 1) \cap U) - Cardinality((m..k - 1) \cap D)
  BY <1>2 DEF Net
<1>4. ms[k] \in Marks /\ ms[k].opens \in BOOLEAN
  BY DEF Marks
<1>5. /\ k \in U <=> ms[k].of = kind /\ ms[k].opens
      /\ k \in D <=> ms[k].of = kind /\ ~ms[k].opens
  OBVIOUS
<1> HIDE DEF U, D
<1>6. /\ Cardinality((m..k) \cap U) \in Nat /\ Cardinality((m..k - 1) \cap U) \in Nat
      /\ Cardinality((m..k) \cap U) = Cardinality((m..k - 1) \cap U) + IF k \in U THEN 1 ELSE 0
  BY <1>1, CountStep
<1>7. /\ Cardinality((m..k) \cap D) \in Nat /\ Cardinality((m..k - 1) \cap D) \in Nat
      /\ Cardinality((m..k) \cap D) = Cardinality((m..k - 1) \cap D) + IF k \in D THEN 1 ELSE 0
  BY <1>1, CountStep
<1>8. CASE ms[k].of # kind
  BY <1>3, <1>5, <1>6, <1>7, <1>8 DEF Adds
<1>9. CASE ms[k].of = kind /\ ms[k].opens
  BY <1>3, <1>5, <1>6, <1>7, <1>9 DEF Adds
<1>10. CASE ms[k].of = kind /\ ~ms[k].opens
  BY <1>3, <1>5, <1>6, <1>7, <1>10 DEF Adds
<1> QED
  BY <1>4, <1>8, <1>9, <1>10

(* Of no marks nothing is left open.                                       *)
LEMMA NetNone ==
  ASSUME NEW ms, NEW kind, NEW k \in Nat
  PROVE  Net(ms, kind, k + 1, k) = 0
<1>1. k + 1..k = {}
  OBVIOUS
<1>2. /\ {i \in k + 1..k : ms[i].of = kind /\ ms[i].opens} = {}
      /\ {i \in k + 1..k : ms[i].of = kind /\ ~ms[i].opens} = {}
  BY <1>1
<1> DEFINE U == {i \in k + 1..k : ms[i].of = kind /\ ms[i].opens}
           D == {i \in k + 1..k : ms[i].of = kind /\ ~ms[i].opens}
<1>3. Net(ms, kind, k + 1, k) = Cardinality(U) - Cardinality(D)
  BY DEF Net
<1> HIDE DEF U, D
<1>4. Cardinality(U) = 0 /\ Cardinality(D) = 0
  BY <1>2, FS_EmptySet DEF U, D
<1> QED
  BY <1>3, <1>4

IsDepth(ms, kind, k, d) ==
  /\ d \in Nat /\ \E m \in 1..k + 1 : Net(ms, kind, m, k) = d
  /\ \A m \in 1..k + 1 : Net(ms, kind, m, k) \in Int /\ Net(ms, kind, m, k) <= d

(* Depth is the value that IsDepth describes.                              *)
LEMMA DepthIs ==
  ASSUME NEW ms, NEW kind, NEW k \in Nat, NEW d, IsDepth(ms, kind, k, d)
  PROVE  Depth(ms, kind, k) = d
<1> DEFINE all == {Net(ms, kind, m, k) : m \in 1..k + 1}
           P(c) == \A m \in 1..k + 1 : Net(ms, kind, m, k) <= c
<1>1. d \in all /\ P(d) /\ all \subseteq Int
  BY DEF IsDepth
<1>2. \A c \in all : P(c) => c = d
  <2> SUFFICES ASSUME NEW c \in all, P(c) PROVE c = d
    OBVIOUS
  <2>1. c <= d /\ d <= c
    BY <1>1
  <2> QED
    BY <1>1, <2>1
<1>3. Depth(ms, kind, k) = CHOOSE c \in all : P(c)
  BY DEF Depth
<1> HIDE DEF all, P
<1> QED
  BY <1>1, <1>2, <1>3

(* An end with nothing open counts for nothing. *)
After(d, mark, kind) == Most(0, d + Adds(mark, kind))

(* Depth follows the marks as the counter of pairMarkIntervals does.       *)
LEMMA DepthStep ==
  ASSUME NEW ms \in Seq(Marks), NEW kind
  PROVE  /\ Depth(ms, kind, 0) = 0
         /\ \A k \in 0..Len(ms) : Depth(ms, kind, k) \in Nat
         /\ \A k \in 1..Len(ms) : Depth(ms, kind, k) = After(Depth(ms, kind, k - 1), ms[k], kind)
<1> DEFINE n == Len(ms)
           D(k) == Depth(ms, kind, k)
           S == {k \in 0..n : IsDepth(ms, kind, k, D(k))}
<1>1. n \in Nat
  OBVIOUS
<1>2. IsDepth(ms, kind, 0, 0)
  <2>1. Net(ms, kind, 0 + 1, 0) = 0
    BY NetNone
  <2> QED
    BY <2>1 DEF IsDepth
<1>3. D(0) = 0 /\ 0 \in S
  BY <1>1, <1>2, DepthIs
<1>4. ASSUME NEW k \in 1..n, IsDepth(ms, kind, k - 1, D(k - 1))
      PROVE  IsDepth(ms, kind, k, After(D(k - 1), ms[k], kind)) /\ k \in Nat
  <2> DEFINE a == Adds(ms[k], kind)
             d == D(k - 1)
             N(m, i) == Net(ms, kind, m, i)
             e == After(D(k - 1), ms[k], kind)
  <2>1. a \in Int /\ e = Most(0, d + a)
    BY DEF Adds, After
  <2>2. \A m \in 1..k : N(m, k) \in Int /\ N(m, k - 1) \in Int /\ N(m, k) = N(m, k - 1) + a
    BY NetStep
  <2>3. N(k + 1, k) = 0 /\ k \in Nat /\ k - 1 + 1 = k /\ 1..k + 1 = (1..k) \cup {k + 1}
    BY <1>1, NetNone
  <2>4. /\ d \in Nat /\ \E m \in 1..k : N(m, k - 1) = d
        /\ \A m \in 1..k : N(m, k - 1) <= d
    BY <1>4, <2>3 DEF IsDepth
  <2> HIDE DEF a, d, N, e
  <2>5. e \in Nat
    BY <2>1, <2>4 DEF Most
  <2>6. \A m \in 1..k + 1 : N(m, k) \in Int /\ N(m, k) <= e
    <3>1. ASSUME NEW m \in 1..k PROVE N(m, k) \in Int /\ N(m, k) <= e
      <4>1. N(m, k) \in Int /\ N(m, k - 1) \in Int /\ N(m, k) = N(m, k - 1) + a /\ N(m, k - 1) <= d
        BY <2>2, <2>4
      <4>2. d + a <= e
        BY <2>1, <2>4 DEF Most
      <4> QED
        BY <2>1, <2>4, <2>5, <4>1, <4>2
    <3> QED
      BY <2>3, <2>5, <3>1
  <2>7. \E m \in 1..k + 1 : N(m, k) = e
    <3>1. PICK m \in 1..k : N(m, k - 1) = d
      BY <2>4
    <3>2. N(m, k) = d + a
      BY <2>2, <3>1
    <3>3. e = d + a \/ e = 0
      BY <2>1 DEF Most
    <3> QED
      BY <2>3, <3>2, <3>3
  <2> QED
    BY <2>3, <2>5, <2>6, <2>7 DEF IsDepth, N, e
<1>5. ASSUME NEW k \in 0 + 1..n, k - 1 \in S PROVE k \in S /\ D(k) = After(D(k - 1), ms[k], kind)
  <2>1. k \in 1..n /\ k \in 0..n /\ IsDepth(ms, kind, k - 1, D(k - 1))
    BY <1>1, <1>5
  <2>2. IsDepth(ms, kind, k, After(D(k - 1), ms[k], kind)) /\ k \in Nat
    BY <1>4, <2>1
  <2>3. D(k) = After(D(k - 1), ms[k], kind)
    BY <2>2, DepthIs
  <2> QED
    BY <2>1, <2>2, <2>3
<1> HIDE DEF D
<1>6. 0..n \subseteq S
  <2> HIDE DEF S
  <2> QED
    BY <1>1, <1>3, <1>5, Induction
<1>7. \A k \in 0..n : D(k) \in Nat
  BY <1>6 DEF IsDepth
<1>8. ASSUME NEW k \in 1..n PROVE D(k) = After(D(k - 1), ms[k], kind)
  <2>1. k - 1 \in 0..n
    BY <1>1
  <2> QED
    BY <1>5, <1>6, <2>1
<1> QED
  BY <1>3, <1>7, <1>8 DEF D

PairState == [depth : Nat, openedAt : Int, found : SUBSET Intervals]

LEMMA PairTyped ==
  ASSUME NEW acc \in PairState, NEW mark \in Marks, NEW kind
  PROVE  Pair(acc, mark, kind) \in PairState
<1>1. acc.depth \in Nat /\ acc.openedAt \in Int /\ acc.found \in SUBSET Intervals /\ mark.t \in Int
  BY DEF PairState, Marks
<1>2. Interval(acc.openedAt, mark.t) \in Intervals
  BY <1>1 DEF Interval, Intervals
<1>3. CASE mark.of # kind
  BY <1>3 DEF Pair
<1>4. CASE mark.of = kind /\ mark.opens
  <2> DEFINE at == IF acc.depth = 0 THEN mark.t ELSE acc.openedAt
             deeper == acc.depth + 1
  <2>1. Pair(acc, mark, kind) = [acc EXCEPT !.depth = deeper, !.openedAt = at]
    BY <1>4 DEF Pair
  <2>2. at \in Int /\ deeper \in Nat
    BY <1>1
  <2> HIDE DEF at, deeper
  <2> QED
    BY <1>1, <2>1, <2>2 DEF PairState
<1>5. CASE mark.of = kind /\ ~mark.opens
  <2>1. CASE acc.depth = 0
    BY <1>5, <2>1 DEF Pair
  <2>2. CASE acc.depth # 0
    <3>1. Pair(acc, mark, kind) =
            [acc EXCEPT !.depth = @ - 1,
                        !.found = IF acc.depth = 1 THEN @ \cup {Interval(acc.openedAt, mark.t)} ELSE @]
      BY <1>5, <2>2 DEF Pair
    <3>2. acc.depth - 1 \in Nat
      BY <1>1, <2>2
    <3> QED
      BY <1>1, <1>2, <3>1, <3>2 DEF PairState
  <2> QED
    BY <2>1, <2>2
<1> QED
  BY <1>3, <1>4, <1>5

LEMMA PairingDoes ==
  ASSUME NEW ms \in Seq(Marks),
         NEW kind,
         NEW g, g = Pairing(ms, kind)
  PROVE  /\ Len(ms) \in Nat /\ g \in [0..Len(ms) -> PairState] /\ g[0] = NonePaired
         /\ \A i \in 1..Len(ms) : g[i] = Pair(g[i - 1], ms[i], kind)
<1> DEFINE n == Len(ms)
           V == PairState
           NextOf(c, i) == Pair(c, ms[i], kind)
           step == [i \in 1..n |-> [c \in V |-> NextOf(c, i)]]
<1>1. n \in Nat /\ NonePaired \in V
  BY DEF NonePaired, PairState
<1>2. ASSUME NEW i \in 1..n, NEW c \in V PROVE NextOf(c, i) \in V
  <2>1. ms[i] \in Marks
    BY <1>1
  <2> QED
    BY <2>1, PairTyped
<1>3. step \in [1..n -> [V -> V]]
  <2> HIDE DEF NextOf, V
  <2> QED
    BY <1>2
<1>4. ASSUME NEW i \in 1..n, NEW c \in V PROVE step[i][c] = NextOf(c, i)
  OBVIOUS
<1>5. PICK f : Iterates(f, n, V, NonePaired, step)
  <2> HIDE DEF step, n, V
  <2> QED
    BY <1>1, <1>3, Recursion
<1>6. f = [i \in 0..n |-> IF i = 0 THEN NonePaired ELSE NextOf(f[i - 1], i)]
  <2> HIDE DEF step, n, V, NextOf
  <2>1. ASSUME NEW i \in 1..n PROVE f[i] = NextOf(f[i - 1], i)
    <3>1. i - 1 \in 0..n
      BY <1>1
    <3> QED
      BY <1>4, <1>5, <3>1 DEF Iterates
  <2> QED
    BY <1>1, <1>5, <2>1 DEF Iterates
<1>7. g = [i \in 0..n |-> IF i = 0 THEN NonePaired ELSE NextOf(g[i - 1], i)]
  BY <1>6 DEF Pairing
<1> HIDE DEF step, n, V, NextOf
<1>8. ASSUME NEW i \in 0..n PROVE g[i] = IF i = 0 THEN NonePaired ELSE NextOf(g[i - 1], i)
  BY <1>7
<1>9. g[0] = NonePaired /\ \A i \in 1..n : g[i] = NextOf(g[i - 1], i)
  BY <1>1, <1>8
<1>10. \A i \in 0..n : f[i] = g[i]
  <2>1. f[0] = g[0]
    BY <1>1, <1>6, <1>9
  <2>2. ASSUME NEW i \in 1..n, f[i - 1] = g[i - 1] PROVE f[i] = g[i]
    <3>1. f[i] = NextOf(f[i - 1], i)
      BY <1>1, <1>6
    <3> QED
      BY <1>9, <2>2, <3>1
  <2> QED
    BY <1>1, <2>1, <2>2, SameIterates
<1>11. g \in [0..n -> V]
  BY <1>5, <1>7, <1>10 DEF Iterates
<1> QED
  BY <1>1, <1>9, <1>11 DEF n, V, NextOf

PairResult(acc, mark, kind, next) ==
  /\ mark.of # kind \/ (~mark.opens /\ acc.depth = 0) => next = acc
  /\ mark.of = kind /\ mark.opens =>
       /\ next.openedAt = IF acc.depth = 0 THEN mark.t ELSE acc.openedAt
       /\ next.found = acc.found
  /\ mark.of = kind /\ ~mark.opens /\ acc.depth # 0 =>
       /\ next.openedAt = acc.openedAt
       /\ next.found = IF acc.depth = 1 THEN acc.found \cup {Interval(acc.openedAt, mark.t)}
                       ELSE acc.found
  /\ next.depth = After(acc.depth, mark, kind)

(* What one mark does to the state of pairMarkIntervals, field by field.   *)
LEMMA PairFields ==
  ASSUME NEW acc \in PairState, NEW mark \in Marks, NEW kind, NEW next, next = Pair(acc, mark, kind)
  PROVE  PairResult(acc, mark, kind, next)
<1>1. acc.depth \in Nat /\ mark.opens \in BOOLEAN
  BY DEF PairState, Marks
<1>2. CASE mark.of # kind \/ (~mark.opens /\ acc.depth = 0)
  BY <1>1, <1>2 DEF Pair, After, Adds, Most, PairResult
<1>3. CASE mark.of = kind /\ mark.opens
  <2> DEFINE at == IF acc.depth = 0 THEN mark.t ELSE acc.openedAt
             deeper == acc.depth + 1
  <2>1. next = [acc EXCEPT !.depth = deeper, !.openedAt = at]
    BY <1>3 DEF Pair
  <2>2. deeper = After(acc.depth, mark, kind)
    BY <1>1, <1>3 DEF After, Adds, Most
  <2> HIDE DEF at, deeper
  <2>3. next.depth = deeper /\ next.openedAt = at /\ next.found = acc.found
    BY <2>1 DEF PairState
  <2> QED
    BY <1>3, <2>2, <2>3 DEF at, PairResult
<1>4. CASE mark.of = kind /\ ~mark.opens /\ acc.depth # 0
  <2> DEFINE more == IF acc.depth = 1 THEN acc.found \cup {Interval(acc.openedAt, mark.t)} ELSE acc.found
             less == acc.depth - 1
  <2>1. next = [acc EXCEPT !.depth = less, !.found = more]
    BY <1>4 DEF Pair
  <2>2. less = After(acc.depth, mark, kind)
    BY <1>1, <1>4 DEF After, Adds, Most
  <2> HIDE DEF more, less
  <2>3. next.depth = less /\ next.openedAt = acc.openedAt /\ next.found = more
    BY <2>1 DEF PairState
  <2> QED
    BY <1>4, <2>2, <2>3 DEF more, PairResult
<1> QED
  BY <1>1, <1>2, <1>3, <1>4

(* A span from its first start to the end that closes it. *)
Closes(ms, kind, i, j) ==
  i < j /\ Begins(ms, kind, i) /\ Open(ms, kind, i, j - 1) /\ Depth(ms, kind, j) = 0

LEMMA OpenStep ==
  ASSUME NEW ms, NEW kind, NEW i \in Nat, NEW k \in Nat, i <= k
  PROVE  /\ Open(ms, kind, i, k) <=> (i = k \/ Open(ms, kind, i, k - 1)) /\ Depth(ms, kind, k) > 0
         /\ i < k /\ Open(ms, kind, i, k - 1) => Depth(ms, kind, k - 1) > 0
<1>1. i..k = (i..k - 1) \cup {k} /\ (i = k => i..k - 1 = {}) /\ (i < k => k - 1 \in i..k - 1)
  OBVIOUS
<1> QED
  BY <1>1 DEF Open

(* A span that is still open has one beginning.                            *)
LEMMA OneOpen ==
  ASSUME NEW ms \in Seq(Marks), NEW kind, NEW k \in 1..Len(ms), NEW i \in 1..k, NEW j \in 1..k,
         Begins(ms, kind, i), Open(ms, kind, i, k), Begins(ms, kind, j), Open(ms, kind, j, k)
  PROVE  i = j
<1>1. ASSUME NEW a \in 1..k, NEW b \in 1..k, Open(ms, kind, a, k), Begins(ms, kind, b), a < b
      PROVE  FALSE
  <2>1. b - 1 \in a..k
    BY <1>1
  <2>2. Depth(ms, kind, b - 1) > 0 /\ Depth(ms, kind, b - 1) = 0
    BY <1>1, <2>1 DEF Open, Begins
  <2> QED
    BY <2>2
<1> QED
  BY <1>1

Pairs(ms, kind, k, acc) ==
  /\ acc.depth = Depth(ms, kind, k)
  /\ Depth(ms, kind, k) > 0 =>
       \E i \in 1..k : /\ Begins(ms, kind, i) /\ Open(ms, kind, i, k)
                       /\ acc.openedAt = ms[i].t
  /\ IsFiniteSet(acc.found)
  /\ \A iv : iv \in acc.found <=>
       \E i, j \in 1..Len(ms) : j <= k /\ Closes(ms, kind, i, j) /\ iv = Interval(ms[i].t, ms[j].t)

(* One more mark: the spans closed so far are those found.                 *)
LEMMA PairsStep ==
  ASSUME NEW ms \in Seq(Marks), NEW kind, NEW k \in 1..Len(ms),
         NEW acc \in PairState, Pairs(ms, kind, k - 1, acc)
  PROVE  Pairs(ms, kind, k, Pair(acc, ms[k], kind))
<1> DEFINE n == Len(ms)
           D(i) == Depth(ms, kind, i)
           next == Pair(acc, ms[k], kind)
<1>1. n \in Nat /\ k \in Nat /\ k - 1 \in Nat /\ k \in 0..n /\ k - 1 \in 0..n /\ k \in 1..k
  OBVIOUS
<1>2. D(k) \in Nat /\ D(k - 1) \in Nat /\ D(k) = After(D(k - 1), ms[k], kind)
  BY <1>1, DepthStep
<1>3. ms[k] \in Marks /\ ms[k].opens \in BOOLEAN
  <2>1. ms[k] \in Marks
    OBVIOUS
  <2> QED
    BY <2>1 DEF Marks
<1>4. /\ ms[k].of # kind \/ (~ms[k].opens /\ acc.depth = 0) => next = acc
      /\ ms[k].of = kind /\ ms[k].opens =>
           /\ next.openedAt = IF acc.depth = 0 THEN ms[k].t ELSE acc.openedAt
           /\ next.found = acc.found
      /\ ms[k].of = kind /\ ~ms[k].opens /\ acc.depth # 0 =>
           /\ next.openedAt = acc.openedAt
           /\ next.found = IF acc.depth = 1 THEN acc.found \cup {Interval(acc.openedAt, ms[k].t)}
                           ELSE acc.found
      /\ next.depth = After(acc.depth, ms[k], kind)
  <2>1. next = Pair(acc, ms[k], kind)
    OBVIOUS
  <2>2. PairResult(acc, ms[k], kind, next)
    <3> HIDE DEF next
    <3> QED
      BY <1>3, <2>1, PairFields
  <2> HIDE DEF next
  <2> QED
    BY <2>2 DEF PairResult
<1>5. /\ acc.depth = D(k - 1)
      /\ D(k - 1) > 0 => \E i \in 1..k - 1 : /\ Begins(ms, kind, i) /\ Open(ms, kind, i, k - 1)
                                           /\ acc.openedAt = ms[i].t
      /\ IsFiniteSet(acc.found)
      /\ \A iv : iv \in acc.found <=>
           \E i, j \in 1..n : j <= k - 1 /\ Closes(ms, kind, i, j) /\ iv = Interval(ms[i].t, ms[j].t)
  BY DEF Pairs
<1> HIDE DEF next, D, n
<1>6. ASSUME NEW i \in 1..n, Closes(ms, kind, i, k)
      PROVE  /\ D(k) = 0 /\ D(k - 1) > 0 /\ i \in 1..k - 1
             /\ Begins(ms, kind, i) /\ Open(ms, kind, i, k - 1)
  <2>1. i \in Nat /\ i < k /\ i <= k /\ D(k) = 0 /\ Begins(ms, kind, i) /\ Open(ms, kind, i, k - 1)
    BY <1>1, <1>6 DEF Closes, D
  <2>2. D(k - 1) > 0
    BY <1>1, <2>1, OpenStep DEF D
  <2> QED
    BY <1>1, <2>1, <2>2
<1>7. ASSUME NEW i \in 1..k - 1, Begins(ms, kind, i), Open(ms, kind, i, k - 1), D(k) = 0
      PROVE  Closes(ms, kind, i, k)
  BY <1>1, <1>7 DEF Closes, D
<1>8. next.depth = D(k)
  BY <1>2, <1>4, <1>5
<1>9. ASSUME NEW i \in 1..k - 1, Open(ms, kind, i, k - 1), D(k) > 0 PROVE Open(ms, kind, i, k) /\ i \in 1..k
  <2>1. i \in Nat /\ i <= k
    BY <1>1
  <2> QED
    BY <1>1, <1>9, <2>1, OpenStep DEF D
<1>10. ASSUME D(k) > 0
       PROVE  \E i \in 1..k : Begins(ms, kind, i) /\ Open(ms, kind, i, k) /\ next.openedAt = ms[i].t
  <2>1. CASE D(k - 1) > 0
    <3>1. PICK i \in 1..k - 1 : Begins(ms, kind, i) /\ Open(ms, kind, i, k - 1) /\ acc.openedAt = ms[i].t
      BY <1>5, <2>1
    <3>2. next.openedAt = acc.openedAt
      BY <1>2, <1>3, <1>4, <1>5, <2>1
    <3> QED
      BY <1>9, <1>10, <3>1, <3>2
  <2>2. CASE D(k - 1) = 0
    <3>1. ms[k].of = kind /\ ms[k].opens
      BY <1>2, <1>3, <1>10, <2>2 DEF After, Adds, Most
    <3>2. next.openedAt = ms[k].t /\ Begins(ms, kind, k)
      BY <1>4, <1>5, <2>2, <3>1 DEF Begins, D
    <3>3. Open(ms, kind, k, k)
      <4>1. k..k = {k}
        BY <1>1
      <4> QED
        BY <1>10, <4>1 DEF Open, D
    <3> QED
      BY <1>1, <3>2, <3>3
  <2> QED
    BY <1>2, <2>1, <2>2
<1>11. ASSUME NEW iv
       PROVE  (\E i, j \in 1..n : j <= k /\ Closes(ms, kind, i, j) /\ iv = Interval(ms[i].t, ms[j].t))
                <=> \/ iv \in acc.found
                    \/ \E i \in 1..n : Closes(ms, kind, i, k) /\ iv = Interval(ms[i].t, ms[k].t)
  <2>1. \A j \in 1..n : j <= k <=> j <= k - 1 \/ j = k
    BY <1>1
  <2>2. k \in 1..n
    BY DEF n
  <2> QED
    BY <1>5, <2>1, <2>2
<1>12. CASE D(k) = 0 /\ D(k - 1) > 0
  <2>1. ms[k].of = kind /\ ~ms[k].opens /\ acc.depth = 1
    BY <1>2, <1>3, <1>5, <1>12 DEF After, Adds, Most
  <2>2. next.found = acc.found \cup {Interval(acc.openedAt, ms[k].t)}
    BY <1>4, <2>1
  <2>3. PICK a \in 1..k - 1 : Begins(ms, kind, a) /\ Open(ms, kind, a, k - 1) /\ acc.openedAt = ms[a].t
    BY <1>5, <1>12
  <2>4. Closes(ms, kind, a, k) /\ a \in 1..n
    BY <1>1, <1>7, <1>12, <2>3
  <2>5. ASSUME NEW i \in 1..n, Closes(ms, kind, i, k) PROVE i = a
    <3>1. i \in 1..k - 1 /\ Begins(ms, kind, i) /\ Open(ms, kind, i, k - 1)
      BY <1>6, <2>5
    <3>2. k - 1 \in 1..Len(ms)
      BY <1>1, <2>3 DEF n
    <3> QED
      BY <2>3, <3>1, <3>2, OneOpen
  <2>6. \A iv : iv \in next.found <=>
          \E i, j \in 1..n : j <= k /\ Closes(ms, kind, i, j) /\ iv = Interval(ms[i].t, ms[j].t)
    <3> SUFFICES ASSUME NEW iv
                 PROVE  iv \in next.found <=>
                          \E i, j \in 1..n : j <= k /\ Closes(ms, kind, i, j) /\ iv = Interval(ms[i].t, ms[j].t)
      OBVIOUS
    <3>1. (\E i \in 1..n : Closes(ms, kind, i, k) /\ iv = Interval(ms[i].t, ms[k].t))
            <=> iv = Interval(ms[a].t, ms[k].t)
      BY <2>4, <2>5
    <3> QED
      BY <1>11, <2>2, <2>3, <3>1
  <2>7. IsFiniteSet(next.found)
    <3>1. IsFiniteSet(acc.found)
      BY <1>5
    <3>2. IsFiniteSet(acc.found \cup {Interval(acc.openedAt, ms[k].t)})
      BY <3>1, FS_AddElement
    <3> QED
      BY <2>2, <3>2
  <2> QED
    BY <1>8, <1>10, <2>6, <2>7 DEF Pairs, D, next, n
<1>13. CASE ~(D(k) = 0 /\ D(k - 1) > 0)
  <2>1. next.found = acc.found
    BY <1>2, <1>3, <1>4, <1>5, <1>13 DEF After, Adds, Most
  <2>2. \A iv : iv \in next.found <=>
          \E i, j \in 1..n : j <= k /\ Closes(ms, kind, i, j) /\ iv = Interval(ms[i].t, ms[j].t)
    BY <1>6, <1>11, <1>13, <2>1
  <2>3. IsFiniteSet(next.found)
    BY <1>5, <2>1
  <2> QED
    BY <1>8, <1>10, <2>2, <2>3 DEF Pairs, D, next, n
<1> QED
  BY <1>12, <1>13

(* pairMarkIntervals, for all marks in any nesting: the intervals found by *)
(* counting depth are the spans from a start with nothing open to the      *)
(* first end that leaves nothing open.                                     *)
THEOREM PairedAll ==
  ASSUME NEW ms \in Seq(Marks), NEW kind, NEW toTheEnd \in BOOLEAN,
         NEW M, M = PairMarkIntervals(ms, kind, toTheEnd)
  PROVE  M = MarkedSpans(ms, kind, toTheEnd) /\ M \in SUBSET Intervals /\ IsFiniteSet(M)
<1> DEFINE n == Len(ms)
           g == Pairing(ms, kind)
           acc == g[n]
           S == {k \in 0..n : Pairs(ms, kind, k, g[k])}
           last == IF toTheEnd /\ acc.depth > 0 THEN {Interval(acc.openedAt, Duration)} ELSE {}
           closed == {Interval(ms[p[1]].t, ms[p[2]].t) : p \in
                        {q \in (DOMAIN ms) \X (DOMAIN ms) :
                           /\ q[1] < q[2] /\ Begins(ms, kind, q[1])
                           /\ Open(ms, kind, q[1], q[2] - 1) /\ Depth(ms, kind, q[2]) = 0}}
           open == {Interval(ms[i].t, Duration) : i \in
                      {k \in DOMAIN ms : toTheEnd /\ Begins(ms, kind, k) /\ Open(ms, kind, k, Len(ms))}}
<1>1. n \in Nat /\ g \in [0..n -> PairState] /\ g[0] = NonePaired
      /\ \A i \in 1..n : g[i] = Pair(g[i - 1], ms[i], kind)
  BY PairingDoes
<1>2. DOMAIN ms = 1..n /\ \A i \in 1..n : ms[i].t \in Int
  <2>1. \A i \in 1..n : ms[i] \in Marks
    OBVIOUS
  <2> QED
    BY <2>1 DEF Marks
<1>3. M = acc.found \cup last
  BY DEF PairMarkIntervals
<1>4. MarkedSpans(ms, kind, toTheEnd) = closed \cup open
  BY DEF MarkedSpans
<1> HIDE DEF g
<1>5. 0 \in S
  <2>1. Depth(ms, kind, 0) = 0 /\ NonePaired.depth = 0 /\ NonePaired.found = {} /\ IsFiniteSet({})
    BY DepthStep, FS_EmptySet DEF NonePaired
  <2>2. \A j \in 1..n : ~(j <= 0)
    BY <1>1
  <2>3. Pairs(ms, kind, 0, NonePaired)
    BY <2>1, <2>2 DEF Pairs
  <2> QED
    BY <1>1, <2>3
<1>6. ASSUME NEW i \in 0 + 1..n, i - 1 \in S PROVE i \in S
  <2>1. i \in 1..n /\ i \in 0..n /\ i - 1 \in 0..n
    BY <1>1
  <2>2. g[i - 1] \in PairState /\ Pairs(ms, kind, i - 1, g[i - 1]) /\ g[i] = Pair(g[i - 1], ms[i], kind)
    BY <1>1, <1>6, <2>1
  <2> HIDE DEF n
  <2>3. i \in 1..Len(ms)
    BY <2>1 DEF n
  <2>4. Pairs(ms, kind, i, g[i])
    BY <2>2, <2>3, PairsStep
  <2> QED
    BY <2>1, <2>4
<1>7. 0..n \subseteq S
  <2> HIDE DEF S, n
  <2> QED
    BY <1>1, <1>5, <1>6, Induction
<1>8. n \in 0..n
  BY <1>1
<1>9. Pairs(ms, kind, n, acc) /\ acc \in PairState
  <2>1. Pairs(ms, kind, n, g[n])
    BY <1>7, <1>8
  <2> QED
    BY <1>1, <1>8, <2>1
<1> HIDE DEF acc
<1>10. /\ acc.depth \in Nat /\ acc.depth = Depth(ms, kind, n) /\ acc.openedAt \in Int
       /\ acc.found \in SUBSET Intervals /\ Duration \in Int
  BY <1>9, TimelapseAssumption DEF Pairs, PairState
<1>11. acc.found = closed
  <2>1. ASSUME NEW iv
        PROVE  iv \in acc.found <=> \E i, j \in 1..n : Closes(ms, kind, i, j) /\ iv = Interval(ms[i].t, ms[j].t)
    <3>1. \A j \in 1..n : j <= n
      BY <1>1
    <3> QED
      BY <1>9, <3>1 DEF Pairs
  <2>2. ASSUME NEW iv
        PROVE  iv \in closed <=> \E i, j \in 1..n : Closes(ms, kind, i, j) /\ iv = Interval(ms[i].t, ms[j].t)
    <3>1. iv \in closed <=> \E p \in (1..n) \X (1..n) :
                              /\ p[1] < p[2] /\ Begins(ms, kind, p[1])
                              /\ Open(ms, kind, p[1], p[2] - 1) /\ Depth(ms, kind, p[2]) = 0
                              /\ iv = Interval(ms[p[1]].t, ms[p[2]].t)
      BY <1>2
    <3>2. iv \in closed <=> \E p \in (1..n) \X (1..n) : Closes(ms, kind, p[1], p[2])
                              /\ iv = Interval(ms[p[1]].t, ms[p[2]].t)
      BY <3>1 DEF Closes
    <3> HIDE DEF closed
    <3>3. ASSUME NEW i \in 1..n, NEW j \in 1..n, Closes(ms, kind, i, j), iv = Interval(ms[i].t, ms[j].t)
          PROVE  iv \in closed
      <4>1. <<i, j>> \in (1..n) \X (1..n) /\ <<i, j>>[1] = i /\ <<i, j>>[2] = j
        OBVIOUS
      <4> QED
        BY <3>2, <3>3, <4>1
    <3>4. ASSUME iv \in closed
          PROVE  \E i, j \in 1..n : Closes(ms, kind, i, j) /\ iv = Interval(ms[i].t, ms[j].t)
      <4>1. PICK p \in (1..n) \X (1..n) : Closes(ms, kind, p[1], p[2]) /\ iv = Interval(ms[p[1]].t, ms[p[2]].t)
        BY <3>2, <3>4
      <4>2. p[1] \in 1..n /\ p[2] \in 1..n
        BY <4>1
      <4> QED
        BY <4>1, <4>2
    <3> QED
      BY <3>3, <3>4
  <2> HIDE DEF closed
  <2> QED
    BY <2>1, <2>2
<1>12. last = open
  <2>1. CASE toTheEnd /\ acc.depth > 0
    <3>1. PICK a \in 1..n : Begins(ms, kind, a) /\ Open(ms, kind, a, n) /\ acc.openedAt = ms[a].t
      BY <1>9, <1>10, <2>1 DEF Pairs
    <3>2. ASSUME NEW i \in 1..n, Begins(ms, kind, i), Open(ms, kind, i, n) PROVE i = a
      <4>1. n \in 1..Len(ms) /\ i \in 1..n
        BY <1>1, <3>1
      <4> HIDE DEF n
      <4> QED
        BY <3>1, <3>2, <4>1, OneOpen
    <3>3. last = {Interval(ms[a].t, Duration)}
      BY <2>1, <3>1
    <3>4. open = {Interval(ms[a].t, Duration)}
      BY <1>2, <2>1, <3>1, <3>2
    <3> QED
      BY <3>3, <3>4
  <2>2. CASE ~toTheEnd
    BY <2>2
  <2>3. CASE acc.depth = 0
    <3>1. last = {}
      BY <2>3
    <3>2. ASSUME NEW i \in 1..n, Open(ms, kind, i, n) PROVE FALSE
      <4>1. n \in i..n
        BY <1>1
      <4>2. Depth(ms, kind, n) > 0
        BY <3>2, <4>1 DEF Open
      <4> QED
        BY <1>10, <2>3, <4>2
    <3>3. open = {}
      BY <1>2, <3>2
    <3> QED
      BY <3>1, <3>3
  <2> HIDE DEF last, open
  <2> QED
    BY <1>10, <2>1, <2>2, <2>3
<1>13. last \in SUBSET Intervals /\ IsFiniteSet(last)
  <2>1. Interval(acc.openedAt, Duration) \in Intervals
    BY <1>10 DEF Interval, Intervals
  <2> QED
    BY <2>1, FS_EmptySet, FS_Singleton
<1> HIDE DEF last, closed, open
<1>14. IsFiniteSet(acc.found \cup last)
  BY <1>9, <1>13, FS_Union DEF Pairs
<1> QED
  BY <1>3, <1>4, <1>10, <1>11, <1>12, <1>13, <1>14

(* The suite after one more mark.                                          *)
LEMMA SuiteAtStep ==
  ASSUME NEW ms \in Seq(Marks)
  PROVE  /\ SuiteAt(ms, 0) = None
         /\ \A k \in 1..Len(ms) :
              SuiteAt(ms, k) = IF ms[k].of # "suite" THEN SuiteAt(ms, k - 1)
                               ELSE IF ms[k].opens THEN ms[k].suite ELSE None
<1> DEFINE B(k) == {i \in 1..k : ms[i].of = "suite"}
           last(k) == CHOOSE i \in B(k) : \A j \in B(k) : j <= i
<1>1. ASSUME NEW k PROVE SuiteAt(ms, k) = IF B(k) = {} \/ ~ms[last(k)].opens THEN None ELSE ms[last(k)].suite
  BY DEF SuiteAt
<1>2. SuiteAt(ms, 0) = None
  <2>1. B(0) = {}
    OBVIOUS
  <2> HIDE DEF B, last
  <2> QED
    BY <1>1, <2>1
<1>3. ASSUME NEW k \in 1..Len(ms), ms[k].of # "suite" PROVE SuiteAt(ms, k) = SuiteAt(ms, k - 1)
  <2>1. 1..k = (1..k - 1) \cup {k}
    OBVIOUS
  <2>2. B(k) = B(k - 1)
    BY <1>3, <2>1
  <2>3. last(k) = last(k - 1)
    <3> HIDE DEF B
    <3> QED
      BY <2>2
  <2> HIDE DEF B, last
  <2> QED
    BY <1>1, <2>2, <2>3
<1>4. ASSUME NEW k \in 1..Len(ms), ms[k].of = "suite"
      PROVE  SuiteAt(ms, k) = IF ms[k].opens THEN ms[k].suite ELSE None
  <2>1. k \in B(k) /\ \A j \in B(k) : j <= k /\ j \in Int
    BY <1>4
  <2>2. \A i \in B(k) : (\A j \in B(k) : j <= i) => i = k
    <3> HIDE DEF B
    <3> SUFFICES ASSUME NEW i \in B(k), \A j \in B(k) : j <= i PROVE i = k
      OBVIOUS
    <3>1. i <= k /\ k <= i /\ i \in Int /\ k \in Int
      BY <2>1
    <3> QED
      BY <3>1
  <2> HIDE DEF B
  <2>3. last(k) = k
    BY <2>1, <2>2
  <2> HIDE DEF last
  <2> QED
    BY <1>1, <2>1, <2>3
<1> QED
  BY <1>2, <1>3, <1>4

Spans == [suite : Suite, from : Int, to : Int]
SuiteState == [open : Suite \cup {None}, since : Int, spans : Seq(Spans)]

(* One more span, if it has a length. *)
More(acc, t) == IF acc.open # None /\ t > acc.since
                THEN Append(acc.spans, [suite |-> acc.open, from |-> acc.since, to |-> t])
                ELSE acc.spans

(* What closing a suite adds is a sequence of spans.                       *)
LEMMA MoreTyped ==
  ASSUME NEW acc \in SuiteState, NEW t \in Int
  PROVE  /\ More(acc, t) \in Seq(Spans)
         /\ Close(acc, t) = [open |-> None, since |-> acc.since, spans |-> More(acc, t)]
<1>1. acc.open \in Suite \cup {None} /\ acc.since \in Int /\ acc.spans \in Seq(Spans)
  BY DEF SuiteState
<1>2. ASSUME acc.open # None PROVE [suite |-> acc.open, from |-> acc.since, to |-> t] \in Spans
  BY <1>1, <1>2 DEF Spans
<1>3. More(acc, t) \in Seq(Spans)
  BY <1>1, <1>2, AppendProperties DEF More
<1> QED
  BY <1>3 DEF Close, More

(* What a boundary does. *)
LEMMA BoundDoes ==
  ASSUME NEW acc \in SuiteState, NEW mark \in Marks, NEW next, next = Bound(acc, mark)
  PROVE  /\ next \in SuiteState
         /\ next = acc \/
              /\ mark.of = "suite"
              /\ next.open = IF mark.opens THEN mark.suite ELSE None
              /\ mark.opens => acc.open # mark.suite
              /\ next.since = IF mark.opens THEN mark.t ELSE acc.since
              /\ next.spans = More(acc, mark.t)
         /\ next = acc => mark.of # "suite" \/ acc.open = IF mark.opens THEN mark.suite ELSE None
<1>1. acc.open \in Suite \cup {None} /\ acc.since \in Int /\ acc.spans \in Seq(Spans)
  BY DEF SuiteState
<1>2. mark.opens \in BOOLEAN /\ mark.t \in Int /\ (mark.of = "suite" => mark.suite \in Suite)
  BY DEF Marks
<1>3. None \notin Suite
  BY TimelapseAssumption
<1> DEFINE sp == More(acc, mark.t)
<1>4. sp \in Seq(Spans) /\ Close(acc, mark.t) = [open |-> None, since |-> acc.since, spans |-> sp]
  BY <1>2, MoreTyped
<1> HIDE DEF sp
<1>5. CASE mark.of # "suite" \/ (mark.of = "suite" /\ mark.opens /\ acc.open = mark.suite)
  BY <1>5 DEF Bound
<1>6. CASE mark.of = "suite" /\ ~mark.opens
  <2>1. next = [open |-> None, since |-> acc.since, spans |-> sp]
    BY <1>4, <1>6 DEF Bound
  <2>2. next \in SuiteState /\ next.open = None /\ next.since = acc.since /\ next.spans = sp
    BY <1>1, <1>4, <2>1 DEF SuiteState
  <2>3. next = acc => acc.open = None
    BY <2>2
  <2> QED
    BY <1>6, <2>2, <2>3 DEF sp
<1>7. CASE mark.of = "suite" /\ mark.opens /\ acc.open # mark.suite
  <2>1. next = [[open |-> None, since |-> acc.since, spans |-> sp] EXCEPT !.open = mark.suite, !.since = mark.t]
    BY <1>4, <1>7 DEF Bound
  <2>2. next = [open |-> mark.suite, since |-> mark.t, spans |-> sp]
    BY <2>1
  <2>3. next \in SuiteState /\ next.open = mark.suite /\ next.since = mark.t /\ next.spans = sp
    BY <1>2, <1>4, <1>7, <2>2 DEF SuiteState
  <2>4. next # acc
    BY <1>7, <2>3
  <2> QED
    BY <1>7, <2>3, <2>4 DEF sp
<1> QED
  BY <1>2, <1>5, <1>6, <1>7

LEMMA BoundingDoes ==
  ASSUME NEW ms \in Seq(Marks),
         NEW g, g = Bounding(ms)
  PROVE  /\ Len(ms) \in Nat /\ g \in [0..Len(ms) -> SuiteState] /\ g[0] = NoSuite
         /\ \A i \in 1..Len(ms) : g[i] = Bound(g[i - 1], ms[i])
<1> DEFINE n == Len(ms)
           V == SuiteState
           NextOf(c, i) == Bound(c, ms[i])
           step == [i \in 1..n |-> [c \in V |-> NextOf(c, i)]]
<1>1. n \in Nat /\ NoSuite \in V
  BY DEF NoSuite, SuiteState
<1>2. ASSUME NEW i \in 1..n, NEW c \in V PROVE NextOf(c, i) \in V
  <2>1. ms[i] \in Marks
    BY <1>1
  <2> QED
    BY <2>1, BoundDoes
<1>3. step \in [1..n -> [V -> V]]
  <2> HIDE DEF NextOf, V
  <2> QED
    BY <1>2
<1>4. ASSUME NEW i \in 1..n, NEW c \in V PROVE step[i][c] = NextOf(c, i)
  OBVIOUS
<1>5. PICK f : Iterates(f, n, V, NoSuite, step)
  <2> HIDE DEF step, n, V
  <2> QED
    BY <1>1, <1>3, Recursion
<1>6. f = [i \in 0..n |-> IF i = 0 THEN NoSuite ELSE NextOf(f[i - 1], i)]
  <2> HIDE DEF step, n, V, NextOf
  <2>1. ASSUME NEW i \in 1..n PROVE f[i] = NextOf(f[i - 1], i)
    <3>1. i - 1 \in 0..n
      BY <1>1
    <3> QED
      BY <1>4, <1>5, <3>1 DEF Iterates
  <2> QED
    BY <1>1, <1>5, <2>1 DEF Iterates
<1>7. g = [i \in 0..n |-> IF i = 0 THEN NoSuite ELSE NextOf(g[i - 1], i)]
  BY <1>6 DEF Bounding
<1> HIDE DEF step, n, V, NextOf
<1>8. ASSUME NEW i \in 0..n PROVE g[i] = IF i = 0 THEN NoSuite ELSE NextOf(g[i - 1], i)
  BY <1>7
<1>9. g[0] = NoSuite /\ \A i \in 1..n : g[i] = NextOf(g[i - 1], i)
  BY <1>1, <1>8
<1>10. \A i \in 0..n : f[i] = g[i]
  <2>1. f[0] = g[0]
    BY <1>1, <1>6, <1>9
  <2>2. ASSUME NEW i \in 1..n, f[i - 1] = g[i - 1] PROVE f[i] = g[i]
    <3>1. f[i] = NextOf(f[i - 1], i)
      BY <1>1, <1>6
    <3> QED
      BY <1>9, <2>2, <3>1
  <2> QED
    BY <1>1, <2>1, <2>2, SameIterates
<1>11. g \in [0..n -> V]
  BY <1>5, <1>7, <1>10 DEF Iterates
<1> QED
  BY <1>1, <1>9, <1>11 DEF n, V, NextOf

(* A suite starts at i; it is the same until k; it starts at i and is over at j. *)
Starts(ms, i) == SuiteAt(ms, i) \notin {None, SuiteAt(ms, i - 1)}
Lasts(ms, i, k) == \A m \in i..k : SuiteAt(ms, m) = SuiteAt(ms, i)
Ends(ms, i, j) ==
  i < j /\ Starts(ms, i) /\ Lasts(ms, i, j - 1) /\ SuiteAt(ms, j) # SuiteAt(ms, i)
SpanOf(ms, i, t) == [suite |-> SuiteAt(ms, i), from |-> ms[i].t, to |-> t]

Member(seq, s) == \E p \in 1..Len(seq) : seq[p] = s
Rising(spans) == \A p, q \in 1..Len(spans) : p <= q => spans[p].from <= spans[q].from

(* A suite that lasts to now started at one of the marks before.           *)
LEMMA StartBefore ==
  ASSUME NEW ms, NEW k \in Nat, NEW i \in 1..k, NEW j \in 1..k, Starts(ms, i), Lasts(ms, j, k)
  PROVE  i <= j
<1>1. ASSUME j < i PROVE FALSE
  <2>1. i - 1 \in j..k /\ i \in j..k
    BY <1>1
  <2>2. SuiteAt(ms, i) = SuiteAt(ms, i - 1)
    BY <2>1 DEF Lasts
  <2> QED
    BY <2>2 DEF Starts
<1> QED
  BY <1>1

(* It has one start.                                                       *)
LEMMA OneStart ==
  ASSUME NEW ms, NEW k \in Nat, NEW i \in 1..k, NEW j \in 1..k,
         Starts(ms, i), Lasts(ms, i, k), Starts(ms, j), Lasts(ms, j, k)
  PROVE  i = j
<1>1. i <= j /\ j <= i
  BY StartBefore
<1> QED
  BY <1>1

(* What closing a suite adds to the spans.                                 *)
LEMMA MoreDoes ==
  ASSUME NEW acc \in SuiteState, NEW t \in Int, Rising(acc.spans),
         acc.open # None => \A p \in 1..Len(acc.spans) : acc.spans[p].from <= acc.since
  PROVE  /\ Rising(More(acc, t))
         /\ \A s : Member(More(acc, t), s) <=>
              \/ Member(acc.spans, s)
              \/ /\ acc.open # None /\ t > acc.since
                 /\ s = [suite |-> acc.open, from |-> acc.since, to |-> t]
<1> DEFINE old == acc.spans
           new == [suite |-> acc.open, from |-> acc.since, to |-> t]
           long == Append(old, new)
           n == Len(old)
<1>1. CASE ~(acc.open # None /\ t > acc.since)
  BY <1>1 DEF More
<1>2. CASE acc.open # None /\ t > acc.since
  <2>1. acc.open \in Suite /\ acc.since \in Int /\ old \in Seq(Spans)
    BY <1>2 DEF SuiteState
  <2>2. new \in Spans /\ new.from = acc.since
    BY <2>1 DEF Spans
  <2>3. More(acc, t) = long
    BY <1>2 DEF More
  <2>4. n \in Nat /\ \A p \in 1..n : old[p].from \in Int /\ old[p].from <= acc.since
    <3>1. n \in Nat /\ \A p \in 1..n : old[p] \in Spans
      BY <2>1
    <3>2. \A p \in 1..n : old[p].from \in Int
      BY <3>1 DEF Spans
    <3> QED
      BY <1>2, <3>1, <3>2
  <2> HIDE DEF new
  <2>5. Len(long) = n + 1 /\ long[n + 1] = new /\ \A p \in 1..n : long[p] = old[p]
    BY <2>1, <2>2, AppendProperties
  <2>6. 1..n + 1 = (1..n) \cup {n + 1}
    BY <2>4
  <2>7. Rising(old)
    OBVIOUS
  <2> HIDE DEF long, n, old
  <2>8. ASSUME NEW p \in 1..n + 1, NEW q \in 1..n + 1, p <= q PROVE long[p].from <= long[q].from
    <3>1. CASE q = n + 1
      BY <2>1, <2>2, <2>4, <2>5, <2>6, <3>1
    <3>2. CASE q # n + 1
      <4>1. p \in 1..n /\ q \in 1..n
        BY <2>4, <2>8, <3>2
      <4> QED
        BY <2>5, <2>7, <2>8, <4>1 DEF Rising, n
    <3> QED
      BY <3>1, <3>2
  <2>9. Rising(long)
    BY <2>5, <2>8 DEF Rising
  <2>10. \A s : Member(long, s) <=> Member(old, s) \/ s = new
    BY <2>5, <2>6 DEF Member, n
  <2> QED
    BY <1>2, <2>3, <2>9, <2>10 DEF new, old
<1> QED
  BY <1>1, <1>2

Spanned(ms, k, acc) ==
  /\ acc.open = SuiteAt(ms, k)
  /\ acc.open # None => \E i \in 1..k : Starts(ms, i) /\ Lasts(ms, i, k) /\ acc.since = ms[i].t
  /\ \A s : Member(acc.spans, s) <=>
       \E i, j \in 1..Len(ms) : /\ j <= k /\ Ends(ms, i, j) /\ ms[i].t < ms[j].t
                                /\ s = SpanOf(ms, i, ms[j].t)
  /\ Rising(acc.spans)

LEMMA SpansBefore ==
  ASSUME NEW ms, InOrder(ms), NEW k \in 0..Len(ms), NEW acc \in SuiteState, Spanned(ms, k, acc),
         NEW p \in 1..Len(acc.spans), acc.open # None
  PROVE  acc.spans[p].from <= acc.since
<1>1. PICK a \in 1..k : Starts(ms, a) /\ Lasts(ms, a, k) /\ acc.since = ms[a].t
  BY DEF Spanned
<1>2. Member(acc.spans, acc.spans[p])
  BY DEF Member
<1>3. PICK i \in 1..Len(ms), j \in 1..Len(ms) :
        j <= k /\ Ends(ms, i, j) /\ acc.spans[p] = SpanOf(ms, i, ms[j].t)
  BY <1>2 DEF Spanned
<1>4. Starts(ms, i) /\ i < j /\ acc.spans[p].from = ms[i].t
  BY <1>3 DEF Ends, SpanOf
<1>5. k \in Nat /\ i \in 1..k /\ a \in 1..Len(ms)
  BY <1>1, <1>3, <1>4 DEF InOrder
<1>6. i <= a
  BY <1>1, <1>4, <1>5, StartBefore
<1> QED
  BY <1>1, <1>4, <1>5, <1>6 DEF InOrder

(* One more mark: the spans of the suites that ended so far are those      *)
(* found.                                                                  *)
LEMMA SpannedStep ==
  ASSUME NEW ms, InOrder(ms), NEW k \in 1..Len(ms),
         NEW acc \in SuiteState, Spanned(ms, k - 1, acc)
  PROVE  Spanned(ms, k, Bound(acc, ms[k]))
<1> DEFINE n == Len(ms)
           A(i) == SuiteAt(ms, i)
           next == Bound(acc, ms[k])
           t == ms[k].t
<1>1. ms \in Seq(Marks) /\ n \in Nat /\ k \in Nat /\ k - 1 \in 0..n /\ k - 1 \in Nat /\ k \in 1..n /\ k \in 1..k
  BY DEF InOrder
<1>2. ms[k] \in Marks /\ t \in Int /\ ms[k].opens \in BOOLEAN /\ (ms[k].of = "suite" => ms[k].suite \in Suite)
  <2>1. ms[k] \in Marks
    BY <1>1
  <2> QED
    BY <2>1 DEF Marks
<1>3. None \notin Suite
  BY TimelapseAssumption
<1>4. A(k) = IF ms[k].of # "suite" THEN A(k - 1) ELSE IF ms[k].opens THEN ms[k].suite ELSE None
  BY <1>1, SuiteAtStep
<1>5. /\ next = acc \/
           /\ ms[k].of = "suite"
           /\ next.open = IF ms[k].opens THEN ms[k].suite ELSE None
           /\ ms[k].opens => acc.open # ms[k].suite
           /\ next.since = IF ms[k].opens THEN t ELSE acc.since
           /\ next.spans = More(acc, t)
      /\ next = acc => ms[k].of # "suite" \/ acc.open = IF ms[k].opens THEN ms[k].suite ELSE None
  <2>1. next = Bound(acc, ms[k])
    OBVIOUS
  <2> HIDE DEF next
  <2> QED
    BY <1>2, <2>1, BoundDoes
<1>6. /\ acc.open = A(k - 1)
      /\ acc.open # None => \E i \in 1..k - 1 : Starts(ms, i) /\ Lasts(ms, i, k - 1) /\ acc.since = ms[i].t
      /\ \A s : Member(acc.spans, s) <=>
           \E i, j \in 1..n : /\ j <= k - 1 /\ Ends(ms, i, j) /\ ms[i].t < ms[j].t
                              /\ s = SpanOf(ms, i, ms[j].t)
      /\ Rising(acc.spans)
  BY DEF Spanned
<1>7. acc.open # None => \A p \in 1..Len(acc.spans) : acc.spans[p].from <= acc.since
  BY <1>1, SpansBefore
<1>8. ASSUME NEW i \in 1..n, Ends(ms, i, k)
      PROVE  /\ i \in 1..k - 1 /\ Starts(ms, i) /\ Lasts(ms, i, k - 1)
             /\ A(k - 1) = A(i) /\ A(i) # None /\ A(k) # A(i)
  <2>1. i < k /\ Starts(ms, i) /\ Lasts(ms, i, k - 1) /\ A(k) # A(i)
    BY <1>8 DEF Ends
  <2>2. i \in 1..k - 1 /\ k - 1 \in i..k - 1
    BY <1>1, <2>1
  <2> QED
    BY <2>1, <2>2 DEF Lasts, Starts
<1>9. ASSUME NEW s
      PROVE  (\E i, j \in 1..n : j <= k /\ Ends(ms, i, j) /\ ms[i].t < ms[j].t /\ s = SpanOf(ms, i, ms[j].t))
               <=> \/ Member(acc.spans, s)
                   \/ \E i \in 1..n : Ends(ms, i, k) /\ ms[i].t < t /\ s = SpanOf(ms, i, t)
  <2>1. \A j \in 1..n : j <= k <=> j <= k - 1 \/ j = k
    BY <1>1
  <2> HIDE DEF n
  <2> QED
    BY <1>1, <1>6, <2>1
<1> HIDE DEF next, A, n, t
<1>10. CASE next = acc
  <2>1. A(k) = A(k - 1)
    BY <1>4, <1>5, <1>6, <1>10
  <2>2. next.open = A(k)
    BY <1>6, <1>10, <2>1
  <2>3. ASSUME next.open # None
        PROVE  \E i \in 1..k : Starts(ms, i) /\ Lasts(ms, i, k) /\ next.since = ms[i].t
    <3>1. PICK a \in 1..k - 1 : Starts(ms, a) /\ Lasts(ms, a, k - 1) /\ acc.since = ms[a].t
      BY <1>6, <1>10, <2>3
    <3>2. a \in 1..k /\ a..k = (a..k - 1) \cup {k} /\ k - 1 \in a..k - 1
      BY <1>1
    <3>3. Lasts(ms, a, k)
      BY <2>1, <3>1, <3>2 DEF Lasts, A
    <3> QED
      BY <1>10, <3>1, <3>2, <3>3
  <2>4. ASSUME NEW s
        PROVE  Member(next.spans, s) <=>
                 \E i, j \in 1..n : j <= k /\ Ends(ms, i, j) /\ ms[i].t < ms[j].t /\ s = SpanOf(ms, i, ms[j].t)
    BY <1>8, <1>9, <1>10, <2>1
  <2> QED
    BY <1>6, <1>10, <2>2, <2>3, <2>4 DEF Spanned, next, A, n
<1>11. CASE next # acc
  <2>1. next.open = A(k) /\ ms[k].of = "suite" /\ next.spans = More(acc, t)
    BY <1>4, <1>5, <1>11
  <2>2. A(k) = A(k - 1) => acc.open = None
    BY <1>2, <1>4, <1>5, <1>6, <1>11
  <2>3. ASSUME next.open # None
        PROVE  \E i \in 1..k : Starts(ms, i) /\ Lasts(ms, i, k) /\ next.since = ms[i].t
    <3>1. ms[k].opens /\ next.since = ms[k].t /\ A(k) # A(k - 1)
      BY <1>4, <1>5, <1>6, <1>11, <2>1, <2>3 DEF t
    <3>2. Starts(ms, k)
      BY <2>1, <2>3, <3>1 DEF Starts, A
    <3>3. k..k = {k}
      BY <1>1
    <3>4. Lasts(ms, k, k)
      BY <3>3 DEF Lasts
    <3> QED
      BY <1>1, <3>1, <3>2, <3>4
  <2>4. /\ Rising(next.spans)
        /\ \A s : Member(next.spans, s) <=>
             \/ Member(acc.spans, s)
             \/ /\ acc.open # None /\ t > acc.since
                /\ s = [suite |-> acc.open, from |-> acc.since, to |-> t]
    BY <1>2, <1>6, <1>7, <2>1, MoreDoes
  <2>5. ASSUME NEW s
        PROVE  (\E i \in 1..n : Ends(ms, i, k) /\ ms[i].t < t /\ s = SpanOf(ms, i, t))
                 <=> /\ acc.open # None /\ t > acc.since
                     /\ s = [suite |-> acc.open, from |-> acc.since, to |-> t]
    <3>1. CASE acc.open = None
      BY <1>6, <1>8, <3>1
    <3>2. CASE acc.open # None
      <4>1. PICK a \in 1..k - 1 : Starts(ms, a) /\ Lasts(ms, a, k - 1) /\ acc.since = ms[a].t
        BY <1>6, <3>2
      <4>2. a < k /\ a \in 1..n /\ k - 1 \in a..k - 1
        BY <1>1
      <4>3. A(a) = A(k - 1)
        BY <4>1, <4>2 DEF Lasts, A
      <4>4. Ends(ms, a, k)
        BY <1>6, <2>2, <3>2, <4>1, <4>2, <4>3 DEF Ends, A
      <4>5. ASSUME NEW i \in 1..n, Ends(ms, i, k) PROVE i = a
        <5>1. i \in 1..k - 1 /\ Starts(ms, i) /\ Lasts(ms, i, k - 1)
          BY <1>8, <4>5
        <5> QED
          BY <1>1, <4>1, <5>1, OneStart
      <4>6. t > acc.since <=> ms[a].t < t
        <5>1. ms[a] \in Marks
          BY <1>1, <4>2 DEF n
        <5>2. ms[a].t \in Int
          BY <5>1 DEF Marks
        <5> QED
          BY <1>2, <4>1, <5>2
      <4>7. SpanOf(ms, a, t) = [suite |-> acc.open, from |-> acc.since, to |-> t]
        BY <1>6, <4>1, <4>3 DEF SpanOf, A
      <4>8. (\E i \in 1..n : Ends(ms, i, k) /\ ms[i].t < t /\ s = SpanOf(ms, i, t))
              <=> ms[a].t < t /\ s = SpanOf(ms, a, t)
        BY <4>2, <4>4, <4>5
      <4> QED
        BY <3>2, <4>6, <4>7, <4>8
    <3> QED
      BY <3>1, <3>2
  <2>6. ASSUME NEW s
        PROVE  Member(next.spans, s) <=>
                 \E i, j \in 1..n : j <= k /\ Ends(ms, i, j) /\ ms[i].t < ms[j].t /\ s = SpanOf(ms, i, ms[j].t)
    BY <1>9, <2>4, <2>5
  <2> QED
    BY <2>1, <2>3, <2>4, <2>6 DEF Spanned, next, A, n
<1> QED
  BY <1>10, <1>11

EndsAt(ms, n, i, E, f) ==
  /\ E = {} => Lasts(ms, i, n) /\ \A j \in 1..n : ~Ends(ms, i, j)
  /\ E # {} => f \in i + 1..n /\ \A j \in 1..n : Ends(ms, i, j) <=> j = f
  /\ E # {} => ~Lasts(ms, i, n)

(* A suite that started has one end.                                       *)
LEMMA EndsOnce ==
  ASSUME NEW ms, NEW n \in Nat, NEW i \in 1..n, Starts(ms, i),
         NEW E, E = {j \in i + 1..n : SuiteAt(ms, j) # SuiteAt(ms, i)},
         NEW first, first = CHOOSE j \in E : \A k \in E : j <= k
  PROVE  EndsAt(ms, n, i, E, first)
<1>1. ASSUME NEW j \in 1..n, Ends(ms, i, j) PROVE j \in E /\ \A k \in E : j <= k
  <2>1. i < j /\ Lasts(ms, i, j - 1) /\ SuiteAt(ms, j) # SuiteAt(ms, i)
    BY <1>1 DEF Ends
  <2>2. j \in E
    BY <2>1
  <2>3. ASSUME NEW k \in E, k < j PROVE FALSE
    <3>1. k \in i..j - 1 /\ SuiteAt(ms, k) # SuiteAt(ms, i)
      BY <2>3
    <3> QED
      BY <2>1, <3>1 DEF Lasts
  <2>4. j \in Int /\ \A k \in E : k \in Int
    OBVIOUS
  <2> HIDE DEF Ends
  <2> QED
    BY <2>2, <2>3, <2>4
<1>2. CASE E = {}
  <2>1. ASSUME NEW m \in i..n PROVE SuiteAt(ms, m) = SuiteAt(ms, i)
    <3>1. m = i \/ m \in i + 1..n
      OBVIOUS
    <3> QED
      BY <1>2, <3>1
  <2> QED
    BY <1>1, <1>2, <2>1 DEF Lasts, EndsAt
<1>3. CASE E # {}
  <2> DEFINE P(j) == \A k \in E : j <= k
             f == CHOOSE j \in E : P(j)
  <2>1. E \in SUBSET Nat
    OBVIOUS
  <2>2. \E j \in E : P(j)
    <3> HIDE DEF P
    <3>1. \E j \in E : \A k \in E : j <= k
      BY <1>3, <2>1, SmallestThere
    <3> QED
      BY <3>1 DEF P
  <2>3. f \in E /\ P(f)
    <3> HIDE DEF P
    <3> QED
      BY <2>2
  <2> HIDE DEF f
  <2>4. f \in i + 1..n /\ SuiteAt(ms, f) # SuiteAt(ms, i) /\ f \in 1..n
    BY <2>3
  <2>5. ASSUME NEW m \in i..f - 1 PROVE SuiteAt(ms, m) = SuiteAt(ms, i)
    <3>1. m = i \/ (m \in i + 1..n /\ ~(f <= m))
      BY <2>4
    <3> QED
      BY <2>3, <3>1
  <2>6. Ends(ms, i, f)
    BY <2>4, <2>5 DEF Ends, Lasts
  <2>7. ASSUME NEW j \in 1..n, Ends(ms, i, j) PROVE j = f
    <3>1. j \in E /\ \A k \in E : j <= k
      BY <1>1, <2>7
    <3>2. j <= f /\ f <= j
      BY <2>3, <3>1
    <3> QED
      BY <2>4, <3>2
  <2>8. f \in i..n
    BY <2>4
  <2>9. ~Lasts(ms, i, n)
    BY <2>4, <2>8 DEF Lasts
  <2>10. f = first
    BY DEF f
  <2> QED
    BY <1>3, <2>4, <2>6, <2>7, <2>9, <2>10 DEF EndsAt
<1> QED
  BY <1>2, <1>3

(* computeSuiteCutIntervals, for all marks: the spans found one mark at a  *)
(* time are those from a change of the suite that is open to the next.     *)
THEOREM SuiteSpansAll ==
  ASSUME NEW ms, InOrder(ms), NEW spans, spans = SuiteSpans(ms)
  PROVE  /\ spans \in Seq(Spans) /\ Rising(spans)
         /\ \A s : Member(spans, s) <=> s \in SuiteSpansOf(ms)
<1> DEFINE n == Len(ms)
           g == Bounding(ms)
           acc == g[n]
           S == {k \in 0..n : Spanned(ms, k, g[k])}
           E(i) == {j \in i + 1..n : SuiteAt(ms, j) # SuiteAt(ms, i)}
           first(i) == CHOOSE j \in E(i) : \A k \in E(i) : j <= k
           To(i) == IF E(i) = {} THEN Duration ELSE ms[first(i)].t
<1>0. ms \in Seq(Marks) /\ Duration \in Int
  BY TimelapseAssumption DEF InOrder
<1>1. n \in Nat /\ g \in [0..n -> SuiteState] /\ g[0] = NoSuite
      /\ \A i \in 1..n : g[i] = Bound(g[i - 1], ms[i])
  BY <1>0, BoundingDoes
<1>2. spans = More(acc, Duration) /\ acc \in SuiteState
  <2>1. acc \in SuiteState /\ spans = Close(acc, Duration).spans
    BY <1>1 DEF SuiteSpans
  <2> HIDE DEF acc
  <2>2. Close(acc, Duration) = [open |-> None, since |-> acc.since, spans |-> More(acc, Duration)]
    BY <1>0, <2>1, MoreTyped
  <2> QED
    BY <2>1, <2>2
<1> HIDE DEF g
<1>3. 0 \in S
  <2>1. SuiteAt(ms, 0) = None /\ NoSuite.open = None /\ NoSuite.spans = <<>> /\ Len(<<>>) = 0
    BY <1>0, SuiteAtStep DEF NoSuite
  <2>2. \A j \in 1..n : ~(j <= 0)
    BY <1>1
  <2>3. 1..0 = {}
    OBVIOUS
  <2>4. /\ \A s : ~Member(NoSuite.spans, s)
        /\ Rising(NoSuite.spans)
    BY <2>1, <2>3 DEF Member, Rising
  <2>5. Spanned(ms, 0, NoSuite)
    BY <2>1, <2>2, <2>4 DEF Spanned
  <2> QED
    BY <1>1, <2>5
<1>4. ASSUME NEW i \in 0 + 1..n, i - 1 \in S PROVE i \in S
  <2>1. i \in 1..n /\ i \in 0..n /\ i - 1 \in 0..n
    BY <1>1
  <2>2. g[i - 1] \in SuiteState /\ Spanned(ms, i - 1, g[i - 1]) /\ g[i] = Bound(g[i - 1], ms[i])
    BY <1>1, <1>4, <2>1
  <2>3. Spanned(ms, i, g[i])
    BY <2>1, <2>2, SpannedStep
  <2> QED
    BY <2>1, <2>3
<1>5. 0..n \subseteq S
  <2> HIDE DEF S, n
  <2> QED
    BY <1>1, <1>3, <1>4, Induction
<1>6. n \in 0..n
  BY <1>1
<1>7. Spanned(ms, n, acc)
  BY <1>5, <1>6
<1> HIDE DEF acc
<1>8. acc.open # None => \A p \in 1..Len(acc.spans) : acc.spans[p].from <= acc.since
  BY <1>2, <1>6, <1>7, SpansBefore
<1>9. /\ Rising(spans) /\ spans \in Seq(Spans)
      /\ \A s : Member(spans, s) <=>
           \/ Member(acc.spans, s)
           \/ /\ acc.open # None /\ Duration > acc.since
              /\ s = [suite |-> acc.open, from |-> acc.since, to |-> Duration]
  <2>1. Rising(acc.spans)
    BY <1>7 DEF Spanned
  <2> QED
    BY <1>0, <1>2, <1>8, <2>1, MoreDoes, MoreTyped
<1> HIDE DEF n
<1>10. ASSUME NEW i \in 1..n, Starts(ms, i)
       PROVE  /\ ms[i].suite = SuiteAt(ms, i) /\ ms[i].t \in Int
  <2>1. SuiteAt(ms, i) = IF ms[i].of # "suite" THEN SuiteAt(ms, i - 1)
                         ELSE IF ms[i].opens THEN ms[i].suite ELSE None
    BY <1>0, SuiteAtStep DEF n
  <2>2. ms[i] \in Marks
    BY <1>0 DEF n
  <2> QED
    BY <1>10, <2>1, <2>2 DEF Starts, Marks
<1>11. ASSUME NEW s
       PROVE  s \in SuiteSpansOf(ms) <=>
                \E i \in 1..n : Starts(ms, i) /\ ms[i].t < To(i) /\ s = SpanOf(ms, i, To(i))
  <2>1. DOMAIN ms = 1..n
    BY <1>0 DEF n
  <2>2. s \in SuiteSpansOf(ms) <=>
          \E i \in 1..n : /\ SuiteAt(ms, i) \notin {None, SuiteAt(ms, i - 1)} /\ ms[i].t < To(i)
                          /\ s = [suite |-> ms[i].suite, from |-> ms[i].t, to |-> To(i)]
    <3>1. SuiteSpansOf(ms) = {[suite |-> ms[i].suite, from |-> ms[i].t, to |-> To(i)] :
             i \in {k \in DOMAIN ms : SuiteAt(ms, k) \notin {None, SuiteAt(ms, k - 1)} /\ ms[k].t < To(k)}}
      BY DEF SuiteSpansOf, n
    <3> HIDE DEF To
    <3> QED
      BY <2>1, <3>1
  <2> HIDE DEF To
  <2> QED
    BY <1>10, <2>2 DEF Starts, SpanOf
<1>12. ASSUME NEW i \in 1..n, Starts(ms, i)
       PROVE  /\ E(i) = {} => Lasts(ms, i, n) /\ \A j \in 1..n : ~Ends(ms, i, j)
              /\ E(i) # {} => /\ first(i) \in 1..n /\ \A j \in 1..n : Ends(ms, i, j) <=> j = first(i)
                              /\ ~Lasts(ms, i, n)
  <2> DEFINE e == E(i)
             f == first(i)
  <2>1. e = {j \in i + 1..n : SuiteAt(ms, j) # SuiteAt(ms, i)} /\ f = CHOOSE j \in e : \A k \in e : j <= k
    OBVIOUS
  <2>2. i + 1..n \subseteq 1..n /\ n \in Nat
    BY <1>1 DEF n
  <2> HIDE DEF e, f
  <2>3. EndsAt(ms, n, i, e, f)
    BY <1>12, <2>1, <2>2, EndsOnce
  <2> QED
    BY <2>2, <2>3 DEF e, f, EndsAt
<1> HIDE DEF E, first
<1>13. ASSUME NEW s
       PROVE  (\E i \in 1..n : Starts(ms, i) /\ ms[i].t < To(i) /\ s = SpanOf(ms, i, To(i)))
                <=> \/ \E i, j \in 1..n : Ends(ms, i, j) /\ ms[i].t < ms[j].t /\ s = SpanOf(ms, i, ms[j].t)
                    \/ \E i \in 1..n : /\ Starts(ms, i) /\ Lasts(ms, i, n) /\ ms[i].t < Duration
                                       /\ s = SpanOf(ms, i, Duration)
  <2>1. ASSUME NEW i \in 1..n, Starts(ms, i), ms[i].t < To(i), s = SpanOf(ms, i, To(i))
        PROVE  \/ \E j \in 1..n : Ends(ms, i, j) /\ ms[i].t < ms[j].t /\ s = SpanOf(ms, i, ms[j].t)
               \/ Lasts(ms, i, n) /\ ms[i].t < Duration /\ s = SpanOf(ms, i, Duration)
    <3>1. CASE E(i) = {}
      BY <1>12, <2>1, <3>1
    <3>2. CASE E(i) # {}
      BY <1>12, <2>1, <3>2
    <3> QED
      BY <3>1, <3>2
  <2>2. ASSUME NEW i \in 1..n, NEW j \in 1..n, Ends(ms, i, j) PROVE Starts(ms, i) /\ To(i) = ms[j].t
    <3>1. Starts(ms, i)
      BY <2>2 DEF Ends
    <3> QED
      BY <1>12, <2>2, <3>1
  <2>3. ASSUME NEW i \in 1..n, Starts(ms, i), Lasts(ms, i, n) PROVE To(i) = Duration
    BY <1>12, <2>3
  <2> HIDE DEF To
  <2> QED
    BY <2>1, <2>2, <2>3
<1> HIDE DEF To
<1>14. ASSUME NEW s
       PROVE  Member(acc.spans, s) <=>
                \E i, j \in 1..n : Ends(ms, i, j) /\ ms[i].t < ms[j].t /\ s = SpanOf(ms, i, ms[j].t)
  <2>1. \A j \in 1..n : j <= n
    BY <1>1 DEF n
  <2> QED
    BY <1>7, <2>1 DEF Spanned, n
<1>15. ASSUME NEW s
       PROVE  (/\ acc.open # None /\ Duration > acc.since
               /\ s = [suite |-> acc.open, from |-> acc.since, to |-> Duration])
                <=> \E i \in 1..n : /\ Starts(ms, i) /\ Lasts(ms, i, n) /\ ms[i].t < Duration
                                    /\ s = SpanOf(ms, i, Duration)
  <2>0. acc.open = SuiteAt(ms, n)
    BY <1>7 DEF Spanned
  <2>1. ASSUME NEW i \in 1..n, Starts(ms, i), Lasts(ms, i, n) PROVE acc.open = SuiteAt(ms, i) /\ acc.open # None
    <3>1. n \in i..n
      BY <1>1 DEF n
    <3> QED
      BY <2>0, <2>1, <3>1 DEF Lasts, Starts
  <2>2. CASE acc.open = None
    BY <2>1, <2>2
  <2>3. CASE acc.open # None
    <3>1. PICK a \in 1..n : Starts(ms, a) /\ Lasts(ms, a, n) /\ acc.since = ms[a].t
      BY <1>7, <2>3 DEF Spanned
    <3>2. ASSUME NEW i \in 1..n, Starts(ms, i), Lasts(ms, i, n) PROVE i = a
      BY <1>1, <3>1, <3>2, OneStart DEF n
    <3>3. SpanOf(ms, a, Duration) = [suite |-> acc.open, from |-> acc.since, to |-> Duration]
      BY <2>1, <3>1 DEF SpanOf
    <3>4. ms[a].t \in Int
      BY <1>10, <3>1
    <3>5. Duration > acc.since <=> ms[a].t < Duration
      BY <1>0, <3>1, <3>4
    <3>6. (\E i \in 1..n : /\ Starts(ms, i) /\ Lasts(ms, i, n) /\ ms[i].t < Duration
                           /\ s = SpanOf(ms, i, Duration))
            <=> ms[a].t < Duration /\ s = SpanOf(ms, a, Duration)
      BY <3>1, <3>2
    <3> QED
      BY <2>3, <3>3, <3>5, <3>6
  <2> QED
    BY <2>2, <2>3
<1> QED
  BY <1>9, <1>11, <1>13, <1>14, <1>15

(* What is cut for the sake of suites. *)
SuiteCuts(ms) ==
  LET spans == SuiteSpansOf(ms)
      kept == {span \in spans : span.suite \in Kept}
      lead == {iv \in {Interval(0, span.from) : span \in kept} :
                 \A span \in kept : iv.to <= span.from}
  IN  (spans \ kept) \cup lead

(* The cuts of the suites: what is in one of them is in a suite that is    *)
(* not kept, or before the first that is.                                  *)
LEMMA SuiteCutsAll ==
  ASSUME NEW ms, InOrder(ms), NEW N, N = SuiteCutIntervals(ms)
  PROVE  /\ Good(N, MinCut)
         /\ \A x \in 0..Duration - 1 : In(x, N) <=> \E iv \in SuiteCuts(ms) : Shows(iv, MinCut, x)
<1> DEFINE sp == SuiteSpans(ms)
           m == Len(sp)
           all == SuiteSpansOf(ms)
           keptAt == {i \in DOMAIN sp : sp[i].suite \in Kept}
           first == {i \in keptAt : \A j \in keptAt : i <= j}
           rest == (DOMAIN sp) \ keptAt
           A == {Interval(sp[i].from, sp[i].to) : i \in rest}
           B == {Interval(0, sp[i].from) : i \in first}
           kept == {span \in all : span.suite \in Kept}
           lead == {iv \in {Interval(0, span.from) : span \in kept} :
                      \A span \in kept : iv.to <= span.from}
<1>1. sp \in Seq(Spans) /\ Rising(sp) /\ \A s : Member(sp, s) <=> s \in all
  <2>1. sp = SuiteSpans(ms)
    OBVIOUS
  <2> HIDE DEF sp
  <2> QED
    BY <2>1, SuiteSpansAll
<1>2. N = ClampMergeIntervals(A \cup B, MinCut)
  BY DEF SuiteCutIntervals
<1>3. SuiteCuts(ms) = (all \ kept) \cup lead
  BY DEF SuiteCuts
<1>4. m \in Nat /\ DOMAIN sp = 1..m /\ IsFiniteSet(1..m)
  <2>1. m \in Nat /\ DOMAIN sp = 1..m
    BY <1>1
  <2>2. 1 \in Int /\ m \in Int
    BY <2>1
  <2> HIDE DEF m
  <2> QED
    BY <2>1, <2>2, FS_Interval
<1> HIDE DEF sp
<1>5. ASSUME NEW i \in 1..m
      PROVE  /\ sp[i] \in all /\ sp[i].from \in Int /\ sp[i].to \in Int
             /\ Interval(sp[i].from, sp[i].to) \in Intervals
             /\ Interval(0, sp[i].from) \in Intervals
  <2>1. sp[i] \in Spans
    BY <1>1
  <2>2. sp[i].from \in Int /\ sp[i].to \in Int
    BY <2>1 DEF Spans
  <2>3. sp[i] \in all
    BY <1>1 DEF Member
  <2> QED
    BY <2>2, <2>3 DEF Interval, Intervals
<1>6. \A s \in all : \E i \in 1..m : sp[i] = s
  BY <1>1 DEF Member
<1> HIDE DEF m, all
<1>7. A \in SUBSET Intervals /\ B \in SUBSET Intervals
  BY <1>4, <1>5
<1>8. IsFiniteSet(A) /\ IsFiniteSet(B)
  <2>1. rest \in SUBSET (1..m) /\ first \in SUBSET (1..m)
    BY <1>4
  <2> DEFINE fa == [i \in rest |-> Interval(sp[i].from, sp[i].to)]
             fb == [i \in first |-> Interval(0, sp[i].from)]
  <2>2. A = {fa[i] : i \in rest} /\ DOMAIN fa = rest
    OBVIOUS
  <2>3. B = {fb[i] : i \in first} /\ DOMAIN fb = first
    OBVIOUS
  <2> HIDE DEF A, B, rest, first, fa, fb
  <2>4. IsFiniteSet(rest) /\ IsFiniteSet(first)
    BY <1>4, <2>1, FS_Subset
  <2>5. IsFiniteSet(A)
    BY <2>2, <2>4, ImageFinite
  <2>6. IsFiniteSet(B)
    BY <2>3, <2>4, ImageFinite
  <2> QED
    BY <2>5, <2>6
<1>9. B = lead
  <2>1. ASSUME NEW i \in first
        PROVE  Interval(0, sp[i].from) \in lead
    <3>1. i \in 1..m /\ i \in keptAt /\ \A j \in keptAt : i <= j
      BY <1>4
    <3>2. sp[i] \in kept
      BY <1>4, <1>5, <3>1
    <3>3. ASSUME NEW span \in kept PROVE sp[i].from <= span.from
      <4>1. PICK j \in 1..m : sp[j] = span
        BY <1>6
      <4>2. i <= j
        BY <1>4, <3>1, <4>1
      <4> QED
        BY <1>1, <3>1, <4>1, <4>2 DEF Rising, m
    <3>4. Interval(0, sp[i].from).to = sp[i].from
      BY DEF Interval
    <3> QED
      BY <3>2, <3>3, <3>4
  <2>2. ASSUME NEW iv \in lead PROVE iv \in B
    <3>1. PICK span \in kept : iv = Interval(0, span.from)
      OBVIOUS
    <3>2. \A s \in kept : iv.to <= s.from
      OBVIOUS
    <3>3. PICK j \in 1..m : sp[j] = span
      BY <1>6
    <3>4. j \in keptAt /\ keptAt \in SUBSET Nat /\ keptAt \in SUBSET (1..m)
      BY <1>4, <3>3
    <3>5. PICK i \in keptAt : \A k \in keptAt : i <= k
      <4> HIDE DEF keptAt
      <4> QED
        BY <3>4, SmallestThere
    <3>6. i \in first /\ i \in 1..m /\ i <= j
      BY <3>4, <3>5
    <3>7. sp[i].from <= span.from
      BY <1>1, <3>3, <3>6 DEF Rising, m
    <3>8. sp[i] \in kept
      BY <1>4, <1>5, <3>5, <3>6
    <3>9. span.from <= sp[i].from
      BY <3>1, <3>2, <3>8 DEF Interval
    <3>10. span.from \in Int /\ sp[i].from \in Int
      BY <1>5, <3>3, <3>6
    <3>11. iv = Interval(0, sp[i].from)
      BY <3>1, <3>7, <3>9, <3>10
    <3> QED
      BY <3>6, <3>11
  <2> HIDE DEF lead
  <2>3. B \subseteq lead
    BY <2>1
  <2> HIDE DEF B
  <2> QED
    BY <2>2, <2>3
<1>10. ASSUME NEW x
       PROVE  (\E iv \in A : Shows(iv, MinCut, x)) <=> \E s \in all \ kept : Shows(s, MinCut, x)
  <2>1. \A i \in 1..m : Shows(Interval(sp[i].from, sp[i].to), MinCut, x) <=> Shows(sp[i], MinCut, x)
    BY DEF Shows, Interval
  <2>2. \A i \in 1..m : sp[i] \in all \ kept <=> i \in rest
    BY <1>4, <1>5
  <2>3. \A iv \in A : \E i \in rest : iv = Interval(sp[i].from, sp[i].to)
    OBVIOUS
  <2>4. \A i \in rest : i \in 1..m /\ Interval(sp[i].from, sp[i].to) \in A
    BY <1>4
  <2> HIDE DEF A, rest, kept
  <2>5. ASSUME NEW iv \in A, Shows(iv, MinCut, x) PROVE \E s \in all \ kept : Shows(s, MinCut, x)
    <3>1. PICK i \in rest : iv = Interval(sp[i].from, sp[i].to)
      BY <2>3
    <3>2. i \in 1..m /\ sp[i] \in all \ kept /\ Shows(sp[i], MinCut, x)
      BY <2>1, <2>2, <2>4, <2>5, <3>1
    <3> QED
      BY <3>2
  <2>6. ASSUME NEW s \in all \ kept, Shows(s, MinCut, x) PROVE \E iv \in A : Shows(iv, MinCut, x)
    <3>1. PICK i \in 1..m : sp[i] = s
      BY <1>6
    <3> QED
      BY <2>1, <2>2, <2>4, <2>6, <3>1
  <2> QED
    BY <2>5, <2>6
<1> HIDE DEF A, B, lead, kept
<1>11. IsFiniteSet(A \cup B) /\ A \cup B \in SUBSET Intervals
  BY <1>7, <1>8, FS_Union
<1>12. MinCut \in Nat \ {0}
  BY TimelapseAssumption
<1>13. /\ Good(N, MinCut)
       /\ \A x \in 0..Duration - 1 : In(x, N) <=> \E iv \in A \cup B : Shows(iv, MinCut, x)
  BY <1>2, <1>11, <1>12, ClampMerged
<1> QED
  BY <1>3, <1>9, <1>10, <1>13

LEMMA GoodShows ==
  ASSUME NEW M, NEW minimum \in Nat, Good(M, minimum), NEW x
  PROVE  In(x, M) <=> \E iv \in M : Shows(iv, minimum, x)
<1>1. ASSUME NEW iv \in M PROVE Shows(iv, minimum, x) <=> iv.from <= x /\ x < iv.to
  <2>1. /\ iv.from \in Int /\ iv.to \in Int /\ 0 <= iv.from /\ iv.to <= Duration
        /\ iv.to - iv.from >= minimum /\ Duration \in Int
    BY TimelapseAssumption DEF Good, Intervals
  <2>2. Least(Duration, iv.to) = iv.to /\ Most(0, iv.from) = iv.from
    BY <2>1 DEF Least, Most
  <2> QED
    BY <2>1, <2>2 DEF Shows
<1> QED
  BY <1>1 DEF In

(* What is cut, and what has a speed of its own. *)
CutSpans(ms, keepSuite) ==
  MarkedSpans(ms, "loading", FALSE) \cup IF keepSuite THEN SuiteCuts(ms) ELSE {}
MinOf(kind) == IF kind = "loading" THEN MinCut ELSE MinInterval
SpansOf(ms, keepSuite, kind) ==
  IF kind = "loading" THEN CutSpans(ms, keepSuite) ELSE MarkedSpans(ms, kind, TRUE)
Lasting(ms, keepSuite, kind, x) == \E iv \in SpansOf(ms, keepSuite, kind) : Shows(iv, MinOf(kind), x)

(* The intervals of a kind: long enough, within the recording, and there   *)
(* where a span of that kind is that is long enough.                       *)
LEMMA KindsAll ==
  ASSUME NEW ms, InOrder(ms), NEW keepSuite \in BOOLEAN, NEW kind \in Kinds,
         NEW of, of = KindIntervals(ms, keepSuite)
  PROVE  /\ Good(of[kind], 1)
         /\ \A x \in 0..Duration - 1 : In(x, of[kind]) <=> Lasting(ms, keepSuite, kind, x)
<1>1. ms \in Seq(Marks)
  BY DEF InOrder
<1>2. MinCut \in Nat \ {0} /\ MinInterval \in Nat \ {0}
  BY TimelapseAssumption
<1>3. CASE kind = "loading"
  <2> DEFINE P == PairMarkIntervals(ms, "loading", FALSE)
             Q == SuiteCutIntervals(ms)
             I == P \cup (IF keepSuite THEN Q ELSE {})
  <2>1. of[kind] = ClampMergeIntervals(I, MinCut)
    BY <1>3 DEF KindIntervals, Kinds
  <2>2. P = MarkedSpans(ms, "loading", FALSE) /\ P \in SUBSET Intervals /\ IsFiniteSet(P)
    <3>1. P = PairMarkIntervals(ms, "loading", FALSE)
      OBVIOUS
    <3> HIDE DEF P
    <3> QED
      BY <1>1, <3>1, PairedAll
  <2>3. /\ Good(Q, MinCut)
        /\ \A x \in 0..Duration - 1 : In(x, Q) <=> \E iv \in SuiteCuts(ms) : Shows(iv, MinCut, x)
    <3>1. Q = SuiteCutIntervals(ms)
      OBVIOUS
    <3> HIDE DEF Q
    <3> QED
      BY <3>1, SuiteCutsAll
  <2> HIDE DEF P, Q
  <2>4. Q \in SUBSET Intervals /\ IsFiniteSet(Q)
    BY <2>3 DEF Good
  <2>5. I \in SUBSET Intervals /\ IsFiniteSet(I)
    BY <2>2, <2>4, FS_Union
  <2>6. ASSUME NEW x \in 0..Duration - 1
        PROVE  (\E iv \in I : Shows(iv, MinCut, x)) <=> \E iv \in CutSpans(ms, keepSuite) : Shows(iv, MinCut, x)
    <3>1. (\E iv \in Q : Shows(iv, MinCut, x)) <=> \E iv \in SuiteCuts(ms) : Shows(iv, MinCut, x)
      BY <1>2, <2>3, GoodShows
    <3> QED
      BY <2>2, <3>1 DEF CutSpans
  <2> HIDE DEF I
  <2>7. /\ Good(of[kind], MinCut)
        /\ \A x \in 0..Duration - 1 : In(x, of[kind]) <=> \E iv \in I : Shows(iv, MinCut, x)
    BY <1>2, <2>1, <2>5, ClampMerged
  <2>8. Good(of[kind], 1)
    <3>1. \A m \in of[kind] : m.from \in Int /\ m.to \in Int
      BY <2>7 DEF Good, Intervals
    <3> QED
      BY <1>2, <2>7, <3>1 DEF Good
  <2>9. \A x \in 0..Duration - 1 : In(x, of[kind]) <=> Lasting(ms, keepSuite, kind, x)
    BY <1>3, <2>6, <2>7 DEF Lasting, SpansOf, MinOf
  <2> QED
    BY <2>8, <2>9
<1>4. CASE kind # "loading"
  <2> DEFINE P == PairMarkIntervals(ms, kind, TRUE)
  <2>1. of[kind] = ClampMergeIntervals(P, MinInterval)
    BY <1>4 DEF KindIntervals
  <2>2. P = MarkedSpans(ms, kind, TRUE) /\ P \in SUBSET Intervals /\ IsFiniteSet(P)
    <3>1. P = PairMarkIntervals(ms, kind, TRUE)
      OBVIOUS
    <3> HIDE DEF P
    <3> QED
      BY <1>1, <3>1, PairedAll
  <2> HIDE DEF P
  <2>3. /\ Good(of[kind], MinInterval)
        /\ \A x \in 0..Duration - 1 : In(x, of[kind]) <=> \E iv \in P : Shows(iv, MinInterval, x)
    BY <1>2, <2>1, <2>2, ClampMerged
  <2>4. Good(of[kind], 1)
    <3>1. \A m \in of[kind] : m.from \in Int /\ m.to \in Int
      BY <2>3 DEF Good, Intervals
    <3> QED
      BY <1>2, <2>3, <3>1 DEF Good
  <2>5. \A x \in 0..Duration - 1 : In(x, of[kind]) <=> Lasting(ms, keepSuite, kind, x)
    BY <1>4, <2>2, <2>3 DEF Lasting, SpansOf, MinOf
  <2> QED
    BY <2>4, <2>5
<1> QED
  BY <1>3, <1>4

(* The mode of an instant. *)
Mode(ms, policy, x) ==
  LET keepSuite == SuitesCut(ms, policy)
  IN  IF Lasting(ms, keepSuite, "loading", x) THEN "cut"
      ELSE IF Lasting(ms, keepSuite, "highlight", x)
      THEN IF policy.highlight THEN "highlight" ELSE "idle"
      ELSE IF policy.walk /\ Lasting(ms, keepSuite, "walk", x) THEN "walk" ELSE "idle"

(* The mode that is asked for, by what lasts at an instant.                *)
LEMMA AskedForIs ==
  ASSUME NEW ms, NEW policy, NEW x \in 0..Duration - 1
  PROVE  AskedFor(ms, policy)[x] = Mode(ms, policy, x)
<1> DEFINE keep == SuitesCut(ms, policy)
           L(spans, minimum) == \E iv \in spans : Shows(iv, minimum, x)
           cut == MarkedSpans(ms, "loading", FALSE) \cup IF keep THEN SuiteCuts(ms) ELSE {}
           highlight == MarkedSpans(ms, "highlight", TRUE)
           walk == MarkedSpans(ms, "walk", TRUE)
<1>1. AskedFor(ms, policy)[x] =
        IF L(cut, MinCut) THEN "cut"
        ELSE IF L(highlight, MinInterval)
        THEN IF policy.highlight THEN "highlight" ELSE "idle"
        ELSE IF policy.walk /\ L(walk, MinInterval) THEN "walk" ELSE "idle"
  BY DEF AskedFor, SuiteCuts
<1>2. /\ Lasting(ms, keep, "loading", x) <=> L(cut, MinCut)
      /\ Lasting(ms, keep, "highlight", x) <=> L(highlight, MinInterval)
      /\ Lasting(ms, keep, "walk", x) <=> L(walk, MinInterval)
  BY DEF Lasting, SpansOf, MinOf, CutSpans
<1> HIDE DEF keep, L, cut, highlight, walk
<1> QED
  BY <1>1, <1>2 DEF Mode, keep

Tagged == [from : Int, to : Int, kind : Kinds]
SweepState == [start : Int, kind : Kinds \cup {None}, out : Seq(Tagged)]

(* Intervals one after the other, within the recording. *)
Disjoint(out) ==
  /\ out \in Seq(Tagged)
  /\ \A i \in 1..Len(out) : 0 <= out[i].from /\ out[i].from < out[i].to /\ out[i].to <= Duration
  /\ \A i, j \in 1..Len(out) : i < j => out[i].to <= out[j].from
Covered(out, x, kind) == \E i \in 1..Len(out) : Has(out[i], x) /\ out[i].kind = kind

(* A next interval. *)
LEMMA DisjointAppend ==
  ASSUME NEW out, Disjoint(out), NEW iv \in Tagged, 0 <= iv.from, iv.from < iv.to, iv.to <= Duration,
         \A i \in 1..Len(out) : out[i].to <= iv.from
  PROVE  /\ Disjoint(Append(out, iv))
         /\ \A i \in 1..Len(Append(out, iv)) : Append(out, iv)[i].to <= iv.to
         /\ \A x, kind : Covered(Append(out, iv), x, kind) <=> Covered(out, x, kind) \/ (Has(iv, x) /\ iv.kind = kind)
<1> DEFINE n == Len(out)
           long == Append(out, iv)
<1>1. out \in Seq(Tagged) /\ n \in Nat /\ iv.from \in Int /\ iv.to \in Int
  BY DEF Disjoint, Tagged
<1>2. \A i \in 1..n : out[i].from \in Int /\ out[i].to \in Int
  <2>1. \A i \in 1..n : out[i] \in Tagged
    BY <1>1
  <2> QED
    BY <2>1 DEF Tagged
<1>3. long \in Seq(Tagged) /\ Len(long) = n + 1 /\ long[n + 1] = iv /\ \A i \in 1..n : long[i] = out[i]
  BY <1>1, AppendProperties
<1>4. 1..n + 1 = (1..n) \cup {n + 1}
  BY <1>1
<1>5. /\ \A i \in 1..n : 0 <= out[i].from /\ out[i].from < out[i].to /\ out[i].to <= Duration
      /\ \A i, j \in 1..n : i < j => out[i].to <= out[j].from
      /\ \A i \in 1..n : out[i].to <= iv.from
  BY DEF Disjoint
<1> HIDE DEF n, long
<1>6. ASSUME NEW i \in 1..n + 1, NEW j \in 1..n + 1, i < j PROVE long[i].to <= long[j].from
  <2>1. i \in 1..n
    BY <1>1, <1>6
  <2>2. CASE j = n + 1
    BY <1>3, <1>5, <2>1, <2>2
  <2>3. CASE j # n + 1
    <3>1. j \in 1..n
      BY <1>4, <2>3
    <3> QED
      BY <1>3, <1>5, <1>6, <2>1, <3>1
  <2> QED
    BY <2>2, <2>3
<1>7. ASSUME NEW i \in 1..n + 1
      PROVE  0 <= long[i].from /\ long[i].from < long[i].to /\ long[i].to <= Duration /\ long[i].to <= iv.to
  <2>1. CASE i = n + 1
    BY <1>1, <1>3, <2>1
  <2>2. CASE i # n + 1
    <3>1. i \in 1..n
      BY <1>4, <2>2
    <3> QED
      BY <1>1, <1>2, <1>3, <1>5, <3>1
  <2> QED
    BY <2>1, <2>2
<1>8. Disjoint(long) /\ \A i \in 1..Len(long) : long[i].to <= iv.to
  BY <1>3, <1>6, <1>7 DEF Disjoint
<1>9. \A x, kind : Covered(long, x, kind) <=> Covered(out, x, kind) \/ (Has(iv, x) /\ iv.kind = kind)
  BY <1>3, <1>4 DEF Covered, n
<1> QED
  BY <1>8, <1>9 DEF long

LEMMA ActiveIs ==
  ASSUME NEW of, NEW t
  PROVE  /\ ActiveKind(of, t) \in Kinds \cup {None}
         /\ ActiveKind(of, t) = None <=> \A kind \in Kinds : ~In(t, of[kind])
<1>1. Kinds = {"loading", "highlight", "walk", "idle"} /\ None \notin Kinds
  BY TimelapseAssumption DEF Kinds
<1> QED
  BY <1>1 DEF ActiveKind

LEMMA SweepTyped ==
  ASSUME NEW acc \in SweepState, NEW t \in Int, NEW kind \in Kinds \cup {None}
  PROVE  Sweep(acc, t, kind) \in SweepState
<1>1. acc.start \in Int /\ acc.kind \in Kinds \cup {None} /\ acc.out \in Seq(Tagged)
  BY DEF SweepState
<1> DEFINE new == [from |-> acc.start, to |-> t, kind |-> acc.kind]
           more == IF acc.kind = None THEN acc.out ELSE Append(acc.out, new)
<1>2. more \in Seq(Tagged)
  <2>1. CASE acc.kind = None
    BY <1>1, <2>1
  <2>2. CASE acc.kind # None
    <3>1. new \in Tagged
      BY <1>1, <2>2 DEF Tagged
    <3> HIDE DEF new
    <3> QED
      BY <1>1, <2>2, <3>1, AppendProperties
  <2> QED
    BY <2>1, <2>2
<1>3. Sweep(acc, t, kind) = IF kind = acc.kind THEN acc ELSE [start |-> t, kind |-> kind, out |-> more]
  BY DEF Sweep
<1> HIDE DEF more
<1> QED
  BY <1>2, <1>3 DEF SweepState

LEMMA SweepingDoes ==
  ASSUME NEW of,
         NEW times \in Seq(Int),
         NEW g, g = Sweeping(of, times)
  PROVE  /\ Len(times) \in Nat /\ g \in [0..Len(times) -> SweepState] /\ g[0] = NotSwept
         /\ \A i \in 1..Len(times) : g[i] = Sweep(g[i - 1], times[i], ActiveKind(of, times[i]))
<1> DEFINE n == Len(times)
           V == SweepState
           NextOf(c, i) == Sweep(c, times[i], ActiveKind(of, times[i]))
           step == [i \in 1..n |-> [c \in V |-> NextOf(c, i)]]
<1>1. n \in Nat /\ NotSwept \in V
  BY DEF NotSwept, SweepState
<1>2. ASSUME NEW i \in 1..n, NEW c \in V PROVE NextOf(c, i) \in V
  <2>1. times[i] \in Int
    BY <1>1
  <2> QED
    BY <2>1, SweepTyped, ActiveIs
<1>3. step \in [1..n -> [V -> V]]
  <2> HIDE DEF NextOf, V
  <2> QED
    BY <1>2
<1>4. ASSUME NEW i \in 1..n, NEW c \in V PROVE step[i][c] = NextOf(c, i)
  OBVIOUS
<1>5. PICK f : Iterates(f, n, V, NotSwept, step)
  <2> HIDE DEF step, n, V
  <2> QED
    BY <1>1, <1>3, Recursion
<1>6. f = [i \in 0..n |-> IF i = 0 THEN NotSwept ELSE NextOf(f[i - 1], i)]
  <2> HIDE DEF step, n, V, NextOf
  <2>1. ASSUME NEW i \in 1..n PROVE f[i] = NextOf(f[i - 1], i)
    <3>1. i - 1 \in 0..n
      BY <1>1
    <3> QED
      BY <1>4, <1>5, <3>1 DEF Iterates
  <2> QED
    BY <1>1, <1>5, <2>1 DEF Iterates
<1>7. g = [i \in 0..n |-> IF i = 0 THEN NotSwept ELSE NextOf(g[i - 1], i)]
  BY <1>6 DEF Sweeping
<1> HIDE DEF step, n, V, NextOf
<1>8. ASSUME NEW i \in 0..n PROVE g[i] = IF i = 0 THEN NotSwept ELSE NextOf(g[i - 1], i)
  BY <1>7
<1>9. g[0] = NotSwept /\ \A i \in 1..n : g[i] = NextOf(g[i - 1], i)
  BY <1>1, <1>8
<1>10. \A i \in 0..n : f[i] = g[i]
  <2>1. f[0] = g[0]
    BY <1>1, <1>6, <1>9
  <2>2. ASSUME NEW i \in 1..n, f[i - 1] = g[i - 1] PROVE f[i] = g[i]
    <3>1. f[i] = NextOf(f[i - 1], i)
      BY <1>1, <1>6
    <3> QED
      BY <1>9, <2>2, <3>1
  <2> QED
    BY <1>1, <2>1, <2>2, SameIterates
<1>11. g \in [0..n -> V]
  BY <1>5, <1>7, <1>10 DEF Iterates
<1> QED
  BY <1>1, <1>9, <1>11 DEF n, V, NextOf

GoodKinds(of) == \A kind \in Kinds : Good(of[kind], 1)

(* The edges of the intervals are in the recording.                        *)
LEMMA EdgesAre ==
  ASSUME NEW of, GoodKinds(of)
  PROVE  /\ Edges(of) \in SUBSET (0..Duration) /\ IsFiniteSet(Edges(of))
         /\ \A kind \in Kinds : \A iv \in of[kind] : iv.from \in Edges(of) /\ iv.to \in Edges(of)
<1>1. Duration \in Nat
  BY TimelapseAssumption
<1>2. \A kind \in Kinds : \A iv \in of[kind] : iv.from \in 0..Duration /\ iv.to \in 0..Duration
  <2> SUFFICES ASSUME NEW kind \in Kinds, NEW iv \in of[kind]
               PROVE  iv.from \in 0..Duration /\ iv.to \in 0..Duration
    OBVIOUS
  <2>1. Good(of[kind], 1)
    BY DEF GoodKinds
  <2>2. iv.from \in Int /\ iv.to \in Int /\ 0 <= iv.from /\ iv.to <= Duration /\ iv.to - iv.from >= 1
    BY <2>1 DEF Good, Intervals
  <2> QED
    BY <1>1, <2>2
<1>3. \A e : e \in Edges(of) <=> \E kind \in Kinds : \E iv \in of[kind] : e = iv.from \/ e = iv.to
  BY DEF Edges
<1>4. Edges(of) \in SUBSET (0..Duration)
  BY <1>2, <1>3
<1>5. IsFiniteSet(0..Duration)
  BY <1>1, FS_Interval
<1>6. IsFiniteSet(Edges(of))
  BY <1>4, <1>5, FS_Subset
<1> QED
  BY <1>3, <1>4, <1>6

(* Between edges nothing changes. *)
LEMMA Steady ==
  ASSUME NEW of, GoodKinds(of), NEW x \in Int, NEW y \in Int, x <= y,
         \A e \in Edges(of) : e <= x \/ y < e
  PROVE  ActiveKind(of, x) = ActiveKind(of, y)
<1>1. ASSUME NEW kind \in Kinds PROVE In(x, of[kind]) <=> In(y, of[kind])
  <2>1. ASSUME NEW iv \in of[kind]
        PROVE  (iv.from <= x /\ x < iv.to) <=> (iv.from <= y /\ y < iv.to)
    <3>1. iv.from \in Edges(of) /\ iv.to \in Edges(of) /\ Edges(of) \in SUBSET Int
      BY EdgesAre
    <3>2. iv.from \in Int /\ iv.to \in Int /\ (iv.from <= x \/ y < iv.from) /\ (iv.to <= x \/ y < iv.to)
      BY <3>1
    <3> QED
      BY <3>2
  <2> QED
    BY <2>1 DEF In
<1>2. "loading" \in Kinds /\ "highlight" \in Kinds /\ "walk" \in Kinds /\ "idle" \in Kinds
  BY DEF Kinds
<1> QED
  BY <1>1, <1>2 DEF ActiveKind

(* Before the edges that are still to come. *)
Quiet(times, k, x) == \A j \in k + 1..Len(times) : x < times[j]

SweptUpto(of, times, k, acc) ==
  /\ Disjoint(acc.out) /\ 0 <= acc.start
  /\ \A i \in 1..Len(acc.out) : acc.out[i].to <= acc.start
  /\ \A j \in k + 1..Len(times) : acc.start <= times[j] /\ (acc.kind # None => acc.start < times[j])
  /\ \A x \in Int : acc.start <= x /\ Quiet(times, k, x) => ActiveKind(of, x) = acc.kind
  /\ \A x \in Int, kind \in Kinds : x < acc.start => (Covered(acc.out, x, kind) <=> ActiveKind(of, x) = kind)

TimesOf(of, times) ==
  /\ times \in Seq(Int)
  /\ \A i, j \in 1..Len(times) : i < j => times[i] < times[j]
  /\ \A i \in 1..Len(times) : times[i] \in 0..Duration
  /\ \A e \in Edges(of) : \E i \in 1..Len(times) : times[i] = e

(* Before the first mark nothing is tagged.                                *)
LEMMA NoneBefore ==
  ASSUME NEW of, GoodKinds(of), NEW x \in Int, (\A e \in Edges(of) : x < e) \/ Duration <= x \/ x < 0
  PROVE  ActiveKind(of, x) = None
<1>1. ASSUME NEW kind \in Kinds PROVE ~In(x, of[kind])
  <2>1. ASSUME NEW iv \in of[kind], iv.from <= x, x < iv.to PROVE FALSE
    <3>1. iv.from \in Edges(of) /\ Good(of[kind], 1)
      BY EdgesAre DEF GoodKinds
    <3>2. iv.from \in Int /\ iv.to \in Int /\ 0 <= iv.from /\ iv.to <= Duration /\ Duration \in Int
      BY <3>1, TimelapseAssumption DEF Good, Intervals
    <3> QED
      BY <2>1, <3>1, <3>2
  <2> QED
    BY <2>1 DEF In
<1> QED
  BY <1>1, ActiveIs

(* One more edge: what is swept so far is tagged with what prevails.       *)
LEMMA SweptStep ==
  ASSUME NEW of, GoodKinds(of), NEW times, TimesOf(of, times), NEW k \in 1..Len(times),
         NEW acc \in SweepState, SweptUpto(of, times, k - 1, acc)
  PROVE  SweptUpto(of, times, k, Sweep(acc, times[k], ActiveKind(of, times[k])))
<1> DEFINE n == Len(times)
           A(x) == ActiveKind(of, x)
           t == times[k]
           next == Sweep(acc, t, A(t))
           new == [from |-> acc.start, to |-> t, kind |-> acc.kind]
           more == IF acc.kind = None THEN acc.out ELSE Append(acc.out, new)
<1>1. /\ times \in Seq(Int) /\ n \in Nat /\ t \in Int /\ 0 <= t /\ t <= Duration /\ Duration \in Int
      /\ k \in Int /\ k \in k..n /\ k \in k - 1 + 1..n
  <2>1. t \in 0..Duration /\ Duration \in Int
    BY TimelapseAssumption DEF TimesOf
  <2> QED
    BY <2>1 DEF TimesOf
<1>2. \A j \in k + 1..n : t < times[j] /\ times[j] \in Int /\ j \in k - 1 + 1..n
  <2>1. \A j \in k + 1..n : j \in 1..n /\ k < j /\ j \in k - 1 + 1..n
    BY <1>1
  <2> QED
    BY <1>1, <2>1 DEF TimesOf
<1>3. acc.start \in Int /\ acc.kind \in Kinds \cup {None} /\ acc.out \in Seq(Tagged)
  BY DEF SweepState
<1>4. /\ Disjoint(acc.out) /\ 0 <= acc.start
      /\ \A i \in 1..Len(acc.out) : acc.out[i].to <= acc.start
      /\ acc.start <= t /\ (acc.kind # None => acc.start < t)
      /\ \A x \in Int : acc.start <= x /\ Quiet(times, k - 1, x) => A(x) = acc.kind
      /\ \A x \in Int, kind \in Kinds : x < acc.start => (Covered(acc.out, x, kind) <=> A(x) = kind)
  BY <1>1 DEF SweptUpto
<1>5. ASSUME NEW x \in Int, x < t PROVE Quiet(times, k - 1, x)
  <2>1. \A j \in k - 1 + 1..n : j = k \/ j \in k + 1..n
    BY <1>1
  <2>2. \A j \in k - 1 + 1..n : x < times[j]
    BY <1>1, <1>2, <1>5, <2>1
  <2> QED
    BY <2>2 DEF Quiet
<1>6. ASSUME NEW x \in Int, t <= x, Quiet(times, k, x) PROVE A(x) = A(t)
  <2>1. ASSUME NEW e \in Edges(of) PROVE e <= t \/ x < e
    <3>1. PICK i \in 1..n : times[i] = e
      BY DEF TimesOf
    <3>2. CASE i < k
      <4>1. times[i] < t /\ times[i] \in Int
        BY <1>1, <3>2 DEF TimesOf
      <4> QED
        BY <1>1, <3>1, <4>1
    <3>3. CASE i = k
      BY <1>1, <3>1, <3>3
    <3>4. CASE i > k
      <4>1. i \in k + 1..n
        BY <1>1, <3>4
      <4> QED
        BY <1>6, <3>1, <4>1 DEF Quiet
    <3> QED
      BY <1>1, <3>2, <3>3, <3>4
  <2> QED
    BY <1>1, <1>6, <2>1, Steady
<1>7. next = IF A(t) = acc.kind THEN acc ELSE [start |-> t, kind |-> A(t), out |-> more]
  BY DEF Sweep
<1>8. A(t) \in Kinds \cup {None} /\ None \notin Kinds
  BY ActiveIs, TimelapseAssumption
<1> HIDE DEF next, A, t, n
<1>9. CASE A(t) = acc.kind
  <2>1. next = acc
    BY <1>7, <1>9
  <2>2. ASSUME NEW x \in Int, acc.start <= x, Quiet(times, k, x) PROVE A(x) = acc.kind
    <3>1. CASE x < t
      BY <1>4, <1>5, <2>2, <3>1
    <3>2. CASE t <= x
      BY <1>6, <1>9, <2>2, <3>2
    <3> QED
      BY <1>1, <3>1, <3>2
  <2>3. ASSUME NEW j \in k + 1..n PROVE acc.start <= times[j] /\ (acc.kind # None => acc.start < times[j])
    <3>1. t < times[j] /\ times[j] \in Int
      BY <1>2
    <3> QED
      BY <1>1, <1>3, <1>4, <3>1
  <2>4. SweptUpto(of, times, k, acc)
    BY <1>4, <2>2, <2>3 DEF SweptUpto, A, n
  <2> QED
    BY <2>1, <2>4 DEF next, A, t
<1>10. CASE A(t) # acc.kind
  <2>1. next.start = t /\ next.kind = A(t) /\ next.out = more
    BY <1>7, <1>10
  <2>2. ASSUME acc.kind # None
        PROVE  /\ new \in Tagged /\ new.from = acc.start /\ new.to = t /\ new.kind = acc.kind
               /\ acc.start < t
    BY <1>1, <1>3, <1>4, <2>2 DEF Tagged
  <2>3. ASSUME acc.kind # None
        PROVE  /\ Disjoint(more) /\ \A i \in 1..Len(more) : more[i].to <= t
               /\ \A x, kind : Covered(more, x, kind) <=>
                    Covered(acc.out, x, kind) \/ (acc.start <= x /\ x < t /\ acc.kind = kind)
    <3>1. /\ new \in Tagged /\ new.from = acc.start /\ new.to = t /\ new.kind = acc.kind
          /\ 0 <= new.from /\ new.from < new.to /\ new.to <= Duration
          /\ \A i \in 1..Len(acc.out) : acc.out[i].to <= new.from
      BY <1>1, <1>4, <2>2, <2>3
    <3>2. more = Append(acc.out, new)
      BY <2>3
    <3> HIDE DEF new, more
    <3>3. /\ Disjoint(Append(acc.out, new))
          /\ \A i \in 1..Len(Append(acc.out, new)) : Append(acc.out, new)[i].to <= new.to
          /\ \A x, kind : Covered(Append(acc.out, new), x, kind) <=>
               Covered(acc.out, x, kind) \/ (Has(new, x) /\ new.kind = kind)
      BY <1>4, <3>1, DisjointAppend
    <3> QED
      BY <3>1, <3>2, <3>3 DEF Has
  <2>4. \A i \in 1..Len(acc.out) : acc.out[i].to \in Int /\ acc.out[i].to <= t
    <3>1. \A i \in 1..Len(acc.out) : acc.out[i] \in Tagged
      BY <1>3
    <3>2. \A i \in 1..Len(acc.out) : acc.out[i].to \in Int
      BY <3>1 DEF Tagged
    <3>3. ASSUME NEW i \in 1..Len(acc.out) PROVE acc.out[i].to <= t
      <4>1. acc.out[i].to <= acc.start /\ acc.out[i].to \in Int /\ acc.start <= t
        BY <1>4, <3>2
      <4> QED
        BY <1>1, <1>3, <4>1
    <3> QED
      BY <3>2, <3>3
  <2>5. Disjoint(more) /\ \A i \in 1..Len(more) : more[i].to <= t
    <3>1. CASE acc.kind = None
      BY <1>4, <2>4, <3>1
    <3> HIDE DEF more
    <3> QED
      BY <2>3, <3>1
  <2>6. ASSUME NEW x \in Int, acc.start <= x, NEW kind PROVE ~Covered(acc.out, x, kind)
    <3>1. \A i \in 1..Len(acc.out) : ~Has(acc.out[i], x)
      BY <1>3, <1>4, <2>4, <2>6 DEF Has
    <3> QED
      BY <3>1 DEF Covered
  <2>7. ASSUME NEW x \in Int, NEW kind \in Kinds, x < t
        PROVE  Covered(more, x, kind) <=> A(x) = kind
    <3>1. CASE x < acc.start
      <4>1. Covered(acc.out, x, kind) <=> A(x) = kind
        BY <1>4, <3>1
      <4>2. Covered(more, x, kind) <=> Covered(acc.out, x, kind)
        <5>1. CASE acc.kind = None
          BY <5>1
        <5>2. CASE acc.kind # None
          <6> HIDE DEF more
          <6> QED
            BY <1>3, <2>3, <3>1, <5>2
        <5> QED
          BY <5>1, <5>2
      <4> QED
        BY <4>1, <4>2
    <3>2. CASE acc.start <= x
      <4>1. A(x) = acc.kind
        BY <1>4, <1>5, <2>7, <3>2
      <4>2. ~Covered(acc.out, x, kind)
        BY <2>6, <3>2
      <4>3. CASE acc.kind = None
        BY <1>8, <4>1, <4>2, <4>3
      <4>4. CASE acc.kind # None
        <5> HIDE DEF more
        <5> QED
          BY <2>3, <2>7, <3>2, <4>1, <4>2, <4>4
      <4> QED
        BY <4>3, <4>4
    <3> QED
      BY <1>3, <3>1, <3>2
  <2> HIDE DEF more
  <2>8. ASSUME NEW x \in Int, t <= x, Quiet(times, k, x) PROVE A(x) = A(t)
    BY <1>6, <2>8
  <2>9. \A j \in k + 1..n : t <= times[j] /\ t < times[j]
    BY <1>1, <1>2
  <2>10. SweptUpto(of, times, k, next)
    BY <1>1, <2>1, <2>5, <2>7, <2>8, <2>9 DEF SweptUpto, A, n
  <2> QED
    BY <2>10 DEF next, A, t
<1> QED
  BY <1>9, <1>10

(* computeMarkedIntervals, for all intervals of the four kinds: the sweep  *)
(* over the edges gives disjoint intervals in order, each instant tagged   *)
(* with the kind that prevails there and with no other.                    *)
THEOREM SweptAll ==
  ASSUME NEW of, GoodKinds(of), NEW out, out = Swept(of)
  PROVE  Disjoint(out) /\ \A x \in Int, kind \in Kinds : Covered(out, x, kind) <=> ActiveKind(of, x) = kind
<1> DEFINE edges == Edges(of)
           R == {p \in edges \X edges : p[1] < p[2]}
           times == Ranked(edges, R)
           n == Len(times)
           g == Sweeping(of, times)
           S == {k \in 0..n : SweptUpto(of, times, k, g[k])}
<1>1. edges \in SUBSET (0..Duration) /\ IsFiniteSet(edges) /\ Duration \in Nat
  BY EdgesAre, TimelapseAssumption
<1>2. edges \in SUBSET Int /\ \A e \in edges : e \in Int
  BY <1>1
<1>3. \A x, y \in edges : <<x, y>> \in R <=> x < y
  <2> HIDE DEF edges
  <2> QED
    OBVIOUS
<1> HIDE DEF edges, R
<1>4. /\ \A x \in edges : <<x, x>> \notin R
      /\ \A x, y \in edges : x # y => <<x, y>> \in R \/ <<y, x>> \in R
  BY <1>2, <1>3
<1>5. \A x, y, z \in edges : <<x, y>> \in R /\ <<y, z>> \in R => <<x, z>> \in R
  <2> SUFFICES ASSUME NEW x \in edges, NEW y \in edges, NEW z \in edges, <<x, y>> \in R, <<y, z>> \in R
               PROVE  <<x, z>> \in R
    OBVIOUS
  <2>1. x < y /\ y < z /\ x \in Int /\ y \in Int /\ z \in Int
    BY <1>2, <1>3
  <2> QED
    BY <1>3, <2>1
<1>6. TimesOf(of, times)
  <2> DEFINE m == Cardinality(edges)
  <2>1. times = Ranked(edges, R) /\ m = Cardinality(edges)
    OBVIOUS
  <2> HIDE DEF times, m
  <2>2. Enumerates(times, m, edges, R)
    BY <1>1, <1>4, <1>5, <2>1, RankedOrder
  <2>3. times \in [1..m -> edges]
    BY <2>2 DEF Enumerates
  <2>4. times \in [1..m -> Int]
    BY <1>2, <2>3
  <2>5. times \in Seq(Int)
    BY <2>2, <2>4 DEF Enumerates
  <2> QED
    BY <1>1, <1>3, <2>2, <2>5 DEF TimesOf, edges, Enumerates
<1>7. out = g[n].out
  BY DEF Swept, times, edges, R
<1> HIDE DEF times
<1>8. n \in Nat /\ g \in [0..n -> SweepState] /\ g[0] = NotSwept
      /\ \A i \in 1..n : g[i] = Sweep(g[i - 1], times[i], ActiveKind(of, times[i]))
  <2>1. times \in Seq(Int)
    BY <1>6 DEF TimesOf
  <2>2. g = Sweeping(of, times)
    OBVIOUS
  <2> HIDE DEF g
  <2> QED
    BY <2>1, <2>2, SweepingDoes
<1> HIDE DEF g
<1>9. 0 \in S
  <2>1. NotSwept.start = 0 /\ NotSwept.kind = None /\ NotSwept.out = <<>>
    BY DEF NotSwept
  <2>2. <<>> \in Seq(Tagged) /\ Len(<<>>) = 0 /\ 1..0 = {}
    OBVIOUS
  <2>3. Disjoint(<<>>)
    BY <2>2 DEF Disjoint
  <2>4. ASSUME NEW x, NEW kind PROVE ~Covered(<<>>, x, kind)
    BY <2>2 DEF Covered
  <2>5. ASSUME NEW x \in Int, 0 <= x, Quiet(times, 0, x) PROVE ActiveKind(of, x) = None
    <3>1. 0 + 1..Len(times) = 1..Len(times)
      OBVIOUS
    <3>2. \A e \in Edges(of) : x < e
      BY <1>6, <2>5, <3>1 DEF TimesOf, Quiet
    <3> QED
      BY <3>2, NoneBefore
  <2>6. ASSUME NEW x \in Int, NEW kind \in Kinds, x < 0
        PROVE  Covered(<<>>, x, kind) <=> ActiveKind(of, x) = kind
    <3>1. ActiveKind(of, x) = None /\ None \notin Kinds
      BY <2>6, NoneBefore, TimelapseAssumption
    <3> QED
      BY <2>4, <3>1
  <2>7. \A j \in 0 + 1..Len(times) : 0 <= times[j]
    <3>1. 0 + 1..Len(times) = 1..Len(times)
      OBVIOUS
    <3>2. \A j \in 1..Len(times) : times[j] \in 0..Duration
      BY <1>6 DEF TimesOf
    <3> QED
      BY <1>1, <3>1, <3>2
  <2>8. SweptUpto(of, times, 0, NotSwept)
    BY <2>1, <2>2, <2>3, <2>5, <2>6, <2>7 DEF SweptUpto
  <2> QED
    BY <1>8, <2>8
<1>10. ASSUME NEW i \in 0 + 1..n, i - 1 \in S PROVE i \in S
  <2>1. i \in 1..n /\ i \in 0..n /\ i - 1 \in 0..n
    BY <1>8
  <2>2. /\ g[i - 1] \in SweepState /\ SweptUpto(of, times, i - 1, g[i - 1])
        /\ g[i] = Sweep(g[i - 1], times[i], ActiveKind(of, times[i]))
    BY <1>8, <1>10, <2>1
  <2>3. SweptUpto(of, times, i, g[i])
    BY <1>6, <2>1, <2>2, SweptStep
  <2> QED
    BY <2>1, <2>3
<1>11. 0..n \subseteq S
  <2> HIDE DEF S, n
  <2> QED
    BY <1>8, <1>9, <1>10, Induction
<1>12. n \in 0..n
  BY <1>8
<1> DEFINE acc == g[n]
<1>13. SweptUpto(of, times, n, acc) /\ acc \in SweepState
  BY <1>8, <1>11, <1>12
<1> HIDE DEF acc
<1>14. out = acc.out /\ acc.start \in Int /\ acc.out \in Seq(Tagged)
  BY <1>7, <1>13 DEF acc, SweepState
<1>15. ASSUME NEW x \in Int, acc.start <= x PROVE ActiveKind(of, x) = acc.kind
  <2>1. Quiet(times, n, x)
    <3>1. n + 1..Len(times) = {}
      BY <1>8
    <3> QED
      BY <3>1 DEF Quiet
  <2> QED
    BY <1>13, <1>15, <2>1 DEF SweptUpto
<1>16. acc.kind = None
  <2> DEFINE x == Most(acc.start, Duration)
  <2>1. x \in Int /\ acc.start <= x /\ Duration <= x
    BY <1>1, <1>14 DEF Most
  <2> HIDE DEF x
  <2>2. ActiveKind(of, x) = None
    BY <2>1, NoneBefore
  <2> QED
    BY <1>15, <2>1, <2>2
<1>17. ASSUME NEW x \in Int, NEW kind \in Kinds PROVE Covered(out, x, kind) <=> ActiveKind(of, x) = kind
  <2>1. CASE x < acc.start
    BY <1>13, <1>14, <2>1 DEF SweptUpto
  <2>2. CASE acc.start <= x
    <3>1. ActiveKind(of, x) # kind
      BY <1>15, <1>16, <2>2, TimelapseAssumption
    <3>2. ASSUME NEW i \in 1..Len(acc.out) PROVE ~Has(acc.out[i], x)
      <4>1. acc.out[i] \in Tagged
        BY <1>14
      <4>2. acc.out[i].to \in Int /\ acc.out[i].to <= acc.start
        BY <1>13, <4>1 DEF SweptUpto, Tagged
      <4> QED
        BY <1>14, <2>2, <4>2 DEF Has
    <3> QED
      BY <1>14, <3>1, <3>2 DEF Covered
  <2> QED
    BY <1>14, <2>1, <2>2
<1> QED
  BY <1>13, <1>14, <1>17 DEF SweptUpto

Keeps(policy, kind) == kind = "loading" \/ policy[kind]

LEMMA KeepTyped ==
  ASSUME NEW c \in Seq(Tagged), NEW iv \in Tagged, NEW policy
  PROVE  Keep(c, iv, policy) \in Seq(Tagged)
<1>1. Append(c, iv) \in Seq(Tagged)
  BY AppendProperties
<1> QED
  BY <1>1 DEF Keep

LEMMA KeepingDoes ==
  ASSUME NEW s \in Seq(Tagged),
         NEW policy,
         NEW g, g = Keeping(s, policy)
  PROVE  /\ Len(s) \in Nat /\ g \in [0..Len(s) -> Seq(Tagged)] /\ g[0] = <<>>
         /\ \A i \in 1..Len(s) : g[i] = Keep(g[i - 1], s[i], policy)
<1> DEFINE n == Len(s)
           V == Seq(Tagged)
           NextOf(c, i) == Keep(c, s[i], policy)
           step == [i \in 1..n |-> [c \in V |-> NextOf(c, i)]]
<1>1. n \in Nat /\ <<>> \in V
  OBVIOUS
<1>2. ASSUME NEW i \in 1..n, NEW c \in V PROVE NextOf(c, i) \in V
  <2>1. s[i] \in Tagged
    BY <1>1
  <2> QED
    BY <2>1, KeepTyped
<1>3. step \in [1..n -> [V -> V]]
  <2> HIDE DEF NextOf, V
  <2> QED
    BY <1>2
<1>4. ASSUME NEW i \in 1..n, NEW c \in V PROVE step[i][c] = NextOf(c, i)
  OBVIOUS
<1>5. PICK f : Iterates(f, n, V, <<>>, step)
  <2> HIDE DEF step, n, V
  <2> QED
    BY <1>1, <1>3, Recursion
<1>6. f = [i \in 0..n |-> IF i = 0 THEN <<>> ELSE NextOf(f[i - 1], i)]
  <2> HIDE DEF step, n, V, NextOf
  <2>1. ASSUME NEW i \in 1..n PROVE f[i] = NextOf(f[i - 1], i)
    <3>1. i - 1 \in 0..n
      BY <1>1
    <3> QED
      BY <1>4, <1>5, <3>1 DEF Iterates
  <2> QED
    BY <1>1, <1>5, <2>1 DEF Iterates
<1>7. g = [i \in 0..n |-> IF i = 0 THEN <<>> ELSE NextOf(g[i - 1], i)]
  BY <1>6 DEF Keeping
<1> HIDE DEF step, n, V, NextOf
<1>8. ASSUME NEW i \in 0..n PROVE g[i] = IF i = 0 THEN <<>> ELSE NextOf(g[i - 1], i)
  BY <1>7
<1>9. g[0] = <<>> /\ \A i \in 1..n : g[i] = NextOf(g[i - 1], i)
  BY <1>1, <1>8
<1>10. \A i \in 0..n : f[i] = g[i]
  <2>1. f[0] = g[0]
    BY <1>1, <1>6, <1>9
  <2>2. ASSUME NEW i \in 1..n, f[i - 1] = g[i - 1] PROVE f[i] = g[i]
    <3>1. f[i] = NextOf(f[i - 1], i)
      BY <1>1, <1>6
    <3> QED
      BY <1>9, <2>2, <3>1
  <2> QED
    BY <1>1, <2>1, <2>2, SameIterates
<1>11. g \in [0..n -> V]
  BY <1>5, <1>7, <1>10 DEF Iterates
<1> QED
  BY <1>1, <1>9, <1>11 DEF n, V, NextOf

(* What holds of the first intervals that are kept. *)
KeptUpto(s, policy, k, u) ==
  /\ Disjoint(u)
  /\ \A i \in 1..Len(u), j \in k + 1..Len(s) : u[i].to <= s[j].from
  /\ \A x, kind : Covered(u, x, kind) <=>
       \E i \in 1..Len(s) : i <= k /\ Has(s[i], x) /\ s[i].kind = kind /\ Keeps(policy, kind)

(* One more interval.                                                      *)
LEMMA KeptStep ==
  ASSUME NEW s, Disjoint(s), NEW policy, NEW k \in 1..Len(s), NEW u, KeptUpto(s, policy, k - 1, u)
  PROVE  KeptUpto(s, policy, k, Keep(u, s[k], policy))
<1> DEFINE n == Len(s)
           iv == s[k]
           next == Keep(u, iv, policy)
<1>1. s \in Seq(Tagged) /\ n \in Nat /\ k \in 1..n /\ k \in Int /\ k \in k - 1 + 1..n /\ u \in Seq(Tagged)
  BY DEF Disjoint, KeptUpto
<1>2. \A j \in 1..n : s[j] \in Tagged /\ s[j].from \in Int /\ s[j].to \in Int
  <2>1. \A j \in 1..n : s[j] \in Tagged
    BY <1>1
  <2> QED
    BY <2>1 DEF Tagged
<1>3. /\ \A j \in 1..n : 0 <= s[j].from /\ s[j].from < s[j].to /\ s[j].to <= Duration
      /\ \A i, j \in 1..n : i < j => s[i].to <= s[j].from
  BY DEF Disjoint
<1>4. iv \in Tagged /\ 0 <= iv.from /\ iv.from < iv.to /\ iv.to <= Duration /\ iv.from \in Int /\ iv.to \in Int
  BY <1>1, <1>2, <1>3
<1>5. /\ Disjoint(u)
      /\ \A i \in 1..Len(u), j \in k - 1 + 1..n : u[i].to <= s[j].from
      /\ \A x, kind : Covered(u, x, kind) <=>
           \E i \in 1..n : i <= k - 1 /\ Has(s[i], x) /\ s[i].kind = kind /\ Keeps(policy, kind)
  BY DEF KeptUpto
<1>6. \A j \in k + 1..n : j \in 1..n /\ k < j /\ j \in k - 1 + 1..n
  BY <1>1
<1>7. \A i \in 1..Len(u) : u[i].to <= iv.from
  BY <1>1, <1>5
<1>8. ASSUME NEW x, NEW kind
      PROVE  (\E i \in 1..n : i <= k /\ Has(s[i], x) /\ s[i].kind = kind /\ Keeps(policy, kind))
               <=> Covered(u, x, kind) \/ (Has(iv, x) /\ iv.kind = kind /\ Keeps(policy, kind))
  <2>1. \A i \in 1..n : i <= k <=> i <= k - 1 \/ i = k
    BY <1>1
  <2> QED
    BY <1>1, <1>5, <2>1
<1>9. next = IF Keeps(policy, iv.kind) THEN Append(u, iv) ELSE u
  BY DEF Keep, Keeps
<1> HIDE DEF next, iv, n
<1>10. CASE Keeps(policy, iv.kind)
  <2>1. /\ Disjoint(next)
        /\ \A i \in 1..Len(next) : next[i].to <= iv.to
        /\ \A x, kind : Covered(next, x, kind) <=> Covered(u, x, kind) \/ (Has(iv, x) /\ iv.kind = kind)
    <3>1. next = Append(u, iv)
      BY <1>9, <1>10
    <3>2. /\ Disjoint(Append(u, iv))
          /\ \A i \in 1..Len(Append(u, iv)) : Append(u, iv)[i].to <= iv.to
          /\ \A x, kind : Covered(Append(u, iv), x, kind) <=> Covered(u, x, kind) \/ (Has(iv, x) /\ iv.kind = kind)
      BY <1>4, <1>5, <1>7, DisjointAppend
    <3> QED
      BY <3>1, <3>2
  <2>2. ASSUME NEW i \in 1..Len(next), NEW j \in k + 1..n PROVE next[i].to <= s[j].from
    <3>1. next[i].to <= iv.to /\ iv.to <= s[j].from /\ s[j].from \in Int
      BY <1>1, <1>2, <1>3, <1>6, <2>1 DEF iv
    <3>2. next[i] \in Tagged
      BY <2>1 DEF Disjoint
    <3>3. next[i].to \in Int
      BY <3>2 DEF Tagged
    <3> QED
      BY <1>4, <3>1, <3>3
  <2>3. ASSUME NEW x, NEW kind
        PROVE  Covered(next, x, kind) <=>
                 \E i \in 1..n : i <= k /\ Has(s[i], x) /\ s[i].kind = kind /\ Keeps(policy, kind)
    BY <1>8, <1>10, <2>1
  <2>4. KeptUpto(s, policy, k, next)
    BY <2>1, <2>2, <2>3 DEF KeptUpto, n
  <2> QED
    BY <2>4 DEF next, iv
<1>11. CASE ~Keeps(policy, iv.kind)
  <2>1. next = u
    BY <1>9, <1>11
  <2>2. ASSUME NEW x, NEW kind
        PROVE  Covered(next, x, kind) <=>
                 \E i \in 1..n : i <= k /\ Has(s[i], x) /\ s[i].kind = kind /\ Keeps(policy, kind)
    BY <1>8, <1>11, <2>1
  <2>3. \A i \in 1..Len(next), j \in k + 1..n : next[i].to <= s[j].from
    BY <1>5, <1>6, <2>1
  <2>4. KeptUpto(s, policy, k, next)
    BY <1>5, <2>1, <2>2, <2>3 DEF KeptUpto, n
  <2> QED
    BY <2>4 DEF next, iv
<1> QED
  BY <1>10, <1>11

(* What is kept of the tagged intervals: those that are cut or have a      *)
(* factor of their own.                                                    *)
LEMMA KeptAll ==
  ASSUME NEW s, Disjoint(s), NEW policy, NEW u, u = Keeping(s, policy)[Len(s)]
  PROVE  /\ Disjoint(u)
         /\ \A x, kind : Covered(u, x, kind) <=> Covered(s, x, kind) /\ Keeps(policy, kind)
<1> DEFINE n == Len(s)
           g == Keeping(s, policy)
           S == {k \in 0..n : KeptUpto(s, policy, k, g[k])}
<1>0. s \in Seq(Tagged)
  BY DEF Disjoint
<1>1. n \in Nat /\ g[0] = <<>> /\ \A i \in 1..n : g[i] = Keep(g[i - 1], s[i], policy)
  BY <1>0, KeepingDoes
<1> HIDE DEF g
<1>2. 0 \in S
  <2>1. <<>> \in Seq(Tagged) /\ Len(<<>>) = 0 /\ 1..0 = {}
    OBVIOUS
  <2>2. Disjoint(<<>>)
    BY <2>1 DEF Disjoint
  <2>3. \A x, kind : ~Covered(<<>>, x, kind)
    BY <2>1 DEF Covered
  <2>4. \A i \in 1..n : ~(i <= 0)
    BY <1>1
  <2>5. KeptUpto(s, policy, 0, <<>>)
    BY <2>1, <2>2, <2>3, <2>4 DEF KeptUpto
  <2> QED
    BY <1>1, <2>5
<1>3. ASSUME NEW i \in 0 + 1..n, i - 1 \in S PROVE i \in S
  <2>1. i \in 1..n /\ i \in 0..n /\ i - 1 \in 0..n
    BY <1>1
  <2>2. KeptUpto(s, policy, i - 1, g[i - 1]) /\ g[i] = Keep(g[i - 1], s[i], policy)
    BY <1>1, <1>3, <2>1
  <2>3. KeptUpto(s, policy, i, g[i])
    BY <2>1, <2>2, KeptStep
  <2> QED
    BY <2>1, <2>3
<1>4. 0..n \subseteq S
  <2> HIDE DEF S, n
  <2> QED
    BY <1>1, <1>2, <1>3, Induction
<1>5. n \in 0..n /\ \A i \in 1..n : i <= n
  BY <1>1
<1>6. KeptUpto(s, policy, n, u)
  <2>1. u = g[n]
    BY DEF g
  <2> QED
    BY <1>4, <1>5, <2>1
<1> HIDE DEF n
<1>7. ASSUME NEW x, NEW kind PROVE Covered(u, x, kind) <=> Covered(s, x, kind) /\ Keeps(policy, kind)
  <2>1. Covered(u, x, kind) <=>
          \E i \in 1..Len(s) : i <= n /\ Has(s[i], x) /\ s[i].kind = kind /\ Keeps(policy, kind)
    BY <1>6 DEF KeptUpto
  <2>2. Covered(s, x, kind) <=> \E i \in 1..Len(s) : Has(s[i], x) /\ s[i].kind = kind
    BY DEF Covered
  <2> QED
    BY <1>5, <2>1, <2>2 DEF n
<1> QED
  BY <1>6, <1>7 DEF KeptUpto

Without(S, s, i, r) ==
  /\ r \in Seq(S) /\ Len(r) = Len(s) - 1
  /\ \A j \in 1..Len(s) - 1 : r[j] = IF j < i THEN s[j] ELSE s[j + 1]

(* A sequence without one of its elements.                                 *)
LEMMA Removed ==
  ASSUME NEW S, NEW s \in Seq(S), NEW i \in 1..Len(s)
  PROVE  Without(S, s, i, RemoveAt(s, i))
<1> DEFINE n == Len(s)
           before == SubSeq(s, 1, i - 1)
           after == SubSeq(s, i + 1, n)
           r == RemoveAt(s, i)
<1>1. n \in Nat /\ i \in Int /\ 1 <= i /\ i <= n /\ \A j \in 1..n : s[j] \in S
  OBVIOUS
<1>2. before \in Seq(S) /\ Len(before) = i - 1 /\ \A j \in 1..i - 1 : before[j] = s[j]
  <2>1. i - 1 \in Int /\ 1 \in Int /\ \A j \in 1..i - 1 : s[j] \in S
    BY <1>1
  <2>2. /\ before \in Seq(S) /\ Len(before) = IF 1 <= i - 1 THEN i - 1 - 1 + 1 ELSE 0
        /\ \A j \in 1..i - 1 - 1 + 1 : before[j] = s[1 + j - 1]
    BY <2>1, SubSeqProperties
  <2>3. i - 1 - 1 + 1 = i - 1 /\ (~(1 <= i - 1) => i - 1 = 0) /\ \A j \in 1..i - 1 : 1 + j - 1 = j
    BY <1>1
  <2> HIDE DEF before
  <2> QED
    BY <2>2, <2>3
<1>3. after \in Seq(S) /\ Len(after) = n - i /\ \A j \in 1..n - i : after[j] = s[i + j]
  <2>1. i + 1 \in Int /\ n \in Int /\ \A j \in i + 1..n : s[j] \in S
    BY <1>1
  <2>2. /\ after \in Seq(S) /\ Len(after) = IF i + 1 <= n THEN n - (i + 1) + 1 ELSE 0
        /\ \A j \in 1..n - (i + 1) + 1 : after[j] = s[i + 1 + j - 1]
    BY <2>1, SubSeqProperties
  <2>3. n - (i + 1) + 1 = n - i /\ (~(i + 1 <= n) => n - i = 0) /\ \A j \in 1..n - i : i + 1 + j - 1 = i + j
    BY <1>1
  <2> HIDE DEF after, n
  <2> QED
    BY <2>2, <2>3
<1>4. r = before \o after
  BY DEF RemoveAt
<1> HIDE DEF before, after, r
<1>5. /\ r \in Seq(S) /\ Len(r) = Len(before) + Len(after)
      /\ \A j \in 1..Len(before) + Len(after) :
           r[j] = IF j <= Len(before) THEN before[j] ELSE after[j - Len(before)]
  <2>1. /\ before \o after \in Seq(S) /\ Len(before \o after) = Len(before) + Len(after)
        /\ \A j \in 1..Len(before) + Len(after) :
             (before \o after)[j] = IF j <= Len(before) THEN before[j] ELSE after[j - Len(before)]
    BY <1>2, <1>3, ConcatProperties
  <2> QED
    BY <1>4, <2>1
<1>6. Len(before) + Len(after) = n - 1
  BY <1>1, <1>2, <1>3
<1> HIDE DEF n
<1>7. ASSUME NEW j \in 1..n - 1 PROVE r[j] = IF j < i THEN s[j] ELSE s[j + 1]
  <2>1. r[j] = IF j <= i - 1 THEN before[j] ELSE after[j - (i - 1)]
    BY <1>2, <1>5, <1>6
  <2>2. CASE j < i
    <3>1. j <= i - 1 /\ j \in 1..i - 1
      BY <1>1, <2>2
    <3> QED
      BY <1>2, <2>1, <2>2, <3>1
  <2>3. CASE ~(j < i)
    <3>1. ~(j <= i - 1) /\ j - (i - 1) \in 1..n - i /\ i + (j - (i - 1)) = j + 1
      BY <1>1, <2>3
    <3> QED
      BY <1>3, <2>1, <2>3, <3>1
  <2> QED
    BY <2>2, <2>3
<1> QED
  BY <1>1, <1>5, <1>6, <1>7 DEF n, r, Without

(* The first of those with the least value.                                *)
LEMMA LeastThenFirst ==
  ASSUME NEW S \in SUBSET Nat, S # {}, NEW f, \A i \in S : f[i] \in Nat
  PROVE  \E i \in S : \A j \in S : f[i] < f[j] \/ (f[i] = f[j] /\ i <= j)
<1> DEFINE values == {v \in Nat : \E i \in S : f[i] = v}
<1>1. PICK v \in values : \A w \in values : v <= w
  <2>1. values \in SUBSET Nat /\ values # {}
    OBVIOUS
  <2> HIDE DEF values
  <2> QED
    BY <2>1, SmallestThere
<1> DEFINE at == {i \in S : f[i] = v}
<1>2. PICK i \in at : \A j \in at : i <= j
  <2>1. at \in SUBSET Nat /\ at # {}
    BY <1>1
  <2> HIDE DEF at
  <2> QED
    BY <2>1, SmallestThere
<1>3. ASSUME NEW j \in S PROVE f[i] < f[j] \/ (f[i] = f[j] /\ i <= j)
  <2>1. f[j] \in values /\ v \in Nat /\ f[j] \in Nat /\ f[i] = v
    BY <1>1, <1>2
  <2>2. v <= f[j]
    BY <1>1, <2>1
  <2>3. CASE f[j] = v
    <3>1. j \in at
      BY <2>3
    <3> QED
      BY <1>2, <2>1, <2>3, <3>1
  <2>4. CASE f[j] # v
    BY <2>1, <2>2, <2>4
  <2> QED
    BY <2>3, <2>4
<1> QED
  BY <1>2, <1>3

(* Played at a speed of its own. *)
Plays(out, x) == \E i \in 1..Len(out) : Has(out[i], x) /\ out[i].kind # "loading"

LEMMA DisjointFields ==
  ASSUME NEW out, Disjoint(out)
  PROVE  /\ out \in Seq(Tagged) /\ Len(out) \in Nat
         /\ \A i \in 1..Len(out) :
              /\ out[i] \in Tagged /\ out[i].from \in Int /\ out[i].to \in Int /\ out[i].kind \in Kinds
              /\ 0 <= out[i].from /\ out[i].from < out[i].to /\ out[i].to <= Duration
         /\ \A i, j \in 1..Len(out) : i < j => out[i].to <= out[j].from
<1>1. out \in Seq(Tagged)
  BY DEF Disjoint
<1>2. \A i \in 1..Len(out) : out[i] \in Tagged
  BY <1>1
<1> QED
  BY <1>1, <1>2 DEF Disjoint, Tagged

(* A cut is given up. *)
LEMMA CutDropped ==
  ASSUME NEW out, Disjoint(out), NEW i \in 1..Len(out), out[i].kind = "loading", NEW r, r = RemoveAt(out, i)
  PROVE  Disjoint(r) /\ \A x \in Int : Plays(out, x) => Plays(r, x)
<1> DEFINE n == Len(out)
<1>1. /\ out \in Seq(Tagged) /\ n \in Nat /\ i \in Int
      /\ \A k \in 1..n : 0 <= out[k].from /\ out[k].from < out[k].to /\ out[k].to <= Duration
      /\ \A k, j \in 1..n : k < j => out[k].to <= out[j].from
  BY DisjointFields
<1>2. r \in Seq(Tagged) /\ Len(r) = n - 1 /\ \A j \in 1..n - 1 : r[j] = IF j < i THEN out[j] ELSE out[j + 1]
  <2>1. Without(Tagged, out, i, r)
    BY <1>1, Removed
  <2> QED
    BY <2>1 DEF Without
<1>3. Disjoint(r)
  <2>1. ASSUME NEW k \in 1..n - 1
        PROVE  0 <= r[k].from /\ r[k].from < r[k].to /\ r[k].to <= Duration
    <3>1. k \in 1..n /\ k + 1 \in 1..n
      BY <1>1
    <3> QED
      BY <1>1, <1>2, <3>1
  <2>2. ASSUME NEW k \in 1..n - 1, NEW j \in 1..n - 1, k < j PROVE r[k].to <= r[j].from
    <3>1. k \in 1..n /\ k + 1 \in 1..n /\ j \in 1..n /\ j + 1 \in 1..n /\ k < j + 1 /\ k + 1 < j + 1
          /\ (j < i => k < i)
      BY <1>1, <2>2
    <3> HIDE DEF n
    <3> QED
      BY <1>1, <1>2, <2>2, <3>1
  <2> QED
    BY <1>2, <2>1, <2>2 DEF Disjoint
<1>4. ASSUME NEW x \in Int, Plays(out, x) PROVE Plays(r, x)
  <2>1. PICK j \in 1..n : Has(out[j], x) /\ out[j].kind # "loading"
    BY <1>4 DEF Plays
  <2>2. j # i
    BY <2>1
  <2>3. CASE j < i
    <3>1. j \in 1..n - 1 /\ r[j] = out[j]
      BY <1>1, <1>2, <2>3
    <3> QED
      BY <1>2, <2>1, <3>1 DEF Plays
  <2>4. CASE ~(j < i)
    <3>1. j - 1 \in 1..n - 1 /\ ~(j - 1 < i) /\ j - 1 + 1 = j
      BY <1>1, <2>2, <2>4
    <3>2. r[j - 1] = out[j]
      BY <1>2, <3>1
    <3> QED
      BY <1>2, <2>1, <3>1, <3>2 DEF Plays
  <2> QED
    BY <2>3, <2>4
<1> QED
  BY <1>3, <1>4

(* Two neighbours become one. *)
LEMMA NeighboursJoined ==
  ASSUME NEW out, Disjoint(out), NEW b \in 2..Len(out),
         (out[b - 1].kind = "loading") <=> (out[b].kind = "loading"),
         NEW kind \in {out[b - 1].kind, out[b].kind},
         NEW e, e = [out EXCEPT ![b - 1] = [from |-> @.from, to |-> out[b].to, kind |-> kind]],
         NEW r, r = RemoveAt(e, b)
  PROVE  Disjoint(r) /\ \A x \in Int : Plays(out, x) => Plays(r, x)
<1> DEFINE n == Len(out)
           new == [from |-> out[b - 1].from, to |-> out[b].to, kind |-> kind]
<1>1. /\ out \in Seq(Tagged) /\ n \in Nat /\ b \in Int
      /\ \A k \in 1..n :
           /\ out[k] \in Tagged /\ out[k].from \in Int /\ out[k].to \in Int /\ out[k].kind \in Kinds
           /\ 0 <= out[k].from /\ out[k].from < out[k].to /\ out[k].to <= Duration
      /\ \A k, j \in 1..n : k < j => out[k].to <= out[j].from
  BY DisjointFields
<1>2. b \in 1..n /\ b - 1 \in 1..n /\ b - 1 < b
  BY <1>1
<1>3. new \in Tagged /\ new.from = out[b - 1].from /\ new.to = out[b].to /\ new.kind = kind
  BY <1>1, <1>2 DEF Tagged
<1>4. e = [out EXCEPT ![b - 1] = new]
  OBVIOUS
<1>5. 0 <= new.from /\ new.from < new.to /\ new.to <= Duration
  <2>1. out[b - 1].to <= out[b].from
    BY <1>1, <1>2
  <2>2. /\ out[b - 1].from \in Int /\ out[b - 1].to \in Int /\ out[b].from \in Int /\ out[b].to \in Int
        /\ 0 <= out[b - 1].from /\ out[b - 1].from < out[b - 1].to /\ out[b].from < out[b].to /\ out[b].to <= Duration
    BY <1>1, <1>2
  <2> HIDE DEF new
  <2> QED
    BY <1>3, <2>1, <2>2
<1> HIDE DEF new
<1>6. e \in Seq(Tagged) /\ Len(e) = n /\ \A j \in 1..n : e[j] = IF j = b - 1 THEN new ELSE out[j]
  BY <1>1, <1>2, <1>3, <1>4, ExceptSeq
<1>7. /\ r \in Seq(Tagged) /\ Len(r) = n - 1 /\ \A j \in 1..n - 1 : r[j] = IF j < b THEN e[j] ELSE e[j + 1]
  <2>1. Without(Tagged, e, b, r)
    <3>1. b \in 1..Len(e)
      BY <1>2, <1>6
    <3> QED
      BY <1>6, <3>1, Removed
  <2> QED
    BY <1>6, <2>1 DEF Without
<1>8. \A j \in 1..n - 1 : r[j] = IF j < b - 1 THEN out[j] ELSE IF j = b - 1 THEN new ELSE out[j + 1]
  <2> SUFFICES ASSUME NEW j \in 1..n - 1
               PROVE  r[j] = IF j < b - 1 THEN out[j] ELSE IF j = b - 1 THEN new ELSE out[j + 1]
    OBVIOUS
  <2>1. j \in 1..n /\ j + 1 \in 1..n /\ (j < b <=> j < b - 1 \/ j = b - 1) /\ (~(j < b) => j + 1 # b - 1)
        /\ (j < b - 1 => j # b - 1)
    BY <1>1
  <2> HIDE DEF n
  <2> QED
    BY <1>6, <1>7, <2>1
<1> HIDE DEF n
<1>a. b - 1 \in 1..n - 1 /\ b - 1 \in Int
  BY <1>1, <1>2
<1>b. r[b - 1] = new
  <2>1. ~(b - 1 < b - 1)
    BY <1>1
  <2> QED
    BY <1>8, <1>a, <2>1
<1>c. \A j \in 1..n - 1 : j < b - 1 => r[j] = out[j]
  BY <1>8
<1>d. \A j \in 1..n - 1 : b - 1 < j => r[j] = out[j + 1]
  <2>1. \A j \in 1..n - 1 : b - 1 < j => ~(j < b - 1) /\ j # b - 1
    BY <1>1
  <2> QED
    BY <1>8, <2>1
<1>9. Disjoint(r)
  <2>1. ASSUME NEW k \in 1..n - 1
        PROVE  0 <= r[k].from /\ r[k].from < r[k].to /\ r[k].to <= Duration
    <3>1. k \in 1..n /\ k + 1 \in 1..n
      BY <1>1
    <3> QED
      BY <1>1, <1>5, <1>8, <3>1
  <2>2. ASSUME NEW k \in 1..n - 1, NEW j \in 1..n - 1, k < j PROVE r[k].to <= r[j].from
    <3>1. k \in 1..n /\ k + 1 \in 1..n /\ j \in 1..n /\ j + 1 \in 1..n /\ k < j + 1 /\ k + 1 < j + 1
      BY <1>1, <2>2
    <3>2. CASE j < b - 1
      <4>1. k < b - 1
        BY <1>1, <2>2, <3>2
      <4> QED
        BY <1>1, <1>8, <2>2, <3>1, <3>2, <4>1
    <3>3. CASE j = b - 1
      <4>1. k < b - 1
        BY <1>1, <2>2, <3>3
      <4>2. r[k] = out[k] /\ r[j] = new /\ out[k].to <= out[j].from
        <5>1. r[k] = out[k]
          BY <1>c, <4>1
        <5>2. r[j] = new
          BY <1>b, <3>3
        <5>3. out[k].to <= out[j].from
          BY <1>1, <2>2, <3>1
        <5> QED
          BY <5>1, <5>2, <5>3
      <4> QED
        BY <1>3, <3>3, <4>2
    <3>4. CASE ~(j < b - 1) /\ j # b - 1
      <4>1. r[j] = out[j + 1]
        BY <1>8, <3>4
      <4>2. CASE k < b - 1
        BY <1>1, <1>8, <3>1, <4>1, <4>2
      <4>3. CASE k = b - 1
        <5>1. r[k] = new
          BY <1>b, <4>3
        <5>2. b < j + 1
          BY <1>1, <2>2, <4>3
        <5> QED
          BY <1>1, <1>2, <1>3, <3>1, <4>1, <5>1, <5>2
      <4>4. CASE ~(k < b - 1) /\ k # b - 1
        BY <1>1, <1>8, <3>1, <4>1, <4>4
      <4> QED
        BY <4>2, <4>3, <4>4
    <3> QED
      BY <3>2, <3>3, <3>4
  <2> QED
    BY <1>7, <2>1, <2>2 DEF Disjoint
<1>10. ASSUME NEW x \in Int, Plays(out, x) PROVE Plays(r, x)
  <2>1. PICK j \in 1..n : Has(out[j], x) /\ out[j].kind # "loading"
    BY <1>10 DEF Plays, n
  <2>2. CASE j < b - 1
    <3>1. j \in 1..n - 1
      BY <1>1, <1>2, <2>2
    <3>2. r[j] = out[j]
      BY <1>c, <2>2, <3>1
    <3> QED
      BY <1>7, <2>1, <3>1, <3>2 DEF Plays
  <2>3. CASE j = b - 1 \/ j = b
    <3>1. b - 1 \in 1..n - 1 /\ r[b - 1] = new
      BY <1>a, <1>b
    <3>2. kind # "loading"
      BY <2>1, <2>3
    <3>3. Has(new, x)
      <4>1. /\ out[b - 1].from \in Int /\ out[b - 1].to \in Int /\ out[b].from \in Int /\ out[b].to \in Int
            /\ out[b - 1].from < out[b - 1].to /\ out[b].from < out[b].to /\ out[b - 1].to <= out[b].from
        BY <1>1, <1>2
      <4>2. out[b - 1].from <= out[b].from /\ out[b - 1].to <= out[b].to
        BY <4>1
      <4>3. CASE j = b - 1
        BY <1>3, <2>1, <4>1, <4>2, <4>3 DEF Has
      <4>4. CASE j = b
        BY <1>3, <2>1, <4>1, <4>2, <4>4 DEF Has
      <4> QED
        BY <2>3, <4>3, <4>4
    <3> QED
      BY <1>3, <1>7, <3>1, <3>2, <3>3 DEF Plays
  <2>4. CASE ~(j < b - 1) /\ j # b - 1 /\ j # b
    <3>1. j - 1 \in 1..n - 1 /\ ~(j - 1 < b - 1) /\ j - 1 # b - 1 /\ j - 1 + 1 = j
      BY <1>1, <1>2, <2>4
    <3>2. r[j - 1] = out[j]
      BY <1>8, <3>1
    <3> QED
      BY <1>7, <2>1, <3>1, <3>2 DEF Plays
  <2> QED
    BY <2>2, <2>3, <2>4
<1> QED
  BY <1>9, <1>10

(* One round of capping: nothing that plays at a speed of its own is lost. *)
LEMMA CapOnceKeeps ==
  ASSUME NEW out, Disjoint(out), 2 <= Len(out), NEW c, c = CapOnce(out)
  PROVE  Disjoint(c) /\ \A x \in Int : Plays(out, x) => Plays(c, x)
<1> DEFINE n == Len(out)
           pairs == {i \in 2..n : (out[i - 1].kind = "loading") <=> (out[i].kind = "loading")}
           Far == 2 * Duration
           score == [i \in pairs |-> out[i].from - out[i - 1].to
                                       + IF out[i].kind = out[i - 1].kind THEN 0 ELSE Far]
           best == CHOOSE i \in pairs :
                     \A j \in pairs : score[i] < score[j] \/ (score[i] = score[j] /\ i <= j)
           cuts == {i \in DOMAIN out : out[i].kind = "loading"}
           len == [i \in cuts |-> out[i].to - out[i].from]
           drop == CHOOSE i \in cuts : \A j \in cuts : len[i] < len[j] \/ (len[i] = len[j] /\ i <= j)
           winner == IF Rank[out[best].kind] > Rank[out[best - 1].kind]
                     THEN out[best].kind ELSE out[best - 1].kind
           joined == [out EXCEPT ![best - 1] = [from |-> @.from, to |-> out[best].to, kind |-> winner]]
<1>1. /\ out \in Seq(Tagged) /\ n \in Nat
      /\ \A k \in 1..n :
           /\ out[k] \in Tagged /\ out[k].from \in Int /\ out[k].to \in Int /\ out[k].kind \in Kinds
           /\ 0 <= out[k].from /\ out[k].from < out[k].to /\ out[k].to <= Duration
      /\ \A k, j \in 1..n : k < j => out[k].to <= out[j].from
  BY DisjointFields
<1>2. c = IF pairs = {} THEN RemoveAt(out, drop) ELSE RemoveAt(joined, best)
  BY DEF CapOnce
<1>3. 2 <= n /\ Duration \in Nat /\ DOMAIN out = 1..n
  BY <1>1, TimelapseAssumption
<1>4. CASE pairs = {}
  <2>1. drop \in cuts
    <3>1. cuts \in SUBSET Nat /\ cuts # {}
      <4>1. 2 \in 2..n /\ 1 \in 1..n /\ 2 \in 1..n /\ 2 - 1 = 1
        BY <1>1, <1>3
      <4>2. out[1].kind = "loading" \/ out[2].kind = "loading"
        BY <1>4, <4>1
      <4> QED
        BY <1>1, <1>3, <4>1, <4>2
    <3>2. \A i \in cuts : len[i] \in Nat
      BY <1>1, <1>3
    <3> HIDE DEF cuts, len
    <3>3. \E i \in cuts : \A j \in cuts : len[i] < len[j] \/ (len[i] = len[j] /\ i <= j)
      BY <3>1, <3>2, LeastThenFirst
    <3> QED
      BY <3>3
  <2>2. drop \in 1..n /\ out[drop].kind = "loading"
    BY <1>3, <2>1
  <2>3. c = RemoveAt(out, drop)
    BY <1>2, <1>4
  <2> HIDE DEF drop
  <2> QED
    BY <2>2, <2>3, CutDropped DEF n
<1>5. CASE pairs # {}
  <2>1. best \in pairs
    <3>1. pairs \in SUBSET Nat
      OBVIOUS
    <3>2. ASSUME NEW i \in pairs PROVE score[i] \in Nat
      <4>1. i \in 2..n /\ i - 1 \in 1..n /\ i \in 1..n /\ i - 1 < i
        BY <1>1
      <4>2. /\ out[i].from \in Int /\ out[i - 1].to \in Int /\ out[i - 1].to <= out[i].from
        BY <1>1, <4>1
      <4>3. Far \in Nat
        BY <1>3
      <4>4. score[i] = out[i].from - out[i - 1].to
                         + IF out[i].kind = out[i - 1].kind THEN 0 ELSE Far
        OBVIOUS
      <4> HIDE DEF score, Far
      <4> QED
        BY <4>2, <4>3, <4>4
    <3> HIDE DEF pairs, score
    <3>3. \E i \in pairs : \A j \in pairs : score[i] < score[j] \/ (score[i] = score[j] /\ i <= j)
      BY <1>5, <3>1, <3>2, LeastThenFirst
    <3> QED
      BY <3>3
  <2>2. best \in 2..n /\ ((out[best - 1].kind = "loading") <=> (out[best].kind = "loading"))
    <3> HIDE DEF best
    <3> QED
      BY <2>1
  <2>3. c = RemoveAt(joined, best)
    BY <1>2, <1>5
  <2>4. winner \in {out[best - 1].kind, out[best].kind}
    OBVIOUS
  <2> HIDE DEF best, winner
  <2>5. joined = [out EXCEPT ![best - 1] = [from |-> @.from, to |-> out[best].to, kind |-> winner]]
    OBVIOUS
  <2>6. best \in 2..Len(out)
    BY <2>2
  <2> HIDE DEF joined, n
  <2> QED
    BY <2>2, <2>3, <2>4, <2>5, <2>6, NeighboursJoined
<1> QED
  BY <1>4, <1>5

InOrderSeqs == {c \in Seq(Tagged) : Disjoint(c)}

(* A round that has nothing to do changes nothing.                         *)
LEMMA CappedKeeps ==
  ASSUME NEW out, Disjoint(out), NEW c, c = Capped(out)
  PROVE  /\ Disjoint(c) /\ \A x \in Int : Plays(out, x) => Plays(c, x)
         /\ Len(out) <= MaxFastIntervals => c = out
<1>1. CASE Len(out) <= MaxFastIntervals
  BY <1>1 DEF Capped
<1>2. CASE ~(Len(out) <= MaxFastIntervals)
  <2>1. 2 <= Len(out)
    <3>1. Len(out) \in Nat /\ MaxFastIntervals \in Nat \ {0}
      BY DisjointFields, TimelapseAssumption
    <3> QED
      BY <1>2, <3>1
  <2>2. c = CapOnce(out)
    BY <1>2 DEF Capped
  <2> QED
    BY <1>2, <2>1, <2>2, CapOnceKeeps
<1> QED
  BY <1>1, <1>2

LEMMA CappingDoes ==
  ASSUME NEW u, Disjoint(u),
         NEW g, g = Capping(u)
  PROVE  /\ Len(u) \in Nat /\ g \in [0..Len(u) -> InOrderSeqs] /\ g[0] = u
         /\ \A i \in 1..Len(u) : g[i] = Capped(g[i - 1])
<1> DEFINE n == Len(u)
           V == InOrderSeqs
           NextOf(c, i) == Capped(c)
           step == [i \in 1..n |-> [c \in V |-> NextOf(c, i)]]
<1>1. n \in Nat /\ u \in V
  BY DEF InOrderSeqs, Disjoint
<1>2. ASSUME NEW i \in 1..n, NEW c \in V PROVE NextOf(c, i) \in V
  BY CappedKeeps DEF InOrderSeqs, Disjoint
<1>3. step \in [1..n -> [V -> V]]
  <2> HIDE DEF NextOf, V
  <2> QED
    BY <1>2
<1>4. ASSUME NEW i \in 1..n, NEW c \in V PROVE step[i][c] = NextOf(c, i)
  OBVIOUS
<1>5. PICK f : Iterates(f, n, V, u, step)
  <2> HIDE DEF step, n, V
  <2> QED
    BY <1>1, <1>3, Recursion
<1>6. f = [i \in 0..n |-> IF i = 0 THEN u ELSE NextOf(f[i - 1], i)]
  <2> HIDE DEF step, n, V, NextOf
  <2>1. ASSUME NEW i \in 1..n PROVE f[i] = NextOf(f[i - 1], i)
    <3>1. i - 1 \in 0..n
      BY <1>1
    <3> QED
      BY <1>4, <1>5, <3>1 DEF Iterates
  <2> QED
    BY <1>1, <1>5, <2>1 DEF Iterates
<1>7. g = [i \in 0..n |-> IF i = 0 THEN u ELSE NextOf(g[i - 1], i)]
  BY <1>6 DEF Capping
<1> HIDE DEF step, n, V, NextOf
<1>8. ASSUME NEW i \in 0..n PROVE g[i] = IF i = 0 THEN u ELSE NextOf(g[i - 1], i)
  BY <1>7
<1>9. g[0] = u /\ \A i \in 1..n : g[i] = NextOf(g[i - 1], i)
  BY <1>1, <1>8
<1>10. \A i \in 0..n : f[i] = g[i]
  <2>1. f[0] = g[0]
    BY <1>1, <1>6, <1>9
  <2>2. ASSUME NEW i \in 1..n, f[i - 1] = g[i - 1] PROVE f[i] = g[i]
    <3>1. f[i] = NextOf(f[i - 1], i)
      BY <1>1, <1>6
    <3> QED
      BY <1>9, <2>2, <3>1
  <2> QED
    BY <1>1, <2>1, <2>2, SameIterates
<1>11. g \in [0..n -> V]
  BY <1>5, <1>7, <1>10 DEF Iterates
<1> QED
  BY <1>1, <1>9, <1>11 DEF n, V, NextOf

(* capIntervals, for every cap: the result is disjoint and in order, what  *)
(* was played at its own speed is still played (timelapse.ts:465-473), and *)
(* nothing changes when there are few enough.                              *)
THEOREM CappedAll ==
  ASSUME NEW u, Disjoint(u), NEW c, c = CapIntervals(u)
  PROVE  /\ Disjoint(c) /\ \A x \in Int : Plays(u, x) => Plays(c, x)
         /\ Len(u) <= MaxFastIntervals => c = u
<1> DEFINE n == Len(u)
           g == Capping(u)
           Holds(d) == /\ Disjoint(d) /\ \A x \in Int : Plays(u, x) => Plays(d, x)
                       /\ Len(u) <= MaxFastIntervals => d = u
           S == {k \in 0..n : Holds(g[k])}
<1>1. n \in Nat /\ g[0] = u /\ \A i \in 1..n : g[i] = Capped(g[i - 1])
  <2>1. /\ n \in Nat /\ Capping(u) \in [0..n -> InOrderSeqs] /\ Capping(u)[0] = u
        /\ \A i \in 1..n : Capping(u)[i] = Capped(Capping(u)[i - 1])
    BY CappingDoes
  <2> QED
    BY <2>1
<1>2. c = g[n]
  BY DEF CapIntervals
<1> HIDE DEF g
<1>3. 0 \in S
  <2>1. Holds(u)
    OBVIOUS
  <2> QED
    BY <1>1, <2>1
<1>4. ASSUME NEW i \in 0 + 1..n, i - 1 \in S PROVE i \in S
  <2>1. i \in 1..n /\ i \in 0..n /\ g[i] = Capped(g[i - 1])
    BY <1>1
  <2>2. Holds(g[i - 1])
    BY <1>4
  <2>3. /\ Disjoint(g[i]) /\ \A x \in Int : Plays(g[i - 1], x) => Plays(g[i], x)
        /\ Len(g[i - 1]) <= MaxFastIntervals => g[i] = g[i - 1]
    BY <2>1, <2>2, CappedKeeps
  <2>4. Holds(g[i])
    BY <2>2, <2>3
  <2> QED
    BY <2>1, <2>4
<1>5. 0..n \subseteq S
  <2> HIDE DEF S, n
  <2> QED
    BY <1>1, <1>3, <1>4, Induction
<1>6. n \in 0..n
  BY <1>1
<1>7. Holds(g[n])
  <2> HIDE DEF Holds, n
  <2> QED
    BY <1>5, <1>6
<1> QED
  BY <1>2, <1>7

Modes == {"highlight", "walk", "idle"}
Pc == [from : Int, to : Int, mode : Modes, open : {FALSE}]
LayState == [cursor : Int, pieces : Seq(Pc)]

PMode(pieces, x, m) == \E i \in 1..Len(pieces) : Has(pieces[i], x) /\ pieces[i].mode = m
Before(pieces, t) == \A i \in 1..Len(pieces) : pieces[i].to <= t

(* A next piece.                                                           *)
LEMMA PieceAppended ==
  ASSUME NEW pieces \in Seq(Pc), NEW p \in Pc, NEW t \in Int, Before(pieces, t), p.to <= t
  PROVE  /\ Append(pieces, p) \in Seq(Pc) /\ Before(Append(pieces, p), t)
         /\ \A x, m : PMode(Append(pieces, p), x, m) <=> PMode(pieces, x, m) \/ (Has(p, x) /\ p.mode = m)
<1> DEFINE n == Len(pieces)
           long == Append(pieces, p)
<1>1. n \in Nat /\ long \in Seq(Pc) /\ Len(long) = n + 1 /\ long[n + 1] = p /\ \A i \in 1..n : long[i] = pieces[i]
  BY AppendProperties
<1>2. 1..n + 1 = (1..n) \cup {n + 1}
  BY <1>1
<1> HIDE DEF long, n
<1>3. Before(long, t)
  BY <1>1, <1>2 DEF Before, n
<1>4. \A x, m : PMode(long, x, m) <=> PMode(pieces, x, m) \/ (Has(p, x) /\ p.mode = m)
  BY <1>1, <1>2 DEF PMode, n
<1> QED
  BY <1>1, <1>3, <1>4 DEF long

(* The gap before an interval is idle.                                     *)
LEMMA GapFilled ==
  ASSUME NEW acc \in LayState, NEW t \in Int, acc.cursor <= t, Before(acc.pieces, acc.cursor)
  PROVE  /\ Gap(acc, t) \in Seq(Pc) /\ Before(Gap(acc, t), t)
         /\ \A x \in Int : \A m : PMode(Gap(acc, t), x, m)
              <=> PMode(acc.pieces, x, m) \/ (m = "idle" /\ acc.cursor <= x /\ x < t)
<1>1. acc.cursor \in Int /\ acc.pieces \in Seq(Pc)
  BY DEF LayState
<1>2. Before(acc.pieces, t)
  <2>1. \A i \in 1..Len(acc.pieces) : acc.pieces[i].to \in Int
    <3>1. \A i \in 1..Len(acc.pieces) : acc.pieces[i] \in Pc
      BY <1>1
    <3> QED
      BY <3>1 DEF Pc
  <2> QED
    BY <1>1, <2>1 DEF Before
<1>3. CASE t > acc.cursor
  <2> DEFINE p == Piece(acc.cursor, t, "idle")
  <2>1. p \in Pc /\ p.to = t /\ p.from = acc.cursor /\ p.mode = "idle"
    BY <1>1 DEF Piece, Pc, Modes
  <2>2. Gap(acc, t) = Append(acc.pieces, p)
    BY <1>3 DEF Gap
  <2> HIDE DEF p
  <2>3. p.to <= t
    BY <2>1
  <2>4. /\ Append(acc.pieces, p) \in Seq(Pc) /\ Before(Append(acc.pieces, p), t)
        /\ \A x, m : PMode(Append(acc.pieces, p), x, m)
             <=> PMode(acc.pieces, x, m) \/ (Has(p, x) /\ p.mode = m)
    BY <1>1, <1>2, <2>1, <2>3, PieceAppended
  <2>5. \A x : Has(p, x) <=> acc.cursor <= x /\ x < t
    BY <2>1 DEF Has
  <2> QED
    BY <2>1, <2>2, <2>4, <2>5
<1>4. CASE ~(t > acc.cursor)
  <2>1. Gap(acc, t) = acc.pieces
    BY <1>4 DEF Gap
  <2>2. \A x \in Int : ~(acc.cursor <= x /\ x < t)
    BY <1>1, <1>4
  <2> QED
    BY <1>1, <1>2, <2>1, <2>2
<1> QED
  BY <1>3, <1>4

LEMMA LaidTyped ==
  ASSUME NEW acc \in LayState, NEW iv \in Tagged
  PROVE  Laid(acc, iv) \in LayState
<1>1. acc.cursor \in Int /\ acc.pieces \in Seq(Pc) /\ iv.from \in Int /\ iv.to \in Int /\ iv.kind \in Kinds
  BY DEF LayState, Tagged
<1>2. Gap(acc, iv.from) \in Seq(Pc)
  <2>1. Piece(acc.cursor, iv.from, "idle") \in Pc
    BY <1>1 DEF Piece, Pc, Modes
  <2> QED
    BY <1>1, <2>1, AppendProperties DEF Gap
<1>3. iv.kind # "loading" => Append(Gap(acc, iv.from), Piece(iv.from, iv.to, iv.kind)) \in Seq(Pc)
  <2> SUFFICES ASSUME iv.kind # "loading"
               PROVE  Append(Gap(acc, iv.from), Piece(iv.from, iv.to, iv.kind)) \in Seq(Pc)
    OBVIOUS
  <2>1. Piece(iv.from, iv.to, iv.kind) \in Pc
    BY <1>1 DEF Piece, Pc, Modes, Kinds
  <2> QED
    BY <1>2, <2>1, AppendProperties
<1> QED
  BY <1>1, <1>2, <1>3 DEF Laid, LayState

LEMMA LayingDoes ==
  ASSUME NEW c \in Seq(Tagged),
         NEW g, g = Laying(c)
  PROVE  /\ Len(c) \in Nat /\ g \in [0..Len(c) -> LayState] /\ g[0] = NoneLaid
         /\ \A i \in 1..Len(c) : g[i] = Laid(g[i - 1], c[i])
<1> DEFINE n == Len(c)
           V == LayState
           NextOf(a, i) == Laid(a, c[i])
           step == [i \in 1..n |-> [a \in V |-> NextOf(a, i)]]
<1>1. n \in Nat /\ NoneLaid \in V
  BY DEF NoneLaid, LayState
<1>2. ASSUME NEW i \in 1..n, NEW a \in V PROVE NextOf(a, i) \in V
  <2>1. c[i] \in Tagged
    BY <1>1
  <2> QED
    BY <2>1, LaidTyped
<1>3. step \in [1..n -> [V -> V]]
  <2> HIDE DEF NextOf, V
  <2> QED
    BY <1>2
<1>4. ASSUME NEW i \in 1..n, NEW a \in V PROVE step[i][a] = NextOf(a, i)
  OBVIOUS
<1>5. PICK f : Iterates(f, n, V, NoneLaid, step)
  <2> HIDE DEF step, n, V
  <2> QED
    BY <1>1, <1>3, Recursion
<1>6. f = [i \in 0..n |-> IF i = 0 THEN NoneLaid ELSE NextOf(f[i - 1], i)]
  <2> HIDE DEF step, n, V, NextOf
  <2>1. ASSUME NEW i \in 1..n PROVE f[i] = NextOf(f[i - 1], i)
    <3>1. i - 1 \in 0..n
      BY <1>1
    <3> QED
      BY <1>4, <1>5, <3>1 DEF Iterates
  <2> QED
    BY <1>1, <1>5, <2>1 DEF Iterates
<1>7. g = [i \in 0..n |-> IF i = 0 THEN NoneLaid ELSE NextOf(g[i - 1], i)]
  BY <1>6 DEF Laying
<1> HIDE DEF step, n, V, NextOf
<1>8. ASSUME NEW i \in 0..n PROVE g[i] = IF i = 0 THEN NoneLaid ELSE NextOf(g[i - 1], i)
  BY <1>7
<1>9. g[0] = NoneLaid /\ \A i \in 1..n : g[i] = NextOf(g[i - 1], i)
  BY <1>1, <1>8
<1>10. \A i \in 0..n : f[i] = g[i]
  <2>1. f[0] = g[0]
    BY <1>1, <1>6, <1>9
  <2>2. ASSUME NEW i \in 1..n, f[i - 1] = g[i - 1] PROVE f[i] = g[i]
    <3>1. f[i] = NextOf(f[i - 1], i)
      BY <1>1, <1>6
    <3> QED
      BY <1>9, <2>2, <3>1
  <2> QED
    BY <1>1, <2>1, <2>2, SameIterates
<1>11. g \in [0..n -> V]
  BY <1>5, <1>7, <1>10 DEF Iterates
<1> QED
  BY <1>1, <1>9, <1>11 DEF n, V, NextOf

ModeIn(c, x, m) == (m # "loading" /\ Covered(c, x, m)) \/ (m = "idle" /\ \A i \in 1..Len(c) : ~Has(c[i], x))

LaidUpto(c, k, acc) ==
  /\ acc \in LayState /\ 0 <= acc.cursor /\ acc.cursor <= Duration
  /\ \A j \in k + 1..Len(c) : acc.cursor <= c[j].from
  /\ \A i \in 1..Len(c) : i <= k => c[i].to <= acc.cursor
  /\ Before(acc.pieces, acc.cursor)
  /\ \A x \in Int : \A m : 0 <= x => (PMode(acc.pieces, x, m) <=> x < acc.cursor /\ ModeIn(c, x, m))

(* One more interval: the pieces so far show what the intervals say.       *)
LEMMA LaidStep ==
  ASSUME NEW c, Disjoint(c), NEW k \in 1..Len(c), NEW acc, LaidUpto(c, k - 1, acc)
  PROVE  LaidUpto(c, k, Laid(acc, c[k]))
<1> DEFINE n == Len(c)
           iv == c[k]
           gap == Gap(acc, iv.from)
           p == Piece(iv.from, iv.to, iv.kind)
           pieces == IF iv.kind = "loading" THEN gap ELSE Append(gap, p)
<1>1. /\ c \in Seq(Tagged) /\ n \in Nat /\ k \in Int /\ k \in 1..n
      /\ \A i \in 1..n :
           /\ c[i] \in Tagged /\ c[i].from \in Int /\ c[i].to \in Int /\ c[i].kind \in Kinds
           /\ 0 <= c[i].from /\ c[i].from < c[i].to /\ c[i].to <= Duration
      /\ \A i, j \in 1..n : i < j => c[i].to <= c[j].from
  BY DisjointFields
<1>2. /\ acc \in LayState /\ 0 <= acc.cursor /\ acc.cursor <= Duration
      /\ \A j \in k - 1 + 1..n : acc.cursor <= c[j].from
      /\ \A i \in 1..n : i <= k - 1 => c[i].to <= acc.cursor
      /\ Before(acc.pieces, acc.cursor)
      /\ \A x \in Int : \A m : 0 <= x => (PMode(acc.pieces, x, m) <=> x < acc.cursor /\ ModeIn(c, x, m))
  BY DEF LaidUpto
<1>3. /\ iv \in Tagged /\ iv.from \in Int /\ iv.to \in Int /\ iv.kind \in Kinds
      /\ 0 <= iv.from /\ iv.from < iv.to /\ iv.to <= Duration
  BY <1>1
<1>4. acc.cursor \in Int /\ acc.cursor <= iv.from /\ Duration \in Nat
  <2>1. k \in k - 1 + 1..n
    BY <1>1
  <2> QED
    BY <1>2, <2>1, TimelapseAssumption DEF LayState
<1>5. /\ gap \in Seq(Pc) /\ Before(gap, iv.from)
      /\ \A x \in Int : \A m : PMode(gap, x, m)
           <=> PMode(acc.pieces, x, m) \/ (m = "idle" /\ acc.cursor <= x /\ x < iv.from)
  BY <1>2, <1>3, <1>4, GapFilled
<1>6. Laid(acc, iv) = [cursor |-> iv.to, pieces |-> pieces]
  BY DEF Laid
<1>7. Laid(acc, iv) \in LayState
  BY <1>2, <1>3, LaidTyped
<1> HIDE DEF iv, gap, n
<1>8. Before(gap, iv.to)
  <2>1. \A i \in 1..Len(gap) : gap[i].to \in Int
    <3>1. \A i \in 1..Len(gap) : gap[i] \in Pc
      BY <1>5
    <3> QED
      BY <3>1 DEF Pc
  <2> QED
    BY <1>3, <1>5, <2>1 DEF Before
<1>9. /\ Before(pieces, iv.to)
      /\ \A x \in Int : \A m : PMode(pieces, x, m)
           <=> PMode(gap, x, m) \/ (iv.kind # "loading" /\ Has(iv, x) /\ iv.kind = m)
  <2>1. CASE iv.kind = "loading"
    BY <1>8, <2>1
  <2>2. CASE iv.kind # "loading"
    <3>1. p \in Pc /\ p.to = iv.to /\ p.from = iv.from /\ p.mode = iv.kind
      BY <1>3, <2>2 DEF Piece, Pc, Modes, Kinds
    <3>2. pieces = Append(gap, p)
      BY <2>2
    <3> HIDE DEF p, pieces
    <3>3. p.to <= iv.to
      BY <1>3, <3>1
    <3>4. /\ Before(Append(gap, p), iv.to)
          /\ \A x, m : PMode(Append(gap, p), x, m) <=> PMode(gap, x, m) \/ (Has(p, x) /\ p.mode = m)
      BY <1>3, <1>5, <1>8, <3>1, <3>3, PieceAppended
    <3>5. \A x : Has(p, x) <=> Has(iv, x)
      BY <3>1 DEF Has
    <3> QED
      BY <2>2, <3>1, <3>2, <3>4, <3>5
  <2> QED
    BY <2>1, <2>2
<1> DEFINE next == Laid(acc, iv)
<1>10. next.cursor = iv.to /\ next.pieces = pieces /\ next \in LayState
  BY <1>6, <1>7
<1> HIDE DEF next, pieces
<1>11. \A j \in k + 1..n : iv.to <= c[j].from
  BY <1>1 DEF iv
<1>12. ASSUME NEW i \in 1..n, i <= k PROVE c[i].to <= iv.to
  <2>1. CASE i = k
    BY <1>3, <2>1 DEF iv
  <2>2. CASE i # k
    <3>1. i <= k - 1
      BY <1>1, <1>12, <2>2
    <3>2. c[i].to \in Int /\ c[i].to <= acc.cursor
      BY <1>1, <1>2, <3>1
    <3> QED
      BY <1>3, <1>4, <3>2
  <2> QED
    BY <2>1, <2>2
<1>13. ASSUME NEW i \in 1..n, NEW x \in Int, Has(c[i], x), acc.cursor <= x, x < iv.to PROVE i = k
  <2>1. c[i].from \in Int /\ c[i].to \in Int /\ c[i].from <= x /\ x < c[i].to
    BY <1>1, <1>13 DEF Has
  <2>2. CASE i < k
    <3>1. i <= k - 1
      BY <1>1, <2>2
    <3>2. c[i].to <= acc.cursor
      BY <1>2, <3>1
    <3> QED
      BY <1>4, <1>13, <2>1, <3>2
  <2>3. CASE k < i
    <3>1. iv.to <= c[i].from
      BY <1>1, <2>3 DEF iv
    <3> QED
      BY <1>3, <1>13, <2>1, <3>1
  <2> QED
    BY <1>1, <2>2, <2>3
<1>14. ASSUME NEW x \in Int, NEW m, 0 <= x
       PROVE  PMode(pieces, x, m) <=> x < iv.to /\ ModeIn(c, x, m)
  <2>1. PMode(pieces, x, m)
          <=> \/ x < acc.cursor /\ ModeIn(c, x, m)
              \/ m = "idle" /\ acc.cursor <= x /\ x < iv.from
              \/ iv.kind # "loading" /\ Has(iv, x) /\ iv.kind = m
    BY <1>2, <1>5, <1>9, <1>14
  <2>2. Has(iv, x) <=> iv.from <= x /\ x < iv.to
    BY DEF Has
  <2>3. CASE x < acc.cursor
    <3>1. ~(acc.cursor <= x) /\ ~Has(iv, x) /\ x < iv.to
      BY <1>3, <1>4, <2>2, <2>3
    <3> QED
      BY <2>1, <2>3, <3>1
  <2>4. CASE ~(x < acc.cursor) /\ x < iv.from
    <3>1. acc.cursor <= x /\ ~Has(iv, x) /\ x < iv.to
      BY <1>3, <1>4, <2>2, <2>4
    <3>2. \A i \in 1..n : ~Has(c[i], x)
      BY <1>13, <3>1 DEF iv
    <3>3. ModeIn(c, x, m) <=> m = "idle"
      BY <3>2 DEF ModeIn, Covered, n
    <3> QED
      BY <2>1, <2>4, <3>1, <3>3
  <2>5. CASE ~(x < iv.from) /\ x < iv.to
    <3>1. ~(x < acc.cursor) /\ acc.cursor <= x /\ Has(iv, x)
      BY <1>3, <1>4, <2>2, <2>5
    <3>2. \A i \in 1..n : Has(c[i], x) <=> i = k
      BY <1>13, <2>5, <3>1 DEF iv
    <3>3. Covered(c, x, m) <=> iv.kind = m
      BY <1>1, <3>2 DEF Covered, n, iv
    <3>4. ModeIn(c, x, m) <=> iv.kind # "loading" /\ iv.kind = m
      BY <1>1, <3>2, <3>3 DEF ModeIn, n
    <3> QED
      BY <2>1, <2>5, <3>1, <3>4
  <2>6. CASE ~(x < iv.to)
    <3>1. ~(x < acc.cursor) /\ ~(x < iv.from) /\ ~Has(iv, x)
      BY <1>3, <1>4, <2>2, <2>6
    <3> QED
      BY <2>1, <2>6, <3>1
  <2> QED
    BY <2>3, <2>4, <2>5, <2>6
<1>15. 0 <= iv.to
  BY <1>3
<1>16. LaidUpto(c, k, next)
  BY <1>3, <1>9, <1>10, <1>11, <1>12, <1>14, <1>15 DEF LaidUpto, n
<1> QED
  BY <1>16 DEF next, iv

(* buildSegmentPlan, for all disjoint intervals: the pieces show every     *)
(* instant in the mode of its interval, idle between them, and show        *)
(* nothing of what is cut.                                                 *)
THEOREM LaidAll ==
  ASSUME NEW c, Disjoint(c)
  PROVE  /\ Pieces(c) \in Seq(Pc) /\ Before(Pieces(c), Duration)
         /\ \A x \in 0..Duration - 1 : \A m : PMode(Pieces(c), x, m) <=> ModeIn(c, x, m)
<1> DEFINE n == Len(c)
           g == Laying(c)
           S == {k \in 0..n : LaidUpto(c, k, g[k])}
<1>0. c \in Seq(Tagged) /\ Duration \in Nat
  BY TimelapseAssumption DEF Disjoint
<1>1. n \in Nat /\ g[0] = NoneLaid /\ \A i \in 1..n : g[i] = Laid(g[i - 1], c[i])
  BY <1>0, LayingDoes
<1>2. Pieces(c) = Gap(g[n], Duration)
  BY DEF Pieces
<1> HIDE DEF g
<1>3. 0 \in S
  <2>1. NoneLaid \in LayState /\ NoneLaid.cursor = 0 /\ NoneLaid.pieces = <<>> /\ Len(<<>>) = 0 /\ 1..0 = {}
    BY DEF NoneLaid, LayState
  <2>2. \A j \in 0 + 1..n : 0 <= c[j].from
    BY <1>0, <1>1, DisjointFields
  <2>3. \A i \in 1..n : ~(i <= 0)
    BY <1>1
  <2>4. \A x \in Int : \A m : 0 <= x => (PMode(<<>>, x, m) <=> x < 0 /\ ModeIn(c, x, m))
    BY <2>1 DEF PMode
  <2>5. 0 <= 0 /\ 0 <= Duration /\ Before(<<>>, 0)
    BY <1>0, <2>1 DEF Before
  <2>6. LaidUpto(c, 0, NoneLaid)
    BY <2>1, <2>2, <2>3, <2>4, <2>5 DEF LaidUpto
  <2> QED
    BY <1>1, <2>6
<1>4. ASSUME NEW i \in 0 + 1..n, i - 1 \in S PROVE i \in S
  <2>1. i \in 1..n /\ i \in 0..n /\ i - 1 \in 0..n
    BY <1>1
  <2>2. LaidUpto(c, i - 1, g[i - 1]) /\ g[i] = Laid(g[i - 1], c[i])
    BY <1>1, <1>4, <2>1
  <2>3. LaidUpto(c, i, g[i])
    BY <2>1, <2>2, LaidStep
  <2> QED
    BY <2>1, <2>3
<1>5. 0..n \subseteq S
  <2> HIDE DEF S, n
  <2> QED
    BY <1>1, <1>3, <1>4, Induction
<1>6. LaidUpto(c, n, g[n])
  <2>1. n \in 0..n
    BY <1>1
  <2> QED
    BY <1>5, <2>1
<1> DEFINE acc == g[n]
<1>7. /\ acc \in LayState /\ 0 <= acc.cursor /\ acc.cursor <= Duration
      /\ \A i \in 1..n : i <= n => c[i].to <= acc.cursor
      /\ Before(acc.pieces, acc.cursor)
      /\ \A x \in Int : \A m : 0 <= x => (PMode(acc.pieces, x, m) <=> x < acc.cursor /\ ModeIn(c, x, m))
  BY <1>6 DEF LaidUpto
<1> HIDE DEF acc
<1>8. Pieces(c) = Gap(acc, Duration)
  BY <1>2 DEF acc
<1>9. /\ Gap(acc, Duration) \in Seq(Pc) /\ Before(Gap(acc, Duration), Duration)
      /\ \A x \in Int : \A m : PMode(Gap(acc, Duration), x, m)
           <=> PMode(acc.pieces, x, m) \/ (m = "idle" /\ acc.cursor <= x /\ x < Duration)
  <2>1. Duration \in Int
    BY <1>0
  <2> QED
    BY <1>7, <2>1, GapFilled
<1>10. ASSUME NEW x \in 0..Duration - 1, NEW m PROVE PMode(Pieces(c), x, m) <=> ModeIn(c, x, m)
  <2>1. x \in Int /\ 0 <= x /\ x < Duration
    BY <1>0
  <2>2. PMode(Pieces(c), x, m) <=> (x < acc.cursor /\ ModeIn(c, x, m)) \/ (m = "idle" /\ acc.cursor <= x)
    BY <1>7, <1>8, <1>9, <2>1
  <2>3. acc.cursor \in Int
    BY <1>7 DEF LayState
  <2>4. CASE x < acc.cursor
    <3>1. ~(acc.cursor <= x)
      BY <2>1, <2>3, <2>4
    <3> QED
      BY <2>2, <2>4, <3>1
  <2>5. CASE ~(x < acc.cursor)
    <3>1. acc.cursor <= x
      BY <2>1, <2>3, <2>5
    <3>2. \A i \in 1..n : ~Has(c[i], x)
      <4> SUFFICES ASSUME NEW i \in 1..n PROVE ~Has(c[i], x)
        OBVIOUS
      <4>1. c[i].to \in Int /\ c[i].to <= acc.cursor
        <5>1. i <= n
          BY <1>1
        <5> QED
          BY <1>7, <5>1, DisjointFields
      <4> QED
        BY <2>1, <2>3, <3>1, <4>1 DEF Has
    <3>3. ModeIn(c, x, m) <=> m = "idle"
      BY <3>2 DEF ModeIn, Covered
    <3> QED
      BY <2>2, <2>5, <3>1, <3>3
  <2> QED
    BY <2>4, <2>5
<1> QED
  BY <1>8, <1>9, <1>10

(* The instant is in a piece of this mode. *)
Showing(plan, x, m) ==
  \E k \in DOMAIN plan : plan[k].from <= x /\ (plan[k].open \/ x < plan[k].to) /\ plan[k].mode = m

(* The open end of the last piece changes nothing within the recording.    *)
LEMMA PlanShows ==
  ASSUME NEW c, Disjoint(c), NEW plan, plan = BuildSegmentPlan(c), NEW x \in 0..Duration - 1, NEW m
  PROVE  Showing(plan, x, m) <=> ModeIn(c, x, m)
<1> DEFINE P == Pieces(c)
           n == Len(P)
<1>1. P \in Seq(Pc) /\ n \in Nat /\ DOMAIN P = 1..n /\ (PMode(P, x, m) <=> ModeIn(c, x, m))
  BY LaidAll
<1>2. \A k \in 1..n : P[k] \in Pc /\ P[k].open = FALSE
  <2>1. \A k \in 1..n : P[k] \in Pc
    BY <1>1
  <2> QED
    BY <2>1 DEF Pc
<1>3. Showing(plan, x, m) <=> PMode(P, x, m)
  <2>1. CASE P # <<>> /\ Last(P).to = Duration
    <3> DEFINE last == [P[n] EXCEPT !.open = TRUE]
    <3>1. n \in 1..n /\ P[n].to = Duration
      BY <1>1, <2>1 DEF Last
    <3>2. last.from = P[n].from /\ last.mode = P[n].mode /\ last.open = TRUE
      <4>1. P[n] \in Pc
        BY <1>2, <3>1
      <4> QED
        BY <4>1 DEF Pc
    <3>3. plan = [P EXCEPT ![n] = last]
      BY <2>1 DEF BuildSegmentPlan
    <3> HIDE DEF last, P
    <3>4. DOMAIN plan = 1..n /\ \A k \in 1..n : plan[k] = IF k = n THEN last ELSE P[k]
      BY <1>1, <3>3
    <3>5. x < Duration
      BY TimelapseAssumption
    <3>6. ASSUME NEW k \in 1..n
          PROVE  (plan[k].from <= x /\ (plan[k].open \/ x < plan[k].to) /\ plan[k].mode = m)
                   <=> (Has(P[k], x) /\ P[k].mode = m)
      <4>1. CASE k = n
        BY <3>1, <3>2, <3>4, <3>5, <4>1 DEF Has
      <4>2. CASE k # n
        BY <1>2, <3>4, <4>2 DEF Has
      <4> QED
        BY <4>1, <4>2
    <3> HIDE DEF n
    <3> QED
      BY <3>4, <3>6 DEF Showing, PMode, n
  <2>2. CASE ~(P # <<>> /\ Last(P).to = Duration)
    <3>1. plan = P
      BY <2>2 DEF BuildSegmentPlan
    <3> HIDE DEF P
    <3> QED
      BY <1>1, <1>2, <3>1 DEF Showing, PMode, Has
  <2> QED
    BY <2>1, <2>2
<1> QED
  BY <1>1, <1>3

(* What the film shows is what the capped intervals say. *)
LEMMA ResolvedShows ==
  ASSUME NEW u, Disjoint(u), NEW policy, NEW c, c = CapIntervals(u), NEW r, r = Resolve(u, policy),
         NEW x \in 0..Duration - 1, NEW m
  PROVE  m \in Shown(r, x) <=> ModeIn(c, x, m)
<1> DEFINE hasCuts == \E i \in DOMAIN c : c[i].kind = "loading"
           plan == IF c = <<>> THEN <<>> ELSE BuildSegmentPlan(c)
           whole == [Piece(0, Duration, "idle") EXCEPT !.open = TRUE]
<1>1. Disjoint(c) /\ c \in Seq(Tagged) /\ Len(c) \in Nat /\ DOMAIN c = 1..Len(c) /\ Duration \in Nat
  BY CappedAll, TimelapseAssumption DEF Disjoint
<1>2. r = IF c = <<>> /\ ~policy.idle THEN [outcome |-> "nothing", plan |-> <<>>]
          ELSE IF plan # <<>> THEN [outcome |-> "plan", plan |-> plan]
          ELSE IF hasCuts THEN [outcome |-> "entireCut", plan |-> <<>>]
          ELSE [outcome |-> "plan", plan |-> <<whole>>]
  BY DEF Resolve
<1>3. r.outcome # "nothing" => (m \in Shown(r, x) <=> Showing(r.plan, x, m))
  BY DEF Shown, Showing
<1>4. c = <<>> => (ModeIn(c, x, m) <=> m = "idle")
  BY DEF ModeIn, Covered
<1>5. ~Showing(<<>>, x, m)
  BY DEF Showing
<1>6. c # <<>> => \A y \in 0..Duration - 1 : \A k : Showing(plan, y, k) <=> ModeIn(c, y, k)
  <2> SUFFICES ASSUME c # <<>>, NEW y \in 0..Duration - 1, NEW k
               PROVE  Showing(plan, y, k) <=> ModeIn(c, y, k)
    OBVIOUS
  <2>1. plan = BuildSegmentPlan(c)
    OBVIOUS
  <2> HIDE DEF plan
  <2> QED
    BY <1>1, <2>1, PlanShows
<1>7. Showing(<<whole>>, x, m) <=> m = "idle"
  <2>1. whole.from = 0 /\ whole.mode = "idle" /\ whole.open = TRUE /\ 0 <= x
    BY DEF Piece
  <2> HIDE DEF whole
  <2>2. DOMAIN <<whole>> = {1} /\ <<whole>>[1] = whole
    OBVIOUS
  <2> QED
    BY <2>1, <2>2 DEF Showing
<1>8. c = <<>> => plan = <<>> /\ ~hasCuts
  OBVIOUS
<1>9. c # <<>> /\ plan = <<>> => hasCuts
  <2> SUFFICES ASSUME c # <<>>, plan = <<>>, ~hasCuts PROVE FALSE
    OBVIOUS
  <2>1. 1 \in 1..Len(c)
    BY <1>1
  <2> DEFINE y == c[1].from
  <2>2. y \in 0..Duration - 1 /\ Has(c[1], y) /\ c[1].kind # "loading"
    <3>1. c[1].from \in Int /\ c[1].to \in Int /\ 0 <= c[1].from /\ c[1].from < c[1].to /\ c[1].to <= Duration
      BY <1>1, <2>1, DisjointFields
    <3> QED
      BY <1>1, <2>1, <3>1 DEF Has
  <2>3. ModeIn(c, y, c[1].kind)
    BY <2>1, <2>2 DEF ModeIn, Covered
  <2>4. Showing(<<>>, y, c[1].kind)
    BY <1>6, <2>2, <2>3
  <2> QED
    BY <2>4 DEF Showing
<1> HIDE DEF plan, hasCuts, whole
<1>10. CASE c = <<>> /\ ~policy.idle
  BY <1>2, <1>4, <1>10 DEF Shown
<1>11. CASE ~(c = <<>> /\ ~policy.idle) /\ plan # <<>>
  <2>1. r = [outcome |-> "plan", plan |-> plan]
    BY <1>2, <1>11
  <2>2. r.outcome # "nothing" /\ r.plan = plan
    BY <2>1
  <2> QED
    BY <1>3, <1>6, <1>8, <1>11, <2>2
<1>12. CASE ~(c = <<>> /\ ~policy.idle) /\ plan = <<>> /\ hasCuts
  <2>1. r = [outcome |-> "entireCut", plan |-> <<>>]
    BY <1>2, <1>12
  <2>2. r.outcome # "nothing" /\ r.plan = plan
    BY <1>12, <2>1
  <2> QED
    BY <1>3, <1>5, <1>6, <1>8, <1>12, <2>2
<1>13. CASE ~(c = <<>> /\ ~policy.idle) /\ plan = <<>> /\ ~hasCuts
  <2>1. r = [outcome |-> "plan", plan |-> <<whole>>]
    BY <1>2, <1>13
  <2>2. r.outcome # "nothing" /\ r.plan = <<whole>> /\ c = <<>>
    BY <1>9, <1>13, <2>1
  <2> QED
    BY <1>3, <1>4, <1>7, <2>2
<1> QED
  BY <1>10, <1>11, <1>12, <1>13

(* An instant has one mode at most.                                        *)
LEMMA OneMode ==
  ASSUME NEW c, Disjoint(c), NEW x \in Int, NEW m, NEW k, ModeIn(c, x, m), ModeIn(c, x, k)
  PROVE  m = k
<1>1. ASSUME NEW i \in 1..Len(c), NEW j \in 1..Len(c), Has(c[i], x), Has(c[j], x) PROVE i = j
  <2>1. /\ c[i].from \in Int /\ c[i].to \in Int /\ c[j].from \in Int /\ c[j].to \in Int
        /\ (i < j => c[i].to <= c[j].from) /\ (j < i => c[j].to <= c[i].from)
    BY DisjointFields
  <2>2. c[i].from <= x /\ x < c[i].to /\ c[j].from <= x /\ x < c[j].to
    BY <1>1 DEF Has
  <2>3. ~(i < j) /\ ~(j < i)
    BY <2>1, <2>2
  <2>4. i \in Int /\ j \in Int
    OBVIOUS
  <2> QED
    BY <2>3, <2>4
<1>2. CASE \A i \in 1..Len(c) : ~Has(c[i], x)
  BY <1>2 DEF ModeIn, Covered
<1>3. CASE \E i \in 1..Len(c) : Has(c[i], x)
  BY <1>1, <1>3 DEF ModeIn, Covered
<1> QED
  BY <1>2, <1>3

(* What of the usable intervals is at an instant. *)
LEMMA UsableAre ==
  ASSUME NEW ms, InOrder(ms), NEW policy, NEW of, of = KindIntervals(ms, SuitesCut(ms, policy)),
         NEW u, u = UsableIntervals(ms, policy)
  PROVE  /\ Disjoint(u)
         /\ \A x \in Int, kind \in Kinds : Covered(u, x, kind) <=> ActiveKind(of, x) = kind /\ Keeps(policy, kind)
<1> DEFINE keep == SuitesCut(ms, policy)
           marked == Swept(of)
<1>1. keep \in BOOLEAN
  BY DEF SuitesCut
<1>2. GoodKinds(of)
  <2> SUFFICES ASSUME NEW kind \in Kinds PROVE Good(of[kind], 1)
    BY DEF GoodKinds
  <2>1. of = KindIntervals(ms, keep)
    OBVIOUS
  <2> HIDE DEF keep
  <2> QED
    BY <1>1, <2>1, KindsAll
<1>3. u = Keeping(marked, policy)[Len(marked)]
  BY DEF UsableIntervals, ComputeMarkedIntervals
<1>4. Disjoint(marked) /\ \A x \in Int, kind \in Kinds : Covered(marked, x, kind) <=> ActiveKind(of, x) = kind
  <2>1. marked = Swept(of)
    OBVIOUS
  <2> HIDE DEF marked
  <2> QED
    BY <1>2, <2>1, SweptAll
<1> HIDE DEF marked
<1>5. Disjoint(u) /\ \A x, kind : Covered(u, x, kind) <=> Covered(marked, x, kind) /\ Keeps(policy, kind)
  BY <1>3, <1>4, KeptAll
<1> QED
  BY <1>4, <1>5

(* The mode asked for, by the kind that prevails.                          *)
LEMMA ModeIs ==
  ASSUME NEW ms, InOrder(ms), NEW policy, NEW of, of = KindIntervals(ms, SuitesCut(ms, policy)),
         NEW x \in 0..Duration - 1, NEW a, a = ActiveKind(of, x)
  PROVE  /\ a \in Kinds \cup {None}
         /\ Mode(ms, policy, x) = IF a = "loading" THEN "cut"
                                  ELSE IF a = "highlight" THEN IF policy.highlight THEN "highlight" ELSE "idle"
                                  ELSE IF policy.walk /\ a = "walk" THEN "walk" ELSE "idle"
<1> DEFINE keep == SuitesCut(ms, policy)
<1>1. keep \in BOOLEAN
  BY DEF SuitesCut
<1>2. \A kind \in Kinds : In(x, of[kind]) <=> Lasting(ms, keep, kind, x)
  <2> SUFFICES ASSUME NEW kind \in Kinds PROVE In(x, of[kind]) <=> Lasting(ms, keep, kind, x)
    OBVIOUS
  <2>1. of = KindIntervals(ms, keep)
    OBVIOUS
  <2> HIDE DEF keep
  <2> QED
    BY <1>1, <2>1, KindsAll
<1>3. Kinds = {"loading", "highlight", "walk", "idle"} /\ None \notin Kinds
  BY TimelapseAssumption DEF Kinds
<1>4. a = IF In(x, of["loading"]) THEN "loading"
          ELSE IF In(x, of["highlight"]) THEN "highlight"
          ELSE IF In(x, of["walk"]) THEN "walk"
          ELSE IF In(x, of["idle"]) THEN "idle" ELSE None
  BY DEF ActiveKind
<1>5. Mode(ms, policy, x) =
        IF Lasting(ms, keep, "loading", x) THEN "cut"
        ELSE IF Lasting(ms, keep, "highlight", x)
        THEN IF policy.highlight THEN "highlight" ELSE "idle"
        ELSE IF policy.walk /\ Lasting(ms, keep, "walk", x) THEN "walk" ELSE "idle"
  BY DEF Mode
<1> HIDE DEF keep
<1> QED
  BY <1>2, <1>3, <1>4, <1>5

(* The property, for one policy, marks in order and one instant.           *)
LEMMA FilmOf ==
  ASSUME NEW ms, InOrder(ms), NEW policy \in Policy, NEW x \in 0..Duration - 1,
         NEW u, u = UsableIntervals(ms, policy), NEW r, r = Resolve(u, policy), NEW shown, shown = Shown(r, x)
  PROVE  /\ Cardinality(shown) <= 1
         /\ Len(u) <= MaxFastIntervals => shown = {Mode(ms, policy, x)} \ {"cut"}
         /\ Mode(ms, policy, x) \in {"highlight", "walk"} => shown # {}
<1> DEFINE of == KindIntervals(ms, SuitesCut(ms, policy))
           c == CapIntervals(u)
           a == ActiveKind(of, x)
           mode == Mode(ms, policy, x)
<1>1. Disjoint(u) /\ \A kind \in Kinds : Covered(u, x, kind) <=> a = kind /\ Keeps(policy, kind)
  BY UsableAre
<1>2. /\ a \in Kinds \cup {None}
      /\ mode = IF a = "loading" THEN "cut"
                ELSE IF a = "highlight" THEN IF policy.highlight THEN "highlight" ELSE "idle"
                ELSE IF policy.walk /\ a = "walk" THEN "walk" ELSE "idle"
  BY ModeIs
<1>3. /\ Disjoint(c) /\ \A y \in Int : Plays(u, y) => Plays(c, y)
      /\ Len(u) <= MaxFastIntervals => c = u
  <2>1. c = CapIntervals(u)
    OBVIOUS
  <2> HIDE DEF c
  <2> QED
    BY <1>1, <2>1, CappedAll
<1>4. \A m : m \in shown <=> ModeIn(c, x, m)
  <2> SUFFICES ASSUME NEW m PROVE m \in shown <=> ModeIn(c, x, m)
    OBVIOUS
  <2> QED
    BY <1>1, ResolvedShows
<1> HIDE DEF of, c, a, mode
<1>5. \A i \in 1..Len(u) : u[i].kind \in Kinds
  BY <1>1, DisjointFields
<1>6. (\A i \in 1..Len(u) : ~Has(u[i], x)) <=> \A kind \in Kinds : ~Covered(u, x, kind)
  BY <1>5 DEF Covered
<1>7. /\ Kinds = {"loading", "highlight", "walk", "idle"} /\ None \notin Kinds
      /\ policy.highlight \in BOOLEAN /\ policy.walk \in BOOLEAN /\ policy.idle \in BOOLEAN
  BY TimelapseAssumption DEF Kinds, Policy
<1>8. /\ Keeps(policy, "loading") /\ (Keeps(policy, "highlight") <=> policy.highlight)
      /\ (Keeps(policy, "walk") <=> policy.walk) /\ (Keeps(policy, "idle") <=> policy.idle)
  BY DEF Keeps, Policy
<1>9. \A m : ModeIn(u, x, m) <=> m = mode /\ mode # "cut"
  <2> SUFFICES ASSUME NEW m PROVE ModeIn(u, x, m) <=> m = mode /\ mode # "cut"
    OBVIOUS
  <2>1. ModeIn(u, x, m) <=> \/ m # "loading" /\ m \in Kinds /\ a = m /\ Keeps(policy, m)
                            \/ m = "idle" /\ ~(a \in Kinds /\ Keeps(policy, a))
    <3>1. Covered(u, x, m) <=> m \in Kinds /\ a = m /\ Keeps(policy, m)
      <4>1. Covered(u, x, m) => m \in Kinds
        BY <1>5 DEF Covered
      <4> QED
        BY <1>1, <4>1
    <3>2. (\A i \in 1..Len(u) : ~Has(u[i], x)) <=> ~(a \in Kinds /\ Keeps(policy, a))
      BY <1>1, <1>6
    <3> QED
      BY <3>1, <3>2 DEF ModeIn
  <2>2. CASE a = "loading"
    BY <1>2, <1>7, <1>8, <2>1, <2>2
  <2>3. CASE a = "highlight"
    BY <1>2, <1>7, <1>8, <2>1, <2>3
  <2>4. CASE a = "walk"
    BY <1>2, <1>7, <1>8, <2>1, <2>4
  <2>5. CASE a = "idle"
    BY <1>2, <1>7, <1>8, <2>1, <2>5
  <2>6. CASE a = None
    BY <1>2, <1>7, <1>8, <2>1, <2>6
  <2> QED
    BY <1>2, <1>7, <2>2, <2>3, <2>4, <2>5, <2>6
<1>10. Cardinality(shown) <= 1
  <2>1. CASE shown = {}
    BY <2>1, FS_EmptySet
  <2>2. CASE shown # {}
    <3>1. PICK m : m \in shown
      BY <2>2
    <3>2. shown = {m}
      <4> SUFFICES ASSUME NEW k \in shown PROVE k = m
        BY <3>1
      <4>1. ModeIn(c, x, m) /\ ModeIn(c, x, k) /\ x \in Int
        BY <1>4, <3>1
      <4> QED
        BY <1>3, <4>1, OneMode
    <3>3. Cardinality({m}) = 1
      BY FS_Singleton
    <3> QED
      BY <3>2, <3>3
  <2> QED
    BY <2>1, <2>2
<1>11. Len(u) <= MaxFastIntervals => shown = {mode} \ {"cut"}
  BY <1>3, <1>4, <1>9
<1>12. mode \in {"highlight", "walk"} => shown # {}
  <2> SUFFICES ASSUME mode \in {"highlight", "walk"} PROVE shown # {}
    OBVIOUS
  <2>1. a = mode /\ Keeps(policy, mode) /\ mode \in Kinds /\ mode # "loading"
    BY <1>2, <1>7, <1>8
  <2>2. Covered(u, x, mode)
    BY <1>1, <2>1
  <2>3. Plays(u, x)
    BY <2>1, <2>2 DEF Covered, Plays
  <2>4. Plays(c, x)
    BY <1>3, <2>3
  <2>5. PICK i \in 1..Len(c) : Has(c[i], x) /\ c[i].kind # "loading"
    BY <2>4 DEF Plays
  <2>6. ModeIn(c, x, c[i].kind)
    BY <2>5 DEF ModeIn, Covered
  <2> QED
    BY <1>4, <2>6
<1> QED
  BY <1>10, <1>11, <1>12 DEF mode

(* Whatever marks are noted.                                               *)
LEMMA MarksShown ==
  ASSUME walkMarks \in Seq(Marks)
  PROVE  FilmShowsWhatIsMarked
<1>1. ASSUME NEW policy \in Policies, NEW sorted \in {Sorted(walkMarks)}, NEW x \in 0..Duration - 1
      PROVE  LET usable == UsableIntervals(sorted, policy)
                 shown == Shown(Resolve(usable, policy), x)
                 mode == AskedFor(sorted, policy)
             IN  /\ Cardinality(shown) <= 1
                 /\ Len(usable) <= MaxFastIntervals => shown = {mode[x]} \ {"cut"}
                 /\ mode[x] \in {"highlight", "walk"} => shown # {}
  <2>1. InOrder(sorted)
    BY SortedInOrder
  <2>2. policy \in Policy
    BY TimelapseAssumption
  <2> DEFINE u == UsableIntervals(sorted, policy)
             r == Resolve(u, policy)
             shown == Shown(r, x)
  <2>3. /\ Cardinality(shown) <= 1
        /\ Len(u) <= MaxFastIntervals => shown = {Mode(sorted, policy, x)} \ {"cut"}
        /\ Mode(sorted, policy, x) \in {"highlight", "walk"} => shown # {}
    <3>1. u = UsableIntervals(sorted, policy) /\ r = Resolve(u, policy) /\ shown = Shown(r, x)
      OBVIOUS
    <3> HIDE DEF u, r, shown
    <3> QED
      BY <2>1, <2>2, <3>1, FilmOf
  <2>4. AskedFor(sorted, policy)[x] = Mode(sorted, policy, x)
    BY AskedForIs
  <2> QED
    BY <2>3, <2>4
<1> QED
  BY <1>1 DEF FilmShowsWhatIsMarked
=============================================================================
