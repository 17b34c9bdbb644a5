------------------------------- MODULE Induction -------------------------------
(***************************************************************************)
(* Induction over the natural numbers, for a set instead of a predicate:   *)
(* the theorems of NaturalsInduction take an operator as a parameter, which *)
(* the provers cannot instantiate.  It is what the proofs about loops and  *)
(* recursive functions use.                                                *)
(***************************************************************************)
EXTENDS Integers, WellFoundedInduction, TLAPS

\* A set of numbers has a least one.
LEMMA LeastNumber ==
    ASSUME NEW T \in SUBSET Nat, T # {}
    PROVE  \E n \in T : \A m \in T : n <= m
<1> DEFINE R == {ss \in Nat \X Nat : ss[1] < ss[2]}
<1>1. IsWellFoundedOn(R, Nat)
  BY NatLessThanWellFounded DEF OpToRel
<1>2. \A m, n \in Nat : <<m, n>> \in R <=> m < n
  OBVIOUS
<1> HIDE DEF R
<1>3. PICK n \in T : \A m \in T : <<m, n>> \notin R
  BY <1>1, WFMin
<1>4. \A m \in T : n <= m
  <2> TAKE m \in T
  <2>1. m \in Nat /\ n \in Nat
    OBVIOUS
  <2>2. ~(m < n)
    BY <1>2, <1>3, <2>1
  <2> QED
    BY <2>1, <2>2
<1> QED
  BY <1>4

\* A set that has 0 and the successor of each of its numbers has all of them.
LEMMA NumbersInduct ==
    ASSUME NEW T, 0 \in T, \A n \in Nat : n \in T => n + 1 \in T
    PROVE  Nat \subseteq T
<1> SUFFICES ASSUME Nat \ T # {} PROVE FALSE
  OBVIOUS
<1>1. PICK n \in Nat \ T : \A m \in Nat \ T : n <= m
  BY LeastNumber
<1>2. n # 0 /\ n - 1 \in Nat /\ n - 1 \in T
  BY <1>1
<1> QED
  BY <1>1, <1>2

\* What a loop does, turn by turn: it exists, whatever its step is.
LEMMA Iterate ==
    ASSUME NEW V, NEW v0 \in V, NEW step \in [V -> V]
    PROVE  \E f \in [Nat -> V] : f[0] = v0 /\ \A n \in Nat : f[n + 1] = step[f[n]]
<1> DEFINE Runs(n, g) == /\ g \in [0 .. n -> V] /\ g[0] = v0
                         /\ \A i \in 0 .. n - 1 : g[i + 1] = step[g[i]]
           T == {n \in Nat : \E g : Runs(n, g)}
<1>1. 0 \in T
  <2> DEFINE g == [i \in 0 .. 0 |-> v0]
  <2>1. Runs(0, g)
    OBVIOUS
  <2> QED
    BY <2>1
<1>2. ASSUME NEW n \in Nat, n \in T
      PROVE  n + 1 \in T
  <2>1. PICK g : Runs(n, g)
    BY <1>2
  <2> DEFINE h == [i \in 0 .. n + 1 |-> IF i = n + 1 THEN step[g[n]] ELSE g[i]]
  <2>2. h \in [0 .. n + 1 -> V]
    BY <2>1
  <2>3. h[0] = v0
    BY <2>1
  <2>4. ASSUME NEW i \in 0 .. n PROVE h[i + 1] = step[h[i]]
    BY <2>1
  <2>5. Runs(n + 1, h)
    BY <2>2, <2>3, <2>4
  <2> HIDE DEF Runs, h
  <2> QED
    BY <2>5
<1>3. Nat \subseteq T
  <2> HIDE DEF T
  <2> QED
    BY <1>1, <1>2, NumbersInduct
<1>4. ASSUME NEW n \in Nat, NEW m \in Nat, n <= m, NEW g, NEW h, Runs(n, g), Runs(m, h)
      PROVE  g[n] = h[n]
  <2> DEFINE U == {i \in Nat : i <= n => g[i] = h[i]}
  <2>1. 0 \in U
    BY <1>4
  <2>2. ASSUME NEW i \in Nat, i \in U PROVE i + 1 \in U
    BY <1>4, <2>2
  <2>3. Nat \subseteq U
    <3> HIDE DEF U
    <3> QED
      BY <2>1, <2>2, NumbersInduct
  <2> QED
    BY <2>3
<1> DEFINE G(n) == CHOOSE g : Runs(n, g)
           f == [n \in Nat |-> G(n)[n]]
<1>5. \A n \in Nat : Runs(n, G(n))
  BY <1>3
<1> HIDE DEF G
<1>6. f \in [Nat -> V]
  BY <1>5
<1>7. f[0] = v0
  BY <1>5
<1>8. ASSUME NEW n \in Nat
      PROVE  f[n + 1] = step[f[n]]
  <2>1. Runs(n, G(n)) /\ Runs(n + 1, G(n + 1))
    BY <1>5
  <2>2. G(n)[n] = G(n + 1)[n]
    <3> HIDE DEF Runs
    <3> QED
      BY <2>1, <1>4
  <2>3. G(n + 1)[n + 1] = step[G(n + 1)[n]]
    BY <2>1
  <2> QED
    BY <2>2, <2>3
<1> QED
  BY <1>6, <1>7, <1>8

\* The same, under a name.
Iterates(V, v0, step) ==
    \E f \in [Nat -> V] : f[0] = v0 /\ \A n \in Nat : f[n + 1] = step[f[n]]

LEMMA IterateNamed ==
    ASSUME NEW V, NEW v0 \in V, NEW step \in [V -> V]
    PROVE  Iterates(V, v0, step)
BY Iterate DEF Iterates

\* A function on an interval that is defined by recursion: it exists, whatever
\* its step is, so that a recursive definition has the value it says.
Recurses(R, r0, N, rule) ==
    \E f \in [0 .. N -> R] : f[0] = r0 /\ \A i \in 1 .. N : f[i] = rule[i][f[i - 1]]

LEMMA Recursion ==
    ASSUME NEW R, NEW r0 \in R, NEW N \in Nat, NEW rule,
           \A i \in 1 .. N, r \in R : rule[i][r] \in R
    PROVE  Recurses(R, r0, N, rule)
<1> DEFINE W == (0 .. N) \X R
           next == [w \in W |-> IF w[1] < N THEN <<w[1] + 1, rule[w[1] + 1][w[2]]>> ELSE w]
<1>1. <<0, r0>> \in W
  OBVIOUS
<1>2. next \in [W -> W]
  <2>1. ASSUME NEW n \in 0 .. N, NEW v \in R PROVE next[<<n, v>>] \in W
    <3>1. <<n, v>> \in W /\ <<n, v>>[1] = n /\ <<n, v>>[2] = v
      OBVIOUS
    <3>2. CASE n < N
      <4>1. n + 1 \in 1 .. N /\ n + 1 \in 0 .. N
        BY <3>2
      <4>2. rule[n + 1][v] \in R
        BY <4>1
      <4>3. next[<<n, v>>] = <<n + 1, rule[n + 1][v]>>
        BY <3>1, <3>2
      <4> QED
        BY <4>1, <4>2, <4>3
    <3>3. CASE ~(n < N)
      BY <3>1, <3>3
    <3> QED
      BY <3>2, <3>3
  <2> QED
    BY <2>1
<1>3. PICK g \in [Nat -> W] : g[0] = <<0, r0>> /\ \A n \in Nat : g[n + 1] = next[g[n]]
  <2> HIDE DEF W, next
  <2>1. Iterates(W, <<0, r0>>, next)
    BY <1>1, <1>2, IterateNamed
  <2> QED
    BY <2>1 DEF Iterates
<1> DEFINE T == {n \in Nat : n <= N => g[n][1] = n}
<1>4. 0 \in T
  BY <1>3
<1>5. ASSUME NEW n \in Nat, n < N, g[n][1] = n
      PROVE  g[n + 1] = <<n + 1, rule[n + 1][g[n][2]]>>
  <2>1. g[n] \in W /\ g[n + 1] = next[g[n]]
    BY <1>3
  <2> HIDE DEF W
  <2> QED
    BY <1>5, <2>1
<1>6. ASSUME NEW n \in Nat, n \in T PROVE n + 1 \in T
  <2>1. CASE n + 1 <= N
    <3>1. g[n + 1] = <<n + 1, rule[n + 1][g[n][2]]>>
      BY <1>5, <1>6, <2>1
    <3> QED
      BY <3>1
  <2> QED
    BY <2>1
<1>7. Nat \subseteq T
  <2> HIDE DEF T
  <2> QED
    BY <1>4, <1>6, NumbersInduct
<1> DEFINE f == [i \in 0 .. N |-> g[i][2]]
<1>8. f \in [0 .. N -> R] /\ f[0] = r0
  <2>1. \A n \in Nat : g[n] \in (0 .. N) \X R
    BY <1>3
  <2> QED
    BY <1>3, <2>1
<1>9. ASSUME NEW i \in 1 .. N PROVE f[i] = rule[i][f[i - 1]]
  <2>1. i - 1 \in Nat /\ i - 1 < N /\ (i - 1) + 1 = i /\ i - 1 \in 0 .. N /\ i \in 0 .. N
    OBVIOUS
  <2>2. g[i - 1][1] = i - 1
    BY <1>7, <2>1
  <2>3. g[i] = <<i, rule[i][g[i - 1][2]]>>
    BY <1>5, <2>1, <2>2
  <2> QED
    BY <2>1, <2>3
<1> QED
  BY <1>8, <1>9 DEF Recurses

\* The same where the values of each turn have a set of their own: the
\* function exists, and its value at each turn is in that turn's set.
Folds(T, r0, N, rule) ==
    \E f \in [0 .. N -> UNION {T[i] : i \in 0 .. N}] :
        f[0] = r0 /\ \A i \in 1 .. N : f[i] = rule[i][f[i - 1]]

LEMMA FoldThrough ==
    ASSUME NEW N \in Nat, NEW T, NEW r0 \in T[0], NEW rule,
           \A i \in 1 .. N : \A v \in T[i - 1] : rule[i][v] \in T[i]
    PROVE  Folds(T, r0, N, rule)
<1> DEFINE R == UNION {T[i] : i \in 0 .. N}
           kept == [i \in 1 .. N |-> [r \in R |-> IF r \in T[i - 1] THEN rule[i][r] ELSE r]]
<1>1. r0 \in R
  <2>1. 0 \in 0 .. N
    OBVIOUS
  <2> QED
    BY <2>1
<1>2. ASSUME NEW i \in 1 .. N, NEW r \in R PROVE kept[i][r] \in R
  <2>1. i - 1 \in 0 .. N /\ i \in 0 .. N
    OBVIOUS
  <2>2. kept[i][r] = IF r \in T[i - 1] THEN rule[i][r] ELSE r
    OBVIOUS
  <2>3. r \in T[i - 1] => rule[i][r] \in T[i]
    OBVIOUS
  <2>4. T[i] \subseteq R
    BY <2>1
  <2> QED
    BY <2>2, <2>3, <2>4
<1> HIDE DEF R
<1>3. Recurses(R, r0, N, kept)
  <2> HIDE DEF kept
  <2> QED
    BY <1>1, <1>2, Recursion
<1>4. PICK f \in [0 .. N -> R] : f[0] = r0 /\ \A i \in 1 .. N : f[i] = kept[i][f[i - 1]]
  <2> HIDE DEF kept
  <2> QED
    BY <1>3 DEF Recurses
<1> DEFINE U == {n \in Nat : n <= N => f[n] \in T[n]}
<1>5. 0 \in U
  BY <1>4
<1>6. ASSUME NEW n \in Nat, n < N, f[n] \in T[n]
      PROVE  f[n + 1] = rule[n + 1][f[n]] /\ f[n + 1] \in T[n + 1]
  <2>1. n + 1 \in 1 .. N /\ (n + 1) - 1 = n /\ n \in 0 .. N
    BY <1>6
  <2>2. f[n] \in R
    BY <1>4, <2>1
  <2>3. f[n + 1] = kept[n + 1][f[n]]
    BY <1>4, <2>1
  <2>4. kept[n + 1][f[n]] = rule[n + 1][f[n]]
    BY <1>6, <2>1, <2>2
  <2>5. rule[n + 1][f[n]] \in T[n + 1]
    BY <1>6, <2>1
  <2> QED
    BY <2>3, <2>4, <2>5
<1>7. ASSUME NEW n \in Nat, n \in U PROVE n + 1 \in U
  <2>1. CASE n + 1 <= N
    <3>1. n < N /\ f[n] \in T[n]
      BY <1>7, <2>1
    <3> QED
      BY <1>6, <3>1
  <2> QED
    BY <2>1
<1>8. Nat \subseteq U
  <2> HIDE DEF U
  <2> QED
    BY <1>5, <1>7, NumbersInduct
<1>9. ASSUME NEW i \in 1 .. N PROVE f[i] = rule[i][f[i - 1]]
  <2>1. i - 1 \in Nat /\ i - 1 < N /\ (i - 1) + 1 = i
    OBVIOUS
  <2>2. f[i - 1] \in T[i - 1]
    BY <1>8, <2>1
  <2>3. f[(i - 1) + 1] = rule[(i - 1) + 1][f[i - 1]]
    <3> HIDE DEF U, kept
    <3> QED
      BY <1>6, <2>1, <2>2
  <2> QED
    BY <2>1, <2>3
<1>10. f \in [0 .. N -> UNION {T[i] : i \in 0 .. N}]
  BY <1>4 DEF R
<1> QED
  BY <1>4, <1>9, <1>10 DEF Folds

\* A function whose value at a point depends on its values at points of lower
\* rank exists, in whatever order it is computed.
Computed(D, V, rule) == \E f \in [D -> V] : \A d \in D : f[d] = rule[d][f]

LEMMA RankedRecursion ==
    ASSUME NEW N \in Nat, NEW D, NEW V, NEW v0 \in V, NEW rank \in [D -> 0 .. N],
           NEW rule \in [D -> [[D -> V] -> V]],
           \A d \in D : \A f, g \in [D -> V] :
              (\A c \in D : rank[c] < rank[d] => f[c] = g[c]) => rule[d][f] = rule[d][g]
    PROVE  Computed(D, V, rule)
<1> DEFINE F == [D -> V]
           step == [f \in F |-> [d \in D |-> rule[d][f]]]
           first == [d \in D |-> v0]
<1>1. first \in F /\ step \in [F -> F]
  OBVIOUS
<1>2. PICK run \in [Nat -> F] : run[0] = first /\ \A n \in Nat : run[n + 1] = step[run[n]]
  <2> HIDE DEF F, step, first
  <2>1. Iterates(F, first, step)
    BY <1>1, IterateNamed
  <2> QED
    BY <2>1 DEF Iterates
<1> HIDE DEF first
<1> DEFINE U == {n \in Nat : \A d \in D : rank[d] < n => run[n + 1][d] = run[n][d]}
<1>3. 0 \in U
  OBVIOUS
<1>4. ASSUME NEW n \in Nat, n \in U PROVE n + 1 \in U
  <2>1. ASSUME NEW d \in D, rank[d] < n + 1
        PROVE  run[n + 2][d] = run[n + 1][d]
    <3>1. /\ run[n] \in F /\ run[n + 1] \in F /\ run[n + 2] \in F
          /\ run[n + 1] = step[run[n]] /\ run[n + 2] = step[run[n + 1]]
      <4>1. n + 1 \in Nat /\ n + 2 \in Nat /\ (n + 1) + 1 = n + 2
        OBVIOUS
      <4> HIDE DEF F, step
      <4> QED
        BY <1>2, <4>1
    <3>2. run[n + 1][d] = rule[d][run[n]] /\ run[n + 2][d] = rule[d][run[n + 1]]
      BY <3>1
    <3>3. \A c \in D : rank[c] < rank[d] => run[n + 1][c] = run[n][c]
      BY <1>4, <2>1
    <3>4. rule[d][run[n]] = rule[d][run[n + 1]]
      BY <3>1, <3>3
    <3> QED
      BY <3>2, <3>4
  <2>2. n + 1 \in Nat /\ (n + 1) + 1 = n + 2
    OBVIOUS
  <2> QED
    BY <2>1, <2>2
<1>5. N + 1 \in U
  <2>1. Nat \subseteq U
    <3> HIDE DEF U
    <3> QED
      BY <1>3, <1>4, NumbersInduct
  <2> QED
    BY <2>1
<1> DEFINE found == run[N + 1]
<1>6. found \in F /\ run[N + 2] = step[found]
  <2>1. N + 1 \in Nat /\ (N + 1) + 1 = N + 2
    OBVIOUS
  <2> HIDE DEF F, step
  <2> QED
    BY <1>2, <2>1
<1>7. ASSUME NEW d \in D PROVE found[d] = rule[d][found]
  <2>1. run[N + 2][d] = rule[d][found]
    BY <1>6
  <2>2. rank[d] < N + 1 /\ (N + 1) + 1 = N + 2
    OBVIOUS
  <2>3. run[N + 2][d] = run[N + 1][d]
    BY <1>5, <2>2
  <2> QED
    BY <2>1, <2>3
<1> QED
  BY <1>6, <1>7 DEF Computed
================================================================================
