---------------------------- MODULE RawWriterProofs ----------------------------
(***************************************************************************)
(* Proofs about the raw files, for every size of the blocks, number of     *)
(* records, runs and failures.                                             *)
(*                                                                         *)
(* DiskInv, the types, is inductive alone and gives CaptureIsNeverRewritten *)
(* whatever fails.  StreamInv says where the writer is in the chain of its *)
(* run: which slice of the stream is in every file, and which slice is in  *)
(* the stream's buffer and block_.  It needs out_.flush() not to fail, as  *)
(* what a failed flush loses is not noticed before the file is closed.     *)
(*                                                                         *)
(* Every function of the writer has two lemmas: ...Keeps for DiskInv and   *)
(* ...Good for StreamInv.  What it returns is stated once, by ...Outcomes. *)
(***************************************************************************)
EXTENDS RawWriter, Induction, FiniteSetTheorems

-------------------------------------------------------------------------------
(* The sequence of all blocks of a sequence of blocks. *)

LEMMA AppendFacts ==
    ASSUME NEW X, NEW ss \in Seq(X), NEW x \in X
    PROVE  /\ Len(ss) \in Nat
           /\ Append(ss, x) \in Seq(X) /\ Len(Append(ss, x)) = Len(ss) + 1
           /\ Append(ss, x)[Len(ss) + 1] = x /\ Append(ss, x) # <<>>
           /\ \A i \in 1 .. Len(ss) : Append(ss, x)[i] = ss[i] /\ ss[i] \in X
           /\ Len(ss) = 0 <=> ss = <<>>
<1>1. /\ Len(ss) \in Nat
      /\ Append(ss, x) \in Seq(X) /\ Len(Append(ss, x)) = Len(ss) + 1
  OBVIOUS
<1>2. Append(ss, x)[Len(ss) + 1] = x /\ Append(ss, x) # <<>>
  OBVIOUS
<1>3. \A i \in 1 .. Len(ss) : Append(ss, x)[i] = ss[i] /\ ss[i] \in X
  OBVIOUS
<1> QED
  BY <1>1, <1>2, <1>3

LEMMA PrefixFacts ==
    ASSUME NEW X, NEW ss \in Seq(X)
    PROVE  /\ Len(ss) \in Nat
           /\ \A i \in 1 .. Len(ss) : ss[i] \in X
           /\ \A m \in 0 .. Len(ss) :
                 SubSeq(ss, 1, m) \in Seq(X) /\ Len(SubSeq(ss, 1, m)) = m
           /\ \A m \in 0 .. Len(ss) - 1 :
                 SubSeq(ss, 1, m + 1) = Append(SubSeq(ss, 1, m), ss[m + 1])
           /\ SubSeq(ss, 1, Len(ss)) = ss
<1>1. /\ Len(ss) \in Nat
      /\ \A i \in 1 .. Len(ss) : ss[i] \in X
      /\ SubSeq(ss, 1, Len(ss)) = ss
  OBVIOUS
<1>2. \A m \in 0 .. Len(ss) :
         SubSeq(ss, 1, m) \in Seq(X) /\ Len(SubSeq(ss, 1, m)) = m
  OBVIOUS
<1>3. \A m \in 0 .. Len(ss) - 1 :
         SubSeq(ss, 1, m + 1) = Append(SubSeq(ss, 1, m), ss[m + 1])
  OBVIOUS
<1> QED
  BY <1>1, <1>2, <1>3

LEMMA ConcatFacts ==
    ASSUME NEW X, NEW p \in Seq(X), NEW q \in Seq(X), NEW r \in Seq(X)
    PROVE  /\ p \o q \in Seq(X) /\ Len(p \o q) = Len(p) + Len(q)
           /\ (p \o q) \o r = p \o (q \o r)
           /\ p \o <<>> = p /\ <<>> \o p = p
  OBVIOUS

Associates(Z) == \A p, q, r \in Z : (p \o q) \o r = p \o (q \o r)

LEMMA ConcatAssociates == \A X : Associates(Seq(X))
<1> TAKE X
<1> QED
  BY DEF Associates

\* What FlattenSeq computes on its way.
Flattens(ss, g) ==
    g = [i \in 1 .. Len(ss) |-> IF i = 1 THEN ss[i] ELSE g[i - 1] \o ss[i]]

LEMMA FlattenStep ==
    ASSUME NEW S, NEW ss \in Seq(Seq(S)), NEW x \in Seq(S),
           NEW g \in [1 .. Len(ss) -> Seq(S)], Flattens(ss, g)
    PROVE  \E h \in [1 .. Len(ss) + 1 -> Seq(S)] :
              /\ Flattens(Append(ss, x), h)
              /\ h[Len(ss) + 1] = IF ss = <<>> THEN x ELSE g[Len(ss)] \o x
<1> DEFINE n == Len(ss)
           last == IF ss = <<>> THEN x ELSE g[n] \o x
           h == [i \in 1 .. n + 1 |-> IF i = n + 1 THEN last ELSE g[i]]
           more == Append(ss, x)
<1>1. n \in Nat /\ Len(more) = n + 1 /\ more[n + 1] = x
      /\ \A i \in 1 .. n : more[i] = ss[i] /\ ss[i] \in Seq(S)
  BY AppendFacts
<1>2. n = 0 <=> ss = <<>>
  BY AppendFacts
<1> HIDE DEF n, more
<1>3. last \in Seq(S)
  <2>1. CASE n = 0
    BY <1>2, <2>1
  <2>2. CASE n # 0
    <3>1. n \in 1 .. n
      BY <1>1, <2>2
    <3>2. g[n] \in Seq(S)
      BY <3>1 DEF n
    <3> QED
      BY <1>2, <2>2, <3>2, ConcatFacts
  <2> QED
    BY <2>1, <2>2
<1>4. h \in [1 .. n + 1 -> Seq(S)]
  <2> HIDE DEF last
  <2> QED
    BY <1>1, <1>3 DEF n
<1>5. ASSUME NEW i \in 1 .. n + 1
      PROVE  h[i] = IF i = 1 THEN more[i] ELSE h[i - 1] \o more[i]
  <2>1. CASE i = n + 1
    <3>1. CASE n = 0
      BY <1>1, <1>2, <2>1, <3>1
    <3>2. CASE n # 0
      BY <1>1, <1>2, <2>1, <3>2
    <3> QED
      BY <3>1, <3>2
  <2>2. CASE i # n + 1
    <3>1. i \in 1 .. n /\ i - 1 # n + 1 /\ (i # 1 => i - 1 \in 1 .. n + 1)
      BY <1>1, <2>2
    <3>2. g[i] = IF i = 1 THEN ss[i] ELSE g[i - 1] \o ss[i]
      BY <3>1 DEF Flattens, n
    <3> QED
      BY <1>1, <3>1, <3>2
  <2> QED
    BY <2>1, <2>2
<1>6. Flattens(more, h)
  <2>1. h = [i \in 1 .. n + 1 |-> h[i]]
    BY <1>4
  <2> HIDE DEF h
  <2> QED
    BY <1>1, <1>5, <2>1 DEF Flattens
<1>7. h[n + 1] = last
  BY <1>1
<1> QED
  BY <1>4, <1>6, <1>7 DEF n, more

\* It computes something, and only one thing.
LEMMA FlattenIs ==
    ASSUME NEW S, NEW ss \in Seq(Seq(S))
    PROVE  \E g \in [1 .. Len(ss) -> Seq(S)] :
              /\ Flattens(ss, g)
              /\ FlattenSeq(ss) = IF ss = <<>> THEN <<>> ELSE g[Len(ss)]
<1> DEFINE Done(n) == \A t \in Seq(Seq(S)) :
                          Len(t) = n => \E g \in [1 .. n -> Seq(S)] : Flattens(t, g)
           T == {n \in Nat : Done(n)}
<1>1. 0 \in T
  <2> SUFFICES ASSUME NEW t \in Seq(Seq(S)), Len(t) = 0
               PROVE  \E g \in [1 .. 0 -> Seq(S)] : Flattens(t, g)
    OBVIOUS
  <2> DEFINE g == [i \in 1 .. 0 |-> <<>>]
  <2>1. g \in [1 .. 0 -> Seq(S)] /\ Flattens(t, g)
    BY DEF Flattens
  <2> QED
    BY <2>1
<1>2. ASSUME NEW n \in Nat, n \in T
      PROVE  n + 1 \in T
  <2> SUFFICES ASSUME NEW t \in Seq(Seq(S)), Len(t) = n + 1
               PROVE  \E g \in [1 .. n + 1 -> Seq(S)] : Flattens(t, g)
    OBVIOUS
  <2> DEFINE u == SubSeq(t, 1, n)
             x == t[n + 1]
  <2>1. u \in Seq(Seq(S)) /\ Len(u) = n /\ x \in Seq(S) /\ t = Append(u, x)
    OBVIOUS
  <2>2. PICK g \in [1 .. n -> Seq(S)] : Flattens(u, g)
    BY <1>2, <2>1
  <2> HIDE DEF u, x
  <2> QED
    BY <2>1, <2>2, FlattenStep
<1>3. Done(Len(ss))
  <2>1. Nat \subseteq T
    <3> HIDE DEF T
    <3> QED
      BY <1>1, <1>2, NumbersInduct
  <2>2. Len(ss) \in Nat
    OBVIOUS
  <2> QED
    BY <2>1, <2>2
<1>4. PICK g \in [1 .. Len(ss) -> Seq(S)] : Flattens(ss, g)
  BY <1>3
<1>5. CASE ss = <<>>
  BY <1>4, <1>5 DEF FlattenSeq
<1>6. CASE ss # <<>>
  <2> DEFINE f == CHOOSE f : Flattens(ss, f)
             n == Len(ss)
  <2>1. n \in Nat /\ n # 0
    BY <1>6
  <2>2. FlattenSeq(ss) = f[n]
    BY <2>1 DEF FlattenSeq, Flattens
  <2>3. Flattens(ss, f)
    BY <1>4
  <2> HIDE DEF f
  <2> DEFINE U == {i \in Nat : i \in 1 .. n => f[i] = g[i]}
  <2>4. 0 \in U
    OBVIOUS
  <2>5. ASSUME NEW i \in Nat, i \in U PROVE i + 1 \in U
    <3> SUFFICES ASSUME i + 1 \in 1 .. n PROVE f[i + 1] = g[i + 1]
      OBVIOUS
    <3>1. i + 1 # 1 => i \in 1 .. n
      OBVIOUS
    <3>2. f[i + 1] = IF i + 1 = 1 THEN ss[i + 1] ELSE f[(i + 1) - 1] \o ss[i + 1]
      BY <2>3 DEF Flattens
    <3>3. g[i + 1] = IF i + 1 = 1 THEN ss[i + 1] ELSE g[(i + 1) - 1] \o ss[i + 1]
      BY <1>4 DEF Flattens
    <3>4. (i + 1) - 1 = i
      OBVIOUS
    <3> QED
      BY <2>5, <3>1, <3>2, <3>3, <3>4
  <2>6. Nat \subseteq U
    <3> HIDE DEF U
    <3> QED
      BY <2>4, <2>5, NumbersInduct
  <2>7. f[n] = g[n]
    BY <2>1, <2>6
  <2> QED
    BY <1>4, <1>6, <2>2, <2>7
<1> QED
  BY <1>5, <1>6

LEMMA FlattenAppend ==
    ASSUME NEW S, NEW ss \in Seq(Seq(S)), NEW x \in Seq(S)
    PROVE  /\ FlattenSeq(<<>>) = <<>>
           /\ FlattenSeq(ss) \in Seq(S)
           /\ FlattenSeq(Append(ss, x)) = FlattenSeq(ss) \o x
<1>1. FlattenSeq(<<>>) = <<>>
  BY DEF FlattenSeq
<1>2. PICK g \in [1 .. Len(ss) -> Seq(S)] :
         /\ Flattens(ss, g)
         /\ FlattenSeq(ss) = IF ss = <<>> THEN <<>> ELSE g[Len(ss)]
  BY FlattenIs
<1>3. FlattenSeq(ss) \in Seq(S)
  <2>1. Len(ss) \in Nat /\ (ss # <<>> => Len(ss) \in 1 .. Len(ss))
    BY AppendFacts
  <2>2. ss # <<>> => g[Len(ss)] \in Seq(S)
    BY <2>1
  <2> QED
    BY <1>2, <2>2
<1> DEFINE more == Append(ss, x)
<1>4. more \in Seq(Seq(S)) /\ Len(more) = Len(ss) + 1 /\ more # <<>> /\ Len(ss) \in Nat
      /\ \A i \in 1 .. Len(ss) : more[i] = ss[i]
  BY AppendFacts
<1>5. PICK h \in [1 .. Len(ss) + 1 -> Seq(S)] :
         /\ Flattens(more, h)
         /\ h[Len(ss) + 1] = IF ss = <<>> THEN x ELSE g[Len(ss)] \o x
  BY <1>2, FlattenStep
<1>6. PICK k \in [1 .. Len(more) -> Seq(S)] :
         Flattens(more, k) /\ FlattenSeq(more) = k[Len(more)]
  <2> HIDE DEF more
  <2> QED
    BY <1>4, FlattenIs
<1> HIDE DEF more
<1> DEFINE n == Len(ss)
           U == {i \in Nat : i \in 1 .. n + 1 => h[i] = k[i]}
<1>7. 0 \in U
  OBVIOUS
<1>8. ASSUME NEW i \in Nat, i \in U PROVE i + 1 \in U
  <2> SUFFICES ASSUME i + 1 \in 1 .. n + 1 PROVE h[i + 1] = k[i + 1]
    OBVIOUS
  <2>1. i + 1 # 1 => i \in 1 .. n + 1
    BY <1>4
  <2>2. h[i + 1] = IF i + 1 = 1 THEN more[i + 1] ELSE h[(i + 1) - 1] \o more[i + 1]
    BY <1>4, <1>5 DEF Flattens
  <2>3. k[i + 1] = IF i + 1 = 1 THEN more[i + 1] ELSE k[(i + 1) - 1] \o more[i + 1]
    BY <1>4, <1>6 DEF Flattens
  <2>4. (i + 1) - 1 = i
    OBVIOUS
  <2> QED
    BY <1>8, <2>1, <2>2, <2>3, <2>4
<1>9. Nat \subseteq U
  <2> HIDE DEF U
  <2> QED
    BY <1>7, <1>8, NumbersInduct
<1>10. FlattenSeq(more) = h[n + 1]
  BY <1>4, <1>6, <1>9
<1>11. FlattenSeq(more) = FlattenSeq(ss) \o x
  <2>1. CASE ss = <<>>
    BY <1>2, <1>5, <1>10, <2>1
  <2>2. CASE ss # <<>>
    BY <1>2, <1>5, <1>10, <2>2
  <2> QED
    BY <2>1, <2>2
<1> QED
  BY <1>1, <1>3, <1>11 DEF more

\* The first blocks are a prefix of all of them.
LEMMA FlattenPrefix ==
    ASSUME NEW S, NEW ss \in Seq(Seq(S)), NEW n \in 0 .. Len(ss)
    PROVE  /\ FlattenSeq(SubSeq(ss, 1, n)) \in Seq(S)
           /\ \E q \in Seq(S) : FlattenSeq(ss) = FlattenSeq(SubSeq(ss, 1, n)) \o q
<1> DEFINE F(m) == FlattenSeq(SubSeq(ss, 1, m))
           T == {m \in Nat : n + m <= Len(ss) => \E q \in Seq(S) : F(n + m) = F(n) \o q}
<1>1. n \in Nat /\ Len(ss) \in Nat /\ n <= Len(ss)
  BY PrefixFacts
<1>2. \A m \in 0 .. Len(ss) : SubSeq(ss, 1, m) \in Seq(Seq(S))
  BY PrefixFacts
<1>3. ASSUME NEW m \in 0 .. Len(ss) PROVE F(m) \in Seq(S)
  BY <1>2, FlattenAppend, <<>> \in Seq(S)
<1>4. ASSUME NEW m \in 0 .. Len(ss), m + 1 <= Len(ss)
      PROVE  F(m + 1) = F(m) \o ss[m + 1] /\ ss[m + 1] \in Seq(S)
  <2>1. SubSeq(ss, 1, m + 1) = Append(SubSeq(ss, 1, m), ss[m + 1]) /\ ss[m + 1] \in Seq(S)
    BY <1>1, <1>4, PrefixFacts
  <2> QED
    BY <1>2, <2>1, FlattenAppend
<1>5. F(Len(ss)) = FlattenSeq(ss)
  BY PrefixFacts
<1> HIDE DEF F
<1>6. 0 \in T
  <2>1. F(n) \in Seq(S) /\ <<>> \in Seq(S) /\ n + 0 = n
    BY <1>1, <1>3
  <2>2. F(n + 0) = F(n) \o <<>>
    BY <2>1, ConcatFacts
  <2> QED
    BY <2>1, <2>2
<1>7. ASSUME NEW m \in Nat, m \in T PROVE m + 1 \in T
  <2> SUFFICES ASSUME n + (m + 1) <= Len(ss)
               PROVE  \E q \in Seq(S) : F(n + (m + 1)) = F(n) \o q
    <3> m + 1 \in Nat
      OBVIOUS
    <3> QED
      OBVIOUS
  <2>1. n + m <= Len(ss) /\ n + m \in 0 .. Len(ss) /\ n + (m + 1) = (n + m) + 1
        /\ (n + m) + 1 <= Len(ss)
    BY <1>1
  <2>2. PICK q \in Seq(S) : F(n + m) = F(n) \o q
    BY <1>7, <2>1
  <2> DEFINE y == ss[(n + m) + 1]
  <2>3. F(n + (m + 1)) = F(n + m) \o y /\ y \in Seq(S)
    BY <1>4, <2>1
  <2> HIDE DEF y
  <2>4. F(n) \in Seq(S)
    BY <1>1, <1>3
  <2>5. Associates(Seq(S))
    BY ConcatAssociates
  <2>6. (F(n) \o q) \o y = F(n) \o (q \o y) /\ q \o y \in Seq(S)
    <3>1. (F(n) \o q) \o y = F(n) \o (q \o y)
      BY <2>3, <2>4, <2>5 DEF Associates
    <3>2. q \o y \in Seq(S)
      BY <2>3
    <3> QED
      BY <3>1, <3>2
  <2> QED
    BY <2>1, <2>2, <2>3, <2>6
<1>8. Nat \subseteq T
  <2> HIDE DEF T
  <2> QED
    BY <1>6, <1>7, NumbersInduct
<1>9. Len(ss) - n \in T /\ n + (Len(ss) - n) = Len(ss)
  <2>1. Len(ss) - n \in Nat /\ n + (Len(ss) - n) = Len(ss)
    BY <1>1
  <2> HIDE DEF T
  <2> QED
    BY <1>8, <2>1
<1>10. \E q \in Seq(S) : F(Len(ss)) = F(n) \o q
  <2> DEFINE m == Len(ss) - n
  <2>1. m \in T /\ n + m = Len(ss) /\ n + m <= Len(ss)
    BY <1>1, <1>9
  <2> HIDE DEF m
  <2>2. \E q \in Seq(S) : F(n + m) = F(n) \o q
    BY <2>1
  <2> QED
    BY <2>1, <2>2
<1> QED
  BY <1>1, <1>3, <1>5, <1>10 DEF F

-------------------------------------------------------------------------------
(* Consecutive records. *)

\* The records after number a, up to number z.
Slice(a, z) == [i \in 1 .. z - a |-> a + i]

LEMMA SliceFacts ==
    ASSUME NEW a \in Nat, NEW z \in Nat, a <= z
    PROVE  /\ Slice(a, z) \in Seq(Nat) /\ Len(Slice(a, z)) = z - a
           /\ Slice(a, a) = <<>> /\ Slice(0, z) = Count(z)
           /\ Append(Slice(a, z), z + 1) = Slice(a, z + 1)
<1>1. Slice(a, z) \in Seq(Nat) /\ Len(Slice(a, z)) = z - a
  BY DEF Slice
<1>2. Slice(a, a) = <<>>
  BY DEF Slice
<1>3. Slice(0, z) = Count(z)
  BY DEF Slice, Count
<1>4. Append(Slice(a, z), z + 1) = Slice(a, z + 1)
  BY DEF Slice
<1> QED
  BY <1>1, <1>2, <1>3, <1>4

\* Which sequence it is.
LEMMA SliceIs ==
    ASSUME NEW a \in Nat, NEW z \in Nat, a <= z, NEW p \in Seq(Nat)
    PROVE  p = Slice(a, z) <=> Len(p) = z - a /\ \A i \in 1 .. z - a : p[i] = a + i
<1>1. ASSUME p = Slice(a, z)
      PROVE  Len(p) = z - a /\ \A i \in 1 .. z - a : p[i] = a + i
  BY <1>1 DEF Slice
<1>2. ASSUME Len(p) = z - a, \A i \in 1 .. z - a : p[i] = a + i
      PROVE  p = Slice(a, z)
  <2>1. p = [i \in 1 .. z - a |-> p[i]]
    BY <1>2
  <2> QED
    BY <1>2, <2>1 DEF Slice
<1> QED
  BY <1>1, <1>2

\* Concatenation under a name, for the provers.
Joined(p, q) == p \o q

LEMMA JoinedElements ==
    ASSUME NEW X, NEW p \in Seq(X), NEW q \in Seq(X)
    PROVE  /\ Len(p) \in Nat /\ Len(q) \in Nat
           /\ Joined(p, q) \in Seq(X) /\ Len(Joined(p, q)) = Len(p) + Len(q)
           /\ \A i \in 1 .. Len(p) + Len(q) :
                 Joined(p, q)[i] = IF i <= Len(p) THEN p[i] ELSE q[i - Len(p)]
           /\ \A i \in 1 .. Len(p) : Joined(p, q)[i] = p[i]
           /\ \A i \in 1 .. Len(q) : Joined(p, q)[Len(p) + i] = q[i]
  BY DEF Joined

LEMMA SlicesJoin ==
    ASSUME NEW a \in Nat, NEW m \in Nat, NEW z \in Nat, a <= m, m <= z
    PROVE  Slice(a, m) \o Slice(m, z) = Slice(a, z)
<1>1. ASSUME NEW p \in Seq(Nat), p = Slice(a, m), NEW q \in Seq(Nat), q = Slice(m, z)
      PROVE  Joined(p, q) = Slice(a, z)
  <2> DEFINE both == Joined(p, q)
  <2>1. /\ Len(p) = m - a /\ \A i \in 1 .. m - a : p[i] = a + i
        /\ Len(q) = z - m /\ \A i \in 1 .. z - m : q[i] = m + i
    BY <1>1, SliceIs
  <2>2. /\ both \in Seq(Nat) /\ Len(both) = Len(p) + Len(q)
        /\ \A i \in 1 .. Len(p) + Len(q) :
              both[i] = IF i <= Len(p) THEN p[i] ELSE q[i - Len(p)]
    BY JoinedElements
  <2> HIDE DEF both
  <2>3. ASSUME NEW i \in 1 .. z - a PROVE both[i] = a + i
    <3>1. both[i] = IF i <= m - a THEN p[i] ELSE q[i - (m - a)]
      BY <2>1, <2>2
    <3>2. CASE i <= m - a
      BY <2>1, <3>1, <3>2
    <3>3. CASE ~(i <= m - a)
      <4>1. i - (m - a) \in 1 .. z - m /\ m + (i - (m - a)) = a + i
        BY <3>3
      <4> QED
        BY <2>1, <3>1, <3>3, <4>1
    <3> QED
      BY <3>2, <3>3
  <2>4. Len(both) = z - a
    BY <2>1, <2>2
  <2>5. a <= z
    OBVIOUS
  <2>6. both = Slice(a, z)
    BY ONLY <2>2, <2>3, <2>4, <2>5, a \in Nat, z \in Nat, SliceIs
  <2> QED
    BY <2>6 DEF both
<1>2. Slice(a, m) \in Seq(Nat) /\ Slice(m, z) \in Seq(Nat)
  BY SliceFacts
<1> QED
  BY <1>1, <1>2 DEF Joined

\* What two sequences make together is consecutive, so each of them is.
LEMMA SliceSplits ==
    ASSUME NEW a \in Nat, NEW z \in Nat, a <= z,
           NEW p \in Seq(Nat), NEW q \in Seq(Nat)
    PROVE  Joined(p, q) = Slice(a, z) =>
              /\ a + Len(p) \in Nat /\ a + Len(p) <= z
              /\ p = Slice(a, a + Len(p)) /\ q = Slice(a + Len(p), z)
<1> DEFINE both == Joined(p, q)
<1>1. /\ Len(p) \in Nat /\ Len(q) \in Nat
      /\ both \in Seq(Nat) /\ Len(both) = Len(p) + Len(q)
      /\ \A i \in 1 .. Len(p) : both[i] = p[i]
      /\ \A i \in 1 .. Len(q) : both[Len(p) + i] = q[i]
  BY DEF Joined
<1> HIDE DEF both
<1> SUFFICES ASSUME both = Slice(a, z)
             PROVE  /\ a + Len(p) \in Nat /\ a + Len(p) <= z
                    /\ p = Slice(a, a + Len(p)) /\ q = Slice(a + Len(p), z)
  BY DEF both
<1>8. Len(both) = z - a /\ \A i \in 1 .. z - a : both[i] = a + i
  BY <1>1, SliceIs
<1> DEFINE m == a + Len(p)
<1>3. m \in Nat /\ a <= m /\ m <= z /\ Len(p) = m - a /\ Len(q) = z - m
  <2>1. Len(p) \in Nat /\ Len(q) \in Nat /\ Len(p) + Len(q) = z - a
    BY <1>1, <1>8
  <2> QED
    BY <2>1
<1>4. ASSUME NEW i \in 1 .. m - a PROVE p[i] = a + i
  <2>1. i \in 1 .. Len(p) /\ i \in 1 .. z - a
    BY <1>3
  <2> QED
    BY <1>1, <1>8, <2>1
<1>5. ASSUME NEW i \in 1 .. z - m PROVE q[i] = m + i
  <2>1. i \in 1 .. Len(q) /\ Len(p) + i \in 1 .. z - a
    BY <1>1, <1>3
  <2>2. q[i] = a + (Len(p) + i)
    BY <1>1, <1>8, <2>1
  <2> QED
    BY <1>1, <2>1, <2>2
<1> HIDE DEF m
<1>6. p = Slice(a, m)
  BY <1>3, <1>4, SliceIs
<1>7. q = Slice(m, z)
  BY <1>3, <1>5, SliceIs
<1> QED
  BY <1>3, <1>6, <1>7 DEF m

\* Slices that continue each other, one after the other.
LEMMA SlicesFlatten ==
    ASSUME NEW ss \in Seq(Seq(Nat)), NEW b \in [Nat -> Nat], b[0] = 0,
           \A n \in 1 .. Len(ss) : b[n - 1] <= b[n] /\ ss[n] = Slice(b[n - 1], b[n])
    PROVE  FlattenSeq(ss) = Count(b[Len(ss)])
<1> DEFINE F(n) == FlattenSeq(SubSeq(ss, 1, n))
           T == {n \in Nat : n <= Len(ss) => F(n) = Slice(0, b[n])}
<1>1. Len(ss) \in Nat /\ F(Len(ss)) = FlattenSeq(ss)
  BY PrefixFacts
<1>2. F(0) = <<>>
  <2>1. SubSeq(ss, 1, 0) \in Seq(Seq(Nat)) /\ Len(SubSeq(ss, 1, 0)) = 0
    BY <1>1, PrefixFacts
  <2>2. SubSeq(ss, 1, 0) = <<>>
    BY <2>1
  <2> QED
    BY <2>2, FlattenAppend, <<>> \in Seq(Nat), <<>> \in Seq(Seq(Nat))
<1>3. ASSUME NEW n \in Nat, n + 1 <= Len(ss)
      PROVE  F(n + 1) = F(n) \o ss[n + 1]
  <2>1. n \in 0 .. Len(ss) /\ n \in 0 .. Len(ss) - 1 /\ n + 1 \in 1 .. Len(ss)
    BY <1>1, <1>3
  <2>2. /\ SubSeq(ss, 1, n) \in Seq(Seq(Nat)) /\ ss[n + 1] \in Seq(Nat)
        /\ SubSeq(ss, 1, n + 1) = Append(SubSeq(ss, 1, n), ss[n + 1])
    BY <2>1, PrefixFacts
  <2> QED
    BY <2>2, FlattenAppend
<1> HIDE DEF F
<1>4. 0 \in T
  BY <1>2, SliceFacts
<1>5. ASSUME NEW n \in Nat, n \in T PROVE n + 1 \in T
  <2> SUFFICES ASSUME n + 1 <= Len(ss) PROVE F(n + 1) = Slice(0, b[n + 1])
    OBVIOUS
  <2>1. n + 1 \in 1 .. Len(ss) /\ (n + 1) - 1 = n /\ n <= Len(ss)
    BY <1>1
  <2>2. F(n) = Slice(0, b[n])
    BY <1>5, <2>1
  <2>3. ss[n + 1] = Slice(b[n], b[n + 1]) /\ b[n] <= b[n + 1] /\ b[n] \in Nat /\ b[n + 1] \in Nat
    BY <2>1
  <2>4. Slice(0, b[n]) \o Slice(b[n], b[n + 1]) = Slice(0, b[n + 1])
    <3>1. 0 \in Nat /\ 0 <= b[n]
      BY <2>3
    <3> QED
      BY <2>3, <3>1, SlicesJoin
  <2> QED
    BY <1>3, <2>2, <2>3, <2>4
<1>6. Nat \subseteq T
  <2> HIDE DEF T
  <2> QED
    BY <1>4, <1>5, NumbersInduct
<1>7. F(Len(ss)) = Slice(0, b[Len(ss)]) /\ b[Len(ss)] \in Nat
  BY <1>1, <1>6
<1> QED
  BY <1>1, <1>7, SliceFacts

-------------------------------------------------------------------------------
(* Types of the writer, the disk and a call. *)

Paths == Nat \X Nat
MaybePath == Paths \cup {NoFile}

RawFile == [run : Nat, nth : Nat, records : Seq(Nat), whole : BOOLEAN]

Disks == UNION {[D -> RawFile] : D \in SUBSET Paths}

Writers ==
    [open : BOOLEAN, current_bucket : Nat, current_path : MaybePath,
     previous_file : MaybePath, segments_opened : Nat, segment_records : Nat,
     records_written : Nat, block : Seq(Nat), buffered : Seq(Seq(Nat)), broken : BOOLEAN]

ClosedFiles ==
    [path : MaybePath, previous_file : MaybePath, continuation : BOOLEAN, raw_records : Nat]

Calls ==
    [writer : Writers, files : Disks, tasks : SUBSET ClosedFiles, failures : Nat,
     faults : Nat, threw : BOOLEAN]

\* A call finds finitely many files on the disk, the open one among them.
Sane(c) ==
    /\ c \in Calls
    /\ IsFiniteSet(DOMAIN c.files)
    /\ c.writer.open => c.writer.current_path \in DOMAIN c.files

\* No file is gone, and none has lost what was in it.
Grows(F, G) ==
    \A p \in DOMAIN F : p \in DOMAIN G /\ IsPrefix(F[p].records, G[p].records)

LEMMA DiskFacts ==
    ASSUME NEW F
    PROVE  F \in Disks <=> /\ DOMAIN F \subseteq Paths
                           /\ F = [p \in DOMAIN F |-> F[p]]
                           /\ \A p \in DOMAIN F : F[p] \in RawFile
  BY DEF Disks

LEMMA PrefixOfMore ==
    ASSUME NEW X, NEW p \in Seq(X), NEW q \in Seq(X)
    PROVE  IsPrefix(p, p) /\ IsPrefix(p, p \o q)
  BY DEF IsPrefix

LEMMA PrefixChain ==
    ASSUME NEW X, NEW p \in Seq(X), NEW q \in Seq(X), NEW r \in Seq(X),
           IsPrefix(p, q), IsPrefix(q, r)
    PROVE  IsPrefix(p, r)
<1>1. /\ Len(p) \in Nat /\ Len(q) \in Nat /\ Len(r) \in Nat
      /\ Len(p) <= Len(q) /\ Len(q) <= Len(r)
  BY DEF IsPrefix
<1>2. ASSUME NEW i \in 1 .. Len(p) PROVE p[i] = r[i]
  <2>1. SubSeq(p, 1, Len(p))[i] = SubSeq(q, 1, Len(p))[i]
    BY DEF IsPrefix
  <2>2. p[i] = q[i]
    BY <1>1, <2>1
  <2>3. SubSeq(q, 1, Len(q))[i] = SubSeq(r, 1, Len(q))[i]
    BY DEF IsPrefix
  <2>4. q[i] = r[i]
    BY <1>1, <2>3
  <2> QED
    BY <2>2, <2>4
<1>3. SubSeq(p, 1, Len(p)) = SubSeq(r, 1, Len(p))
  BY <1>1, <1>2
<1> QED
  BY <1>1, <1>3 DEF IsPrefix

LEMMA GrowsOn ==
    ASSUME NEW F \in Disks, NEW G \in Disks, NEW H \in Disks
    PROVE  Grows(F, F) /\ (Grows(F, G) /\ Grows(G, H) => Grows(F, H))
<1>1. \A p \in DOMAIN F : F[p].records \in Seq(Nat)
  BY DiskFacts DEF RawFile
<1>2. \A p \in DOMAIN G : G[p].records \in Seq(Nat)
  BY DiskFacts DEF RawFile
<1>3. \A p \in DOMAIN H : H[p].records \in Seq(Nat)
  BY DiskFacts DEF RawFile
<1>4. Grows(F, F)
  BY <1>1, PrefixOfMore DEF Grows
<1>5. ASSUME Grows(F, G), Grows(G, H), NEW p \in DOMAIN F
      PROVE  p \in DOMAIN H /\ IsPrefix(F[p].records, H[p].records)
  <2>1. p \in DOMAIN G /\ IsPrefix(F[p].records, G[p].records)
    BY <1>5 DEF Grows
  <2>2. p \in DOMAIN H /\ IsPrefix(G[p].records, H[p].records)
    BY <1>5, <2>1 DEF Grows
  <2> QED
    BY <1>1, <1>2, <1>3, <2>1, <2>2, PrefixChain
<1> QED
  BY <1>4, <1>5 DEF Grows

\* The name the writer finds for a new file is free.
LEMMA FreePathIsFree ==
    ASSUME NEW c, Sane(c), NEW bucket \in Nat
    PROVE  FreePath(c, bucket) \in Paths \ DOMAIN c.files
<1> DEFINE M == {m \in DOMAIN c.files : m[1] = bucket}
           taken == {n[2] : n \in M}
           f == [n \in M |-> n[2]]
           k == Cardinality(taken)
           Free(a) == a \notin taken /\ \A b \in 0 .. a - 1 : b \in taken
           T == {a \in 0 .. k : a \notin taken}
<1>1. DOMAIN c.files \subseteq Paths /\ IsFiniteSet(DOMAIN c.files)
  BY DiskFacts DEF Sane, Calls
<1>2. IsFiniteSet(taken) /\ k \in Nat
  <2>1. IsFiniteSet(M)
    BY <1>1, FS_Subset
  <2>2. f \in Surjection(M, taken)
    BY DEF Surjection
  <2> HIDE DEF M, taken, f
  <2>3. IsFiniteSet(taken)
    BY <2>1, <2>2, FS_Surjection
  <2> QED
    BY <2>3, FS_CardinalityType
<1>3. taken \subseteq Nat
  BY <1>1 DEF Paths
<1> HIDE DEF taken, k
<1>4. T # {}
  <2> SUFFICES ASSUME 0 .. k \subseteq taken PROVE FALSE
    OBVIOUS
  <2>1. Cardinality(0 .. k) = k + 1
    BY <1>2, FS_Interval
  <2>2. Cardinality(0 .. k) <= k
    BY <1>2, FS_Subset DEF k
  <2> QED
    BY <1>2, <2>1, <2>2
<1>5. PICK a \in T : \A b \in T : a <= b
  <2> T \in SUBSET Nat
    BY <1>2
  <2> HIDE DEF T
  <2> QED
    BY <1>4, LeastNumber
<1>6. a \in 0 .. k /\ Free(a)
  <2>1. ASSUME NEW b \in 0 .. a - 1, b \notin taken PROVE FALSE
    <3>1. b \in 0 .. k /\ b < a
      BY <1>2, <1>5
    <3>2. b \in T
      BY <2>1, <3>1
    <3> QED
      BY <1>2, <1>5, <3>1, <3>2
  <2> QED
    BY <1>5, <2>1
<1>7. PICK x \in 0 .. k : Free(x) /\ FreePath(c, bucket) = <<bucket, x>>
  <2> DEFINE x == CHOOSE x \in 0 .. k : Free(x)
  <2>1. x \in 0 .. k /\ Free(x)
    BY <1>6
  <2>2. FreePath(c, bucket) = <<bucket, x>>
    BY DEF FreePath, taken, k
  <2> HIDE DEF x
  <2> QED
    BY <2>1, <2>2
<1>8. x \in Nat
  BY <1>2
<1>9. <<bucket, x>> \notin DOMAIN c.files
  <2> SUFFICES ASSUME <<bucket, x>> \in DOMAIN c.files PROVE x \in taken
    BY <1>7
  <2>1. <<bucket, x>> \in M
    OBVIOUS
  <2> QED
    BY <2>1 DEF taken
<1> QED
  BY <1>7, <1>8, <1>9 DEF Paths

-------------------------------------------------------------------------------
(* What the parts of a call do to the disk, whatever fails. *)

\* More records at the end of a file.
Put(F, p, more, whole) ==
    [F EXCEPT ![p] = [F[p] EXCEPT !.records = F[p].records \o more, !.whole = whole]]

LEMMA PutFacts ==
    ASSUME NEW F \in Disks, NEW p \in DOMAIN F, NEW more \in Seq(Nat), NEW whole \in BOOLEAN
    PROVE  /\ Put(F, p, more, whole) \in Disks
           /\ DOMAIN Put(F, p, more, whole) = DOMAIN F
           /\ Grows(F, Put(F, p, more, whole))
           /\ \A q \in DOMAIN F : q # p => Put(F, p, more, whole)[q] = F[q]
           /\ Put(F, p, more, whole)[p].run = F[p].run
           /\ Put(F, p, more, whole)[p].nth = F[p].nth
           /\ Put(F, p, more, whole)[p].records = F[p].records \o more
           /\ Put(F, p, more, whole)[p].whole = whole
<1> DEFINE G == Put(F, p, more, whole)
           file == [F[p] EXCEPT !.records = F[p].records \o more, !.whole = whole]
<1>1. /\ DOMAIN F \subseteq Paths /\ F = [q \in DOMAIN F |-> F[q]]
      /\ \A q \in DOMAIN F : F[q] \in RawFile /\ F[q].records \in Seq(Nat)
  BY DiskFacts DEF RawFile
<1>2. F[p].records \o more \in Seq(Nat)
  BY <1>1
<1>3. /\ file \in RawFile /\ file.run = F[p].run /\ file.nth = F[p].nth
      /\ file.records = F[p].records \o more /\ file.whole = whole
  BY <1>1, <1>2 DEF RawFile
<1> HIDE DEF file
<1>4. G = [q \in DOMAIN F |-> IF q = p THEN file ELSE F[q]]
  BY <1>1 DEF Put, file
<1> HIDE DEF G
<1>5. /\ DOMAIN G = DOMAIN F /\ G = [q \in DOMAIN G |-> G[q]]
      /\ G[p] = file /\ \A q \in DOMAIN F : q # p => G[q] = F[q]
  BY <1>4
<1>6. \A q \in DOMAIN G : G[q] \in RawFile
  BY <1>1, <1>3, <1>5
<1>7. G \in Disks
  BY <1>1, <1>5, <1>6, DiskFacts
<1>8. Grows(F, G)
  <2>1. ASSUME NEW q \in DOMAIN F PROVE IsPrefix(F[q].records, G[q].records)
    <3>1. CASE q = p
      <4>1. IsPrefix(F[p].records, F[p].records \o more)
        BY <1>1, PrefixOfMore
      <4> QED
        BY <3>1, <4>1, <1>3, <1>5
    <3>2. CASE q # p
      <4>1. IsPrefix(F[q].records, F[q].records)
        BY <1>1, PrefixOfMore
      <4> QED
        BY <3>2, <4>1, <1>5
    <3> QED
      BY <3>1, <3>2
  <2> QED
    BY <2>1, <1>5 DEF Grows
<1> QED
  BY <1>3, <1>5, <1>7, <1>8 DEF G

\* A stream that loses its buffer, the first n blocks of it to the file.
Landing(c, n, torn) ==
    [c EXCEPT !.files = Put(c.files, c.writer.current_path,
                            FlattenSeq(SubSeq(c.writer.buffered, 1, n)),
                            ~torn /\ (c.files[c.writer.current_path].whole \/ n > 0)),
              !.writer = [c.writer EXCEPT !.buffered = <<>>]]

LEMMA LandsIs ==
    ASSUME NEW c, Sane(c), c.writer.open, NEW n \in 0 .. Len(c.writer.buffered),
           NEW torn \in BOOLEAN
    PROVE  Lands(c, n, torn) = Landing(c, n, torn)
<1>1. c \in Calls /\ c.writer.current_path \in DOMAIN c.files
  BY DEF Sane
<1> DEFINE p == c.writer.current_path
           more == FlattenSeq(SubSeq(c.writer.buffered, 1, n))
<1>2. c.files \in Disks
  BY <1>1 DEF Calls
<1>3. c.files[p] \in RawFile
  BY <1>1, <1>2, DiskFacts
<1> HIDE DEF more
<1> DEFINE file == [c.files[p] EXCEPT !.records = @ \o more, !.whole = ~torn /\ (@ \/ n > 0)]
           file2 == [c.files[p] EXCEPT !.records = c.files[p].records \o more,
                                       !.whole = ~torn /\ (c.files[p].whole \/ n > 0)]
<1>4. file = file2
  BY <1>3 DEF RawFile
<1>5. Lands(c, n, torn) = [c EXCEPT !.files[p] = file, !.writer.buffered = <<>>]
  BY DEF Lands, more
<1>6. Landing(c, n, torn) = [c EXCEPT !.files = [c.files EXCEPT ![p] = file2],
                                      !.writer = [c.writer EXCEPT !.buffered = <<>>]]
  BY DEF Landing, Put, more
<1> HIDE DEF file, file2
<1> QED
  BY <1>1, <1>4, <1>5, <1>6 DEF Calls

LEMMA LandingFacts ==
    ASSUME NEW c, Sane(c), c.writer.open, NEW n \in 0 .. Len(c.writer.buffered),
           NEW torn \in BOOLEAN
    PROVE  /\ Sane(Landing(c, n, torn)) /\ Grows(c.files, Landing(c, n, torn).files)
           /\ Landing(c, n, torn).writer = [c.writer EXCEPT !.buffered = <<>>]
           /\ Landing(c, n, torn).files =
                 Put(c.files, c.writer.current_path,
                     FlattenSeq(SubSeq(c.writer.buffered, 1, n)),
                     ~torn /\ (c.files[c.writer.current_path].whole \/ n > 0))
           /\ Landing(c, n, torn).tasks = c.tasks
           /\ Landing(c, n, torn).failures = c.failures
           /\ Landing(c, n, torn).faults = c.faults
           /\ Landing(c, n, torn).threw = c.threw
<1> DEFINE d == Landing(c, n, torn)
           p == c.writer.current_path
           more == FlattenSeq(SubSeq(c.writer.buffered, 1, n))
           whole == ~torn /\ (c.files[p].whole \/ n > 0)
           G == Put(c.files, p, more, whole)
<1>1. /\ c \in Calls /\ p \in DOMAIN c.files /\ c.files \in Disks /\ c.writer \in Writers
      /\ c.writer.buffered \in Seq(Seq(Nat)) /\ IsFiniteSet(DOMAIN c.files)
  BY DEF Sane, Calls, Writers
<1>2. more \in Seq(Nat)
  BY <1>1, FlattenPrefix
<1>3. whole \in BOOLEAN
  OBVIOUS
<1>4. G \in Disks /\ DOMAIN G = DOMAIN c.files /\ Grows(c.files, G)
  <2> HIDE DEF more, whole, p
  <2> QED
    BY <1>1, <1>2, <1>3, PutFacts
<1>5. d = [c EXCEPT !.files = G, !.writer = [c.writer EXCEPT !.buffered = <<>>]]
  BY DEF Landing
<1>6. [c.writer EXCEPT !.buffered = <<>>] \in Writers
  BY <1>1, <<>> \in Seq(Seq(Nat)) DEF Writers
<1> HIDE DEF G, d
<1>7. /\ d.files = G /\ d.writer = [c.writer EXCEPT !.buffered = <<>>]
      /\ d.tasks = c.tasks /\ d.failures = c.failures
      /\ d.faults = c.faults /\ d.threw = c.threw
      /\ d \in Calls
  BY <1>1, <1>4, <1>5, <1>6 DEF Calls
<1>8. d.writer.open = c.writer.open /\ d.writer.current_path = p
  BY <1>1, <1>7 DEF Writers
<1>9. Sane(d)
  BY <1>1, <1>4, <1>7, <1>8 DEF Sane
<1> QED
  BY <1>4, <1>7, <1>9 DEF d, G

\* flush_locked when the stream takes the block.
Sent(c) ==
    [c EXCEPT !.writer = [c.writer EXCEPT !.buffered = Append(c.writer.buffered, c.writer.block),
                                          !.block = <<>>]]

\* flush_locked when the stream fails on the way.
SentInPart(c, n, torn) ==
    LET d == Landing([Sent(c) EXCEPT !.faults = c.faults + 1], n, torn)
    IN  [d EXCEPT !.writer = [d.writer EXCEPT !.block = c.writer.block, !.broken = TRUE],
                  !.threw = TRUE]

\* StreamFlush when the stream fails on the way.
FlushedInPart(c, n, torn) ==
    LET d == Landing([c EXCEPT !.faults = c.faults + 1], n, torn)
    IN  [d EXCEPT !.writer = [d.writer EXCEPT !.broken = TRUE]]

\* What any part of a call promises: the disk is sane and has all it had.
Keeps(c, d) == Sane(d) /\ Grows(c.files, d.files)

LEMMA KeepsOn ==
    ASSUME NEW c, NEW d, NEW e, Sane(c), Keeps(c, d), Keeps(d, e)
    PROVE  Keeps(c, e)
<1>1. c.files \in Disks /\ d.files \in Disks /\ e.files \in Disks
  BY DEF Keeps, Sane, Calls
<1> QED
  BY <1>1, GrowsOn DEF Keeps

LEMMA KeepsSame ==
    ASSUME NEW c, Sane(c), NEW d \in Calls, d.files = c.files,
           d.writer.open => c.writer.open /\ d.writer.current_path = c.writer.current_path
    PROVE  Keeps(c, d)
<1>1. c.files \in Disks
  BY DEF Sane, Calls
<1>2. Grows(c.files, d.files)
  BY <1>1, GrowsOn
<1> QED
  BY <1>2 DEF Keeps, Sane

LEMMA LandsInPartIs ==
    ASSUME NEW c, Sane(c), c.writer.open, NEW d \in LandsInPart(c)
    PROVE  \E n \in 0 .. Len(c.writer.buffered), torn \in BOOLEAN : d = Landing(c, n, torn)
<1>1. Len(c.writer.buffered) \in Nat
  BY DEF Sane, Calls, Writers
<1>2. \E n \in 0 .. Len(c.writer.buffered), torn \in BOOLEAN : d = Lands(c, n, torn)
  <2>1. CASE d = LandsWhole(c)
    <3>1. d = Lands(c, Len(c.writer.buffered), FALSE)
      BY <2>1 DEF LandsWhole
    <3>2. Len(c.writer.buffered) \in 0 .. Len(c.writer.buffered)
      BY <1>1
    <3> QED
      BY <3>1, <3>2
  <2>2. CASE d # LandsWhole(c)
    <3>1. PICK n \in 0 .. Len(c.writer.buffered) - 1, torn \in BOOLEAN : d = Lands(c, n, torn)
      BY <2>2 DEF LandsInPart
    <3>2. n \in 0 .. Len(c.writer.buffered)
      BY <1>1
    <3> QED
      BY <3>1, <3>2
  <2> QED
    BY <2>1, <2>2
<1> QED
  BY <1>2, LandsIs

LEMMA SentFacts ==
    ASSUME NEW c, Sane(c)
    PROVE  /\ Keeps(c, Sent(c)) /\ Keeps(c, [c EXCEPT !.faults = c.faults + 1])
           /\ Keeps(c, [Sent(c) EXCEPT !.faults = c.faults + 1])
<1> DEFINE d == Sent(c)
           w == [c.writer EXCEPT !.buffered = Append(c.writer.buffered, c.writer.block),
                                 !.block = <<>>]
<1>1. c \in Calls /\ c.writer \in Writers /\ c.faults + 1 \in Nat
      /\ Append(c.writer.buffered, c.writer.block) \in Seq(Seq(Nat)) /\ <<>> \in Seq(Nat)
  <2>1. c.writer.buffered \in Seq(Seq(Nat)) /\ c.writer.block \in Seq(Nat)
    BY DEF Sane, Calls, Writers
  <2>2. Append(c.writer.buffered, c.writer.block) \in Seq(Seq(Nat))
    BY <2>1, AppendFacts
  <2> QED
    BY <2>2 DEF Sane, Calls
<1>2. w \in Writers /\ w.open = c.writer.open /\ w.current_path = c.writer.current_path
  BY <1>1 DEF Writers
<1> HIDE DEF w
<1>3. d \in Calls /\ d.files = c.files /\ d.writer = w /\ d.faults = c.faults
  BY <1>1, <1>2 DEF Sent, Calls, w
<1>4. Keeps(c, d)
  BY <1>2, <1>3, KeepsSame
<1> HIDE DEF d
<1>5. Keeps(c, [c EXCEPT !.faults = c.faults + 1])
  <2> DEFINE e == [c EXCEPT !.faults = c.faults + 1]
  <2>1. e \in Calls /\ e.files = c.files /\ e.writer = c.writer
    BY <1>1 DEF Calls
  <2> HIDE DEF e
  <2>2. Keeps(c, e)
    BY <2>1, KeepsSame
  <2> QED
    BY <2>2 DEF e
<1>6. Keeps(c, [d EXCEPT !.faults = c.faults + 1])
  <2> DEFINE e == [d EXCEPT !.faults = c.faults + 1]
  <2>1. e \in Calls /\ e.files = c.files /\ e.writer = w
    BY <1>1, <1>3 DEF Calls
  <2> HIDE DEF e
  <2>2. Keeps(c, e)
    BY <1>2, <2>1, KeepsSame
  <2> QED
    BY <2>2 DEF e
<1> QED
  BY <1>4, <1>5, <1>6 DEF d

LEMMA FlushLockedOutcomes ==
    ASSUME NEW c, Sane(c), c.writer.open, NEW d \in FlushLocked(c)
    PROVE  \/ c.writer.block = <<>> /\ d = c
           \/ c.writer.block # <<>> /\ c.writer.broken /\ d = Throws(c)
           \/ c.writer.block # <<>> /\ ~c.writer.broken /\ d = Sent(c)
           \/ /\ c.writer.block # <<>> /\ ~c.writer.broken
              /\ \E n \in 0 .. Len(Sent(c).writer.buffered), torn \in BOOLEAN :
                    d = SentInPart(c, n, torn)
<1> DEFINE sent == [c EXCEPT !.writer.buffered = Append(@, c.writer.block), !.writer.block = <<>>]
           part == UNION {LandsInPart(f) : f \in Fails(sent, "block")}
           failed == {Throws([e EXCEPT !.writer.block = c.writer.block, !.writer.broken = TRUE]) :
                         e \in part}
<1>1. c \in Calls /\ c.writer \in Writers
  BY DEF Sane, Calls
<1>2. sent = Sent(c)
  BY <1>1 DEF Sent, Calls, Writers
<1>3. CASE c.writer.block = <<>>
  BY <1>3 DEF FlushLocked
<1>4. CASE c.writer.block # <<>> /\ c.writer.broken
  BY <1>4 DEF FlushLocked
<1>5. CASE c.writer.block # <<>> /\ ~c.writer.broken
  <2>1. d \in {sent} \cup failed
    BY <1>5 DEF FlushLocked
  <2>2. CASE d = sent
    BY <1>2, <1>5, <2>2
  <2>3. CASE d \in failed
    <3> HIDE DEF part, sent
    <3>1. PICK e \in part : d = Throws([e EXCEPT !.writer.block = c.writer.block,
                                                 !.writer.broken = TRUE])
      BY <2>3
    <3> DEFINE f == [Sent(c) EXCEPT !.faults = c.faults + 1]
    <3>2. e \in LandsInPart(f)
      <4>1. PICK g \in Fails(sent, "block") : e \in LandsInPart(g)
        BY DEF part
      <4>2. g = [sent EXCEPT !.faults = @ + 1]
        BY DEF Fails
      <4>3. Sent(c).faults = c.faults
        BY <1>1 DEF Sent, Calls
      <4> QED
        BY <1>2, <4>1, <4>2, <4>3
    <3>3. Sane(f) /\ f.writer = Sent(c).writer /\ f.writer.open
      <4>1. Keeps(c, f)
        BY SentFacts
      <4>2. Sent(c) \in Calls
        BY SentFacts DEF Keeps, Sane
      <4>3. f.writer = Sent(c).writer
        BY <4>2 DEF Calls
      <4>4. Sent(c).writer.open
        BY <1>1 DEF Sent, Calls, Writers
      <4> QED
        BY <4>1, <4>3, <4>4 DEF Keeps
    <3> HIDE DEF f
    <3>4. PICK n \in 0 .. Len(f.writer.buffered), torn \in BOOLEAN : e = Landing(f, n, torn)
      BY <3>2, <3>3, LandsInPartIs
    <3>5. e \in Calls
      BY <3>3, <3>4, LandingFacts DEF Sane
    <3>6. d = [e EXCEPT !.writer = [e.writer EXCEPT !.block = c.writer.block, !.broken = TRUE],
                        !.threw = TRUE]
      BY <3>1, <3>5 DEF Throws, Calls, Writers
    <3>7. d = SentInPart(c, n, torn)
      BY <3>4, <3>6 DEF SentInPart, f
    <3> QED
      BY <1>5, <3>3, <3>7
  <2> QED
    BY <2>1, <2>2, <2>3
<1> QED
  BY <1>3, <1>4, <1>5

LEMMA StreamFlushOutcomes ==
    ASSUME NEW c, Sane(c), c.writer.open, NEW d \in StreamFlush(c)
    PROVE  \/ c.writer.broken /\ d = c
           \/ ~c.writer.broken /\ d = Landing(c, Len(c.writer.buffered), FALSE)
           \/ /\ ~c.writer.broken /\ "flush" \in FaultKinds
              /\ \E n \in 0 .. Len(c.writer.buffered), torn \in BOOLEAN :
                    d = FlushedInPart(c, n, torn)
<1>1. c \in Calls /\ c.writer \in Writers /\ Len(c.writer.buffered) \in Nat
  BY DEF Sane, Calls, Writers
<1> DEFINE part == UNION {LandsInPart(f) : f \in Fails(c, "flush")}
           failed == {[e EXCEPT !.writer.broken = TRUE] : e \in part}
<1>2. CASE c.writer.broken
  BY <1>2 DEF StreamFlush
<1>3. CASE ~c.writer.broken
  <2>1. d \in {LandsWhole(c)} \cup failed
    BY <1>3 DEF StreamFlush
  <2>2. CASE d = LandsWhole(c)
    <3>1. Len(c.writer.buffered) \in 0 .. Len(c.writer.buffered)
      BY <1>1
    <3>2. d = Landing(c, Len(c.writer.buffered), FALSE)
      BY <2>2, <3>1, LandsIs DEF LandsWhole
    <3> QED
      BY <1>3, <3>2
  <2>3. CASE d \in failed
    <3> HIDE DEF part
    <3>1. PICK e \in part : d = [e EXCEPT !.writer.broken = TRUE]
      BY <2>3
    <3> DEFINE f == [c EXCEPT !.faults = c.faults + 1]
    <3>2. e \in LandsInPart(f) /\ "flush" \in FaultKinds
      <4>1. PICK g \in Fails(c, "flush") : e \in LandsInPart(g)
        BY DEF part
      <4> QED
        BY <4>1 DEF Fails
    <3>3. Sane(f) /\ f.writer = c.writer
      <4>1. Keeps(c, f)
        BY SentFacts
      <4>2. f.writer = c.writer
        BY <1>1 DEF Calls
      <4> QED
        BY <4>1, <4>2 DEF Keeps
    <3> HIDE DEF f
    <3>4. PICK n \in 0 .. Len(f.writer.buffered), torn \in BOOLEAN : e = Landing(f, n, torn)
      BY <3>2, <3>3, LandsInPartIs
    <3>5. e \in Calls
      BY <3>3, <3>4, LandingFacts DEF Sane
    <3>6. d = [e EXCEPT !.writer = [e.writer EXCEPT !.broken = TRUE]]
      BY <3>1, <3>5 DEF Calls, Writers
    <3>7. d = FlushedInPart(c, n, torn)
      BY <3>4, <3>6 DEF FlushedInPart, f
    <3> QED
      BY <1>3, <3>2, <3>3, <3>7
  <2> QED
    BY <2>1, <2>2, <2>3
<1> QED
  BY <1>2, <1>3

\* d is the call c after a block of which only n buffered ones reached the file.
Landed(c, d, n, torn) ==
    /\ d.writer = [c.writer EXCEPT !.buffered = <<>>, !.broken = TRUE]
    /\ d.files = Put(c.files, c.writer.current_path,
                     FlattenSeq(SubSeq(Sent(c).writer.buffered, 1, n)),
                     ~torn /\ (c.files[c.writer.current_path].whole \/ n > 0))
    /\ d.tasks = c.tasks /\ d.failures = c.failures /\ d.threw

LEMMA SentInPartFacts ==
    ASSUME NEW c, Sane(c), c.writer.open, NEW n \in 0 .. Len(Sent(c).writer.buffered),
           NEW torn \in BOOLEAN
    PROVE  Keeps(c, SentInPart(c, n, torn)) /\ Landed(c, SentInPart(c, n, torn), n, torn)
<1> DEFINE f == [Sent(c) EXCEPT !.faults = c.faults + 1]
           d == Landing(f, n, torn)
           e == SentInPart(c, n, torn)
<1>1. c \in Calls /\ c.writer \in Writers /\ Sent(c) \in Calls
  BY SentFacts DEF Keeps, Sane, Calls
<1>2. /\ f.writer = Sent(c).writer /\ f.files = Sent(c).files /\ f.tasks = Sent(c).tasks
      /\ f.failures = Sent(c).failures
  BY <1>1 DEF Calls
<1>3. /\ Sent(c).writer.open /\ Sent(c).files = c.files /\ Sent(c).tasks = c.tasks
      /\ Sent(c).failures = c.failures
      /\ Sent(c).writer = [c.writer EXCEPT !.buffered = Append(c.writer.buffered, c.writer.block),
                                           !.block = <<>>]
      /\ Sent(c).writer.current_path = c.writer.current_path
  BY <1>1 DEF Sent, Calls, Writers
<1>4. Keeps(c, f)
  BY SentFacts
<1> HIDE DEF f
<1>5. Sane(f) /\ f.writer.open /\ n \in 0 .. Len(f.writer.buffered)
  BY <1>2, <1>3, <1>4 DEF Keeps
<1>6. /\ Sane(d) /\ Grows(f.files, d.files)
      /\ d.writer = [f.writer EXCEPT !.buffered = <<>>]
      /\ d.files = Put(f.files, f.writer.current_path,
                       FlattenSeq(SubSeq(f.writer.buffered, 1, n)),
                       ~torn /\ (f.files[f.writer.current_path].whole \/ n > 0))
      /\ d.tasks = f.tasks /\ d.failures = f.failures
  BY <1>5, LandingFacts
<1>7. e = [d EXCEPT !.writer = [d.writer EXCEPT !.block = c.writer.block, !.broken = TRUE],
                    !.threw = TRUE]
  BY DEF SentInPart, f
<1> HIDE DEF d, e
<1>8. d \in Calls /\ d.writer \in Writers /\ c.writer.block \in Seq(Nat)
  BY <1>1, <1>6 DEF Sane, Calls, Writers
<1> DEFINE v == [d.writer EXCEPT !.block = c.writer.block, !.broken = TRUE]
<1>9. v \in Writers /\ v.open = d.writer.open /\ v.current_path = d.writer.current_path
  BY <1>8 DEF Writers
<1>10. v = [c.writer EXCEPT !.buffered = <<>>, !.broken = TRUE]
  <2>1. ASSUME NEW w \in Writers, NEW x
        PROVE  [[[w EXCEPT !.buffered = x, !.block = <<>>] EXCEPT !.buffered = <<>>]
                  EXCEPT !.block = w.block, !.broken = TRUE]
               = [w EXCEPT !.buffered = <<>>, !.broken = TRUE]
    BY DEF Writers
  <2>2. d.writer = [[c.writer EXCEPT !.buffered = Append(c.writer.buffered, c.writer.block),
                                     !.block = <<>>] EXCEPT !.buffered = <<>>]
    BY <1>2, <1>3, <1>6
  <2> QED
    BY <1>1, <2>1, <2>2
<1> HIDE DEF v
<1>11. /\ e \in Calls /\ e.writer = v /\ e.files = d.files /\ e.tasks = d.tasks
       /\ e.failures = d.failures /\ e.threw = TRUE
  BY <1>7, <1>8, <1>9 DEF Calls, v
<1>12. Keeps(d, e)
  BY <1>6, <1>9, <1>11, KeepsSame
<1>13. Keeps(c, e)
  <2>1. Keeps(f, d)
    BY <1>6 DEF Keeps
  <2> QED
    BY <1>4, <1>5, <1>6, <1>12, <2>1, KeepsOn
<1>14. e.files = Put(c.files, c.writer.current_path,
                     FlattenSeq(SubSeq(Sent(c).writer.buffered, 1, n)),
                     ~torn /\ (c.files[c.writer.current_path].whole \/ n > 0))
  BY <1>2, <1>3, <1>6, <1>11
<1>15. Landed(c, e, n, torn)
  BY <1>2, <1>3, <1>6, <1>10, <1>11, <1>14 DEF Landed
<1> QED
  BY <1>13, <1>15 DEF e

LEMMA FlushedInPartFacts ==
    ASSUME NEW c, Sane(c), c.writer.open, NEW n \in 0 .. Len(c.writer.buffered),
           NEW torn \in BOOLEAN
    PROVE  Keeps(c, FlushedInPart(c, n, torn)) /\ FlushedInPart(c, n, torn).writer.open
<1> DEFINE f == [c EXCEPT !.faults = c.faults + 1]
           d == Landing(f, n, torn)
           e == FlushedInPart(c, n, torn)
<1>1. Keeps(c, f) /\ f.writer = c.writer
  BY SentFacts DEF Sane, Calls
<1> HIDE DEF f
<1>2. Sane(d) /\ Grows(f.files, d.files) /\ d.writer = [f.writer EXCEPT !.buffered = <<>>]
  BY <1>1, LandingFacts DEF Keeps
<1>3. e = [d EXCEPT !.writer = [d.writer EXCEPT !.broken = TRUE]]
  BY DEF FlushedInPart, f
<1> HIDE DEF d, e
<1>4. d \in Calls /\ d.writer \in Writers
  BY <1>2 DEF Sane, Calls
<1> DEFINE v == [d.writer EXCEPT !.broken = TRUE]
<1>5. v \in Writers /\ v.open = d.writer.open /\ v.current_path = d.writer.current_path
  BY <1>4 DEF Writers
<1> HIDE DEF v
<1>6. e \in Calls /\ e.writer = v /\ e.files = d.files
  BY <1>3, <1>4, <1>5 DEF Calls, v
<1>7. Keeps(d, e)
  BY <1>2, <1>5, <1>6, KeepsSame
<1>8. Keeps(c, e)
  <2>1. Keeps(f, d) /\ Sane(f)
    BY <1>1, <1>2 DEF Keeps
  <2> QED
    BY <1>1, <1>2, <1>7, <2>1, KeepsOn
<1>9. e.writer.open
  <2>1. c.writer \in Writers
    BY DEF Sane, Calls
  <2> QED
    BY <1>1, <1>2, <1>5, <1>6, <2>1 DEF Writers
<1> QED
  BY <1>8, <1>9 DEF e

\* flush_locked and out_.flush() leave the file open.
LEMMA FlushLockedKeeps ==
    ASSUME NEW c, Sane(c), c.writer.open, NEW d \in FlushLocked(c)
    PROVE  Keeps(c, d) /\ d.writer.open
<1>1. c \in Calls /\ c.writer \in Writers
  BY DEF Sane, Calls
<1>2. ASSUME d = c
      PROVE  Keeps(c, d) /\ d.writer.open
  BY <1>1, <1>2, KeepsSame
<1>3. ASSUME d = Throws(c)
      PROVE  Keeps(c, d) /\ d.writer.open
  <2>1. d \in Calls /\ d.files = c.files /\ d.writer = c.writer
    BY <1>1, <1>3 DEF Throws, Calls
  <2> QED
    BY <2>1, KeepsSame
<1>4. ASSUME d = Sent(c)
      PROVE  Keeps(c, d) /\ d.writer.open
  <2>1. Sent(c).writer.open
    BY <1>1 DEF Sent, Calls, Writers
  <2> QED
    BY <1>4, <2>1, SentFacts
<1>5. ASSUME NEW n \in 0 .. Len(Sent(c).writer.buffered), NEW torn \in BOOLEAN,
             d = SentInPart(c, n, torn)
      PROVE  Keeps(c, d) /\ d.writer.open
  <2>1. Keeps(c, d) /\ Landed(c, d, n, torn)
    BY <1>5, SentInPartFacts
  <2>2. d.writer = [c.writer EXCEPT !.buffered = <<>>, !.broken = TRUE]
    BY <2>1 DEF Landed
  <2> QED
    BY <1>1, <2>1, <2>2 DEF Writers
<1> QED
  BY <1>2, <1>3, <1>4, <1>5, FlushLockedOutcomes

LEMMA StreamFlushKeeps ==
    ASSUME NEW c, Sane(c), c.writer.open, NEW d \in StreamFlush(c)
    PROVE  Keeps(c, d) /\ d.writer.open
<1>1. c \in Calls /\ c.writer \in Writers /\ Len(c.writer.buffered) \in Nat
  BY DEF Sane, Calls, Writers
<1>2. ASSUME d = c
      PROVE  Keeps(c, d) /\ d.writer.open
  BY <1>1, <1>2, KeepsSame
<1>3. ASSUME d = Landing(c, Len(c.writer.buffered), FALSE)
      PROVE  Keeps(c, d) /\ d.writer.open
  <2> DEFINE n == Len(c.writer.buffered)
  <2>2. n \in 0 .. Len(c.writer.buffered) /\ FALSE \in BOOLEAN
    BY <1>1
  <2> HIDE DEF n
  <2>1. Keeps(c, d) /\ d.writer = [c.writer EXCEPT !.buffered = <<>>]
    BY <1>3, <2>2, LandingFacts DEF Keeps, n
  <2> QED
    BY <1>1, <2>1 DEF Writers
<1>4. ASSUME NEW n \in 0 .. Len(c.writer.buffered), NEW torn \in BOOLEAN,
             d = FlushedInPart(c, n, torn)
      PROVE  Keeps(c, d) /\ d.writer.open
  BY <1>4, FlushedInPartFacts
<1> QED
  BY <1>2, <1>3, <1>4, StreamFlushOutcomes

\* A writer whose file is closed.
Closing(w) == [w EXCEPT !.open = FALSE, !.previous_file = w.current_path]

LEMMA CloseStreamOutcomes ==
    ASSUME NEW c, Sane(c), c.writer.open, NEW d \in CloseStream(c)
    PROVE  /\ Keeps(c, d) /\ ~d.writer.open /\ d.files = c.files
           /\ c.writer.broken => d.threw
           /\ ~c.writer.broken =>
                 /\ d.writer = Closing(c.writer) /\ d.threw = c.threw
                 /\ \/ d.tasks = c.tasks \cup {ClosedRawFile(c.writer)} /\ d.failures = c.failures
                    \/ d.tasks = c.tasks /\ d.failures = c.failures + 1
<1> DEFINE v == [c.writer EXCEPT !.open = FALSE]
           closed == [c EXCEPT !.writer.open = FALSE]
<1>1. /\ c \in Calls /\ c.writer \in Writers /\ c.files \in Disks
      /\ ClosedRawFile(c.writer) \in ClosedFiles /\ c.tasks \subseteq ClosedFiles
      /\ c.failures + 1 \in Nat /\ c.faults + 1 \in Nat
  BY DEF Sane, Calls, Writers, ClosedRawFile, ClosedFiles
<1>2. v \in Writers /\ v.open = FALSE /\ ClosedRawFile(v) = ClosedRawFile(c.writer)
  BY <1>1 DEF Writers, ClosedRawFile
<1>3. Closing(c.writer) \in Writers /\ Closing(c.writer).open = FALSE
      /\ Closing(c.writer) = [v EXCEPT !.previous_file = c.writer.current_path]
  BY <1>1 DEF Writers, Closing
<1> HIDE DEF v
<1>4. /\ closed \in Calls /\ closed.writer = v /\ closed.files = c.files
      /\ closed.tasks = c.tasks /\ closed.failures = c.failures /\ closed.faults = c.faults
      /\ closed.threw = c.threw
  BY <1>1, <1>2 DEF Calls, v
<1> HIDE DEF closed
<1>5. CASE c.writer.broken
  <2>1. d = Throws(closed)
    BY <1>5 DEF CloseStream, closed
  <2>2. d \in Calls /\ d.files = c.files /\ d.writer = v /\ d.threw
    BY <1>4, <2>1 DEF Throws, Calls
  <2> QED
    BY <1>2, <1>5, <2>2, KeepsSame
<1>6. CASE ~c.writer.broken
  <2>1. PICK e \in FileClosed(closed) : d = [e EXCEPT !.writer.previous_file = c.writer.current_path]
    BY <1>6 DEF CloseStream, closed
  <2>2. /\ e \in Calls /\ e.writer = v /\ e.files = c.files /\ e.threw = c.threw
        /\ \/ e.tasks = c.tasks \cup {ClosedRawFile(c.writer)} /\ e.failures = c.failures
           \/ e.tasks = c.tasks /\ e.failures = c.failures + 1
    <3>1. CASE e = [closed EXCEPT !.tasks = @ \cup {ClosedRawFile(closed.writer)}]
      <4>1. c.tasks \cup {ClosedRawFile(c.writer)} \subseteq ClosedFiles
        BY <1>1
      <4> QED
        BY <1>2, <1>4, <3>1, <4>1 DEF Calls
    <3>2. CASE e \in {[f EXCEPT !.failures = @ + 1] : f \in Fails(closed, "start")}
      <4>1. PICK f \in Fails(closed, "start") : e = [f EXCEPT !.failures = @ + 1]
        BY <3>2
      <4>2. f = [closed EXCEPT !.faults = @ + 1]
        BY DEF Fails
      <4> QED
        BY <1>1, <1>4, <4>1, <4>2 DEF Calls
    <3> QED
      BY <2>1, <3>1, <3>2 DEF FileClosed
  <2>3. /\ d \in Calls /\ d.writer = Closing(c.writer) /\ d.files = e.files
        /\ d.threw = e.threw /\ d.tasks = e.tasks /\ d.failures = e.failures
    BY <1>3, <2>1, <2>2 DEF Calls
  <2>4. Keeps(c, d)
    BY <1>3, <2>2, <2>3, KeepsSame
  <2> QED
    BY <1>3, <1>6, <2>2, <2>3, <2>4
<1> QED
  BY <1>5, <1>6

\* A call that has opened a file.
Opened(c, bucket) ==
    [c EXCEPT !.files = [p \in DOMAIN c.files \cup {FreePath(c, bucket)} |->
                           IF p = FreePath(c, bucket) THEN NewFile(c) ELSE c.files[p]],
              !.writer = [c.writer EXCEPT !.open = TRUE, !.current_bucket = bucket,
                                          !.current_path = FreePath(c, bucket),
                                          !.segments_opened = c.writer.segments_opened + 1,
                                          !.segment_records = 0,
                                          !.buffered = << <<>> >>, !.broken = FALSE]]

LEMMA OpenedFacts ==
    ASSUME NEW c, Sane(c), NEW bucket \in Nat, run \in Nat
    PROVE  /\ Keeps(c, Opened(c, bucket)) /\ Opened(c, bucket).writer.open
           /\ FreePath(c, bucket) \in Paths \ DOMAIN c.files
           /\ DOMAIN Opened(c, bucket).files = DOMAIN c.files \cup {FreePath(c, bucket)}
           /\ Opened(c, bucket).files[FreePath(c, bucket)] = NewFile(c)
           /\ \A p \in DOMAIN c.files : Opened(c, bucket).files[p] = c.files[p]
           /\ Opened(c, bucket).writer =
                 [c.writer EXCEPT !.open = TRUE, !.current_bucket = bucket,
                                  !.current_path = FreePath(c, bucket),
                                  !.segments_opened = c.writer.segments_opened + 1,
                                  !.segment_records = 0,
                                  !.buffered = << <<>> >>, !.broken = FALSE]
           /\ Opened(c, bucket).tasks = c.tasks
           /\ Opened(c, bucket).failures = c.failures
           /\ Opened(c, bucket).threw = c.threw
<1> DEFINE path == FreePath(c, bucket)
           d == Opened(c, bucket)
           G == [p \in DOMAIN c.files \cup {path} |-> IF p = path THEN NewFile(c) ELSE c.files[p]]
           v == [c.writer EXCEPT !.open = TRUE, !.current_bucket = bucket,
                                 !.current_path = path,
                                 !.segments_opened = c.writer.segments_opened + 1,
                                 !.segment_records = 0,
                                 !.buffered = << <<>> >>, !.broken = FALSE]
<1>1. /\ c \in Calls /\ c.writer \in Writers /\ c.files \in Disks /\ IsFiniteSet(DOMAIN c.files)
      /\ c.writer.segments_opened \in Nat
  BY DEF Sane, Calls, Writers
<1>2. path \in Paths \ DOMAIN c.files
  BY FreePathIsFree
<1>3. d = [c EXCEPT !.files = G, !.writer = v]
  BY DEF Opened
<1>4. NewFile(c) \in RawFile
  BY <1>1, <<>> \in Seq(Nat) DEF NewFile, RawFile
<1> HIDE DEF path, d
<1>5. /\ DOMAIN G = DOMAIN c.files \cup {path}
      /\ G[path] = NewFile(c)
      /\ \A p \in DOMAIN c.files : G[p] = c.files[p]
      /\ G = [p \in DOMAIN G |-> G[p]]
  BY <1>2
<1> HIDE DEF G
<1>6. G \in Disks
  <2>1. DOMAIN G \subseteq Paths /\ \A p \in DOMAIN G : G[p] \in RawFile
    BY <1>1, <1>2, <1>4, <1>5, DiskFacts
  <2> QED
    BY <1>5, <2>1, DiskFacts
<1>7. v \in Writers /\ v.open /\ v.current_path = path
  <2>1. << <<>> >> \in Seq(Seq(Nat))
    OBVIOUS
  <2>2. path \in MaybePath /\ c.writer.segments_opened + 1 \in Nat
    BY <1>1, <1>2 DEF MaybePath
  <2> QED
    BY <1>1, <2>1, <2>2 DEF Writers
<1> HIDE DEF v
<1>8. /\ d \in Calls /\ d.files = G /\ d.writer = v /\ d.tasks = c.tasks
      /\ d.failures = c.failures /\ d.threw = c.threw
  BY <1>1, <1>3, <1>6, <1>7 DEF Calls
<1>9. Sane(d)
  <2>1. IsFiniteSet(DOMAIN G)
    BY <1>1, <1>5, FS_AddElement
  <2> QED
    BY <1>5, <1>7, <1>8, <2>1 DEF Sane
<1>10. Grows(c.files, G)
  <2>1. ASSUME NEW p \in DOMAIN c.files
        PROVE  IsPrefix(c.files[p].records, G[p].records)
    <3>1. c.files[p].records \in Seq(Nat)
      BY <1>1, DiskFacts DEF RawFile
    <3> QED
      BY <1>5, <3>1, PrefixOfMore
  <2> QED
    BY <1>5, <2>1 DEF Grows
<1> QED
  BY <1>2, <1>5, <1>7, <1>8, <1>9, <1>10 DEF Keeps, d, path, v

LEMMA OpenSegmentOutcomes ==
    ASSUME NEW c, Sane(c), NEW bucket \in Nat, run \in Nat, NEW d \in OpenSegment(c, bucket)
    PROVE  \/ d = Opened(c, bucket)
           \/ /\ Keeps(c, d) /\ d.threw /\ d.files = c.files /\ d.writer = c.writer
              /\ d.tasks = c.tasks /\ d.failures = c.failures
<1>1. c \in Calls /\ c.writer \in Writers
  BY DEF Sane, Calls
<1> DEFINE opened == [c.writer EXCEPT !.open = TRUE, !.current_bucket = bucket,
                                      !.current_path = FreePath(c, bucket),
                                      !.segments_opened = @ + 1, !.segment_records = 0,
                                      !.buffered = << <<>> >>, !.broken = FALSE]
           disk == [p \in DOMAIN c.files \cup {FreePath(c, bucket)} |->
                       IF p = FreePath(c, bucket) THEN NewFile(c) ELSE c.files[p]]
           e == [c EXCEPT !.files = disk, !.writer = opened]
<1>2. e = Opened(c, bucket)
  BY DEF Opened
<1>3. d = e \/ d \in {Throws(f) : f \in Fails(c, "open")}
  BY DEF OpenSegment
<1>4. CASE d \in {Throws(f) : f \in Fails(c, "open")}
  <2>1. PICK f \in Fails(c, "open") : d = Throws(f)
    BY <1>4
  <2>2. f = [c EXCEPT !.faults = @ + 1] /\ c.faults + 1 \in Nat
    BY <1>1 DEF Fails, Calls
  <2>3. /\ d \in Calls /\ d.threw /\ d.files = c.files /\ d.writer = c.writer
        /\ d.tasks = c.tasks /\ d.failures = c.failures
    BY <1>1, <2>1, <2>2 DEF Calls, Throws
  <2>4. Keeps(c, d)
    BY <2>3, KeepsSame
  <2> QED
    BY <2>3, <2>4
<1> QED
  BY <1>2, <1>3, <1>4

LEMMA CloseSegmentKeeps ==
    ASSUME NEW c, Sane(c), NEW d \in CloseSegment(c)
    PROVE  Keeps(c, d)
<1>1. CASE ~c.writer.open
  <2>1. d = c /\ c \in Calls
    BY <1>1 DEF CloseSegment, Sane
  <2> QED
    BY <2>1, KeepsSame
<1>2. CASE c.writer.open
  <2>1. PICK e \in Then(FlushLocked(c), StreamFlush) :
           d \in IF e.threw THEN {e} ELSE CloseStream(e)
    BY <1>2 DEF CloseSegment, Then
  <2>2. PICK f \in FlushLocked(c) : e \in IF f.threw THEN {f} ELSE StreamFlush(f)
    BY <2>1 DEF Then
  <2>3. Keeps(c, f) /\ f.writer.open
    BY <1>2, FlushLockedKeeps
  <2>4. Keeps(c, e) /\ e.writer.open
    <3>1. CASE f.threw
      BY <2>2, <2>3, <3>1
    <3>2. CASE ~f.threw
      <4>1. Sane(f) /\ e \in StreamFlush(f)
        BY <2>2, <2>3, <3>2 DEF Keeps
      <4>2. Keeps(f, e) /\ e.writer.open
        BY <2>3, <4>1, StreamFlushKeeps
      <4> QED
        BY <2>3, <4>2, KeepsOn
    <3> QED
      BY <3>1, <3>2
  <2>5. CASE e.threw
    BY <2>1, <2>4, <2>5
  <2>6. CASE ~e.threw
    <3>1. Sane(e) /\ d \in CloseStream(e)
      BY <2>1, <2>4, <2>6 DEF Keeps
    <3>2. Keeps(e, d)
      BY <2>4, <3>1, CloseStreamOutcomes
    <3> QED
      BY <2>4, <3>2, KeepsOn
  <2> QED
    BY <2>5, <2>6
<1> QED
  BY <1>1, <1>2

LEMMA FlushKeeps ==
    ASSUME NEW c, Sane(c), NEW d \in Flush(c)
    PROVE  Keeps(c, d)
<1>1. CASE ~c.writer.open
  <2>1. d = c /\ c \in Calls
    BY <1>1 DEF Flush, Sane
  <2> QED
    BY <2>1, KeepsSame
<1>2. CASE c.writer.open
  <2>1. PICK f \in FlushLocked(c) : d \in IF f.threw THEN {f} ELSE StreamFlush(f)
    BY <1>2 DEF Flush, Then
  <2>2. Keeps(c, f) /\ f.writer.open
    BY <1>2, FlushLockedKeeps
  <2>3. CASE f.threw
    BY <2>1, <2>2, <2>3
  <2>4. CASE ~f.threw
    <3>1. Sane(f) /\ d \in StreamFlush(f)
      BY <2>1, <2>2, <2>4 DEF Keeps
    <3>2. Keeps(f, d)
      BY <2>2, <3>1, StreamFlushKeeps
    <3> QED
      BY <2>2, <3>2, KeepsOn
  <2> QED
    BY <2>3, <2>4
<1> QED
  BY <1>1, <1>2

LEMMA RotateKeeps ==
    ASSUME NEW c, Sane(c), NEW bucket \in Nat, run \in Nat, NEW d \in Rotate(c, bucket)
    PROVE  Keeps(c, d) /\ (d.threw \/ d.writer.open)
<1>0. ASSUME NEW e, Sane(e), d \in OpenSegment(e, bucket)
      PROVE  Keeps(e, d) /\ (d.threw \/ d.writer.open)
  <2>1. CASE d = Opened(e, bucket)
    BY <1>0, <2>1, OpenedFacts
  <2>2. CASE d # Opened(e, bucket)
    BY <1>0, <2>2, OpenSegmentOutcomes
  <2> QED
    BY <2>1, <2>2
<1>1. CASE ~c.writer.open
  <2>1. d \in OpenSegment(c, bucket)
    BY <1>1 DEF Rotate
  <2> QED
    BY <1>0, <2>1
<1>2. CASE c.writer.open /\ bucket > c.writer.current_bucket
  <2>1. PICK e \in CloseSegment(c) : d \in IF e.threw THEN {e} ELSE OpenSegment(e, bucket)
    BY <1>2 DEF Rotate, Then
  <2>2. Keeps(c, e)
    BY CloseSegmentKeeps
  <2>3. CASE e.threw
    BY <2>1, <2>2, <2>3
  <2>4. CASE ~e.threw
    <3>1. Sane(e) /\ d \in OpenSegment(e, bucket)
      BY <2>1, <2>2, <2>4 DEF Keeps
    <3> QED
      BY <1>0, <2>2, <3>1, KeepsOn
  <2> QED
    BY <2>3, <2>4
<1>3. CASE c.writer.open /\ ~(bucket > c.writer.current_bucket)
  <2>1. d = c /\ c \in Calls
    BY <1>3 DEF Rotate, Sane
  <2> QED
    BY <1>3, <2>1, KeepsSame
<1> QED
  BY <1>1, <1>2, <1>3

\* A call whose writer has one more record in block_.
Added(c) ==
    [c EXCEPT !.writer = [c.writer EXCEPT !.block = Append(c.writer.block, c.writer.records_written + 1),
                                          !.records_written = c.writer.records_written + 1,
                                          !.segment_records = c.writer.segment_records + 1]]

LEMMA AddedFacts ==
    ASSUME NEW c, Sane(c)
    PROVE  /\ Keeps(c, Added(c)) /\ Added(c).files = c.files /\ Added(c).tasks = c.tasks
           /\ Added(c).failures = c.failures /\ Added(c).threw = c.threw
           /\ Added(c).writer =
                 [c.writer EXCEPT !.block = Append(c.writer.block, c.writer.records_written + 1),
                                  !.records_written = c.writer.records_written + 1,
                                  !.segment_records = c.writer.segment_records + 1]
           /\ Added(c).writer.open = c.writer.open
<1> DEFINE d == Added(c)
           v == [c.writer EXCEPT !.block = Append(c.writer.block, c.writer.records_written + 1),
                                 !.records_written = c.writer.records_written + 1,
                                 !.segment_records = c.writer.segment_records + 1]
<1>1. /\ c \in Calls /\ c.writer \in Writers /\ c.writer.block \in Seq(Nat)
      /\ c.writer.records_written \in Nat /\ c.writer.segment_records \in Nat
  BY DEF Sane, Calls, Writers
<1>2. /\ Append(c.writer.block, c.writer.records_written + 1) \in Seq(Nat)
      /\ c.writer.records_written + 1 \in Nat /\ c.writer.segment_records + 1 \in Nat
  BY <1>1
<1>3. v \in Writers /\ v.open = c.writer.open /\ v.current_path = c.writer.current_path
  BY <1>1, <1>2 DEF Writers
<1> HIDE DEF v
<1>4. /\ d \in Calls /\ d.writer = v /\ d.files = c.files /\ d.tasks = c.tasks
      /\ d.failures = c.failures /\ d.threw = c.threw
  BY <1>1, <1>3 DEF Added, Calls, v
<1> HIDE DEF d
<1>5. Keeps(c, d)
  BY <1>3, <1>4, KeepsSame
<1> QED
  BY <1>3, <1>4, <1>5 DEF d, v

LEMMA AppendRecordOutcomes ==
    ASSUME NEW c, Sane(c), NEW d \in AppendRecord(c)
    PROVE  d = Added(c) \/ d \in FlushLocked(Added(c))
<1> DEFINE w == c.writer
           added == [w EXCEPT !.block = Append(@, w.records_written + 1),
                              !.records_written = @ + 1, !.segment_records = @ + 1]
           e == [c EXCEPT !.writer = added]
<1>1. e = Added(c)
  BY DEF Added
<1>2. d \in IF Len(added.block) >= BlockTarget THEN FlushLocked(e) ELSE {e}
  BY DEF AppendRecord
<1> HIDE DEF e, added
<1> QED
  BY <1>1, <1>2

LEMMA WriteKeeps ==
    ASSUME Sane(Now), NEW bucket \in Nat, run \in Nat, NEW d \in Write(bucket)
    PROVE  Keeps(Now, d)
<1> DEFINE c == Now
<1>1. PICK e \in Rotate(c, bucket) : d \in IF e.threw THEN {e} ELSE AppendRecord(e)
  BY DEF Write, Then
<1> HIDE DEF c
<1>2. Keeps(c, e) /\ (e.threw \/ e.writer.open)
  BY RotateKeeps DEF c
<1>3. CASE e.threw
  BY <1>1, <1>2, <1>3 DEF c
<1>4. CASE ~e.threw
  <2>1. Sane(e) /\ e.writer.open /\ d \in AppendRecord(e)
    BY <1>1, <1>2, <1>4 DEF Keeps
  <2>2. Keeps(e, Added(e)) /\ Added(e).writer.open
    BY <2>1, AddedFacts
  <2>3. Keeps(e, d)
    <3>1. CASE d = Added(e)
      BY <2>2, <3>1
    <3>2. CASE d \in FlushLocked(Added(e))
      <4>1. Keeps(Added(e), d)
        BY <2>2, <3>2, FlushLockedKeeps DEF Keeps
      <4> QED
        BY <2>1, <2>2, <4>1, KeepsOn
    <3> QED
      BY <2>1, <3>1, <3>2, AppendRecordOutcomes
  <2> QED
    BY <1>2, <2>3, KeepsOn DEF c
<1> QED
  BY <1>3, <1>4

LEMMA DestroyedKeeps ==
    ASSUME NEW c, Sane(c), NEW d \in Destroyed(c)
    PROVE  Keeps(c, d)
<1> DEFINE e == [c EXCEPT !.threw = FALSE]
<1>1. e \in Calls /\ e.files = c.files /\ e.writer = c.writer
  BY DEF Sane, Calls
<1>2. Keeps(c, e)
  <2> HIDE DEF e
  <2> QED
    BY <1>1, KeepsSame
<1>3. d \in CloseSegment(e)
  BY DEF Destroyed
<1> HIDE DEF e
<1>4. Keeps(e, d)
  BY <1>2, <1>3, CloseSegmentKeeps DEF Keeps
<1> QED
  BY <1>2, <1>4, KeepsOn

\* What Shutdown returns with.
LEMMA ShutdownKeeps ==
    ASSUME Sane(Now), NEW c \in Then(Flush(Now), CloseSegment),
           NEW d \in IF c.threw THEN Destroyed(c) ELSE {c}
    PROVE  Keeps(Now, d)
<1> DEFINE n == Now
<1>1. PICK e \in Flush(n) : c \in IF e.threw THEN {e} ELSE CloseSegment(e)
  BY DEF Then
<1> HIDE DEF n
<1>2. Keeps(n, e) /\ Sane(n)
  BY FlushKeeps DEF n
<1>3. Keeps(n, c)
  <2>1. CASE e.threw
    BY <1>1, <1>2, <2>1
  <2>2. CASE ~e.threw
    <3>1. Keeps(e, c)
      BY <1>1, <1>2, <2>2, CloseSegmentKeeps DEF Keeps
    <3> QED
      BY <1>2, <3>1, KeepsOn
  <2> QED
    BY <2>1, <2>2
<1>4. CASE c.threw
  <2>1. Keeps(c, d)
    BY <1>3, <1>4, DestroyedKeeps DEF Keeps
  <2> QED
    BY <1>2, <1>3, <2>1, KeepsOn DEF n
<1>5. CASE ~c.threw
  BY <1>3, <1>5 DEF n
<1> QED
  BY <1>4, <1>5

-------------------------------------------------------------------------------
(* Captured data is never rewritten. *)

DiskInv == Sane(Now) /\ run \in Nat

\* What a step of the process promises.
DiskKept == DiskInv' /\ Grows(files, files')

\* The state after a call.
LEMMA AfterCall ==
    ASSUME NEW c, Keeps(Now, c), Returns(c)
    PROVE  Sane(Now)' /\ Grows(files, files')
<1>1. /\ c \in Calls /\ IsFiniteSet(DOMAIN c.files) /\ Grows(files, c.files)
      /\ c.writer.open => c.writer.current_path \in DOMAIN c.files
  BY DEF Keeps, Sane, Now
<1>2. /\ writer' = c.writer /\ files' = c.files /\ tasks' = c.tasks
      /\ failures' = c.failures /\ faults' = c.faults
  BY DEF Returns
<1> DEFINE n == [writer |-> c.writer, files |-> c.files, tasks |-> c.tasks,
                 failures |-> c.failures, faults |-> c.faults, threw |-> FALSE]
<1>3. n \in Calls /\ n.writer = c.writer /\ n.files = c.files
  BY <1>1 DEF Calls
<1>4. Now' = n
  BY <1>2 DEF Now
<1> HIDE DEF n
<1>5. Sane(n)
  BY <1>1, <1>3 DEF Sane
<1>6. Sane(Now')
  BY <1>4, <1>5
<1> QED
  BY <1>1, <1>2, <1>6 DEF Sane, Now

LEMMA NowFacts ==
    ASSUME Sane(Now)
    PROVE  /\ writer \in Writers /\ files \in Disks /\ tasks \subseteq ClosedFiles
           /\ failures \in Nat /\ faults \in Nat /\ IsFiniteSet(DOMAIN files)
           /\ writer.open => writer.current_path \in DOMAIN files
  BY DEF Sane, Now, Calls

LEMMA NowIsSane ==
    ASSUME NEW w \in Writers, NEW F \in Disks, NEW t \in SUBSET ClosedFiles,
           NEW k \in Nat, NEW u \in Nat, IsFiniteSet(DOMAIN F),
           w.open => w.current_path \in DOMAIN F
    PROVE  Sane([writer |-> w, files |-> F, tasks |-> t, failures |-> k,
                 faults |-> u, threw |-> FALSE])
  BY DEF Sane, Calls

LEMMA NewWriterType == NewWriter \in Writers /\ ~NewWriter.open
<1>1. <<>> \in Seq(Nat) /\ <<>> \in Seq(Seq(Nat)) /\ NoFile \in MaybePath
  BY DEF MaybePath
<1> QED
  BY <1>1 DEF NewWriter, Writers

LEMMA DiskInit == WInit => DiskInv
<1> SUFFICES ASSUME WInit PROVE DiskInv
  OBVIOUS
<1>1. /\ writer = NewWriter /\ files = <<>> /\ tasks = {} /\ failures = 0
      /\ run = 1 /\ faults = 0
  BY DEF WInit
<1>2. files \in Disks /\ IsFiniteSet(DOMAIN files)
  <2>1. DOMAIN files = {}
    BY <1>1
  <2>2. files = [p \in DOMAIN files |-> files[p]]
    BY <1>1
  <2> QED
    BY <2>1, <2>2, DiskFacts, FS_EmptySet
<1>3. Sane([writer |-> writer, files |-> files, tasks |-> tasks, failures |-> failures,
            faults |-> faults, threw |-> FALSE])
  <2>1. tasks \in SUBSET ClosedFiles /\ failures \in Nat /\ faults \in Nat
        /\ writer \in Writers /\ ~writer.open
    BY <1>1, NewWriterType
  <2> QED
    BY <1>2, <2>1, NowIsSane
<1> QED
  BY <1>1, <1>3 DEF DiskInv, Now

LEMMA DiskStep ==
    ASSUME DiskInv, [WNext]_wvars
    PROVE  DiskKept
<1>0. Sane(Now) /\ run \in Nat /\ Grows(files, files) /\ MaxBucket \in Nat
      /\ writer \in Writers /\ files \in Disks /\ tasks \subseteq ClosedFiles
      /\ failures \in Nat /\ faults \in Nat /\ IsFiniteSet(DOMAIN files)
      /\ (writer.open => writer.current_path \in DOMAIN files)
  BY NowFacts, GrowsOn, WriterAssumption DEF DiskInv
<1>a. ASSUME NEW c, Keeps(Now, c), Returns(c), run' = run PROVE DiskKept
  BY <1>0, <1>a, AfterCall DEF DiskInv, DiskKept
<1>b. ASSUME writer' \in Writers, files' \in Disks, tasks' \in SUBSET ClosedFiles,
             failures' \in Nat, faults' \in Nat, IsFiniteSet(DOMAIN files'),
             writer'.open => writer'.current_path \in DOMAIN files',
             run' \in Nat, Grows(files, files')
      PROVE  DiskKept
  <2>1. Sane([writer |-> writer', files |-> files', tasks |-> tasks', failures |-> failures',
              faults |-> faults', threw |-> FALSE])
    BY <1>b, NowIsSane
  <2> QED
    BY <1>b, <2>1 DEF DiskInv, DiskKept, Now
<1>1. ASSUME NEW bucket \in 0 .. MaxBucket, WriteRecord(bucket) PROVE DiskKept
  <2>1. bucket \in Nat
    BY <1>0
  <2>2. PICK c \in Write(bucket) :
           \/ \E d \in Destroyed(c) : Returns(d)
           \/ Returns(c)
    BY <1>1 DEF WriteRecord
  <2>3. Keeps(Now, c)
    BY <1>0, <2>1, WriteKeeps
  <2>4. run' = run
    BY <1>1 DEF WriteRecord
  <2>5. ASSUME NEW d \in Destroyed(c), Returns(d) PROVE DiskKept
    <3>1. Keeps(c, d)
      BY <2>3, DestroyedKeeps DEF Keeps
    <3>2. Keeps(Now, d)
      BY <1>0, <2>3, <3>1, KeepsOn
    <3> QED
      BY <1>a, <2>4, <2>5, <3>2
  <2>6. CASE Returns(c)
    BY <1>a, <2>3, <2>4, <2>6
  <2> QED
    BY <2>2, <2>5, <2>6
<1>2. CASE PeriodicFlush
  <2>1. PICK c \in Flush(Now) : Returns(c)
    BY <1>2 DEF PeriodicFlush
  <2>2. Keeps(Now, c) /\ run' = run
    BY <1>0, <1>2, FlushKeeps DEF PeriodicFlush
  <2> QED
    BY <1>a, <2>1, <2>2
<1>3. CASE Shutdown
  <2>1. PICK c \in Then(Flush(Now), CloseSegment) :
           \E d \in IF c.threw THEN Destroyed(c) ELSE {c} : Returns(d)
    BY <1>3 DEF Shutdown
  <2>2. PICK d \in IF c.threw THEN Destroyed(c) ELSE {c} : Returns(d)
    BY <2>1
  <2>3. Keeps(Now, d) /\ run' = run
    BY <1>0, <1>3, ShutdownKeeps DEF Shutdown
  <2> QED
    BY <1>a, <2>2, <2>3
<1>4. CASE Exit
  BY <1>0, <1>4, <1>b DEF Exit
<1>5. ASSUME NEW file \in tasks, Publish(file) PROVE DiskKept
  <2>1. tasks' \in SUBSET ClosedFiles
    BY <1>0, <1>5 DEF Publish
  <2> QED
    BY <1>0, <1>5, <1>b, <2>1 DEF Publish
<1>6. ASSUME NEW file \in tasks, PublishFails(file) PROVE DiskKept
  <2>1. tasks' \in SUBSET ClosedFiles /\ failures' \in Nat /\ faults' \in Nat
    BY <1>0, <1>6 DEF PublishFails
  <2> QED
    BY <1>0, <1>6, <1>b, <2>1 DEF PublishFails
<1>7. CASE Crash
  <2>1. files' \in Disks /\ IsFiniteSet(DOMAIN files') /\ Grows(files, files')
    <3>1. CASE files' = files
      BY <1>0, <3>1
    <3>2. CASE files' # files
      <4> DEFINE n == Now
      <4>1. n.files = files /\ n.writer = writer
        BY DEF Now
      <4>2. PICK c \in LandsInPart(n) : files' = c.files /\ writer.open
        BY <1>7, <3>2 DEF Crash, Now
      <4> HIDE DEF n
      <4>3. PICK k \in 0 .. Len(n.writer.buffered), torn \in BOOLEAN : c = Landing(n, k, torn)
        BY <1>0, <4>1, <4>2, LandsInPartIs DEF n
      <4>4. Sane(c) /\ Grows(files, c.files)
        BY <1>0, <4>1, <4>2, <4>3, LandingFacts DEF n
      <4> QED
        BY <4>2, <4>4 DEF Sane, Calls
    <3> QED
      BY <3>1, <3>2
  <2>2. writer' \in Writers /\ ~writer'.open /\ tasks' = {} /\ run' = run
        /\ failures' = failures /\ faults' = faults
    BY <1>7, NewWriterType DEF Crash
  <2> QED
    BY <1>0, <1>b, <2>1, <2>2
<1>8. CASE Restart
  <2>1. writer' \in Writers /\ ~writer'.open /\ tasks' = tasks /\ run' = run + 1
        /\ failures' = 0 /\ faults' = faults /\ files' = files
    BY <1>8, NewWriterType DEF Restart
  <2> QED
    BY <1>0, <1>b, <2>1
<1>9. CASE UNCHANGED wvars
  BY <1>0, <1>9, <1>b DEF wvars
<1>10. CASE \E file \in tasks : Publish(file) \/ PublishFails(file)
  BY <1>5, <1>6, <1>10
<1>11. CASE \E bucket \in 0 .. MaxBucket : WriteRecord(bucket)
  BY <1>1, <1>11
<1>12. CASE WNext
  BY <1>2, <1>3, <1>4, <1>7, <1>8, <1>10, <1>11, <1>12 DEF WNext
<1> QED
  BY <1>9, <1>12

THEOREM DiskInvariant == WSpec => []DiskInv
<1>1. DiskInv /\ [WNext]_wvars => DiskInv'
  BY DiskStep DEF DiskKept
<1> QED
  BY <1>1, DiskInit, PTL DEF WSpec

\* Whatever fails and however the clock jumps, no call of the writer, restart or
\* crash removes a file of the capture or changes what is already in it.
THEOREM CaptureStays == WSpec => CaptureIsNeverRewritten
<1>1. DiskInv /\ [WNext]_wvars =>
         [\A p \in DOMAIN files :
             p \in DOMAIN files' /\ IsPrefix(files[p].records, files'[p].records)]_wvars
  BY DiskStep DEF DiskKept, Grows
<1> QED
  BY <1>1, DiskInvariant, PTL DEF WSpec, CaptureIsNeverRewritten

-------------------------------------------------------------------------------
(* What is in the files, while a flush of the stream does not fail.        *)
(*                                                                         *)
(* The files of a run are its files in the order of their numbers, s, and  *)
(* what is in the n-th of them are the records after b[n - 1] up to b[n].  *)

Chain(F, r, s, b) ==
    /\ s \in Seq(Paths) /\ b \in [Nat -> Nat] /\ b[0] = 0
    /\ \A n \in 1 .. Len(s) :
          /\ s[n] \in DOMAIN F /\ F[s[n]].run = r /\ F[s[n]].nth = n
          /\ b[n - 1] <= b[n] /\ F[s[n]].records = Slice(b[n - 1], b[n])
    /\ \A p \in DOMAIN F : F[p].run = r => \E n \in 1 .. Len(s) : p = s[n]

\* Where the writer is in the chain of its run.  A writer whose stream has
\* failed keeps the block that failed, and never gets past it.
Writes(w, F, s, b) ==
    /\ w.segments_opened = Len(s)
    /\ ~w.open =>
          /\ w.block = <<>> /\ w.buffered = <<>> /\ ~w.broken
          /\ w.records_written = b[Len(s)]
          /\ w.previous_file = IF Len(s) = 0 THEN NoFile ELSE s[Len(s)]
    /\ w.open =>
          /\ Len(s) > 0 /\ w.current_path = s[Len(s)]
          /\ w.segment_records = w.records_written - b[Len(s) - 1]
          /\ w.previous_file = IF Len(s) = 1 THEN NoFile ELSE s[Len(s) - 1]
    /\ w.open /\ w.broken => w.block # <<>>
    /\ w.open /\ ~w.broken =>
          /\ b[Len(s)] <= w.records_written
          /\ Joined(FlattenSeq(w.buffered), w.block) = Slice(b[Len(s)], w.records_written)
          /\ F[s[Len(s)]].whole \/ w.buffered # <<>>

\* What a task or a manifest says of a file is so.
Told(F, p, m) ==
    /\ p \in DOMAIN F /\ F[p].whole
    /\ m.raw_records = Len(F[p].records)
    /\ m.continuation = (F[p].nth > 1)
    /\ F[p].nth = 1 => m.previous_file = NoFile
    /\ F[p].nth # 1 =>
          /\ m.previous_file \in DOMAIN F /\ F[m.previous_file].run = F[p].run
          /\ F[m.previous_file].nth = F[p].nth - 1

HasChain(F, r) == \E s, b : Chain(F, r, s, b)

Current(c) ==
    \E s, b : Chain(c.files, run, s, b) /\ Writes(c.writer, c.files, s, b)

\* The earlier runs, and what is published.
Rest(F) ==
    /\ \A r \in 1 .. run - 1 : HasChain(F, r)
    /\ \A p \in DOMAIN F : F[p].run \in 1 .. run
    /\ \A p \in DOMAIN manifests :
          Told(F, p, manifests[p]) /\ manifests[p].sha256 = F[p].records

\* Every closed file is published, about to be, or a failure.
Entrusted(c) ==
    /\ \A t \in c.tasks : Told(c.files, t.path, t)
    /\ c.writer.open =>
          /\ \A t \in c.tasks : t.path # c.writer.current_path
          /\ c.writer.current_path \notin DOMAIN manifests
    /\ \A p \in DOMAIN c.files : c.files[p].run = run =>
          \/ c.writer.open /\ p = c.writer.current_path
          \/ p \in DOMAIN manifests
          \/ \E t \in c.tasks : t.path = p
          \/ c.failures > 0

Good(c) == Sane(c) /\ Current(c) /\ Rest(c.files) /\ Entrusted(c) /\ run \in Nat \ {0}

LEMMA ChainFacts ==
    ASSUME NEW F, NEW r, NEW s, NEW b, Chain(F, r, s, b)
    PROVE  /\ s \in Seq(Paths) /\ Len(s) \in Nat /\ b \in [Nat -> Nat] /\ b[0] = 0
           /\ \A n \in 1 .. Len(s) : n - 1 \in Nat /\ b[n] \in Nat /\ b[n - 1] \in Nat
           /\ b[Len(s)] \in Nat
           /\ \A m, n \in 1 .. Len(s) : s[m] = s[n] => m = n
<1>1. s \in Seq(Paths) /\ b \in [Nat -> Nat] /\ b[0] = 0
  BY DEF Chain
<1>2. Len(s) \in Nat
  BY <1>1
<1>3. ASSUME NEW n \in 1 .. Len(s) PROVE n - 1 \in Nat /\ b[n] \in Nat /\ b[n - 1] \in Nat
  <2>1. n \in Nat /\ n - 1 \in Nat
    BY <1>2
  <2> QED
    BY <1>1, <2>1
<1>4. \A m \in 1 .. Len(s) : F[s[m]].nth = m
  BY DEF Chain
<1>5. b[Len(s)] \in Nat
  BY <1>1, <1>2
<1> QED
  BY <1>1, <1>2, <1>3, <1>4, <1>5

LEMMA UpdateFacts ==
    ASSUME NEW b \in [Nat -> Nat], NEW k \in Nat, NEW z \in Nat
    PROVE  /\ [b EXCEPT ![k] = z] \in [Nat -> Nat] /\ [b EXCEPT ![k] = z][k] = z
           /\ \A n \in Nat : n # k => [b EXCEPT ![k] = z][n] = b[n]
  OBVIOUS

LEMMA UpdatedIs ==
    ASSUME NEW b \in [Nat -> Nat], NEW k \in Nat, NEW z \in Nat, NEW c, c = [b EXCEPT ![k] = z]
    PROVE  c \in [Nat -> Nat] /\ c[k] = z /\ \A n \in Nat : n # k => c[n] = b[n]
  BY UpdateFacts

\* A disk that only differs in one file, of this run and not yet published.
LEMMA RestStays ==
    ASSUME NEW F, NEW G, NEW x, Rest(F), run \in Nat \ {0},
           DOMAIN F \subseteq DOMAIN G, DOMAIN G \subseteq DOMAIN F \cup {x},
           \A q \in DOMAIN F : q # x => G[q] = F[q],
           x \in DOMAIN F => F[x].run = run /\ G[x].nth = F[x].nth,
           G[x].run = run, x \notin DOMAIN manifests
    PROVE  Rest(G) /\ \A q, m : q # x /\ Told(F, q, m) => Told(G, q, m)
<1>1. ASSUME NEW q, NEW m, q # x, Told(F, q, m)
      PROVE  Told(G, q, m)
  <2>1. q \in DOMAIN F /\ q \in DOMAIN G /\ G[q] = F[q]
    BY <1>1 DEF Told
  <2>2. \A p \in DOMAIN F : p \in DOMAIN G /\ G[p].run = F[p].run /\ G[p].nth = F[p].nth
    OBVIOUS
  <2> QED
    BY <1>1, <2>1, <2>2 DEF Told
<1>2. ASSUME NEW r \in 1 .. run - 1
      PROVE  HasChain(G, r)
  <2>1. PICK s, b : Chain(F, r, s, b)
    BY DEF Rest, HasChain
  <2>2. r # run
    OBVIOUS
  <2>3. \A n \in 1 .. Len(s) : s[n] # x /\ s[n] \in DOMAIN F /\ G[s[n]] = F[s[n]]
    <3> TAKE n \in 1 .. Len(s)
    <3>1. s[n] \in DOMAIN F /\ F[s[n]].run = r
      BY <2>1 DEF Chain
    <3>2. s[n] # x
      BY <2>2, <3>1
    <3> QED
      BY <3>1, <3>2
  <2>4. \A p \in DOMAIN G : G[p].run = r => p \in DOMAIN F /\ G[p] = F[p]
    BY <2>2
  <2>5. Chain(G, r, s, b)
    <3>1. /\ s \in Seq(Paths) /\ b \in [Nat -> Nat] /\ b[0] = 0
          /\ \A n \in 1 .. Len(s) :
                /\ s[n] \in DOMAIN F /\ F[s[n]].run = r /\ F[s[n]].nth = n
                /\ b[n - 1] <= b[n] /\ F[s[n]].records = Slice(b[n - 1], b[n])
          /\ \A p \in DOMAIN F : F[p].run = r => \E n \in 1 .. Len(s) : p = s[n]
      BY <2>1 DEF Chain
    <3>2. \A n \in 1 .. Len(s) :
             /\ s[n] \in DOMAIN G /\ G[s[n]].run = r /\ G[s[n]].nth = n
             /\ b[n - 1] <= b[n] /\ G[s[n]].records = Slice(b[n - 1], b[n])
      BY <2>3, <3>1
    <3>3. ASSUME NEW p \in DOMAIN G, G[p].run = r PROVE \E n \in 1 .. Len(s) : p = s[n]
      <4>1. p \in DOMAIN F /\ F[p].run = r
        BY <2>4, <3>3
      <4> QED
        BY <3>1, <4>1
    <3> QED
      BY <3>1, <3>2, <3>3 DEF Chain
  <2> QED
    BY <2>5 DEF HasChain
<1>3. \A p \in DOMAIN G : G[p].run \in 1 .. run
  <2>1. \A p \in DOMAIN F : F[p].run \in 1 .. run
    BY DEF Rest
  <2>2. run \in 1 .. run
    OBVIOUS
  <2> QED
    BY <2>1, <2>2
<1>4. ASSUME NEW p \in DOMAIN manifests
      PROVE  Told(G, p, manifests[p]) /\ manifests[p].sha256 = G[p].records
  <2>1. Told(F, p, manifests[p]) /\ manifests[p].sha256 = F[p].records /\ p # x
    BY <1>4 DEF Rest
  <2>2. p \in DOMAIN F
    BY <2>1 DEF Told
  <2> QED
    BY <1>1, <2>1, <2>2
<1> QED
  BY <1>1, <1>2, <1>3, <1>4 DEF Rest

\* More of the stream at the end of the last file of a run.
LEMMA ChainGrows ==
    ASSUME NEW F \in Disks, NEW r, NEW s, NEW b, Chain(F, r, s, b), Len(s) > 0,
           NEW z \in Nat, b[Len(s)] <= z, NEW whole \in BOOLEAN
    PROVE  Chain(Put(F, s[Len(s)], Slice(b[Len(s)], z), whole), r, s, [b EXCEPT ![Len(s)] = z])
<1> DEFINE k == Len(s)
           p == s[k]
           more == Slice(b[k], z)
           G == Put(F, p, more, whole)
           c == [b EXCEPT ![k] = z]
<1>1. /\ k \in Nat /\ k > 0 /\ k \in 1 .. k /\ k - 1 \in Nat /\ s \in Seq(Paths)
      /\ b \in [Nat -> Nat] /\ b[0] = 0
      /\ b[k] \in Nat /\ b[k - 1] \in Nat
      /\ \A m, n \in 1 .. k : s[m] = s[n] => m = n
  <2>1. /\ s \in Seq(Paths) /\ k \in Nat /\ b \in [Nat -> Nat] /\ b[0] = 0 /\ b[k] \in Nat
        /\ \A n \in 1 .. k : n - 1 \in Nat /\ b[n] \in Nat /\ b[n - 1] \in Nat
        /\ \A m, n \in 1 .. k : s[m] = s[n] => m = n
    <3>1. /\ s \in Seq(Paths) /\ k \in Nat /\ b \in [Nat -> Nat] /\ b[0] = 0 /\ b[k] \in Nat
      BY ChainFacts
    <3>2. \A n \in 1 .. k : n - 1 \in Nat /\ b[n] \in Nat /\ b[n - 1] \in Nat
      BY ChainFacts
    <3>3. \A m, n \in 1 .. k : s[m] = s[n] => m = n
      BY ChainFacts
    <3> QED
      BY <3>1, <3>2, <3>3
  <2>2. k > 0
    OBVIOUS
  <2> HIDE DEF k
  <2>3. k \in 1 .. k
    BY <2>1, <2>2
  <2> QED
    BY <2>1, <2>2, <2>3
<1>2. /\ \A n \in 1 .. k :
            /\ s[n] \in DOMAIN F /\ F[s[n]].run = r /\ F[s[n]].nth = n
            /\ b[n - 1] <= b[n] /\ F[s[n]].records = Slice(b[n - 1], b[n])
      /\ \A q \in DOMAIN F : F[q].run = r => \E n \in 1 .. k : q = s[n]
  BY DEF Chain
<1>3. more \in Seq(Nat) /\ p \in DOMAIN F
  BY <1>1, <1>2, SliceFacts
<1> HIDE DEF k, more, p
<1>4. /\ DOMAIN G = DOMAIN F
      /\ \A q \in DOMAIN F : q # p => G[q] = F[q]
      /\ G[p].run = F[p].run /\ G[p].nth = F[p].nth
      /\ G[p].records = F[p].records \o more
  BY <1>3, PutFacts
<1> HIDE DEF G
<1>5. c \in [Nat -> Nat] /\ c[0] = 0 /\ c[k] = z /\ \A n \in Nat : n # k => c[n] = b[n]
  <2>1. c \in [Nat -> Nat] /\ c[k] = z /\ \A n \in Nat : n # k => c[n] = b[n]
    <3>1. c = [b EXCEPT ![k] = z] /\ k \in Nat /\ b \in [Nat -> Nat]
      BY <1>1
    <3> HIDE DEF c
    <3> QED
      BY ONLY <3>1, z \in Nat, UpdatedIs
  <2>2. 0 \in Nat /\ 0 # k
    BY <1>1
  <2> QED
    BY <1>1, <2>1, <2>2
<1> HIDE DEF c
<1>6. ASSUME NEW n \in 1 .. k
      PROVE  /\ s[n] \in DOMAIN G /\ G[s[n]].run = r /\ G[s[n]].nth = n
             /\ c[n - 1] <= c[n] /\ G[s[n]].records = Slice(c[n - 1], c[n])
  <2>1. n - 1 # k /\ n - 1 \in Nat /\ n \in Nat /\ c[n - 1] = b[n - 1]
    BY <1>1, <1>5
  <2>2. CASE n # k
    <3>1. s[n] # p /\ c[n] = b[n]
      BY <1>1, <1>5, <2>1, <2>2 DEF p
    <3> QED
      BY <1>2, <1>4, <2>1, <3>1
  <2>3. CASE n = k
    <3>1. b[k - 1] <= b[k] /\ F[p].records = Slice(b[k - 1], b[k])
      BY <1>1, <1>2 DEF p
    <3>2. b[k - 1] <= z /\ c[n] = z
      BY <1>1, <1>5, <2>3, <3>1 DEF k
    <3>3. b[k] <= z
      BY DEF k
    <3>4. Slice(b[k - 1], b[k]) \o Slice(b[k], z) = Slice(b[k - 1], z)
      BY <1>1, <3>1, <3>3, SlicesJoin
    <3>5. G[s[n]].records = Slice(c[n - 1], c[n])
      BY <1>4, <2>1, <2>3, <3>1, <3>2, <3>4 DEF p, more
    <3> QED
      BY <1>1, <1>2, <1>4, <2>1, <2>3, <3>2, <3>5 DEF p
  <2> QED
    BY <2>2, <2>3
<1>7. \A q \in DOMAIN G : G[q].run = r => \E n \in 1 .. k : q = s[n]
  <2>1. \A q \in DOMAIN F : G[q].run = F[q].run
    BY <1>4
  <2> QED
    BY <1>2, <1>4, <2>1
<1>8. Chain(G, r, s, c)
  BY <1>1, <1>5, <1>6, <1>7 DEF Chain, k
<1> QED
  BY <1>8 DEF k, p, more, G, c

\* One more file.
LEMMA ChainGetsFile ==
    ASSUME NEW F, NEW r, NEW s, NEW b, Chain(F, r, s, b),
           NEW G, NEW p \in Paths \ DOMAIN F, DOMAIN G = DOMAIN F \cup {p},
           \A q \in DOMAIN F : G[q] = F[q],
           G[p].run = r, G[p].nth = Len(s) + 1, G[p].records = <<>>
    PROVE  Chain(G, r, Append(s, p), [b EXCEPT ![Len(s) + 1] = b[Len(s)]])
<1> DEFINE k == Len(s)
           t == Append(s, p)
           c == [b EXCEPT ![k + 1] = b[k]]
<1>1. /\ k \in Nat /\ s \in Seq(Paths) /\ b \in [Nat -> Nat] /\ b[0] = 0 /\ b[k] \in Nat
  <2> HIDE DEF k, t, c
  <2>1. s \in Seq(Paths) /\ Len(s) \in Nat /\ b \in [Nat -> Nat] /\ b[0] = 0 /\ b[Len(s)] \in Nat
    BY ONLY Chain(F, r, s, b), ChainFacts
  <2> QED
    BY <2>1 DEF k
<1>2. /\ \A n \in 1 .. k :
            /\ s[n] \in DOMAIN F /\ F[s[n]].run = r /\ F[s[n]].nth = n
            /\ b[n - 1] <= b[n] /\ F[s[n]].records = Slice(b[n - 1], b[n])
      /\ \A q \in DOMAIN F : F[q].run = r => \E n \in 1 .. k : q = s[n]
  BY DEF Chain
<1>3. /\ t \in Seq(Paths) /\ Len(t) = k + 1 /\ t[k + 1] = p
      /\ \A n \in 1 .. k : t[n] = s[n]
  BY <1>1, AppendFacts
<1> HIDE DEF k, t
<1>4. /\ c \in [Nat -> Nat] /\ c[0] = 0 /\ c[k + 1] = b[k]
      /\ \A n \in Nat : n # k + 1 => c[n] = b[n]
  <2>1. k + 1 \in Nat /\ 0 \in Nat /\ 0 # k + 1
    BY <1>1
  <2>2. /\ c \in [Nat -> Nat] /\ c[k + 1] = b[k]
        /\ \A n \in Nat : n # k + 1 => c[n] = b[n]
    <3> DEFINE i == k + 1
               z == b[k]
    <3>1. c = [b EXCEPT ![i] = z] /\ i \in Nat /\ z \in Nat /\ b \in [Nat -> Nat]
      BY <1>1, <2>1
    <3> HIDE DEF c, i, z
    <3>2. c \in [Nat -> Nat] /\ c[i] = z /\ \A n \in Nat : n # i => c[n] = b[n]
      BY ONLY <3>1, UpdatedIs
    <3> QED
      BY <3>2 DEF i, z
  <2> QED
    BY <1>1, <2>1, <2>2
<1> HIDE DEF c
<1>5. ASSUME NEW n \in 1 .. k + 1
      PROVE  /\ t[n] \in DOMAIN G /\ G[t[n]].run = r /\ G[t[n]].nth = n
             /\ c[n - 1] <= c[n] /\ G[t[n]].records = Slice(c[n - 1], c[n])
  <2>1. n \in Nat /\ n - 1 \in Nat /\ n - 1 # k + 1 /\ (n # k + 1 => n \in 1 .. k)
    <3>1. k \in Nat
      BY <1>1
    <3> QED
      BY ONLY <3>1, n \in 1 .. k + 1
  <2>2. c[n - 1] = b[n - 1]
    BY <1>4, <2>1
  <2>3. CASE n # k + 1
    <3>1. n \in 1 .. k /\ c[n] = b[n] /\ t[n] = s[n]
      BY <1>3, <1>4, <2>1, <2>3
    <3> QED
      BY <1>2, <2>2, <3>1
  <2>4. CASE n = k + 1
    <3>1. t[n] = p /\ c[n] = b[k] /\ n - 1 = k
      BY <1>1, <1>3, <1>4, <2>4
    <3>2. \A z \in Nat : z <= z /\ Slice(z, z) = <<>>
      BY SliceFacts
    <3>3. G[p].nth = k + 1 /\ p \in DOMAIN G
      BY DEF k
    <3> QED
      BY <1>1, <2>2, <2>4, <3>1, <3>2, <3>3
  <2> QED
    BY <2>3, <2>4
<1>6. ASSUME NEW q \in DOMAIN G, G[q].run = r PROVE \E n \in 1 .. k + 1 : q = t[n]
  <2>1. CASE q = p
    <3>1. k + 1 \in 1 .. k + 1
      BY <1>1
    <3> QED
      BY <1>3, <2>1, <3>1
  <2>2. CASE q # p
    <3>1. PICK n \in 1 .. k : q = s[n]
      BY <1>2, <1>6, <2>2
    <3>2. n \in 1 .. k + 1 /\ q = t[n]
      BY <1>1, <1>3, <3>1
    <3> QED
      BY <3>2
  <2> QED
    BY <2>1, <2>2
<1>7. Chain(G, r, t, c)
  <2>1. Len(t) = k + 1
    BY <1>3
  <2>2. /\ t \in Seq(Paths) /\ c \in [Nat -> Nat] /\ c[0] = 0
        /\ \A n \in 1 .. Len(t) :
              /\ t[n] \in DOMAIN G /\ G[t[n]].run = r /\ G[t[n]].nth = n
              /\ c[n - 1] <= c[n] /\ G[t[n]].records = Slice(c[n - 1], c[n])
    BY <1>3, <1>4, <1>5, <2>1
  <2>3. \A q \in DOMAIN G : G[q].run = r => \E n \in 1 .. Len(t) : q = t[n]
    BY <1>6, <2>1
  <2> QED
    BY <2>2, <2>3 DEF Chain
<1> QED
  BY <1>7 DEF k, t, c

LEMMA GoodKept ==
    ASSUME NEW c, Good(c), NEW d, Sane(d), d.files = c.files, d.tasks = c.tasks,
           d.failures = c.failures, d.writer.open = c.writer.open,
           d.writer.current_path = c.writer.current_path, Current(d)
    PROVE  Good(d)
  BY DEF Good, Entrusted

\* The stream gives more of the run to the file.
LEMMA GoodLanded ==
    ASSUME NEW c, Good(c), c.writer.open,
           NEW s, NEW b, Chain(c.files, run, s, b), Len(s) > 0,
           c.writer.current_path = s[Len(s)],
           NEW z \in Nat, b[Len(s)] <= z, NEW whole \in BOOLEAN,
           NEW d, Sane(d), d.files = Put(c.files, s[Len(s)], Slice(b[Len(s)], z), whole),
           d.tasks = c.tasks, d.failures = c.failures,
           d.writer.open, d.writer.current_path = c.writer.current_path,
           Writes(d.writer, d.files, s, [b EXCEPT ![Len(s)] = z])
    PROVE  Good(d)
<1> DEFINE p == s[Len(s)]
           more == Slice(b[Len(s)], z)
           F == c.files
           G == d.files
<1>1. /\ F \in Disks /\ p \in DOMAIN F /\ run \in Nat \ {0} /\ Rest(F) /\ Entrusted(c)
      /\ more \in Seq(Nat) /\ F[p].run = run
  <2>1. Len(s) \in 1 .. Len(s) /\ b[Len(s)] \in Nat
    BY ChainFacts
  <2>2. F[p].run = run
    BY <2>1 DEF Chain
  <2>3. more \in Seq(Nat)
    BY <2>1, SliceFacts
  <2> QED
    BY <2>2, <2>3 DEF Good, Sane, Calls
<1>2. Chain(G, run, s, [b EXCEPT ![Len(s)] = z])
  BY <1>1, ChainGrows
<1>3. Current(d)
  BY <1>2 DEF Current
<1> HIDE DEF more
<1>4. /\ DOMAIN G = DOMAIN F
      /\ \A q \in DOMAIN F : q # p => G[q] = F[q]
      /\ G[p].run = run /\ G[p].nth = F[p].nth
  <2>1. G = Put(F, p, more, whole)
    BY DEF more
  <2> HIDE DEF p, F, G
  <2> QED
    BY <1>1, <2>1, PutFacts
<1>5. p = c.writer.current_path /\ p \notin DOMAIN manifests /\ \A t \in c.tasks : t.path # p
  BY <1>1 DEF Entrusted
<1> HIDE DEF F, G, p
<1>6. Rest(G) /\ \A q, m : q # p /\ Told(F, q, m) => Told(G, q, m)
  <2>1. DOMAIN F \subseteq DOMAIN G /\ DOMAIN G \subseteq DOMAIN F \cup {p}
    BY <1>4
  <2>2. \A q \in DOMAIN F : q # p => G[q] = F[q]
    BY <1>4
  <2>3. p \in DOMAIN F => F[p].run = run /\ G[p].nth = F[p].nth
    BY <1>1, <1>4
  <2>4. Rest(F) /\ run \in Nat \ {0} /\ G[p].run = run /\ p \notin DOMAIN manifests
    BY <1>1, <1>4, <1>5
  <2> QED
    BY <2>1, <2>2, <2>3, <2>4, RestStays
<1>7. \A q \in DOMAIN F : G[q].run = F[q].run
  BY <1>1, <1>4
<1>8. Entrusted(d)
  <2>1. \A t \in d.tasks : Told(G, t.path, t)
    BY <1>1, <1>5, <1>6 DEF Entrusted, F
  <2>2. \A q \in DOMAIN G : G[q].run = run =>
           \/ d.writer.open /\ q = d.writer.current_path
           \/ q \in DOMAIN manifests
           \/ \E t \in d.tasks : t.path = q
           \/ d.failures > 0
    BY <1>1, <1>4, <1>7 DEF Entrusted, F
  <2> QED
    BY <1>5, <2>1, <2>2 DEF Entrusted, G
<1> QED
  BY <1>1, <1>3, <1>6, <1>8 DEF Good, G

LEMMA WriterFacts ==
    ASSUME NEW c, Sane(c)
    PROVE  /\ c \in Calls /\ c.writer \in Writers /\ c.files \in Disks
           /\ c.writer.block \in Seq(Nat) /\ c.writer.buffered \in Seq(Seq(Nat))
           /\ Len(c.writer.buffered) \in Nat /\ c.writer.records_written \in Nat
           /\ FlattenSeq(c.writer.buffered) \in Seq(Nat)
<1>1. /\ c \in Calls /\ c.writer \in Writers /\ c.files \in Disks
      /\ c.writer.block \in Seq(Nat) /\ c.writer.buffered \in Seq(Seq(Nat))
      /\ c.writer.records_written \in Nat
  BY DEF Sane, Calls, Writers
<1>2. FlattenSeq(c.writer.buffered) \in Seq(Nat)
  BY <1>1, FlattenAppend
<1> QED
  BY <1>1, <1>2

\* A stream that works has the next records, in the file, the buffer and block_.
LEMMA GoodOpen ==
    ASSUME NEW c, Good(c), c.writer.open, ~c.writer.broken
    PROVE  \E s, b :
              LET k == Len(s)
                  w == c.writer
              IN  /\ Chain(c.files, run, s, b) /\ Writes(w, c.files, s, b)
                  /\ k \in Nat /\ k > 0 /\ b[k] \in Nat /\ w.current_path = s[k]
                  /\ b[k] <= w.records_written
                  /\ Joined(FlattenSeq(w.buffered), w.block) = Slice(b[k], w.records_written)
                  /\ c.files[s[k]].whole \/ w.buffered # <<>>
<1>1. PICK s, b : Chain(c.files, run, s, b) /\ Writes(c.writer, c.files, s, b)
  BY DEF Good, Current
<1>2. Len(s) \in Nat /\ b[Len(s)] \in Nat
  BY <1>1, ChainFacts
<1>3. /\ Len(s) > 0 /\ c.writer.current_path = s[Len(s)]
      /\ b[Len(s)] <= c.writer.records_written
      /\ Joined(FlattenSeq(c.writer.buffered), c.writer.block)
            = Slice(b[Len(s)], c.writer.records_written)
      /\ c.files[s[Len(s)]].whole \/ c.writer.buffered # <<>>
  BY <1>1 DEF Writes
<1> QED
  BY <1>1, <1>2, <1>3

\* The writer is as far as before, but for what is on its way.
SameSegment(v, w) ==
    /\ v.open = w.open /\ v.current_path = w.current_path
    /\ v.previous_file = w.previous_file /\ v.segments_opened = w.segments_opened
    /\ v.segment_records = w.segment_records /\ v.records_written = w.records_written

\* The beginning of what is on its way is the next part of the run.
LEMMA PartIsNext ==
    ASSUME NEW more \in Seq(Seq(Nat)), NEW rest \in Seq(Nat), NEW n \in 0 .. Len(more),
           NEW a \in Nat, NEW z \in Nat, a <= z,
           Joined(FlattenSeq(more), rest) = Slice(a, z)
    PROVE  \E m \in Nat : a <= m /\ m <= z /\ FlattenSeq(SubSeq(more, 1, n)) = Slice(a, m)
<1> DEFINE p == FlattenSeq(more)
           l == FlattenSeq(SubSeq(more, 1, n))
<1>1. p \in Seq(Nat)
  BY FlattenAppend
<1>2. l \in Seq(Nat) /\ \E q \in Seq(Nat) : p = l \o q
  BY FlattenPrefix
<1> HIDE DEF l, p
<1>3. PICK q \in Seq(Nat) : p = l \o q
  BY <1>2
<1>4. Joined(p, rest) = Slice(a, z)
  BY DEF p
<1> DEFINE y == a + Len(p)
<1>5. y \in Nat /\ a <= y /\ y <= z /\ p = Slice(a, y)
  <2>1. y \in Nat /\ y <= z /\ p = Slice(a, y)
    BY <1>1, <1>4, SliceSplits
  <2>2. Len(p) \in Nat
    BY <1>1
  <2> QED
    BY <2>1, <2>2
<1> HIDE DEF y
<1>6. Joined(l, q) = Slice(a, y)
  BY <1>3, <1>5 DEF Joined
<1> DEFINE m == a + Len(l)
<1>7. m \in Nat /\ m <= y /\ l = Slice(a, m)
  BY <1>2, <1>5, <1>6, SliceSplits
<1>8. Len(l) \in Nat
  BY <1>2
<1>9. a <= m
  BY <1>8
<1> HIDE DEF m
<1> QED
  BY <1>5, <1>7, <1>9 DEF l

\* A stream that fails on the way.
LEMMA PartGood ==
    ASSUME NEW c, Good(c), c.writer.open, ~c.writer.broken,
           NEW more \in Seq(Seq(Nat)), NEW rest \in Seq(Nat), NEW n \in 0 .. Len(more),
           Joined(FlattenSeq(more), rest) = Joined(FlattenSeq(c.writer.buffered), c.writer.block),
           NEW whole \in BOOLEAN, NEW d, Sane(d),
           d.files = Put(c.files, c.writer.current_path, FlattenSeq(SubSeq(more, 1, n)), whole),
           d.tasks = c.tasks, d.failures = c.failures,
           SameSegment(d.writer, c.writer), d.writer.broken, d.writer.block # <<>>
    PROVE  Good(d)
<1>1. PICK s, b :
         LET k == Len(s)
             w == c.writer
         IN  /\ Chain(c.files, run, s, b) /\ Writes(w, c.files, s, b)
             /\ k \in Nat /\ k > 0 /\ b[k] \in Nat /\ w.current_path = s[k]
             /\ b[k] <= w.records_written
             /\ Joined(FlattenSeq(w.buffered), w.block) = Slice(b[k], w.records_written)
             /\ c.files[s[k]].whole \/ w.buffered # <<>>
  BY GoodOpen
<1>2. c.writer.records_written \in Nat
  BY WriterFacts DEF Good
<1> DEFINE k == Len(s)
<1>3. PICK z \in Nat : b[k] <= z /\ FlattenSeq(SubSeq(more, 1, n)) = Slice(b[k], z)
  BY <1>1, <1>2, PartIsNext
<1> DEFINE e == [b EXCEPT ![k] = z]
<1>4. k - 1 \in Nat /\ k - 1 # k /\ b \in [Nat -> Nat]
  <2>1. b \in [Nat -> Nat]
    BY <1>1, ChainFacts
  <2>2. k \in Nat /\ k > 0
    BY <1>1
  <2> HIDE DEF k
  <2>3. k - 1 \in Nat /\ k - 1 # k
    BY <2>2
  <2> QED
    BY <2>1, <2>3
<1>5. e[k - 1] = b[k - 1]
  BY <1>1, <1>3, <1>4, UpdateFacts
<1> HIDE DEF e
<1>6. Writes(d.writer, d.files, s, e)
  BY <1>1, <1>5 DEF Writes, SameSegment
<1> QED
  BY <1>1, <1>3, <1>6, GoodLanded DEF e, SameSegment

LEMMA SentIs ==
    ASSUME NEW c, Sane(c)
    PROVE  /\ Sane(Sent(c)) /\ SameSegment(Sent(c).writer, c.writer)
           /\ Sent(c).writer.broken = c.writer.broken /\ Sent(c).writer.block = <<>>
           /\ Sent(c).writer.buffered = Append(c.writer.buffered, c.writer.block)
           /\ Sent(c).writer.buffered \in Seq(Seq(Nat)) /\ Sent(c).writer.buffered # <<>>
           /\ Sent(c).files = c.files /\ Sent(c).tasks = c.tasks
           /\ Sent(c).failures = c.failures /\ Sent(c).threw = c.threw
           /\ Joined(FlattenSeq(Sent(c).writer.buffered), <<>>)
                 = Joined(FlattenSeq(c.writer.buffered), c.writer.block)
<1> DEFINE w == c.writer
           more == Append(w.buffered, w.block)
           d == Sent(c)
<1>1. /\ c \in Calls /\ w \in Writers
      /\ w.block \in Seq(Nat) /\ w.buffered \in Seq(Seq(Nat))
  BY DEF Sane, Calls, Writers
<1>2. /\ more \in Seq(Seq(Nat)) /\ more # <<>>
      /\ FlattenSeq(more) = FlattenSeq(w.buffered) \o w.block
  <2>1. ASSUME NEW ss \in Seq(Seq(Nat)), NEW x \in Seq(Nat)
        PROVE  /\ Append(ss, x) \in Seq(Seq(Nat)) /\ Append(ss, x) # <<>>
               /\ FlattenSeq(Append(ss, x)) = FlattenSeq(ss) \o x
    <3>1. Append(ss, x) \in Seq(Seq(Nat)) /\ Append(ss, x) # <<>>
      <4> DEFINE X == Seq(Nat)
      <4>1. ss \in Seq(X) /\ x \in X
        OBVIOUS
      <4> HIDE DEF X
      <4>2. Append(ss, x) \in Seq(X) /\ Append(ss, x) # <<>>
        <5>1. Append(ss, x) \in Seq(X)
          BY <4>1
        <5>2. Append(ss, x) # <<>>
          <6>1. Len(Append(ss, x)) = Len(ss) + 1 /\ Len(ss) \in Nat
            BY <4>1
          <6>2. Len(<<>>) = 0
            OBVIOUS
          <6> QED
            BY <6>1, <6>2
        <5> QED
          BY <5>1, <5>2
      <4> QED
        BY <4>2 DEF X
    <3>2. FlattenSeq(Append(ss, x)) = FlattenSeq(ss) \o x
      BY FlattenAppend
    <3> QED
      BY <3>1, <3>2
  <2> QED
    BY <1>1, <2>1
<1>4. FlattenSeq(more) \in Seq(Nat)
  <2> HIDE DEF more
  <2>1. \A ss \in Seq(Seq(Nat)) : FlattenSeq(ss) \in Seq(Nat)
    BY FlattenAppend
  <2> QED
    BY <1>2, <2>1
<1>5. /\ d.writer = [w EXCEPT !.buffered = more, !.block = <<>>]
      /\ d.files = c.files /\ d.tasks = c.tasks /\ d.failures = c.failures /\ d.threw = c.threw
  BY <1>1 DEF Sent, Calls
<1>6. Sane(d)
  BY SentFacts DEF Keeps
<1> HIDE DEF more, d
<1>7. /\ d.writer.buffered = more /\ d.writer.block = <<>> /\ SameSegment(d.writer, w)
      /\ d.writer.broken = w.broken
  BY <1>1, <1>5 DEF Writers, SameSegment
<1>8. Joined(FlattenSeq(more), <<>>) = Joined(FlattenSeq(w.buffered), w.block)
  <2>1. \A x \in Seq(Nat) : x \o <<>> = x
    OBVIOUS
  <2> QED
    BY <1>2, <1>4, <2>1 DEF Joined
<1> QED
  BY <1>2, <1>5, <1>6, <1>7, <1>8 DEF d, more

LEMMA SentGood ==
    ASSUME NEW c, Good(c), c.writer.open, ~c.writer.broken
    PROVE  Good(Sent(c))
<1>1. PICK s, b : Chain(c.files, run, s, b) /\ Writes(c.writer, c.files, s, b)
  BY DEF Good, Current
<1> DEFINE d == Sent(c)
<1>2. /\ Sane(d) /\ SameSegment(d.writer, c.writer) /\ ~d.writer.broken
      /\ d.writer.block = <<>> /\ d.writer.buffered # <<>>
      /\ d.files = c.files /\ d.tasks = c.tasks /\ d.failures = c.failures
      /\ Joined(FlattenSeq(d.writer.buffered), d.writer.block)
            = Joined(FlattenSeq(c.writer.buffered), c.writer.block)
  BY SentIs DEF Good
<1> HIDE DEF d
<1>3. Writes(d.writer, d.files, s, b)
  BY <1>1, <1>2 DEF Writes, SameSegment
<1>4. Current(d)
  BY <1>1, <1>2, <1>3 DEF Current
<1>5. Good(d)
  BY <1>2, <1>4, GoodKept DEF SameSegment
<1> QED
  BY <1>5 DEF d

\* flush_locked: what it does not throw away is in the stream.
LEMMA FlushLockedGood ==
    ASSUME NEW c, Good(c), c.writer.open, NEW d \in FlushLocked(c)
    PROVE  /\ Good(d) /\ d.writer.open
           /\ d.writer.records_written = c.writer.records_written
           /\ d.threw \/ (d.writer.block = <<>> /\ ~d.writer.broken)
           /\ c.threw => d.threw
<1> DEFINE w == c.writer
<1>0. Sane(c) /\ c \in Calls /\ w \in Writers /\ Current(c)
  BY DEF Good, Sane, Calls
<1>k. Sane(d) /\ d.writer.open
  BY <1>0, FlushLockedKeeps DEF Keeps
<1>1. CASE w.block = <<>> /\ d = c
  <2>1. ~w.broken
    BY <1>0, <1>1 DEF Current, Writes
  <2> QED
    BY <1>0, <1>1, <2>1
<1>2. CASE w.block # <<>> /\ w.broken /\ d = Throws(c)
  <2>1. /\ d.writer = w /\ d.files = c.files /\ d.tasks = c.tasks /\ d.failures = c.failures
        /\ d.threw
    BY <1>0, <1>2 DEF Throws, Calls
  <2>2. Current(d)
    BY <1>0, <2>1 DEF Current
  <2>3. Good(d)
    BY <1>k, <2>1, <2>2, GoodKept
  <2> QED
    BY <1>k, <2>1, <2>3
<1>3. CASE w.block # <<>> /\ ~w.broken /\ d = Sent(c)
  BY <1>0, <1>3, <1>k, SentIs, SentGood DEF SameSegment
<1>4. ASSUME w.block # <<>>, ~w.broken, NEW n \in 0 .. Len(Sent(c).writer.buffered),
             NEW torn \in BOOLEAN, d = SentInPart(c, n, torn)
      PROVE  Good(d) /\ d.writer.records_written = w.records_written /\ d.threw
  <2> DEFINE more == Sent(c).writer.buffered
             whole == ~torn /\ (c.files[w.current_path].whole \/ n > 0)
  <2>1. /\ d.writer = [w EXCEPT !.buffered = <<>>, !.broken = TRUE]
        /\ d.files = Put(c.files, w.current_path, FlattenSeq(SubSeq(more, 1, n)), whole)
        /\ d.tasks = c.tasks /\ d.failures = c.failures /\ d.threw
    <3>1. Sane(c) /\ c.writer.open
      BY <1>0
    <3>2. Landed(c, d, n, torn)
      BY <1>4, <3>1, SentInPartFacts
    <3> QED
      BY <3>2 DEF Landed
  <2>2. /\ SameSegment(d.writer, w) /\ d.writer.broken
        /\ d.writer.block # <<>>
    BY <1>0, <1>4, <2>1 DEF Writers, SameSegment
  <2>3. more \in Seq(Seq(Nat)) /\ n \in 0 .. Len(more) /\ <<>> \in Seq(Nat)
        /\ Joined(FlattenSeq(more), <<>>) = Joined(FlattenSeq(w.buffered), w.block)
    BY <1>0, SentIs
  <2>4. whole \in BOOLEAN
    OBVIOUS
  <2> HIDE DEF more, whole
  <2>5. Good(d)
    BY <1>k, <1>4, <2>1, <2>2, <2>3, <2>4, PartGood
  <2> QED
    BY <2>1, <2>2, <2>5 DEF SameSegment
<1>5. CASE \E n \in 0 .. Len(Sent(c).writer.buffered), torn \in BOOLEAN :
              w.block # <<>> /\ ~w.broken /\ d = SentInPart(c, n, torn)
  BY <1>4, <1>5, <1>k
<1> QED
  BY <1>0, <1>1, <1>2, <1>3, <1>5, FlushLockedOutcomes

\* out_.flush(), when it works, empties what is on its way into the file.
LEMMA StreamFlushGood ==
    ASSUME "flush" \notin FaultKinds, NEW c, Good(c), c.writer.open, ~c.writer.broken,
           c.writer.block = <<>>, NEW d \in StreamFlush(c)
    PROVE  /\ Good(d) /\ SameSegment(d.writer, c.writer) /\ ~d.writer.broken
           /\ d.writer.block = <<>> /\ d.writer.buffered = <<>> /\ d.threw = c.threw
<1> DEFINE w == c.writer
           n == Len(w.buffered)
           whole == ~FALSE /\ (c.files[w.current_path].whole \/ n > 0)
<1>1. /\ Sane(c) /\ w \in Writers /\ w.buffered \in Seq(Seq(Nat)) /\ n \in Nat
      /\ w.records_written \in Nat /\ FlattenSeq(w.buffered) \in Seq(Nat)
      /\ c.files \in Disks /\ w.current_path \in DOMAIN c.files
  BY WriterFacts DEF Good, Sane
<1>2. d = Landing(c, n, FALSE) /\ n \in 0 .. Len(w.buffered) /\ FALSE \in BOOLEAN
  <2>1. n \in 0 .. Len(w.buffered)
    BY <1>1
  <2>2. d = Landing(c, Len(w.buffered), FALSE)
    BY <1>1, StreamFlushOutcomes
  <2> QED
    BY <2>1, <2>2
<1>3. /\ Sane(d) /\ d.writer = [w EXCEPT !.buffered = <<>>]
      /\ d.files = Put(c.files, w.current_path, FlattenSeq(SubSeq(w.buffered, 1, n)), whole)
      /\ d.tasks = c.tasks /\ d.failures = c.failures /\ d.threw = c.threw
  BY <1>1, <1>2, LandingFacts
<1>4. SubSeq(w.buffered, 1, n) = w.buffered
  BY <1>1, PrefixFacts
<1>5. /\ SameSegment(d.writer, w) /\ ~d.writer.broken
      /\ d.writer.block = <<>> /\ d.writer.buffered = <<>>
  BY <1>1, <1>3 DEF SameSegment, Writers
<1>6. PICK s, b :
         LET k == Len(s)
         IN  /\ Chain(c.files, run, s, b) /\ Writes(w, c.files, s, b)
             /\ k \in Nat /\ k > 0 /\ b[k] \in Nat /\ w.current_path = s[k]
             /\ b[k] <= w.records_written
             /\ Joined(FlattenSeq(w.buffered), w.block) = Slice(b[k], w.records_written)
             /\ c.files[s[k]].whole \/ w.buffered # <<>>
  BY GoodOpen
<1> DEFINE k == Len(s)
           z == w.records_written
           e == [b EXCEPT ![k] = z]
<1>7. whole
  <2>1. w.buffered # <<>> => n > 0
    BY <1>1
  <2> QED
    BY <1>6, <2>1
<1> HIDE DEF n, whole
<1>8. FlattenSeq(w.buffered) = Slice(b[k], z)
  <2>1. \A x \in Seq(Nat) : x \o <<>> = x
    OBVIOUS
  <2> QED
    BY <1>1, <1>6, <2>1 DEF Joined
<1>9. e[k - 1] = b[k - 1] /\ e[k] = z
  <2>1. b \in [Nat -> Nat]
    BY <1>6, ChainFacts
  <2>2. k \in Nat /\ k > 0
    BY <1>6
  <2> HIDE DEF k
  <2>3. k - 1 \in Nat /\ k - 1 # k
    BY <2>2
  <2> QED
    BY <1>1, <2>1, <2>2, <2>3, UpdateFacts
<1> HIDE DEF e
<1>10. Joined(FlattenSeq(<<>>), <<>>) = Slice(z, z)
  <2>1. FlattenSeq(<<>>) = <<>>
    BY FlattenAppend, <<>> \in Seq(Seq(Nat)), <<>> \in Seq(Nat)
  <2>2. <<>> \o <<>> = <<>>
    OBVIOUS
  <2>3. Slice(z, z) = <<>>
    <3>1. \A x \in Nat : x <= x /\ Slice(x, x) = <<>>
      BY SliceFacts
    <3> QED
      BY <1>1, <3>1
  <2> QED
    BY <2>1, <2>2, <2>3 DEF Joined
<1>11. d.files[s[k]].whole
  <2>1. FlattenSeq(SubSeq(w.buffered, 1, n)) \in Seq(Nat) /\ whole \in BOOLEAN
    BY <1>1, <1>4, <1>7
  <2>2. d.files[w.current_path].whole = whole
    BY <1>1, <1>3, <2>1, PutFacts
  <2> QED
    BY <1>6, <1>7, <2>2
<1>12. Writes(d.writer, d.files, s, e)
  BY <1>1, <1>5, <1>6, <1>9, <1>10, <1>11 DEF Writes, SameSegment
<1>13. d.files = Put(c.files, s[k], Slice(b[k], z), whole) /\ whole \in BOOLEAN
  BY <1>3, <1>4, <1>6, <1>7, <1>8
<1>14. Good(d)
  BY <1>1, <1>3, <1>5, <1>6, <1>12, <1>13, GoodLanded DEF e, SameSegment
<1> QED
  BY <1>3, <1>5, <1>14

\* What the hook is told when a file that is all there is closed.
LEMMA ClosedIsTold ==
    ASSUME NEW w \in Writers, NEW F \in Disks, NEW s, NEW b, Chain(F, run, s, b),
           Writes(w, F, s, b), w.open, F[s[Len(s)]].whole, w.records_written = b[Len(s)]
    PROVE  Told(F, w.current_path, ClosedRawFile(w))
<1> DEFINE k == Len(s)
           p == w.current_path
           m == ClosedRawFile(w)
<1>1. /\ k \in Nat /\ b \in [Nat -> Nat]
      /\ \A n \in 1 .. k : n - 1 \in Nat /\ b[n] \in Nat /\ b[n - 1] \in Nat
  <2>1. k \in Nat /\ b \in [Nat -> Nat]
    BY ChainFacts
  <2>2. \A n \in 1 .. k : n - 1 \in Nat /\ b[n] \in Nat /\ b[n - 1] \in Nat
    BY ChainFacts
  <2> QED
    BY <2>1, <2>2
<1>2. /\ \A n \in 1 .. k :
            /\ s[n] \in DOMAIN F /\ F[s[n]].run = run /\ F[s[n]].nth = n
            /\ b[n - 1] <= b[n] /\ F[s[n]].records = Slice(b[n - 1], b[n])
  BY DEF Chain
<1>3. /\ w.segments_opened = k /\ k > 0 /\ p = s[k]
      /\ w.segment_records = w.records_written - b[k - 1]
      /\ w.previous_file = IF k = 1 THEN NoFile ELSE s[k - 1]
      /\ F[s[k]].whole /\ w.records_written = b[k]
  BY DEF Writes
<1> HIDE DEF k
<1>4. k \in 1 .. k
  BY <1>1, <1>3
<1>5. /\ p \in DOMAIN F /\ F[p].run = run /\ F[p].nth = k /\ F[p].whole
      /\ b[k - 1] <= b[k] /\ F[p].records = Slice(b[k - 1], b[k])
      /\ b[k - 1] \in Nat /\ b[k] \in Nat
  BY <1>1, <1>2, <1>3, <1>4
<1>6. Len(F[p].records) = b[k] - b[k - 1]
  BY <1>5, SliceFacts
<1>7. /\ m.raw_records = w.segment_records /\ m.continuation = (k > 1)
      /\ m.previous_file = w.previous_file
  BY <1>3 DEF ClosedRawFile
<1>8. k # 1 => k - 1 \in 1 .. k
  <2>1. k \in Nat /\ k > 0
    BY <1>1, <1>3
  <2> QED
    BY <2>1
<1> HIDE DEF m
<1>9. k # 1 => /\ m.previous_file \in DOMAIN F /\ F[m.previous_file].run = run
               /\ F[m.previous_file].nth = k - 1
  BY <1>2, <1>3, <1>7, <1>8
<1>10. Told(F, p, m)
  BY <1>3, <1>5, <1>6, <1>7, <1>9 DEF Told
<1> QED
  BY <1>10 DEF m

\* A file that is closed holds all that was written so far, and the finalizer
\* hears of it or counts a failure.
LEMMA CloseStreamGood ==
    ASSUME NEW c, Good(c), c.writer.open, ~c.writer.broken,
           c.writer.block = <<>>, c.writer.buffered = <<>>, NEW d \in CloseStream(c)
    PROVE  /\ Good(d) /\ ~d.writer.open /\ d.threw = c.threw
           /\ d.writer.records_written = c.writer.records_written
<1> DEFINE w == c.writer
           t == ClosedRawFile(w)
<1>1. /\ Sane(c) /\ c \in Calls /\ w \in Writers /\ w.records_written \in Nat
      /\ c.files \in Disks /\ c.failures \in Nat /\ Rest(c.files) /\ Entrusted(c)
      /\ run \in Nat \ {0}
  BY DEF Good, Sane, Calls, Writers
<1>2. /\ Sane(d) /\ d.files = c.files /\ d.writer = Closing(w) /\ d.threw = c.threw
      /\ \/ d.tasks = c.tasks \cup {t} /\ d.failures = c.failures
         \/ d.tasks = c.tasks /\ d.failures = c.failures + 1
  BY <1>1, CloseStreamOutcomes DEF Keeps
<1>3. /\ ~d.writer.open /\ d.writer.previous_file = w.current_path
      /\ d.writer.block = <<>> /\ d.writer.buffered = <<>> /\ ~d.writer.broken
      /\ d.writer.segments_opened = w.segments_opened
      /\ d.writer.records_written = w.records_written
  BY <1>1, <1>2 DEF Closing, Writers
<1>4. PICK s, b :
         LET k == Len(s)
         IN  /\ Chain(c.files, run, s, b) /\ Writes(w, c.files, s, b)
             /\ k \in Nat /\ k > 0 /\ b[k] \in Nat /\ w.current_path = s[k]
             /\ b[k] <= w.records_written
             /\ Joined(FlattenSeq(w.buffered), w.block) = Slice(b[k], w.records_written)
             /\ c.files[s[k]].whole \/ w.buffered # <<>>
  BY GoodOpen
<1> DEFINE k == Len(s)
<1>5. w.records_written = b[k]
  <2>1. Joined(FlattenSeq(<<>>), <<>>) = <<>>
    <3>1. FlattenSeq(<<>>) = <<>>
      BY FlattenAppend, <<>> \in Seq(Seq(Nat)), <<>> \in Seq(Nat)
    <3>2. <<>> \o <<>> = <<>>
      OBVIOUS
    <3> QED
      BY <3>1, <3>2 DEF Joined
  <2>2. Slice(b[k], w.records_written) = <<>>
    BY <1>4, <2>1
  <2>3. Len(Slice(b[k], w.records_written)) = w.records_written - b[k]
    BY <1>1, <1>4, SliceFacts
  <2>4. Len(<<>>) = 0
    OBVIOUS
  <2> QED
    BY <1>1, <1>4, <2>2, <2>3, <2>4
<1>6. Told(c.files, w.current_path, t)
  BY <1>1, <1>4, <1>5, ClosedIsTold
<1>7. t.path = w.current_path
  BY DEF ClosedRawFile
<1> HIDE DEF t
<1>8. Current(d)
  <2>1. Writes(d.writer, d.files, s, b)
    BY <1>3, <1>4, <1>5 DEF Writes
  <2> QED
    BY <1>2, <1>4, <2>1 DEF Current
<1>9. Entrusted(d)
  <2>1. \A u \in d.tasks : Told(d.files, u.path, u)
    BY <1>1, <1>2, <1>6, <1>7 DEF Entrusted
  <2>2. ASSUME NEW p \in DOMAIN d.files, d.files[p].run = run
        PROVE  \/ p \in DOMAIN manifests
               \/ \E u \in d.tasks : u.path = p
               \/ d.failures > 0
    <3>1. CASE p = w.current_path
      BY <1>1, <1>2, <1>7, <3>1
    <3>2. CASE p # w.current_path
      <4>1. \/ p \in DOMAIN manifests
            \/ \E u \in c.tasks : u.path = p
            \/ c.failures > 0
        BY <1>1, <1>2, <2>2, <3>2 DEF Entrusted
      <4>2. c.tasks \subseteq d.tasks /\ (c.failures > 0 => d.failures > 0)
        BY <1>1, <1>2
      <4> QED
        BY <4>1, <4>2
    <3> QED
      BY <3>1, <3>2
  <2> QED
    BY <1>3, <2>1, <2>2 DEF Entrusted
<1> QED
  BY <1>1, <1>2, <1>3, <1>8, <1>9 DEF Good

LEMMA CloseSegmentGood ==
    ASSUME "flush" \notin FaultKinds, NEW c, Good(c), NEW d \in CloseSegment(c)
    PROVE  /\ Good(d) /\ d.writer.records_written = c.writer.records_written
           /\ ~d.threw => ~d.writer.open
<1>1. CASE ~c.writer.open
  <2>1. d = c
    BY <1>1 DEF CloseSegment
  <2> QED
    BY <1>1, <2>1
<1>2. CASE c.writer.open
  <2>1. PICK e \in Then(FlushLocked(c), StreamFlush) :
           d \in IF e.threw THEN {e} ELSE CloseStream(e)
    BY <1>2 DEF CloseSegment, Then
  <2>2. PICK f \in FlushLocked(c) : e \in IF f.threw THEN {f} ELSE StreamFlush(f)
    BY <2>1 DEF Then
  <2>3. /\ Good(f) /\ f.writer.open
        /\ f.writer.records_written = c.writer.records_written
        /\ f.threw \/ (f.writer.block = <<>> /\ ~f.writer.broken)
    BY <1>2, FlushLockedGood
  <2>4. CASE f.threw
    BY <2>1, <2>2, <2>3, <2>4
  <2>5. CASE ~f.threw
    <3>1. e \in StreamFlush(f)
      BY <2>2, <2>5
    <3>2. /\ Good(e) /\ SameSegment(e.writer, f.writer) /\ ~e.writer.broken
          /\ e.writer.block = <<>> /\ e.writer.buffered = <<>> /\ e.threw = f.threw
      BY <2>3, <2>5, <3>1, StreamFlushGood
    <3>3. d \in CloseStream(e) /\ e.writer.open
      BY <2>1, <2>3, <2>5, <3>2 DEF SameSegment
    <3>4. /\ Good(d) /\ ~d.writer.open
          /\ d.writer.records_written = e.writer.records_written
      BY <3>2, <3>3, CloseStreamGood
    <3> QED
      BY <2>3, <3>2, <3>4 DEF SameSegment
  <2> QED
    BY <2>4, <2>5
<1> QED
  BY <1>1, <1>2

LEMMA FlushGood ==
    ASSUME "flush" \notin FaultKinds, NEW c, Good(c), NEW d \in Flush(c)
    PROVE  Good(d) /\ d.writer.records_written = c.writer.records_written
<1>1. CASE ~c.writer.open
  BY <1>1 DEF Flush
<1>2. CASE c.writer.open
  <2>1. PICK f \in FlushLocked(c) : d \in IF f.threw THEN {f} ELSE StreamFlush(f)
    BY <1>2 DEF Flush, Then
  <2>2. /\ Good(f) /\ f.writer.open
        /\ f.writer.records_written = c.writer.records_written
        /\ f.threw \/ (f.writer.block = <<>> /\ ~f.writer.broken)
    BY <1>2, FlushLockedGood
  <2>3. CASE f.threw
    BY <2>1, <2>2, <2>3
  <2>4. CASE ~f.threw
    <3>1. d \in StreamFlush(f)
      BY <2>1, <2>4
    <3>2. Good(d) /\ SameSegment(d.writer, f.writer)
      BY <2>2, <2>4, <3>1, StreamFlushGood
    <3> QED
      BY <2>2, <3>2 DEF SameSegment
  <2> QED
    BY <2>3, <2>4
<1> QED
  BY <1>1, <1>2

\* A new file, after one that is closed or as the first of the run.
LEMMA OpenedGood ==
    ASSUME NEW c, Good(c), ~c.writer.open, NEW bucket \in Nat
    PROVE  Good(Opened(c, bucket))
<1> DEFINE d == Opened(c, bucket)
           p == FreePath(c, bucket)
           w == c.writer
           F == c.files
           G == d.files
<1>1. /\ Sane(c) /\ w \in Writers /\ w.records_written \in Nat /\ w.segments_opened \in Nat
      /\ F \in Disks /\ run \in Nat \ {0} /\ run \in Nat /\ Rest(F) /\ Entrusted(c)
  BY DEF Good, Sane, Calls, Writers
<1>2. /\ Sane(d) /\ p \in Paths \ DOMAIN F
      /\ DOMAIN G = DOMAIN F \cup {p} /\ G[p] = NewFile(c)
      /\ \A q \in DOMAIN F : G[q] = F[q]
      /\ d.writer = [w EXCEPT !.open = TRUE, !.current_bucket = bucket, !.current_path = p,
                              !.segments_opened = w.segments_opened + 1,
                              !.segment_records = 0,
                              !.buffered = << <<>> >>, !.broken = FALSE]
      /\ d.tasks = c.tasks /\ d.failures = c.failures
  <2>1. /\ Keeps(c, d) /\ p \in Paths \ DOMAIN c.files
        /\ DOMAIN d.files = DOMAIN c.files \cup {p} /\ d.files[p] = NewFile(c)
        /\ d.tasks = c.tasks /\ d.failures = c.failures
    <3>1. Keeps(c, d) /\ p \in Paths \ DOMAIN c.files
      BY <1>1, OpenedFacts
    <3>2. DOMAIN d.files = DOMAIN c.files \cup {p}
      <4> DEFINE disk == [q \in DOMAIN c.files \cup {p} |->
                            IF q = p THEN NewFile(c) ELSE c.files[q]]
      <4>1. c \in Calls
        BY <1>1 DEF Sane
      <4>2. d.files = disk
        BY <4>1 DEF Opened, Calls
      <4>3. DOMAIN disk = DOMAIN c.files \cup {p}
        OBVIOUS
      <4> HIDE DEF disk, d, p
      <4> QED
        BY <4>2, <4>3
    <3>3. d.files[p] = NewFile(c)
      BY <1>1, OpenedFacts
    <3>4. d.tasks = c.tasks /\ d.failures = c.failures
      BY <1>1, OpenedFacts
    <3> HIDE DEF d, p
    <3> QED
      BY <3>1, <3>2, <3>3, <3>4
  <2>2. \A q \in DOMAIN c.files : d.files[q] = c.files[q]
    BY <1>1, OpenedFacts
  <2>3. d.writer = [c.writer EXCEPT !.open = TRUE, !.current_bucket = bucket,
                                    !.current_path = p,
                                    !.segments_opened = c.writer.segments_opened + 1,
                                    !.segment_records = 0,
                                    !.buffered = << <<>> >>, !.broken = FALSE]
    BY <1>1, OpenedFacts
  <2> HIDE DEF d, p
  <2> QED
    BY <2>1, <2>2, <2>3 DEF Keeps
<1>3. /\ d.writer.open /\ d.writer.current_path = p /\ d.writer.block = w.block
      /\ d.writer.previous_file = w.previous_file
      /\ d.writer.segments_opened = w.segments_opened + 1 /\ d.writer.segment_records = 0
      /\ d.writer.records_written = w.records_written
      /\ d.writer.buffered = << <<>> >> /\ ~d.writer.broken
  BY <1>1, <1>2 DEF Writers
<1>4. G[p].run = run /\ G[p].nth = w.segments_opened + 1 /\ G[p].records = <<>>
  BY <1>2 DEF NewFile
<1> HIDE DEF d, p
<1>5. PICK s, b : Chain(F, run, s, b) /\ Writes(w, F, s, b)
  BY DEF Good, Current
<1> DEFINE k == Len(s)
           t == Append(s, p)
           e == [b EXCEPT ![k + 1] = b[k]]
<1>6. /\ w.segments_opened = k /\ w.block = <<>> /\ w.buffered = <<>>
      /\ w.records_written = b[k] /\ w.previous_file = IF k = 0 THEN NoFile ELSE s[k]
  BY <1>5 DEF Writes
<1>7. k \in Nat /\ s \in Seq(Paths) /\ b \in [Nat -> Nat] /\ b[k] \in Nat
  BY <1>5, ChainFacts
<1>8. Chain(G, run, t, e)
  <2>1. G[p].nth = Len(s) + 1
    BY <1>4, <1>6
  <2> QED
    BY <1>2, <1>4, <1>5, <2>1, ChainGetsFile
<1>9. /\ Len(t) = k + 1 /\ t[k + 1] = p /\ \A i \in 1 .. k : t[i] = s[i]
  BY <1>2, <1>7, AppendFacts
<1>10. e[k + 1] = b[k] /\ e[k] = b[k]
  <2> HIDE DEF k
  <2>1. k + 1 \in Nat /\ k # k + 1
    BY <1>7
  <2> QED
    BY <1>7, <2>1, UpdateFacts
<1> HIDE DEF k, t, e
<1>11. Writes(d.writer, G, t, e)
  <2>1. Joined(FlattenSeq(<< <<>> >>), <<>>) = Slice(b[k], w.records_written)
    <3>1. FlattenSeq(<< <<>> >>) = <<>>
      <4>1. << <<>> >> = Append(<<>>, <<>>) /\ <<>> \in Seq(Seq(Nat)) /\ <<>> \in Seq(Nat)
        OBVIOUS
      <4>2. FlattenSeq(<<>>) = <<>> /\ FlattenSeq(Append(<<>>, <<>>)) = FlattenSeq(<<>>) \o <<>>
        BY <4>1, FlattenAppend
      <4>3. <<>> \o <<>> = <<>>
        OBVIOUS
      <4> QED
        BY <4>1, <4>2, <4>3
    <3>2. <<>> \o <<>> = <<>>
      OBVIOUS
    <3>3. \A x \in Nat : x <= x /\ Slice(x, x) = <<>>
      BY SliceFacts
    <3> QED
      BY <1>6, <1>7, <3>1, <3>2, <3>3 DEF Joined
  <2>2. (k + 1) - 1 = k /\ k + 1 > 0 /\ (k + 1 = 1 <=> k = 0) /\ (k # 0 => k \in 1 .. k)
    BY <1>7
  <2>3. /\ d.writer.segments_opened = Len(t) /\ Len(t) > 0
        /\ d.writer.current_path = t[Len(t)]
    BY <1>3, <1>6, <1>9, <2>2
  <2>4. d.writer.segment_records = d.writer.records_written - e[Len(t) - 1]
    <3>1. Len(t) - 1 = k /\ e[k] = w.records_written
      BY <1>6, <1>9, <1>10, <2>2
    <3>2. w.records_written - w.records_written = 0
      BY <1>1
    <3> QED
      BY <1>3, <3>1, <3>2
  <2>5. d.writer.previous_file = IF Len(t) = 1 THEN NoFile ELSE t[Len(t) - 1]
    <3>1. CASE k = 0
      BY <1>3, <1>6, <1>9, <2>2, <3>1
    <3>2. CASE k # 0
      <4>1. t[k] = s[k]
        BY <1>9, <2>2, <3>2
      <4> QED
        BY <1>3, <1>6, <1>9, <2>2, <3>2, <4>1
    <3> QED
      BY <3>1, <3>2
  <2>6. /\ e[Len(t)] <= d.writer.records_written
        /\ Joined(FlattenSeq(d.writer.buffered), d.writer.block)
              = Slice(e[Len(t)], d.writer.records_written)
        /\ d.writer.buffered # <<>>
    BY <1>3, <1>6, <1>7, <1>9, <1>10, <2>1
  <2> QED
    BY <1>3, <2>3, <2>4, <2>5, <2>6 DEF Writes
<1>12. Current(d)
  BY <1>8, <1>11 DEF Current
<1>13. p \notin DOMAIN manifests /\ \A u \in c.tasks : u.path # p
  BY <1>1, <1>2 DEF Rest, Entrusted, Told
<1>14. Rest(G) /\ \A q, m : q # p /\ Told(F, q, m) => Told(G, q, m)
  <2>1. DOMAIN F \subseteq DOMAIN G /\ DOMAIN G \subseteq DOMAIN F \cup {p}
    BY <1>2
  <2>2. \A q \in DOMAIN F : q # p => G[q] = F[q]
    BY <1>2
  <2>3. p \in DOMAIN F => F[p].run = run /\ G[p].nth = F[p].nth
    BY <1>2
  <2>4. Rest(F) /\ run \in Nat \ {0} /\ G[p].run = run /\ p \notin DOMAIN manifests
    BY <1>1, <1>4, <1>13
  <2> HIDE DEF F, G
  <2> QED
    BY <2>1, <2>2, <2>3, <2>4, RestStays
<1>15. Entrusted(d)
  <2>1. \A u \in d.tasks : Told(G, u.path, u)
    BY <1>1, <1>2, <1>13, <1>14 DEF Entrusted
  <2>2. \A q \in DOMAIN G : G[q].run = run =>
           \/ q = p
           \/ q \in DOMAIN manifests
           \/ \E u \in d.tasks : u.path = q
           \/ d.failures > 0
    BY <1>1, <1>2 DEF Entrusted
  <2> QED
    BY <1>2, <1>3, <1>13, <2>1, <2>2 DEF Entrusted
<1> QED
  BY <1>1, <1>2, <1>12, <1>14, <1>15 DEF Good, d

LEMMA OpenSegmentGood ==
    ASSUME NEW c, Good(c), ~c.writer.open, NEW bucket \in Nat, NEW d \in OpenSegment(c, bucket)
    PROVE  Good(d)
<1>1. Sane(c) /\ run \in Nat
  BY DEF Good
<1>2. CASE d = Opened(c, bucket)
  BY <1>2, OpenedGood
<1>3. CASE d # Opened(c, bucket)
  <2>1. /\ Sane(d) /\ d.files = c.files /\ d.writer = c.writer
        /\ d.tasks = c.tasks /\ d.failures = c.failures
    BY <1>1, <1>3, OpenSegmentOutcomes DEF Keeps
  <2>2. Current(d)
    BY <2>1 DEF Good, Current
  <2> QED
    BY <2>1, <2>2, GoodKept
<1> QED
  BY <1>2, <1>3

LEMMA RotateGood ==
    ASSUME "flush" \notin FaultKinds, NEW c, Good(c), NEW bucket \in Nat,
           NEW d \in Rotate(c, bucket)
    PROVE  Good(d) /\ (d.threw \/ d.writer.open)
<1>1. Sane(c) /\ run \in Nat
  BY DEF Good
<1>2. d.threw \/ d.writer.open
  BY <1>1, RotateKeeps
<1>3. CASE ~c.writer.open
  <2>1. d \in OpenSegment(c, bucket)
    BY <1>3 DEF Rotate
  <2> QED
    BY <1>2, <1>3, <2>1, OpenSegmentGood
<1>4. CASE c.writer.open /\ bucket > c.writer.current_bucket
  <2>1. PICK e \in CloseSegment(c) : d \in IF e.threw THEN {e} ELSE OpenSegment(e, bucket)
    BY <1>4 DEF Rotate, Then
  <2>2. Good(e) /\ (~e.threw => ~e.writer.open)
    BY CloseSegmentGood
  <2>3. CASE e.threw
    BY <1>2, <2>1, <2>2, <2>3
  <2>4. CASE ~e.threw
    <3>1. d \in OpenSegment(e, bucket) /\ ~e.writer.open
      BY <2>1, <2>2, <2>4
    <3> QED
      BY <1>2, <2>2, <3>1, OpenSegmentGood
  <2> QED
    BY <2>3, <2>4
<1>5. CASE c.writer.open /\ ~(bucket > c.writer.current_bucket)
  <2>1. d = c
    BY <1>5 DEF Rotate
  <2> QED
    BY <1>2, <2>1
<1> QED
  BY <1>3, <1>4, <1>5

\* The next number of the stream at the end of what is on its way.
LEMMA OneMoreIsNext ==
    ASSUME NEW p \in Seq(Nat), NEW q \in Seq(Nat), NEW a \in Nat, NEW z \in Nat, a <= z
    PROVE  Joined(p, q) = Slice(a, z) => Joined(p, Append(q, z + 1)) = Slice(a, z + 1)
<1>1. Joined(p, Append(q, z + 1)) = Append(Joined(p, q), z + 1)
  <2>1. \A x \in Nat : p \o Append(q, x) = Append(p \o q, x)
    OBVIOUS
  <2>2. z + 1 \in Nat
    OBVIOUS
  <2> QED
    BY <2>1, <2>2 DEF Joined
<1>2. Append(Slice(a, z), z + 1) = Slice(a, z + 1)
  BY SliceFacts
<1> QED
  BY <1>1, <1>2

LEMMA AddedGood ==
    ASSUME NEW c, Good(c), c.writer.open
    PROVE  Good(Added(c)) /\ Added(c).writer.open
<1> DEFINE d == Added(c)
           w == c.writer
           more == Append(w.block, w.records_written + 1)
<1>1. /\ Sane(c) /\ w \in Writers /\ w.records_written \in Nat /\ w.segment_records \in Nat
      /\ w.block \in Seq(Nat) /\ FlattenSeq(w.buffered) \in Seq(Nat)
  BY WriterFacts DEF Good, Sane, Calls, Writers
<1>2. /\ Sane(d) /\ d.files = c.files /\ d.tasks = c.tasks /\ d.failures = c.failures
      /\ d.writer = [w EXCEPT !.block = more,
                              !.records_written = w.records_written + 1,
                              !.segment_records = w.segment_records + 1]
  BY <1>1, AddedFacts DEF Keeps
<1>3. more # <<>>
  <2>1. Len(more) = Len(w.block) + 1 /\ Len(w.block) \in Nat
    BY <1>1
  <2>2. Len(<<>>) = 0
    OBVIOUS
  <2> QED
    BY <2>1, <2>2
<1> HIDE DEF d
<1>4. /\ d.writer.open /\ d.writer.current_path = w.current_path /\ d.writer.block = more
      /\ d.writer.previous_file = w.previous_file
      /\ d.writer.segments_opened = w.segments_opened
      /\ d.writer.segment_records = w.segment_records + 1
      /\ d.writer.records_written = w.records_written + 1
      /\ d.writer.buffered = w.buffered /\ d.writer.broken = w.broken
  BY <1>1, <1>2 DEF Writers
<1>5. PICK s, b : Chain(c.files, run, s, b) /\ Writes(w, c.files, s, b)
  BY DEF Good, Current
<1> DEFINE k == Len(s)
<1>6. k \in Nat /\ b \in [Nat -> Nat] /\ b[k] \in Nat
  BY <1>5, ChainFacts
<1>7. /\ w.segments_opened = k /\ k > 0 /\ w.current_path = s[k]
      /\ w.segment_records = w.records_written - b[k - 1]
      /\ w.previous_file = IF k = 1 THEN NoFile ELSE s[k - 1]
  BY <1>5 DEF Writes
<1>8. ~w.broken =>
         /\ b[k] <= w.records_written
         /\ Joined(FlattenSeq(w.buffered), w.block) = Slice(b[k], w.records_written)
         /\ c.files[s[k]].whole \/ w.buffered # <<>>
  BY <1>5 DEF Writes
<1> HIDE DEF k
<1>9. b[k - 1] \in Nat
  <2>1. k - 1 \in Nat
    BY <1>6, <1>7
  <2> QED
    BY <1>6, <2>1
<1>10. ~w.broken =>
          /\ b[k] <= w.records_written + 1
          /\ Joined(FlattenSeq(w.buffered), more) = Slice(b[k], w.records_written + 1)
  <2> DEFINE p == FlattenSeq(w.buffered)
             z == w.records_written
  <2> SUFFICES ASSUME ~w.broken
               PROVE  b[k] <= z + 1 /\ Joined(p, Append(w.block, z + 1)) = Slice(b[k], z + 1)
    OBVIOUS
  <2>1. b[k] <= z /\ Joined(p, w.block) = Slice(b[k], z)
    BY <1>8
  <2>2. p \in Seq(Nat) /\ w.block \in Seq(Nat) /\ z \in Nat /\ b[k] \in Nat
    BY <1>1, <1>6
  <2> HIDE DEF p, z
  <2>3. Joined(p, Append(w.block, z + 1)) = Slice(b[k], z + 1)
    BY <2>1, <2>2, OneMoreIsNext
  <2> QED
    BY <2>1, <2>2, <2>3
<1> HIDE DEF more
<1>11. Writes(d.writer, d.files, s, b)
  <2>1. d.writer.segment_records = d.writer.records_written - b[k - 1]
    BY <1>1, <1>4, <1>7, <1>9
  <2> QED
    BY <1>2, <1>3, <1>4, <1>7, <1>8, <1>10, <2>1 DEF Writes, k
<1>12. Current(d)
  BY <1>2, <1>5, <1>11 DEF Current
<1>13. Good(d)
  BY <1>2, <1>4, <1>12, GoodKept
<1> QED
  BY <1>4, <1>13 DEF d

LEMMA WriteGood ==
    ASSUME "flush" \notin FaultKinds, Good(Now), NEW bucket \in Nat, NEW d \in Write(bucket)
    PROVE  Good(d)
<1> DEFINE c == Now
<1>1. PICK e \in Rotate(c, bucket) : d \in IF e.threw THEN {e} ELSE AppendRecord(e)
  BY DEF Write, Then
<1> HIDE DEF c
<1>2. Good(e) /\ (e.threw \/ e.writer.open)
  BY RotateGood DEF c
<1>3. CASE e.threw
  BY <1>1, <1>2, <1>3
<1>4. CASE ~e.threw
  <2>1. Good(e) /\ e.writer.open /\ d \in AppendRecord(e) /\ Sane(e)
    BY <1>1, <1>2, <1>4 DEF Good
  <2>2. Good(Added(e)) /\ Added(e).writer.open
    BY <2>1, AddedGood
  <2>3. CASE d = Added(e)
    BY <2>2, <2>3
  <2>4. CASE d \in FlushLocked(Added(e))
    BY <2>2, <2>4, FlushLockedGood
  <2> QED
    BY <2>1, <2>3, <2>4, AppendRecordOutcomes
<1> QED
  BY <1>3, <1>4

LEMMA DestroyedGood ==
    ASSUME "flush" \notin FaultKinds, NEW c, Good(c), NEW d \in Destroyed(c)
    PROVE  Good(d) /\ d.writer.records_written = c.writer.records_written
<1> DEFINE e == [c EXCEPT !.threw = FALSE]
<1>1. /\ e \in Calls /\ e.files = c.files /\ e.writer = c.writer
      /\ e.tasks = c.tasks /\ e.failures = c.failures
  BY DEF Good, Sane, Calls
<1>2. d \in CloseSegment(e)
  BY DEF Destroyed
<1> HIDE DEF e
<1>3. Sane(e) /\ Current(e)
  BY <1>1 DEF Good, Sane, Current
<1>4. Good(e)
  BY <1>1, <1>3, GoodKept
<1> QED
  BY <1>1, <1>2, <1>4, CloseSegmentGood

LEMMA ShutdownGood ==
    ASSUME "flush" \notin FaultKinds, Good(Now), NEW c \in Then(Flush(Now), CloseSegment),
           NEW d \in IF c.threw THEN Destroyed(c) ELSE {c}
    PROVE  /\ Good(d) /\ d.writer.records_written = writer.records_written
           /\ ~c.threw => ~d.writer.open
<1> DEFINE n == Now
<1>1. PICK e \in Flush(n) : c \in IF e.threw THEN {e} ELSE CloseSegment(e)
  BY DEF Then
<1>2. n.writer = writer
  BY DEF Now
<1> HIDE DEF n
<1>3. Good(e) /\ e.writer.records_written = n.writer.records_written
  BY FlushGood DEF n
<1>4. /\ Good(c) /\ c.writer.records_written = e.writer.records_written
      /\ ~c.threw => ~c.writer.open
  <2>1. CASE e.threw
    BY <1>1, <1>3, <2>1
  <2>2. CASE ~e.threw
    BY <1>1, <1>3, <2>2, CloseSegmentGood
  <2> QED
    BY <2>1, <2>2
<1>5. CASE c.threw
  BY <1>2, <1>3, <1>4, <1>5, DestroyedGood
<1>6. CASE ~c.threw
  BY <1>2, <1>3, <1>4, <1>6
<1> QED
  BY <1>5, <1>6

-------------------------------------------------------------------------------
(* The stream of every run is in its files, while out_.flush() does not fail. *)

\* A process that has died has no writer and no tasks.
StreamInv ==
    /\ run \in Nat \ {0} /\ Rest(files)
    /\ IF phase = "crashed"
       THEN HasChain(files, run) /\ tasks = {} /\ writer = NewWriter
       ELSE Good(Now)
    /\ phase \in {"closed", "exited_0"} => ~writer.open /\ writer.records_written > 0
    /\ phase = "exited_0" => tasks = {} /\ failures = 0

\* What a step of the process promises, when the disk is sane.
StreamKept == Sane(Now)' => StreamInv'

LEMMA GoodAfter ==
    ASSUME NEW c, Good(c), Returns(c), Sane(Now)', run' = run, manifests' = manifests
    PROVE  Good(Now)' /\ Rest(files)'
<1>1. /\ Now'.writer = c.writer /\ Now'.files = c.files /\ Now'.tasks = c.tasks
      /\ Now'.failures = c.failures /\ files' = c.files
  BY DEF Returns, Now
<1>2. Current(Now)'
  BY <1>1 DEF Good, Current
<1>3. Rest(c.files)'
  BY DEF Good, Rest
<1>4. Entrusted(Now)'
  <2>1. /\ \A t \in Now'.tasks : Told(Now'.files, t.path, t)
        /\ Now'.writer.open =>
              /\ \A t \in Now'.tasks : t.path # Now'.writer.current_path
              /\ Now'.writer.current_path \notin DOMAIN manifests'
    BY <1>1 DEF Good, Entrusted
  <2>2. \A p \in DOMAIN Now'.files : Now'.files[p].run = run' =>
           \/ Now'.writer.open /\ p = Now'.writer.current_path
           \/ p \in DOMAIN manifests'
           \/ \E t \in Now'.tasks : t.path = p
           \/ Now'.failures > 0
    BY <1>1 DEF Good, Entrusted
  <2> QED
    BY <2>1, <2>2 DEF Entrusted
<1>5. Rest(Now.files)' /\ Rest(files)'
  <2>1. Now.files' = c.files /\ files' = c.files
    BY <1>1
  <2> QED
    BY <1>3, <2>1 DEF Rest
<1> QED
  BY <1>2, <1>4, <1>5 DEF Good

LEMMA FreshChain ==
    ASSUME NEW F, NEW r, \A p \in DOMAIN F : F[p].run # r
    PROVE  \E s, b : Chain(F, r, s, b) /\ Writes(NewWriter, F, s, b)
<1> DEFINE b == [n \in Nat |-> 0]
<1>1. b \in [Nat -> Nat] /\ b[0] = 0 /\ <<>> \in Seq(Paths) /\ Len(<<>>) = 0
  OBVIOUS
<1> HIDE DEF b
<1>2. Chain(F, r, <<>>, b)
  BY <1>1 DEF Chain
<1>3. /\ NewWriter.segments_opened = 0 /\ ~NewWriter.open /\ NewWriter.block = <<>>
      /\ NewWriter.buffered = <<>> /\ ~NewWriter.broken
      /\ NewWriter.records_written = 0 /\ NewWriter.previous_file = NoFile
  BY DEF NewWriter
<1>4. Writes(NewWriter, F, <<>>, b)
  BY <1>1, <1>3 DEF Writes
<1> QED
  BY <1>2, <1>4

LEMMA StreamInit == WInit => StreamInv
<1> SUFFICES ASSUME WInit PROVE StreamInv
  OBVIOUS
<1>1. /\ writer = NewWriter /\ files = <<>> /\ tasks = {} /\ failures = 0
      /\ manifests = <<>> /\ run = 1 /\ phase = "running" /\ DOMAIN files = {}
      /\ DOMAIN manifests = {}
  BY DEF WInit
<1>2. Sane(Now)
  BY DiskInit DEF DiskInv
<1>3. Rest(files)
  BY <1>1 DEF Rest
<1>4. /\ Now.writer = NewWriter /\ Now.files = files /\ Now.tasks = {} /\ ~NewWriter.open
  BY <1>1 DEF Now, NewWriter
<1>5. Current(Now)
  <2>1. \A p \in DOMAIN files : files[p].run # run
    BY <1>1
  <2> QED
    BY <1>4, <2>1, FreshChain DEF Current
<1>6. Entrusted(Now)
  BY <1>1, <1>4 DEF Entrusted
<1>7. Good(Now)
  BY <1>1, <1>2, <1>3, <1>4, <1>5, <1>6 DEF Good
<1> QED
  BY <1>1, <1>3, <1>7 DEF StreamInv, Good

\* A call that leaves the process alive.
LEMMA CallKept ==
    ASSUME NEW c, Good(c), Returns(c), run' = run, manifests' = manifests,
           phase' # "crashed",
           phase' \in {"closed", "exited_0"} => ~c.writer.open /\ c.writer.records_written > 0,
           phase' = "exited_0" => c.tasks = {} /\ c.failures = 0
    PROVE  StreamKept
<1> SUFFICES ASSUME Sane(Now)' PROVE StreamInv'
  BY DEF StreamKept
<1>1. Good(Now)' /\ Rest(files)'
  BY GoodAfter
<1>2. writer' = c.writer /\ tasks' = c.tasks /\ failures' = c.failures
  BY DEF Returns
<1> QED
  BY <1>1, <1>2 DEF StreamInv, Good

LEMMA PublishKept ==
    ASSUME StreamInv, NEW file \in tasks, Publish(file)
    PROVE  StreamKept
<1> SUFFICES ASSUME Sane(Now)' PROVE StreamInv'
  BY DEF StreamKept
<1> DEFINE m == ManifestOf(file)
           x == file.path
<1>1. /\ tasks' = tasks \ {file} /\ writer' = writer /\ files' = files
      /\ failures' = failures /\ run' = run /\ phase' = phase
      /\ DOMAIN manifests' = DOMAIN manifests \cup {x} /\ manifests'[x] = m
      /\ \A p \in DOMAIN manifests : p # x => manifests'[p] = manifests[p]
  BY DEF Publish
<1>2. phase # "crashed" /\ phase # "exited_0"
  BY DEF StreamInv
<1>3. Good(Now)
  BY <1>2 DEF StreamInv
<1>4. /\ Now.writer = writer /\ Now.files = files /\ Now.tasks = tasks
      /\ Now.failures = failures
      /\ Now'.writer = writer /\ Now'.files = files /\ Now'.tasks = tasks'
      /\ Now'.failures = failures
  BY <1>1 DEF Now
<1>5. Told(files, x, file)
  BY <1>3, <1>4 DEF Good, Entrusted
<1>6. Told(files, x, m) /\ m.sha256 = files[x].records
  <2>1. /\ m.raw_records = file.raw_records /\ m.continuation = file.continuation
        /\ m.previous_file = file.previous_file /\ m.sha256 = files[x].records
    BY DEF ManifestOf
  <2> HIDE DEF m
  <2> QED
    BY <1>5, <2>1 DEF Told
<1> HIDE DEF m, x
<1>7. Rest(files)'
  <2>1. \A p \in DOMAIN manifests' :
           Told(files', p, manifests'[p]) /\ manifests'[p].sha256 = files'[p].records
    BY <1>1, <1>6 DEF StreamInv, Rest
  <2>2. /\ \A r \in 1 .. run' - 1 : HasChain(files', r)
        /\ \A p \in DOMAIN files' : files'[p].run \in 1 .. run'
    BY <1>1 DEF StreamInv, Rest
  <2> QED
    BY <2>1, <2>2 DEF Rest
<1>8. Current(Now)'
  BY <1>1, <1>3, <1>4 DEF Good, Current
<1>9. Entrusted(Now)'
  <2>1. \A t \in Now'.tasks : Told(Now'.files, t.path, t)
    BY <1>1, <1>3, <1>4 DEF Good, Entrusted
  <2>2. Now'.writer.open =>
           /\ \A t \in Now'.tasks : t.path # Now'.writer.current_path
           /\ Now'.writer.current_path \notin DOMAIN manifests'
    BY <1>1, <1>3, <1>4 DEF Good, Entrusted, x
  <2>3. ASSUME NEW p \in DOMAIN Now'.files, Now'.files[p].run = run'
        PROVE  \/ Now'.writer.open /\ p = Now'.writer.current_path
               \/ p \in DOMAIN manifests'
               \/ \E t \in Now'.tasks : t.path = p
               \/ Now'.failures > 0
    <3>1. \/ writer.open /\ p = writer.current_path
          \/ p \in DOMAIN manifests
          \/ \E t \in tasks : t.path = p
          \/ failures > 0
      BY <1>1, <1>3, <1>4, <2>3 DEF Good, Entrusted
    <3>2. (\E t \in tasks : t.path = p) => p = x \/ \E t \in tasks' : t.path = p
      BY <1>1 DEF x
    <3> QED
      BY <1>1, <1>4, <3>1, <3>2
  <2> QED
    BY <2>1, <2>2, <2>3 DEF Entrusted
<1>10. Good(Now)'
  <2>1. Rest(Now.files)' /\ run' \in Nat \ {0}
    BY <1>1, <1>3, <1>4, <1>7 DEF Good, Rest
  <2> QED
    BY <1>8, <1>9, <2>1 DEF Good
<1> QED
  BY <1>1, <1>2, <1>7, <1>10 DEF StreamInv, Good

LEMMA PublishFailsKept ==
    ASSUME StreamInv, failures \in Nat, NEW file \in tasks, PublishFails(file)
    PROVE  StreamKept
<1> SUFFICES ASSUME Sane(Now)' PROVE StreamInv'
  BY DEF StreamKept
<1>1. /\ tasks' = tasks \ {file} /\ writer' = writer /\ files' = files
      /\ failures' = failures + 1 /\ run' = run /\ phase' = phase /\ manifests' = manifests
      /\ failures' > 0
  BY DEF PublishFails
<1>2. phase # "crashed" /\ phase # "exited_0"
  BY DEF StreamInv
<1>3. Good(Now)
  BY <1>2 DEF StreamInv
<1>4. /\ Now.writer = writer /\ Now.files = files /\ Now.tasks = tasks
      /\ Now'.writer = writer /\ Now'.files = files /\ Now'.tasks = tasks'
      /\ Now'.failures = failures'
  BY <1>1 DEF Now
<1>5. Rest(files)' /\ Rest(Now.files)'
  <2>1. Now.files' = files /\ files' = files
    BY <1>1, <1>4
  <2> QED
    BY <1>1, <2>1 DEF StreamInv, Rest
<1>6. Current(Now)'
  BY <1>1, <1>3, <1>4 DEF Good, Current
<1>7. Entrusted(Now)'
  BY <1>1, <1>3, <1>4 DEF Good, Entrusted
<1>8. Good(Now)'
  BY <1>1, <1>3, <1>5, <1>6, <1>7 DEF Good
<1> QED
  BY <1>1, <1>2, <1>5, <1>8 DEF StreamInv, Good

LEMMA RestartKept ==
    ASSUME StreamInv, Restart
    PROVE  StreamKept
<1> SUFFICES ASSUME Sane(Now)' PROVE StreamInv'
  BY DEF StreamKept
<1>1. /\ run' = run + 1 /\ phase' = "running" /\ writer' = NewWriter /\ failures' = 0
      /\ files' = files /\ tasks' = tasks /\ manifests' = manifests /\ run \in Nat \ {0}
  BY DEF Restart, StreamInv
<1>2. /\ Now.files = files /\ Now.tasks = tasks
      /\ Now'.writer = NewWriter /\ Now'.files = files /\ Now'.tasks = tasks /\ ~NewWriter.open
  BY <1>1 DEF Now, NewWriter
<1>3. HasChain(files, run) /\ \A t \in tasks : Told(files, t.path, t)
  <2>1. CASE phase = "crashed"
    BY <2>1 DEF StreamInv
  <2>2. CASE phase # "crashed"
    BY <1>2, <2>2 DEF StreamInv, Good, Current, HasChain, Entrusted
  <2> QED
    BY <2>1, <2>2
<1>4. Rest(files)
  BY DEF StreamInv
<1>5. \A p \in DOMAIN files : files[p].run # run + 1 /\ files[p].run \in 1 .. run + 1
  BY <1>1, <1>4 DEF Rest
<1>6. Rest(files)' /\ Rest(Now.files)'
  <2>1. \A r \in 1 .. (run + 1) - 1 : HasChain(files, r)
    <3>1. \A r \in 1 .. (run + 1) - 1 : r = run \/ r \in 1 .. run - 1
      BY <1>1
    <3> QED
      BY <1>3, <1>4, <3>1 DEF Rest
  <2>2. Now.files' = files /\ files' = files
    BY <1>1, <1>2
  <2> QED
    BY <1>1, <1>4, <1>5, <2>1, <2>2 DEF Rest
<1>7. Current(Now)'
  BY <1>1, <1>2, <1>5, FreshChain DEF Current
<1>8. Entrusted(Now)'
  BY <1>1, <1>2, <1>3, <1>5 DEF Entrusted
<1>9. Good(Now)'
  <2>1. run' \in Nat \ {0}
    BY <1>1
  <2> QED
    BY <1>6, <1>7, <1>8, <2>1 DEF Good
<1> QED
  BY <1>1, <1>6, <1>9 DEF StreamInv, Good

\* A process that dies leaves a part of what was on its way in the file.
LEMMA CrashLeaves ==
    ASSUME NEW c, Good(c), c.writer.open, ~c.writer.broken,
           NEW n \in 0 .. Len(c.writer.buffered), NEW torn \in BOOLEAN
    PROVE  /\ Rest(Landing(c, n, torn).files)
           /\ HasChain(Landing(c, n, torn).files, run)
<1> DEFINE w == c.writer
           F == c.files
           p == w.current_path
           more == FlattenSeq(SubSeq(w.buffered, 1, n))
           whole == ~torn /\ (F[p].whole \/ n > 0)
           G == Put(F, p, more, whole)
<1>1. /\ Sane(c) /\ F \in Disks /\ run \in Nat \ {0} /\ Rest(F) /\ Entrusted(c)
      /\ w.buffered \in Seq(Seq(Nat)) /\ w.block \in Seq(Nat) /\ w.records_written \in Nat
  BY WriterFacts DEF Good
<1>2. Landing(c, n, torn).files = G
  BY <1>1, LandingFacts
<1>3. PICK s, b :
         LET k == Len(s)
         IN  /\ Chain(F, run, s, b) /\ Writes(w, F, s, b)
             /\ k \in Nat /\ k > 0 /\ b[k] \in Nat /\ p = s[k]
             /\ b[k] <= w.records_written
             /\ Joined(FlattenSeq(w.buffered), w.block) = Slice(b[k], w.records_written)
             /\ F[s[k]].whole \/ w.buffered # <<>>
  BY GoodOpen
<1>4. PICK z \in Nat : b[Len(s)] <= z /\ more = Slice(b[Len(s)], z)
  BY <1>1, <1>3, PartIsNext
<1>5. whole \in BOOLEAN
  OBVIOUS
<1>6. more \in Seq(Nat)
  BY <1>1, FlattenPrefix
<1>7. p \in DOMAIN F /\ F[p].run = run
  <2>1. Len(s) \in Nat /\ Len(s) > 0
    BY <1>3
  <2>2. Len(s) \in 1 .. Len(s)
    BY <2>1
  <2> QED
    BY <1>3, <2>2 DEF Chain
<1> HIDE DEF more, whole
<1>8. HasChain(G, run)
  <2>1. Chain(Put(F, s[Len(s)], Slice(b[Len(s)], z), whole), run, s, [b EXCEPT ![Len(s)] = z])
    BY <1>1, <1>3, <1>4, <1>5, ChainGrows
  <2>2. Chain(G, run, s, [b EXCEPT ![Len(s)] = z])
    BY <1>3, <1>4, <2>1
  <2> QED
    BY <2>2 DEF HasChain
<1> HIDE DEF p
<1>9. /\ DOMAIN G = DOMAIN F
      /\ \A q \in DOMAIN F : q # p => G[q] = F[q]
      /\ G[p].run = run /\ G[p].nth = F[p].nth
  <2> HIDE DEF F
  <2> QED
    BY <1>1, <1>5, <1>6, <1>7, PutFacts
<1> HIDE DEF G
<1>10. Rest(G)
  <2>1. DOMAIN F \subseteq DOMAIN G /\ DOMAIN G \subseteq DOMAIN F \cup {p}
    BY <1>9
  <2>2. \A q \in DOMAIN F : q # p => G[q] = F[q]
    BY <1>9
  <2>3. p \in DOMAIN F => F[p].run = run /\ G[p].nth = F[p].nth
    BY <1>7, <1>9
  <2>4. Rest(F) /\ run \in Nat \ {0} /\ G[p].run = run /\ p \notin DOMAIN manifests
    BY <1>1, <1>9 DEF Entrusted, p
  <2> HIDE DEF F
  <2> QED
    BY <2>1, <2>2, <2>3, <2>4, RestStays
<1> QED
  BY <1>2, <1>8, <1>10

LEMMA CrashKept ==
    ASSUME StreamInv, Crash
    PROVE  StreamKept
<1> DEFINE n == Now
<1>1. Good(n) /\ n.files = files /\ n.writer = writer
  BY DEF Crash, StreamInv, Now
<1>2. /\ phase' = "crashed" /\ tasks' = {} /\ writer' = NewWriter
      /\ run' = run /\ manifests' = manifests
      /\ \E c \in IF writer.open /\ ~writer.broken THEN LandsInPart(n) ELSE {n} :
            files' = c.files
  BY DEF Crash
<1> HIDE DEF n
<1>3. Rest(files') /\ HasChain(files', run)
  <2>1. CASE writer.open /\ ~writer.broken
    <3>1. PICK c \in LandsInPart(n) : files' = c.files
      BY <1>2, <2>1
    <3>2. PICK k \in 0 .. Len(n.writer.buffered), torn \in BOOLEAN : c = Landing(n, k, torn)
      BY <1>1, <2>1, LandsInPartIs DEF Good
    <3> QED
      BY <1>1, <2>1, <3>1, <3>2, CrashLeaves
  <2>2. CASE ~(writer.open /\ ~writer.broken)
    <3>1. files' = files
      BY <1>1, <1>2, <2>2
    <3> QED
      BY <1>1, <3>1 DEF Good, Current, HasChain
  <2> QED
    BY <2>1, <2>2
<1>4. Rest(files)' /\ HasChain(files', run')
  BY <1>2, <1>3 DEF Rest
<1> QED
  BY <1>2, <1>4 DEF StreamKept, StreamInv

LEMMA StreamStep ==
    ASSUME "flush" \notin FaultKinds, DiskInv, StreamInv, [WNext]_wvars
    PROVE  StreamKept
<1>0. Sane(Now) /\ MaxBucket \in Nat /\ failures \in Nat
      /\ (phase # "crashed" => Good(Now))
  BY NowFacts, WriterAssumption DEF DiskInv, StreamInv
<1>n. Now.writer = writer /\ Now.tasks = tasks /\ Now.failures = failures
  BY DEF Now
<1>1. ASSUME NEW bucket \in 0 .. MaxBucket, WriteRecord(bucket) PROVE StreamKept
  <2>1. bucket \in Nat /\ Good(Now)
    BY <1>0, <1>1 DEF WriteRecord
  <2>2. PICK c \in Write(bucket) :
           IF c.threw /\ writer.records_written = 0
           THEN phase' = "failed" /\ \E d \in Destroyed(c) : Returns(d)
           ELSE /\ Returns(c)
                /\ phase' \in {phase} \cup (IF c.threw THEN {"stopping"} ELSE {})
    BY <1>1 DEF WriteRecord
  <2>3. Good(c)
    BY <2>1, WriteGood
  <2>4. run' = run /\ manifests' = manifests /\ phase \in {"running", "stopping"}
    BY <1>1 DEF WriteRecord
  <2>5. CASE c.threw /\ writer.records_written = 0
    <3>1. phase' = "failed"
      BY <2>2, <2>5
    <3>2. PICK d \in Destroyed(c) : Returns(d)
      BY <2>2, <2>5
    <3>3. Good(d)
      BY <2>3, DestroyedGood
    <3> QED
      BY <2>4, <3>1, <3>2, <3>3, CallKept
  <2>6. CASE ~(c.threw /\ writer.records_written = 0)
    <3>1. Returns(c) /\ phase' \in {"running", "stopping"}
      BY <2>2, <2>4, <2>6
    <3> QED
      BY <2>3, <2>4, <3>1, CallKept
  <2> QED
    BY <2>5, <2>6
<1>2. CASE PeriodicFlush
  <2>1. PICK c \in Flush(Now) : Returns(c) /\ phase' = IF c.threw THEN "stopping" ELSE phase
    BY <1>2 DEF PeriodicFlush
  <2>2. Good(c)
    BY <1>0, <1>2, FlushGood DEF PeriodicFlush
  <2>3. run' = run /\ manifests' = manifests /\ phase' \in {"running", "stopping"}
    BY <1>2, <2>1 DEF PeriodicFlush
  <2> QED
    BY <2>1, <2>2, <2>3, CallKept
<1>3. CASE Shutdown
  <2>1. PICK c \in Then(Flush(Now), CloseSegment) :
           \E d \in IF c.threw THEN Destroyed(c) ELSE {c} :
              /\ Returns(d)
              /\ phase' = IF phase = "stopping" \/ c.threw THEN "failed" ELSE "closed"
    BY <1>3 DEF Shutdown
  <2>2. PICK d \in IF c.threw THEN Destroyed(c) ELSE {c} :
              /\ Returns(d)
              /\ phase' = IF phase = "stopping" \/ c.threw THEN "failed" ELSE "closed"
    BY <2>1
  <2>3. /\ Good(d) /\ d.writer.records_written = writer.records_written
        /\ ~c.threw => ~d.writer.open
    BY <1>0, <1>3, ShutdownGood DEF Shutdown
  <2>4. run' = run /\ manifests' = manifests /\ writer.records_written > 0
    BY <1>3 DEF Shutdown
  <2>5. /\ phase' \in {"failed", "closed"}
        /\ phase' = "closed" => ~d.writer.open /\ d.writer.records_written > 0
    BY <2>2, <2>3, <2>4
  <2> QED
    BY <2>2, <2>3, <2>4, <2>5, CallKept
<1>4. CASE Exit
  <2> DEFINE n == Now
  <2>1. Good(n) /\ n.writer = writer /\ n.tasks = tasks /\ n.failures = failures
    BY <1>0, <1>4, <1>n DEF Exit
  <2>2. Returns(n)
    BY <1>4 DEF Exit, Returns, Now
  <2>3. /\ run' = run /\ manifests' = manifests /\ tasks = {}
        /\ phase' \in {"exited_0", "exited_2"}
        /\ phase' = "exited_0" => phase = "closed" /\ failures = 0
    BY <1>4 DEF Exit
  <2>4. phase' = "exited_0" => ~writer.open /\ writer.records_written > 0
    BY <2>3 DEF StreamInv
  <2> HIDE DEF n
  <2> QED
    BY <2>1, <2>2, <2>3, <2>4, CallKept
<1>5. ASSUME NEW file \in tasks, Publish(file) PROVE StreamKept
  BY <1>5, PublishKept
<1>6. ASSUME NEW file \in tasks, PublishFails(file) PROVE StreamKept
  BY <1>0, <1>6, PublishFailsKept
<1>7. CASE Crash
  BY <1>7, CrashKept
<1>8. CASE Restart
  BY <1>8, RestartKept
<1>9. CASE UNCHANGED wvars
  <2>1. /\ writer' = writer /\ files' = files /\ tasks' = tasks /\ failures' = failures
        /\ manifests' = manifests /\ run' = run /\ phase' = phase /\ faults' = faults
    BY <1>9 DEF wvars
  <2>2. CASE phase = "crashed"
    <3>1. Rest(files)'
      BY <2>1 DEF StreamInv, Rest
    <3> QED
      BY <2>1, <2>2, <3>1 DEF StreamInv, StreamKept
  <2>3. CASE phase # "crashed"
    <3> DEFINE n == Now
    <3>1. Good(n) /\ n.writer = writer /\ n.tasks = tasks /\ n.failures = failures
      BY <1>0, <1>n, <2>3
    <3>2. Returns(n)
      BY <2>1 DEF Returns, Now
    <3>3. /\ phase' \in {"closed", "exited_0"} => ~writer.open /\ writer.records_written > 0
          /\ phase' = "exited_0" => tasks = {} /\ failures = 0
      BY <2>1 DEF StreamInv
    <3> HIDE DEF n
    <3> QED
      BY <2>1, <2>3, <3>1, <3>2, <3>3, CallKept
  <2> QED
    BY <2>2, <2>3
<1>10. CASE \E file \in tasks : Publish(file) \/ PublishFails(file)
  BY <1>5, <1>6, <1>10
<1>11. CASE \E bucket \in 0 .. MaxBucket : WriteRecord(bucket)
  BY <1>1, <1>11
<1>12. CASE WNext
  BY <1>2, <1>3, <1>4, <1>7, <1>8, <1>10, <1>11, <1>12 DEF WNext
<1> QED
  BY <1>9, <1>12

\* While out_.flush() does not fail, the files of every run are its stream, cut
\* at the boundaries of its buckets.
THEOREM StreamInvariant ==
    ASSUME "flush" \notin FaultKinds
    PROVE  WSpec => []StreamInv
<1>1. DiskInv' => Sane(Now)'
  BY DEF DiskInv
<1>2. DiskInv /\ DiskInv' /\ StreamInv /\ [WNext]_wvars => StreamInv'
  BY <1>1, StreamStep DEF StreamKept
<1> QED
  BY <1>2, StreamInit, DiskInvariant, PTL DEF WSpec

-------------------------------------------------------------------------------
(* What that says about the properties. *)

\* Files of a chain, in its order, hold a beginning of the stream.
LEMMA ChainReplays ==
    ASSUME NEW r, NEW s, NEW b, Chain(files, r, s, b), files \in Disks,
           NEW paths, NEW n \in Nat, n <= Len(s), DOMAIN paths = 1 .. n,
           \A i \in 1 .. n : paths[i] = s[i]
    PROVE  Replayed(paths) = Count(b[n]) /\ b[n] \in Nat
<1> DEFINE ss == [i \in DOMAIN paths |-> files[paths[i]].records]
<1>1. b \in [Nat -> Nat] /\ b[0] = 0 /\ Len(s) \in Nat
  BY ChainFacts
<1>2. \A i \in 1 .. n : i \in 1 .. Len(s) /\ i - 1 \in Nat /\ i \in Nat
  BY <1>1
<1>3. \A i \in 1 .. n : ss[i] = files[s[i]].records
  OBVIOUS
<1>4. \A i \in 1 .. n : b[i - 1] <= b[i] /\ ss[i] = Slice(b[i - 1], b[i])
  BY <1>2, <1>3 DEF Chain
<1>5. \A i \in 1 .. n : ss[i] \in Seq(Nat)
  <2>1. \A i \in 1 .. n : b[i - 1] \in Nat /\ b[i] \in Nat
    BY <1>1, <1>2
  <2> HIDE DEF ss
  <2> QED
    BY <1>4, <2>1, SliceFacts
<1>6. ss = [i \in 1 .. n |-> ss[i]]
  OBVIOUS
<1>7. Replayed(paths) = FlattenSeq(ss)
  BY DEF Replayed
<1> HIDE DEF ss
<1>8. ss \in Seq(Seq(Nat)) /\ Len(ss) = n
  BY <1>5, <1>6
<1>9. FlattenSeq(ss) = Count(b[Len(ss)])
  BY <1>1, <1>4, <1>8, SlicesFlatten
<1> QED
  BY <1>1, <1>7, <1>8, <1>9

\* The files of a run are its chain.
LEMMA ChainIsFiles ==
    ASSUME NEW r, NEW s, NEW b, Chain(files, r, s, b), files \in Disks
    PROVE  /\ FilesOfRun(r) = s /\ Stored(r) = Count(b[Len(s)]) /\ b[Len(s)] \in Nat
           /\ \A p \in DOMAIN files : files[p].run = r =>
                 files[p].nth \in 1 .. Len(s) /\ p = s[files[p].nth]
<1> DEFINE ofRun == {p \in DOMAIN files : files[p].run = r}
           k == Len(s)
<1>1. s \in Seq(Paths) /\ k \in Nat
  BY ChainFacts
<1>2. \A m, n \in 1 .. k : s[m] = s[n] => m = n
  BY ChainFacts
<1>3. \A n \in 1 .. k : s[n] \in ofRun /\ files[s[n]].nth = n
  BY DEF Chain
<1>4. \A p \in ofRun : \E n \in 1 .. k : p = s[n]
  BY DEF Chain
<1>5. \A p \in ofRun : files[p].nth \in 1 .. k /\ p = s[files[p].nth]
  BY <1>3, <1>4
<1>6. \A p \in DOMAIN files : files[p].run = r =>
         files[p].nth \in 1 .. Len(s) /\ p = s[files[p].nth]
  BY <1>5
<1> HIDE DEF ofRun, k
<1>7. Cardinality(ofRun) = k
  <2>1. s \in [1 .. k -> ofRun]
    BY <1>1, <1>3 DEF k
  <2>2. s \in Bijection(1 .. k, ofRun)
    BY <1>2, <1>4, <2>1 DEF Bijection, Injection, Surjection, IsInjective
  <2>3. IsFiniteSet(1 .. k) /\ Cardinality(1 .. k) = k
    BY <1>1, FS_Interval
  <2>4. ExistsBijection(1 .. k, ofRun)
    BY <2>2 DEF ExistsBijection
  <2> QED
    BY <2>3, <2>4, FS_Bijection
<1>8. FilesOfRun(r) = [n \in 1 .. k |-> CHOOSE p \in ofRun : files[p].nth = n]
  BY <1>7 DEF FilesOfRun, ofRun
<1>9. \A n \in 1 .. k : (CHOOSE p \in ofRun : files[p].nth = n) = s[n]
  <2> SUFFICES ASSUME NEW n \in 1 .. k
               PROVE  (CHOOSE p \in ofRun : files[p].nth = n) = s[n]
    OBVIOUS
  <2> DEFINE q == CHOOSE p \in ofRun : files[p].nth = n
  <2>1. q \in ofRun /\ files[q].nth = n
    BY <1>3
  <2> HIDE DEF q
  <2>2. q = s[n]
    BY <1>5, <2>1
  <2> QED
    BY <2>2 DEF q
<1>10. s = [n \in 1 .. k |-> s[n]]
  BY <1>1 DEF k
<1>11. FilesOfRun(r) = s
  BY <1>8, <1>9, <1>10
<1>12. Replayed(s) = Count(b[Len(s)]) /\ b[Len(s)] \in Nat
  <2>1. Len(s) \in Nat /\ Len(s) <= Len(s) /\ DOMAIN s = 1 .. Len(s)
        /\ \A i \in 1 .. Len(s) : s[i] = s[i]
    BY <1>1 DEF k
  <2> QED
    BY <2>1, ChainReplays
<1> QED
  BY <1>6, <1>11, <1>12 DEF Stored

LEMMA RunsHaveChains ==
    ASSUME DiskInv, StreamInv, NEW r \in 1 .. run
    PROVE  HasChain(files, r) /\ files \in Disks
<1>1. files \in Disks /\ run \in Nat
  BY NowFacts DEF DiskInv
<1>2. CASE r = run
  <2>1. Now.files = files
    BY DEF Now
  <2> QED
    BY <1>1, <1>2, <2>1 DEF StreamInv, Good, Current, HasChain
<1>3. CASE r # run
  <2>1. r \in 1 .. run - 1
    BY <1>1, <1>3
  <2> QED
    BY <1>1, <2>1 DEF StreamInv, Rest
<1> QED
  BY <1>2, <1>3

LEMMA NoHoles == DiskInv /\ StreamInv => RunsHaveNoHoles
<1> SUFFICES ASSUME DiskInv, StreamInv, NEW r \in 1 .. run
             PROVE  Stored(r) = Count(Len(Stored(r)))
  BY DEF RunsHaveNoHoles
<1>1. PICK s, b : Chain(files, r, s, b)
  BY RunsHaveChains DEF HasChain
<1>2. Stored(r) = Count(b[Len(s)]) /\ b[Len(s)] \in Nat
  BY <1>1, RunsHaveChains, ChainIsFiles
<1>3. \A n \in Nat : Len(Count(n)) = n
  BY DEF Count
<1> QED
  BY <1>2, <1>3

LEMMA StreamIsKept == DiskInv /\ StreamInv => RotationKeepsTheStream
<1> SUFFICES ASSUME DiskInv, StreamInv, phase = "running", ~writer.broken
             PROVE  Stored(run) \o FlattenSeq(writer.buffered) \o writer.block
                       = Count(writer.records_written)
  BY DEF RotationKeepsTheStream
<1>1. Good(Now) /\ Now.files = files /\ Now.writer = writer
  BY DEF StreamInv, Now
<1>2. /\ files \in Disks /\ writer.block \in Seq(Nat) /\ FlattenSeq(writer.buffered) \in Seq(Nat)
      /\ writer.records_written \in Nat
  BY <1>1, WriterFacts DEF Good
<1>3. PICK s, b : Chain(files, run, s, b) /\ Writes(writer, files, s, b)
  BY <1>1 DEF Good, Current
<1> DEFINE a == b[Len(s)]
           z == writer.records_written
           f == FlattenSeq(writer.buffered)
<1>4. Stored(run) = Count(a) /\ a \in Nat
  BY <1>2, <1>3, ChainIsFiles
<1>5. a <= z /\ Joined(f, writer.block) = Slice(a, z)
  <2>1. CASE writer.open
    BY <1>3, <2>1 DEF Writes
  <2>2. CASE ~writer.open
    <3>1. writer.buffered = <<>> /\ writer.block = <<>> /\ z = a
      BY <1>3, <2>2 DEF Writes
    <3>2. FlattenSeq(<<>>) = <<>>
      BY FlattenAppend, <<>> \in Seq(Seq(Nat)), <<>> \in Seq(Nat)
    <3>3. <<>> \o <<>> = <<>>
      OBVIOUS
    <3>4. \A x \in Nat : x <= x /\ Slice(x, x) = <<>>
      BY SliceFacts
    <3> QED
      BY <1>4, <3>1, <3>2, <3>3, <3>4 DEF Joined
  <2> QED
    BY <2>1, <2>2
<1> HIDE DEF a, z, f
<1>6. Count(a) = Slice(0, a) /\ Count(a) \in Seq(Nat) /\ Count(z) = Slice(0, z) /\ z \in Nat
  <2>1. \A x \in Nat : Count(x) = Slice(0, x)
    BY DEF Count, Slice
  <2>2. \A x \in Nat : Count(x) \in Seq(Nat)
    BY DEF Count
  <2> QED
    BY <1>2, <1>4, <2>1, <2>2 DEF z
<1>7. (Count(a) \o f) \o writer.block = Count(a) \o Joined(f, writer.block)
  <2>1. \A p, q, r \in Seq(Nat) : (p \o q) \o r = p \o (q \o r)
    BY ConcatAssociates DEF Associates
  <2> QED
    BY <1>2, <1>6, <2>1 DEF Joined, f
<1>8. Slice(0, a) \o Slice(a, z) = Slice(0, z)
  <2>1. 0 \in Nat /\ 0 <= a
    BY <1>4
  <2> QED
    BY <1>4, <1>5, <1>6, <2>1, SlicesJoin
<1> QED
  BY <1>4, <1>5, <1>6, <1>7, <1>8 DEF f, z

LEMMA PublishedIsTold ==
    ASSUME DiskInv, StreamInv, NEW p \in DOMAIN manifests
    PROVE  /\ Told(files, p, manifests[p]) /\ manifests[p].sha256 = files[p].records
           /\ p \in DOMAIN files /\ files[p].run \in 1 .. run
<1>1. Told(files, p, manifests[p]) /\ manifests[p].sha256 = files[p].records
  BY DEF StreamInv, Rest
<1>2. p \in DOMAIN files
  BY <1>1 DEF Told
<1> QED
  BY <1>1, <1>2 DEF StreamInv, Rest

LEMMA ManifestsTell == DiskInv /\ StreamInv => ManifestsAreTrue
<1> SUFFICES ASSUME DiskInv, StreamInv, NEW p \in DOMAIN manifests
             PROVE  LET m == manifests[p]
                        chain == FilesOfRun(files[p].run)
                    IN  /\ m.sha256 = files[p].records /\ files[p].whole
                        /\ m.raw_records = Len(files[p].records)
                        /\ m.continuation = (files[p].nth > 1)
                        /\ m.previous_file =
                              (IF files[p].nth = 1 THEN NoFile ELSE chain[files[p].nth - 1])
  BY DEF ManifestsAreTrue
<1> DEFINE m == manifests[p]
           r == files[p].run
<1>1. Told(files, p, m) /\ m.sha256 = files[p].records /\ p \in DOMAIN files /\ r \in 1 .. run
  BY PublishedIsTold
<1>2. PICK s, b : Chain(files, r, s, b)
  BY <1>1, RunsHaveChains DEF HasChain
<1>3. files \in Disks
  BY <1>1, RunsHaveChains
<1>4. /\ FilesOfRun(r) = s
      /\ \A q \in DOMAIN files : files[q].run = r =>
            files[q].nth \in 1 .. Len(s) /\ q = s[files[q].nth]
  BY <1>2, <1>3, ChainIsFiles
<1>5. files[p].nth # 1 => m.previous_file = s[files[p].nth - 1]
  BY <1>1, <1>4 DEF Told
<1> QED
  BY <1>1, <1>4, <1>5 DEF Told

\* Each file of an accepted chain is the next one of the run of the first.
LEMMA AcceptedIsChain ==
    ASSUME DiskInv, StreamInv, NEW k \in Nat, NEW paths, DOMAIN paths = 1 .. k,
           \A i \in 1 .. k : paths[i] \in DOMAIN manifests,
           Accepts(paths), NEW i \in 1 .. k
    PROVE  files[paths[i]].run = files[paths[1]].run /\ files[paths[i]].nth = i
<1> DEFINE r == files[paths[1]].run
           T == {j \in Nat : j + 1 \in 1 .. k =>
                   files[paths[j + 1]].run = r /\ files[paths[j + 1]].nth = j + 1}
<1>1. \A j \in 1 .. k : /\ Told(files, paths[j], manifests[paths[j]])
                        /\ paths[j] \in DOMAIN files
  BY PublishedIsTold
<1>2. 1 \in 1 .. k
  OBVIOUS
<1>3. \A q \in DOMAIN files : q # NoFile
  <2>1. DOMAIN files \subseteq Paths
    BY NowFacts, DiskFacts DEF DiskInv
  <2> QED
    BY <2>1 DEF Paths, NoFile
<1>4. files[paths[1]].nth = 1
  <2>1. ~manifests[paths[1]].continuation
    BY <1>2 DEF Accepts
  <2>2. ~(files[paths[1]].nth > 1)
    BY <1>1, <1>2, <2>1 DEF Told
  <2>3. files[paths[1]].nth \in Nat /\ files[paths[1]].nth > 0
    <3>1. r \in 1 .. run /\ paths[1] \in DOMAIN files
      BY <1>2, PublishedIsTold
    <3>2. PICK s, b : Chain(files, r, s, b)
      BY <3>1, RunsHaveChains DEF HasChain
    <3>3. files \in Disks
      BY <3>1, RunsHaveChains
    <3>4. files[paths[1]].nth \in 1 .. Len(s)
      <4>1. \A p \in DOMAIN files : files[p].run = r => files[p].nth \in 1 .. Len(s)
        BY <3>2, <3>3, ChainIsFiles
      <4> QED
        BY <3>1, <4>1
    <3>5. Len(s) \in Nat
      BY <3>2, ChainFacts
    <3> QED
      BY <3>4, <3>5
  <2> QED
    BY <2>2, <2>3
<1> HIDE DEF r
<1>5. 0 \in T
  BY <1>4 DEF r
<1>6. ASSUME NEW j \in Nat, j \in T PROVE j + 1 \in T
  <2> SUFFICES ASSUME (j + 1) + 1 \in 1 .. k
               PROVE  /\ files[paths[(j + 1) + 1]].run = r
                      /\ files[paths[(j + 1) + 1]].nth = (j + 1) + 1
    OBVIOUS
  <2> DEFINE n == j + 1
             p == paths[n + 1]
  <2>1. n \in 1 .. k /\ n + 1 \in 1 .. k /\ n + 1 # 1 /\ (n + 1) - 1 = n /\ n \in Nat
    OBVIOUS
  <2>2. files[paths[n]].run = r /\ files[paths[n]].nth = n /\ paths[n] \in DOMAIN files
    BY <1>1, <1>6, <2>1
  <2> HIDE DEF n
  <2>3. manifests[p].previous_file = paths[n]
    BY <2>1 DEF Accepts
  <2>4. Told(files, p, manifests[p])
    BY <1>1, <2>1
  <2>5. files[p].nth # 1
    BY <1>3, <2>2, <2>3, <2>4 DEF Told
  <2>6. files[paths[n]].run = files[p].run /\ files[paths[n]].nth = files[p].nth - 1
    BY <2>3, <2>4, <2>5 DEF Told
  <2>7. files[p].nth \in Nat
    <3>1. files \in Disks /\ p \in DOMAIN files
      BY <1>1, <2>1, NowFacts DEF DiskInv
    <3>2. files[p] \in RawFile
      BY <3>1, DiskFacts
    <3> HIDE DEF p
    <3> QED
      BY <3>2 DEF RawFile
  <2>8. files[p].run = r
    BY <2>2, <2>6
  <2>9. files[p].nth = n + 1
    <3>1. n = files[p].nth - 1
      BY <2>2, <2>6
    <3> DEFINE m == files[p].nth
    <3> HIDE DEF m
    <3> QED
      BY <2>1, <2>7, <3>1 DEF m
  <2> QED
    BY <2>8, <2>9 DEF n
<1>7. Nat \subseteq T
  <2> HIDE DEF T
  <2> QED
    BY <1>5, <1>6, NumbersInduct
<1>8. i - 1 \in Nat /\ (i - 1) + 1 = i
  OBVIOUS
<1>9. i - 1 \in T
  BY <1>7, <1>8
<1> QED
  BY <1>8, <1>9 DEF r

LEMMA AcceptedHasNoHole == DiskInv /\ StreamInv => AcceptedChainHasNoHole
<1> SUFFICES ASSUME DiskInv, StreamInv, NEW paths \in Chains, Accepts(paths),
                    Range(paths) \subseteq DOMAIN manifests
             PROVE  Replayed(paths) = Count(Len(Replayed(paths)))
  BY DEF AcceptedChainHasNoHole
<1>1. PICK k \in Nat : paths \in [1 .. k -> DOMAIN files]
  <2>1. PICK k \in 0 .. 3 : paths \in [1 .. k -> DOMAIN files]
    BY DEF Chains, SeqOf
  <2>2. k \in Nat
    OBVIOUS
  <2> QED
    BY <2>1, <2>2
<1>2. DOMAIN paths = 1 .. k /\ k # 0
  <2>1. DOMAIN paths = 1 .. k
    BY <1>1
  <2>2. CASE k = 0
    <3>1. paths = <<>>
      BY <1>1, <2>2
    <3> QED
      BY <3>1 DEF Accepts
  <2> QED
    BY <2>1, <2>2
<1>3. \A i \in 1 .. k : paths[i] \in DOMAIN manifests
  BY <1>2 DEF Range
<1> DEFINE r == files[paths[1]].run
<1>4. \A i \in 1 .. k : files[paths[i]].run = r /\ files[paths[i]].nth = i
  BY <1>2, <1>3, AcceptedIsChain
<1>5. 1 \in 1 .. k
  BY <1>2
<1>6. r \in 1 .. run
  BY <1>3, <1>5, PublishedIsTold
<1>7. PICK s, b : Chain(files, r, s, b)
  BY <1>6, RunsHaveChains DEF HasChain
<1>8. files \in Disks
  BY <1>6, RunsHaveChains
<1>9. \A i \in 1 .. k : i \in 1 .. Len(s) /\ paths[i] = s[i]
  <2>1. \A q \in DOMAIN files : files[q].run = r =>
           files[q].nth \in 1 .. Len(s) /\ q = s[files[q].nth]
    BY <1>7, <1>8, ChainIsFiles
  <2>2. \A i \in 1 .. k : paths[i] \in DOMAIN files
    BY <1>1
  <2> HIDE DEF r
  <2> QED
    BY <1>4, <2>1, <2>2
<1> HIDE DEF r
<1>10. k <= Len(s)
  <2>1. k \in 1 .. k /\ Len(s) \in Nat
    BY <1>2, <1>7, ChainFacts
  <2>2. k \in 1 .. Len(s)
    BY <1>9, <2>1
  <2> QED
    BY <2>1, <2>2
<1>11. Replayed(paths) = Count(b[k]) /\ b[k] \in Nat
  BY <1>2, <1>7, <1>8, <1>9, <1>10, ChainReplays
<1>12. \A n \in Nat : Len(Count(n)) = n
  BY DEF Count
<1> QED
  BY <1>11, <1>12

\* A chain that is not empty has the first record of the stream.
LEMMA ChainHasInstrument ==
    ASSUME NEW r, NEW s, NEW b, Chain(files, r, s, b), b[Len(s)] > 0
    PROVE  \E i \in 1 .. Len(s) : InstrumentRecord \in Range(files[s[i]].records)
<1> DEFINE T == {n \in Nat : n <= Len(s) /\ b[n] > 0}
<1>1. Len(s) \in Nat /\ b \in [Nat -> Nat] /\ b[0] = 0
  BY ChainFacts
<1>2. PICK n \in T : \A m \in T : n <= m
  <2>1. Len(s) \in T /\ T \in SUBSET Nat
    BY <1>1
  <2> HIDE DEF T
  <2> QED
    BY <2>1, LeastNumber
<1>3. n \in Nat /\ n <= Len(s) /\ b[n] > 0 /\ n # 0 /\ b[n] \in Nat
  BY <1>1, <1>2
<1>4. n \in 1 .. Len(s) /\ n - 1 \in Nat /\ n - 1 <= Len(s) /\ ~(n <= n - 1)
  BY <1>1, <1>3
<1>5. b[n - 1] = 0
  <2>1. b[n - 1] \in Nat
    BY <1>1, <1>4
  <2>2. ASSUME b[n - 1] > 0 PROVE FALSE
    <3>1. n - 1 \in T
      BY <1>4, <2>2
    <3> QED
      BY <1>2, <1>4, <3>1
  <2> QED
    BY <2>1, <2>2
<1>6. files[s[n]].records = Slice(0, b[n])
  BY <1>4, <1>5 DEF Chain
<1>7. 1 \in DOMAIN Slice(0, b[n]) /\ Slice(0, b[n])[1] = 1
  BY <1>3 DEF Slice
<1>8. InstrumentRecord \in Range(files[s[n]].records)
  BY <1>6, <1>7 DEF InstrumentRecord, Range
<1> QED
  BY <1>4, <1>8

LEMMA ExitIsComplete == DiskInv /\ StreamInv => CleanExitIsComplete
<1> SUFFICES ASSUME DiskInv, StreamInv, phase = "exited_0"
             PROVE  /\ Range(FilesOfRun(run)) \subseteq DOMAIN manifests
                    /\ Replays(FilesOfRun(run))
                    /\ Stored(run) = Count(writer.records_written)
  BY DEF CleanExitIsComplete
<1>1. /\ Good(Now) /\ Now.files = files /\ Now.writer = writer /\ Now.tasks = {}
      /\ Now.failures = 0 /\ ~writer.open /\ writer.records_written > 0
  BY DEF StreamInv, Now
<1>2. files \in Disks
  BY <1>1 DEF Good, Sane, Calls
<1>3. PICK s, b : Chain(files, run, s, b) /\ Writes(writer, files, s, b)
  BY <1>1 DEF Good, Current
<1>4. /\ FilesOfRun(run) = s /\ Stored(run) = Count(b[Len(s)]) /\ b[Len(s)] \in Nat
      /\ \A q \in DOMAIN files : files[q].run = run =>
            files[q].nth \in 1 .. Len(s) /\ q = s[files[q].nth]
  BY <1>2, <1>3, ChainIsFiles
<1>5. writer.records_written = b[Len(s)]
  BY <1>1, <1>3 DEF Writes
<1>6. Len(s) \in Nat /\ Len(s) # 0 /\ DOMAIN s = 1 .. Len(s)
  BY <1>1, <1>3, <1>5, ChainFacts
<1>7. \A n \in 1 .. Len(s) : s[n] \in DOMAIN files /\ files[s[n]].run = run /\ files[s[n]].nth = n
  BY <1>3 DEF Chain
<1>8. \A n \in 1 .. Len(s) : s[n] \in DOMAIN manifests
  BY <1>1, <1>7 DEF Good, Entrusted
<1>9. \A n \in 1 .. Len(s) : Told(files, s[n], manifests[s[n]])
  BY <1>8, PublishedIsTold
<1>10. Accepts(s)
  <2>1. s # <<>>
    <3>1. Len(<<>>) = 0
      OBVIOUS
    <3> QED
      BY <1>6, <3>1
  <2>2. ASSUME NEW i \in DOMAIN s
        PROVE  IF i = 1
               THEN ~manifests[s[1]].continuation
               ELSE manifests[s[i]].previous_file = s[i - 1]
    <3>1. i \in 1 .. Len(s)
      BY <1>6
    <3>2. Told(files, s[i], manifests[s[i]]) /\ files[s[i]].nth = i /\ files[s[i]].run = run
      BY <1>7, <1>9, <3>1
    <3>3. CASE i = 1
      <4>1. manifests[s[1]].continuation = (files[s[1]].nth > 1) /\ files[s[1]].nth = 1
        BY <3>2, <3>3 DEF Told
      <4>2. ~(1 > 1)
        OBVIOUS
      <4>3. ~manifests[s[1]].continuation
        BY <4>1, <4>2
      <4> QED
        BY <3>3, <4>3
    <3>4. CASE i # 1
      BY <1>4, <3>2, <3>4 DEF Told
    <3> QED
      BY <3>3, <3>4
  <2> QED
    BY <2>1, <2>2 DEF Accepts
<1>11. \A i \in DOMAIN s : Readable(s[i])
  BY <1>6, <1>9 DEF Readable, Told
<1>12. HasInstrument(s)
  <2>1. PICK i \in 1 .. Len(s) : InstrumentRecord \in Range(files[s[i]].records)
    BY <1>1, <1>3, <1>5, ChainHasInstrument
  <2> QED
    BY <1>6, <1>11, <2>1 DEF HasInstrument
<1>13. Replays(s)
  BY <1>10, <1>11, <1>12 DEF Replays
<1>14. Range(s) \subseteq DOMAIN manifests
  BY <1>6, <1>8 DEF Range
<1> QED
  BY <1>4, <1>5, <1>13, <1>14

\* The files of every run, crashed or not, hold a beginning of its stream.
THEOREM RunsAreWhole ==
    ASSUME "flush" \notin FaultKinds
    PROVE  WSpec => []RunsHaveNoHoles
  BY DiskInvariant, StreamInvariant, NoHoles, PTL

\* A rotation moves no record of the stream: the files, the stream's buffer and
\* block_ are what was written.
THEOREM RotationIsABoundary ==
    ASSUME "flush" \notin FaultKinds
    PROVE  WSpec => []RotationKeepsTheStream
  BY DiskInvariant, StreamInvariant, StreamIsKept, PTL

\* What a manifest says of its file and of the file before it is so.
THEOREM ManifestsTellTheTruth ==
    ASSUME "flush" \notin FaultKinds
    PROVE  WSpec => []ManifestsAreTrue
  BY DiskInvariant, StreamInvariant, ManifestsTell, PTL

\* What crypto_replay accepts, with all manifests there, is one run from its
\* beginning, with nothing left out between two files.
THEOREM AcceptedChains ==
    ASSUME "flush" \notin FaultKinds
    PROVE  WSpec => []AcceptedChainHasNoHole
  BY DiskInvariant, StreamInvariant, AcceptedHasNoHole, PTL

\* An exit with 0 leaves a chain that is accepted and holds all that was written.
THEOREM CleanExits ==
    ASSUME "flush" \notin FaultKinds
    PROVE  WSpec => []CleanExitIsComplete
  BY DiskInvariant, StreamInvariant, ExitIsComplete, PTL
================================================================================
