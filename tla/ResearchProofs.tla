----------------------------- MODULE ResearchProofs -----------------------------
(***************************************************************************)
(* What research reads from recorded events.  run_export (ResearchGrid):   *)
(* for every grid, range and log, however its stamps are ordered, a row    *)
(* knows the records up to its own time and none stamped later, the rows   *)
(* are the points of the grid in order, and their volumes are those of the *)
(* recent trades.  PassiveTradeIndex (PassiveQueue): for every file of     *)
(* trades and every order, the answer found with binary searches, running  *)
(* sums and the tree of extremes is the one found by watching the trades   *)
(* go by.                                                                  *)
(***************************************************************************)
EXTENDS ResearchGrid, PassiveQueue, Integers, Induction, FiniteSetTheorems,
        SequenceTheorems, WellFoundedInduction, TLAPS

Sides == {"buy", "sell"}

RowType == [sample : Nat, version : Nat, valid : BOOLEAN, buy : Int, sell : Int]

\* The trades of one side in a sequence of records, from a stamp on.
Since(s, n, side, stamp) == {i \in 1 .. n : s[i].kind = side /\ s[i].stamp >= stamp}
Count(s, n, side, stamp) == Cardinality(Since(s, n, side, stamp))

\* Of the types, what the argument needs.
GridTypes ==
    /\ log \in Seq(Record) /\ applied \in Nat
    /\ next_sample \in Nat
    /\ rows \in Seq(RowType)
    /\ synchronized \in BOOLEAN
    /\ volumes \in Seq(Record)
    /\ pc \in {"read", "advance", "exact", "finish", "closed"}
    /\ gridded \in BOOLEAN
    /\ pc \in {"advance", "exact"} => log # <<>>
    /\ pc \in {"advance", "exact", "finish"} => gridded
    /\ applied = IF pc = "advance" THEN Len(log) - 1 ELSE Len(log)

\* The records whose grid points have been dealt with.
Processed == IF pc \in {"advance", "exact"} THEN Len(log) - 1 ELSE Len(log)

\* The grid is past every record processed.
GridIsAhead ==
    /\ \A n \in 1 .. Processed : log[n].stamp < next_sample \/ End <= next_sample
    /\ Processed > 0 => gridded
    /\ pc = "exact" => AtHand.stamp <= next_sample \/ End <= next_sample

\* The record that a row stops at, or before.
StopsAt(row, n) ==
    /\ log[n].stamp >= row.sample
    /\ \A m \in 1 .. n - 1 : log[m].stamp < row.sample
    /\ row.version = IF log[n].stamp = row.sample THEN n ELSE n - 1

\* A row stops at some record, or was written after the last one.
RowIsKnown(row) ==
    \/ \E n \in DOMAIN log : StopsAt(row, n)
    \/ /\ pc \in {"finish", "closed"}
       /\ \A n \in DOMAIN log : log[n].stamp < row.sample
       /\ row.version = Len(log)

RowsAreKnown == \A i \in DOMAIN rows : RowIsKnown(rows[i])

\* The rows are in order and the grid is past them.
RowsAreOrdered ==
    /\ \A i \in DOMAIN rows : rows[i].sample < next_sample
    /\ \A i, j \in DOMAIN rows : i < j => rows[i].sample < rows[j].sample
    /\ rows # <<>> => gridded

\* The window holds trades of the log in their order, with their sums, and has
\* lost none that the next sample may count.
WindowIsKept ==
    /\ recent_buy = Count(volumes, Len(volumes), "buy", 0)
    /\ recent_sell = Count(volumes, Len(volumes), "sell", 0)
    /\ \A i, j \in DOMAIN volumes : i < j => volumes[i].stamp <= volumes[j].stamp
    /\ \A i \in DOMAIN volumes : \E n \in Trades(log) : n <= applied /\ volumes[i] = log[n]
    /\ \A side \in Sides, stamp \in Nat :
          stamp >= Cutoff(next_sample) =>
              Count(volumes, Len(volumes), side, stamp) = Count(log, applied, side, stamp)

TradesAreOrdered == \A m, n \in Trades(log) : m < n => log[m].stamp <= log[n].stamp

\* The volumes of a row are those of its records.
RowIsRecent(row) ==
    /\ row.buy = Count(log, row.version, "buy", Cutoff(row.sample))
    /\ row.sell = Count(log, row.version, "sell", Cutoff(row.sample))

RowsAreRecent == \A i \in DOMAIN rows : RowIsRecent(rows[i])

GridInv ==
    /\ GridTypes /\ GridIsAhead /\ RowsAreKnown /\ RowsAreOrdered
    /\ WindowIsKept /\ TradesAreOrdered /\ RowsAreRecent

LEMMA StampType ==
    ASSUME NEW s \in Seq(Record), NEW i \in 1 .. Len(s)
    PROVE  s[i] \in Record /\ s[i].stamp \in Nat /\ s[i].kind \in Kind
<1>1. s[i] \in Record
  OBVIOUS
<1> QED
  BY <1>1, GridAssumption DEF Record

LEMMA StillAhead ==
    ASSUME NEW s \in Seq(Record), NEW k \in 0 .. Len(s), NEW g \in Nat, NEW h \in Nat,
           g < h, \A m \in 1 .. k : s[m].stamp < g
    PROVE  \A m \in 1 .. k : s[m].stamp < h
<1> SUFFICES ASSUME NEW m \in 1 .. k
             PROVE  s[m].stamp < h
  OBVIOUS
<1>1. m \in 1 .. Len(s)
  OBVIOUS
<1>2. s[m].stamp \in Nat /\ s[m].stamp < g
  BY <1>1, StampType
<1> QED
  BY <1>2

LEMMA RowFields ==
    ASSUME NEW s \in Seq(RowType), NEW i \in DOMAIN s
    PROVE  s[i].sample \in Nat /\ s[i].version \in Nat
<1>1. s[i] \in RowType
  OBVIOUS
<1> QED
  BY <1>1 DEF RowType

-------------------------------------------------------------------------------
(* Counting. *)

LEMMA CountType ==
    ASSUME NEW s, NEW n \in Nat, NEW side, NEW stamp
    PROVE  /\ IsFiniteSet(Since(s, n, side, stamp))
           /\ Count(s, n, side, stamp) \in Nat
<1>1. Since(s, n, side, stamp) \in SUBSET (1 .. n) /\ IsFiniteSet(1 .. n)
  BY FS_Interval DEF Since
<1> QED
  BY <1>1, FS_Subset, FS_CardinalityType DEF Count

\* One more record counts if it is of the side and recent.
LEMMA CountNext ==
    ASSUME NEW s, NEW n \in Nat, NEW side, NEW stamp
    PROVE  Count(s, n + 1, side, stamp) =
              Count(s, n, side, stamp)
              + (IF s[n + 1].kind = side /\ s[n + 1].stamp >= stamp THEN 1 ELSE 0)
<1> DEFINE A == Since(s, n, side, stamp)
           B == Since(s, n + 1, side, stamp)
<1>1. B = IF s[n + 1].kind = side /\ s[n + 1].stamp >= stamp THEN A \cup {n + 1} ELSE A
  BY DEF Since
<1>2. IsFiniteSet(A) /\ Cardinality(A) \in Nat
  BY CountType DEF Count
<1>4. n + 1 \notin A
  BY DEF Since
<1>3. Cardinality(A \cup {n + 1}) = Cardinality(A) + 1
  BY <1>2, <1>4, FS_AddElement
<1> QED
  BY <1>1, <1>2, <1>3 DEF Count

\* The count depends on the records only.
LEMMA CountSame ==
    ASSUME NEW s, NEW t, NEW n \in Nat, NEW side, NEW stamp,
           \A i \in 1 .. n : s[i] = t[i]
    PROVE  Count(s, n, side, stamp) = Count(t, n, side, stamp)
<1>1. Since(s, n, side, stamp) = Since(t, n, side, stamp)
  BY DEF Since
<1> QED
  BY <1>1 DEF Count

\* Records in front that are not counted may go.
LEMMA CountSuffix ==
    ASSUME NEW s \in Seq(Record), NEW n \in 0 .. Len(s), NEW side, NEW stamp \in Nat
    PROVE  LET t == SubSeq(s, n + 1, Len(s))
           IN  Count(s, Len(s), side, stamp) =
                  Count(s, n, side, stamp) + Count(t, Len(t), side, stamp)
<1> DEFINE t == SubSeq(s, n + 1, Len(s))
           A == Since(s, n, side, stamp)
           B == Since(t, Len(t), side, stamp)
           C == Since(s, Len(s), side, stamp) \ A
           shift == [i \in B |-> i + n]
<1>1. Len(t) = Len(s) - n /\ \A i \in 1 .. Len(t) : t[i] = s[n + i]
  <2>1. \A i \in n + 1 .. Len(s) : s[i] \in Record
    OBVIOUS
  <2> QED
    BY <2>1, SubSeqProperties
<1>2. C = {i \in n + 1 .. Len(s) : s[i].kind = side /\ s[i].stamp >= stamp}
  BY DEF Since
<1>3. shift \in Bijection(B, C)
  <2>1. \A i \in B : shift[i] \in C
    <3> SUFFICES ASSUME NEW i \in B
                 PROVE  i + n \in C
      OBVIOUS
    <3>1. i \in 1 .. Len(t) /\ t[i].kind = side /\ t[i].stamp >= stamp
      BY DEF Since
    <3>2. t[i] = s[i + n] /\ i + n \in n + 1 .. Len(s)
      BY <1>1, <3>1
    <3> QED
      BY <1>2, <3>1, <3>2
  <2>2. \A i \in C : i - n \in B /\ shift[i - n] = i
    BY <1>1, <1>2 DEF Since
  <2>3. \A i, j \in B : shift[i] = shift[j] => i = j
    BY DEF Since
  <2> QED
    BY <2>1, <2>2, <2>3, Zenon DEF Bijection, Injection, Surjection, IsInjective
<1>4. IsFiniteSet(A) /\ IsFiniteSet(B) /\ IsFiniteSet(Since(s, Len(s), side, stamp))
  BY <1>1, CountType
<1>5. Cardinality(C) = Cardinality(B)
  BY <1>3, <1>4, FS_Bijection DEF ExistsBijection
<1>6. Since(s, Len(s), side, stamp) \cap A = A
  BY DEF Since
<1>7. Cardinality(C) = Cardinality(Since(s, Len(s), side, stamp)) - Cardinality(A)
  BY <1>4, <1>6, FS_Difference
<1>8. Cardinality(A) \in Nat /\ Cardinality(B) \in Nat
      /\ Cardinality(Since(s, Len(s), side, stamp)) \in Nat
  BY <1>4, FS_CardinalityType
<1> QED
  BY <1>5, <1>7, <1>8 DEF Count

-------------------------------------------------------------------------------
(* Writing a sample. *)

\* prune_trades stops at the first recent trade.
LEMMA OldExists ==
    ASSUME volumes \in Seq(Record), NEW g \in Nat
    PROVE  /\ Old(g) \in 0 .. Len(volumes)
           /\ \A i \in 1 .. Old(g) : volumes[i].stamp < Cutoff(g)
           /\ Old(g) = Len(volumes) \/ volumes[Old(g) + 1].stamp >= Cutoff(g)
<1> DEFINE Stops(n) == n = Len(volumes) \/ volumes[n + 1].stamp >= Cutoff(g)
           T == {n \in 0 .. Len(volumes) : Stops(n)}
<1>1. T \subseteq Nat /\ Len(volumes) \in T
  OBVIOUS
<1>2. PICK n \in T : \A m \in T : ~(<<m, n>> \in OpToRel(<, Nat))
  BY <1>1, WFMin, NatLessThanWellFounded, Zenon
<1>3. \A m \in T : n <= m
  <2> SUFFICES ASSUME NEW m \in T
               PROVE  n <= m
    OBVIOUS
  <2>1. <<m, n>> \in Nat \X Nat /\ <<m, n>>[1] = m /\ <<m, n>>[2] = n
    BY <1>1
  <2>2. ~(m < n)
    BY <1>2, <2>1, Zenon DEF OpToRel
  <2> QED
    BY <1>1, <2>2
<1>4. \A i \in 1 .. n : volumes[i].stamp < Cutoff(g)
  <2> SUFFICES ASSUME NEW i \in 1 .. n
               PROVE  volumes[i].stamp < Cutoff(g)
    OBVIOUS
  <2>1. i - 1 \in 0 .. Len(volumes) /\ i - 1 # Len(volumes) /\ i - 1 \notin T
    BY <1>3
  <2>2. ~(volumes[i].stamp >= Cutoff(g))
    BY <2>1
  <2>3. volumes[i].stamp \in Nat /\ Cutoff(g) \in Nat
    BY StampType, GridAssumption DEF Cutoff
  <2> QED
    BY <2>2, <2>3
<1>5. \E k \in 0 .. Len(volumes) :
          /\ \A i \in 1 .. k : volumes[i].stamp < Cutoff(g)
          /\ k = Len(volumes) \/ volumes[k + 1].stamp >= Cutoff(g)
  BY <1>4
<1> QED
  BY <1>5 DEF Old

\* Trades that are not recent do not count.
LEMMA CountOld ==
    ASSUME NEW s \in Seq(Record), NEW n \in 0 .. Len(s), NEW side, NEW stamp \in Nat,
           \A i \in 1 .. n : s[i].stamp < stamp
    PROVE  Count(s, n, side, stamp) = 0
<1>1. Since(s, n, side, stamp) = {}
  <2>1. \A i \in 1 .. n : s[i].stamp \in Nat
    BY StampType
  <2> QED
    BY <2>1 DEF Since
<1> QED
  BY <1>1, FS_EmptySet DEF Count

\* A cut that no trade is older than makes no difference.
LEMMA CountAll ==
    ASSUME NEW s \in Seq(Record), NEW side, NEW stamp \in Nat,
           \A i \in 1 .. Len(s) : s[i].stamp >= stamp
    PROVE  Count(s, Len(s), side, 0) = Count(s, Len(s), side, stamp)
<1>1. \A i \in 1 .. Len(s) : s[i].stamp \in Nat
  BY StampType
<1>2. Since(s, Len(s), side, 0) = Since(s, Len(s), side, stamp)
  BY <1>1 DEF Since
<1> QED
  BY <1>2 DEF Count

LEMMA LotsIsCount ==
    ASSUME volumes \in Seq(Record), NEW n \in 0 .. Len(volumes), NEW side
    PROVE  Lots(side, n) = Count(volumes, n, side, 0)
<1>1. \A i \in 1 .. n : volumes[i].stamp >= 0
  BY StampType
<1> QED
  BY <1>1 DEF Lots, Count, Since

LEMMA CutoffGrows ==
    ASSUME NEW g \in Nat
    PROVE  /\ Cutoff(g) \in Nat
           /\ Cutoff(g) <= Cutoff(g + Interval)
  BY GridAssumption DEF Cutoff

\* After pruning the window is the recent part of the log.
LEMMA PruneEffect ==
    ASSUME GridTypes, WindowIsKept, Prune(next_sample)
    PROVE  /\ volumes' \in Seq(Record)
           /\ recent_buy' = Count(volumes', Len(volumes'), "buy", 0)
           /\ recent_sell' = Count(volumes', Len(volumes'), "sell", 0)
           /\ recent_buy' = Count(log, applied, "buy", Cutoff(next_sample))
           /\ recent_sell' = Count(log, applied, "sell", Cutoff(next_sample))
           /\ \A i, j \in DOMAIN volumes' : i < j => volumes'[i].stamp <= volumes'[j].stamp
           /\ \A i \in DOMAIN volumes' : \E n \in Trades(log) : n <= applied /\ volumes'[i] = log[n]
           /\ \A side \in Sides, stamp \in Nat :
                 stamp >= Cutoff(next_sample) =>
                     Count(volumes', Len(volumes'), side, stamp) = Count(log, applied, side, stamp)
<1> DEFINE g == next_sample
           n == Old(g)
           t == SubSeq(volumes, n + 1, Len(volumes))
<1>1. volumes \in Seq(Record) /\ g \in Nat /\ Cutoff(g) \in Nat
  BY CutoffGrows DEF GridTypes
<1>2. /\ n \in 0 .. Len(volumes)
      /\ \A i \in 1 .. n : volumes[i].stamp < Cutoff(g)
      /\ n = Len(volumes) \/ volumes[n + 1].stamp >= Cutoff(g)
  BY <1>1, OldExists
<1> HIDE DEF n
<1>3. /\ t \in Seq(Record) /\ Len(t) = Len(volumes) - n
      /\ \A i \in 1 .. Len(t) : t[i] = volumes[n + i]
  <2>1. \A i \in n + 1 .. Len(volumes) : volumes[i] \in Record
    BY <1>1, <1>2
  <2>2. n + 1 \in Int /\ Len(volumes) \in Int /\ n \in Nat /\ n <= Len(volumes)
    BY <1>1, <1>2
  <2>3. /\ t \in Seq(Record)
        /\ Len(t) = IF n + 1 <= Len(volumes) THEN Len(volumes) - (n + 1) + 1 ELSE 0
        /\ \A i \in 1 .. Len(volumes) - (n + 1) + 1 : t[i] = volumes[(n + 1) + i - 1]
    BY <2>1, <2>2, SubSeqProperties
  <2> HIDE DEF t
  <2>4. Len(t) = Len(volumes) - n
    BY <2>2, <2>3
  <2>5. \A i \in 1 .. Len(volumes) - n : (n + 1) + i - 1 = n + i
    BY <2>2
  <2> QED
    BY <2>2, <2>3, <2>4, <2>5
<1>4. volumes' = t
  BY DEF Prune, n
<1> HIDE DEF t, g
<1>5. ASSUME NEW side \in Sides
      PROVE  /\ Count(volumes, Len(volumes), side, 0) - Lots(side, n) = Count(t, Len(t), side, 0)
             /\ \A stamp \in Nat : stamp >= Cutoff(g) =>
                   Count(t, Len(t), side, stamp) = Count(log, applied, side, stamp)
  <2>1. Lots(side, n) = Count(volumes, n, side, 0)
    BY <1>1, <1>2, LotsIsCount
  <2>2. /\ Count(volumes, n, side, 0) \in Nat
        /\ Count(t, Len(t), side, 0) \in Nat
    BY <1>2, <1>3, CountType
  <2>3. Count(volumes, Len(volumes), side, 0)
           = Count(volumes, n, side, 0) + Count(t, Len(t), side, 0)
    BY <1>1, <1>2, CountSuffix DEF t
  <2>4. ASSUME NEW stamp \in Nat, stamp >= Cutoff(g)
        PROVE  Count(t, Len(t), side, stamp) = Count(log, applied, side, stamp)
    <3>1. \A i \in 1 .. n : volumes[i].stamp < stamp
      <4>1. \A i \in 1 .. n : volumes[i].stamp \in Nat
        BY <1>1, <1>2, StampType
      <4> QED
        BY <1>1, <1>2, <2>4, <4>1
    <3>2. Count(volumes, n, side, stamp) = 0
      BY <1>1, <1>2, <3>1, CountOld
    <3>3. Count(volumes, Len(volumes), side, stamp) = 0 + Count(t, Len(t), side, stamp)
      BY <1>1, <1>2, <3>2, CountSuffix DEF t
    <3>4. Count(volumes, Len(volumes), side, stamp) = Count(log, applied, side, stamp)
      BY <2>4 DEF WindowIsKept, g
    <3>5. Count(t, Len(t), side, stamp) \in Nat
      BY <1>3, CountType
    <3> QED
      BY <3>3, <3>4, <3>5
  <2> QED
    BY <2>1, <2>2, <2>3, <2>4
<1>6. \A i \in 1 .. Len(t) : t[i].stamp >= Cutoff(g)
  <2> SUFFICES ASSUME NEW i \in 1 .. Len(t)
               PROVE  volumes[n + i].stamp >= Cutoff(g)
    BY <1>3
  <2>1. n + 1 \in DOMAIN volumes /\ n + i \in DOMAIN volumes /\ n # Len(volumes)
    BY <1>1, <1>2, <1>3
  <2>2. volumes[n + 1].stamp \in Nat /\ volumes[n + i].stamp \in Nat
    BY <1>1, <2>1, StampType
  <2>3. i = 1 \/ volumes[n + 1].stamp <= volumes[n + i].stamp
    BY <2>1, <1>2 DEF WindowIsKept
  <2> QED
    BY <1>1, <1>2, <2>1, <2>2, <2>3
<1>7. \A side \in Sides : Count(t, Len(t), side, 0) = Count(log, applied, side, Cutoff(g))
  <2>1. Cutoff(g) >= Cutoff(g)
    BY <1>1
  <2> QED
    BY <1>1, <1>3, <1>5, <1>6, <2>1, CountAll
<1>8. /\ recent_buy' = Count(t, Len(t), "buy", 0)
      /\ recent_sell' = Count(t, Len(t), "sell", 0)
  BY <1>5 DEF Prune, WindowIsKept, Sides, n, g
<1>9. \A i, j \in DOMAIN t : i < j => t[i].stamp <= t[j].stamp
  <2> SUFFICES ASSUME NEW i \in DOMAIN t, NEW j \in DOMAIN t, i < j
               PROVE  volumes[n + i].stamp <= volumes[n + j].stamp
    BY <1>3
  <2>1. n + i \in DOMAIN volumes /\ n + j \in DOMAIN volumes /\ n + i < n + j
    BY <1>1, <1>2, <1>3
  <2> QED
    BY <2>1 DEF WindowIsKept
<1>10. \A i \in DOMAIN t : \E m \in Trades(log) : m <= applied /\ t[i] = log[m]
  <2>1. \A i \in DOMAIN t : n + i \in DOMAIN volumes /\ t[i] = volumes[n + i]
    BY <1>1, <1>2, <1>3
  <2> QED
    BY <2>1 DEF WindowIsKept
<1> QED
  BY <1>3, <1>4, <1>5, <1>7, <1>8, <1>9, <1>10 DEF Sides, g

\* A sample written, or passed over, keeps all but what depends on the record.
LEMMA SampleKeeps ==
    ASSUME GridInv, gridded, WriteSample, UNCHANGED <<log, synchronized, applied, gridded>>
    PROVE  /\ rows' \in Seq(RowType) /\ volumes' \in Seq(Record)
           /\ next_sample' \in Nat /\ next_sample < next_sample'
           /\ RowsAreOrdered' /\ WindowIsKept'
           /\ RowsAreRecent'
           /\ \A i \in DOMAIN rows' :
                 \/ i \in DOMAIN rows /\ rows'[i] = rows[i]
                 \/ rows'[i].sample = next_sample /\ rows'[i].version = applied
<1>1. /\ next_sample \in Nat /\ next_sample' = next_sample + Interval
      /\ next_sample' \in Nat /\ next_sample < next_sample'
  BY GridAssumption DEF GridInv, GridTypes, WriteSample
<1>2. /\ Cutoff(next_sample) \in Nat /\ Cutoff(next_sample') \in Nat
      /\ Cutoff(next_sample) <= Cutoff(next_sample')
  BY <1>1, GridAssumption DEF Cutoff
<1>3. CASE synchronized \/ include_invalid
  <2>1. Prune(next_sample) /\ rows' = Append(rows, Row(next_sample))
    BY <1>3 DEF WriteSample
  <2>2. /\ volumes' \in Seq(Record)
        /\ recent_buy' = Count(volumes', Len(volumes'), "buy", 0)
        /\ recent_sell' = Count(volumes', Len(volumes'), "sell", 0)
        /\ recent_buy' = Count(log, applied, "buy", Cutoff(next_sample))
        /\ recent_sell' = Count(log, applied, "sell", Cutoff(next_sample))
        /\ \A i, j \in DOMAIN volumes' : i < j => volumes'[i].stamp <= volumes'[j].stamp
        /\ \A i \in DOMAIN volumes' : \E n \in Trades(log) : n <= applied /\ volumes'[i] = log[n]
        /\ \A side \in Sides, stamp \in Nat :
              stamp >= Cutoff(next_sample) =>
                  Count(volumes', Len(volumes'), side, stamp) = Count(log, applied, side, stamp)
    BY <2>1, PruneEffect DEF GridInv
  <2>3. applied \in Nat /\ recent_buy' \in Nat /\ recent_sell' \in Nat
    <3>1. applied \in Nat
      BY DEF GridInv, GridTypes
    <3> QED
      BY <2>2, <3>1, CountType
  <2>4. Row(next_sample) \in RowType
    BY <1>1, <2>3 DEF Row, RowType, GridInv, GridTypes
  <2> DEFINE new == Row(next_sample)
  <2>5. /\ new.sample = next_sample /\ new.version = applied
        /\ new.buy = recent_buy' /\ new.sell = recent_sell'
    BY DEF Row
  <2> HIDE DEF new
  <2>6. /\ rows \in Seq(RowType) /\ rows' \in Seq(RowType)
        /\ Len(rows') = Len(rows) + 1 /\ rows'[Len(rows')] = new
        /\ \A i \in DOMAIN rows : rows'[i] = rows[i]
        /\ DOMAIN rows' = DOMAIN rows \cup {Len(rows')}
    BY <2>1, <2>4 DEF GridInv, GridTypes, new
  <2>7. RowsAreOrdered'
    <3>1. \A i \in DOMAIN rows : rows[i].sample \in Nat /\ rows[i].sample < next_sample
      BY <2>6, RowFields DEF GridInv, RowsAreOrdered
    <3>2. \A i \in DOMAIN rows' : rows'[i].sample < next_sample'
      BY <1>1, <2>5, <2>6, <3>1
    <3>3. \A i, j \in DOMAIN rows' : i < j => rows'[i].sample < rows'[j].sample
      <4> SUFFICES ASSUME NEW i \in DOMAIN rows', NEW j \in DOMAIN rows', i < j
                   PROVE  rows'[i].sample < rows'[j].sample
        OBVIOUS
      <4>1. i \in DOMAIN rows
        BY <2>6
      <4>2. CASE j \in DOMAIN rows
        BY <2>6, <4>1, <4>2 DEF GridInv, RowsAreOrdered
      <4>3. CASE j = Len(rows')
        BY <2>5, <2>6, <3>1, <4>1, <4>3
      <4> QED
        BY <2>6, <4>2, <4>3
    <3> QED
      BY <3>2, <3>3 DEF RowsAreOrdered
  <2>8. WindowIsKept'
    <3>1. \A side \in Sides, stamp \in Nat :
             stamp >= Cutoff(next_sample') =>
                 Count(volumes', Len(volumes'), side, stamp) = Count(log, applied, side, stamp)
      BY <1>2, <2>2
    <3>2. log' = log /\ applied' = applied /\ Trades(log') = Trades(log)
      OBVIOUS
    <3>3. Cutoff(next_sample)' = Cutoff(next_sample')
      BY DEF Cutoff
    <3> QED
      BY <2>2, <3>1, <3>2, <3>3 DEF WindowIsKept, Count, Since
  <2>9. RowsAreRecent'
    <3>1. \A i \in DOMAIN rows' : RowIsRecent(rows'[i])
      BY <2>2, <2>5, <2>6 DEF RowIsRecent, RowsAreRecent, GridInv
    <3> QED
      BY <3>1 DEF RowIsRecent, RowsAreRecent, Count, Since, Cutoff
  <2> QED
    BY <1>1, <2>2, <2>5, <2>6, <2>7, <2>8, <2>9
<1>4. CASE ~(synchronized \/ include_invalid)
  <2>1. UNCHANGED <<volumes, recent_buy, recent_sell, rows>>
    BY <1>4 DEF WriteSample, volume_vars, row_vars
  <2>2. \A i \in DOMAIN rows : rows[i].sample \in Nat
    BY RowFields DEF GridInv, GridTypes
  <2>3. RowsAreOrdered'
    BY <1>1, <2>1, <2>2 DEF GridInv, RowsAreOrdered
  <2>4. WindowIsKept'
    <3>1. \A side \in Sides, stamp \in Nat :
             stamp >= Cutoff(next_sample') =>
                 Count(volumes, Len(volumes), side, stamp) = Count(log, applied, side, stamp)
      BY <1>2 DEF GridInv, WindowIsKept
    <3>2. Cutoff(next_sample)' = Cutoff(next_sample')
      BY DEF Cutoff
    <3> QED
      BY <2>1, <3>1, <3>2 DEF GridInv, WindowIsKept, Count, Since, Trades
  <2>5. RowsAreRecent'
    BY <2>1 DEF RowIsRecent, RowsAreRecent, GridInv, Count, Since, Cutoff
  <2> QED
    BY <1>1, <2>1, <2>3, <2>4, <2>5 DEF GridInv, GridTypes
<1> QED
  BY <1>3, <1>4

-------------------------------------------------------------------------------
(* The invariant. *)

LEMMA GridInit == GInit => GridInv
<1> SUFFICES ASSUME GInit
             PROVE  GridInv
  OBVIOUS
<1>1. log = <<>> /\ volumes = <<>> /\ rows = <<>> /\ applied = 0 /\ pc = "read"
  BY DEF GInit
<1>2. GridTypes
  <2>1. log \in Seq(Record) /\ volumes \in Seq(Record) /\ rows \in Seq(RowType) /\ Len(log) = 0
    BY <1>1
  <2>2. applied = (IF pc = "advance" THEN Len(log) - 1 ELSE Len(log)) /\ applied \in Nat
    BY <1>1, <2>1
  <2> QED
    BY <1>1, <2>1, <2>2 DEF GInit, GridTypes
<1>3. GridIsAhead /\ RowsAreKnown /\ RowsAreOrdered /\ TradesAreOrdered /\ RowsAreRecent
  BY <1>1 DEF GridIsAhead, Processed, RowsAreKnown, RowsAreOrdered, TradesAreOrdered, Trades,
              RowsAreRecent
<1>4. WindowIsKept
  <2>1. \A side, stamp : Since(<<>>, 0, side, stamp) = {}
    BY DEF Since
  <2>2. \A side, stamp : Count(<<>>, 0, side, stamp) = 0
    BY <2>1, FS_EmptySet DEF Count
  <2> QED
    BY <1>1, <2>2 DEF WindowIsKept, GInit
<1> QED
  BY <1>2, <1>3, <1>4 DEF GridInv

LEMMA FirstSampleType ==
    ASSUME NEW time \in Nat
    PROVE  FirstSample(time) \in Nat
<1> DEFINE first == IF time < Start THEN Start ELSE time
<1>1. first \in Nat /\ Interval \in Nat \ {0}
  BY GridAssumption
<1>2. first \div Interval \in Nat
  BY <1>1
<1> HIDE DEF first
<1>3. (first \div Interval + 1) * Interval \in Nat
  BY <1>1, <1>2
<1>4. FirstSample(time) = IF first % Interval = 0 THEN first
                          ELSE (first \div Interval + 1) * Interval
  BY DEF FirstSample, first
<1> QED
  BY <1>1, <1>3, <1>4

\* Before the grid there is nothing it could disagree with.
LEMMA InitializeKeeps ==
    ASSUME GridInv, NEW time \in Nat, InitializeGrid(time), pc = "read",
           UNCHANGED <<applied, volumes, recent_buy, recent_sell, rows>>,
           \A n \in 1 .. applied : log'[n] = log[n],
           Len(log) <= Len(log'), log' \in Seq(Record)
    PROVE  /\ next_sample' \in Nat /\ gridded' = TRUE
           /\ gridded => next_sample' = next_sample
           /\ RowsAreOrdered' /\ WindowIsKept'
<1>1. /\ next_sample' \in Nat /\ gridded' = TRUE
      /\ gridded => next_sample' = next_sample
  BY FirstSampleType DEF InitializeGrid, GridInv, GridTypes
<1>2. applied = Len(log) /\ applied \in Nat /\ log \in Seq(Record) /\ volumes \in Seq(Record)
  BY DEF GridInv, GridTypes
<1>3. \A side, stamp : Count(log', applied, side, stamp) = Count(log, applied, side, stamp)
  BY <1>2, CountSame
<1>4. RowsAreOrdered'
  BY <1>1 DEF GridInv, RowsAreOrdered
<1>5. ~gridded => applied = 0
  BY <1>2 DEF GridInv, GridIsAhead, Processed
<1>6. \A i \in DOMAIN volumes : \E n \in Trades(log') : n <= applied /\ volumes[i] = log'[n]
  BY <1>2 DEF GridInv, WindowIsKept, Trades
<1>7. \A side \in Sides, stamp \in Nat :
         stamp >= Cutoff(next_sample') =>
            Count(volumes, Len(volumes), side, stamp) = Count(log', applied, side, stamp)
  <2>1. CASE gridded
    BY <1>1, <1>3, <2>1 DEF GridInv, WindowIsKept
  <2>2. CASE ~gridded
    <3>1. applied = 0 /\ Len(volumes) = 0
      <4>1. DOMAIN volumes = {}
        BY <1>2, <1>5, <2>2 DEF GridInv, WindowIsKept, Trades
      <4> QED
        BY <1>2, <1>5, <2>2, <4>1
    <3>2. \A s, side, stamp : Count(s, 0, side, stamp) = 0
      <4>1. \A s, side, stamp : Since(s, 0, side, stamp) = {}
        BY DEF Since
      <4> QED
        BY <4>1, FS_EmptySet DEF Count
    <3> QED
      BY <3>1, <3>2
  <2> QED
    BY <1>2, <2>1, <2>2 DEF GridInv, GridTypes
<1>8. WindowIsKept'
  <2>1. Cutoff(next_sample)' = Cutoff(next_sample')
    BY DEF Cutoff
  <2> QED
    BY <1>6, <1>7, <2>1 DEF GridInv, WindowIsKept, Count, Since, Trades
<1> QED
  BY <1>1, <1>4, <1>8

LEMMA ReadRecordKeeps ==
    ASSUME GridInv, NEW r \in Record, ReadRecord(r)
    PROVE  GridInv'
<1>1. /\ log \in Seq(Record) /\ pc = "read" /\ pc' = "advance"
      /\ applied = Len(log) /\ applied' = applied
      /\ rows' = rows /\ rows \in Seq(RowType)
  BY DEF GridInv, GridTypes, ReadRecord, row_vars
<1>2. /\ log' \in Seq(Record) /\ Len(log') = Len(log) + 1 /\ log'[Len(log')] = r
      /\ \A n \in 1 .. Len(log) : log'[n] = log[n]
      /\ DOMAIN log' = DOMAIN log \cup {Len(log')}
  BY <1>1 DEF ReadRecord
<1>3. /\ next_sample' \in Nat /\ gridded' = TRUE
      /\ gridded => next_sample' = next_sample
      /\ RowsAreOrdered' /\ WindowIsKept'
  <2>1. r.stamp \in Nat
    BY GridAssumption DEF Record
  <2>2. /\ InitializeGrid(r.stamp)
        /\ UNCHANGED <<applied, volumes, recent_buy, recent_sell, rows>>
    BY DEF ReadRecord, volume_vars, row_vars
  <2>3. Len(log) <= Len(log') /\ \A n \in 1 .. applied : log'[n] = log[n]
    BY <1>1, <1>2
  <2> QED
    BY <1>1, <1>2, <2>1, <2>2, <2>3, InitializeKeeps
<1>4. GridTypes'
  BY <1>1, <1>2, <1>3 DEF GridInv, GridTypes, ReadRecord, volume_vars
<1>5. GridIsAhead'
  <2>1. Processed' = Processed /\ Processed = Len(log)
    BY <1>1, <1>2 DEF Processed
  <2>2. CASE gridded
    BY <1>1, <1>2, <1>3, <2>1, <2>2 DEF GridInv, GridIsAhead
  <2>3. CASE ~gridded
    BY <1>1, <1>2, <1>3, <2>1, <2>3 DEF GridInv, GridIsAhead
  <2> QED
    BY <2>2, <2>3
<1>6. ASSUME NEW i \in DOMAIN rows
      PROVE  \E n \in DOMAIN log : StopsAt(rows[i], n)
  BY <1>1 DEF GridInv, RowsAreKnown, RowIsKnown
<1>7. RowsAreKnown'
  <2>1. ASSUME NEW i \in DOMAIN rows
        PROVE  \E n \in DOMAIN log' : StopsAt(rows[i], n)'
    <3>1. PICK n \in DOMAIN log : StopsAt(rows[i], n)
      BY <1>6
    <3>2. /\ log'[n] = log[n] /\ rows'[i] = rows[i]
          /\ \A m \in 1 .. n - 1 : log'[m] = log[m]
      BY <1>1, <1>2
    <3>3. StopsAt(rows[i], n)'
      BY <3>1, <3>2 DEF StopsAt
    <3> QED
      BY <1>2, <3>3
  <2> QED
    BY <1>1, <2>1 DEF RowsAreKnown, RowIsKnown, StopsAt
<1>8. TradesAreOrdered'
  <2>1. \A n \in Trades(log') : n \in Trades(log) \/ n = Len(log')
    BY <1>1, <1>2 DEF Trades
  <2>2. ASSUME NEW m \in Trades(log'), NEW n \in Trades(log'), m < n
        PROVE  log'[m].stamp <= log'[n].stamp
    <3>1. m \in Trades(log)
      BY <1>1, <1>2, <2>1, <2>2 DEF Trades
    <3>2. CASE n \in Trades(log)
      BY <1>1, <1>2, <2>2, <3>1, <3>2 DEF GridInv, TradesAreOrdered, Trades
    <3>3. CASE n = Len(log')
      BY <1>1, <1>2, <2>2, <3>1, <3>3 DEF ReadRecord, Trades
    <3> QED
      BY <2>1, <3>2, <3>3
  <2> QED
    BY <2>2 DEF TradesAreOrdered
<1>9. RowsAreRecent'
  <2>1. ASSUME NEW i \in DOMAIN rows
        PROVE  \A side, stamp : Count(log', rows[i].version, side, stamp)
                                   = Count(log, rows[i].version, side, stamp)
    <3>1. rows[i].version \in 0 .. Len(log)
      <4>1. PICK n \in DOMAIN log : StopsAt(rows[i], n)
        BY <1>6
      <4> QED
        BY <1>1, <4>1 DEF StopsAt
    <3>2. \A n \in 1 .. rows[i].version : log'[n] = log[n]
      BY <1>1, <1>2, <3>1
    <3>3. rows[i].version \in Nat
      BY <1>1, <3>1
    <3> QED
      BY <3>2, <3>3, CountSame
  <2>2. ASSUME NEW i \in DOMAIN rows
        PROVE  /\ rows[i].buy = Count(log', rows[i].version, "buy", Cutoff(rows[i].sample))
               /\ rows[i].sell = Count(log', rows[i].version, "sell", Cutoff(rows[i].sample))
    BY <2>1 DEF GridInv, RowsAreRecent, RowIsRecent
  <2> QED
    BY <1>1, <2>2 DEF RowsAreRecent, RowIsRecent
<1> QED
  BY <1>3, <1>4, <1>5, <1>7, <1>8, <1>9 DEF GridInv

\* A sample row known in itself leaves every row known.
LEMMA KnownStays ==
    ASSUME GridInv, log' = log, pc' \in {"finish", "closed"} \/ pc \notin {"finish", "closed"},
           rows' \in Seq(RowType),
           \A i \in DOMAIN rows' :
              \/ i \in DOMAIN rows /\ rows'[i] = rows[i]
              \/ rows'[i].sample = next_sample /\ rows'[i].version = applied,
           \/ \E n \in DOMAIN log :
                 /\ log[n].stamp >= next_sample
                 /\ \A m \in 1 .. n - 1 : log[m].stamp < next_sample
                 /\ applied = IF log[n].stamp = next_sample THEN n ELSE n - 1
           \/ /\ pc' \in {"finish", "closed"} /\ applied = Len(log)
              /\ \A n \in DOMAIN log : log[n].stamp < next_sample
           \/ rows' = rows
    PROVE  RowsAreKnown'
<1> SUFFICES ASSUME NEW i \in DOMAIN rows'
             PROVE  \/ \E n \in DOMAIN log :
                          /\ log[n].stamp >= rows'[i].sample
                          /\ \A m \in 1 .. n - 1 : log[m].stamp < rows'[i].sample
                          /\ rows'[i].version = IF log[n].stamp = rows'[i].sample THEN n
                                                ELSE n - 1
                    \/ /\ pc' \in {"finish", "closed"}
                       /\ \A n \in DOMAIN log : log[n].stamp < rows'[i].sample
                       /\ rows'[i].version = Len(log)
  BY DEF RowsAreKnown, RowIsKnown, StopsAt
<1>1. CASE i \in DOMAIN rows /\ rows'[i] = rows[i]
  BY <1>1 DEF GridInv, RowsAreKnown, RowIsKnown, StopsAt
<1>2. CASE rows' # rows /\ rows'[i].sample = next_sample /\ rows'[i].version = applied
  BY <1>2
<1> QED
  BY <1>1, <1>2

LEMMA NothingSampled ==
    ASSUME GridInv, UNCHANGED <<log, applied, gridded, next_sample, volumes, recent_buy,
                                recent_sell, rows>>
    PROVE  RowsAreOrdered' /\ WindowIsKept' /\ RowsAreRecent' /\ TradesAreOrdered'
<1>1. RowsAreOrdered'
  BY DEF GridInv, RowsAreOrdered
<1>2. WindowIsKept'
  BY DEF GridInv, WindowIsKept, Trades
<1>3. RowsAreRecent' /\ TradesAreOrdered'
  BY DEF GridInv, RowsAreRecent, RowIsRecent, TradesAreOrdered, Trades
<1> QED
  BY <1>1, <1>2, <1>3

LEMMA AdvanceBeforeKeeps == GridInv /\ AdvanceBefore => GridInv'
<1> SUFFICES ASSUME GridInv, AdvanceBefore
             PROVE  GridInv'
  OBVIOUS
<1>1. /\ pc = "advance" /\ pc' = pc /\ log' = log /\ gridded' = gridded /\ gridded
      /\ applied' = applied /\ applied = Len(log) - 1 /\ WriteSample
      /\ synchronized' = synchronized /\ next_sample < AtHand.stamp /\ next_sample < End
      /\ log \in Seq(Record) /\ log # <<>> /\ next_sample \in Nat
  BY DEF GridInv, GridTypes, AdvanceBefore, Behind
<1>2. /\ rows' \in Seq(RowType) /\ volumes' \in Seq(Record)
      /\ next_sample' \in Nat /\ next_sample < next_sample'
      /\ RowsAreOrdered' /\ WindowIsKept' /\ RowsAreRecent'
      /\ \A i \in DOMAIN rows' :
            \/ i \in DOMAIN rows /\ rows'[i] = rows[i]
            \/ rows'[i].sample = next_sample /\ rows'[i].version = applied
  BY <1>1, SampleKeeps
<1>3. GridTypes'
  BY <1>1, <1>2 DEF GridInv, GridTypes
<1>4. \A n \in DOMAIN log : log[n].stamp \in Nat
  BY <1>1, StampType
<1>5. \A m \in 1 .. Len(log) - 1 : log[m].stamp < next_sample
  BY <1>1, <1>4, GridAssumption DEF GridInv, GridIsAhead, Processed
<1>6. GridIsAhead'
  <2>1. Processed' = Len(log) - 1 /\ Len(log) \in Nat
    BY <1>1 DEF Processed
  <2>2. Len(log) - 1 \in 0 .. Len(log)
    BY <1>1
  <2>3. \A m \in 1 .. Len(log) - 1 : log[m].stamp < next_sample'
    BY <1>1, <1>2, <1>5, <2>2, StillAhead
  <2> QED
    BY <1>1, <2>1, <2>3 DEF GridIsAhead
<1>7. RowsAreKnown'
  <2>1. /\ Len(log) \in DOMAIN log /\ log[Len(log)].stamp >= next_sample
        /\ log[Len(log)].stamp # next_sample
    BY <1>1, <1>4 DEF AtHand
  <2> QED
    BY <1>1, <1>2, <1>5, <2>1, KnownStays
<1>8. TradesAreOrdered'
  BY <1>1 DEF GridInv, TradesAreOrdered, Trades
<1> QED
  BY <1>2, <1>3, <1>6, <1>7, <1>8 DEF GridInv

LEMMA SampleExactKeeps == GridInv /\ SampleExact => GridInv'
<1> SUFFICES ASSUME GridInv, SampleExact
             PROVE  GridInv'
  OBVIOUS
<1>1. /\ pc = "exact" /\ pc' = "read" /\ log' = log /\ gridded' = gridded /\ gridded
      /\ applied' = applied /\ applied = Len(log) /\ synchronized' = synchronized
      /\ log \in Seq(Record) /\ log # <<>> /\ next_sample \in Nat
      /\ rows \in Seq(RowType)
  BY DEF GridInv, GridTypes, SampleExact
<1>2. \A n \in DOMAIN log : log[n].stamp \in Nat
  BY <1>1, StampType
<1>3. TradesAreOrdered'
  BY <1>1 DEF GridInv, TradesAreOrdered, Trades
<1>4. /\ \A n \in 1 .. Len(log) - 1 : log[n].stamp < next_sample \/ End <= next_sample
      /\ log[Len(log)].stamp <= next_sample \/ End <= next_sample
      /\ Processed' = Len(log)
  BY <1>1 DEF GridInv, GridIsAhead, Processed, AtHand
<1>5. CASE next_sample = AtHand.stamp /\ next_sample < End
  <2>1. WriteSample
    BY <1>5 DEF SampleExact
  <2>2. /\ rows' \in Seq(RowType) /\ volumes' \in Seq(Record)
        /\ next_sample' \in Nat /\ next_sample < next_sample'
        /\ RowsAreOrdered' /\ WindowIsKept' /\ RowsAreRecent'
        /\ \A i \in DOMAIN rows' :
              \/ i \in DOMAIN rows /\ rows'[i] = rows[i]
              \/ rows'[i].sample = next_sample /\ rows'[i].version = applied
    BY <1>1, <2>1, SampleKeeps
  <2>3. GridTypes'
    BY <1>1, <2>2 DEF GridInv, GridTypes
  <2>4. \A m \in 1 .. Len(log) - 1 : log[m].stamp < next_sample
    BY <1>1, <1>2, <1>4, <1>5, GridAssumption
  <2>5. GridIsAhead'
    <3>1. AtHand.stamp = log[Len(log)].stamp /\ Len(log) \in DOMAIN log
      BY <1>1 DEF AtHand
    <3>2. \A n \in 1 .. Len(log) : log[n].stamp < next_sample'
      <4>1. Len(log) \in Nat /\ \A n \in 1 .. Len(log) : n = Len(log) \/ n \in 1 .. Len(log) - 1
        BY <1>1
      <4>2. log[Len(log)].stamp < next_sample'
        BY <1>5, <2>2, <3>1
      <4>3. Len(log) - 1 \in 0 .. Len(log)
        BY <1>1
      <4>4. \A n \in 1 .. Len(log) - 1 : log[n].stamp < next_sample'
        BY <1>1, <2>2, <2>4, <4>3, StillAhead
      <4> QED
        BY <4>1, <4>2, <4>4
    <3> QED
      BY <1>1, <1>4, <3>2 DEF GridIsAhead
  <2>6. RowsAreKnown'
    <3>1. /\ Len(log) \in DOMAIN log /\ log[Len(log)].stamp >= next_sample
          /\ log[Len(log)].stamp = next_sample
      BY <1>1, <1>2, <1>5 DEF AtHand
    <3> QED
      BY <1>1, <2>2, <2>4, <3>1, KnownStays
  <2> QED
    BY <1>3, <2>2, <2>3, <2>5, <2>6 DEF GridInv
<1>6. CASE ~(next_sample = AtHand.stamp /\ next_sample < End)
  <2>1. UNCHANGED <<volumes, recent_buy, recent_sell, rows, next_sample>>
    BY <1>6 DEF SampleExact, volume_vars, row_vars
  <2>2. GridTypes'
    BY <1>1, <2>1 DEF GridInv, GridTypes
  <2>3. GridIsAhead'
    <3>1. AtHand.stamp = log[Len(log)].stamp /\ Len(log) \in DOMAIN log
      BY <1>1 DEF AtHand
    <3>2. log[Len(log)].stamp < next_sample \/ End <= next_sample
      BY <1>1, <1>2, <1>4, <1>6, <3>1, GridAssumption
    <3>3. \A n \in 1 .. Len(log) : log[n].stamp < next_sample \/ End <= next_sample
      BY <1>1, <1>4, <3>2
    <3> QED
      BY <1>1, <1>4, <2>1, <3>3 DEF GridIsAhead
  <2>4. RowsAreKnown'
    BY <1>1, <2>1, KnownStays
  <2>5. RowsAreOrdered' /\ WindowIsKept' /\ RowsAreRecent'
    BY <1>1, <2>1, NothingSampled
  <2> QED
    BY <1>3, <2>2, <2>3, <2>4, <2>5 DEF GridInv
<1> QED
  BY <1>5, <1>6

LEMMA FinishAtKeeps == GridInv /\ FinishAt => GridInv'
<1> SUFFICES ASSUME GridInv, FinishAt
             PROVE  GridInv'
  OBVIOUS
<1>1. /\ pc = "finish" /\ pc' = pc /\ log' = log /\ gridded' = gridded /\ gridded
      /\ applied' = applied /\ applied = Len(log) /\ WriteSample
      /\ synchronized' = synchronized /\ next_sample < End
      /\ log \in Seq(Record) /\ next_sample \in Nat
  BY DEF GridInv, GridTypes, FinishAt
<1>2. /\ rows' \in Seq(RowType) /\ volumes' \in Seq(Record)
      /\ next_sample' \in Nat /\ next_sample < next_sample'
      /\ RowsAreOrdered' /\ WindowIsKept' /\ RowsAreRecent'
      /\ \A i \in DOMAIN rows' :
            \/ i \in DOMAIN rows /\ rows'[i] = rows[i]
            \/ rows'[i].sample = next_sample /\ rows'[i].version = applied
  BY <1>1, SampleKeeps
<1>3. GridTypes'
  BY <1>1, <1>2 DEF GridInv, GridTypes
<1>4. \A n \in DOMAIN log : log[n].stamp \in Nat
  BY <1>1, StampType
<1>5. \A n \in DOMAIN log : log[n].stamp < next_sample
  BY <1>1, <1>4, GridAssumption DEF GridInv, GridIsAhead, Processed
<1>6. GridIsAhead'
  <2>1. Processed' = Len(log) /\ Len(log) \in 0 .. Len(log) /\ Len(log) \in Nat
    BY <1>1 DEF Processed
  <2>2. \A n \in 1 .. Len(log) : log[n].stamp < next_sample
    BY <1>1, <1>5
  <2>3. \A n \in 1 .. Len(log) : log[n].stamp < next_sample'
    BY <1>1, <1>2, <2>1, <2>2, StillAhead
  <2> QED
    BY <1>1, <2>1, <2>3 DEF GridIsAhead
<1>7. RowsAreKnown'
  BY <1>1, <1>2, <1>5, KnownStays
<1>8. TradesAreOrdered'
  BY <1>1 DEF GridInv, TradesAreOrdered, Trades
<1> QED
  BY <1>2, <1>3, <1>6, <1>7, <1>8 DEF GridInv

\* The record's trade joins the window as it joins the records applied.
LEMMA ApplyKeeps == GridInv /\ Apply => GridInv'
<1> SUFFICES ASSUME GridInv, Apply
             PROVE  GridInv'
  OBVIOUS
<1>1. /\ pc = "advance" /\ pc' = "exact" /\ log' = log /\ gridded' = gridded /\ gridded
      /\ applied' = applied + 1 /\ applied = Len(log) - 1 /\ applied' = Len(log)
      /\ log \in Seq(Record) /\ log # <<>> /\ next_sample \in Nat /\ next_sample' = next_sample
      /\ rows \in Seq(RowType) /\ rows' = rows /\ volumes \in Seq(Record) /\ applied \in Nat
  BY DEF GridInv, GridTypes, Apply, row_vars
<1>2. \A n \in DOMAIN log : log[n].stamp \in Nat
  BY <1>1, StampType
<1>3. /\ Len(log) \in DOMAIN log /\ AtHand = log[applied + 1] /\ AtHand \in Record
      /\ AtHand.stamp \in Nat
  BY <1>1, <1>2 DEF AtHand
<1> DEFINE trade == AtHand.kind \in {"buy", "sell"}
<1>4. volumes' = (IF trade THEN Append(volumes, AtHand) ELSE volumes)
  BY DEF Apply, OnTrade, volume_vars
<1>5. volumes' \in Seq(Record)
  BY <1>1, <1>3, <1>4
<1>6. GridTypes'
  <2>1. synchronized' \in BOOLEAN
    BY DEF GridInv, GridTypes, Apply
  <2> QED
    BY <1>1, <1>5, <2>1 DEF GridInv, GridTypes
<1>7. GridIsAhead'
  <2>1. AtHand' = AtHand
    BY <1>1 DEF AtHand
  <2>2. AtHand.stamp <= next_sample \/ End <= next_sample
    BY <1>1, <1>3, GridAssumption DEF Apply, Behind
  <2>3. Processed' = Processed
    BY <1>1 DEF Processed
  <2> QED
    BY <1>1, <2>1, <2>2, <2>3 DEF GridInv, GridIsAhead
<1>8. RowsAreKnown'
  BY <1>1, KnownStays
<1>9. RowsAreOrdered' /\ TradesAreOrdered' /\ RowsAreRecent'
  BY <1>1 DEF GridInv, RowsAreOrdered, RowsAreRecent, RowIsRecent, TradesAreOrdered, Trades
<1>10. ASSUME NEW side \in Sides, NEW stamp \in Nat
       PROVE  LET more == IF AtHand.kind = side /\ AtHand.stamp >= stamp THEN 1 ELSE 0
              IN  /\ Count(log, applied', side, stamp) = Count(log, applied, side, stamp) + more
                  /\ Count(volumes', Len(volumes'), side, stamp)
                        = Count(volumes, Len(volumes), side, stamp) + more
  <2> DEFINE more == IF AtHand.kind = side /\ AtHand.stamp >= stamp THEN 1 ELSE 0
  <2>1. Count(log, applied', side, stamp) = Count(log, applied, side, stamp) + more
    BY <1>1, <1>3, CountNext
  <2>2. CASE trade
    <3>1. /\ Len(volumes') = Len(volumes) + 1 /\ volumes'[Len(volumes) + 1] = AtHand
          /\ \A i \in 1 .. Len(volumes) : volumes'[i] = volumes[i]
          /\ Len(volumes) \in Nat
      BY <1>1, <1>3, <1>4, <2>2
    <3>2. Count(volumes', Len(volumes), side, stamp) = Count(volumes, Len(volumes), side, stamp)
      BY <3>1, CountSame
    <3>3. Count(volumes', Len(volumes) + 1, side, stamp)
             = Count(volumes', Len(volumes), side, stamp) + more
      BY <3>1, CountNext
    <3> QED
      BY <2>1, <3>1, <3>2, <3>3
  <2>3. CASE ~trade
    <3>1. more = 0 /\ volumes' = volumes
      BY <1>4, <2>3 DEF Sides
    <3>2. Count(volumes, Len(volumes), side, stamp) \in Nat
      BY <1>1, CountType
    <3> QED
      BY <2>1, <3>1, <3>2
  <2> QED
    BY <2>2, <2>3
<1>11. WindowIsKept'
  <2>1. /\ recent_buy' = Count(volumes', Len(volumes'), "buy", 0)
        /\ recent_sell' = Count(volumes', Len(volumes'), "sell", 0)
    <3>1. "buy" \in Sides /\ "sell" \in Sides /\ AtHand.stamp >= 0
      BY <1>3 DEF Sides
    <3>2. /\ recent_buy' = recent_buy + (IF AtHand.kind = "buy" THEN 1 ELSE 0)
          /\ recent_sell' = recent_sell + (IF AtHand.kind = "sell" THEN 1 ELSE 0)
      <4>1. recent_buy \in Nat /\ recent_sell \in Nat
        BY <1>1, CountType DEF GridInv, WindowIsKept
      <4> QED
        BY <4>1 DEF Apply, OnTrade, volume_vars
    <3> QED
      BY <1>10, <3>1, <3>2 DEF GridInv, WindowIsKept
  <2>2. \A side \in Sides, stamp \in Nat :
           stamp >= Cutoff(next_sample) =>
              Count(volumes', Len(volumes'), side, stamp) = Count(log, applied', side, stamp)
    BY <1>10 DEF GridInv, WindowIsKept
  <2>3. \A i \in DOMAIN volumes : \E n \in Trades(log) : n <= applied /\ volumes[i] = log[n]
    BY DEF GridInv, WindowIsKept
  <2>4. \A i, j \in DOMAIN volumes : i < j => volumes[i].stamp <= volumes[j].stamp
    BY DEF GridInv, WindowIsKept
  <2>5. /\ \A i \in DOMAIN volumes' : \E n \in Trades(log) : n <= applied' /\ volumes'[i] = log[n]
        /\ \A i, j \in DOMAIN volumes' : i < j => volumes'[i].stamp <= volumes'[j].stamp
    <3>1. CASE trade
      <4>1. /\ Len(volumes') = Len(volumes) + 1 /\ volumes'[Len(volumes')] = AtHand
            /\ \A i \in DOMAIN volumes : volumes'[i] = volumes[i]
            /\ DOMAIN volumes' = DOMAIN volumes \cup {Len(volumes')}
            /\ DOMAIN volumes = 1 .. Len(volumes)
        BY <1>1, <1>3, <1>4, <3>1
      <4>2. applied' \in Trades(log) /\ AtHand = log[applied']
        BY <1>1, <1>3, <3>1 DEF Trades
      <4>3. \A i \in DOMAIN volumes' : \E n \in Trades(log) :
               n <= applied' /\ volumes'[i] = log[n]
        BY <1>1, <2>3, <4>1, <4>2 DEF Trades
      <4>4. \A i \in DOMAIN volumes : volumes[i].stamp <= AtHand.stamp
        <5> SUFFICES ASSUME NEW i \in DOMAIN volumes
                     PROVE  volumes[i].stamp <= AtHand.stamp
          OBVIOUS
        <5>1. PICK n \in Trades(log) : n <= applied /\ volumes[i] = log[n]
          BY <2>3
        <5>2. n < applied'
          BY <1>1, <5>1 DEF Trades
        <5> QED
          BY <4>2, <5>1, <5>2 DEF GridInv, TradesAreOrdered
      <4>5. \A i, j \in DOMAIN volumes' : i < j => volumes'[i].stamp <= volumes'[j].stamp
        <5> SUFFICES ASSUME NEW i \in DOMAIN volumes', NEW j \in DOMAIN volumes', i < j
                     PROVE  volumes'[i].stamp <= volumes'[j].stamp
          OBVIOUS
        <5>1. i \in DOMAIN volumes
          BY <4>1
        <5>2. CASE j \in DOMAIN volumes
          BY <2>4, <4>1, <5>1, <5>2
        <5>3. CASE j = Len(volumes')
          BY <4>1, <4>4, <5>1, <5>3
        <5> QED
          BY <4>1, <5>2, <5>3
      <4> QED
        BY <4>3, <4>5
    <3>2. CASE ~trade
      BY <1>1, <1>4, <2>3, <2>4, <3>2 DEF Trades
    <3> QED
      BY <3>1, <3>2
  <2>6. Cutoff(next_sample)' = Cutoff(next_sample) /\ Trades(log') = Trades(log)
    BY <1>1 DEF Cutoff
  <2> QED
    BY <1>1, <2>1, <2>2, <2>5, <2>6 DEF WindowIsKept, Count, Since
<1> QED
  BY <1>6, <1>7, <1>8, <1>9, <1>11 DEF GridInv

LEMMA EndOfLogKeeps == GridInv /\ EndOfLog => GridInv'
<1> SUFFICES ASSUME GridInv, EndOfLog
             PROVE  GridInv'
  OBVIOUS
<1>1. /\ pc = "read" /\ log' = log /\ applied' = applied /\ synchronized' = synchronized
      /\ UNCHANGED <<volumes, recent_buy, recent_sell, rows>>
      /\ log \in Seq(Record) /\ applied = Len(log) /\ rows \in Seq(RowType)
  BY DEF GridInv, GridTypes, EndOfLog, volume_vars, row_vars
<1>2. RowsAreKnown'
  BY <1>1, KnownStays
<1>3. CASE HasEnd
  <2>1. /\ next_sample' \in Nat /\ gridded' = TRUE
        /\ gridded => next_sample' = next_sample
        /\ RowsAreOrdered' /\ WindowIsKept'
    <3>1. InitializeGrid(End) /\ End \in Nat
      BY <1>3, GridAssumption DEF EndOfLog
    <3>2. Len(log) <= Len(log') /\ log' \in Seq(Record)
      BY <1>1
    <3> QED
      BY <1>1, <3>1, <3>2, InitializeKeeps
  <2>2. pc' = "finish"
    BY <1>3 DEF EndOfLog
  <2>3. GridTypes'
    BY <1>1, <2>1, <2>2 DEF GridInv, GridTypes
  <2>4. GridIsAhead'
    <3>1. Processed' = Len(log) /\ Processed = Len(log)
      BY <1>1, <2>2 DEF Processed
    <3>2. \A n \in 1 .. Len(log) : log[n].stamp < next_sample' \/ End <= next_sample'
      <4>1. CASE gridded
        BY <2>1, <3>1, <4>1 DEF GridInv, GridIsAhead
      <4>2. CASE ~gridded
        BY <1>1, <3>1, <4>2 DEF GridInv, GridIsAhead
      <4> QED
        BY <4>1, <4>2
    <3> QED
      BY <1>1, <2>1, <2>2, <3>1, <3>2 DEF GridIsAhead
  <2>5. TradesAreOrdered' /\ RowsAreRecent'
    <3>1. TradesAreOrdered'
      BY <1>1 DEF GridInv, TradesAreOrdered, Trades
    <3>2. RowsAreRecent'
      BY <1>1 DEF GridInv, RowsAreRecent, RowIsRecent
    <3> QED
      BY <3>1, <3>2
  <2> QED
    BY <1>2, <2>1, <2>3, <2>4, <2>5 DEF GridInv
<1>4. CASE ~HasEnd
  <2>1. pc' = "closed" /\ gridded' = gridded /\ next_sample' = next_sample
    BY <1>4 DEF EndOfLog
  <2>2. GridTypes' /\ GridIsAhead'
    BY <1>1, <2>1 DEF GridInv, GridTypes, GridIsAhead, Processed
  <2> QED
    BY <1>1, <1>2, <2>1, <2>2, NothingSampled DEF GridInv
<1> QED
  BY <1>3, <1>4

LEMMA CloseKeeps == GridInv /\ Close => GridInv'
<1> SUFFICES ASSUME GridInv, Close
             PROVE  GridInv'
  OBVIOUS
<1>1. /\ pc = "finish" /\ pc' = "closed" /\ rows \in Seq(RowType)
      /\ UNCHANGED <<log, synchronized, applied, gridded, next_sample, volumes, recent_buy,
                     recent_sell, rows>>
  BY DEF GridInv, GridTypes, Close, volume_vars, row_vars
<1>2. GridTypes' /\ GridIsAhead'
  BY <1>1 DEF GridInv, GridTypes, GridIsAhead, Processed
<1>3. RowsAreKnown'
  BY <1>1, KnownStays
<1> QED
  BY <1>1, <1>2, <1>3, NothingSampled DEF GridInv

LEMMA GridStep == GridInv /\ [GNext]_gvars => GridInv'
<1> SUFFICES ASSUME GridInv, [GNext]_gvars
             PROVE  GridInv'
  OBVIOUS
<1>1. ASSUME NEW r \in Record, ReadRecord(r)
      PROVE  GridInv'
  BY <1>1, ReadRecordKeeps
<1>2. CASE AdvanceBefore
  BY <1>2, AdvanceBeforeKeeps
<1>3. CASE Apply
  BY <1>3, ApplyKeeps
<1>4. CASE SampleExact
  BY <1>4, SampleExactKeeps
<1>5. CASE EndOfLog
  BY <1>5, EndOfLogKeeps
<1>6. CASE FinishAt
  BY <1>6, FinishAtKeeps
<1>7. CASE Close
  BY <1>7, CloseKeeps
<1>8. CASE UNCHANGED gvars
  <2>1. /\ pc' = pc
        /\ UNCHANGED <<log, synchronized, applied, gridded, next_sample, volumes, recent_buy,
                       recent_sell, rows>>
    BY <1>8 DEF gvars
  <2>2. GridTypes' /\ GridIsAhead' /\ RowsAreKnown'
    BY <2>1 DEF GridInv, GridTypes, GridIsAhead, Processed, AtHand, RowsAreKnown, RowIsKnown,
                StopsAt
  <2> QED
    BY <2>1, <2>2, NothingSampled DEF GridInv
<1> QED
  BY <1>1, <1>2, <1>3, <1>4, <1>5, <1>6, <1>7, <1>8 DEF GNext

\* The invariant of the grid.
THEOREM GridInvariant == GSpec => []GridInv
<1> QED
  BY GridInit, GridStep, PTL DEF GSpec

-------------------------------------------------------------------------------
(* What the rows show. *)

\* The records that the book at a grid point stands after.
KnownBy(g, version) ==
    \/ \E n \in DOMAIN log :
          /\ log[n].stamp >= g
          /\ \A m \in 1 .. n - 1 : log[m].stamp < g
          /\ version = IF log[n].stamp = g THEN n ELSE n - 1
    \/ /\ pc \in {"finish", "closed"}
       /\ \A n \in DOMAIN log : log[n].stamp < g
       /\ version = Len(log)

\* What KnownBy says of a point is what Known computes.
LEMMA KnownIs ==
    ASSUME log \in Seq(Record), NEW g \in Nat, NEW version, KnownBy(g, version)
    PROVE  version = Known(g) /\ version \in 0 .. Len(log)
<1> DEFINE reached == {n \in DOMAIN log : log[n].stamp >= g}
<1>1. \A n \in DOMAIN log : log[n].stamp \in Nat
  BY StampType
<1>2. ASSUME NEW n \in DOMAIN log, log[n].stamp >= g, \A m \in 1 .. n - 1 : log[m].stamp < g,
             version = IF log[n].stamp = g THEN n ELSE n - 1
      PROVE  version = Known(g) /\ version \in 0 .. Len(log)
  <2>1. n \in reached /\ \A m \in reached : n <= m
    <3>1. \A m \in DOMAIN log : m < n => log[m].stamp < g
      BY <1>2
    <3> QED
      BY <1>1, <1>2, <3>1
  <2>2. Earliest(reached) = n
    <3>1. \E k \in reached : \A m \in reached : k <= m
      BY <2>1
    <3>2. Earliest(reached) \in reached /\ \A m \in reached : Earliest(reached) <= m
      BY <3>1, Zenon DEF Earliest
    <3>3. Earliest(reached) \in Nat /\ n \in Nat
      BY <3>2
    <3>4. n <= Earliest(reached) /\ Earliest(reached) <= n
      BY <2>1, <3>2, Zenon
    <3> QED
      BY <3>3, <3>4
  <2>3. reached # {}
    BY <2>1
  <2> QED
    BY <1>2, <2>2, <2>3 DEF Known
<1>3. CASE /\ \A n \in DOMAIN log : log[n].stamp < g
           /\ version = Len(log)
  <2>1. reached = {}
    BY <1>1, <1>3
  <2> QED
    BY <1>3, <2>1 DEF Known
<1> QED
  BY <1>2, <1>3 DEF KnownBy

LEMMA RowKnown ==
    ASSUME GridInv, NEW i \in DOMAIN rows
    PROVE  KnownBy(rows[i].sample, rows[i].version)
BY DEF GridInv, RowsAreKnown, RowIsKnown, StopsAt, KnownBy

\* So a row's version is what Known computes for it.
LEMMA KnownVersion ==
    ASSUME GridInv, NEW i \in DOMAIN rows
    PROVE  rows[i].version = Known(rows[i].sample)
<1>1. log \in Seq(Record) /\ rows[i].sample \in Nat
  BY RowFields DEF GridInv, GridTypes
<1> QED
  BY <1>1, RowKnown, KnownIs

\* No row looks ahead in time, and none misses a record it may know: however
\* the three threads' stamps interleave in the log.
THEOREM RowsDoNotLookAhead == GSpec => []NoLookAhead
<1>1. GridInv => NoLookAhead
  BY KnownVersion DEF NoLookAhead
<1> QED
  BY <1>1, GridInvariant, PTL

\* The sums that the deque is kept with are, at every row, those of the recent
\* trades among the records the row knows.
THEOREM RowVolumesAreRecent == GSpec => []VolumesAreRecent
<1>1. GridInv => VolumesAreRecent
  <2> SUFFICES ASSUME GridInv, NEW i \in DOMAIN rows
               PROVE  /\ rows[i].buy = Recent("buy", rows[i].sample)
                      /\ rows[i].sell = Recent("sell", rows[i].sample)
    BY DEF VolumesAreRecent
  <2>1. rows[i].version = Known(rows[i].sample)
    BY KnownVersion
  <2>2. RowIsRecent(rows[i])
    BY DEF GridInv, RowsAreRecent
  <2> QED
    BY <2>1, <2>2, Zenon DEF RowIsRecent, Count, Since, Recent
<1> QED
  BY <1>1, GridInvariant, PTL

-------------------------------------------------------------------------------
(* The rows are the grid. *)

\* A point is on the grid and passed.
IsPoint(g) ==
    /\ g \in Nat /\ g % Interval = 0 /\ g < next_sample
    /\ Start <= g
    /\ (IF log = <<>> THEN End ELSE log[1].stamp) <= g

\* No row was written for a point, for its book was invalid.
LeftOut(g) ==
    /\ ~include_invalid
    /\ \E version \in 0 .. Len(log) : KnownBy(g, version) /\ ~LiveAfter(version)

\* The grid begins at the first record, or at the end if there is none.
GridBegins ==
    /\ next_sample % Interval = 0
    /\ gridded =>
          /\ Start <= next_sample
          /\ (IF log = <<>> THEN End ELSE log[1].stamp) <= next_sample
    /\ log = <<>> /\ gridded => pc \in {"finish", "closed"}

\* A row shows the book after its records; every point has one or was left out.
PointsAreDealtWith ==
    /\ \A i \in DOMAIN rows :
          /\ IsPoint(rows[i].sample)
          /\ rows[i].valid = LiveAfter(rows[i].version)
          /\ include_invalid \/ rows[i].valid
    /\ \A g \in Passed : LeftOut(g) \/ \E i \in DOMAIN rows : rows[i].sample = g

PointsInv ==
    /\ include_invalid \in BOOLEAN
    /\ synchronized = LiveAfter(applied)
    /\ GridBegins /\ PointsAreDealtWith

\* Multiples of the interval.
LEMMA Divided ==
    ASSUME NEW d \in Nat, d > 0, NEW n \in Nat
    PROVE  \E q \in Nat : q = n \div d /\ n - d * q = n % d /\ n % d \in 0 .. d - 1
  OBVIOUS

LEMMA Multiplied ==
    ASSUME NEW d \in Nat, d > 0, NEW q \in Nat
    PROVE  (d * q) % d = 0 /\ d * q \in Nat
  OBVIOUS

LEMMA Gap ==
    ASSUME NEW d \in Nat, d > 0, NEW p \in Nat, NEW q \in Nat, d * p < d * q
    PROVE  d * p + d <= d * q
<1>1. p < q
  OBVIOUS
<1>2. d * (p + 1) <= d * q
  BY <1>1
<1> QED
  BY <1>2

\* The next point of the grid, and the first one from a time on.
LEMMA NextPoint ==
    ASSUME NEW n \in Nat, n % Interval = 0
    PROVE  /\ (n + Interval) % Interval = 0
           /\ \A g \in Nat : g % Interval = 0 /\ n < g => n + Interval <= g
<1>1. Interval \in Nat /\ Interval > 0
  BY GridAssumption
<1>2. PICK p \in Nat : n - Interval * p = 0
  BY <1>1, Divided
<1>3. n = Interval * p
  BY <1>1, <1>2
<1>4. (n + Interval) % Interval = 0
  <2>1. n + Interval = Interval * (p + 1)
    BY <1>1, <1>3
  <2>2. (Interval * (p + 1)) % Interval = 0
    BY <1>1, Multiplied
  <2> QED
    BY <2>1, <2>2
<1>5. ASSUME NEW g \in Nat, g % Interval = 0, n < g
      PROVE  n + Interval <= g
  <2>1. PICK q \in Nat : g - Interval * q = 0
    BY <1>1, <1>5, Divided
  <2>2. g = Interval * q
    BY <1>1, <2>1
  <2> QED
    BY <1>1, <1>3, <1>5, <2>2, Gap
<1> QED
  BY <1>4, <1>5

LEMMA FirstSampleIs ==
    ASSUME NEW time \in Nat
    PROVE  /\ FirstSample(time) \in Nat /\ FirstSample(time) % Interval = 0
           /\ Start <= FirstSample(time) /\ time <= FirstSample(time)
           /\ \A g \in Nat : g % Interval = 0 /\ Start <= g /\ time <= g => FirstSample(time) <= g
<1> DEFINE first == IF time < Start THEN Start ELSE time
           sample == FirstSample(time)
<1>1. /\ first \in Nat /\ Interval \in Nat /\ Interval > 0
      /\ Start \in Nat /\ Start <= first /\ time <= first
      /\ \A g \in Nat : Start <= g /\ time <= g => first <= g
  BY GridAssumption
<1> HIDE DEF first
<1>2. sample = IF first % Interval = 0 THEN first ELSE (first \div Interval + 1) * Interval
  BY DEF FirstSample, first
<1> HIDE DEF sample
<1>3. PICK q \in Nat : /\ q = first \div Interval /\ first - Interval * q = first % Interval
                       /\ first % Interval \in 0 .. Interval - 1
  BY <1>1, Divided
<1>4. CASE first % Interval = 0
  BY <1>1, <1>2, <1>4 DEF sample
<1>5. CASE first % Interval # 0
  <2>1. sample = Interval * (q + 1) /\ Interval * q \in Nat
    BY <1>1, <1>2, <1>3, <1>5
  <2>2. sample = Interval * q + Interval
    BY <1>1, <2>1
  <2>3. sample % Interval = 0 /\ sample \in Nat
    BY <1>1, <2>1, Multiplied
  <2>4. Interval * q < first /\ first < Interval * q + Interval
    BY <1>1, <1>3, <1>5, <2>1
  <2>5. ASSUME NEW g \in Nat, g % Interval = 0, first <= g
        PROVE  sample <= g
    <3>1. PICK r \in Nat : g - Interval * r = 0
      BY <1>1, <2>5, Divided
    <3>2. g = Interval * r
      BY <1>1, <3>1
    <3>3. Interval * q < Interval * r
      BY <1>1, <2>1, <2>4, <2>5, <3>2
    <3>4. Interval * q + Interval <= Interval * r
      BY <1>1, <3>3, Gap
    <3> QED
      BY <2>2, <3>2, <3>4
  <2>6. Start <= sample /\ time <= sample
    BY <1>1, <2>1, <2>2, <2>3, <2>4
  <2> QED
    BY <1>1, <2>3, <2>5, <2>6 DEF sample
<1> QED
  BY <1>4, <1>5

-------------------------------------------------------------------------------
(* The points' invariant. *)

\* Whether the book is live depends on its records only.
LEMMA LiveSame ==
    ASSUME NEW n \in Nat, \A i \in 1 .. n : log'[i] = log[i]
    PROVE  LiveAfter(n)' = LiveAfter(n)
<1>1. {i \in 1 .. n : log'[i].kind \in {"live", "dead"}}
         = {i \in 1 .. n : log[i].kind \in {"live", "dead"}}
  OBVIOUS
<1> DEFINE depth == {i \in 1 .. n : log[i].kind \in {"live", "dead"}}
<1>2. \A i \in depth : log'[i] = log[i]
  OBVIOUS
<1> HIDE DEF depth
<1>3. (\E i \in depth : log'[i].kind = "live" /\ \A j \in depth : j <= i)
         <=> (\E i \in depth : log[i].kind = "live" /\ \A j \in depth : j <= i)
  BY <1>2
<1> QED
  BY <1>1, <1>3 DEF LiveAfter, depth

\* A record at the end makes the book live or not, or is a trade.
LEMMA LiveNext ==
    ASSUME NEW n \in Nat
    PROVE  LiveAfter(n + 1) = IF log[n + 1].kind \in {"live", "dead"} THEN log[n + 1].kind = "live"
                              ELSE LiveAfter(n)
<1> DEFINE depth(k) == {i \in 1 .. k : log[i].kind \in {"live", "dead"}}
<1>1. CASE log[n + 1].kind \in {"live", "dead"}
  <2>1. /\ depth(n + 1) # {} /\ n + 1 \in depth(n + 1) /\ \A j \in depth(n + 1) : j <= n + 1
        /\ \A i \in depth(n + 1) : (\A j \in depth(n + 1) : j <= i) => i = n + 1
    BY <1>1
  <2> HIDE DEF depth
  <2>2. (\E i \in depth(n + 1) : log[i].kind = "live" /\ \A j \in depth(n + 1) : j <= i)
           <=> log[n + 1].kind = "live"
    BY <2>1, Zenon
  <2> QED
    BY <1>1, <2>1, <2>2 DEF LiveAfter, depth
<1>2. CASE log[n + 1].kind \notin {"live", "dead"}
  <2>1. depth(n + 1) = depth(n)
    BY <1>2
  <2>2. LiveAfter(n + 1) = LiveAfter(n)
    BY <2>1, Zenon DEF LiveAfter
  <2> QED
    BY <1>2, <2>2
<1> QED
  BY <1>1, <1>2

\* What is known of a point stays known, as the log grows.
LEMMA KnownByStays ==
    ASSUME log \in Seq(Record), log' \in Seq(Record), Len(log) <= Len(log'),
           \A n \in DOMAIN log : log'[n] = log[n],
           \/ pc \notin {"finish", "closed"}
           \/ log' = log /\ pc' \in {"finish", "closed"},
           NEW g \in Nat, NEW version, KnownBy(g, version)
    PROVE  KnownBy(g, version)'
<1>1. CASE \E n \in DOMAIN log :
              /\ log[n].stamp >= g
              /\ \A m \in 1 .. n - 1 : log[m].stamp < g
              /\ version = IF log[n].stamp = g THEN n ELSE n - 1
  <2>1. PICK n \in DOMAIN log :
              /\ log[n].stamp >= g
              /\ \A m \in 1 .. n - 1 : log[m].stamp < g
              /\ version = IF log[n].stamp = g THEN n ELSE n - 1
    BY <1>1
  <2>2. n \in DOMAIN log' /\ log'[n] = log[n] /\ \A m \in 1 .. n - 1 : log'[m] = log[m]
    OBVIOUS
  <2> QED
    BY <2>1, <2>2 DEF KnownBy
<1>2. CASE /\ pc \in {"finish", "closed"}
           /\ \A n \in DOMAIN log : log[n].stamp < g
           /\ version = Len(log)
  BY <1>2 DEF KnownBy
<1> QED
  BY <1>1, <1>2 DEF KnownBy

LEMMA LeftOutStays ==
    ASSUME log \in Seq(Record), log' \in Seq(Record), Len(log) <= Len(log'),
           \A n \in DOMAIN log : log'[n] = log[n], include_invalid' = include_invalid,
           \/ pc \notin {"finish", "closed"}
           \/ log' = log /\ pc' \in {"finish", "closed"},
           NEW g \in Nat, LeftOut(g)
    PROVE  LeftOut(g)'
<1>1. PICK version \in 0 .. Len(log) : KnownBy(g, version) /\ ~LiveAfter(version)
  BY DEF LeftOut
<1>2. KnownBy(g, version)'
  BY <1>1, KnownByStays
<1>3. LiveAfter(version)' = LiveAfter(version)
  BY LiveSame
<1>4. version \in 0 .. Len(log')
  OBVIOUS
<1> QED
  BY <1>1, <1>2, <1>3, <1>4 DEF LeftOut

\* Points that were dealt with are, as long as the rows and the grid stay.
LEMMA PointsStay ==
    ASSUME GridInv, PointsInv, GridInv',
           \A n \in DOMAIN log : log'[n] = log[n], Len(log) <= Len(log'),
           log = <<>> => log' = <<>>,
           UNCHANGED <<include_invalid, next_sample, gridded, rows>>,
           \/ pc \notin {"finish", "closed"}
           \/ log' = log /\ pc' \in {"finish", "closed"}
    PROVE  PointsAreDealtWith'
<1>1. /\ log \in Seq(Record) /\ log' \in Seq(Record) /\ rows \in Seq(RowType)
  BY DEF GridInv, GridTypes
<1>2. (IF log = <<>> THEN End ELSE log[1].stamp)' = IF log = <<>> THEN End ELSE log[1].stamp
  BY <1>1
<1>3. Passed' = Passed
  BY <1>2 DEF Passed
<1>4. ASSUME NEW i \in DOMAIN rows
      PROVE  /\ IsPoint(rows[i].sample)'
             /\ rows[i].valid = LiveAfter(rows[i].version)'
             /\ include_invalid \/ rows[i].valid
  <2>1. IsPoint(rows[i].sample)'
    BY <1>2 DEF PointsInv, PointsAreDealtWith, IsPoint
  <2>2. rows[i].version \in 0 .. Len(log)
    BY <1>1, RowKnown, RowFields, KnownIs
  <2>3. LiveAfter(rows[i].version)' = LiveAfter(rows[i].version)
    <3>1. \A version \in 0 .. Len(log) : LiveAfter(version)' = LiveAfter(version)
      BY <1>1, LiveSame
    <3> QED
      BY <2>2, <3>1
  <2> QED
    BY <2>1, <2>3 DEF PointsInv, PointsAreDealtWith
<1>5. ASSUME NEW g \in Passed
      PROVE  LeftOut(g)' \/ \E i \in DOMAIN rows : rows[i].sample = g
  <2>1. g \in Nat
    BY DEF Passed
  <2> QED
    BY <1>1, <2>1, LeftOutStays DEF PointsInv, PointsAreDealtWith
<1> QED
  BY <1>3, <1>4, <1>5 DEF PointsAreDealtWith

\* Where the grid begins, no point has been passed.
LEMMA GridStarts ==
    ASSUME GridInv, ~gridded, NEW time \in Nat, InitializeGrid(time),
           log' = <<>> => time = End, log' # <<>> => log'[1].stamp = time,
           log' = <<>> => pc' \in {"finish", "closed"}, rows' = rows
    PROVE  GridBegins' /\ PointsAreDealtWith'
<1>1. /\ next_sample' = FirstSample(time) /\ gridded' = TRUE
  BY DEF InitializeGrid
<1>2. (IF log = <<>> THEN End ELSE log[1].stamp)' = time
  OBVIOUS
<1>3. GridBegins'
  BY <1>1, <1>2, FirstSampleIs DEF GridBegins
<1>4. Passed' = {}
  <2>1. ASSUME NEW g \in 0 .. FirstSample(time), g < FirstSample(time), g % Interval = 0,
               g >= Start, g >= time
        PROVE  FALSE
    <3>1. g \in Nat /\ Start \in Nat
      BY <2>1, FirstSampleIs, GridAssumption
    <3> QED
      BY <2>1, <3>1, FirstSampleIs
  <2> QED
    BY <1>1, <1>2, <2>1 DEF Passed
<1>5. rows' = <<>>
  BY DEF GridInv, RowsAreOrdered
<1> QED
  BY <1>3, <1>4, <1>5 DEF PointsAreDealtWith

\* A sample deals with one point, the next, and moves the grid past it.
LEMMA PointsSampled ==
    ASSUME GridInv, PointsInv, GridInv', gridded, WriteSample, KnownBy(next_sample, applied),
           UNCHANGED <<include_invalid, log, synchronized, applied, gridded>>,
           pc \notin {"finish", "closed"} \/ pc' \in {"finish", "closed"},
           log = <<>> => pc' \in {"finish", "closed"}
    PROVE  GridBegins' /\ PointsAreDealtWith'
<1> DEFINE First == IF log = <<>> THEN End ELSE log[1].stamp
<1>1. /\ log \in Seq(Record) /\ rows \in Seq(RowType) /\ rows' \in Seq(RowType)
      /\ next_sample \in Nat /\ next_sample' = next_sample + Interval
      /\ Interval \in Nat /\ Interval > 0 /\ Start \in Nat /\ First \in Nat
      /\ include_invalid \in BOOLEAN /\ synchronized \in BOOLEAN
  <2>1. First \in Nat
    BY GridAssumption, StampType DEF GridInv, GridTypes
  <2> QED
    BY <2>1, GridAssumption DEF GridInv, GridTypes, WriteSample, PointsInv
<1>2. /\ next_sample % Interval = 0 /\ Start <= next_sample /\ First <= next_sample
  BY DEF PointsInv, GridBegins
<1>3. First' = First
  OBVIOUS
<1> HIDE DEF First
<1>4. GridBegins'
  <2>1. (next_sample + Interval) % Interval = 0
    BY <1>1, <1>2, NextPoint
  <2>2. Start <= next_sample' /\ First <= next_sample'
    BY <1>1, <1>2
  <2> QED
    BY <1>1, <1>3, <2>1, <2>2 DEF GridBegins, First
<1>5. \A i \in DOMAIN rows : rows[i].sample \in Nat /\ rows[i].version \in 0 .. Len(log)
  BY <1>1, RowKnown, RowFields, KnownIs
<1>6. applied \in 0 .. Len(log)
  BY <1>1, KnownIs
<1>7. \A version : LiveAfter(version)' = LiveAfter(version)
  BY DEF LiveAfter
<1>8. \A g \in Nat : IsPoint(g) \/ g = next_sample => IsPoint(g)'
  BY <1>1, <1>2, <1>3 DEF IsPoint, First
<1>9. \A g \in Passed' : g \in Nat /\ (g \in Passed \/ g = next_sample)
  <2> SUFFICES ASSUME NEW g \in Passed'
               PROVE  g \in Nat /\ (g \in Passed \/ g = next_sample)
    OBVIOUS
  <2>1. /\ g \in Nat /\ g % Interval = 0 /\ g < next_sample + Interval
        /\ g >= Start /\ g >= First
    BY <1>1, <1>3 DEF Passed, First
  <2>2. next_sample < g => next_sample + Interval <= g
    BY <1>1, <1>2, <2>1, NextPoint
  <2>3. g <= next_sample
    BY <1>1, <2>1, <2>2
  <2> QED
    BY <1>1, <2>1, <2>3 DEF Passed, First
<1>10. \A g \in Nat : LeftOut(g) => LeftOut(g)'
  BY <1>1, LeftOutStays
<1>11. CASE synchronized \/ include_invalid
  <2>1. rows' = Append(rows, Row(next_sample))
    BY <1>11 DEF WriteSample
  <2>2. /\ DOMAIN rows' = DOMAIN rows \cup {Len(rows')} /\ \A i \in DOMAIN rows : rows'[i] = rows[i]
        /\ rows'[Len(rows')] = Row(next_sample) /\ Len(rows') \in DOMAIN rows'
    <3>1. Len(rows') = Len(rows) + 1 /\ rows'[Len(rows) + 1] = Row(next_sample)
          /\ \A i \in 1 .. Len(rows) : rows'[i] = rows[i]
      BY <1>1, <2>1
    <3> QED
      BY <1>1, <3>1
  <2>3. /\ Row(next_sample).sample = next_sample /\ Row(next_sample).version = applied
        /\ Row(next_sample).valid = synchronized
    BY DEF Row
  <2>4. ASSUME NEW i \in DOMAIN rows'
        PROVE  /\ IsPoint(rows[i].sample)'
               /\ rows'[i].valid = LiveAfter(rows[i].version)'
               /\ include_invalid \/ rows'[i].valid
    <3>1. CASE i \in DOMAIN rows
      BY <1>5, <1>7, <1>8, <2>2, <3>1 DEF PointsInv, PointsAreDealtWith
    <3>2. CASE i = Len(rows')
      BY <1>1, <1>7, <1>8, <1>11, <2>2, <2>3, <3>2 DEF PointsInv
    <3> QED
      BY <2>2, <3>1, <3>2
  <2>5. ASSUME NEW g \in Passed'
        PROVE  LeftOut(g)' \/ \E i \in DOMAIN rows' : rows'[i].sample = g
    <3>1. CASE g = next_sample
      BY <2>2, <2>3, <3>1
    <3>2. CASE g \in Passed
      BY <1>9, <1>10, <2>2, <3>2 DEF PointsInv, PointsAreDealtWith
    <3> QED
      BY <1>9, <3>1, <3>2
  <2> QED
    BY <1>4, <1>7, <2>4, <2>5 DEF PointsAreDealtWith
<1>12. CASE ~(synchronized \/ include_invalid)
  <2>1. rows' = rows
    BY <1>12 DEF WriteSample, row_vars
  <2>2. LeftOut(next_sample)
    BY <1>6, <1>12 DEF LeftOut, PointsInv
  <2>3. ASSUME NEW i \in DOMAIN rows
        PROVE  /\ IsPoint(rows[i].sample)'
               /\ rows[i].valid = LiveAfter(rows[i].version)'
               /\ include_invalid \/ rows[i].valid
    BY <1>5, <1>7, <1>8, <2>1 DEF PointsInv, PointsAreDealtWith
  <2>4. ASSUME NEW g \in Passed'
        PROVE  LeftOut(g)' \/ \E i \in DOMAIN rows : rows[i].sample = g
    BY <1>1, <1>9, <1>10, <2>2 DEF PointsInv, PointsAreDealtWith
  <2> QED
    BY <1>4, <1>7, <2>1, <2>3, <2>4 DEF PointsAreDealtWith
<1> QED
  BY <1>11, <1>12

LEMMA PointsInit == GInit => PointsInv
<1> SUFFICES ASSUME GInit
             PROVE  PointsInv
  OBVIOUS
<1>1. 0 % Interval = 0 /\ 0 \in Nat
  BY GridAssumption
<1>2. ~LiveAfter(0)
  <2>1. {i \in 1 .. 0 : log[i].kind \in {"live", "dead"}} = {}
    OBVIOUS
  <2> QED
    BY <2>1 DEF LiveAfter
<1>3. Passed = {}
  BY DEF GInit, Passed
<1>4. synchronized = LiveAfter(applied)
  <2>1. synchronized = FALSE /\ applied = 0
    BY DEF GInit
  <2>2. LiveAfter(0) = FALSE
    BY <1>2 DEF LiveAfter
  <2> QED
    BY <2>1, <2>2
<1>5. GridBegins /\ PointsAreDealtWith
  BY <1>1, <1>3 DEF GInit, GridBegins, PointsAreDealtWith
<1> QED
  BY <1>4, <1>5 DEF GInit, PointsInv

LEMMA ReadRecordPoints ==
    ASSUME GridInv, PointsInv, GridInv', NEW r \in Record, ReadRecord(r)
    PROVE  PointsInv'
<1>1. /\ log \in Seq(Record) /\ pc = "read" /\ applied = Len(log) /\ rows' = rows
      /\ UNCHANGED <<include_invalid, synchronized, applied>> /\ InitializeGrid(r.stamp)
      /\ log' = Append(log, r)
  BY DEF GridInv, GridTypes, ReadRecord, row_vars
<1>2. /\ log' \in Seq(Record) /\ Len(log') = Len(log) + 1 /\ log' # <<>>
      /\ \A n \in DOMAIN log : log'[n] = log[n]
      /\ log'[Len(log) + 1] = r
  BY <1>1
<1>3. LiveAfter(applied)' = LiveAfter(applied)
  BY <1>1, <1>2, LiveSame
<1>4. GridBegins' /\ PointsAreDealtWith'
  <2>1. CASE gridded
    <3>1. log # <<>> /\ Len(log) > 0 /\ log'[1] = log[1]
      BY <1>1, <1>2, <2>1 DEF PointsInv, GridBegins
    <3>2. UNCHANGED <<next_sample, gridded>>
      BY <1>1, <2>1 DEF InitializeGrid
    <3>3. GridBegins'
      BY <1>2, <2>1, <3>1, <3>2 DEF PointsInv, GridBegins
    <3>4. PointsAreDealtWith'
      BY <1>1, <1>2, <3>1, <3>2, PointsStay
    <3> QED
      BY <3>3, <3>4
  <2>2. CASE ~gridded
    <3>1. Len(log) = 0
      BY <1>1, <2>2 DEF GridInv, GridIsAhead, Processed
    <3>2. r.stamp \in Nat /\ log'[1].stamp = r.stamp
      BY <1>2, <3>1, GridAssumption DEF Record
    <3> QED
      BY <1>1, <1>2, <2>2, <3>2, GridStarts
  <2> QED
    BY <2>1, <2>2
<1> QED
  BY <1>1, <1>3, <1>4 DEF PointsInv

LEMMA AdvanceBeforePoints ==
    ASSUME GridInv, PointsInv, GridInv', AdvanceBefore
    PROVE  PointsInv'
<1>1. /\ pc = "advance" /\ pc' = pc /\ gridded /\ WriteSample
      /\ UNCHANGED <<include_invalid, log, synchronized, applied, gridded>>
      /\ applied = Len(log) - 1 /\ next_sample < AtHand.stamp /\ next_sample < End
      /\ log \in Seq(Record) /\ log # <<>> /\ next_sample \in Nat
  BY DEF GridInv, GridTypes, AdvanceBefore, Behind
<1>2. KnownBy(next_sample, applied)
  <2>1. \A m \in 1 .. Len(log) - 1 : log[m].stamp \in Nat
    BY <1>1, StampType
  <2>2. \A m \in 1 .. Len(log) - 1 : log[m].stamp < next_sample
    BY <1>1, <2>1, GridAssumption DEF GridInv, GridIsAhead, Processed
  <2>3. Len(log) \in DOMAIN log /\ log[Len(log)].stamp \in Nat
    BY <1>1, StampType
  <2> QED
    BY <1>1, <2>2, <2>3 DEF KnownBy, AtHand
<1>3. GridBegins' /\ PointsAreDealtWith'
  BY <1>1, <1>2, PointsSampled
<1> QED
  BY <1>1, <1>3 DEF PointsInv, LiveAfter

LEMMA FinishAtPoints ==
    ASSUME GridInv, PointsInv, GridInv', FinishAt
    PROVE  PointsInv'
<1>1. /\ pc = "finish" /\ pc' = pc /\ gridded /\ WriteSample
      /\ UNCHANGED <<include_invalid, log, synchronized, applied, gridded>>
      /\ applied = Len(log) /\ next_sample < End
      /\ log \in Seq(Record) /\ next_sample \in Nat
  BY DEF GridInv, GridTypes, FinishAt
<1>2. KnownBy(next_sample, applied)
  <2>1. \A n \in DOMAIN log : log[n].stamp \in Nat
    BY <1>1, StampType
  <2>2. \A n \in DOMAIN log : log[n].stamp < next_sample
    BY <1>1, <2>1, GridAssumption DEF GridInv, GridIsAhead, Processed
  <2> QED
    BY <1>1, <2>2 DEF KnownBy
<1>3. GridBegins' /\ PointsAreDealtWith'
  BY <1>1, <1>2, PointsSampled
<1> QED
  BY <1>1, <1>3 DEF PointsInv, LiveAfter

LEMMA SampleExactPoints ==
    ASSUME GridInv, PointsInv, GridInv', SampleExact
    PROVE  PointsInv'
<1>1. /\ pc = "exact" /\ pc' = "read" /\ gridded
      /\ UNCHANGED <<include_invalid, log, synchronized, applied, gridded>>
      /\ applied = Len(log) /\ log \in Seq(Record) /\ log # <<>> /\ next_sample \in Nat
  BY DEF GridInv, GridTypes, SampleExact
<1>2. GridBegins' /\ PointsAreDealtWith'
  <2>1. CASE next_sample = AtHand.stamp /\ next_sample < End
    <3>1. \A m \in 1 .. Len(log) - 1 : log[m].stamp \in Nat
      BY <1>1, StampType
    <3>2. \A m \in 1 .. Len(log) - 1 : log[m].stamp < next_sample
      BY <1>1, <2>1, <3>1, GridAssumption DEF GridInv, GridIsAhead, Processed
    <3>3. Len(log) \in DOMAIN log /\ log[Len(log)].stamp = next_sample
      BY <1>1, <2>1 DEF AtHand
    <3>4. KnownBy(next_sample, applied)
      BY <1>1, <3>2, <3>3 DEF KnownBy
    <3>5. WriteSample
      BY <2>1 DEF SampleExact
    <3> QED
      BY <1>1, <3>4, <3>5, PointsSampled
  <2>2. CASE ~(next_sample = AtHand.stamp /\ next_sample < End)
    <3>1. UNCHANGED <<rows, next_sample>>
      BY <2>2 DEF SampleExact, row_vars
    <3>2. PointsAreDealtWith'
      BY <1>1, <3>1, PointsStay
    <3> QED
      BY <1>1, <3>1, <3>2 DEF PointsInv, GridBegins
  <2> QED
    BY <2>1, <2>2
<1> QED
  BY <1>1, <1>2 DEF PointsInv, LiveAfter

LEMMA ApplyPoints ==
    ASSUME GridInv, PointsInv, GridInv', Apply
    PROVE  PointsInv'
<1>1. /\ pc = "advance" /\ pc' = "exact" /\ gridded
      /\ UNCHANGED <<include_invalid, log, next_sample, gridded, rows>>
      /\ applied = Len(log) - 1 /\ applied \in Nat /\ applied' = applied + 1
      /\ log \in Seq(Record) /\ log # <<>>
  BY DEF GridInv, GridTypes, Apply, row_vars
<1>2. AtHand = log[applied + 1] /\ AtHand.kind \in Kind
  BY <1>1, StampType DEF AtHand
<1>3. synchronized' = LiveAfter(applied + 1)
  <2>1. synchronized = LiveAfter(applied)
    BY DEF PointsInv
  <2>2. synchronized' = IF AtHand.kind \in {"live", "dead"} THEN AtHand.kind = "live" ELSE synchronized
    BY <1>2 DEF Apply, Kind
  <2>3. LiveAfter(applied + 1) = IF AtHand.kind \in {"live", "dead"} THEN AtHand.kind = "live"
                                 ELSE LiveAfter(applied)
    BY <1>1, <1>2, LiveNext
  <2> QED
    BY <2>1, <2>2, <2>3, Zenon
<1>4. LiveAfter(applied)' = LiveAfter(applied + 1)
  BY <1>1 DEF LiveAfter
<1>5. PointsAreDealtWith'
  BY <1>1, PointsStay
<1>6. GridBegins'
  BY <1>1 DEF PointsInv, GridBegins
<1>7. include_invalid' \in BOOLEAN
  BY <1>1 DEF PointsInv
<1> QED
  BY <1>3, <1>4, <1>5, <1>6, <1>7, Zenon DEF PointsInv

LEMMA EndOfLogPoints ==
    ASSUME GridInv, PointsInv, GridInv', EndOfLog
    PROVE  PointsInv'
<1>1. /\ pc = "read" /\ pc' \in {"finish", "closed"}
      /\ UNCHANGED <<include_invalid, log, synchronized, applied, rows>>
      /\ log \in Seq(Record) /\ applied = Len(log)
  BY DEF GridInv, GridTypes, EndOfLog, row_vars
<1>2. GridBegins' /\ PointsAreDealtWith'
  <2>1. CASE UNCHANGED <<next_sample, gridded>>
    <3>1. PointsAreDealtWith'
      BY <1>1, <2>1, PointsStay
    <3> QED
      BY <1>1, <2>1, <3>1 DEF PointsInv, GridBegins
  <2>2. CASE HasEnd /\ ~gridded
    <3>1. InitializeGrid(End) /\ End \in Nat
      BY <2>2, GridAssumption DEF EndOfLog
    <3>2. log' = <<>>
      BY <1>1, <2>2 DEF GridInv, GridIsAhead, Processed
    <3> QED
      BY <1>1, <2>2, <3>1, <3>2, GridStarts
  <2>3. HasEnd /\ gridded => UNCHANGED <<next_sample, gridded>>
    BY DEF EndOfLog, InitializeGrid
  <2>4. ~HasEnd => UNCHANGED <<next_sample, gridded>>
    BY DEF EndOfLog
  <2> QED
    BY <2>1, <2>2, <2>3, <2>4
<1> QED
  BY <1>1, <1>2 DEF PointsInv, LiveAfter

\* Steps that leave the grid as it is.
LEMMA IdlePoints ==
    ASSUME GridInv, PointsInv, GridInv', Close \/ UNCHANGED gvars
    PROVE  PointsInv'
<1>1. /\ UNCHANGED <<include_invalid, log, synchronized, applied, next_sample, gridded, rows>>
      /\ pc \in {"finish", "closed"} <=> pc' \in {"finish", "closed"}
      /\ log \in Seq(Record)
  BY DEF GridInv, GridTypes, Close, gvars, volume_vars, row_vars
<1>2. PointsAreDealtWith'
  BY <1>1, PointsStay
<1>3. GridBegins'
  BY <1>1 DEF PointsInv, GridBegins
<1> QED
  BY <1>1, <1>2, <1>3 DEF PointsInv, LiveAfter

LEMMA PointsStep == GridInv /\ PointsInv /\ [GNext]_gvars => PointsInv'
<1> SUFFICES ASSUME GridInv, PointsInv, [GNext]_gvars
             PROVE  PointsInv'
  OBVIOUS
<1>1. GridInv'
  BY GridStep
<1>2. ASSUME NEW r \in Record, ReadRecord(r)
      PROVE  PointsInv'
  BY <1>1, <1>2, ReadRecordPoints
<1>3. CASE AdvanceBefore
  BY <1>1, <1>3, AdvanceBeforePoints
<1>4. CASE Apply
  BY <1>1, <1>4, ApplyPoints
<1>5. CASE SampleExact
  BY <1>1, <1>5, SampleExactPoints
<1>6. CASE EndOfLog
  BY <1>1, <1>6, EndOfLogPoints
<1>7. CASE FinishAt
  BY <1>1, <1>7, FinishAtPoints
<1>8. CASE Close \/ UNCHANGED gvars
  BY <1>1, <1>8, IdlePoints
<1> QED
  BY <1>2, <1>3, <1>4, <1>5, <1>6, <1>7, <1>8 DEF GNext

\* Every grid point from the start and the first record on has exactly one row,
\* in order, that shows whether its book was live, unless such rows are left
\* out: for every interval, range and log, however its stamps are ordered.
THEOREM RowsAreThePoints == GSpec => []RowsAreTheGrid
<1>1. GridInv /\ PointsInv => RowsAreTheGrid
  <2> SUFFICES ASSUME GridInv, PointsInv
               PROVE  RowsAreTheGrid
    OBVIOUS
  <2>1. \A m, n \in DOMAIN rows : m < n => rows[m].sample < rows[n].sample
    BY DEF GridInv, RowsAreOrdered
  <2>2. ASSUME NEW i \in DOMAIN rows
        PROVE  /\ rows[i].sample \in Passed /\ rows[i].valid = LiveAfter(Known(rows[i].sample))
               /\ include_invalid \/ LiveAfter(Known(rows[i].sample))
    <3>1. IsPoint(rows[i].sample) /\ gridded /\ next_sample \in Nat
      <4>1. rows # <<>>
        OBVIOUS
      <4> QED
        BY <4>1 DEF PointsInv, PointsAreDealtWith, GridInv, GridTypes, RowsAreOrdered
    <3>2. rows[i].sample \in Passed
      BY <3>1, GridAssumption DEF IsPoint, Passed
    <3>3. rows[i].version = Known(rows[i].sample)
      BY KnownVersion
    <3> QED
      BY <3>2, <3>3 DEF PointsInv, PointsAreDealtWith
  <2>3. ASSUME NEW g \in Passed, include_invalid \/ LiveAfter(Known(g))
        PROVE  \E i \in DOMAIN rows : rows[i].sample = g
    <3>1. g \in Nat /\ log \in Seq(Record)
      BY DEF Passed, GridInv, GridTypes
    <3>2. ~LeftOut(g)
      BY <2>3, <3>1, KnownIs DEF LeftOut
    <3> QED
      BY <3>2 DEF PointsInv, PointsAreDealtWith
  <2> QED
    BY <2>1, <2>2, <2>3 DEF RowsAreTheGrid
<1> QED
  BY <1>1, GridInit, GridStep, PointsInit, PointsStep, PTL DEF GSpec

-------------------------------------------------------------------------------
(* PassiveTradeIndex. The tree over the trades. *)

\* The number of leaves is what the doubling of 1 ends with.
DoublesTo(N, leaves) ==
    \E d \in [0 .. N -> Nat \ {0}] :
        /\ d[0] = 1 /\ leaves = d[N]
        /\ \A k \in 1 .. N : d[k] = IF d[k - 1] < N THEN 2 * d[k - 1] ELSE d[k - 1]

\* The doubling ends with a leaf for every trade.
LEMMA LeavesDoubled ==
    ASSUME NEW trades, NEW N \in Nat, N = Len(trades)
    PROVE  DoublesTo(N, LeafCount(trades))
<1> DEFINE Computes(f) ==
             f = [k \in 0 .. Len(trades) |->
                     IF k = 0 THEN 1
                     ELSE IF f[k - 1] < Len(trades) THEN 2 * f[k - 1] ELSE f[k - 1]]
           doubled == CHOOSE f : Computes(f)
           R == Nat \ {0}
           rule == [k \in 1 .. N |-> [d \in R |-> IF d < N THEN 2 * d ELSE d]]
<1>1. \A k \in 1 .. N : \A d \in R : rule[k][d] = (IF d < N THEN 2 * d ELSE d) /\ rule[k][d] \in R
  OBVIOUS
<1>2. Recurses(R, 1, N, rule)
  <2>1. 1 \in R
    OBVIOUS
  <2> HIDE DEF rule, R
  <2> QED
    BY <1>1, <2>1, Recursion
<1>3. PICK f \in [0 .. N -> R] : f[0] = 1 /\ \A k \in 1 .. N : f[k] = rule[k][f[k - 1]]
  BY <1>2 DEF Recurses
<1> HIDE DEF rule
<1>4. \A k \in 1 .. N : f[k] = IF f[k - 1] < N THEN 2 * f[k - 1] ELSE f[k - 1]
  <2> TAKE k \in 1 .. N
  <2>1. k - 1 \in 0 .. N
    OBVIOUS
  <2>2. f[k - 1] \in R
    BY <2>1
  <2> QED
    BY <1>1, <1>3, <2>2
<1>5. Computes(f)
  BY <1>3, <1>4
<1>6. Computes(doubled)
  <2> HIDE DEF Computes
  <2> QED
    BY <1>5
<1>7. LeafCount(trades) = doubled[N]
  BY DEF LeafCount
<1> HIDE DEF doubled
<1>8. doubled[0] = 1
  BY <1>6
<1>9. \A k \in 1 .. N : doubled[k] = IF doubled[k - 1] < N THEN 2 * doubled[k - 1] ELSE doubled[k - 1]
  BY <1>6
<1> DEFINE U == {k \in Nat : k <= N => doubled[k] \in R}
<1>10. Nat \subseteq U
  <2>1. 0 \in U
    BY <1>8
  <2>2. ASSUME NEW k \in Nat, k \in U PROVE k + 1 \in U
    <3>1. CASE k + 1 <= N
      <4>1. k + 1 \in 1 .. N /\ (k + 1) - 1 = k /\ doubled[k] \in Nat \ {0}
        BY <2>2, <3>1
      <4>2. doubled[k + 1] = IF doubled[k] < N THEN 2 * doubled[k] ELSE doubled[k]
        BY <1>9, <4>1
      <4> QED
        BY <4>1, <4>2
    <3> QED
      BY <3>1
  <2> HIDE DEF U
  <2> QED
    BY <2>1, <2>2, NumbersInduct
<1>11. doubled \in [0 .. N -> R]
  <2>1. \A k \in 0 .. N : doubled[k] \in R
    BY <1>10
  <2>2. doubled = [k \in 0 .. N |-> doubled[k]]
    BY <1>6
  <2> QED
    BY <2>1, <2>2
<1> HIDE DEF Computes
<1> QED
  BY <1>7, <1>8, <1>9, <1>11 DEF DoublesTo

\* Numbers each of which is 1 or twice another of them.
Halving(W) == \A w \in W : w \in Nat \ {0} /\ (w = 1 \/ \E h \in W : w = 2 * h)

\* There are leaves enough, and their number can be halved down to 1.
LEMMA LeavesEnough ==
    ASSUME NEW trades, Len(trades) \in Nat
    PROVE  /\ Len(trades) <= LeafCount(trades)
           /\ \E W : Halving(W) /\ LeafCount(trades) \in W
<1> DEFINE N == Len(trades)
<1>1. N \in Nat
  OBVIOUS
<1>2. PICK d \in [0 .. N -> Nat \ {0}] :
              /\ d[0] = 1 /\ LeafCount(trades) = d[N]
              /\ \A k \in 1 .. N : d[k] = IF d[k - 1] < N THEN 2 * d[k - 1] ELSE d[k - 1]
  <2>1. DoublesTo(N, LeafCount(trades))
    BY <1>1, LeavesDoubled
  <2> HIDE DEF N
  <2> QED
    BY <2>1 DEF DoublesTo
<1> HIDE DEF N
<1> DEFINE U == {k \in Nat : k <= N => d[k] >= k \/ d[k] >= N}
           W == {d[k] : k \in 0 .. N}
           T == {k \in Nat : k <= N => d[k] = 1 \/ \E h \in W : d[k] = 2 * h}
<1>3. Nat \subseteq U
  <2>1. 0 \in U
    BY <1>1, <1>2
  <2>2. ASSUME NEW k \in Nat, k \in U PROVE k + 1 \in U
    <3>1. CASE k + 1 <= N
      <4>1. k + 1 \in 1 .. N /\ (k + 1) - 1 = k /\ k \in 0 .. N
        BY <1>1, <3>1
      <4>2. d[k] \in Nat \ {0} /\ (d[k] >= k \/ d[k] >= N)
        BY <1>2, <2>2, <4>1
      <4>3. d[k + 1] = IF d[k] < N THEN 2 * d[k] ELSE d[k]
        BY <1>2, <4>1
      <4> QED
        BY <1>1, <4>1, <4>2, <4>3
    <3> QED
      BY <3>1
  <2> HIDE DEF U
  <2> QED
    BY <2>1, <2>2, NumbersInduct
<1>4. Nat \subseteq T
  <2>1. 0 \in T
    BY <1>2
  <2>2. ASSUME NEW k \in Nat, k \in T PROVE k + 1 \in T
    <3>1. CASE k + 1 <= N
      <4>1. k + 1 \in 1 .. N /\ (k + 1) - 1 = k /\ k \in 0 .. N
        BY <1>1, <3>1
      <4>2. d[k + 1] = IF d[k] < N THEN 2 * d[k] ELSE d[k]
        BY <1>2, <4>1
      <4>3. d[k] \in W
        BY <4>1
      <4>4. d[k] = 1 \/ \E h \in W : d[k] = 2 * h
        BY <2>2, <4>1
      <4> HIDE DEF W
      <4>5. d[k + 1] = 1 \/ \E h \in W : d[k + 1] = 2 * h
        BY <4>2, <4>3, <4>4
      <4> QED
        BY <4>5
    <3> QED
      BY <3>1
  <2> HIDE DEF T
  <2> QED
    BY <2>1, <2>2, NumbersInduct
<1>5. Halving(W)
  <2>1. \A k \in 0 .. N : d[k] \in Nat \ {0} /\ (d[k] = 1 \/ \E h \in W : d[k] = 2 * h)
    BY <1>1, <1>2, <1>4
  <2> QED
    BY <2>1 DEF Halving
<1>6. N <= LeafCount(trades) /\ LeafCount(trades) \in W
  BY <1>1, <1>2, <1>3
<1> QED
  BY <1>5, <1>6 DEF N

\* The leaves of a node: those from begin on, before end.
LeafRange == [begin : Nat, end : Nat]

\* A node's interval is half of the interval of the node it comes from.
LEMMA BelowRule ==
    ASSUME NEW leaves \in Nat \ {0}
    PROVE  LET b == Below(leaves)
           IN  /\ b \in [1 .. 2 * leaves - 1 -> LeafRange]
               /\ b[1] = [begin |-> 1, end |-> leaves + 1]
               /\ \A n \in 2 .. 2 * leaves - 1 :
                     LET up == b[n \div 2]
                         half == (up.begin + up.end) \div 2
                     IN  b[n] = IF n % 2 = 0 THEN [begin |-> up.begin, end |-> half]
                                ELSE [begin |-> half, end |-> up.end]
<1> DEFINE D == 1 .. 2 * leaves - 1
           V == LeafRange
           all == [begin |-> 1, end |-> leaves + 1]
           Half(f, n) == (f[n \div 2].begin + f[n \div 2].end) \div 2
           Body(f, n) == IF n = 1 THEN all
                         ELSE IF n % 2 = 0 THEN [f[n \div 2] EXCEPT !.end = Half(f, n)]
                         ELSE [f[n \div 2] EXCEPT !.begin = Half(f, n)]
           Computes(f) == f = [n \in D |-> Body(f, n)]
           below == CHOOSE f : Computes(f)
           rank == [n \in D |-> n]
           rule == [n \in D |-> [f \in [D -> V] |-> Body(f, n)]]
<1>1. all \in V
  BY DEF LeafRange
<1>2. ASSUME NEW n \in D, n # 1 PROVE n \div 2 \in D /\ n \div 2 < n /\ n \in 2 .. 2 * leaves - 1
  BY <1>2
<1>3. ASSUME NEW f, NEW n \in D, n # 1, f[n \div 2] \in V
      PROVE  /\ Half(f, n) \in Nat
             /\ Body(f, n) \in V
             /\ Body(f, n) = IF n % 2 = 0 THEN [begin |-> f[n \div 2].begin, end |-> Half(f, n)]
                             ELSE [begin |-> Half(f, n), end |-> f[n \div 2].end]
  <2>1. f[n \div 2].begin \in Nat /\ f[n \div 2].end \in Nat
    BY <1>3 DEF LeafRange
  <2>2. Half(f, n) \in Nat
    <3> DEFINE a == f[n \div 2].begin
               b == f[n \div 2].end
    <3>1. a \in Nat /\ b \in Nat
      BY <2>1
    <3> HIDE DEF a, b
    <3>2. (a + b) \div 2 \in Nat
      BY <3>1
    <3> QED
      BY <3>2 DEF a, b
  <2> HIDE DEF Half
  <2> QED
    BY <1>3, <2>1, <2>2 DEF LeafRange
<1>4. rank \in [D -> 0 .. 2 * leaves]
  OBVIOUS
<1>5. \A n \in D : \A f \in [D -> V] : Body(f, n) \in V
  <2> TAKE n \in D
  <2> TAKE f \in [D -> V]
  <2>1. CASE n = 1
    BY <1>1, <2>1
  <2>2. CASE n # 1
    <3>1. f[n \div 2] \in V
      BY <1>2, <2>2
    <3> HIDE DEF Body
    <3> QED
      BY <1>3, <2>2, <3>1
  <2> QED
    BY <2>1, <2>2
<1>6. rule \in [D -> [[D -> V] -> V]]
  <2> HIDE DEF Body
  <2> QED
    BY <1>5
<1>7. ASSUME NEW n \in D, NEW f \in [D -> V], NEW g \in [D -> V],
             \A c \in D : rank[c] < rank[n] => f[c] = g[c]
      PROVE  rule[n][f] = rule[n][g]
  <2>1. Body(f, n) = Body(g, n)
    <3>1. CASE n = 1
      BY <3>1
    <3>2. CASE n # 1
      <4>1. f[n \div 2] = g[n \div 2]
        BY <1>2, <1>7, <3>2
      <4> QED
        BY <3>2, <4>1
    <3> QED
      BY <3>1, <3>2
  <2> HIDE DEF Body
  <2> QED
    BY <2>1
<1>8. Computed(D, V, rule)
  <2>1. 2 * leaves \in Nat
    OBVIOUS
  <2> HIDE DEF D, V, rank, rule, all
  <2> QED
    BY <1>1, <1>4, <1>6, <1>7, <2>1, RankedRecursion
<1>9. PICK f \in [D -> V] : \A n \in D : f[n] = rule[n][f]
  BY <1>8 DEF Computed
<1>10. Computes(f)
  <2>1. \A n \in D : f[n] = Body(f, n)
    <3> HIDE DEF Body
    <3> QED
      BY <1>9
  <2> HIDE DEF Body
  <2> QED
    BY <1>9, <2>1
<1>11. Computes(below)
  <2> HIDE DEF Computes
  <2> QED
    BY <1>10
<1>12. Below(leaves) = below
  BY DEF Below
<1> HIDE DEF below
<1>13. \A n \in D : below[n] = Body(below, n)
  <2> HIDE DEF Body
  <2> QED
    BY <1>11
<1>14. below[1] = all
  <2>1. 1 \in D
    OBVIOUS
  <2> QED
    BY <1>13, <2>1
<1> DEFINE U == {k \in Nat : \A n \in D : n <= k => below[n] \in V}
<1>15. Nat \subseteq U
  <2>1. 0 \in U
    OBVIOUS
  <2>2. ASSUME NEW k \in Nat, k \in U PROVE k + 1 \in U
    <3>1. ASSUME NEW n \in D, n <= k + 1 PROVE below[n] \in V
      <4>1. CASE n = 1
        BY <1>1, <1>14, <4>1
      <4>2. CASE n # 1
        <5>1. n \div 2 \in D /\ n \div 2 <= k
          BY <1>2, <3>1, <4>2
        <5>2. below[n \div 2] \in V
          BY <2>2, <5>1
        <5> HIDE DEF Body, V
        <5> QED
          BY <1>3, <1>13, <4>2, <5>2
      <4> QED
        BY <4>1, <4>2
    <3> HIDE DEF D, V
    <3> QED
      BY <3>1
  <2> HIDE DEF U
  <2> QED
    BY <2>1, <2>2, NumbersInduct
<1>16. \A n \in D : below[n] \in V
  BY <1>15
<1>17. below \in [D -> V]
  <2>1. below = [n \in D |-> below[n]]
    <3> HIDE DEF Body, D
    <3> QED
      BY <1>11
  <2> HIDE DEF V, D
  <2> QED
    BY <1>16, <2>1
<1>18. ASSUME NEW n \in 2 .. 2 * leaves - 1
       PROVE  below[n] = IF n % 2 = 0 THEN [begin |-> below[n \div 2].begin, end |-> Half(below, n)]
                         ELSE [begin |-> Half(below, n), end |-> below[n \div 2].end]
  <2>1. n \in D /\ n # 1
    OBVIOUS
  <2>2. below[n \div 2] \in V
    BY <1>2, <1>16, <2>1
  <2> HIDE DEF Body, V
  <2> QED
    BY <1>3, <1>13, <2>1, <2>2
<1> HIDE DEF Computes
<1> QED
  BY <1>12, <1>14, <1>17, <1>18

\* Where the leaves of a node are: as many as the other nodes of its level have.
Spans(W, leaves, n, v) ==
    /\ v.begin \in Nat /\ v.end \in Nat /\ 1 <= v.begin /\ v.end <= leaves + 1
    /\ \E w \in W : v.end = v.begin + w /\ n * w = leaves + v.begin - 1

\* Products and halves, for the places of the nodes.
LEMMA Multiples ==
    ASSUME NEW u \in Nat, NEW h \in Nat
    PROVE  (2 * u) * h = u * (2 * h) /\ (2 * u + 1) * h = u * (2 * h) + h
  OBVIOUS

LEMMA TwiceAtMost ==
    ASSUME NEW n \in Nat, NEW d \in Nat
    PROVE  n * (2 + d) = n * 2 + n * d /\ n * d \in Nat
  OBVIOUS

LEMMA HalfOf ==
    ASSUME NEW a \in Nat, NEW h \in Nat
    PROVE  (a + (a + 2 * h)) \div 2 = a + h
  OBVIOUS

\* A node that is not a leaf, and its halves.
LEMMA SpanHalves ==
    ASSUME NEW W, Halving(W), NEW leaves \in Nat \ {0}, NEW u \in Nat, u < leaves, NEW v,
           Spans(W, leaves, u, v)
    PROVE  LET half == (v.begin + v.end) \div 2
           IN  /\ half \in Nat /\ v.begin < half /\ half < v.end
               /\ Spans(W, leaves, 2 * u, [begin |-> v.begin, end |-> half])
               /\ Spans(W, leaves, 2 * u + 1, [begin |-> half, end |-> v.end])
<1> DEFINE half == (v.begin + v.end) \div 2
           a == v.begin
           b == v.end
<1>1. /\ a \in Nat /\ b \in Nat /\ 1 <= a /\ b <= leaves + 1
  BY DEF Spans
<1>2. PICK w \in W : b = a + w /\ u * w = leaves + a - 1
  BY DEF Spans
<1>3. w \in Nat \ {0} /\ (w = 1 \/ \E h \in W : w = 2 * h)
  BY DEF Halving
<1> HIDE DEF a, b
<1>4. w # 1
  <2> SUFFICES ASSUME w = 1 PROVE FALSE
    OBVIOUS
  <2>1. u * w = u
    OBVIOUS
  <2> QED
    BY <1>1, <1>2, <2>1
<1>5. PICK h \in W : w = 2 * h
  BY <1>3, <1>4
<1>6. h \in Nat \ {0}
  BY DEF Halving
<1>7. half = a + h
  <2>1. (a + (a + 2 * h)) \div 2 = a + h
    BY <1>1, <1>6, HalfOf
  <2>2. a + b = a + (a + 2 * h)
    BY <1>2, <1>5
  <2> QED
    BY <2>1, <2>2 DEF a, b
<1>8. (2 * u) * h = leaves + a - 1 /\ (2 * u + 1) * h = leaves + a - 1 + h
  BY <1>2, <1>5, <1>6, Multiples
<1> HIDE DEF half
<1>9. half \in Nat /\ a < half /\ half < b /\ half <= leaves + 1 /\ 1 <= half
      /\ b = half + h /\ leaves + half - 1 = leaves + a - 1 + h
  BY <1>1, <1>2, <1>5, <1>6, <1>7
<1>10. Spans(W, leaves, 2 * u, [begin |-> a, end |-> half])
  BY <1>1, <1>7, <1>8, <1>9 DEF Spans
<1>11. Spans(W, leaves, 2 * u + 1, [begin |-> half, end |-> b])
  BY <1>1, <1>8, <1>9 DEF Spans
<1> QED
  BY <1>9, <1>10, <1>11 DEF half, a, b

\* In the tree, every node has the leaves that its place says.
LEMMA NodeSpans ==
    ASSUME NEW W, Halving(W), NEW leaves \in W
    PROVE  \A n \in 1 .. 2 * leaves - 1 : Spans(W, leaves, n, Below(leaves)[n])
<1> DEFINE b == Below(leaves)
           D == 1 .. 2 * leaves - 1
           U == {k \in Nat : \A n \in D : n <= k => Spans(W, leaves, n, b[n])}
<1>1. leaves \in Nat \ {0}
  BY DEF Halving
<1>2. /\ b[1] = [begin |-> 1, end |-> leaves + 1]
      /\ \A n \in 2 .. 2 * leaves - 1 :
            b[n] = IF n % 2 = 0
                   THEN [begin |-> b[n \div 2].begin, end |-> (b[n \div 2].begin + b[n \div 2].end) \div 2]
                   ELSE [begin |-> (b[n \div 2].begin + b[n \div 2].end) \div 2, end |-> b[n \div 2].end]
  BY <1>1, BelowRule
<1> HIDE DEF b
<1>3. 0 \in U
  OBVIOUS
<1>4. ASSUME NEW k \in Nat, k \in U PROVE k + 1 \in U
  <2>1. ASSUME NEW n \in D, n <= k + 1 PROVE Spans(W, leaves, n, b[n])
    <3>1. CASE n = 1
      <4>1. 1 * leaves = leaves + 1 - 1
        BY <1>1
      <4> QED
        BY <1>1, <1>2, <3>1, <4>1 DEF Spans
    <3>2. CASE n # 1
      <4> DEFINE u == n \div 2
                 v == b[u]
      <4>1. /\ u \in D /\ u <= k /\ u < leaves /\ u \in Nat /\ n \in 2 .. 2 * leaves - 1
            /\ (n % 2 = 0 => n = 2 * u) /\ (n % 2 # 0 => n = 2 * u + 1)
        BY <1>1, <2>1, <3>2
      <4>2. Spans(W, leaves, u, v)
        BY <1>4, <4>1
      <4>3. b[n] = IF n % 2 = 0 THEN [begin |-> v.begin, end |-> (v.begin + v.end) \div 2]
                   ELSE [begin |-> (v.begin + v.end) \div 2, end |-> v.end]
        BY <1>2, <4>1
      <4> HIDE DEF u, v
      <4>4. /\ Spans(W, leaves, 2 * u, [begin |-> v.begin, end |-> (v.begin + v.end) \div 2])
            /\ Spans(W, leaves, 2 * u + 1, [begin |-> (v.begin + v.end) \div 2, end |-> v.end])
        BY <1>1, <4>1, <4>2, SpanHalves
      <4>5. CASE n % 2 = 0
        BY <4>1, <4>3, <4>4, <4>5
      <4>6. CASE n % 2 # 0
        BY <4>1, <4>3, <4>4, <4>6
      <4> QED
        BY <4>5, <4>6
    <3> QED
      BY <3>1, <3>2
  <2> QED
    BY <2>1
<1>5. Nat \subseteq U
  <2> HIDE DEF U
  <2> QED
    BY <1>3, <1>4, NumbersInduct
<1> QED
  BY <1>1, <1>5 DEF b

\* The nodes from the first leaf on are the leaves; the others have two halves.
LEMMA Halves ==
    ASSUME NEW W, Halving(W), NEW leaves \in W, NEW n \in 1 .. 2 * leaves - 1
    PROVE  LET b == Below(leaves)
           IN  /\ leaves \in Nat \ {0}
               /\ b[n].begin \in Nat /\ b[n].end \in Nat
               /\ 1 <= b[n].begin /\ b[n].begin < b[n].end /\ b[n].end <= leaves + 1
               /\ b[1].begin = 1 /\ b[1].end = leaves + 1
               /\ n >= leaves => b[n].begin = n - leaves + 1 /\ b[n].end = n - leaves + 2
               /\ n < leaves =>
                     /\ 2 * n \in 1 .. 2 * leaves - 1 /\ 2 * n + 1 \in 1 .. 2 * leaves - 1
                     /\ b[2 * n].begin = b[n].begin /\ b[2 * n].end = b[2 * n + 1].begin
                     /\ b[2 * n + 1].end = b[n].end
<1> DEFINE b == Below(leaves)
           v == b[n]
<1>1. leaves \in Nat \ {0}
  BY DEF Halving
<1>2. Spans(W, leaves, n, v)
  BY NodeSpans
<1>3. b[1] = [begin |-> 1, end |-> leaves + 1]
  BY <1>1, BelowRule
<1>4. \A m \in 2 .. 2 * leaves - 1 :
            b[m] = IF m % 2 = 0
                   THEN [begin |-> b[m \div 2].begin, end |-> (b[m \div 2].begin + b[m \div 2].end) \div 2]
                   ELSE [begin |-> (b[m \div 2].begin + b[m \div 2].end) \div 2, end |-> b[m \div 2].end]
  BY <1>1, BelowRule
<1> HIDE DEF b
<1>5. CASE n >= leaves
  <2>1. PICK w \in W : v.end = v.begin + w /\ n * w = leaves + v.begin - 1
    BY <1>2 DEF Spans
  <2>2. w \in Nat \ {0} /\ n \in Nat /\ v.begin \in Nat /\ v.end \in Nat /\ v.end <= leaves + 1
        /\ 1 <= v.begin
    BY <1>2 DEF Halving, Spans
  <2> HIDE DEF v
  <2>3. w = 1
    <3> SUFFICES ASSUME w # 1 PROVE FALSE
      OBVIOUS
    <3> DEFINE d == w - 2
    <3>1. d \in Nat /\ w = 2 + d
      BY <2>2
    <3> HIDE DEF d
    <3>2. n * w = n * 2 + n * d /\ n * d \in Nat
      BY <2>2, <3>1, TwiceAtMost
    <3> QED
      BY <1>1, <1>5, <2>1, <2>2, <3>1, <3>2
  <2>4. n * w = n
    BY <2>2, <2>3
  <2>5. v.begin = n - leaves + 1 /\ v.end = v.begin + 1
    BY <1>1, <2>1, <2>2, <2>3, <2>4
  <2> QED
    BY <1>1, <1>3, <1>5, <2>2, <2>5 DEF v, b
<1>6. CASE n < leaves
  <2> DEFINE half == (v.begin + v.end) \div 2
  <2>1. half \in Nat /\ v.begin < half /\ half < v.end
    <3>1. n \in Nat
      BY <1>1
    <3> HIDE DEF v
    <3> QED
      BY <1>1, <1>2, <1>6, <3>1, SpanHalves
  <2>2. /\ 2 * n \in 2 .. 2 * leaves - 1 /\ 2 * n + 1 \in 2 .. 2 * leaves - 1
        /\ (2 * n) \div 2 = n /\ (2 * n) % 2 = 0
        /\ (2 * n + 1) \div 2 = n /\ (2 * n + 1) % 2 = 1
    BY <1>1, <1>6
  <2>3. b[2 * n] = [begin |-> v.begin, end |-> half] /\ b[2 * n + 1] = [begin |-> half, end |-> v.end]
    BY <1>4, <2>2
  <2>4. v.begin \in Nat /\ v.end \in Nat /\ 1 <= v.begin /\ v.end <= leaves + 1
    BY <1>2 DEF Spans
  <2> HIDE DEF half
  <2> QED
    BY <1>1, <1>3, <1>6, <2>1, <2>2, <2>3, <2>4 DEF v, b
<1> QED
  BY <1>1, <1>5, <1>6

\* What the index keeps of a trade.
IndexedTrade == [local : Nat, ordinal : Nat \ {0}, price : 1 .. MaxPrice - 1, qty : Nat \ {0}]

\* What is known of a trade of the index.
LEMMA TradeTypes ==
    ASSUME NEW trades \in Seq(IndexedTrade), NEW i \in 1 .. Len(trades)
    PROVE  /\ trades[i] \in IndexedTrade
           /\ trades[i].local \in Nat /\ trades[i].ordinal \in Nat \ {0}
           /\ trades[i].price \in 1 .. MaxPrice - 1 /\ trades[i].qty \in Nat \ {0}
<1>1. trades[i] \in IndexedTrade
  OBVIOUS
<1> QED
  BY <1>1 DEF IndexedTrade

\* The rule of the tree: a leaf has the price of its trade, a node the extreme of
\* its halves.
TreeBody(side, trades, leaves, f, n) ==
    IF n < leaves THEN Extreme(side, f[2 * n], f[2 * n + 1])
    ELSE IF n - leaves < Len(trades) THEN trades[n - leaves + 1].price
    ELSE IF side = "Sell" THEN MaxPrice ELSE 0

\* Every node has a price, computed from those of its halves.
LEMMA TreeRule ==
    ASSUME NEW side, NEW trades \in Seq(IndexedTrade), NEW leaves \in Nat \ {0},
           leaves = LeafCount(trades), MaxPrice \in Nat
    PROVE  LET node == Tree(side, trades)
           IN  /\ node \in [1 .. 2 * leaves - 1 -> Nat]
               /\ \A n \in 1 .. 2 * leaves - 1 : node[n] = TreeBody(side, trades, leaves, node, n)
<1> DEFINE D == 1 .. 2 * leaves - 1
           Body(f, n) == TreeBody(side, trades, leaves, f, n)
           Computes(f) == f = [n \in D |-> Body(f, n)]
           node == CHOOSE f : Computes(f)
           rank == [n \in D |-> 2 * leaves - n]
           rule == [n \in D |-> [f \in [D -> Nat] |-> Body(f, n)]]
<1>1. ASSUME NEW n \in D, n < leaves
      PROVE  2 * n \in D /\ 2 * n + 1 \in D /\ n \in 0 .. 2 * leaves /\ 2 * n > n /\ 2 * n + 1 > n
  BY <1>1
<1>2. ASSUME NEW n \in D, ~(n < leaves), n - leaves < Len(trades)
      PROVE  trades[n - leaves + 1].price \in Nat
  <2> DEFINE i == n - leaves + 1
  <2>1. i \in 1 .. Len(trades)
    BY <1>2
  <2> HIDE DEF i
  <2>2. trades[i].price \in 1 .. MaxPrice - 1
    BY <2>1, TradeTypes
  <2>3. trades[i].price \in Nat
    BY <2>2
  <2> QED
    BY <2>3 DEF i
<1>3. ASSUME NEW n \in D, NEW f,
             n < leaves => f[2 * n] \in Nat /\ f[2 * n + 1] \in Nat
      PROVE  Body(f, n) \in Nat
  BY <1>2, <1>3 DEF TreeBody, Extreme
<1>4. rank \in [D -> 0 .. 2 * leaves]
  OBVIOUS
<1>5. rule \in [D -> [[D -> Nat] -> Nat]]
  <2>1. \A n \in D : \A f \in [D -> Nat] : Body(f, n) \in Nat
    <3> TAKE n \in D
    <3> TAKE f \in [D -> Nat]
    <3>1. n < leaves => f[2 * n] \in Nat /\ f[2 * n + 1] \in Nat
      BY <1>1
    <3> HIDE DEF Body, D
    <3> QED
      BY <1>3, <3>1
  <2> HIDE DEF Body
  <2> QED
    BY <2>1
<1>6. ASSUME NEW n \in D, NEW f \in [D -> Nat], NEW g \in [D -> Nat],
             \A c \in D : rank[c] < rank[n] => f[c] = g[c]
      PROVE  rule[n][f] = rule[n][g]
  <2>1. Body(f, n) = Body(g, n)
    <3>1. CASE n < leaves
      <4>1. f[2 * n] = g[2 * n] /\ f[2 * n + 1] = g[2 * n + 1]
        BY <1>1, <1>6, <3>1
      <4> QED
        BY <3>1, <4>1 DEF TreeBody
    <3>2. CASE ~(n < leaves)
      BY <3>2 DEF TreeBody
    <3> QED
      BY <3>1, <3>2
  <2> HIDE DEF Body
  <2> QED
    BY <2>1
<1>7. Computed(D, Nat, rule)
  <2>1. 2 * leaves \in Nat /\ 0 \in Nat
    OBVIOUS
  <2> HIDE DEF D, rank, rule
  <2> QED
    BY <1>4, <1>5, <1>6, <2>1, RankedRecursion
<1>8. PICK f \in [D -> Nat] : \A n \in D : f[n] = rule[n][f]
  BY <1>7 DEF Computed
<1>9. Computes(f)
  <2>1. \A n \in D : f[n] = Body(f, n)
    <3> HIDE DEF Body
    <3> QED
      BY <1>8
  <2> HIDE DEF Body
  <2> QED
    BY <1>8, <2>1
<1>10. Computes(node)
  <2> HIDE DEF Computes
  <2> QED
    BY <1>9
<1>11. Tree(side, trades) = node
  BY DEF Tree, TreeBody
<1> HIDE DEF node
<1>12. \A n \in D : node[n] = Body(node, n)
  <2> HIDE DEF Body
  <2> QED
    BY <1>10
<1> DEFINE U == {k \in Nat : \A n \in D : n >= 2 * leaves - k => node[n] \in Nat}
<1>13. 0 \in U
  OBVIOUS
<1>14. ASSUME NEW k \in Nat, k \in U PROVE k + 1 \in U
  <2>1. ASSUME NEW n \in D, n >= 2 * leaves - (k + 1) PROVE node[n] \in Nat
    <3>1. n < leaves => node[2 * n] \in Nat /\ node[2 * n + 1] \in Nat
      <4> SUFFICES ASSUME n < leaves PROVE node[2 * n] \in Nat /\ node[2 * n + 1] \in Nat
        OBVIOUS
      <4>1. 2 * n \in D /\ 2 * n + 1 \in D /\ 2 * n >= 2 * leaves - k /\ 2 * n + 1 >= 2 * leaves - k
        BY <1>1, <2>1
      <4> QED
        BY <1>14, <4>1
    <3> HIDE DEF Body, D
    <3> QED
      BY <1>3, <1>12, <3>1
  <2> HIDE DEF D
  <2> QED
    BY <2>1
<1>15. Nat \subseteq U
  <2> HIDE DEF U
  <2> QED
    BY <1>13, <1>14, NumbersInduct
<1>16. \A n \in D : node[n] \in Nat
  <2> TAKE n \in D
  <2>1. 2 * leaves \in Nat /\ n >= 2 * leaves - 2 * leaves
    OBVIOUS
  <2>2. 2 * leaves \in U
    BY <1>15, <2>1
  <2> QED
    BY <2>1, <2>2
<1>17. node \in [D -> Nat]
  <2>1. node = [n \in D |-> node[n]]
    <3> HIDE DEF Body, D
    <3> QED
      BY <1>10
  <2> HIDE DEF D
  <2> QED
    BY <1>16, <2>1
<1> QED
  BY <1>11, <1>12, <1>17

\* Which of the trades i with i < end are beyond the quote.
BeyondIn(side, trades, quote, begin, end) ==
    {i \in 1 .. Len(trades) : begin <= i /\ i < end /\ Beyond(side, trades[i].price, quote)}

\* What is beyond the quote in an interval is in one of its two parts.
LEMMA BeyondSplit ==
    ASSUME NEW side, NEW trades, NEW quote, NEW x \in Nat, NEW y \in Nat, NEW z \in Nat,
           x < y, y < z, Len(trades) \in Nat
    PROVE  BeyondIn(side, trades, quote, x, z)
           = BeyondIn(side, trades, quote, x, y) \cup BeyondIn(side, trades, quote, y, z)
  BY DEF BeyondIn

\* A node is beyond a quote when the price of one of its leaves is.
LEMMA TreeBeyond ==
    ASSUME NEW side \in Side, NEW trades \in Seq(IndexedTrade), MaxPrice \in Nat,
           NEW quote \in 1 .. MaxPrice - 1
    PROVE  LET node == Tree(side, trades)
               b == Below(LeafCount(trades))
           IN  \A n \in 1 .. 2 * LeafCount(trades) - 1 :
                  Beyond(side, node[n], quote)
                  <=> BeyondIn(side, trades, quote, b[n].begin, b[n].end) # {}
<1> DEFINE leaves == LeafCount(trades)
           node == Tree(side, trades)
           b == Below(leaves)
           D == 1 .. 2 * leaves - 1
           In(n) == BeyondIn(side, trades, quote, b[n].begin, b[n].end)
           P(n) == Beyond(side, node[n], quote) <=> In(n) # {}
<1>1. PICK W : Halving(W) /\ leaves \in W
  BY LeavesEnough
<1>2. leaves \in Nat \ {0} /\ Len(trades) <= leaves
  BY <1>1, LeavesEnough DEF Halving
<1>3. /\ node \in [D -> Nat]
      /\ \A n \in D : node[n] = TreeBody(side, trades, leaves, node, n)
  BY <1>2, TreeRule
<1>4. ASSUME NEW n \in D
      PROVE  /\ b[n].begin \in Nat /\ b[n].end \in Nat
             /\ 1 <= b[n].begin /\ b[n].begin < b[n].end
             /\ n >= leaves => b[n].begin = n - leaves + 1 /\ b[n].end = n - leaves + 2
             /\ n < leaves =>
                   /\ 2 * n \in D /\ 2 * n + 1 \in D
                   /\ b[2 * n].begin = b[n].begin /\ b[2 * n].end = b[2 * n + 1].begin
                   /\ b[2 * n + 1].end = b[n].end
  BY <1>1, Halves
<1> HIDE DEF leaves, node, b
<1>5. ASSUME NEW n \in D, ~(n < leaves) PROVE P(n)
  <2>1. b[n].begin = n - leaves + 1 /\ b[n].end = n - leaves + 2
    BY <1>2, <1>4, <1>5
  <2>2. CASE n - leaves < Len(trades)
    <3> DEFINE i == n - leaves + 1
    <3>1. node[n] = trades[i].price
      BY <1>3, <1>5, <2>2 DEF TreeBody
    <3>2. i \in 1 .. Len(trades) /\ b[n].begin = i /\ b[n].end = i + 1
      BY <1>2, <1>5, <2>1, <2>2
    <3> HIDE DEF i
    <3>3. In(n) = {j \in 1 .. Len(trades) : j = i /\ Beyond(side, trades[j].price, quote)}
      BY <3>2 DEF BeyondIn
    <3> HIDE DEF In
    <3> QED
      BY <3>1, <3>2, <3>3
  <2>3. CASE ~(n - leaves < Len(trades))
    <3>1. node[n] = IF side = "Sell" THEN MaxPrice ELSE 0
      BY <1>3, <1>5, <2>3 DEF TreeBody
    <3>2. ~Beyond(side, node[n], quote)
      BY <3>1 DEF Beyond
    <3>3. In(n) = {}
      BY <1>2, <2>1, <2>3 DEF BeyondIn
    <3> QED
      BY <3>2, <3>3
  <2> QED
    BY <2>2, <2>3
<1>6. ASSUME NEW n \in D, n < leaves, P(2 * n), P(2 * n + 1) PROVE P(n)
  <2>1. /\ 2 * n \in D /\ 2 * n + 1 \in D
        /\ b[2 * n].begin = b[n].begin /\ b[2 * n].end = b[2 * n + 1].begin
        /\ b[2 * n + 1].end = b[n].end
    BY <1>4, <1>6
  <2>2. /\ b[n].begin \in Nat /\ b[n].end \in Nat /\ b[2 * n].end \in Nat
        /\ b[2 * n].begin < b[2 * n].end /\ b[2 * n + 1].begin < b[2 * n + 1].end
    BY <1>4, <2>1
  <2>3. In(n) = In(2 * n) \cup In(2 * n + 1)
    <3> DEFINE x == b[n].begin
               y == b[2 * n].end
               z == b[n].end
    <3>1. x \in Nat /\ y \in Nat /\ z \in Nat /\ x < y /\ y < z /\ Len(trades) \in Nat
      BY <2>1, <2>2
    <3> HIDE DEF x, y, z
    <3>2. BeyondIn(side, trades, quote, x, z)
          = BeyondIn(side, trades, quote, x, y) \cup BeyondIn(side, trades, quote, y, z)
      BY <3>1, BeyondSplit
    <3> QED
      BY <2>1, <3>2 DEF x, y, z
  <2>4. node[n] = Extreme(side, node[2 * n], node[2 * n + 1])
    BY <1>3, <1>6 DEF TreeBody
  <2>5. node[2 * n] \in Nat /\ node[2 * n + 1] \in Nat
    BY <1>3, <2>1
  <2>6. Beyond(side, node[n], quote)
        <=> Beyond(side, node[2 * n], quote) \/ Beyond(side, node[2 * n + 1], quote)
    BY <2>4, <2>5 DEF Beyond, Extreme, Side
  <2> HIDE DEF In
  <2> QED
    BY <1>6, <2>3, <2>6
<1> DEFINE U == {k \in Nat : \A n \in D : n >= 2 * leaves - k => P(n)}
<1> HIDE DEF P
<1>7. 0 \in U
  BY <1>2
<1>8. ASSUME NEW k \in Nat, k \in U PROVE k + 1 \in U
  <2>1. ASSUME NEW n \in D, n >= 2 * leaves - (k + 1) PROVE P(n)
    <3>1. CASE n < leaves
      <4>1. 2 * n \in D /\ 2 * n + 1 \in D /\ 2 * n >= 2 * leaves - k /\ 2 * n + 1 >= 2 * leaves - k
        BY <1>2, <2>1, <3>1
      <4>2. P(2 * n) /\ P(2 * n + 1)
        BY <1>8, <4>1
      <4> QED
        BY <1>6, <3>1, <4>2
    <3> QED
      BY <1>5, <3>1
  <2> HIDE DEF D
  <2> QED
    BY <2>1
<1>9. Nat \subseteq U
  <2> HIDE DEF U
  <2> QED
    BY <1>7, <1>8, NumbersInduct
<1>10. \A n \in D : P(n)
  <2> TAKE n \in D
  <2>1. 2 * leaves \in Nat /\ n >= 2 * leaves - 2 * leaves
    BY <1>2
  <2>2. 2 * leaves \in U
    BY <1>9, <2>1
  <2> QED
    BY <2>1, <2>2
<1> QED
  BY <1>10 DEF P, leaves, node, b

\* r is the least of X, or none if X is empty.
FirstOf(r, X, none) == (X = {} /\ r = none) \/ (r \in X /\ \A j \in X : r <= j)

\* The rule of the search: what find_from answers at a node.
FindBody(side, tree, quote, begin, end, none, leaves, below, f, n) ==
    IF below[n].end <= begin \/ end <= below[n].begin \/ ~Beyond(side, tree[n], quote)
    THEN none
    ELSE IF n >= leaves THEN IF below[n].begin < none THEN below[n].begin ELSE none
    ELSE IF f[2 * n] # none THEN f[2 * n] ELSE f[2 * n + 1]

\* The searches of all the nodes, each from those of its halves.
Searches(f, side, trades, tree, quote, begin, end, leaves) ==
    \A n \in 1 .. 2 * leaves - 1 :
       f[n] = FindBody(side, tree, quote, begin, end, Len(trades) + 1, leaves, Below(leaves), f, n)

\* find_from answers at the root what the searches of the nodes find there.
LEMMA FindRule ==
    ASSUME NEW side, NEW trades \in Seq(IndexedTrade), NEW tree, NEW begin, NEW end, NEW quote,
           NEW leaves \in Nat \ {0}, leaves = LeafCount(trades),
           begin < end, end <= Len(trades) + 1, begin \in Nat, end \in Nat
    PROVE  \E f : /\ Searches(f, side, trades, tree, quote, begin, end, leaves)
                  /\ FirstThrough(side, trades, tree, begin, end, quote) = f[1]
<1> DEFINE none == Len(trades) + 1
           below == Below(leaves)
           D == 1 .. 2 * leaves - 1
           Body(f, n) == FindBody(side, tree, quote, begin, end, none, leaves, below, f, n)
           Computes(f) == f = [n \in D |-> Body(f, n)]
           find == CHOOSE f : Computes(f)
           rank == [n \in D |-> 2 * leaves - n]
           rule == [n \in D |-> [f \in [D -> Nat] |-> Body(f, n)]]
<1>1. ASSUME NEW n \in D, n < leaves
      PROVE  2 * n \in D /\ 2 * n + 1 \in D /\ n \in 0 .. 2 * leaves /\ 2 * n > n /\ 2 * n + 1 > n
  BY <1>1
<1>2. none \in Nat
  OBVIOUS
<1>3. \A n \in D : below[n].begin \in Nat
  <2>1. below \in [D -> LeafRange]
    BY BelowRule
  <2> HIDE DEF below
  <2> QED
    BY <2>1 DEF LeafRange
<1> HIDE DEF none, below
<1>4. rank \in [D -> 0 .. 2 * leaves]
  OBVIOUS
<1>5. rule \in [D -> [[D -> Nat] -> Nat]]
  <2>1. \A n \in D : \A f \in [D -> Nat] : Body(f, n) \in Nat
    <3> TAKE n \in D
    <3> TAKE f \in [D -> Nat]
    <3>1. n < leaves => f[2 * n] \in Nat /\ f[2 * n + 1] \in Nat
      BY <1>1
    <3>2. n \in Nat
      OBVIOUS
    <3> HIDE DEF D
    <3> QED
      BY <1>2, <1>3, <3>1, <3>2 DEF FindBody
  <2> HIDE DEF Body
  <2> QED
    BY <2>1
<1>6. ASSUME NEW n \in D, NEW f \in [D -> Nat], NEW g \in [D -> Nat],
             \A c \in D : rank[c] < rank[n] => f[c] = g[c]
      PROVE  rule[n][f] = rule[n][g]
  <2>1. Body(f, n) = Body(g, n)
    <3>1. CASE n < leaves
      <4>1. f[2 * n] = g[2 * n] /\ f[2 * n + 1] = g[2 * n + 1]
        BY <1>1, <1>6, <3>1
      <4> QED
        BY <3>1, <4>1 DEF FindBody
    <3>2. CASE ~(n < leaves)
      BY <3>2 DEF FindBody
    <3> QED
      BY <3>1, <3>2
  <2> HIDE DEF Body
  <2> QED
    BY <2>1
<1>7. Computed(D, Nat, rule)
  <2> DEFINE size == 2 * leaves
  <2>1. size \in Nat /\ 0 \in Nat
    OBVIOUS
  <2> HIDE DEF D, rank, rule
  <2>2. \A n \in D : \A f, g \in [D -> Nat] :
           (\A c \in D : rank[c] < rank[n] => f[c] = g[c]) => rule[n][f] = rule[n][g]
    BY <1>6
  <2> HIDE DEF size
  <2>3. rank \in [D -> 0 .. size]
    BY <1>4 DEF size
  <2> QED
    BY ONLY <1>5, <2>1, <2>2, <2>3, RankedRecursion
<1>8. PICK f \in [D -> Nat] : \A n \in D : f[n] = rule[n][f]
  BY <1>7 DEF Computed
<1>9. Computes(f)
  <2>1. \A n \in D : f[n] = Body(f, n)
    <3> HIDE DEF Body
    <3> QED
      BY <1>8
  <2> HIDE DEF Body
  <2> QED
    BY <1>8, <2>1
<1>10. Computes(find)
  <2> HIDE DEF Computes
  <2> QED
    BY <1>9
<1>11. FirstThrough(side, trades, tree, begin, end, quote) = find[1]
  <2>1. ~(begin >= end \/ end > Len(trades) + 1)
    OBVIOUS
  <2> QED
    BY <2>1 DEF FirstThrough, FindBody, none, below
<1> HIDE DEF find
<1>12. \A n \in D : find[n] = Body(find, n)
  <2> HIDE DEF Body
  <2> QED
    BY <1>10
<1> QED
  BY <1>11, <1>12 DEF none, below, Searches

\* The search finds the first trade of the interval that is beyond the quote.
LEMMA FirstThroughFinds ==
    ASSUME NEW side \in Side, NEW trades \in Seq(IndexedTrade), MaxPrice \in Nat,
           NEW quote \in 1 .. MaxPrice - 1, NEW begin \in 1 .. Len(trades) + 1,
           NEW end \in 1 .. Len(trades) + 1
    PROVE  FirstOf(FirstThrough(side, trades, Tree(side, trades), begin, end, quote),
                   BeyondIn(side, trades, quote, begin, end), Len(trades) + 1)
<1> DEFINE leaves == LeafCount(trades)
           tree == Tree(side, trades)
           b == Below(leaves)
           none == Len(trades) + 1
           D == 1 .. 2 * leaves - 1
           Both(n) == {i \in BeyondIn(side, trades, quote, b[n].begin, b[n].end) : begin <= i /\ i < end}
           P(f, n) == FirstOf(f[n], Both(n), none)
<1>1. PICK W : Halving(W) /\ leaves \in W
  BY LeavesEnough
<1>2. leaves \in Nat \ {0} /\ Len(trades) <= leaves /\ none \in Nat
  BY <1>1, LeavesEnough DEF Halving
<1>3. \A n \in D : Beyond(side, tree[n], quote)
                   <=> BeyondIn(side, trades, quote, b[n].begin, b[n].end) # {}
  BY TreeBeyond
<1>4. ASSUME NEW n \in D
      PROVE  /\ b[n].begin \in Nat /\ b[n].end \in Nat
             /\ 1 <= b[n].begin /\ b[n].begin < b[n].end
             /\ n >= leaves => b[n].begin = n - leaves + 1 /\ b[n].end = n - leaves + 2
             /\ n < leaves =>
                   /\ 2 * n \in D /\ 2 * n + 1 \in D
                   /\ b[2 * n].begin = b[n].begin /\ b[2 * n].end = b[2 * n + 1].begin
                   /\ b[2 * n + 1].end = b[n].end
  BY <1>1, Halves
<1>5. 1 \in D /\ b[1].begin = 1 /\ b[1].end = leaves + 1
  <2>1. 1 \in D
    BY <1>2
  <2> QED
    BY <1>1, <2>1, Halves
<1>6. CASE begin >= end
  <2>1. FirstThrough(side, trades, tree, begin, end, quote) = none
    BY <1>6 DEF FirstThrough
  <2>2. BeyondIn(side, trades, quote, begin, end) = {}
    BY <1>6 DEF BeyondIn
  <2> QED
    BY <2>1, <2>2 DEF FirstOf
<1>7. CASE begin < end
  <2>1. PICK f : /\ \A n \in D : f[n] = FindBody(side, tree, quote, begin, end, none, leaves, b, f, n)
                 /\ FirstThrough(side, trades, tree, begin, end, quote) = f[1]
    <3>1. leaves = LeafCount(trades) /\ begin \in Nat /\ end \in Nat /\ end <= Len(trades) + 1
      OBVIOUS
    <3> HIDE DEF leaves, tree
    <3>2. \E f : /\ Searches(f, side, trades, tree, quote, begin, end, leaves)
                 /\ FirstThrough(side, trades, tree, begin, end, quote) = f[1]
      BY <1>2, <1>7, <3>1, FindRule
    <3> QED
      BY <3>2 DEF Searches
  <2> HIDE DEF leaves, tree, b
  <2>2. ASSUME NEW n \in D,
               b[n].end <= begin \/ end <= b[n].begin \/ ~Beyond(side, tree[n], quote)
        PROVE  P(f, n)
    <3>1. f[n] = none
      BY <2>1, <2>2 DEF FindBody
    <3>2. Both(n) = {}
      <4>1. CASE b[n].end <= begin \/ end <= b[n].begin
        BY <1>4, <4>1 DEF BeyondIn
      <4>2. CASE ~Beyond(side, tree[n], quote)
        BY <1>3, <4>2
      <4> QED
        BY <2>2, <4>1, <4>2
    <3> QED
      BY <3>1, <3>2 DEF FirstOf
  <2>3. ASSUME NEW n \in D, ~(n < leaves) PROVE P(f, n)
    <3>1. b[n].begin = n - leaves + 1 /\ b[n].end = b[n].begin + 1 /\ b[n].begin \in Nat
      BY <1>2, <1>4, <2>3
    <3>2. CASE b[n].end <= begin \/ end <= b[n].begin \/ ~Beyond(side, tree[n], quote)
      BY <2>2, <3>2
    <3>3. CASE ~(b[n].end <= begin \/ end <= b[n].begin \/ ~Beyond(side, tree[n], quote))
      <4> DEFINE i == b[n].begin
      <4>1. i \in Nat /\ b[n].end = i + 1 /\ begin <= i /\ i < end
        BY <3>1, <3>3
      <4>2. BeyondIn(side, trades, quote, b[n].begin, b[n].end) # {}
        BY <1>3, <3>3
      <4>3. i \in 1 .. Len(trades) /\ Both(n) = {i}
        <5>1. PICK m \in 1 .. Len(trades) : m \in BeyondIn(side, trades, quote, b[n].begin, b[n].end)
          BY <4>2 DEF BeyondIn
        <5>2. \A k \in BeyondIn(side, trades, quote, b[n].begin, b[n].end) : k = i
          BY <4>1 DEF BeyondIn
        <5> QED
          BY <4>1, <5>1, <5>2
      <4>4. f[n] = i
        BY <1>2, <2>1, <2>3, <3>3, <4>3 DEF FindBody
      <4> HIDE DEF Both, i
      <4> QED
        BY <4>3, <4>4 DEF FirstOf
    <3> QED
      BY <3>2, <3>3
  <2>4. ASSUME NEW n \in D, n < leaves, P(f, 2 * n), P(f, 2 * n + 1) PROVE P(f, n)
    <3>1. CASE b[n].end <= begin \/ end <= b[n].begin \/ ~Beyond(side, tree[n], quote)
      BY <2>2, <3>1
    <3>2. CASE ~(b[n].end <= begin \/ end <= b[n].begin \/ ~Beyond(side, tree[n], quote))
      <4>1. f[n] = IF f[2 * n] # none THEN f[2 * n] ELSE f[2 * n + 1]
        BY <1>2, <2>1, <2>4, <3>2 DEF FindBody
      <4>2. /\ 2 * n \in D /\ 2 * n + 1 \in D
            /\ b[2 * n].begin = b[n].begin /\ b[2 * n].end = b[2 * n + 1].begin
            /\ b[2 * n + 1].end = b[n].end
        BY <1>4, <2>4
      <4>3. /\ b[n].begin \in Nat /\ b[n].end \in Nat /\ b[2 * n].end \in Nat
            /\ b[2 * n].begin < b[2 * n].end /\ b[2 * n + 1].begin < b[2 * n + 1].end
        BY <1>4, <4>2
      <4>4. Both(n) = Both(2 * n) \cup Both(2 * n + 1)
        <5>1. BeyondIn(side, trades, quote, b[n].begin, b[n].end)
              = BeyondIn(side, trades, quote, b[2 * n].begin, b[2 * n].end)
                \cup BeyondIn(side, trades, quote, b[2 * n + 1].begin, b[2 * n + 1].end)
          <6> DEFINE x == b[n].begin
                     y == b[2 * n].end
                     z == b[n].end
          <6>1. x \in Nat /\ y \in Nat /\ z \in Nat /\ x < y /\ y < z /\ Len(trades) \in Nat
            BY <4>2, <4>3
          <6> HIDE DEF x, y, z
          <6>2. BeyondIn(side, trades, quote, x, z)
                = BeyondIn(side, trades, quote, x, y) \cup BeyondIn(side, trades, quote, y, z)
            BY <6>1, BeyondSplit
          <6> QED
            BY <4>2, <6>2 DEF x, y, z
        <5> QED
          BY <5>1
      <4>5. \A i \in Both(2 * n), j \in Both(2 * n + 1) : i < j
        BY <4>2, <4>3 DEF BeyondIn
      <4>6. \A m \in D : Both(m) \subseteq 1 .. Len(trades)
        BY DEF BeyondIn
      <4>7. none \notin Both(2 * n) /\ Both(2 * n) \subseteq Nat /\ Both(2 * n + 1) \subseteq Nat
        BY <4>2, <4>6
      <4> HIDE DEF Both, none
      <4>8. CASE Both(2 * n) = {}
        BY <2>4, <4>1, <4>4, <4>8 DEF FirstOf
      <4>9. CASE Both(2 * n) # {}
        <5>1. f[2 * n] \in Both(2 * n) /\ \A j \in Both(2 * n) : f[2 * n] <= j
          BY <2>4, <4>9 DEF FirstOf
        <5>2. f[n] = f[2 * n]
          BY <4>1, <4>7, <5>1
        <5> QED
          BY <4>4, <4>5, <4>7, <5>1, <5>2 DEF FirstOf
      <4> QED
        BY <4>8, <4>9
    <3> QED
      BY <3>1, <3>2
  <2> DEFINE U == {k \in Nat : \A n \in D : n >= 2 * leaves - k => P(f, n)}
  <2> HIDE DEF P
  <2>5. 0 \in U
    BY <1>2
  <2>6. ASSUME NEW k \in Nat, k \in U PROVE k + 1 \in U
    <3>1. ASSUME NEW n \in D, n >= 2 * leaves - (k + 1) PROVE P(f, n)
      <4>1. CASE n < leaves
        <5>1. 2 * n \in D /\ 2 * n + 1 \in D /\ 2 * n >= 2 * leaves - k /\ 2 * n + 1 >= 2 * leaves - k
          BY <1>2, <3>1, <4>1
        <5>2. P(f, 2 * n) /\ P(f, 2 * n + 1)
          BY <2>6, <5>1
        <5> QED
          BY <2>4, <4>1, <5>2
      <4> QED
        BY <2>3, <4>1
    <3> HIDE DEF D
    <3> QED
      BY <3>1
  <2>7. Nat \subseteq U
    <3> HIDE DEF U
    <3> QED
      BY <2>5, <2>6, NumbersInduct
  <2>8. P(f, 1)
    <3>1. 2 * leaves \in Nat /\ 1 >= 2 * leaves - 2 * leaves
      BY <1>2
    <3>2. 2 * leaves \in U
      BY <2>7, <3>1
    <3> QED
      BY <1>5, <3>1, <3>2
  <2>9. Both(1) = BeyondIn(side, trades, quote, begin, end)
    BY <1>2, <1>5 DEF BeyondIn
  <2> HIDE DEF Both
  <2> QED
    BY <2>1, <2>8, <2>9 DEF P, tree
<1> QED
  BY <1>6, <1>7

-------------------------------------------------------------------------------
(* PassiveTradeIndex. The arrays of trades: their order, searches and sums. *)

\* Trades in the order they were received, numbered in the order of the file.
InOrder(trades) ==
    /\ trades \in Seq(IndexedTrade)
    /\ \A i, j \in 1 .. Len(trades) : i < j => /\ trades[i].local <= trades[j].local
                                               /\ trades[i].ordinal < trades[j].ordinal

\* What SelectInSeq selects.
LEMMA SelectFinds ==
    ASSUME NEW N \in Nat, NEW X \in SUBSET (1 .. N), NEW u,
           u = LET i == IF X # {} THEN Min(X) ELSE 0 IN IF i = 0 THEN N + 1 ELSE i
    PROVE  FirstOf(u, X, N + 1)
<1>1. CASE X = {}
  BY <1>1 DEF FirstOf
<1>2. CASE X # {}
  <2>1. PICK n \in X : \A m \in X : n <= m
    <3>1. X \in SUBSET Nat
      OBVIOUS
    <3> QED
      BY <1>2, <3>1, LeastNumber
  <2>2. Min(X) \in X /\ \A m \in X : Min(X) <= m
    BY <2>1 DEF Min
  <2>3. u = Min(X)
    BY <1>2, <2>2
  <2> QED
    BY <2>2, <2>3 DEF FirstOf
<1> QED
  BY <1>1, <1>2

\* The first index after a time.
LEMMA UpperFinds ==
    ASSUME NEW trades, InOrder(trades), NEW time \in Nat
    PROVE  /\ UpperLocal(trades, time) \in 1 .. Len(trades) + 1
           /\ \A i \in 1 .. Len(trades) : i < UpperLocal(trades, time) <=> trades[i].local <= time
<1> DEFINE N == Len(trades)
           X == {i \in 1 .. N : trades[i].local > time}
           u == UpperLocal(trades, time)
<1>1. N \in Nat /\ \A i \in 1 .. N : trades[i].local \in Nat
  BY TradeTypes DEF InOrder
<1>2. \A i, j \in 1 .. N : i < j => trades[i].local <= trades[j].local
  BY DEF InOrder
<1>3. FirstOf(u, X, N + 1)
  <2>1. u = LET i == IF X # {} THEN Min(X) ELSE 0 IN IF i = 0 THEN N + 1 ELSE i
    BY DEF UpperLocal, FirstIndex, SelectInSeq
  <2>2. X \in SUBSET (1 .. N)
    OBVIOUS
  <2> HIDE DEF X, u, N
  <2> QED
    BY <1>1, <2>1, <2>2, SelectFinds
<1> HIDE DEF N, u
<1>4. CASE X = {} /\ u = N + 1
  BY <1>1, <1>4 DEF N, u
<1>5. CASE u \in X /\ \A m \in X : u <= m
  <2>1. ASSUME NEW i \in 1 .. N PROVE i < u <=> trades[i].local <= time
    <3>1. i < u => i \notin X
      BY <1>1, <1>5
    <3>2. u <= i => trades[u].local <= trades[i].local
      BY <1>1, <1>2, <1>5
    <3> QED
      BY <1>1, <1>5, <3>1, <3>2
  <2> QED
    BY <1>1, <1>5, <2>1 DEF N, u
<1> QED
  BY <1>3, <1>4, <1>5 DEF FirstOf

\* The first index not before a time.
LEMMA LowerFinds ==
    ASSUME NEW trades, InOrder(trades), NEW time \in Nat
    PROVE  /\ LowerLocal(trades, time) \in 1 .. Len(trades) + 1
           /\ \A i \in 1 .. Len(trades) : i < LowerLocal(trades, time) <=> trades[i].local < time
<1> DEFINE N == Len(trades)
           X == {i \in 1 .. N : trades[i].local >= time}
           u == LowerLocal(trades, time)
<1>1. N \in Nat /\ \A i \in 1 .. N : trades[i].local \in Nat
  BY TradeTypes DEF InOrder
<1>2. \A i, j \in 1 .. N : i < j => trades[i].local <= trades[j].local
  BY DEF InOrder
<1>3. FirstOf(u, X, N + 1)
  <2>1. u = LET i == IF X # {} THEN Min(X) ELSE 0 IN IF i = 0 THEN N + 1 ELSE i
    BY DEF LowerLocal, FirstIndex, SelectInSeq
  <2>2. X \in SUBSET (1 .. N)
    OBVIOUS
  <2> HIDE DEF X, u, N
  <2> QED
    BY <1>1, <2>1, <2>2, SelectFinds
<1> HIDE DEF N, u
<1>4. CASE X = {} /\ u = N + 1
  BY <1>1, <1>4 DEF N, u
<1>5. CASE u \in X /\ \A m \in X : u <= m
  <2>1. ASSUME NEW i \in 1 .. N PROVE i < u <=> trades[i].local < time
    <3>1. i < u => i \notin X
      BY <1>1, <1>5
    <3>2. u <= i => trades[u].local <= trades[i].local
      BY <1>1, <1>2, <1>5
    <3> QED
      BY <1>1, <1>5, <3>1, <3>2
  <2> QED
    BY <1>1, <1>5, <2>1 DEF N, u
<1> QED
  BY <1>3, <1>4, <1>5 DEF FirstOf

\* Of two trades, the one that is earlier is the one that comes first.
LEMMA EarlierIsBefore ==
    ASSUME NEW trades, InOrder(trades), NEW i \in 1 .. Len(trades), NEW j \in 1 .. Len(trades)
    PROVE  Earlier(trades[i], trades[j]) <=> i < j
<1>1. /\ trades[i].local \in Nat /\ trades[j].local \in Nat
      /\ trades[i].ordinal \in Nat /\ trades[j].ordinal \in Nat
  BY TradeTypes DEF InOrder
<1>2. i < j => trades[i].local <= trades[j].local /\ trades[i].ordinal < trades[j].ordinal
  BY DEF InOrder
<1>3. j < i => trades[j].local <= trades[i].local /\ trades[j].ordinal < trades[i].ordinal
  BY DEF InOrder
<1>4. i = j => ~Earlier(trades[i], trades[j])
  BY <1>1 DEF Earlier
<1>5. i \in Int /\ j \in Int
  OBVIOUS
<1> QED
  BY <1>1, <1>2, <1>3, <1>4, <1>5 DEF Earlier

\* s is the trades at the price, c[i] of them among the first i.
Counted(trades, price, s, c) ==
    /\ s \in Seq(IndexedTrade)
    /\ c \in [0 .. Len(trades) -> Nat]
    /\ c[0] = 0
    /\ \A i \in 1 .. Len(trades) :
          c[i] = IF trades[i].price = price THEN c[i - 1] + 1 ELSE c[i - 1]
    /\ Len(s) = c[Len(trades)]
    /\ \A i \in 1 .. Len(trades) : trades[i].price = price => s[c[i]] = trades[i]

\* The trades at the price are those that a walk over all of them collects.
LEMMA ExactCounts ==
    ASSUME NEW trades \in Seq(IndexedTrade), NEW price
    PROVE  \E c : Counted(trades, price, Exact(trades, price), c)
<1> DEFINE N == Len(trades)
           R == Seq(IndexedTrade)
           Taken(i, r) == IF trades[i].price = price THEN Append(r, trades[i]) ELSE r
           Body(f, i) == IF i = 0 THEN <<>> ELSE Taken(i, f[i - 1])
           Computes(f) == f = [i \in 0 .. N |-> Body(f, i)]
           series == CHOOSE f : Computes(f)
           rule == [i \in 1 .. N |-> [r \in R |-> Taken(i, r)]]
<1>1. N \in Nat /\ <<>> \in R /\ \A i \in 1 .. N : trades[i] \in IndexedTrade
  OBVIOUS
<1>2. \A i \in 1 .. N : \A r \in R : Taken(i, r) \in R
  BY <1>1
<1> HIDE DEF N
<1>3. Recurses(R, <<>>, N, rule)
  <2>1. \A i \in 1 .. N : \A r \in R : rule[i][r] \in R
    <3> HIDE DEF Taken, R
    <3> QED
      BY <1>2
  <2> HIDE DEF R, rule
  <2> QED
    BY <1>1, <2>1, Recursion
<1>4. PICK f \in [0 .. N -> R] : f[0] = <<>> /\ \A i \in 1 .. N : f[i] = rule[i][f[i - 1]]
  BY <1>3 DEF Recurses
<1>5. \A i \in 1 .. N : f[i] = Taken(i, f[i - 1])
  <2> TAKE i \in 1 .. N
  <2>1. i - 1 \in 0 .. N
    BY <1>1
  <2>2. f[i - 1] \in R
    BY <1>4, <2>1
  <2> HIDE DEF R, Taken
  <2> QED
    BY <1>4, <2>2
<1>6. Computes(f)
  <2>1. \A i \in 0 .. N : f[i] = Body(f, i)
    <3> TAKE i \in 0 .. N
    <3>1. i # 0 => i \in 1 .. N
      BY <1>1
    <3> HIDE DEF Taken, R
    <3> QED
      BY <1>4, <1>5, <3>1
  <2> HIDE DEF R, Body
  <2> QED
    BY <1>4, <2>1
<1>7. Computes(series)
  <2> HIDE DEF Computes
  <2> QED
    BY <1>6
<1>8. Exact(trades, price) = series[N]
  BY DEF Exact, N
<1> HIDE DEF series
<1>9. series[0] = <<>> /\ \A i \in 1 .. N : series[i] = Taken(i, series[i - 1])
  <2>1. \A i \in 0 .. N : series[i] = Body(series, i)
    <3> HIDE DEF Body
    <3> QED
      BY <1>7
  <2>2. 0 \in 0 .. N /\ \A i \in 1 .. N : i \in 0 .. N /\ i # 0
    BY <1>1
  <2> HIDE DEF Taken
  <2> QED
    BY <2>1, <2>2
<1> HIDE DEF Computes, Taken
<1> DEFINE c == [i \in 0 .. N |-> Len(series[i])]
           U == {i \in Nat : i <= N => series[i] \in R}
<1>10. Nat \subseteq U
  <2>1. 0 \in U
    <3> HIDE DEF R
    <3> QED
      BY <1>1, <1>9
  <2>2. ASSUME NEW i \in Nat, i \in U PROVE i + 1 \in U
    <3>1. CASE i + 1 <= N
      <4>1. i + 1 \in 1 .. N /\ (i + 1) - 1 = i /\ series[i] \in R
        BY <1>1, <2>2, <3>1
      <4>2. series[i + 1] = Taken(i + 1, series[i])
        BY <1>9, <4>1
      <4> HIDE DEF R
      <4> QED
        BY <1>2, <4>1, <4>2
    <3> QED
      BY <3>1
  <2> HIDE DEF U
  <2> QED
    BY <2>1, <2>2, NumbersInduct
<1>11. \A i \in 0 .. N : series[i] \in R
  BY <1>10
<1>12. c \in [0 .. N -> Nat] /\ c[0] = 0
  BY <1>1, <1>9, <1>11
<1>13. ASSUME NEW i \in 1 .. N
       PROVE  /\ c[i] = IF trades[i].price = price THEN c[i - 1] + 1 ELSE c[i - 1]
              /\ trades[i].price = price => series[i][c[i]] = trades[i]
              /\ \A k \in 1 .. c[i - 1] : series[i][k] = series[i - 1][k]
              /\ c[i - 1] <= c[i] /\ c[i] \in Nat /\ c[i - 1] \in Nat
  <2>1. i - 1 \in 0 .. N /\ i \in 0 .. N
    BY <1>1
  <2>2. series[i - 1] \in R /\ trades[i] \in IndexedTrade
    BY <1>1, <1>11, <2>1
  <2>3. series[i] = IF trades[i].price = price THEN Append(series[i - 1], trades[i]) ELSE series[i - 1]
    BY <1>9 DEF Taken
  <2>4. c[i] = Len(series[i]) /\ c[i - 1] = Len(series[i - 1])
    BY <2>1
  <2> HIDE DEF c
  <2> QED
    BY <2>2, <2>3, <2>4
<1> DEFINE V == {m \in Nat : m <= N =>
                    \A i \in 1 .. m : trades[i].price = price => c[i] \in 1 .. c[m] /\ series[m][c[i]] = trades[i]}
<1>14. Nat \subseteq V
  <2>1. 0 \in V
    OBVIOUS
  <2>2. ASSUME NEW m \in Nat, m \in V PROVE m + 1 \in V
    <3>1. ASSUME m + 1 <= N, NEW i \in 1 .. m + 1, trades[i].price = price
          PROVE  c[i] \in 1 .. c[m + 1] /\ series[m + 1][c[i]] = trades[i]
      <4>1. m + 1 \in 1 .. N /\ (m + 1) - 1 = m
        BY <1>1, <3>1
      <4>2. /\ c[m + 1] = IF trades[m + 1].price = price THEN c[m] + 1 ELSE c[m]
            /\ trades[m + 1].price = price => series[m + 1][c[m + 1]] = trades[m + 1]
            /\ \A k \in 1 .. c[m] : series[m + 1][k] = series[m][k]
            /\ c[m] <= c[m + 1] /\ c[m] \in Nat /\ c[m + 1] \in Nat
        <5> HIDE DEF c
        <5> QED
          BY <1>13, <4>1
      <4>3. CASE i = m + 1
        <5> HIDE DEF c
        <5> QED
          BY <3>1, <4>2, <4>3
      <4>4. CASE i # m + 1
        <5>1. i \in 1 .. m /\ m <= N
          BY <1>1, <3>1, <4>4
        <5>2. c[i] \in 1 .. c[m] /\ series[m][c[i]] = trades[i]
          <6> HIDE DEF c
          <6> QED
            BY <2>2, <3>1, <5>1
        <5> HIDE DEF c
        <5> QED
          BY <4>2, <5>2
      <4> QED
        BY <4>3, <4>4
    <3> HIDE DEF c
    <3> QED
      BY <3>1
  <2> HIDE DEF V
  <2> QED
    BY <2>1, <2>2, NumbersInduct
<1>15. \A i \in 1 .. N : trades[i].price = price => series[N][c[i]] = trades[i]
  <2>1. N \in V
    BY <1>1, <1>14
  <2> HIDE DEF c
  <2> QED
    BY <2>1
<1>16. series[N] \in Seq(IndexedTrade) /\ Len(series[N]) = c[N]
  BY <1>1, <1>11
<1> HIDE DEF c
<1>17. Counted(trades, price, Exact(trades, price), c)
  <2>1. Exact(trades, price) \in Seq(IndexedTrade) /\ Len(Exact(trades, price)) = c[Len(trades)]
    BY <1>8, <1>16 DEF N
  <2>2. c \in [0 .. Len(trades) -> Nat] /\ c[0] = 0
    BY <1>12 DEF N
  <2>3. \A i \in 1 .. Len(trades) : c[i] = IF trades[i].price = price THEN c[i - 1] + 1 ELSE c[i - 1]
    BY <1>13 DEF N
  <2>4. \A i \in 1 .. Len(trades) : trades[i].price = price => Exact(trades, price)[c[i]] = trades[i]
    BY <1>8, <1>15 DEF N
  <2> QED
    BY <2>1, <2>2, <2>3, <2>4 DEF Counted
<1> QED
  BY <1>17

\* Every number of trades at the price is reached with one of them.
ReachesAll(trades, price, s, c) ==
    \A k \in 1 .. Len(s) : \E i \in 1 .. Len(trades) : trades[i].price = price /\ c[i] = k

\* The count grows, by one at each trade at the price, and reaches every number.
LEMMA CountGrows ==
    ASSUME NEW trades \in Seq(IndexedTrade), NEW price, NEW s, NEW c, Counted(trades, price, s, c)
    PROVE  /\ \A i, j \in 0 .. Len(trades) : i <= j => c[i] <= c[j]
           /\ ReachesAll(trades, price, s, c)
<1> DEFINE N == Len(trades)
           AtMost(m) == \A i \in 0 .. m : c[i] <= c[m]
           Reaches(m) == \A k \in 1 .. c[m] : \E i \in 1 .. m : trades[i].price = price /\ c[i] = k
           U == {m \in Nat : m <= N => AtMost(m) /\ Reaches(m)}
<1>1. /\ N \in Nat /\ c \in [0 .. N -> Nat] /\ c[0] = 0 /\ Len(s) = c[N]
      /\ \A i \in 1 .. N : c[i] = IF trades[i].price = price THEN c[i - 1] + 1 ELSE c[i - 1]
  BY DEF Counted
<1> HIDE DEF N
<1>2. Nat \subseteq U
  <2>1. 0 \in U
    BY <1>1
  <2>2. ASSUME NEW m \in Nat, m \in U PROVE m + 1 \in U
    <3>1. CASE m + 1 <= N
      <4>1. m + 1 \in 1 .. N /\ (m + 1) - 1 = m /\ m \in 0 .. N /\ m + 1 \in 0 .. N
        BY <1>1, <3>1
      <4>2. AtMost(m) /\ Reaches(m) /\ c[m] \in Nat
        BY <1>1, <2>2, <4>1
      <4>3. c[m + 1] = IF trades[m + 1].price = price THEN c[m] + 1 ELSE c[m]
        BY <1>1, <4>1
      <4>4. AtMost(m + 1)
        <5> TAKE i \in 0 .. m + 1
        <5>1. CASE i = m + 1
          BY <1>1, <4>1, <5>1
        <5>2. CASE i \in 0 .. m
          <6>1. c[i] <= c[m] /\ i \in 0 .. N
            BY <1>1, <4>1, <4>2, <5>2
          <6>2. c[i] \in Nat
            BY <1>1, <6>1
          <6> QED
            BY <4>2, <4>3, <6>1, <6>2
        <5> QED
          BY <5>1, <5>2
      <4>5. Reaches(m + 1)
        <5> TAKE k \in 1 .. c[m + 1]
        <5>1. CASE k \in 1 .. c[m]
          <6>1. PICK i \in 1 .. m : trades[i].price = price /\ c[i] = k
            BY <4>2, <5>1
          <6>2. i \in 1 .. m + 1
            OBVIOUS
          <6> QED
            BY <6>1, <6>2
        <5>2. CASE k \notin 1 .. c[m]
          <6>1. trades[m + 1].price = price /\ k = c[m + 1]
            BY <4>2, <4>3, <5>2
          <6> QED
            BY <6>1
        <5> QED
          BY <5>1, <5>2
      <4> HIDE DEF AtMost, Reaches
      <4> QED
        BY <4>4, <4>5
    <3> QED
      BY <3>1
  <2> HIDE DEF U
  <2> QED
    BY <2>1, <2>2, NumbersInduct
<1>3. \A i, j \in 0 .. N : i <= j => c[i] <= c[j]
  <2> TAKE i, j \in 0 .. N
  <2>1. j \in U /\ j <= N
    BY <1>1, <1>2
  <2>2. AtMost(j)
    BY <2>1
  <2> HIDE DEF U
  <2> QED
    BY <2>2
<1>4. Reaches(N)
  <2>1. N \in U /\ N <= N
    BY <1>1, <1>2
  <2> HIDE DEF AtMost, Reaches
  <2> QED
    BY <2>1
<1>5. ReachesAll(trades, price, s, c)
  BY <1>1, <1>4 DEF N, ReachesAll
<1> QED
  BY <1>3, <1>5 DEF N

\* Where a search of the trades at the price ends when one of all the trades
\* ends at m.
LEMMA CountBefore ==
    ASSUME NEW trades \in Seq(IndexedTrade), NEW price, NEW s, NEW c, Counted(trades, price, s, c),
           NEW m \in 1 .. Len(trades) + 1, NEW k \in 1 .. Len(s) + 1,
           \A i \in 1 .. Len(trades) : trades[i].price = price => (c[i] < k <=> i < m)
    PROVE  c[m - 1] = k - 1
<1> DEFINE N == Len(trades)
<1>1. /\ N \in Nat /\ c \in [0 .. N -> Nat] /\ Len(s) = c[N]
  BY DEF Counted
<1>2. /\ \A i, j \in 0 .. N : i <= j => c[i] <= c[j]
      /\ \A q \in 1 .. Len(s) : \E i \in 1 .. N : trades[i].price = price /\ c[i] = q
  <2>1. ReachesAll(trades, price, s, c)
    BY CountGrows
  <2>2. \A i, j \in 0 .. N : i <= j => c[i] <= c[j]
    BY CountGrows
  <2> QED
    BY <2>1, <2>2 DEF ReachesAll
<1> HIDE DEF N
<1>3. m \in 1 .. N + 1 /\ m - 1 \in 0 .. N /\ N \in 0 .. N
  BY <1>1 DEF N
<1>4. c[m - 1] \in Nat /\ c[m - 1] <= c[N] /\ k \in Nat
  BY <1>1, <1>2, <1>3
<1>5. \A i \in 1 .. N : trades[i].price = price => (c[i] < k <=> i < m)
  BY DEF N
<1>6. ASSUME c[m - 1] >= k PROVE FALSE
  <2>1. PICK i \in 1 .. N : trades[i].price = price /\ c[i] = k
    <3>1. k \in 1 .. Len(s)
      BY <1>1, <1>4, <1>6
    <3> QED
      BY <1>2, <3>1
  <2>2. ~(i < m)
    BY <1>4, <1>5, <2>1
  <2>3. i - 1 \in 0 .. N /\ m - 1 <= i - 1
    BY <1>1, <1>3, <2>2
  <2>4. c[m - 1] <= c[i - 1]
    BY <1>2, <1>3, <2>3
  <2>5. c[i] = c[i - 1] + 1 /\ c[i - 1] \in Nat
    BY <1>1, <2>1, <2>3 DEF Counted, N
  <2> QED
    BY <1>4, <1>6, <2>1, <2>4, <2>5
<1>7. ASSUME c[m - 1] < k - 1 PROVE FALSE
  <2>1. PICK i \in 1 .. N : trades[i].price = price /\ c[i] = c[m - 1] + 1
    <3>1. c[m - 1] + 1 \in 1 .. Len(s)
      BY <1>1, <1>4, <1>7
    <3> QED
      BY <1>2, <3>1
  <2>2. i < m
    BY <1>4, <1>5, <1>7, <2>1
  <2>3. i \in 0 .. N /\ i <= m - 1
    BY <1>1, <1>3, <2>2
  <2>4. c[i] <= c[m - 1]
    BY <1>2, <1>3, <2>3
  <2> QED
    BY <1>4, <2>1, <2>4
<1> QED
  BY <1>4, <1>6, <1>7

\* The running sums of the quantities.
Sums(s, sum) ==
    /\ sum \in [0 .. Len(s) -> Nat] /\ sum[0] = 0
    /\ \A k \in 1 .. Len(s) : sum[k] = sum[k - 1] + s[k].qty

\* PrefixQuantities are the running sums.
LEMMA PrefixSums ==
    ASSUME NEW s \in Seq(IndexedTrade)
    PROVE  Sums(s, PrefixQuantities(s))
<1> DEFINE N == Len(s)
           Body(f, i) == IF i = 0 THEN 0 ELSE f[i - 1] + s[i].qty
           Computes(f) == f = [i \in 0 .. N |-> Body(f, i)]
           sum == CHOOSE f : Computes(f)
           rule == [i \in 1 .. N |-> [r \in Nat |-> r + s[i].qty]]
<1>1. N \in Nat /\ \A i \in 1 .. N : s[i].qty \in Nat
  BY TradeTypes
<1> HIDE DEF N
<1>2. Recurses(Nat, 0, N, rule)
  <2>1. 0 \in Nat /\ \A i \in 1 .. N, r \in Nat : rule[i][r] \in Nat
    BY <1>1
  <2> HIDE DEF rule
  <2> QED
    BY <1>1, <2>1, Recursion
<1>3. PICK f \in [0 .. N -> Nat] : f[0] = 0 /\ \A i \in 1 .. N : f[i] = rule[i][f[i - 1]]
  BY <1>2 DEF Recurses
<1>4. \A i \in 1 .. N : f[i] = f[i - 1] + s[i].qty
  <2> TAKE i \in 1 .. N
  <2>1. i - 1 \in 0 .. N
    BY <1>1
  <2>2. f[i - 1] \in Nat
    BY <1>3, <2>1
  <2> QED
    BY <1>3, <2>2
<1>5. Computes(f)
  <2>1. \A i \in 0 .. N : f[i] = Body(f, i)
    BY <1>1, <1>3, <1>4
  <2> HIDE DEF Body
  <2> QED
    BY <1>3, <2>1
<1>6. Computes(sum)
  <2> HIDE DEF Computes
  <2> QED
    BY <1>5
<1>7. PrefixQuantities(s) = sum
  BY DEF PrefixQuantities, N
<1> HIDE DEF sum
<1>8. \A i \in 0 .. N : sum[i] = Body(sum, i)
  <2> HIDE DEF Body
  <2> QED
    BY <1>6
<1>9. sum[0] = 0 /\ \A i \in 1 .. N : sum[i] = sum[i - 1] + s[i].qty
  <2>1. 0 \in 0 .. N /\ \A i \in 1 .. N : i \in 0 .. N /\ i # 0
    BY <1>1
  <2> QED
    BY <1>8, <2>1
<1> DEFINE U == {i \in Nat : i <= N => sum[i] \in Nat}
<1>10. Nat \subseteq U
  <2>1. 0 \in U
    BY <1>9
  <2>2. ASSUME NEW i \in Nat, i \in U PROVE i + 1 \in U
    <3>1. CASE i + 1 <= N
      <4>1. i + 1 \in 1 .. N /\ (i + 1) - 1 = i /\ sum[i] \in Nat
        BY <1>1, <2>2, <3>1
      <4>2. sum[i + 1] = sum[i] + s[i + 1].qty
        BY <1>9, <4>1
      <4>3. s[i + 1].qty \in Nat
        BY <1>1, <4>1
      <4> QED
        BY <4>1, <4>2, <4>3
    <3> QED
      BY <3>1
  <2> HIDE DEF U
  <2> QED
    BY <2>1, <2>2, NumbersInduct
<1>11. sum \in [0 .. N -> Nat]
  <2>1. \A i \in 0 .. N : sum[i] \in Nat
    BY <1>10
  <2>2. sum = [i \in 0 .. N |-> sum[i]]
    <3> HIDE DEF Body
    <3> QED
      BY <1>6
  <2> QED
    BY <2>1, <2>2
<1> QED
  BY <1>7, <1>9, <1>11 DEF Sums, N

\* Every trade adds to the sums.
LEMMA SumsGrow ==
    ASSUME NEW s \in Seq(IndexedTrade), NEW sum, Sums(s, sum)
    PROVE  \A j, k \in 0 .. Len(s) : j < k => sum[j] < sum[k]
<1> DEFINE N == Len(s)
           U == {k \in Nat : k <= N => \A j \in 0 .. N : j < k => sum[j] < sum[k]}
<1>1. /\ N \in Nat /\ sum \in [0 .. N -> Nat]
      /\ \A k \in 1 .. N : sum[k] = sum[k - 1] + s[k].qty /\ s[k].qty \in Nat \ {0}
  BY TradeTypes DEF Sums
<1> HIDE DEF N
<1>2. 0 \in U
  OBVIOUS
<1>3. ASSUME NEW k \in Nat, k \in U PROVE k + 1 \in U
  <2>1. ASSUME k + 1 <= N, NEW j \in 0 .. N, j < k + 1 PROVE sum[j] < sum[k + 1]
    <3>1. k + 1 \in 1 .. N /\ (k + 1) - 1 = k /\ k \in 0 .. N
      BY <1>1, <2>1
    <3>2. sum[k + 1] = sum[k] + s[k + 1].qty /\ s[k + 1].qty \in Nat \ {0} /\ sum[k] \in Nat /\ sum[j] \in Nat
      BY <1>1, <3>1
    <3>3. j = k \/ j < k
      BY <1>1, <2>1
    <3>4. j < k => sum[j] < sum[k]
      BY <1>1, <1>3, <2>1
    <3> QED
      BY <3>2, <3>3, <3>4
  <2> QED
    BY <2>1
<1>4. Nat \subseteq U
  <2> HIDE DEF U
  <2> QED
    BY <1>2, <1>3, NumbersInduct
<1> QED
  BY <1>1, <1>4 DEF N

\* The trade with which the lots needed are reached.
LEMMA CrossingFinds ==
    ASSUME NEW s \in Seq(IndexedTrade), NEW sum, Sums(s, sum), NEW start \in 1 .. Len(s) + 1,
           NEW stop \in 1 .. Len(s) + 1, start <= stop, NEW needed \in Nat \ {0}
    PROVE  /\ Crossing(sum, start, stop, needed) \in start .. stop
           /\ \A k \in start - 1 .. stop - 1 :
                 Crossing(sum, start, stop, needed) <= k <=> sum[k] - sum[start - 1] >= needed
<1> DEFINE N == Len(s)
           X == {k \in start .. stop - 1 : sum[k] - sum[start - 1] >= needed}
           r == Crossing(sum, start, stop, needed)
<1>1. N \in Nat /\ sum \in [0 .. N -> Nat] /\ \A j, k \in 0 .. N : j < k => sum[j] < sum[k]
  <2>1. N \in Nat /\ sum \in [0 .. N -> Nat]
    BY DEF Sums
  <2> HIDE DEF X, r
  <2>2. \A j, k \in 0 .. N : j < k => sum[j] < sum[k]
    BY SumsGrow
  <2> QED
    BY <2>1, <2>2
<1> HIDE DEF N
<1>2. start \in 1 .. N + 1 /\ stop \in 1 .. N + 1 /\ start - 1 \in 0 .. N
      /\ \A k \in start - 1 .. stop - 1 : k \in 0 .. N /\ (k # start - 1 => k \in start .. stop - 1)
  BY <1>1 DEF N
<1>3. \A k \in start - 1 .. stop - 1 : sum[k] \in Nat /\ sum[start - 1] \in Nat
  BY <1>1, <1>2
<1>4. CASE X = {}
  <2>1. r = stop
    BY <1>4 DEF Crossing
  <2>2. ASSUME NEW k \in start - 1 .. stop - 1
        PROVE  ~(sum[k] - sum[start - 1] >= needed)
    <3>1. CASE k = start - 1
      BY <1>3, <3>1
    <3>2. CASE k # start - 1
      BY <1>2, <1>4, <3>2
    <3> QED
      BY <3>1, <3>2
  <2> HIDE DEF r
  <2> QED
    BY <1>2, <2>1, <2>2 DEF r
<1>5. CASE X # {}
  <2>1. PICK n \in X : \A m \in X : n <= m
    <3>1. X \in SUBSET Nat
      BY <1>2
    <3> HIDE DEF X
    <3> QED
      BY <1>5, <3>1, LeastNumber
  <2>2. r = CHOOSE k \in X : \A j \in X : k <= j
    BY <1>5 DEF Crossing
  <2>3. r \in X /\ \A j \in X : r <= j
    <3> HIDE DEF X
    <3> QED
      BY <2>1, <2>2
  <2> HIDE DEF r
  <2>4. r \in start .. stop - 1 /\ r \in 0 .. N /\ r \in Nat
    BY <1>2, <2>3
  <2>5. ASSUME NEW k \in start - 1 .. stop - 1
        PROVE  r <= k <=> sum[k] - sum[start - 1] >= needed
    <3>1. CASE r <= k
      <4>1. r = k \/ r < k
        BY <1>2, <2>4, <3>1
      <4>2. sum[r] <= sum[k] /\ sum[r] \in Nat
        <5>1. k \in 0 .. N /\ r \in 0 .. N /\ sum[k] \in Nat /\ sum[r] \in Nat
          BY <1>1, <1>2, <2>4
        <5>2. CASE r = k
          BY <5>1, <5>2
        <5>3. CASE r < k
          <6>1. sum[r] < sum[k]
            BY <1>1, <5>1, <5>3
          <6> QED
            BY <5>1, <6>1
        <5> QED
          BY <4>1, <5>2, <5>3
      <4>3. sum[r] - sum[start - 1] >= needed
        BY <2>3
      <4> QED
        BY <1>3, <3>1, <4>2, <4>3
    <3>2. CASE k < r
      <4>1. k \notin X
        BY <1>2, <2>3, <2>4, <3>2
      <4>2. k \in start .. stop - 1 \/ k = start - 1
        BY <1>2
      <4> QED
        BY <1>2, <1>3, <2>4, <3>2, <4>1, <4>2
    <3> QED
      BY <1>2, <2>4, <3>1, <3>2
  <2> QED
    BY <1>2, <2>4, <2>5 DEF r
<1> QED
  BY <1>4, <1>5

\* Where the trades that met the order end, when it is filled through.
LEMMA ThroughEnd ==
    ASSUME NEW s, NEW start \in Nat, NEW stop \in Nat, NEW full, NEW through, NEW e \in start .. stop,
           \A j \in start .. stop - 1 : Earlier(s[j], through) <=> j < e
    PROVE  EffectiveEnd(s, start, stop, full, through, TRUE) = e
<1> DEFINE Ends(k) == /\ \A j \in start .. k - 1 : Earlier(s[j], through)
                      /\ k = stop \/ ~Earlier(s[k], through)
<1>1. Ends(e)
  <2>1. \A j \in start .. e - 1 : j \in start .. stop - 1 /\ j < e
    OBVIOUS
  <2>2. e # stop => e \in start .. stop - 1 /\ ~(e < e)
    OBVIOUS
  <2> QED
    BY <2>1, <2>2
<1>2. ASSUME NEW k \in start .. stop, Ends(k) PROVE k = e
  <2>1. CASE k < e
    <3>1. k \in start .. stop - 1 /\ k # stop
      BY <2>1
    <3> QED
      BY <1>2, <2>1, <3>1
  <2>2. CASE k > e
    <3>1. e \in start .. k - 1 /\ e \in start .. stop - 1 /\ ~(e < e)
      BY <2>2
    <3> QED
      BY <1>2, <3>1
  <2> QED
    BY <2>1, <2>2
<1>3. EffectiveEnd(s, start, stop, full, through, TRUE) = CHOOSE k \in start .. stop : Ends(k)
  BY DEF EffectiveEnd
<1> HIDE DEF Ends
<1> QED
  BY <1>1, <1>2, <1>3

-------------------------------------------------------------------------------
(* PassiveTradeIndex. An order, as watched trade by trade. *)

\* An order the index is asked about.
Order ==
    {o \in [side : Side, quote : 1 .. MaxPrice - 1, qty : Nat \ {0}, queue : Nat, placed : Nat, expires : Nat] :
        o.placed < o.expires}

\* What is known of an order while it is watched.
Watching == [state : {"unfilled"}, queue_consumed : Int, filled : Int, same_price_traded : Int,
             qualifying : Int, first_fill : Int, full_fill : Int, by_through : BOOLEAN]

\* What is watched, trade by trade.
WatchedBy(o, trades, w) ==
    /\ w[0] = NewOrder
    /\ \A i \in 1 .. Len(trades) :
          w[i] = IF w[i - 1].full_fill # 0 \/ ~Meets(o, trades[i]) THEN w[i - 1]
                 ELSE Watch(o, w[i - 1], trades[i])

\* Watching a trade changes these numbers only.
LEMMA WatchTypes ==
    ASSUME NEW o \in Order, NEW t \in IndexedTrade, NEW w \in Watching
    PROVE  Watch(o, w, t) \in Watching
<1>1. o.qty \in Int /\ o.queue \in Int
  BY DEF Order
<1>2. t.qty \in Int /\ t.ordinal \in Int
  BY DEF IndexedTrade
<1>3. /\ w.state = "unfilled" /\ w.queue_consumed \in Int /\ w.filled \in Int
      /\ w.same_price_traded \in Int /\ w.qualifying \in Int /\ w.first_fill \in Int
      /\ w.full_fill \in Int /\ w.by_through \in BOOLEAN
  BY DEF Watching
<1> DEFINE q == IF t.qty < o.queue - w.queue_consumed THEN t.qty ELSE o.queue - w.queue_consumed
           r == IF t.qty - q < o.qty - w.filled THEN t.qty - q ELSE o.qty - w.filled
           ff == IF r > 0 THEN FirstFill(w, t) ELSE w.first_fill
           lf == IF w.filled + r = o.qty THEN t.ordinal ELSE w.full_fill
<1>4. q \in Int /\ r \in Int /\ FirstFill(w, t) \in Int /\ ff \in Int /\ lf \in Int
  BY <1>1, <1>2, <1>3 DEF FirstFill
<1>5. CASE Beyond(o.side, t.price, o.quote)
  <2>1. Watch(o, w, t) = [w EXCEPT !.filled = o.qty, !.queue_consumed = o.queue, !.qualifying = @ + 1,
                   !.first_fill = FirstFill(w, t), !.full_fill = t.ordinal, !.by_through = TRUE]
    BY <1>5 DEF Watch
  <2> HIDE DEF q, r, ff, lf
  <2>2. Watch(o, w, t)
        = [state |-> w.state, queue_consumed |-> o.queue, filled |-> o.qty,
           same_price_traded |-> w.same_price_traded, qualifying |-> w.qualifying + 1,
           first_fill |-> FirstFill(w, t), full_fill |-> t.ordinal, by_through |-> TRUE]
    BY <2>1 DEF Watching
  <2> QED
    BY <1>1, <1>2, <1>3, <1>4, <2>2 DEF Watching
<1>6. CASE ~Beyond(o.side, t.price, o.quote)
  <2>1. Watch(o, w, t) = [w EXCEPT !.queue_consumed = @ + q, !.filled = @ + r,
                       !.same_price_traded = @ + t.qty, !.qualifying = @ + 1,
                       !.first_fill = ff, !.full_fill = lf]
    BY <1>6 DEF Watch
  <2> HIDE DEF q, r, ff, lf
  <2>2. Watch(o, w, t)
        = [state |-> w.state, queue_consumed |-> w.queue_consumed + q, filled |-> w.filled + r,
           same_price_traded |-> w.same_price_traded + t.qty, qualifying |-> w.qualifying + 1,
           first_fill |-> ff, full_fill |-> lf, by_through |-> w.by_through]
    BY <2>1 DEF Watching
  <2> QED
    BY <1>1, <1>2, <1>3, <1>4, <2>2 DEF Watching
<1> QED
  BY <1>5, <1>6

\* The reference watches every trade, in order.
LEMMA SequentialWatches ==
    ASSUME NEW o \in Order, NEW trades \in Seq(IndexedTrade),
           trades = IF o.side = "Buy" THEN buys ELSE sells
    PROVE  \E w \in [0 .. Len(trades) -> Watching] :
              /\ WatchedBy(o, trades, w)
              /\ Sequential(o) = [w[Len(trades)] EXCEPT !.state = StateOf(w[Len(trades)].filled, o.qty)]
<1> DEFINE N == Len(trades)
           Turn(i, r) == IF r.full_fill # 0 \/ ~Meets(o, trades[i]) THEN r ELSE Watch(o, r, trades[i])
           Body(f, i) == IF i = 0 THEN NewOrder ELSE Turn(i, f[i - 1])
           Computes(f) == f = [i \in 0 .. N |-> Body(f, i)]
           watched == CHOOSE f : Computes(f)
           rule == [i \in 1 .. N |-> [r \in Watching |-> Turn(i, r)]]
<1>1. N \in Nat /\ \A i \in 1 .. N : trades[i] \in IndexedTrade
  BY TradeTypes
<1>2. Sequential(o) = [watched[N] EXCEPT !.state = StateOf(watched[N].filled, o.qty)]
  <2>1. (IF o.side = "Buy" THEN buys ELSE sells) = trades
    OBVIOUS
  <2> QED
    BY <2>1 DEF Sequential
<1> HIDE DEF N, watched
<1>3. NewOrder \in Watching
  BY DEF NewOrder, Watching
<1>4. \A i \in 1 .. N : \A r \in Watching : Turn(i, r) \in Watching
  <2> TAKE i \in 1 .. N
  <2> TAKE r \in Watching
  <2>1. Watch(o, r, trades[i]) \in Watching
    BY <1>1, WatchTypes
  <2> QED
    BY <2>1
<1> HIDE DEF Turn
<1>5. Recurses(Watching, NewOrder, N, rule)
  <2>1. \A i \in 1 .. N : \A r \in Watching : rule[i][r] \in Watching
    BY <1>4
  <2> HIDE DEF rule
  <2> QED
    BY <1>1, <1>3, <2>1, Recursion
<1>6. PICK f \in [0 .. N -> Watching] : f[0] = NewOrder /\ \A i \in 1 .. N : f[i] = rule[i][f[i - 1]]
  BY <1>5 DEF Recurses
<1>7. \A i \in 1 .. N : f[i] = Turn(i, f[i - 1])
  <2> TAKE i \in 1 .. N
  <2>1. i - 1 \in 0 .. N
    BY <1>1
  <2>2. f[i - 1] \in Watching
    BY <1>6, <2>1
  <2> QED
    BY <1>6, <2>2
<1>8. Computes(f)
  <2>1. \A i \in 0 .. N : f[i] = Body(f, i)
    <3> TAKE i \in 0 .. N
    <3>1. i # 0 => i \in 1 .. N
      BY <1>1
    <3> QED
      BY <1>6, <1>7, <3>1
  <2> HIDE DEF Body
  <2> QED
    BY <1>6, <2>1
<1>9. Computes(watched)
  <2> HIDE DEF Computes
  <2> QED
    BY <1>8 DEF watched
<1>10. \A i \in 0 .. N : watched[i] = Body(watched, i)
  <2> HIDE DEF Body
  <2> QED
    BY <1>9
<1>11. watched[0] = NewOrder /\ \A i \in 1 .. N : watched[i] = Turn(i, watched[i - 1])
  <2>1. 0 \in 0 .. N /\ \A i \in 1 .. N : i \in 0 .. N /\ i # 0
    BY <1>1
  <2> QED
    BY <1>10, <2>1
<1> DEFINE U == {i \in Nat : i <= N => watched[i] \in Watching}
<1>12. Nat \subseteq U
  <2>1. 0 \in U
    BY <1>3, <1>11
  <2>2. ASSUME NEW i \in Nat, i \in U PROVE i + 1 \in U
    <3>1. CASE i + 1 <= N
      <4>1. i + 1 \in 1 .. N /\ (i + 1) - 1 = i /\ watched[i] \in Watching
        BY <1>1, <2>2, <3>1
      <4>2. watched[i + 1] = Turn(i + 1, watched[i])
        BY <1>11, <4>1
      <4> QED
        BY <1>4, <4>1, <4>2
    <3> QED
      BY <3>1
  <2> HIDE DEF U
  <2> QED
    BY <2>1, <2>2, NumbersInduct
<1>13. watched \in [0 .. N -> Watching]
  <2>1. \A i \in 0 .. N : watched[i] \in Watching
    BY <1>12
  <2>2. watched = [i \in 0 .. N |-> watched[i]]
    <3> HIDE DEF Body
    <3> QED
      BY <1>9
  <2> QED
    BY <2>1, <2>2
<1>14. WatchedBy(o, trades, watched)
  BY <1>11 DEF WatchedBy, Turn, N
<1> QED
  BY <1>2, <1>13, <1>14 DEF N

\* An order when V lots traded at its quote, in K trades.
Picture(o, V, K, first, full) ==
    [state |-> "unfilled", queue_consumed |-> IF V > o.queue THEN o.queue ELSE V,
     filled |-> Filled(V, o.queue, o.qty), same_price_traded |-> V, qualifying |-> K,
     first_fill |-> first, full_fill |-> full, by_through |-> FALSE]

\* A trade at the quote adds its lots to the picture.
LEMMA WatchQuote ==
    ASSUME NEW o \in Order, NEW t \in IndexedTrade, t.price = o.quote, NEW V \in Nat, NEW K \in Nat,
           NEW first \in Nat, first = 0 <=> V <= o.queue, V < o.queue + o.qty
    PROVE  Watch(o, Picture(o, V, K, first, 0), t)
           = Picture(o, V + t.qty, K + 1,
                     IF V + t.qty <= o.queue THEN 0 ELSE IF first = 0 THEN t.ordinal ELSE first,
                     IF V + t.qty >= o.queue + o.qty THEN t.ordinal ELSE 0)
<1> DEFINE w == Picture(o, V, K, first, 0)
           q == IF t.qty < o.queue - w.queue_consumed THEN t.qty ELSE o.queue - w.queue_consumed
           r == IF t.qty - q < o.qty - w.filled THEN t.qty - q ELSE o.qty - w.filled
           ff == IF r > 0 THEN FirstFill(w, t) ELSE w.first_fill
           lf == IF w.filled + r = o.qty THEN t.ordinal ELSE w.full_fill
<1>1. o.qty \in Nat \ {0} /\ o.queue \in Nat /\ o.side \in Side /\ o.quote \in Int
  BY DEF Order
<1>2. t.qty \in Nat \ {0} /\ t.ordinal \in Nat /\ ~Beyond(o.side, t.price, o.quote)
  BY <1>1 DEF IndexedTrade, Beyond
<1>3. Watch(o, w, t) = [w EXCEPT !.queue_consumed = @ + q, !.filled = @ + r,
                       !.same_price_traded = @ + t.qty, !.qualifying = @ + 1,
                       !.first_fill = ff, !.full_fill = lf]
  BY <1>2 DEF Watch
<1>4. /\ w.queue_consumed = (IF V > o.queue THEN o.queue ELSE V)
      /\ w.filled = Filled(V, o.queue, o.qty) /\ w.first_fill = first /\ w.full_fill = 0
      /\ w.same_price_traded = V /\ w.qualifying = K /\ w.state = "unfilled" /\ w.by_through = FALSE
  BY DEF Picture
<1>5. w.filled = (IF V <= o.queue THEN 0 ELSE V - o.queue) /\ w.filled < o.qty /\ w.filled \in Nat
  BY <1>1, <1>4 DEF Filled
<1>6. q = IF V > o.queue THEN 0 ELSE IF V + t.qty < o.queue THEN t.qty ELSE o.queue - V
  BY <1>1, <1>2, <1>4
<1>7. w.queue_consumed + q = IF V + t.qty > o.queue THEN o.queue ELSE V + t.qty
  BY <1>1, <1>2, <1>4, <1>6
<1>8. t.qty - q = (IF V + t.qty <= o.queue THEN 0 ELSE IF V > o.queue THEN t.qty ELSE V + t.qty - o.queue)
      /\ t.qty - q \in Nat
  BY <1>1, <1>2, <1>6
<1> HIDE DEF q
<1>9. w.filled + r = Filled(V + t.qty, o.queue, o.qty)
  BY <1>1, <1>2, <1>5, <1>8 DEF Filled
<1>10. r > 0 <=> V + t.qty > o.queue
  BY <1>1, <1>2, <1>5, <1>8
<1>11. ff = IF V + t.qty <= o.queue THEN 0 ELSE IF first = 0 THEN t.ordinal ELSE first
  BY <1>1, <1>2, <1>4, <1>10 DEF FirstFill
<1>12. lf = IF V + t.qty >= o.queue + o.qty THEN t.ordinal ELSE 0
  <2>1. Filled(V + t.qty, o.queue, o.qty) = o.qty <=> V + t.qty >= o.queue + o.qty
    BY <1>1, <1>2 DEF Filled
  <2> QED
    BY <1>4, <1>9, <2>1
<1> HIDE DEF r, ff, lf
<1>13. Watch(o, w, t)
       = [state |-> "unfilled", queue_consumed |-> w.queue_consumed + q, filled |-> w.filled + r,
          same_price_traded |-> V + t.qty, qualifying |-> K + 1, first_fill |-> ff,
          full_fill |-> lf, by_through |-> FALSE]
  <2> DEFINE a == w.queue_consumed
             b == w.filled
  <2>1. w = [state |-> "unfilled", queue_consumed |-> a, filled |-> b, same_price_traded |-> V,
             qualifying |-> K, first_fill |-> first, full_fill |-> 0, by_through |-> FALSE]
    BY DEF Picture
  <2>2. Watch(o, w, t) = [w EXCEPT !.queue_consumed = a + q, !.filled = b + r,
                       !.same_price_traded = V + t.qty, !.qualifying = K + 1,
                       !.first_fill = ff, !.full_fill = lf]
    BY <1>3, <1>4
  <2> HIDE DEF w, a, b
  <2>3. Watch(o, w, t)
        = [state |-> "unfilled", queue_consumed |-> a + q, filled |-> b + r,
           same_price_traded |-> V + t.qty, qualifying |-> K + 1, first_fill |-> ff,
           full_fill |-> lf, by_through |-> FALSE]
    BY <2>1, <2>2
  <2> QED
    BY <2>3 DEF a, b
<1> HIDE DEF w
<1>14. Watch(o, w, t)
       = Picture(o, V + t.qty, K + 1,
                 IF V + t.qty <= o.queue THEN 0 ELSE IF first = 0 THEN t.ordinal ELSE first,
                 IF V + t.qty >= o.queue + o.qty THEN t.ordinal ELSE 0)
  BY <1>7, <1>9, <1>11, <1>12, <1>13 DEF Picture
<1> QED
  BY <1>14 DEF w

\* A trade through the quote fills the order.
LEMMA WatchBeyond ==
    ASSUME NEW o \in Order, NEW t \in IndexedTrade, Beyond(o.side, t.price, o.quote), NEW V, NEW K, NEW first
    PROVE  Watch(o, Picture(o, V, K, first, 0), t)
           = [state |-> "unfilled", queue_consumed |-> o.queue, filled |-> o.qty, same_price_traded |-> V,
              qualifying |-> K + 1, first_fill |-> IF first = 0 THEN t.ordinal ELSE first,
              full_fill |-> t.ordinal, by_through |-> TRUE]
BY DEF Watch, Picture, FirstFill

-------------------------------------------------------------------------------
(* PassiveTradeIndex. The searches of evaluate_side, and what was watched when they stop. *)

\* The trades at the price are in the order of all the trades.
LEMMA CountedInOrder ==
    ASSUME NEW trades, InOrder(trades), NEW price, NEW s, NEW c, Counted(trades, price, s, c)
    PROVE  InOrder(s)
<1> DEFINE N == Len(trades)
<1>1. trades \in Seq(IndexedTrade) /\ N \in Nat
  BY DEF InOrder
<1>2. /\ \A i, j \in 0 .. N : i <= j => c[i] <= c[j]
      /\ \A k \in 1 .. Len(s) : \E i \in 1 .. N : trades[i].price = price /\ c[i] = k
  <2>1. ReachesAll(trades, price, s, c)
    BY <1>1, CountGrows
  <2>2. \A i, j \in 0 .. N : i <= j => c[i] <= c[j]
    BY <1>1, CountGrows
  <2> QED
    BY <2>1, <2>2 DEF ReachesAll
<1>3. ASSUME NEW k \in 1 .. Len(s), NEW m \in 1 .. Len(s), k < m
      PROVE  s[k].local <= s[m].local /\ s[k].ordinal < s[m].ordinal
  <2>1. PICK i \in 1 .. N : trades[i].price = price /\ c[i] = k
    BY <1>2
  <2>2. PICK j \in 1 .. N : trades[j].price = price /\ c[j] = m
    BY <1>2
  <2>3. s[k] = trades[i] /\ s[m] = trades[j]
    BY <2>1, <2>2 DEF Counted
  <2>4. i < j
    <3> SUFFICES ASSUME j <= i PROVE FALSE
      BY <1>1
    <3>1. c[j] <= c[i]
      BY <1>1, <1>2
    <3> QED
      BY <1>3, <2>1, <2>2, <3>1
  <2> QED
    BY <2>3, <2>4 DEF InOrder
<1> QED
  BY <1>3 DEF InOrder, Counted

\* What the searches of evaluate_side find: begin and end among all the trades,
\* start and stop among those at the quote, and the first one through it.
Setting(o, trades, s, c, sum, begin, end, start, stop, through) ==
    /\ o \in Order
    /\ InOrder(trades)
    /\ Counted(trades, o.quote, s, c)
    /\ Sums(s, sum)
    /\ begin \in 1 .. Len(trades) + 1 /\ end \in 1 .. Len(trades) + 1 /\ begin <= end
    /\ \A i \in 1 .. Len(trades) :
          begin <= i /\ i < end <=> o.placed < trades[i].local /\ trades[i].local < o.expires
    /\ start \in 1 .. Len(s) + 1 /\ stop \in 1 .. Len(s) + 1
    /\ c[begin - 1] = start - 1 /\ c[end - 1] = stop - 1
    /\ FirstOf(through, BeyondIn(o.side, trades, o.quote, begin, end), Len(trades) + 1)

\* These are the searches of evaluate_side.
LEMMA SearchesFind ==
    ASSUME NEW o \in Order, NEW trades, InOrder(trades), MaxPrice \in Nat
    PROVE  LET s == Exact(trades, o.quote)
               begin == UpperLocal(trades, o.placed)
               end == LowerLocal(trades, o.expires)
           IN  \E c : Setting(o, trades, s, c, PrefixQuantities(s), begin, end,
                              UpperLocal(s, o.placed), LowerLocal(s, o.expires),
                              FirstThrough(o.side, trades, Tree(o.side, trades), begin, end, o.quote))
<1> DEFINE s == Exact(trades, o.quote)
           begin == UpperLocal(trades, o.placed)
           end == LowerLocal(trades, o.expires)
           start == UpperLocal(s, o.placed)
           stop == LowerLocal(s, o.expires)
           N == Len(trades)
           through == FirstThrough(o.side, trades, Tree(o.side, trades), begin, end, o.quote)
<1>1. /\ o.side \in Side /\ o.quote \in 1 .. MaxPrice - 1 /\ o.placed \in Nat /\ o.expires \in Nat
      /\ o.placed < o.expires
  BY DEF Order
<1>2. trades \in Seq(IndexedTrade) /\ N \in Nat
  BY DEF InOrder
<1>3. PICK c : Counted(trades, o.quote, s, c)
  BY <1>2, ExactCounts
<1> HIDE DEF s
<1>4. s \in Seq(IndexedTrade) /\ InOrder(s)
  <2>1. InOrder(s)
    BY <1>3, CountedInOrder
  <2> QED
    BY <2>1 DEF InOrder
<1>5. Sums(s, PrefixQuantities(s))
  BY <1>4, PrefixSums
<1>6. begin \in 1 .. N + 1 /\ \A i \in 1 .. N : i < begin <=> trades[i].local <= o.placed
  BY <1>1, UpperFinds
<1>7. end \in 1 .. N + 1 /\ \A i \in 1 .. N : i < end <=> trades[i].local < o.expires
  BY <1>1, LowerFinds
<1>8. start \in 1 .. Len(s) + 1 /\ \A k \in 1 .. Len(s) : k < start <=> s[k].local <= o.placed
  BY <1>1, <1>4, UpperFinds
<1>9. stop \in 1 .. Len(s) + 1 /\ \A k \in 1 .. Len(s) : k < stop <=> s[k].local < o.expires
  BY <1>1, <1>4, LowerFinds
<1>10. FirstOf(through, BeyondIn(o.side, trades, o.quote, begin, end), N + 1)
  <2> HIDE DEF begin, end
  <2> QED
    BY <1>1, <1>2, <1>6, <1>7, FirstThroughFinds
<1> HIDE DEF begin, end, start, stop, through, N
<1>11. \A i \in 1 .. N : trades[i].local \in Nat
  BY <1>2, TradeTypes DEF N
<1>12. begin <= end
  <2> SUFFICES ASSUME end < begin PROVE FALSE
    BY <1>6, <1>7
  <2>1. end \in 1 .. N /\ ~(end < end)
    BY <1>2, <1>6, <1>7
  <2>2. trades[end].local <= o.placed /\ ~(trades[end].local < o.expires)
    BY <1>6, <1>7, <2>1
  <2> QED
    BY <1>1, <1>11, <2>1, <2>2
<1>13. \A i \in 1 .. N : begin <= i /\ i < end <=> o.placed < trades[i].local /\ trades[i].local < o.expires
  <2> TAKE i \in 1 .. N
  <2>1. begin <= i <=> ~(i < begin)
    BY <1>2, <1>6
  <2>2. o.placed < trades[i].local <=> ~(trades[i].local <= o.placed)
    BY <1>1, <1>11
  <2> QED
    BY <1>6, <1>7, <2>1, <2>2
<1>14. ASSUME NEW i \in 1 .. N, trades[i].price = o.quote
       PROVE  s[c[i]] = trades[i] /\ c[i] \in 1 .. Len(s)
  <2>1. c[i] = c[i - 1] + 1 /\ c[i - 1] \in Nat /\ s[c[i]] = trades[i] /\ Len(s) = c[N]
    <3>1. i - 1 \in 0 .. N
      BY <1>2
    <3> QED
      BY <1>3, <1>14, <3>1 DEF Counted, N
  <2>2. c[i] <= c[N] /\ c[N] \in Nat
    <3>1. i \in 0 .. N /\ N \in 0 .. N /\ i <= N
      BY <1>2
    <3>2. \A j, m \in 0 .. N : j <= m => c[j] <= c[m]
      BY <1>2, <1>3, CountGrows DEF N
    <3> QED
      BY <1>3, <3>1, <3>2 DEF Counted, N
  <2> QED
    BY <2>1, <2>2
<1>15. c[begin - 1] = start - 1
  <2>1. \A i \in 1 .. N : trades[i].price = o.quote => (c[i] < start <=> i < begin)
    BY <1>6, <1>8, <1>14
  <2> QED
    BY <1>2, <1>3, <1>6, <1>8, <2>1, CountBefore DEF N
<1>16. c[end - 1] = stop - 1
  <2>1. \A i \in 1 .. N : trades[i].price = o.quote => (c[i] < stop <=> i < end)
    BY <1>7, <1>9, <1>14
  <2> QED
    BY <1>2, <1>3, <1>7, <1>9, <2>1, CountBefore DEF N
<1>17. Setting(o, trades, s, c, PrefixQuantities(s), begin, end, start, stop, through)
  BY <1>3, <1>5, <1>6, <1>7, <1>8, <1>9, <1>10, <1>12, <1>13, <1>15, <1>16 DEF Setting, N
<1> QED
  BY <1>17 DEF s, begin, end, start, stop, through

\* The lots that traded at the quote, and the fill they began, up to trade i.
TradedBy(c, sum, start, i) == sum[c[i]] - sum[start - 1]
FirstBy(s, c, first, i) == IF first <= c[i] THEN s[first].ordinal ELSE 0

\* In the life of the order.
LEMMA WithinLife ==
    ASSUME NEW o, NEW trades, NEW s, NEW c, NEW sum, NEW begin, NEW end, NEW start, NEW stop, NEW through,
           Setting(o, trades, s, c, sum, begin, end, start, stop, through),
           NEW i \in begin - 1 .. end - 1
    PROVE  /\ start <= stop
           /\ i \in 0 .. Len(trades) /\ c[i] \in start - 1 .. stop - 1 /\ c[i] \in 0 .. Len(s)
           /\ sum[c[i]] \in Nat /\ sum[start - 1] \in Nat
           /\ TradedBy(c, sum, start, i) \in Nat
           /\ c[i] = start - 1 => TradedBy(c, sum, start, i) = 0
<1> DEFINE N == Len(trades)
<1>1. /\ trades \in Seq(IndexedTrade) /\ s \in Seq(IndexedTrade) /\ N \in Nat /\ Len(s) \in Nat
      /\ c \in [0 .. N -> Nat] /\ sum \in [0 .. Len(s) -> Nat]
  BY DEF Setting, InOrder, Counted, Sums
<1>2. begin \in 1 .. N + 1 /\ end \in 1 .. N + 1 /\ start \in 1 .. Len(s) + 1 /\ stop \in 1 .. Len(s) + 1
      /\ c[begin - 1] = start - 1 /\ c[end - 1] = stop - 1
  BY DEF Setting
<1>3. \A j, m \in 0 .. N : j <= m => c[j] <= c[m]
  BY <1>1, CountGrows DEF Setting
<1>4. \A j, k \in 0 .. Len(s) : j < k => sum[j] < sum[k]
  BY <1>1, SumsGrow DEF Setting
<1> HIDE DEF N
<1>5. i \in 0 .. N /\ begin - 1 \in 0 .. N /\ end - 1 \in 0 .. N /\ begin - 1 <= i /\ i <= end - 1
  BY <1>1, <1>2
<1>6. c[begin - 1] <= c[i] /\ c[i] <= c[end - 1] /\ c[i] \in Nat
  BY <1>1, <1>3, <1>5
<1>7. /\ start <= stop /\ c[i] \in start - 1 .. stop - 1 /\ c[i] \in 0 .. Len(s) /\ start - 1 \in 0 .. Len(s)
      /\ start - 1 <= c[i]
  <2>1. start - 1 <= c[i] /\ c[i] <= stop - 1
    BY <1>2, <1>6
  <2>2. start \in 1 .. Len(s) + 1 /\ stop \in 1 .. Len(s) + 1 /\ Len(s) \in Nat /\ c[i] \in Nat
    BY <1>1, <1>2, <1>6
  <2> QED
    BY <2>1, <2>2
<1>8. sum[c[i]] \in Nat /\ sum[start - 1] \in Nat
  BY <1>1, <1>7
<1>9. c[i] = start - 1 \/ sum[start - 1] < sum[c[i]]
  <2>1. c[i] = start - 1 \/ start - 1 < c[i]
    BY <1>2, <1>6, <1>7
  <2>2. start - 1 < c[i] => sum[start - 1] < sum[c[i]]
    BY <1>4, <1>7
  <2> QED
    BY <2>1, <2>2
<1>10. TradedBy(c, sum, start, i) \in Nat /\ (c[i] = start - 1 => TradedBy(c, sum, start, i) = 0)
  BY <1>8, <1>9 DEF TradedBy
<1> QED
  BY <1>5, <1>7, <1>8, <1>10 DEF N

\* A trade in the life of the order, and what it does to the counts.
LEMMA NextTraded ==
    ASSUME NEW o, NEW trades, NEW s, NEW c, NEW sum, NEW begin, NEW end, NEW start, NEW stop, NEW through,
           Setting(o, trades, s, c, sum, begin, end, start, stop, through),
           NEW i \in begin .. end - 1
    PROVE  /\ i \in 1 .. Len(trades) /\ i - 1 \in begin - 1 .. end - 1
           /\ trades[i] \in IndexedTrade
           /\ o.placed < trades[i].local /\ trades[i].local < o.expires
           /\ trades[i].price = o.quote =>
                 /\ c[i] = c[i - 1] + 1 /\ s[c[i]] = trades[i]
                 /\ TradedBy(c, sum, start, i) = TradedBy(c, sum, start, i - 1) + trades[i].qty
           /\ trades[i].price # o.quote =>
                 /\ c[i] = c[i - 1]
                 /\ TradedBy(c, sum, start, i) = TradedBy(c, sum, start, i - 1)
<1> DEFINE N == Len(trades)
<1>1. trades \in Seq(IndexedTrade) /\ N \in Nat /\ begin \in 1 .. N + 1 /\ end \in 1 .. N + 1
  BY DEF Setting, InOrder
<1>2. i \in 1 .. N /\ i - 1 \in begin - 1 .. end - 1 /\ i \in begin - 1 .. end - 1
  BY <1>1
<1>3. trades[i] \in IndexedTrade /\ trades[i].qty \in Nat \ {0}
  BY <1>1, <1>2, TradeTypes
<1>4. o.placed < trades[i].local /\ trades[i].local < o.expires
  <2>1. begin <= i /\ i < end
    BY <1>1
  <2> QED
    BY <1>2, <2>1 DEF Setting
<1>5. c[i] = (IF trades[i].price = o.quote THEN c[i - 1] + 1 ELSE c[i - 1])
      /\ (trades[i].price = o.quote => s[c[i]] = trades[i])
  BY <1>2 DEF Setting, Counted
<1>6. /\ c[i - 1] \in 0 .. Len(s) /\ c[i] \in 0 .. Len(s) /\ Len(s) \in Nat
      /\ sum[c[i]] \in Nat /\ sum[c[i - 1]] \in Nat /\ sum[start - 1] \in Nat
  <2>1. Len(s) \in Nat
    BY DEF Setting, Counted
  <2>2. c[i - 1] \in 0 .. Len(s) /\ sum[c[i - 1]] \in Nat
    BY <1>2, WithinLife
  <2>3. c[i] \in 0 .. Len(s) /\ sum[c[i]] \in Nat /\ sum[start - 1] \in Nat
    BY <1>2, WithinLife
  <2> QED
    BY <2>1, <2>2, <2>3
<1>7. CASE trades[i].price = o.quote
  <2>1. c[i] = c[i - 1] + 1 /\ s[c[i]] = trades[i] /\ c[i] \in 1 .. Len(s) /\ c[i] - 1 = c[i - 1]
    BY <1>5, <1>6, <1>7
  <2>2. sum[c[i]] = sum[c[i - 1]] + trades[i].qty
    BY <2>1 DEF Setting, Sums
  <2>3. TradedBy(c, sum, start, i) = TradedBy(c, sum, start, i - 1) + trades[i].qty
    BY <1>3, <1>6, <2>2 DEF TradedBy
  <2> QED
    BY <1>2, <1>3, <1>4, <1>7, <2>1, <2>3
<1>8. CASE trades[i].price # o.quote
  BY <1>2, <1>3, <1>4, <1>5, <1>8 DEF TradedBy
<1> QED
  BY <1>7, <1>8

\* The first fill has begun once more lots traded than were ahead of the order.
LEMMA FirstReached ==
    ASSUME NEW o, NEW trades, NEW s, NEW c, NEW sum, NEW begin, NEW end, NEW start, NEW stop, NEW through,
           Setting(o, trades, s, c, sum, begin, end, start, stop, through),
           NEW needed \in Nat \ {0}, NEW i \in begin - 1 .. end - 1
    PROVE  LET r == Crossing(sum, start, stop, needed)
           IN  /\ r \in start .. stop /\ start \in Nat \ {0} /\ stop \in Nat
               /\ r <= c[i] <=> TradedBy(c, sum, start, i) >= needed
               /\ r <= c[i] => r \in 1 .. Len(s) /\ r < stop /\ s[r].ordinal \in Nat \ {0}
<1> DEFINE r == Crossing(sum, start, stop, needed)
<1>1. s \in Seq(IndexedTrade) /\ Len(s) \in Nat /\ start \in 1 .. Len(s) + 1 /\ stop \in 1 .. Len(s) + 1
  BY DEF Setting, Counted
<1>2. start <= stop /\ c[i] \in start - 1 .. stop - 1 /\ c[i] \in 0 .. Len(s)
  BY WithinLife
<1>3. r \in start .. stop /\ \A k \in start - 1 .. stop - 1 : r <= k <=> sum[k] - sum[start - 1] >= needed
  <2>1. Sums(s, sum)
    BY DEF Setting
  <2> QED
    BY <1>1, <1>2, <2>1, CrossingFinds
<1> HIDE DEF r
<1>4. r <= c[i] <=> TradedBy(c, sum, start, i) >= needed
  BY <1>2, <1>3 DEF TradedBy
<1>5. r <= c[i] => r \in 1 .. Len(s) /\ r < stop
  BY <1>1, <1>2, <1>3
<1>6. r \in 1 .. Len(s) => s[r].ordinal \in Nat \ {0}
  BY <1>1, TradeTypes
<1> QED
  BY <1>1, <1>3, <1>4, <1>5, <1>6 DEF r

\* One more trade at the quote, while the order is not full.
LEMMA WatchedAtQuote ==
    ASSUME NEW o, NEW trades, NEW s, NEW c, NEW sum, NEW begin, NEW end, NEW start, NEW stop, NEW through,
           Setting(o, trades, s, c, sum, begin, end, start, stop, through),
           NEW w, WatchedBy(o, trades, w), NEW i \in begin .. end - 1, trades[i].price = o.quote,
           TradedBy(c, sum, start, i - 1) < o.queue + o.qty,
           NEW first, first = Crossing(sum, start, stop, o.queue + 1),
           w[i - 1] = Picture(o, TradedBy(c, sum, start, i - 1), c[i - 1] - (start - 1),
                              FirstBy(s, c, first, i - 1), 0)
    PROVE  LET V == TradedBy(c, sum, start, i)
           IN  w[i] = Picture(o, V, c[i] - (start - 1), FirstBy(s, c, first, i),
                             IF V >= o.queue + o.qty THEN trades[i].ordinal ELSE 0)
<1> DEFINE V == TradedBy(c, sum, start, i - 1)
           K == c[i - 1] - (start - 1)
           f == FirstBy(s, c, first, i - 1)
           t == trades[i]
<1>1. o \in Order /\ o.queue \in Nat /\ o.qty \in Nat \ {0}
  BY DEF Setting, Order
<1>2. /\ i \in 1 .. Len(trades) /\ i - 1 \in begin - 1 .. end - 1 /\ i \in begin - 1 .. end - 1
      /\ t \in IndexedTrade /\ t.ordinal \in Nat \ {0} /\ t.qty \in Nat \ {0}
      /\ o.placed < t.local /\ t.local < o.expires
      /\ c[i] = c[i - 1] + 1 /\ s[c[i]] = t
      /\ TradedBy(c, sum, start, i) = V + t.qty
  <2>1. i \in 1 .. Len(trades) /\ i - 1 \in begin - 1 .. end - 1
    BY NextTraded
  <2>2. t \in IndexedTrade /\ o.placed < t.local /\ t.local < o.expires
    BY NextTraded
  <2>3. c[i] = c[i - 1] + 1 /\ s[c[i]] = t /\ TradedBy(c, sum, start, i) = V + t.qty
    BY NextTraded
  <2>4. begin \in Nat /\ i \in begin - 1 .. end - 1
    BY DEF Setting, InOrder
  <2> QED
    BY <2>1, <2>2, <2>3, <2>4 DEF IndexedTrade
<1>3. V \in Nat /\ K \in Nat /\ c[i - 1] \in Nat /\ start \in Nat
  <2>1. V \in Nat /\ c[i - 1] \in start - 1 .. stop - 1 /\ c[i - 1] \in 0 .. Len(s)
    BY <1>2, WithinLife
  <2>2. start \in Nat /\ Len(s) \in Nat
    BY DEF Setting, Counted
  <2> QED
    BY <2>1, <2>2
<1>4. o.queue + 1 \in Nat \ {0}
  BY <1>1
<1>5. /\ first \in Nat
      /\ first <= c[i - 1] <=> V >= o.queue + 1
      /\ first <= c[i - 1] => s[first].ordinal \in Nat \ {0}
  <2> DEFINE j == i - 1
             need == o.queue + 1
  <2>1. j \in begin - 1 .. end - 1 /\ need \in Nat \ {0} /\ first = Crossing(sum, start, stop, need)
    BY <1>2, <1>4
  <2> HIDE DEF V, j, need
  <2>2. first \in start .. stop /\ start \in Nat /\ stop \in Nat
    BY <2>1, FirstReached
  <2>3. first <= c[j] <=> TradedBy(c, sum, start, j) >= need
    BY <2>1, FirstReached
  <2>4. first <= c[j] => s[first].ordinal \in Nat \ {0}
    BY <2>1, FirstReached
  <2> QED
    BY <2>2, <2>3, <2>4 DEF V, j, need
<1>6. first <= c[i] <=> V + t.qty >= o.queue + 1
  <2>1. first <= c[i] <=> TradedBy(c, sum, start, i) >= o.queue + 1
    <3> DEFINE need == o.queue + 1
    <3>1. i \in begin - 1 .. end - 1 /\ need \in Nat \ {0} /\ first = Crossing(sum, start, stop, need)
      BY <1>2, <1>4
    <3> HIDE DEF V, need
    <3>2. first <= c[i] <=> TradedBy(c, sum, start, i) >= need
      BY <3>1, FirstReached
    <3> QED
      BY <3>2 DEF need
  <2> QED
    BY <1>2, <2>1
<1>7. f \in Nat /\ (f = 0 <=> V <= o.queue)
  BY <1>1, <1>3, <1>5 DEF FirstBy
<1>8. w[i] = Watch(o, w[i - 1], t)
  <2>1. w[i - 1].full_fill = 0
    BY DEF Picture
  <2>2. Meets(o, t)
    BY <1>2 DEF Meets
  <2> QED
    BY <1>2, <2>1, <2>2 DEF WatchedBy
<1>9. w[i - 1] = Picture(o, V, K, f, 0)
  OBVIOUS
<1>10. FirstBy(s, c, first, i)
       = IF V + t.qty <= o.queue THEN 0 ELSE IF f = 0 THEN t.ordinal ELSE f
  <2>1. f = IF first <= c[i - 1] THEN s[first].ordinal ELSE 0
    BY DEF FirstBy
  <2>2. V + t.qty > V /\ V \in Nat /\ t.qty \in Nat /\ o.queue \in Nat
    BY <1>1, <1>2, <1>3
  <2>3. c[i] = c[i - 1] + 1 /\ c[i - 1] \in Nat /\ first \in Nat
    BY <1>2, <1>3, <1>5
  <2> HIDE DEF V, f, t
  <2>4. CASE ~(first <= c[i])
    <3>1. V + t.qty <= o.queue
      BY <1>6, <2>2, <2>4
    <3> QED
      BY <2>4, <3>1 DEF FirstBy
  <2>5. CASE first <= c[i] /\ ~(first <= c[i - 1])
    <3>1. first = c[i] /\ ~(V + t.qty <= o.queue) /\ f = 0
      BY <1>6, <2>1, <2>2, <2>3, <2>5
    <3> QED
      BY <1>2, <2>5, <3>1 DEF FirstBy
  <2>6. CASE first <= c[i] /\ first <= c[i - 1]
    <3>1. ~(V + t.qty <= o.queue)
      BY <1>6, <2>2, <2>6
    <3>2. f = s[first].ordinal /\ f # 0
      BY <1>5, <2>1, <2>6
    <3> QED
      BY <2>6, <3>1, <3>2 DEF FirstBy
  <2> QED
    BY <2>4, <2>5, <2>6
<1>11. c[i] - (start - 1) = K + 1
  BY <1>2, <1>3
<1>12. w[i] = Watch(o, Picture(o, V, K, f, 0), t)
  BY <1>8, <1>9
<1>13. t.price = o.quote /\ V < o.queue + o.qty /\ trades[i] = t
  OBVIOUS
<1> HIDE DEF V, K, f, t
<1>14. Watch(o, Picture(o, V, K, f, 0), t)
       = Picture(o, V + t.qty, K + 1,
                 IF V + t.qty <= o.queue THEN 0 ELSE IF f = 0 THEN t.ordinal ELSE f,
                 IF V + t.qty >= o.queue + o.qty THEN t.ordinal ELSE 0)
  <2>1. t \in IndexedTrade /\ t.price = o.quote /\ V \in Nat /\ K \in Nat /\ f \in Nat
    BY <1>2, <1>3, <1>7, <1>13
  <2>2. (f = 0 <=> V <= o.queue) /\ V < o.queue + o.qty
    BY <1>7, <1>13
  <2> QED
    BY <1>1, <2>1, <2>2, WatchQuote
<1> QED
  BY <1>2, <1>10, <1>11, <1>12, <1>13, <1>14

\* Nothing more happens to an order that is full, or that no later trade meets.
LEMMA WatchEnds ==
    ASSUME NEW o, NEW trades, Len(trades) \in Nat, NEW w, WatchedBy(o, trades, w),
           NEW m \in 0 .. Len(trades),
           \A i \in m + 1 .. Len(trades) : w[m].full_fill # 0 \/ ~Meets(o, trades[i])
    PROVE  w[Len(trades)] = w[m]
<1> DEFINE N == Len(trades)
           U == {k \in Nat : m + k <= N => w[m + k] = w[m]}
<1>1. 0 \in U
  OBVIOUS
<1>2. ASSUME NEW k \in Nat, k \in U PROVE k + 1 \in U
  <2>1. CASE m + (k + 1) <= N
    <3>1. m + (k + 1) \in m + 1 .. N /\ (m + (k + 1)) - 1 = m + k /\ m + (k + 1) \in 1 .. N
      BY <2>1
    <3>2. w[m + k] = w[m]
      BY <1>2, <2>1
    <3>3. w[m].full_fill # 0 \/ ~Meets(o, trades[m + (k + 1)])
      BY <3>1
    <3> QED
      BY <3>1, <3>2, <3>3 DEF WatchedBy
  <2> QED
    BY <2>1
<1>3. Nat \subseteq U
  <2> HIDE DEF U
  <2> QED
    BY <1>1, <1>2, NumbersInduct
<1>4. N - m \in U /\ m + (N - m) = N
  BY <1>3
<1> QED
  BY <1>4

\* An order that is full stays as it is.
LEMMA FullStays ==
    ASSUME NEW o, NEW trades, Len(trades) \in Nat, NEW w, WatchedBy(o, trades, w),
           NEW m \in 0 .. Len(trades), w[m].full_fill # 0
    PROVE  w[Len(trades)] = w[m]
<1>1. \A i \in m + 1 .. Len(trades) : w[m].full_fill # 0 \/ ~Meets(o, trades[i])
  OBVIOUS
<1> QED
  BY <1>1, WatchEnds

\* What is watched of the order, up to trade i.
Pictured(o, s, c, sum, start, first, w, i) ==
    w[i] = Picture(o, TradedBy(c, sum, start, i), c[i] - (start - 1), FirstBy(s, c, first, i), 0)

\* Where the first trade through the quote is.
LEMMA ThroughType ==
    ASSUME NEW o, NEW trades, NEW s, NEW c, NEW sum, NEW begin, NEW end, NEW start, NEW stop, NEW through,
           Setting(o, trades, s, c, sum, begin, end, start, stop, through)
    PROVE  /\ begin \in 1 .. Len(trades) + 1 /\ end \in 1 .. Len(trades) + 1 /\ begin <= end
           /\ Len(trades) \in Nat /\ through \in 1 .. Len(trades) + 1
           /\ through <= Len(trades) =>
                 through \in begin .. end - 1 /\ Beyond(o.side, trades[through].price, o.quote)
           /\ \A i \in begin .. end - 1 : Beyond(o.side, trades[i].price, o.quote) => through <= i
<1> DEFINE N == Len(trades)
           X == BeyondIn(o.side, trades, o.quote, begin, end)
<1>1. begin \in 1 .. N + 1 /\ end \in 1 .. N + 1 /\ begin <= end /\ N \in Nat /\ FirstOf(through, X, N + 1)
  BY DEF Setting, InOrder
<1>2. \A i \in X : i \in 1 .. N /\ i \in begin .. end - 1 /\ Beyond(o.side, trades[i].price, o.quote)
  BY <1>1 DEF BeyondIn
<1>3. \A i \in begin .. end - 1 : Beyond(o.side, trades[i].price, o.quote) => i \in X
  BY <1>1 DEF BeyondIn
<1> HIDE DEF X, N
<1> QED
  BY <1>1, <1>2, <1>3 DEF FirstOf, N

\* As long as the order is not full, the picture is that of the running sums.
LEMMA WatchedInLife ==
    ASSUME NEW o, NEW trades, NEW s, NEW c, NEW sum, NEW begin, NEW end, NEW start, NEW stop, NEW through,
           Setting(o, trades, s, c, sum, begin, end, start, stop, through),
           NEW w, WatchedBy(o, trades, w), NEW first, first = Crossing(sum, start, stop, o.queue + 1),
           NEW i \in begin - 1 .. end - 1, i < through, TradedBy(c, sum, start, i) < o.queue + o.qty
    PROVE  Pictured(o, s, c, sum, start, first, w, i)
<1> DEFINE N == Len(trades)
           Until(j) == j < through /\ TradedBy(c, sum, start, j) < o.queue + o.qty
           P(j) == Pictured(o, s, c, sum, start, first, w, j)
<1>1. /\ begin \in 1 .. N + 1 /\ end \in 1 .. N + 1 /\ begin <= end
      /\ N \in Nat /\ through \in 1 .. N + 1
      /\ \A j \in begin .. end - 1 : Beyond(o.side, trades[j].price, o.quote) => through <= j
  <2> HIDE DEF N
  <2>1. /\ begin \in 1 .. Len(trades) + 1 /\ end \in 1 .. Len(trades) + 1 /\ begin <= end
        /\ Len(trades) \in Nat /\ through \in 1 .. Len(trades) + 1
    BY ThroughType
  <2>2. \A j \in begin .. end - 1 : Beyond(o.side, trades[j].price, o.quote) => through <= j
    BY ThroughType
  <2> QED
    BY <2>1, <2>2 DEF N
<1>2. o \in Order /\ o.queue \in Nat /\ o.qty \in Nat \ {0} /\ o.queue + 1 \in Nat \ {0}
  <2>1. o \in Order
    BY DEF Setting
  <2>2. o.queue \in Nat /\ o.qty \in Nat \ {0}
    BY <2>1 DEF Order
  <2> QED
    BY <2>1, <2>2
<1> HIDE DEF N
<1>3. P(begin - 1)
  <2> DEFINE U == {j \in Nat : j <= begin - 1 => w[j] = NewOrder}
  <2>1. 0 \in U
    BY DEF WatchedBy
  <2>2. ASSUME NEW j \in Nat, j \in U PROVE j + 1 \in U
    <3>1. CASE j + 1 <= begin - 1
      <4>1. j + 1 \in 1 .. N /\ (j + 1) - 1 = j /\ ~(begin <= j + 1) /\ w[j] = NewOrder
        BY <1>1, <2>2, <3>1
      <4>2. ~Meets(o, trades[j + 1])
        BY <4>1 DEF Meets, Setting, N
      <4> QED
        BY <4>1, <4>2 DEF WatchedBy, N
    <3> QED
      BY <3>1
  <2>3. Nat \subseteq U
    <3> HIDE DEF U
    <3> QED
      BY <2>1, <2>2, NumbersInduct
  <2>4. w[begin - 1] = NewOrder
    BY <1>1, <2>3
  <2>5. begin - 1 \in begin - 1 .. end - 1 /\ c[begin - 1] = start - 1 /\ start \in Nat
    BY <1>1 DEF Setting, Counted
  <2>6. TradedBy(c, sum, start, begin - 1) = 0
    <3> DEFINE j == begin - 1
    <3>1. j \in begin - 1 .. end - 1 /\ c[j] = start - 1
      BY <2>5
    <3> HIDE DEF j
    <3>2. TradedBy(c, sum, start, j) = 0
      BY <3>1, WithinLife
    <3> QED
      BY <3>2 DEF j
  <2>7. FirstBy(s, c, first, begin - 1) = 0
    <3>1. first \in start .. stop
      BY <1>2, <2>5, FirstReached
    <3>2. ~(first <= start - 1)
      BY <2>5, <3>1
    <3> QED
      BY <2>5, <3>2 DEF FirstBy
  <2>8. c[begin - 1] - (start - 1) = 0
    BY <2>5
  <2>9. NewOrder = Picture(o, 0, 0, 0, 0)
    <3>1. Filled(0, o.queue, o.qty) = 0 /\ (IF 0 > o.queue THEN o.queue ELSE 0) = 0
      BY <1>2 DEF Filled
    <3> QED
      BY <3>1 DEF NewOrder, Picture
  <2> QED
    BY <2>4, <2>6, <2>7, <2>8, <2>9 DEF Pictured
<1>4. ASSUME NEW j \in begin .. end - 1, Until(j), Until(j - 1) => P(j - 1)
      PROVE  P(j)
  <2> DEFINE V == TradedBy(c, sum, start, j)
             V0 == TradedBy(c, sum, start, j - 1)
  <2>1. /\ j \in 1 .. N /\ j - 1 \in begin - 1 .. end - 1 /\ trades[j] \in IndexedTrade
        /\ trades[j].price = o.quote => V = V0 + trades[j].qty
        /\ trades[j].price # o.quote => c[j] = c[j - 1] /\ V = V0
    <3>1. j \in 1 .. N /\ j - 1 \in begin - 1 .. end - 1 /\ trades[j] \in IndexedTrade
      BY NextTraded DEF N
    <3>2. trades[j].price = o.quote => V = V0 + trades[j].qty
      BY NextTraded
    <3>3. trades[j].price # o.quote => c[j] = c[j - 1] /\ V = V0
      BY NextTraded
    <3> QED
      BY <3>1, <3>2, <3>3
  <2>2. V0 \in Nat /\ trades[j].qty \in Nat
    <3>1. \A m \in begin - 1 .. end - 1 : TradedBy(c, sum, start, m) \in Nat
      BY WithinLife
    <3> QED
      BY <2>1, <3>1 DEF IndexedTrade
  <2> HIDE DEF P
  <2>3. Until(j - 1) /\ P(j - 1)
    <3>1. V0 < o.queue + o.qty
      <4> HIDE DEF V, V0
      <4>1. V < o.queue + o.qty
        BY <1>4 DEF V
      <4> QED
        BY <1>2, <2>1, <2>2, <4>1
    <3>2. j - 1 < through
      BY <1>1, <1>4
    <3> QED
      BY <1>4, <3>1, <3>2
  <2>4. CASE trades[j].price = o.quote
    <3>1. w[j] = Picture(o, V, c[j] - (start - 1), FirstBy(s, c, first, j),
                         IF V >= o.queue + o.qty THEN trades[j].ordinal ELSE 0)
      BY <2>3, <2>4, WatchedAtQuote DEF P, Pictured
    <3>2. ~(V >= o.queue + o.qty)
      <4> HIDE DEF V, V0
      <4>1. V < o.queue + o.qty /\ V \in Nat
        BY <1>4, <2>1, <2>2, <2>4 DEF V
      <4> QED
        BY <1>2, <4>1
    <3> QED
      BY <3>1, <3>2 DEF P, Pictured
  <2>5. CASE trades[j].price # o.quote
    <3>1. ~Beyond(o.side, trades[j].price, o.quote)
      BY <1>1, <1>4
    <3>2. ~Meets(o, trades[j])
      BY <2>5, <3>1 DEF Meets
    <3>3. w[j] = w[j - 1]
      BY <2>1, <3>2 DEF WatchedBy, N
    <3>4. FirstBy(s, c, first, j) = FirstBy(s, c, first, j - 1) /\ V = V0 /\ c[j] = c[j - 1]
      BY <2>1, <2>5 DEF FirstBy
    <3> QED
      BY <2>3, <3>3, <3>4 DEF P, Pictured
  <2> QED
    BY <2>4, <2>5
<1> DEFINE G == {j \in begin - 1 .. end - 1 : Until(j) => P(j)}
           a == begin - 1
<1> HIDE DEF P, Until
<1>5. a \in G /\ a \in Nat /\ end \in Nat
  BY <1>1, <1>3
<1>6. \A j \in begin .. end - 1 : j - 1 \in G => j \in G
  <2> TAKE j \in begin .. end - 1
  <2>1. j \in begin - 1 .. end - 1
    BY <1>1
  <2> QED
    BY <1>4, <2>1
<1> HIDE DEF G
<1> DEFINE U == {k \in Nat : a + k <= end - 1 => a + k \in G}
<1>7. ASSUME NEW k \in Nat, k \in U PROVE k + 1 \in U
  <2>1. CASE a + (k + 1) <= end - 1
    <3>1. a + (k + 1) \in begin .. end - 1 /\ (a + (k + 1)) - 1 = a + k /\ a + k <= end - 1
      BY <1>1, <1>5, <2>1
    <3>2. a + k \in G
      BY <1>7, <3>1
    <3> HIDE DEF a
    <3>3. a + (k + 1) \in G
      BY <1>6, <3>1, <3>2
    <3> QED
      BY <3>3
  <2> QED
    BY <2>1
<1>8. Nat \subseteq U
  <2>1. 0 \in U
    <3> HIDE DEF a
    <3> QED
      BY <1>5
  <2> HIDE DEF U
  <2> QED
    BY <1>7, <2>1, NumbersInduct
<1>9. i - a \in Nat /\ a + (i - a) = i /\ i <= end - 1
  BY <1>1
<1> HIDE DEF a
<1>10. i \in G
  BY <1>8, <1>9
<1>11. P(i)
  BY <1>10 DEF G, Until
<1> QED
  BY <1>11 DEF P

-------------------------------------------------------------------------------
(* PassiveTradeIndex. The answer, in each of its three cases. *)

\* The searches are those of evaluate_side.
Asked(o, trades, s, sum, start, stop, through) ==
    /\ s = Exact(trades, o.quote) /\ sum = PrefixQuantities(s)
    /\ start = UpperLocal(s, o.placed) /\ stop = LowerLocal(s, o.expires)
    /\ through = FirstThrough(o.side, trades, Tree(o.side, trades), UpperLocal(trades, o.placed),
                              LowerLocal(trades, o.expires), o.quote)

\* The answer, from what the searches found.
LEMMA AnswerIs ==
    ASSUME NEW o, NEW trades, NEW s, NEW sum, NEW start, NEW stop, NEW through,
           Asked(o, trades, s, sum, start, stop, through),
           NEW first, first = Crossing(sum, start, stop, o.queue + 1),
           NEW full, full = Crossing(sum, start, stop, o.queue + o.qty),
           NEW by, by = (through <= Len(trades) /\ (full < stop => Earlier(trades[through], s[full]))),
           NEW last, last = EffectiveEnd(s, start, stop, full, trades[through], by),
           NEW traded, traded = sum[last - 1] - sum[start - 1],
           NEW filled, filled = IF by THEN o.qty ELSE Filled(traded, o.queue, o.qty)
    PROVE  EvaluateSide(o, trades, Tree(o.side, trades))
           = [state |-> StateOf(filled, o.qty),
              filled |-> filled,
              same_price_traded |-> traded,
              queue_consumed |-> IF by \/ traded > o.queue THEN o.queue ELSE traded,
              qualifying |-> last - start + (IF by THEN 1 ELSE 0),
              first_fill |-> IF through <= Len(trades) /\ (first < stop => Earlier(trades[through], s[first]))
                             THEN trades[through].ordinal
                             ELSE IF first < stop THEN s[first].ordinal ELSE 0,
              full_fill |-> IF by THEN trades[through].ordinal
                            ELSE IF full < stop THEN s[full].ordinal ELSE 0,
              by_through |-> by]
BY Zenon DEF EvaluateSide, Asked

\* A trade at the quote comes before another trade when it is counted before.
LEMMA CountOrder ==
    ASSUME NEW o, NEW trades, NEW s, NEW c, NEW sum, NEW begin, NEW end, NEW start, NEW stop, NEW through,
           Setting(o, trades, s, c, sum, begin, end, start, stop, through),
           NEW k \in 1 .. Len(s), NEW i \in 1 .. Len(trades)
    PROVE  /\ Earlier(trades[i], s[k]) <=> c[i] < k
           /\ trades[i].price # o.quote => (Earlier(s[k], trades[i]) <=> k <= c[i])
<1> DEFINE N == Len(trades)
<1>1. trades \in Seq(IndexedTrade) /\ InOrder(trades) /\ N \in Nat /\ c \in [0 .. N -> Nat]
  <2>1. InOrder(trades) /\ Counted(trades, o.quote, s, c)
    BY DEF Setting
  <2>2. trades \in Seq(IndexedTrade)
    BY <2>1 DEF InOrder
  <2>3. c \in [0 .. N -> Nat]
    BY <2>1 DEF Counted
  <2> QED
    BY <2>1, <2>2, <2>3
<1>2. PICK j \in 1 .. N : trades[j].price = o.quote /\ c[j] = k
  <2>1. Counted(trades, o.quote, s, c) /\ k \in 1 .. Len(s)
    BY DEF Setting
  <2> HIDE DEF N
  <2>2. ReachesAll(trades, o.quote, s, c)
    BY <1>1, <2>1, CountGrows
  <2> QED
    BY <2>1, <2>2 DEF N, ReachesAll
<1>3. s[k] = trades[j]
  BY <1>2 DEF Setting, Counted
<1>4. Earlier(trades[i], s[k]) <=> i < j
  BY <1>1, <1>3, EarlierIsBefore
<1>5. Earlier(s[k], trades[i]) <=> j < i
  BY <1>1, <1>3, EarlierIsBefore
<1>6. \A x, y \in 0 .. N : x <= y => c[x] <= c[y]
  BY <1>1, CountGrows DEF Setting
<1> HIDE DEF N
<1>7. j - 1 \in 0 .. N /\ j \in 0 .. N /\ i \in 0 .. N /\ j \in Nat /\ i \in Nat /\ k \in Nat
  BY <1>1 DEF Setting, Counted
<1>8. c[j] = c[j - 1] + 1 /\ c[j - 1] \in Nat /\ c[i] \in Nat
  BY <1>1, <1>2, <1>7 DEF Setting, Counted, N
<1>9. i < j => c[i] <= c[j - 1]
  BY <1>6, <1>7
<1>10. j <= i => c[j] <= c[i]
  BY <1>6, <1>7
<1>11. Earlier(trades[i], s[k]) <=> c[i] < k
  BY <1>2, <1>4, <1>7, <1>8, <1>9, <1>10
<1>12. trades[i].price # o.quote => i # j
  BY <1>2
<1>13. trades[i].price # o.quote => (Earlier(s[k], trades[i]) <=> k <= c[i])
  BY <1>2, <1>5, <1>7, <1>8, <1>9, <1>10, <1>12
<1> QED
  BY <1>11, <1>13

\* The end of the life of the order.
LEMMA LifeEnds ==
    ASSUME NEW o, NEW trades, NEW s, NEW c, NEW sum, NEW begin, NEW end, NEW start, NEW stop, NEW through,
           Setting(o, trades, s, c, sum, begin, end, start, stop, through),
           NEW w, WatchedBy(o, trades, w)
    PROVE  w[Len(trades)] = w[end - 1]
<1> DEFINE N == Len(trades)
           m == end - 1
<1>1. N \in Nat /\ m \in 0 .. N /\ begin \in Nat /\ end = m + 1
  BY DEF Setting, InOrder
<1>2. ASSUME NEW i \in m + 1 .. N PROVE ~Meets(o, trades[i])
  <2>1. i \in 1 .. N /\ ~(i < end)
    BY <1>1
  <2> QED
    BY <2>1 DEF Meets, Setting
<1> HIDE DEF m
<1>3. w[N] = w[m]
  BY <1>1, <1>2, WatchEnds
<1> QED
  BY <1>3 DEF m

\* Setting the state of an order leaves the rest of it alone.
LEMMA StateSet ==
    ASSUME NEW w, NEW x, NEW q, NEW f, NEW v, NEW k, NEW first, NEW full, NEW by, NEW y,
           w = [state |-> x, queue_consumed |-> q, filled |-> f, same_price_traded |-> v,
                qualifying |-> k, first_fill |-> first, full_fill |-> full, by_through |-> by]
    PROVE  [w EXCEPT !.state = y]
           = [state |-> y, queue_consumed |-> q, filled |-> f, same_price_traded |-> v,
              qualifying |-> k, first_fill |-> first, full_fill |-> full, by_through |-> by]
  OBVIOUS

\* What is answered of an order, from what was watched of it.
Answered(o, w) == [w EXCEPT !.state = StateOf(w.filled, o.qty)]

\* The order is filled by a trade through its quote.
LEMMA FilledThrough ==
    ASSUME NEW o, NEW trades, NEW s, NEW c, NEW sum, NEW begin, NEW end, NEW start, NEW stop, NEW through,
           Setting(o, trades, s, c, sum, begin, end, start, stop, through),
           Asked(o, trades, s, sum, start, stop, through),
           NEW w, WatchedBy(o, trades, w),
           through <= Len(trades), TradedBy(c, sum, start, through) < o.queue + o.qty
    PROVE  EvaluateSide(o, trades, Tree(o.side, trades))
           = Answered(o, w[Len(trades)])
<1> DEFINE N == Len(trades)
           t == trades[through]
           V == TradedBy(c, sum, start, through)
           K == c[through] - (start - 1)
           first == Crossing(sum, start, stop, o.queue + 1)
           full == Crossing(sum, start, stop, o.queue + o.qty)
           by == through <= Len(trades) /\ (full < stop => Earlier(trades[through], s[full]))
           last == EffectiveEnd(s, start, stop, full, trades[through], by)
           traded == sum[last - 1] - sum[start - 1]
           filled == IF by THEN o.qty ELSE Filled(traded, o.queue, o.qty)
           f == FirstBy(s, c, first, through)
<1>1. /\ N \in Nat /\ through \in 1 .. N /\ through \in begin .. end - 1 /\ begin \in 1 .. N + 1
      /\ end \in 1 .. N + 1 /\ Beyond(o.side, t.price, o.quote)
  BY ThroughType
<1>2. o \in Order /\ o.side \in Side /\ o.quote \in Int /\ o.queue \in Nat /\ o.qty \in Nat \ {0}
      /\ o.queue + 1 \in Nat \ {0} /\ o.queue + o.qty \in Nat \ {0}
  <2>1. o \in Order /\ o.side \in Side /\ o.quote \in Int /\ o.queue \in Nat /\ o.qty \in Nat \ {0}
    BY DEF Setting, Order
  <2> QED
    BY <2>1
<1>3. t \in IndexedTrade /\ t.ordinal \in Nat \ {0} /\ t.price # o.quote
      /\ o.placed < t.local /\ t.local < o.expires
  <2>1. t \in IndexedTrade /\ o.placed < t.local /\ t.local < o.expires
    BY <1>1, NextTraded
  <2>2. Beyond(o.side, t.price, o.quote)
    BY <1>1
  <2> HIDE DEF t
  <2>3. t.ordinal \in Nat \ {0} /\ t.price \in Int
    BY <2>1 DEF IndexedTrade
  <2>4. t.price # o.quote
    BY <1>2, <2>2, <2>3 DEF Beyond
  <2> QED
    BY <2>1, <2>3, <2>4
<1>4. /\ through - 1 \in begin - 1 .. end - 1 /\ through \in begin - 1 .. end - 1
      /\ c[through] = c[through - 1] /\ V = TradedBy(c, sum, start, through - 1)
  <2>1. through - 1 \in begin - 1 .. end - 1 /\ c[through] = c[through - 1]
        /\ V = TradedBy(c, sum, start, through - 1)
    BY <1>1, <1>3, NextTraded
  <2> QED
    BY <1>1, <2>1
<1>5. /\ c[through] \in start - 1 .. stop - 1 /\ start <= stop /\ c[through] \in 0 .. Len(s) /\ Len(s) \in Nat
      /\ start \in 1 .. Len(s) + 1 /\ stop \in 1 .. Len(s) + 1
  <2>1. c[through] \in start - 1 .. stop - 1 /\ start <= stop /\ c[through] \in 0 .. Len(s)
    BY <1>4, WithinLife
  <2> QED
    BY <2>1 DEF Setting, Counted
<1>6. /\ first \in start .. stop
      /\ first <= c[through] => s[first].ordinal \in Nat \ {0}
  <2> DEFINE need == o.queue + 1
  <2>1. need \in Nat \ {0} /\ first = Crossing(sum, start, stop, need)
    BY <1>2
  <2> HIDE DEF need, first
  <2>2. first \in start .. stop
    BY <1>4, <2>1, FirstReached
  <2>3. first <= c[through] => s[first].ordinal \in Nat \ {0}
    BY <1>4, <2>1, FirstReached
  <2> QED
    BY <2>2, <2>3
<1>7. full \in start .. stop /\ ~(full <= c[through])
  <2> DEFINE need == o.queue + o.qty
  <2>5. need \in Nat \ {0} /\ full = Crossing(sum, start, stop, need)
    BY <1>2
  <2> HIDE DEF need
  <2>1. full \in start .. stop
    <3> HIDE DEF full
    <3> QED
      BY <1>4, <2>5, FirstReached
  <2>2. full <= c[through] <=> V >= o.queue + o.qty
    <3> HIDE DEF full
    <3>1. full <= c[through] <=> TradedBy(c, sum, start, through) >= need
      BY <1>4, <2>5, FirstReached
    <3> QED
      BY <3>1 DEF need
  <2>3. V \in Nat
    BY <1>4, WithinLife
  <2> HIDE DEF V, full
  <2>4. V < o.queue + o.qty
    BY DEF V
  <2> QED
    BY <1>2, <2>1, <2>2, <2>3, <2>4
<1> HIDE DEF first, full, N
<1>8. \A k \in start .. stop - 1 : /\ Earlier(t, s[k]) <=> c[through] < k
                                   /\ Earlier(s[k], t) <=> k <= c[through]
  <2> TAKE k \in start .. stop - 1
  <2>1. k \in 1 .. Len(s)
    BY <1>5
  <2> QED
    BY <1>1, <1>3, <2>1, CountOrder DEF N
<1>9. by = TRUE
  <2>1. full < stop => full \in start .. stop - 1 /\ c[through] < full
    BY <1>5, <1>7
  <2> QED
    BY <1>8, <2>1
<1>10. last = c[through] + 1
  <2> DEFINE e == c[through] + 1
  <2>1. e \in start .. stop /\ start \in Nat /\ stop \in Nat /\ \A k \in start .. stop - 1 : k <= c[through] <=> k < e
    BY <1>5
  <2> HIDE DEF e, t
  <2>2. EffectiveEnd(s, start, stop, full, t, TRUE) = e
    BY <1>8, <2>1, ThroughEnd
  <2> QED
    BY <1>9, <2>2 DEF e, t
<1>11. traded = V /\ last - start = K /\ last - start + 1 = K + 1
  <2>1. last - 1 = c[through]
    BY <1>5, <1>10
  <2> HIDE DEF last
  <2> QED
    BY <1>5, <1>10, <2>1 DEF TradedBy
<1>12. filled = o.qty
  BY <1>9
<1>13. (IF through <= Len(trades) /\ (first < stop => Earlier(trades[through], s[first]))
        THEN trades[through].ordinal
        ELSE IF first < stop THEN s[first].ordinal ELSE 0)
       = IF f = 0 THEN t.ordinal ELSE f
  <2>1. CASE first <= c[through]
    <3>1. first \in start .. stop - 1 /\ ~(c[through] < first)
      BY <1>5, <1>6, <2>1
    <3>2. f = s[first].ordinal /\ f # 0
      BY <1>6, <2>1 DEF FirstBy
    <3>3. first < stop /\ ~Earlier(t, s[first])
      BY <1>5, <1>8, <3>1
    <3> HIDE DEF f
    <3> QED
      BY <3>2, <3>3
  <2>2. CASE ~(first <= c[through])
    <3>1. first < stop => first \in start .. stop - 1 /\ c[through] < first
      BY <1>5, <1>6, <2>2
    <3>2. f = 0
      BY <2>2 DEF FirstBy
    <3> QED
      BY <1>1, <1>8, <3>1, <3>2 DEF N
  <2> QED
    BY <2>1, <2>2
<1> DEFINE Equations == /\ first = Crossing(sum, start, stop, o.queue + 1)
                        /\ full = Crossing(sum, start, stop, o.queue + o.qty)
                        /\ by = (through <= Len(trades) /\ (full < stop => Earlier(trades[through], s[full])))
                        /\ last = EffectiveEnd(s, start, stop, full, trades[through], by)
                        /\ traded = sum[last - 1] - sum[start - 1]
                        /\ filled = IF by THEN o.qty ELSE Filled(traded, o.queue, o.qty)
<1>20. Equations
  BY DEF first, full
<1> HIDE DEF by, last, traded, filled, t, V, K, f
<1>14. EvaluateSide(o, trades, Tree(o.side, trades))
       = [state |-> StateOf(filled, o.qty),
              filled |-> filled,
              same_price_traded |-> traded,
              queue_consumed |-> IF by \/ traded > o.queue THEN o.queue ELSE traded,
              qualifying |-> last - start + (IF by THEN 1 ELSE 0),
              first_fill |-> IF through <= Len(trades) /\ (first < stop => Earlier(trades[through], s[first]))
                             THEN trades[through].ordinal
                             ELSE IF first < stop THEN s[first].ordinal ELSE 0,
              full_fill |-> IF by THEN trades[through].ordinal
                            ELSE IF full < stop THEN s[full].ordinal ELSE 0,
              by_through |-> by]
  BY <1>20, AnswerIs
<1>15. EvaluateSide(o, trades, Tree(o.side, trades))
       = [state |-> StateOf(o.qty, o.qty), filled |-> o.qty, same_price_traded |-> V,
          queue_consumed |-> o.queue, qualifying |-> K + 1, first_fill |-> IF f = 0 THEN t.ordinal ELSE f,
          full_fill |-> t.ordinal, by_through |-> TRUE]
  <2> QED
    BY <1>9, <1>11, <1>12, <1>13, <1>14 DEF t
<1> USE DEF V, K, f, t
<1>16. w[through] = [state |-> "unfilled", queue_consumed |-> o.queue, filled |-> o.qty, same_price_traded |-> V,
                     qualifying |-> K + 1, first_fill |-> IF f = 0 THEN t.ordinal ELSE f,
                     full_fill |-> t.ordinal, by_through |-> TRUE]
  <2>1. Pictured(o, s, c, sum, start, first, w, through - 1)
    <3> DEFINE i == through - 1
    <3>1. i \in begin - 1 .. end - 1 /\ i < through /\ TradedBy(c, sum, start, i) < o.queue + o.qty
      BY <1>1, <1>4
    <3> HIDE DEF i
    <3>2. Pictured(o, s, c, sum, start, first, w, i)
      BY <3>1, WatchedInLife DEF first
    <3> QED
      BY <3>2 DEF i
  <2>2. FirstBy(s, c, first, through - 1) = f
    BY <1>4 DEF FirstBy
  <2>3. w[through - 1] = Picture(o, V, K, f, 0)
    BY <1>4, <2>1, <2>2 DEF Pictured
  <2>4. w[through] = Watch(o, w[through - 1], t)
    <3>1. w[through - 1].full_fill = 0 /\ Meets(o, t)
      BY <1>1, <1>3, <2>3 DEF Meets, Picture
    <3> QED
      BY <1>1, <3>1 DEF WatchedBy, N
  <2> HIDE DEF V, K, f, t
  <2>5. Beyond(o.side, t.price, o.quote)
    BY <1>1
  <2> QED
    BY <1>2, <1>3, <2>3, <2>4, <2>5, WatchBeyond
<1>17. w[N] = w[through]
  <2>1. w[through].full_fill # 0
    <3> HIDE DEF V, K, f, t
    <3> QED
      BY <1>3, <1>16
  <2>2. through \in 0 .. N
    BY <1>1
  <2> QED
    BY <1>1, <2>1, <2>2, WatchEnds DEF N
<1> DEFINE state == StateOf(o.qty, o.qty)
<1> HIDE DEF V, K, f, t, state
<1>18. w[N].filled = o.qty
  BY <1>16, <1>17
<1>19. [w[N] EXCEPT !.state = state]
       = [state |-> state, queue_consumed |-> o.queue, filled |-> o.qty, same_price_traded |-> V,
          qualifying |-> K + 1, first_fill |-> IF f = 0 THEN t.ordinal ELSE f,
          full_fill |-> t.ordinal, by_through |-> TRUE]
  <2> DEFINE ff == IF f = 0 THEN t.ordinal ELSE f
             k == K + 1
             u == w[N]
             queue == o.queue
             qty == o.qty
             ordinal == t.ordinal
             yes == TRUE
  <2>1. u = [state |-> "unfilled", queue_consumed |-> queue, filled |-> qty, same_price_traded |-> V,
             qualifying |-> k, first_fill |-> ff, full_fill |-> ordinal, by_through |-> yes]
    BY <1>16, <1>17
  <2> HIDE DEF ff, k, u, queue, qty, ordinal, yes
  <2>2. [u EXCEPT !.state = state]
        = [state |-> state, queue_consumed |-> queue, filled |-> qty, same_price_traded |-> V,
           qualifying |-> k, first_fill |-> ff, full_fill |-> ordinal, by_through |-> yes]
    BY <2>1, StateSet
  <2> QED
    BY <2>2 DEF ff, k, u, queue, qty, ordinal, yes
<1> QED
  BY <1>15, <1>18, <1>19 DEF N, state, Answered

\* The searches that found m the last trade that met the order.
NotThrough(trades, s, c, stop, through, first, full, m, full_ordinal) ==
    /\ ~(through <= Len(trades) /\ (full < stop => Earlier(trades[through], s[full])))
    /\ (IF full < stop THEN full + 1 ELSE stop) = c[m] + 1
    /\ (IF through <= Len(trades) /\ (first < stop => Earlier(trades[through], s[first]))
        THEN trades[through].ordinal
        ELSE IF first < stop THEN s[first].ordinal ELSE 0) = FirstBy(s, c, first, m)
    /\ (IF full < stop THEN s[full].ordinal ELSE 0) = full_ordinal

\* The order is filled, or not, by the trades at its quote: those up to trade m.
LEMMA FilledAtQuote ==
    ASSUME NEW o, NEW trades, NEW s, NEW c, NEW sum, NEW begin, NEW end, NEW start, NEW stop, NEW through,
           Setting(o, trades, s, c, sum, begin, end, start, stop, through),
           Asked(o, trades, s, sum, start, stop, through),
           NEW w, NEW m \in begin - 1 .. end - 1, NEW full_ordinal,
           NEW first, first = Crossing(sum, start, stop, o.queue + 1),
           NEW full, full = Crossing(sum, start, stop, o.queue + o.qty),
           NotThrough(trades, s, c, stop, through, first, full, m, full_ordinal),
           w = Picture(o, TradedBy(c, sum, start, m), c[m] - (start - 1), FirstBy(s, c, first, m), full_ordinal)
    PROVE  EvaluateSide(o, trades, Tree(o.side, trades)) = Answered(o, w)
<1> DEFINE V == TradedBy(c, sum, start, m)
           K == c[m] - (start - 1)
           f == FirstBy(s, c, first, m)
           by == through <= Len(trades) /\ (full < stop => Earlier(trades[through], s[full]))
           last == EffectiveEnd(s, start, stop, full, trades[through], by)
           traded == sum[last - 1] - sum[start - 1]
           filled == IF by THEN o.qty ELSE Filled(traded, o.queue, o.qty)
           answered == IF through <= Len(trades) /\ (first < stop => Earlier(trades[through], s[first]))
                       THEN trades[through].ordinal
                       ELSE IF first < stop THEN s[first].ordinal ELSE 0
<1>1. c[m] \in Nat /\ start \in Nat
  <2>1. c[m] \in 0 .. Len(s)
    BY WithinLife
  <2> QED
    BY <2>1 DEF Setting, Counted
<1>2. by = FALSE /\ answered = f /\ (IF full < stop THEN s[full].ordinal ELSE 0) = full_ordinal
  BY DEF NotThrough
<1>3. last = c[m] + 1
  BY <1>2 DEF EffectiveEnd, NotThrough
<1>4. traded = V /\ last - start = K
  <2>1. last - 1 = c[m]
    BY <1>1, <1>3
  <2> HIDE DEF last
  <2> QED
    BY <1>1, <1>3, <2>1 DEF TradedBy
<1>5. filled = Filled(V, o.queue, o.qty)
  BY <1>2, <1>4
<1> DEFINE Equations == /\ by = (through <= Len(trades) /\ (full < stop => Earlier(trades[through], s[full])))
                        /\ last = EffectiveEnd(s, start, stop, full, trades[through], by)
                        /\ traded = sum[last - 1] - sum[start - 1]
                        /\ filled = IF by THEN o.qty ELSE Filled(traded, o.queue, o.qty)
<1>6. Equations
  OBVIOUS
<1> HIDE DEF by, last, traded, filled
<1>7. EvaluateSide(o, trades, Tree(o.side, trades))
      = [state |-> StateOf(filled, o.qty),
         filled |-> filled,
         same_price_traded |-> traded,
         queue_consumed |-> IF by \/ traded > o.queue THEN o.queue ELSE traded,
         qualifying |-> last - start + (IF by THEN 1 ELSE 0),
         first_fill |-> answered,
         full_fill |-> IF by THEN trades[through].ordinal
                       ELSE IF full < stop THEN s[full].ordinal ELSE 0,
         by_through |-> by]
  BY <1>6, AnswerIs
<1> DEFINE lots == Filled(V, o.queue, o.qty)
           state == StateOf(lots, o.qty)
           queue == IF V > o.queue THEN o.queue ELSE V
           no == FALSE
<1>8. K + (IF by THEN 1 ELSE 0) = K
  BY <1>1, <1>2
<1>9. w = [state |-> "unfilled", queue_consumed |-> queue, filled |-> lots, same_price_traded |-> V,
           qualifying |-> K, first_fill |-> f, full_fill |-> full_ordinal, by_through |-> no]
  <2> HIDE DEF V, K, f
  <2>1. w = Picture(o, V, K, f, full_ordinal)
    BY DEF V, K, f
  <2> QED
    BY <2>1 DEF Picture
<1> HIDE DEF V, K, f, answered, lots, queue, no, state
<1>10. EvaluateSide(o, trades, Tree(o.side, trades))
       = [state |-> state, queue_consumed |-> queue, filled |-> lots, same_price_traded |-> V,
          qualifying |-> K, first_fill |-> f, full_fill |-> full_ordinal, by_through |-> no]
  <2>1. (IF by THEN trades[through].ordinal ELSE IF full < stop THEN s[full].ordinal ELSE 0) = full_ordinal
    BY <1>2
  <2>2. (IF by \/ traded > o.queue THEN o.queue ELSE traded) = queue
    BY <1>2, <1>4 DEF queue
  <2>3. filled = lots /\ StateOf(filled, o.qty) = state /\ by = no
    BY <1>2, <1>5 DEF lots, state, no
  <2>4. last - start + (IF by THEN 1 ELSE 0) = K
    BY <1>4, <1>8
  <2> QED
    BY <1>2, <1>4, <1>7, <2>1, <2>2, <2>3, <2>4
<1>11. [w EXCEPT !.state = state]
       = [state |-> state, queue_consumed |-> queue, filled |-> lots, same_price_traded |-> V,
          qualifying |-> K, first_fill |-> f, full_fill |-> full_ordinal, by_through |-> no]
  BY <1>9, StateSet
<1>12. StateOf(w.filled, o.qty) = state
  <2>1. w.filled = lots
    BY <1>9
  <2> QED
    BY <2>1 DEF state
<1> QED
  BY <1>10, <1>11, <1>12 DEF Answered

\* No trade filled the order.
LEMMA NotFilled ==
    ASSUME NEW o, NEW trades, NEW s, NEW c, NEW sum, NEW begin, NEW end, NEW start, NEW stop, NEW through,
           Setting(o, trades, s, c, sum, begin, end, start, stop, through),
           Asked(o, trades, s, sum, start, stop, through),
           NEW w, WatchedBy(o, trades, w),
           ~(through <= Len(trades)), TradedBy(c, sum, start, end - 1) < o.queue + o.qty
    PROVE  EvaluateSide(o, trades, Tree(o.side, trades))
           = Answered(o, w[Len(trades)])
<1> DEFINE N == Len(trades)
           m == end - 1
           first == Crossing(sum, start, stop, o.queue + 1)
           full == Crossing(sum, start, stop, o.queue + o.qty)
           more == o.queue + 1
           all == o.queue + o.qty
<1>1. /\ N \in Nat /\ m \in begin - 1 .. end - 1 /\ m < through
      /\ start \in Nat /\ stop \in Nat /\ c[m] = stop - 1
  <2>1. N \in Nat /\ begin \in 1 .. N + 1 /\ end \in 1 .. N + 1 /\ begin <= end /\ through \in 1 .. N + 1
    BY ThroughType
  <2>2. start \in Nat /\ stop \in Nat /\ c[m] = stop - 1
    BY DEF Setting, Counted
  <2> QED
    BY <2>1, <2>2
<1>2. more \in Nat \ {0} /\ all \in Nat \ {0}
  <2>1. o.queue \in Nat /\ o.qty \in Nat \ {0}
    BY DEF Setting, Order
  <2> QED
    BY <2>1
<1>3. first = Crossing(sum, start, stop, more) /\ full = Crossing(sum, start, stop, all)
      /\ TradedBy(c, sum, start, m) < all
  OBVIOUS
<1>4. Pictured(o, s, c, sum, start, first, w, m)
  <2> HIDE DEF m, first
  <2> QED
    BY <1>1, <1>3, WatchedInLife DEF first, all
<1>5. w[N] = w[m]
  BY LifeEnds
<1> HIDE DEF m, first, full, more, all
<1>6. first \in start .. stop
  BY <1>1, <1>2, <1>3, FirstReached
<1>7. full = stop
  <2>1. full \in start .. stop
    BY <1>1, <1>2, <1>3, FirstReached
  <2>2. full <= c[m] <=> TradedBy(c, sum, start, m) >= all
    BY <1>1, <1>2, <1>3, FirstReached
  <2>3. TradedBy(c, sum, start, m) \in Nat
    BY <1>1, WithinLife
  <2> QED
    BY <1>1, <1>2, <1>3, <2>1, <2>2, <2>3
<1>8. (IF full < stop THEN full + 1 ELSE stop) = c[m] + 1 /\ (IF full < stop THEN s[full].ordinal ELSE 0) = 0
  BY <1>1, <1>7
<1>9. (IF through <= Len(trades) /\ (first < stop => Earlier(trades[through], s[first]))
            THEN trades[through].ordinal
            ELSE IF first < stop THEN s[first].ordinal ELSE 0) = FirstBy(s, c, first, m)
  <2>1. first <= c[m] <=> first < stop
    BY <1>1, <1>6
  <2> QED
    BY <2>1 DEF FirstBy
<1>10. first = Crossing(sum, start, stop, o.queue + 1) /\ full = Crossing(sum, start, stop, o.queue + o.qty)
  BY DEF first, full
<1>11. w[m] = Picture(o, TradedBy(c, sum, start, m), c[m] - (start - 1), FirstBy(s, c, first, m), 0)
  BY <1>4 DEF Pictured
<1>12. NotThrough(trades, s, c, stop, through, first, full, m, 0)
  BY <1>8, <1>9 DEF NotThrough
<1>13. EvaluateSide(o, trades, Tree(o.side, trades)) = Answered(o, w[m])
  BY <1>1, <1>10, <1>11, <1>12, FilledAtQuote
<1> QED
  BY <1>5, <1>13 DEF N

\* The order is filled by a trade at its quote.
LEMMA FilledExactly ==
    ASSUME NEW o, NEW trades, NEW s, NEW c, NEW sum, NEW begin, NEW end, NEW start, NEW stop, NEW through,
           Setting(o, trades, s, c, sum, begin, end, start, stop, through),
           Asked(o, trades, s, sum, start, stop, through),
           NEW w, WatchedBy(o, trades, w), NEW m \in begin .. end - 1, m < through,
           TradedBy(c, sum, start, m) >= o.queue + o.qty,
           TradedBy(c, sum, start, m - 1) < o.queue + o.qty
    PROVE  EvaluateSide(o, trades, Tree(o.side, trades))
           = Answered(o, w[Len(trades)])
<1> DEFINE N == Len(trades)
           j == m - 1
           first == Crossing(sum, start, stop, o.queue + 1)
           full == Crossing(sum, start, stop, o.queue + o.qty)
           more == o.queue + 1
           all == o.queue + o.qty
<1>1. /\ N \in Nat /\ m \in 1 .. N /\ m \in begin - 1 .. end - 1 /\ j \in begin - 1 .. end - 1 /\ j < through
      /\ start \in Nat /\ stop \in Nat /\ Len(s) \in Nat /\ trades[m] \in IndexedTrade
  <2>1. N \in Nat /\ begin \in 1 .. N + 1 /\ end \in 1 .. N + 1 /\ begin <= end /\ through \in 1 .. N + 1
    BY ThroughType
  <2>2. start \in Nat /\ stop \in Nat /\ Len(s) \in Nat
    BY DEF Setting, Counted
  <2>3. m \in 1 .. N /\ trades[m] \in IndexedTrade
    BY NextTraded
  <2> QED
    BY <2>1, <2>2, <2>3
<1>2. more \in Nat \ {0} /\ all \in Nat \ {0} /\ more <= all
  <2>1. o.queue \in Nat /\ o.qty \in Nat \ {0}
    BY DEF Setting, Order
  <2> QED
    BY <2>1
<1>3. /\ first = Crossing(sum, start, stop, more) /\ full = Crossing(sum, start, stop, all)
      /\ TradedBy(c, sum, start, m) >= all /\ TradedBy(c, sum, start, j) < all
  OBVIOUS
<1>4. /\ TradedBy(c, sum, start, m) \in Nat /\ TradedBy(c, sum, start, j) \in Nat
      /\ c[m] \in Nat /\ c[j] \in Nat /\ c[m] \in start - 1 .. stop - 1
  <2> HIDE DEF j
  <2>1. TradedBy(c, sum, start, m) \in Nat /\ c[m] \in 0 .. Len(s) /\ c[m] \in start - 1 .. stop - 1
    BY <1>1, WithinLife
  <2>2. TradedBy(c, sum, start, j) \in Nat /\ c[j] \in 0 .. Len(s)
    BY <1>1, WithinLife
  <2> QED
    BY <1>1, <2>1, <2>2
<1>5. trades[m].price = o.quote /\ c[m] = c[j] + 1 /\ s[c[m]] = trades[m]
  <2>1. trades[m].price # o.quote => TradedBy(c, sum, start, m) = TradedBy(c, sum, start, j)
    BY NextTraded
  <2>2. trades[m].price = o.quote => c[m] = c[j] + 1 /\ s[c[m]] = trades[m]
    BY NextTraded
  <2> HIDE DEF j, all
  <2>3. TradedBy(c, sum, start, m) # TradedBy(c, sum, start, j)
    BY <1>2, <1>3, <1>4
  <2> QED
    BY <2>1, <2>2, <2>3
<1>6. Pictured(o, s, c, sum, start, first, w, j)
  <2> HIDE DEF j, first
  <2> QED
    BY <1>1, <1>3, WatchedInLife DEF first, all
<1>7. w[m] = Picture(o, TradedBy(c, sum, start, m), c[m] - (start - 1), FirstBy(s, c, first, m), trades[m].ordinal)
  <2>1. w[m] = Picture(o, TradedBy(c, sum, start, m), c[m] - (start - 1), FirstBy(s, c, first, m),
                       IF TradedBy(c, sum, start, m) >= o.queue + o.qty THEN trades[m].ordinal ELSE 0)
    <3>1. w[m - 1] = Picture(o, TradedBy(c, sum, start, m - 1), c[m - 1] - (start - 1),
                              FirstBy(s, c, first, m - 1), 0)
      BY <1>6 DEF Pictured
    <3> HIDE DEF first
    <3> QED
      BY <1>5, <3>1, WatchedAtQuote DEF first
  <2> QED
    BY <2>1
<1> HIDE DEF j, first, full, more, all
<1>8. full = c[m]
  <2>1. full \in start .. stop
    BY <1>1, <1>2, <1>3, FirstReached
  <2>2. full <= c[m] <=> TradedBy(c, sum, start, m) >= all
    BY <1>1, <1>2, <1>3, FirstReached
  <2>3. full <= c[j] <=> TradedBy(c, sum, start, j) >= all
    BY <1>1, <1>2, <1>3, FirstReached
  <2>4. full <= c[m] /\ ~(full <= c[j])
    BY <1>2, <1>3, <1>4, <2>2, <2>3
  <2>5. c[m] = c[j] + 1
    BY <1>5
  <2>6. c[j] \in Nat /\ full \in Nat
    BY <1>1, <1>4, <2>1
  <2> QED
    BY <2>4, <2>5, <2>6
<1>9. first \in start .. stop /\ first <= c[m]
  <2>1. first \in start .. stop
    BY <1>1, <1>2, <1>3, FirstReached
  <2>2. first <= c[m] <=> TradedBy(c, sum, start, m) >= more
    BY <1>1, <1>2, <1>3, FirstReached
  <2> QED
    BY <1>2, <1>3, <1>4, <2>1, <2>2
<1>10. full < stop /\ first < stop /\ first \in 1 .. Len(s) /\ full \in 1 .. Len(s)
  <2>1. c[m] \in 0 .. Len(s) /\ c[m] \in start - 1 .. stop - 1
    BY <1>1, WithinLife
  <2>2. start >= 1
    BY DEF Setting
  <2>3. full \in start .. stop
    BY <1>1, <1>2, <1>3, FirstReached
  <2> QED
    BY <1>1, <1>8, <1>9, <2>1, <2>2, <2>3
<1>11. ASSUME through <= N, NEW k \in 1 .. Len(s), k <= c[m] PROVE ~Earlier(trades[through], s[k])
  <2>1. through \in 1 .. N
    BY <1>1, <1>11, ThroughType DEF N
  <2>2. c[m] <= c[through]
    <3>1. trades \in Seq(IndexedTrade) /\ Counted(trades, o.quote, s, c)
      BY DEF Setting, InOrder
    <3>2. \A x, y \in 0 .. Len(trades) : x <= y => c[x] <= c[y]
      BY <3>1, CountGrows
    <3>3. m \in 0 .. N /\ through \in 0 .. N /\ m <= through
      BY <1>1, <2>1
    <3> QED
      BY <3>2, <3>3 DEF N
  <2>3. c[through] \in Nat
    <3>1. c \in [0 .. N -> Nat] /\ through \in 0 .. N
      BY <1>1, <2>1 DEF Setting, Counted, N
    <3> QED
      BY <3>1
  <2>4. Earlier(trades[through], s[k]) <=> c[through] < k
    BY <2>1, CountOrder DEF N
  <2> QED
    BY <1>1, <1>4, <1>11, <2>2, <2>3, <2>4
<1>12. ~(through <= Len(trades) /\ (full < stop => Earlier(trades[through], s[full])))
  <2>1. full <= c[m]
    BY <1>4, <1>8
  <2>2. through <= N => ~Earlier(trades[through], s[full])
    BY <1>10, <1>11, <2>1
  <2> QED
    BY <1>10, <2>2 DEF N
<1>13. (IF through <= Len(trades) /\ (first < stop => Earlier(trades[through], s[first]))
        THEN trades[through].ordinal
        ELSE IF first < stop THEN s[first].ordinal ELSE 0) = FirstBy(s, c, first, m)
  <2>1. ~(through <= Len(trades) /\ (first < stop => Earlier(trades[through], s[first])))
    BY <1>9, <1>10, <1>11 DEF N
  <2> QED
    BY <1>9, <1>10, <2>1 DEF FirstBy
<1>14. (IF full < stop THEN full + 1 ELSE stop) = c[m] + 1
       /\ (IF full < stop THEN s[full].ordinal ELSE 0) = trades[m].ordinal
  BY <1>5, <1>8, <1>10
<1>15. first = Crossing(sum, start, stop, o.queue + 1) /\ full = Crossing(sum, start, stop, o.queue + o.qty)
  BY DEF first, full
<1>16. EvaluateSide(o, trades, Tree(o.side, trades)) = Answered(o, w[m])
  <2> DEFINE u == w[m]
             ordinal == trades[m].ordinal
  <2>1. u = Picture(o, TradedBy(c, sum, start, m), c[m] - (start - 1), FirstBy(s, c, first, m), ordinal)
    BY <1>7
  <2>2. NotThrough(trades, s, c, stop, through, first, full, m, ordinal)
    BY <1>12, <1>13, <1>14 DEF NotThrough
  <2> HIDE DEF u, ordinal
  <2>4. EvaluateSide(o, trades, Tree(o.side, trades)) = Answered(o, u)
    BY <1>1, <1>15, <2>1, <2>2, FilledAtQuote
  <2> QED
    BY <2>4 DEF u
<1>17. w[N] = w[m]
  <2>1. w[m].full_fill # 0
    <3>1. w[m].full_fill = trades[m].ordinal
      BY <1>7 DEF Picture
    <3> QED
      BY <1>1, <3>1 DEF IndexedTrade
  <2>2. m \in 0 .. Len(trades) /\ Len(trades) \in Nat
    BY <1>1 DEF N
  <2>3. w[Len(trades)] = w[m]
    BY <2>1, <2>2, FullStays
  <2> QED
    BY <2>3 DEF N
<1> QED
  BY <1>16, <1>17 DEF N

\* The indexed answer is the watched one.
LEMMA AnswersAgree ==
    ASSUME NEW o \in Order, NEW trades, InOrder(trades), MaxPrice \in Nat,
           trades = IF o.side = "Buy" THEN buys ELSE sells
    PROVE  EvaluateSide(o, trades, Tree(o.side, trades)) = Sequential(o)
<1> DEFINE s == Exact(trades, o.quote)
           sum == PrefixQuantities(s)
           begin == UpperLocal(trades, o.placed)
           end == LowerLocal(trades, o.expires)
           start == UpperLocal(s, o.placed)
           stop == LowerLocal(s, o.expires)
           through == FirstThrough(o.side, trades, Tree(o.side, trades), begin, end, o.quote)
           N == Len(trades)
           all == o.queue + o.qty
<1>1. PICK c : Setting(o, trades, s, c, sum, begin, end, start, stop, through)
  BY SearchesFind
<1>2. Asked(o, trades, s, sum, start, stop, through)
  BY DEF Asked
<1>3. trades \in Seq(IndexedTrade) /\ N \in Nat
  BY DEF InOrder
<1>4. PICK w \in [0 .. N -> Watching] : WatchedBy(o, trades, w) /\ Sequential(o) = Answered(o, w[N])
  BY <1>3, SequentialWatches DEF Answered
<1> HIDE DEF s, sum, begin, end, start, stop, through
<1> DEFINE Sum(i) == TradedBy(c, sum, start, i)
<1>5. /\ begin \in 1 .. N + 1 /\ end \in 1 .. N + 1 /\ begin <= end
      /\ through \in 1 .. N + 1 /\ (through <= N => through \in begin .. end - 1)
      /\ through <= N => Beyond(o.side, trades[through].price, o.quote)
  BY <1>1, ThroughType
<1>6. all \in Nat \ {0} /\ o.quote \in Int
  <2>1. o.queue \in Nat /\ o.qty \in Nat \ {0} /\ o.quote \in Int
    BY DEF Order
  <2> QED
    BY <2>1
<1>7. \A i \in begin - 1 .. end - 1 : Sum(i) \in Nat
  BY <1>1, WithinLife
<1>8. Sum(begin - 1) = 0
  <2> DEFINE i == begin - 1
  <2>1. i \in begin - 1 .. end - 1 /\ c[i] = start - 1
    BY <1>1, <1>5 DEF Setting
  <2> HIDE DEF i
  <2>2. TradedBy(c, sum, start, i) = 0
    BY <1>1, <2>1, WithinLife
  <2> QED
    BY <2>2 DEF i
<1> DEFINE F == {i \in begin .. end - 1 : i < through /\ Sum(i) >= all}
<1>9. CASE F # {}
  <2>1. PICK m \in F : \A i \in F : m <= i
    <3>1. F \in SUBSET Nat
      BY <1>5
    <3> HIDE DEF F
    <3> QED
      BY <1>9, <3>1, LeastNumber
  <2>2. m \in begin .. end - 1 /\ m < through /\ Sum(m) >= all
    BY <2>1
  <2>3. Sum(m - 1) < all
    <3>1. CASE m = begin
      BY <1>6, <1>8, <3>1
    <3>2. CASE m # begin
      <4>1. m - 1 \in begin .. end - 1 /\ m - 1 < through /\ m - 1 \notin F /\ m - 1 \in begin - 1 .. end - 1
        <5> HIDE DEF Sum
        <5> QED
          BY <1>5, <2>1, <2>2, <3>2
      <4>2. ~(Sum(m - 1) >= all) /\ Sum(m - 1) \in Nat
        <5> HIDE DEF Sum
        <5> QED
          BY <1>7, <4>1
      <4> HIDE DEF Sum, all
      <4> QED
        BY <1>6, <4>2
    <3> QED
      BY <3>1, <3>2
  <2>4. EvaluateSide(o, trades, Tree(o.side, trades)) = Answered(o, w[Len(trades)])
    BY <1>1, <1>2, <1>4, <2>2, <2>3, FilledExactly
  <2> QED
    BY <1>4, <2>4
<1>10. ASSUME F = {}, NEW i \in begin - 1 .. end - 1, i < through PROVE Sum(i) < all
  <2>1. CASE i = begin - 1
    BY <1>6, <1>8, <2>1
  <2>2. CASE i # begin - 1
    <3>1. i \in begin .. end - 1 /\ i \notin F
      BY <1>5, <1>10, <2>2
    <3>2. ~(Sum(i) >= all) /\ Sum(i) \in Nat
      <4> HIDE DEF Sum
      <4> QED
        BY <1>7, <1>10, <3>1
    <3> HIDE DEF Sum, all
    <3> QED
      BY <1>6, <3>2
  <2> QED
    BY <2>1, <2>2
<1>11. CASE F = {} /\ through <= N
  <2>1. Sum(through - 1) < all
    <3> DEFINE i == through - 1
    <3>1. i \in begin - 1 .. end - 1 /\ i < through
      BY <1>5, <1>11
    <3> HIDE DEF i, F, Sum, all
    <3>2. Sum(i) < all
      BY <1>10, <1>11, <3>1
    <3> QED
      BY <3>2 DEF i
  <2>2. Sum(through) = Sum(through - 1)
    <3>1. trades[through].price # o.quote
      <4>1. o.side \in Side
        BY DEF Order
      <4>2. Beyond(o.side, trades[through].price, o.quote) /\ through \in 1 .. N
        BY <1>5, <1>11
      <4>3. trades[through].price \in Int
        BY <1>3, <4>2, TradeTypes
      <4> QED
        BY <1>6, <4>1, <4>2, <4>3 DEF Beyond
    <3>2. through \in begin .. end - 1
      BY <1>5, <1>11
    <3> QED
      BY <1>1, <3>1, <3>2, NextTraded
  <2>3. TradedBy(c, sum, start, through) < o.queue + o.qty
    BY <2>1, <2>2
  <2>4. EvaluateSide(o, trades, Tree(o.side, trades)) = Answered(o, w[Len(trades)])
    BY <1>1, <1>2, <1>4, <1>11, <2>3, FilledThrough
  <2> QED
    BY <1>4, <2>4
<1>12. CASE F = {} /\ ~(through <= N)
  <2>1. Sum(end - 1) < all
    <3> DEFINE i == end - 1
    <3>1. i \in begin - 1 .. end - 1 /\ i < through
      BY <1>3, <1>5, <1>12
    <3> HIDE DEF i, F, Sum, all
    <3>2. Sum(i) < all
      BY <1>10, <1>12, <3>1
    <3> QED
      BY <3>2 DEF i
  <2>2. EvaluateSide(o, trades, Tree(o.side, trades)) = Answered(o, w[Len(trades)])
    BY <1>1, <1>2, <1>4, <1>12, <2>1, NotFilled
  <2> QED
    BY <1>4, <2>2
<1> QED
  BY <1>9, <1>11, <1>12

-------------------------------------------------------------------------------
(* PassiveTradeIndex: while it is built, and the questions it answers. *)

\* One side of an index of n rows, the last one received at `last'.
Ordered(trades, n, last, regressed) ==
    /\ trades \in Seq(IndexedTrade)
    /\ \A i \in 1 .. Len(trades) : trades[i].ordinal <= n
    /\ \A i, j \in 1 .. Len(trades) : i < j => trades[i].ordinal < trades[j].ordinal
    /\ ~regressed => /\ \A i \in 1 .. Len(trades) : trades[i].local <= last
                     /\ \A i, j \in 1 .. Len(trades) : i < j => trades[i].local <= trades[j].local

\* The index, while it is built and when it is finished.
IndexInv ==
    /\ next_ordinal \in Nat /\ previous_local_timestamp \in Nat /\ regressions \in Nat
    /\ \A trades \in {buys, sells} :
          Ordered(trades, next_ordinal, previous_local_timestamp, regressions # 0)
    /\ status = "finalized" => /\ regressions = 0
                               /\ trees = [Buy |-> Tree("Buy", buys), Sell |-> Tree("Sell", sells)]

\* Both sides stay in order when one of them gets a trade.
LEMMA OneMore ==
    ASSUME NEW trades, NEW n \in Nat, NEW last \in Nat, NEW regressed \in BOOLEAN,
           Ordered(trades, n, last, regressed), NEW t \in IndexedTrade, t.ordinal = n + 1,
           NEW regressed2 \in BOOLEAN, ~regressed2 => ~regressed /\ (n = 0 \/ last <= t.local)
    PROVE  /\ Ordered(trades, n + 1, t.local, regressed2)
           /\ Ordered(Append(trades, t), n + 1, t.local, regressed2)
<1> DEFINE N == Len(trades)
           more == Append(trades, t)
<1>1. /\ trades \in Seq(IndexedTrade) /\ N \in Nat
      /\ \A i \in 1 .. N : trades[i].ordinal \in Nat \ {0} /\ trades[i].local \in Nat
      /\ \A i \in 1 .. N : trades[i].ordinal <= n
      /\ \A i, j \in 1 .. N : i < j => trades[i].ordinal < trades[j].ordinal
  <2>1. trades \in Seq(IndexedTrade) /\ N \in Nat
    BY DEF Ordered
  <2>2. \A i \in 1 .. N : trades[i].ordinal \in Nat \ {0} /\ trades[i].local \in Nat
    BY <2>1, TradeTypes
  <2> QED
    BY <2>1, <2>2 DEF Ordered
<1>2. t.local \in Nat
  BY DEF IndexedTrade
<1>3. ~regressed2 => /\ \A i \in 1 .. N : trades[i].local <= t.local
                     /\ \A i, j \in 1 .. N : i < j => trades[i].local <= trades[j].local
  <2> SUFFICES ASSUME ~regressed2
               PROVE  /\ \A i \in 1 .. N : trades[i].local <= t.local
                      /\ \A i, j \in 1 .. N : i < j => trades[i].local <= trades[j].local
    OBVIOUS
  <2>1. /\ \A i \in 1 .. N : trades[i].local <= last
        /\ \A i, j \in 1 .. N : i < j => trades[i].local <= trades[j].local
    BY DEF Ordered
  <2>2. ASSUME NEW i \in 1 .. N PROVE trades[i].local <= t.local
    <3>1. n # 0
      BY <1>1
    <3> QED
      BY <1>1, <1>2, <2>1, <3>1
  <2> QED
    BY <2>1, <2>2
<1>4. Ordered(trades, n + 1, t.local, regressed2)
  BY <1>1, <1>3 DEF Ordered
<1>5. /\ more \in Seq(IndexedTrade) /\ Len(more) = N + 1 /\ more[N + 1] = t
      /\ \A i \in 1 .. N : more[i] = trades[i]
  BY <1>1
<1> HIDE DEF more
<1>6. \A i \in 1 .. N + 1 : i \in 1 .. N \/ i = N + 1
  BY <1>1
<1>7. ASSUME NEW i \in 1 .. N + 1 PROVE more[i].ordinal <= n + 1
  <2>1. CASE i = N + 1
    BY <1>5, <2>1
  <2>2. CASE i \in 1 .. N
    <3>1. more[i].ordinal = trades[i].ordinal /\ trades[i].ordinal \in Nat /\ trades[i].ordinal <= n
      BY <1>1, <1>5, <2>2
    <3> QED
      BY <3>1
  <2> QED
    BY <1>6, <2>1, <2>2
<1>8. ASSUME NEW i \in 1 .. N + 1, NEW j \in 1 .. N + 1, i < j
      PROVE  /\ more[i].ordinal < more[j].ordinal
             /\ ~regressed2 => more[i].local <= more[j].local
  <2>1. i \in 1 .. N /\ more[i] = trades[i]
    BY <1>1, <1>5, <1>8
  <2>2. CASE j = N + 1
    BY <1>1, <1>3, <1>5, <2>1, <2>2
  <2>3. CASE j \in 1 .. N
    BY <1>1, <1>3, <1>5, <1>8, <2>1, <2>3
  <2> QED
    BY <1>6, <2>2, <2>3
<1>9. ~regressed2 => \A i \in 1 .. N + 1 : more[i].local <= t.local
  BY <1>2, <1>3, <1>5, <1>6
<1>10. Ordered(more, n + 1, t.local, regressed2)
  BY <1>5, <1>7, <1>8, <1>9 DEF Ordered
<1> QED
  BY <1>4, <1>10 DEF more

\* An empty index is in order.
LEMMA IndexInit == PInit => IndexInv
<1> SUFFICES ASSUME PInit PROVE IndexInv
  OBVIOUS
<1>1. buys = <<>> /\ sells = <<>>
  BY DEF PInit
<1>2. \A n, last : Ordered(<<>>, n, last, FALSE)
  BY DEF Ordered
<1>3. next_ordinal = 0 /\ previous_local_timestamp = 0 /\ regressions = 0 /\ status = "open"
  BY DEF PInit
<1> QED
  BY <1>1, <1>2, <1>3 DEF IndexInv

\* add_trade keeps both sides in order and counts the trades that are not;
\* finalize builds the trees of what is there, if none was counted.
LEMMA IndexNext == IndexInv /\ [PNext]_pvars => IndexInv'
<1> SUFFICES ASSUME IndexInv, [PNext]_pvars PROVE IndexInv'
  OBVIOUS
<1>1. ASSUME NEW t \in TradeRows, AddTrade(t) PROVE IndexInv'
  <2> DEFINE indexed == [local |-> t.local, ordinal |-> next_ordinal + 1, price |-> t.price, qty |-> t.qty]
             n == next_ordinal
             last == previous_local_timestamp
             regressed == regressions # 0
             regressed2 == regressions' # 0
  <2>1. n \in Nat /\ last \in Nat /\ regressions \in Nat
    BY DEF IndexInv
  <2>2. /\ t.local \in Nat /\ t.price \in 1 .. MaxPrice - 1 /\ t.qty \in Nat \ {0}
    BY PassiveAssumption
  <2>3. indexed \in IndexedTrade /\ indexed.ordinal = n + 1 /\ indexed.local = t.local
    BY <2>1, <2>2 DEF IndexedTrade
  <2>4. /\ regressions' = regressions + (IF n # 0 /\ t.local < last THEN 1 ELSE 0)
        /\ next_ordinal' = n + 1 /\ previous_local_timestamp' = t.local
        /\ buys' \in {buys, Append(buys, indexed)} /\ sells' \in {sells, Append(sells, indexed)}
        /\ status' = "open"
    BY <1>1 DEF AddTrade
  <2>5. regressions' \in Nat /\ (~regressed2 => ~regressed /\ (n = 0 \/ last <= indexed.local))
    BY <2>1, <2>2, <2>3, <2>4
  <2>6. \A trades \in {buys, sells} : Ordered(trades, n, last, regressed)
    BY DEF IndexInv
  <2> HIDE DEF indexed, n, last, regressed, regressed2
  <2>7. regressed \in BOOLEAN /\ regressed2 \in BOOLEAN
    BY DEF regressed, regressed2
  <2>8. ASSUME NEW trades \in {buys, sells}
        PROVE  Ordered(trades, n + 1, t.local, regressed2) /\ Ordered(Append(trades, indexed), n + 1, t.local, regressed2)
    <3>1. Ordered(trades, n, last, regressed)
      BY <2>6
    <3>2. /\ Ordered(trades, n + 1, indexed.local, regressed2)
          /\ Ordered(Append(trades, indexed), n + 1, indexed.local, regressed2)
      BY <2>1, <2>3, <2>5, <2>7, <3>1, OneMore
    <3> QED
      BY <2>3, <3>2
  <2>9. \A trades \in {buys', sells'} : Ordered(trades, n + 1, t.local, regressed2)
    BY <2>4, <2>8
  <2> QED
    BY <2>1, <2>2, <2>4, <2>5, <2>9 DEF IndexInv, regressed2
<1>2. CASE Finalize
  <2>1. /\ next_ordinal' = next_ordinal /\ previous_local_timestamp' = previous_local_timestamp
        /\ regressions' = regressions /\ buys' = buys /\ sells' = sells
    BY <1>2 DEF Finalize
  <2>2. status' = "finalized" => /\ regressions = 0
                                 /\ trees' = [Buy |-> Tree("Buy", buys), Sell |-> Tree("Sell", sells)]
    BY <1>2 DEF Finalize
  <2> QED
    BY <2>1, <2>2 DEF IndexInv
<1>3. CASE UNCHANGED pvars
  BY <1>3 DEF IndexInv, pvars
<1> QED
  BY <1>1, <1>2, <1>3 DEF PNext

\* A finished index answers every order as watching the trades would.
LEMMA IndexAnswers == IndexInv => EvaluationIsSequential
<1> SUFFICES ASSUME IndexInv, status = "finalized", NEW o \in Orders
             PROVE  Evaluate(o) = Sequential(o)
  BY DEF EvaluationIsSequential
<1> DEFINE trades == IF o.side = "Buy" THEN buys ELSE sells
<1>1. MaxPrice \in Nat /\ MaxQty \in Nat /\ MaxQueue \in Nat /\ MaxTime \in Nat
  BY PassiveAssumption
<1>2. o \in Order
  BY <1>1 DEF Orders, Order
<1>3. InOrder(trades)
  <2>1. Ordered(trades, next_ordinal, previous_local_timestamp, FALSE)
    BY DEF IndexInv
  <2> HIDE DEF trades
  <2> QED
    BY <2>1 DEF Ordered, InOrder
<1>4. Evaluate(o) = EvaluateSide(o, trades, Tree(o.side, trades))
  <2>1. o.side = "Buy" \/ o.side = "Sell"
    BY <1>2 DEF Order, Side
  <2>2. trees = [Buy |-> Tree("Buy", buys), Sell |-> Tree("Sell", sells)]
    BY DEF IndexInv
  <2>3. trees["Buy"] = Tree("Buy", buys) /\ trees["Sell"] = Tree("Sell", sells)
    BY <2>2
  <2>4. trees[o.side] = Tree(o.side, trades)
    BY <2>1, <2>3
  <2> QED
    BY <2>4 DEF Evaluate
<1>5. EvaluateSide(o, trades, Tree(o.side, trades)) = Sequential(o)
  BY <1>1, <1>2, <1>3, AnswersAgree
<1> QED
  BY <1>4, <1>5

\* evaluate_side answers as watching the trades go by would, for every file of
\* trades and every order: with its binary searches, running sums and tree it
\* finds the same state, quantities, fills and cause of the fill.
THEOREM IndexAnswersAsWatched == PSpec => []EvaluationIsSequential
<1>1. PInit => IndexInv
  BY IndexInit
<1>2. IndexInv /\ [PNext]_pvars => IndexInv'
  BY IndexNext
<1>3. IndexInv => EvaluationIsSequential
  BY IndexAnswers
<1> QED
  BY <1>1, <1>2, <1>3, PTL DEF PSpec
=================================================================================
