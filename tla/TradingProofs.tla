----------------------------- MODULE TradingProofs -----------------------------
(***************************************************************************)
(* The three simulators that trade on recorded books.  simulate_schedule   *)
(* (MarketMaker): the hard limit, the one order per side and what a        *)
(* decision knows, for every quantity, limits, lifetime and schedule.      *)
(* run_day (ExecutionEngine): one position at a time, one fate for every   *)
(* signal, trades that stay in their segment and legs at the best price,   *)
(* for every frame and every parameter.  select_round_trip_paths           *)
(* (RoundTrips): a valid round trip is one that could have been made, for  *)
(* every day, holding time, latency and delay.                             *)
(***************************************************************************)
EXTENDS MarketMaker, ExecutionEngine, RoundTrips, Induction, FiniteSetTheorems,
        TLAPS

Fill == [time : Int, sequence : Nat, side : Sides, lots : 1 .. Quantity]

\* Types, as far as the proofs need them.
Shape ==
    /\ inventory \in Int
    /\ available \in [Sides -> Int]
    /\ pending \subseteq Fill
    /\ sequence \in Nat /\ walked \in Nat
    /\ phase \in {"next", "fills", "drain", "done"}
    /\ row.at \in Nat
    /\ phase = "fills" => row.side \in Sides /\ row.fate \in Fates(row.at)

\* A side has one fill to come, before its order ends.
OnePending ==
    /\ \A e, f \in pending : e.side = f.side => e = f
    /\ \A e \in pending : e.time <= available[e.side]

\* What is to come on one side fits, even if nothing comes on the other.
Room ==
    \A e \in pending :
        /\ e.side = "bid" => inventory + e.lots <= Hard
        /\ e.side = "ask" => -Hard <= inventory - e.lots

\* A side is available when its orders have ended.
Ended(o) == IF o.lots = Quantity THEN o.full ELSE Expiry(o.at)

OrdersEnd ==
    \A o \in placed :
        /\ o.side \in Sides /\ o.number \in Nat /\ o.at \in Nat
        /\ Ended(o) \in Int /\ Ended(o) <= available[o.side]
        /\ o.number <= walked
        /\ phase = "fills" => o.number < walked

MInv == Shape /\ OnePending /\ Room /\ HardLimitHolds /\ OrdersEnd /\ OneOrderPerSide

-------------------------------------------------------------------------------

\* At a decision no fill on the heap is due.
LEMMA DecidedLater ==
    ASSUME Shape, OnePending, Deciding, NEW e \in pending
    PROVE  row.at < e.time
<1> SUFFICES ASSUME e.time <= row.at
             PROVE  FALSE
  <2>1. e.time \in Int /\ row.at \in Int
    BY DEF Shape, Fill
  <2> QED BY <2>1
<1>1. phase = "fills" /\ row.at \in Nat
    BY DEF Shape, Deciding
<1>2. \A f \in pending : f.time \in Int /\ f.sequence \in Nat /\ f.side \in Sides
    BY DEF Shape, Fill
<1>3. ~Top(e)
    BY <1>1 DEF Deciding, Due
<1>4. PICK f \in pending : f.time < e.time \/ (f.time = e.time /\ f.sequence < e.sequence)
    BY <1>2, <1>3 DEF Top
<1>5. \A g \in pending : g = e \/ g = f
  <2> SUFFICES ASSUME NEW g \in pending, g # e
               PROVE  g = f
    OBVIOUS
  <2>1. f # e
    BY <1>2, <1>4
  <2>2. g.side # e.side /\ f.side # e.side
    BY <2>1 DEF OnePending
  <2>3. g.side = f.side
    BY <1>2, <2>2 DEF Sides
  <2> QED BY <2>3 DEF OnePending
<1>6. Top(f)
    BY <1>2, <1>4, <1>5 DEF Top
<1>7. Due(f)
    BY <1>1, <1>2, <1>4 DEF Due
<1> QED BY <1>6, <1>7 DEF Deciding

\* At a decision the fills of the side that is free have all been applied:
\* theirs are due, and whatever comes before them is due as well.
LEMMA FreeSideHasNoFill ==
    ASSUME Shape, OnePending, Deciding, ~ActiveOrderConflict
    PROVE  \A e \in pending : e.side # row.side
<1> SUFFICES ASSUME NEW e \in pending, e.side = row.side
             PROVE  FALSE
    OBVIOUS
<1>1. row.side \in Sides /\ row.at \in Nat /\ e.time \in Int /\ available[row.side] \in Int
    BY DEF Shape, Deciding, Fill
<1>2. e.time <= available[row.side]
    BY DEF OnePending
<1>3. row.at < e.time
    BY DecidedLater
<1> QED BY <1>1, <1>2, <1>3 DEF ActiveOrderConflict

\* A label that is accepted ends its order where the order really ends.
LEMMA AcceptedFate ==
    ASSUME NEW at \in Nat, NEW fate \in Fates(at), FillStatus(fate) \in ValidOrderStatuses
    PROVE  /\ fate.lots \in 0 .. Quantity
           /\ fate.lots > 0 => fate.first \in Int
           /\ fate.lots = Quantity => fate.full \in Int
           /\ OrderEnd(at, fate) = IF fate.lots = Quantity THEN fate.full ELSE Expiry(at)
           /\ OrderEnd(at, fate) \in Int /\ at < OrderEnd(at, fate)
<1>1. Quantity \in Nat \ {0} /\ Lifetime \in Nat \ {0}
    BY MakerAssumption
<1>2. fate.valid
    BY DEF FillStatus, ValidOrderStatuses
<1>3. /\ fate.lots \in 0 .. Quantity
      /\ fate.lots > 0 => fate.first \in Int
      /\ fate.lots = Quantity => fate.full \in Int /\ at < fate.full
    BY <1>1 DEF Fates, Expiry
<1>4. FillStatus(fate) = "full" <=> fate.lots = Quantity
    BY <1>1, <1>2, <1>3 DEF FillStatus
<1>5. Expiry(at) \in Int /\ at < Expiry(at)
    BY <1>1 DEF Expiry
<1> QED BY <1>3, <1>4, <1>5 DEF OrderEnd

-------------------------------------------------------------------------------

LEMMA InitMInv == MInit => MInv
<1> SUFFICES ASSUME MInit PROVE MInv
    OBVIOUS
<1>1. Hard \in Nat
    BY MakerAssumption
<1> QED BY <1>1 DEF MInit, MInv, Shape, OnePending, Room, HardLimitHolds, OrdersEnd, OneOrderPerSide,
               NoRow, Sides

LEMMA NextRowStep ==
    ASSUME MInv, NEW at \in Nat, NEW side \in Sides, NEW fate \in Fates(at), NextRow(at, side, fate)
    PROVE  MInv'
<1>1. Shape'
    BY DEF MInv, Shape, NextRow
<1>2. OnePending' /\ Room' /\ HardLimitHolds' /\ OneOrderPerSide'
    BY DEF MInv, OnePending, Room, HardLimitHolds, OneOrderPerSide, NextRow
<1>3. OrdersEnd'
    BY DEF MInv, Shape, OrdersEnd, Ended, NextRow
<1> QED BY <1>1, <1>2, <1>3 DEF MInv

LEMMA ApplyFillStep ==
    ASSUME MInv, NEW e \in pending, ApplyFill(e)
    PROVE  MInv'
<1> USE DEF MInv
<1>1. e \in Fill /\ inventory \in Int /\ Hard \in Nat /\ Quantity \in Nat
    BY MakerAssumption DEF Shape
<1>2. Shape'
    BY <1>1 DEF Shape, ApplyFill, Fill
<1>3. OnePending'
    BY DEF OnePending, ApplyFill
<1>4. \A f \in pending' : f \in pending /\ f.side # e.side /\ f.lots \in Nat /\ f.side \in Sides
    BY DEF OnePending, ApplyFill, Shape, Fill
<1>5. Room' /\ HardLimitHolds'
  <2>1. CASE e.side = "bid"
    <3>1. inventory' = inventory + e.lots /\ inventory' <= Hard /\ -Hard <= inventory'
        BY <1>1, <2>1 DEF ApplyFill, Room, HardLimitHolds, Fill
    <3>2. ASSUME NEW f \in pending'
          PROVE  /\ f.side = "bid" => inventory' + f.lots <= Hard
                 /\ f.side = "ask" => -Hard <= inventory' - f.lots
        BY <1>1, <1>4, <2>1, <3>1, <3>2 DEF Room, Fill
    <3> QED BY <3>1, <3>2 DEF Room, HardLimitHolds
  <2>2. CASE e.side = "ask"
    <3>1. inventory' = inventory - e.lots /\ inventory' <= Hard /\ -Hard <= inventory'
        BY <1>1, <2>2 DEF ApplyFill, Room, HardLimitHolds, Fill
    <3>2. ASSUME NEW f \in pending'
          PROVE  /\ f.side = "bid" => inventory' + f.lots <= Hard
                 /\ f.side = "ask" => -Hard <= inventory' - f.lots
        BY <1>1, <1>4, <2>2, <3>1, <3>2 DEF Room, Fill
    <3> QED BY <3>1, <3>2 DEF Room, HardLimitHolds
  <2> QED BY <1>1, <2>1, <2>2 DEF Fill, Sides
<1>6. OrdersEnd' /\ OneOrderPerSide'
    BY DEF OrdersEnd, OneOrderPerSide, Ended, ApplyFill
<1> QED BY <1>2, <1>3, <1>5, <1>6

LEMMA NotPlacedStep ==
    ASSUME MInv, NEW obi, NEW selected, NotPlaced(obi, selected)
    PROVE  MInv'
<1>1. Shape'
    BY DEF MInv, Shape, NotPlaced
<1>2. OnePending' /\ Room' /\ HardLimitHolds' /\ OneOrderPerSide'
    BY DEF MInv, OnePending, Room, HardLimitHolds, OneOrderPerSide, NotPlaced
<1>3. OrdersEnd'
    BY DEF MInv, OrdersEnd, Ended, NotPlaced
<1> QED BY <1>1, <1>2, <1>3 DEF MInv

LEMMA PlaceStep ==
    ASSUME MInv, NEW obi, NEW selected, Place(obi, selected)
    PROVE  MInv'
<1> DEFINE end == OrderEnd(row.at, row.fate)
           fill == [time |-> row.fate.first, sequence |-> sequence + 1,
                    side |-> row.side, lots |-> row.fate.lots]
           order == [number |-> walked, at |-> row.at, side |-> row.side, lots |-> row.fate.lots,
                     first |-> row.fate.first, full |-> row.fate.full]
<1>1. /\ phase = "fills" /\ row.at \in Nat /\ row.side \in Sides /\ row.fate \in Fates(row.at)
      /\ inventory \in Int /\ sequence \in Nat /\ walked \in Nat /\ available \in [Sides -> Int]
    BY DEF MInv, Shape, Place, Deciding
<1>2. /\ row.fate.lots \in 0 .. Quantity
      /\ row.fate.lots > 0 => row.fate.first \in Int
      /\ end = IF row.fate.lots = Quantity THEN row.fate.full ELSE Expiry(row.at)
      /\ end \in Int /\ row.at < end
    BY <1>1, AcceptedFate DEF Place, ValidPlacement
<1>3. available[row.side] <= row.at
    BY <1>1 DEF Place, ActiveOrderConflict
<1>4. \A e \in pending : e.side # row.side
    BY FreeSideHasNoFill DEF MInv, Place
<1>5. Hard \in Nat /\ Quantity \in Nat \ {0} /\ Lifetime \in Nat \ {0}
    BY MakerAssumption
<1>6. available' = [available EXCEPT ![row.side] = end]
    BY DEF Place
<1>7. pending' = IF row.fate.lots > 0 THEN pending \cup {fill} ELSE pending
    BY DEF Place
<1>8. placed' = placed \cup {order} /\ walked' = walked /\ inventory' = inventory /\ phase' = "next"
    BY DEF Place
<1>9. row.fate.lots > 0 => fill \in Fill /\ fill.time <= end
    BY <1>1, <1>2 DEF Place, Fill
<1>10. row' = [at |-> row.at] /\ sequence' \in Nat
    BY <1>1 DEF Place
<1>11. Shape'
  <2>1. pending' \subseteq Fill
    BY <1>7, <1>9 DEF MInv, Shape
  <2>2. available' \in [Sides -> Int]
    BY <1>1, <1>2, <1>6
  <2>3. row'.at \in Nat
    BY <1>1, <1>10
  <2> QED BY <1>1, <1>8, <1>10, <2>1, <2>2, <2>3 DEF Shape
<1>12. OnePending'
  <2>1. ASSUME NEW e \in pending', NEW f \in pending', e.side = f.side
        PROVE  e = f
    BY <1>4, <1>7, <2>1 DEF MInv, OnePending
  <2>2. ASSUME NEW e \in pending'
        PROVE  e.time <= available'[e.side]
    <3>1. CASE e \in pending
      <4>1. e.side \in Sides /\ e.side # row.side
        BY <1>4, <3>1 DEF MInv, Shape, Fill
      <4>2. available'[e.side] = available[e.side]
        BY <1>1, <1>6, <4>1
      <4> QED BY <3>1, <4>2 DEF MInv, OnePending
    <3>2. CASE e \notin pending
      <4>1. row.fate.lots > 0 /\ e = fill
        BY <1>7, <2>2, <3>2
      <4>2. available'[row.side] = end
        BY <1>1, <1>6
      <4> QED BY <1>9, <4>1, <4>2
    <3> QED BY <3>1, <3>2
  <2> QED BY <2>1, <2>2 DEF OnePending
<1>13. WithinLimits(row.side)
    BY DEF Place, Allowed
<1>14. Room' /\ HardLimitHolds'
  <2>1. ASSUME NEW e \in pending'
        PROVE  /\ e.side = "bid" => inventory + e.lots <= Hard
               /\ e.side = "ask" => -Hard <= inventory - e.lots
    <3>1. CASE e \in pending
        BY <3>1 DEF MInv, Room
    <3>2. CASE e \notin pending
      <4>1. e = fill
        BY <1>7, <2>1, <3>2
      <4>2. row.side = "bid" => inventory + row.fate.lots <= Hard
        BY <1>1, <1>2, <1>5, <1>13 DEF WithinLimits
      <4>3. row.side = "ask" => -Hard <= inventory - row.fate.lots
        BY <1>1, <1>2, <1>5, <1>13 DEF WithinLimits
      <4> QED BY <4>1, <4>2, <4>3
    <3> QED BY <3>1, <3>2
  <2> QED BY <1>8, <2>1 DEF MInv, Room, HardLimitHolds
<1>15. order.side \in Sides /\ order.number = walked /\ order.at = row.at /\ Ended(order) = end
    BY <1>1, <1>2 DEF Ended
<1>16. \A o \in placed : o.number < walked
    BY <1>1 DEF MInv, OrdersEnd
<1>17. OrdersEnd'
  <2> SUFFICES ASSUME NEW o \in placed'
               PROVE  /\ o.side \in Sides /\ o.number \in Nat /\ o.at \in Nat
                      /\ Ended(o) \in Int /\ Ended(o) <= available'[o.side]
                      /\ o.number <= walked
    BY <1>8 DEF OrdersEnd, Ended
  <2>1. CASE o = order
    <3>1. available'[row.side] = end
        BY <1>1, <1>6
    <3> QED BY <1>1, <1>2, <1>15, <2>1, <3>1
  <2>2. CASE o \in placed
    <3>1. /\ o.side \in Sides /\ o.number \in Nat /\ o.at \in Nat
          /\ Ended(o) \in Int /\ Ended(o) <= available[o.side] /\ o.number <= walked
        BY <2>2 DEF MInv, OrdersEnd
    <3>2. available[o.side] <= available'[o.side]
      <4>1. CASE o.side # row.side
        BY <1>1, <1>6, <3>1, <4>1
      <4>2. CASE o.side = row.side
        BY <1>1, <1>2, <1>3, <1>6, <3>1, <4>2
      <4> QED BY <4>1, <4>2
    <3>3. available[o.side] \in Int /\ available'[o.side] \in Int
        BY <1>1, <1>2, <1>6, <3>1
    <3> QED BY <3>1, <3>2, <3>3
  <2> QED BY <1>8, <2>1, <2>2
<1>18. OneOrderPerSide'
  <2> SUFFICES ASSUME NEW o \in placed', NEW p \in placed', o.side = p.side, o.number < p.number
               PROVE  p.at >= Ended(o)
    BY DEF OneOrderPerSide, Ended
  <2>1. CASE o \in placed /\ p \in placed
    BY <2>1 DEF MInv, OneOrderPerSide, Ended
  <2>2. CASE o \in placed /\ p = order
    <3>1. Ended(o) \in Int /\ Ended(o) <= available[row.side]
        BY <2>2 DEF MInv, OrdersEnd
    <3>2. available[row.side] \in Int
        BY <1>1
    <3> QED BY <1>1, <1>3, <1>15, <2>2, <3>1, <3>2
  <2>3. CASE o = order
    <3>1. p.number <= walked /\ p.number \in Nat
        BY <1>1, <1>8, <1>15, <1>16 DEF MInv, OrdersEnd
    <3> QED BY <1>1, <1>15, <2>3, <3>1
  <2> QED BY <1>8, <2>1, <2>2, <2>3
<1> QED BY <1>11, <1>12, <1>14, <1>17, <1>18 DEF MInv

LEMMA EndOfScheduleStep ==
    ASSUME MInv, EndOfSchedule
    PROVE  MInv'
BY DEF MInv, Shape, OnePending, Room, HardLimitHolds, OrdersEnd, Ended, OneOrderPerSide, EndOfSchedule

LEMMA LiquidateStep ==
    ASSUME MInv, Liquidate
    PROVE  MInv'
<1>1. Hard \in Nat
    BY MakerAssumption
<1>2. Shape' /\ OnePending' /\ Room' /\ HardLimitHolds'
    BY <1>1 DEF MInv, Shape, OnePending, Room, HardLimitHolds, Liquidate
<1>3. OrdersEnd' /\ OneOrderPerSide'
    BY DEF MInv, OrdersEnd, Ended, OneOrderPerSide, Liquidate
<1> QED BY <1>2, <1>3 DEF MInv

LEMMA NextMInv == MInv /\ [MNext]_mvars => MInv'
<1> SUFFICES ASSUME MInv, [MNext]_mvars PROVE MInv'
    OBVIOUS
<1>1. ASSUME NEW at \in 0 .. MaxPlacement, NEW side \in Sides, NEW fate \in Fates(at),
             NextRow(at, side, fate)
      PROVE  MInv'
    BY <1>1, NextRowStep, MakerAssumption
<1>2. ASSUME NEW e \in pending, ApplyFill(e) PROVE MInv'
    BY <1>2, ApplyFillStep
<1>3. ASSUME NEW obi \in Obi, NEW selected \in BOOLEAN, NotPlaced(obi, selected) PROVE MInv'
    BY <1>3, NotPlacedStep
<1>4. ASSUME NEW obi \in Obi, NEW selected \in BOOLEAN, Place(obi, selected) PROVE MInv'
    BY <1>4, PlaceStep
<1>5. CASE EndOfSchedule
    BY <1>5, EndOfScheduleStep
<1>6. CASE Liquidate
    BY <1>6, LiquidateStep
<1>7. CASE UNCHANGED mvars
    BY <1>7 DEF mvars, MInv, Shape, OnePending, Room, HardLimitHolds, OrdersEnd, Ended, OneOrderPerSide
<1> QED BY <1>1, <1>2, <1>3, <1>4, <1>5, <1>6, <1>7 DEF MNext

\* The inductive invariant: a side has one fill to come, and room for it.
THEOREM MakerInvariant == MSpec => []MInv
<1>1. MInit => MInv
    BY InitMInv
<1>2. MInv /\ [MNext]_mvars => MInv'
    BY NextMInv
<1> QED BY <1>1, <1>2, PTL DEF MSpec

\* The hard limit is never breached, whatever the policy, the schedule and the
\* order of the fills.
THEOREM HardLimitIsNeverBreached == MSpec => []HardLimitHolds
<1>1. MInv => HardLimitHolds
    BY DEF MInv
<1> QED BY <1>1, MakerInvariant, PTL

\* There is one active order per side, however late a placement is.
THEOREM OneActiveOrderPerSide == MSpec => []OneOrderPerSide
<1>1. MInv => OneOrderPerSide
    BY DEF MInv
<1> QED BY <1>1, MakerInvariant, PTL

-------------------------------------------------------------------------------
(* What the inventory knows. *)

Order == [number : Nat, at : Nat, side : Sides, lots : 0 .. Quantity, first : Int, full : Int]

\* The last order of a side is outstanding while the side has a fill to come;
\* the fills of the others are in the inventory.
LastOfSide(o) == \A p \in placed : p.side = o.side => p.number <= o.number
Outstanding(o) == LastOfSide(o) /\ \E e \in pending : e.side = o.side
Settled(side) == {o \in placed : o.side = side /\ o.lots > 0 /\ ~Outstanding(o)}

Orders ==
    /\ IsFiniteSet(placed) /\ placed \subseteq Order
    /\ \A o, p \in placed : o.number = p.number => o = p
    /\ \A o \in placed : o.lots > 0 => o.first <= MaxPlacement + Lifetime
    /\ row.at <= MaxPlacement

\* What is on the heap is the fill of an order.
FillsAreOrders ==
    \A e \in pending :
        \E o \in placed : Outstanding(o) /\ o.side = e.side /\ o.first = e.time /\ o.lots = e.lots

Balanced == phase # "done" => inventory = LotsOf(Settled("bid")) - LotsOf(Settled("ask"))

SettledIsPast ==
    phase \in {"next", "fills"} => \A side \in Sides : \A o \in Settled(side) : o.first <= row.at

PastInv == MInv /\ Orders /\ FillsAreOrders /\ Balanced /\ SettledIsPast

\* Lots are counted one by one.
LEMMA LotsAdd ==
    ASSUME NEW S, IsFiniteSet(S), S \subseteq Order, NEW o \in Order, o \notin S
    PROVE  LotsOf(S \cup {o}) = LotsOf(S) + o.lots /\ LotsOf(S) \in Nat
<1> DEFINE lots(p) == {p} \X (1 .. p.lots)
           U == UNION {lots(p) : p \in S}
           W == UNION {lots(p) : p \in S \cup {o}}
<1>1. \A p \in Order : p.lots \in Nat
    BY MakerAssumption DEF Order
<1>2. \A p \in Order : IsFiniteSet(lots(p)) /\ Cardinality(lots(p)) = p.lots
  <2> SUFFICES ASSUME NEW p \in Order
               PROVE  IsFiniteSet(lots(p)) /\ Cardinality(lots(p)) = p.lots
    OBVIOUS
  <2> DEFINE n == p.lots
             numbers == 1 .. n
  <2>1. n \in Nat
    BY <1>1
  <2> HIDE DEF n
  <2>2. IsFiniteSet(numbers) /\ Cardinality(numbers) = n
    BY <2>1, FS_Interval
  <2>3. IsFiniteSet({p}) /\ Cardinality({p}) = 1
    BY FS_Singleton
  <2> HIDE DEF numbers
  <2>4. IsFiniteSet({p} \X numbers) /\ Cardinality({p} \X numbers) = 1 * n
    BY <2>2, <2>3, FS_Product
  <2>5. 1 * n = n
    BY <2>1
  <2> QED BY <2>4, <2>5 DEF numbers, n
<1>3. IsFiniteSet(U)
  <2> DEFINE F == {lots(p) : p \in S}
  <2>1. IsFiniteSet(F)
    <3> DEFINE f == [p \in S |-> lots(p)]
    <3>1. f \in Surjection(S, F)
      <4> HIDE DEF lots
      <4> QED BY DEF Surjection
    <3> QED BY <3>1, FS_Surjection
  <2>2. \A T \in F : IsFiniteSet(T)
    BY <1>2
  <2> HIDE DEF F
  <2>3. IsFiniteSet(UNION F)
    BY <2>1, <2>2, FS_UNION
  <2> QED BY <2>3 DEF F
<1>4. W = U \cup lots(o)
    OBVIOUS
<1>5. U \cap lots(o) = {}
  <2> SUFFICES ASSUME NEW p \in S, NEW x \in lots(p), x \in lots(o) PROVE FALSE
    OBVIOUS
  <2>1. x[1] = p /\ x[1] = o
    OBVIOUS
  <2> QED BY <2>1
<1> HIDE DEF U, W, lots
<1>6. Cardinality(W) = Cardinality(U) + Cardinality(lots(o)) - Cardinality(U \cap lots(o))
    BY <1>2, <1>3, <1>4, FS_Union
<1>7. Cardinality(W) = Cardinality(U) + o.lots /\ Cardinality(U) \in Nat
  <2>1. Cardinality(U) \in Nat /\ o.lots \in Nat /\ Cardinality({}) = 0
    BY <1>1, <1>3, FS_CardinalityType, FS_EmptySet
  <2>2. Cardinality(lots(o)) = o.lots /\ Cardinality(U \cap lots(o)) = 0
    BY <1>2, <1>5, <2>1
  <2> QED BY <1>6, <2>1, <2>2
<1> QED BY <1>7 DEF LotsOf, U, W, lots

LEMMA PastInit == MInit => PastInv
<1> SUFFICES ASSUME MInit PROVE PastInv
    OBVIOUS
<1>1. placed = {} /\ pending = {} /\ inventory = 0 /\ row.at = 0
    BY DEF MInit, NoRow
<1>2. MInv
    BY InitMInv
<1>3. IsFiniteSet(placed)
    BY <1>1, FS_EmptySet
<1>4. Orders
    BY <1>1, <1>3, MakerAssumption DEF Orders
<1>5. \A side : Settled(side) = {}
    BY <1>1 DEF Settled
<1>6. LotsOf({}) = 0
  <2> DEFINE none == UNION {{o} \X (1 .. o.lots) : o \in {}}
  <2>1. none = {}
    OBVIOUS
  <2>2. LotsOf({}) = Cardinality(none)
    BY DEF LotsOf
  <2> HIDE DEF none
  <2> QED BY <2>1, <2>2, FS_EmptySet
<1>7. Balanced
  <2>1. Settled("bid") = {} /\ Settled("ask") = {}
    BY <1>5
  <2>2. LotsOf(Settled("bid")) = 0 /\ LotsOf(Settled("ask")) = 0
    BY <1>6, <2>1
  <2> QED BY <1>1, <2>2 DEF Balanced
<1> QED BY <1>1, <1>2, <1>4, <1>5, <1>7 DEF PastInv, FillsAreOrders, SettledIsPast

\* A step that leaves the orders and the heap alone.
LEMMA NothingPlaced ==
    ASSUME PastInv, MInv', UNCHANGED <<placed, pending>>,
           row'.at \in Nat, row.at <= row'.at, row'.at <= MaxPlacement,
           phase' = "done" \/ UNCHANGED inventory,
           phase = "drain" => phase' \in {"drain", "done"}, phase # "done" \/ phase' = "done"
    PROVE  PastInv'
<1>1. \A side : Settled(side)' = Settled(side)
    BY DEF Settled, Outstanding, LastOfSide
<1>2. Orders'
    BY DEF PastInv, Orders
<1>3. FillsAreOrders'
    BY DEF PastInv, FillsAreOrders, Outstanding, LastOfSide
<1>4. Balanced'
    BY <1>1 DEF PastInv, Balanced
<1>5. SettledIsPast'
  <2> SUFFICES ASSUME phase' \in {"next", "fills"}, NEW side \in Sides, NEW o \in Settled(side)
               PROVE  o.first <= row'.at
    BY <1>1 DEF SettledIsPast
  <2>1. phase \in {"next", "fills"} /\ row.at \in Nat
    BY DEF PastInv, MInv, Shape
  <2>2. o.first <= row.at /\ o.first \in Int
    BY <2>1 DEF PastInv, SettledIsPast, Orders, Order, Settled
  <2> QED BY <2>1, <2>2
<1> QED BY <1>2, <1>3, <1>4, <1>5 DEF PastInv

\* A fill that is applied settles the order it belongs to.
LEMMA FillSettles ==
    ASSUME PastInv, NEW e \in pending, ApplyFill(e)
    PROVE  PastInv'
<1>1. MInv'
    BY ApplyFillStep DEF PastInv
<1>2. /\ pending' = pending \ {e} /\ placed' = placed /\ row' = row /\ phase' = phase
      /\ phase \in {"fills", "drain"} /\ Due(e)
      /\ inventory' = IF e.side = "bid" THEN inventory + e.lots ELSE inventory - e.lots
    BY DEF ApplyFill
<1>3. e \in Fill
    BY DEF PastInv, MInv, Shape
<1>4. \A f \in pending' : f \in pending /\ f.side # e.side
    BY <1>2 DEF PastInv, MInv, OnePending
<1>5. PICK o \in placed : Outstanding(o) /\ o.side = e.side /\ o.first = e.time /\ o.lots = e.lots
    BY DEF PastInv, FillsAreOrders
<1>6. o \in Order /\ e.lots > 0 /\ e.lots \in Nat /\ e.side \in Sides
    BY <1>3, MakerAssumption DEF Fill, PastInv, Orders
<1>7. Orders'
    BY <1>2 DEF PastInv, Orders
<1>8. \A p : p.side # e.side => (Outstanding(p)' <=> Outstanding(p))
    BY <1>2 DEF Outstanding, LastOfSide
<1>9. \A p : p.side = e.side => ~Outstanding(p)'
    BY <1>2, <1>4 DEF Outstanding
<1>10. FillsAreOrders'
    BY <1>2, <1>4, <1>8 DEF PastInv, FillsAreOrders
<1>11. \A p \in placed : p.side = e.side /\ Outstanding(p) => p = o
  <2> SUFFICES ASSUME NEW p \in placed, p.side = e.side, Outstanding(p) PROVE p = o
    OBVIOUS
  <2>1. p.number <= o.number /\ o.number <= p.number /\ p.number \in Nat /\ o.number \in Nat
    BY <1>5 DEF Outstanding, LastOfSide, PastInv, Orders, Order
  <2>2. p.number = o.number
    BY <2>1
  <2> QED BY <2>2 DEF PastInv, Orders
<1>12. \A side : side # e.side => Settled(side)' = Settled(side)
    BY <1>2, <1>8 DEF Settled
<1>13. Settled(e.side)' = Settled(e.side) \cup {o} /\ o \notin Settled(e.side)
    BY <1>2, <1>5, <1>6, <1>9, <1>11 DEF Settled
<1>14. \A side : IsFiniteSet(Settled(side)) /\ Settled(side) \subseteq Order
  <2> TAKE side
  <2>1. Settled(side) \in SUBSET placed
    BY DEF Settled
  <2> QED BY <2>1, FS_Subset DEF PastInv, Orders
<1>15. LotsOf(Settled(e.side))' = LotsOf(Settled(e.side)) + e.lots /\ LotsOf(Settled(e.side)) \in Nat
  <2>1. LotsOf(Settled(e.side) \cup {o}) = LotsOf(Settled(e.side)) + o.lots
        /\ LotsOf(Settled(e.side)) \in Nat
    BY <1>6, <1>13, <1>14, LotsAdd
  <2>2. LotsOf(Settled(e.side)') = LotsOf(Settled(e.side)) + o.lots
    BY <1>13, <2>1
  <2>3. LotsOf(Settled(e.side))' = LotsOf(Settled(e.side)')
    BY DEF LotsOf
  <2> QED BY <1>5, <2>1, <2>2, <2>3
<1>16. \A side : side # e.side => LotsOf(Settled(side))' = LotsOf(Settled(side))
    BY <1>12 DEF LotsOf
<1>17. Balanced'
  <2> DEFINE bids == LotsOf(Settled("bid"))
             asks == LotsOf(Settled("ask"))
  <2>1. inventory = bids - asks /\ inventory \in Int
    BY <1>2 DEF PastInv, Balanced, MInv, Shape
  <2>2. bids \in Nat /\ asks \in Nat
    <3>1. \A side : Settled(side) \in SUBSET placed
      BY DEF Settled
    <3>2. \A side : LotsOf(Settled(side)) \in Nat
      <4> TAKE side
      <4>1. CASE side = e.side
        BY <1>15, <4>1
      <4>2. CASE side # e.side
        <5>1. o \notin Settled(side)
          BY <1>5, <4>2 DEF Settled
        <5> QED BY <1>6, <1>14, <5>1, LotsAdd
      <4> QED BY <4>1, <4>2
    <3> QED BY <3>2
  <2>3. CASE e.side = "bid"
    <3>1. bids' = bids + e.lots /\ asks' = asks
      BY <1>15, <1>16, <2>3
    <3>2. inventory' = inventory + e.lots
      BY <1>2, <2>3
    <3> HIDE DEF bids, asks
    <3>3. inventory' = bids' - asks'
      BY <1>6, <2>1, <2>2, <3>1, <3>2
    <3> QED BY <3>3 DEF Balanced, bids, asks
  <2>4. CASE e.side = "ask"
    <3>1. asks' = asks + e.lots /\ bids' = bids
      BY <1>15, <1>16, <2>4
    <3>2. inventory' = inventory - e.lots
      BY <1>2, <2>4
    <3> HIDE DEF bids, asks
    <3>3. inventory' = bids' - asks'
      BY <1>6, <2>1, <2>2, <3>1, <3>2
    <3> QED BY <3>3 DEF Balanced, bids, asks
  <2> QED BY <1>6, <2>3, <2>4 DEF Sides
<1>18. SettledIsPast'
  <2> SUFFICES ASSUME phase = "fills", NEW side \in Sides, NEW p \in Settled(side)'
               PROVE  p.first <= row.at
    BY <1>2 DEF SettledIsPast
  <2>1. e.time <= row.at
    BY <1>2 DEF Due
  <2>2. p = o \/ p \in Settled(side)
    BY <1>12, <1>13
  <2> QED BY <1>5, <2>1, <2>2 DEF PastInv, SettledIsPast
<1> QED BY <1>1, <1>7, <1>10, <1>17, <1>18 DEF PastInv

\* An order is placed when the side has no fill to come, so it is the only one
\* of its side that may be outstanding.
LEMMA PlacedOrder ==
    ASSUME PastInv, NEW obi, NEW selected, Place(obi, selected)
    PROVE  PastInv'
<1> PICK order : order = [number |-> walked, at |-> row.at, side |-> row.side,
                          lots |-> row.fate.lots, first |-> row.fate.first, full |-> row.fate.full]
    OBVIOUS
<1> PICK fill : fill = [time |-> row.fate.first, sequence |-> sequence + 1,
                        side |-> row.side, lots |-> row.fate.lots]
    OBVIOUS
<1>1. MInv'
    BY PlaceStep DEF PastInv
<1>2. /\ placed' = placed \cup {order} /\ inventory' = inventory /\ row' = [at |-> row.at]
      /\ phase = "fills" /\ phase' = "next"
      /\ pending' = IF row.fate.lots > 0 THEN pending \cup {fill} ELSE pending
    BY DEF Place, Deciding
<1>3. /\ row.at \in Nat /\ row.side \in Sides /\ row.fate \in Fates(row.at) /\ walked \in Nat
    BY <1>2 DEF PastInv, MInv, Shape
<1>4. \A e \in pending : e.side # row.side
    BY FreeSideHasNoFill DEF PastInv, MInv, Place
<1>5. \A o \in placed : o.number < walked
    BY <1>2 DEF PastInv, MInv, OrdersEnd
<1>6. /\ Quantity \in Nat \ {0} /\ Lifetime \in Nat \ {0} /\ MaxPlacement \in Nat
    BY MakerAssumption
<1>7. /\ row.fate.lots \in 0 .. Quantity /\ row.fate.first \in Int /\ row.fate.full \in Int
      /\ row.fate.lots > 0 => row.fate.first <= row.at + Lifetime
    BY <1>3, <1>6 DEF Fates, Expiry
<1>8. order \in Order
    BY <1>3, <1>7 DEF Order
<1>9. Orders'
  <2>1. IsFiniteSet(placed') /\ placed' \subseteq Order
    BY <1>2, <1>8, FS_AddElement DEF PastInv, Orders
  <2>2. \A o, p \in placed' : o.number = p.number => o = p
  <3> SUFFICES ASSUME NEW o \in placed', NEW p \in placed', o.number = p.number PROVE o = p
      OBVIOUS
    <3>1. \A q \in placed : q.number # walked
      BY <1>3, <1>5 DEF PastInv, Orders, Order
    <3>2. order.number = walked
      OBVIOUS
    <3> QED BY <1>2, <3>1, <3>2 DEF PastInv, Orders
  <2>3. \A o \in placed' : o.lots > 0 => o.first <= MaxPlacement + Lifetime
    <3>1. order.lots > 0 => order.first <= MaxPlacement + Lifetime
      BY <1>3, <1>6, <1>7 DEF PastInv, Orders
    <3> QED BY <1>2, <3>1 DEF PastInv, Orders
  <2> QED BY <1>2, <2>1, <2>2, <2>3 DEF Orders, PastInv
<1>10. order.side = row.side /\ order.number = walked /\ order.lots = row.fate.lots
       /\ order.first = row.fate.first /\ fill.side = row.side /\ fill.time = row.fate.first
       /\ fill.lots = row.fate.lots
    OBVIOUS
\* The new order is the last of its side; the other side keeps its last one.
<1>11. \A o \in placed : o.number \in Nat /\ o # order
    BY <1>3, <1>5, <1>10 DEF PastInv, Orders, Order
<1>12. \A o \in placed : o.side = row.side => ~Outstanding(o) /\ ~Outstanding(o)'
  <2> SUFFICES ASSUME NEW o \in placed, o.side = row.side PROVE ~Outstanding(o) /\ ~Outstanding(o)'
    OBVIOUS
  <2>1. ~Outstanding(o)
    BY <1>4 DEF Outstanding
  <2>2. order \in placed' /\ ~(order.number <= o.number)
    BY <1>2, <1>3, <1>5, <1>10, <1>11
  <2>3. ~LastOfSide(o)'
    BY <1>10, <2>2 DEF LastOfSide
  <2> QED BY <2>1, <2>3 DEF Outstanding
<1>13. \A o \in placed : o.side # row.side => (Outstanding(o)' <=> Outstanding(o))
  <2> SUFFICES ASSUME NEW o \in placed, o.side # row.side PROVE Outstanding(o)' <=> Outstanding(o)
    OBVIOUS
  <2>1. LastOfSide(o)' <=> LastOfSide(o)
    BY <1>2, <1>10 DEF LastOfSide
  <2>2. (\E e \in pending' : e.side = o.side) <=> (\E e \in pending : e.side = o.side)
    BY <1>2, <1>10
  <2> QED BY <2>1, <2>2 DEF Outstanding
<1>14. LastOfSide(order)'
  <2> SUFFICES ASSUME NEW p \in placed' PROVE p.number <= order.number
    BY DEF LastOfSide
  <2>1. CASE p = order
    BY <1>3, <1>10, <2>1
  <2>2. CASE p \in placed
    BY <1>3, <1>5, <1>10, <1>11, <2>2
  <2> QED BY <1>2, <2>1, <2>2
<1>15. order.lots > 0 => Outstanding(order)'
  <2> SUFFICES ASSUME order.lots > 0 PROVE \E e \in pending' : e.side = order.side
    BY <1>14 DEF Outstanding
  <2>1. fill \in pending'
    BY <1>2, <1>10
  <2> QED BY <1>10, <2>1
<1>16. \A side : Settled(side)' = Settled(side)
  <2> TAKE side
  <2>1. \A o : o \in placed' /\ o.side = side /\ o.lots > 0 /\ ~Outstanding(o)'
               <=> o \in placed /\ o.side = side /\ o.lots > 0 /\ ~Outstanding(o)
    <3> TAKE o
    <3>1. CASE o = order
      BY <1>11, <1>15, <3>1
    <3>2. CASE o \in placed
      BY <1>2, <1>12, <1>13, <3>2
    <3>3. CASE o # order /\ o \notin placed
      BY <1>2, <3>3
    <3> QED BY <3>1, <3>2, <3>3
  <2> QED BY <2>1 DEF Settled
<1>17. Balanced'
    BY <1>2, <1>16 DEF PastInv, Balanced, LotsOf
<1>18. SettledIsPast'
    BY <1>2, <1>16 DEF PastInv, SettledIsPast
<1>19. FillsAreOrders'
  <2> SUFFICES ASSUME NEW e \in pending'
               PROVE  \E o \in placed' : /\ Outstanding(o)' /\ o.side = e.side
                                         /\ o.first = e.time /\ o.lots = e.lots
    BY DEF FillsAreOrders
  <2>1. CASE e \in pending
    <3>1. PICK o \in placed : Outstanding(o) /\ o.side = e.side /\ o.first = e.time /\ o.lots = e.lots
      BY <2>1 DEF PastInv, FillsAreOrders
    <3>2. o.side # row.side
      BY <1>4, <2>1, <3>1
    <3> QED BY <1>2, <1>13, <3>1, <3>2
  <2>2. CASE e \notin pending
    <3>1. row.fate.lots > 0 /\ e = fill
      BY <1>2, <2>2
    <3> QED BY <1>2, <1>10, <1>15, <3>1
  <2> QED BY <2>1, <2>2
<1> QED BY <1>1, <1>9, <1>17, <1>18, <1>19 DEF PastInv

LEMMA PastNext == PastInv /\ [MNext]_mvars => PastInv'
<1> SUFFICES ASSUME PastInv, [MNext]_mvars PROVE PastInv'
    OBVIOUS
<1>1. MInv'
    BY NextMInv DEF PastInv
<1>2. row.at \in Nat /\ row.at <= MaxPlacement /\ MaxPlacement \in Nat
    BY MakerAssumption DEF PastInv, MInv, Shape, Orders
<1>3. ASSUME NEW at \in 0 .. MaxPlacement, NEW side \in Sides, NEW fate \in Fates(at),
             NextRow(at, side, fate)
      PROVE  PastInv'
  <2>1. /\ UNCHANGED <<placed, pending, inventory>> /\ phase = "next" /\ phase' = "fills"
        /\ row.at <= at /\ row'.at = at
    BY <1>3 DEF NextRow
  <2> QED BY <1>1, <1>2, <2>1, NothingPlaced
<1>4. ASSUME NEW e \in pending, ApplyFill(e) PROVE PastInv'
    BY <1>4, FillSettles
<1>5. ASSUME NEW obi \in Obi, NEW selected \in BOOLEAN, NotPlaced(obi, selected) PROVE PastInv'
  <2>1. /\ UNCHANGED <<placed, pending, inventory>> /\ phase = "fills" /\ phase' = "next"
        /\ row'.at = row.at
    BY <1>5 DEF NotPlaced, Deciding
  <2> QED BY <1>1, <1>2, <2>1, NothingPlaced
<1>6. ASSUME NEW obi \in Obi, NEW selected \in BOOLEAN, Place(obi, selected) PROVE PastInv'
    BY <1>6, PlacedOrder
<1>7. CASE EndOfSchedule
  <2>1. UNCHANGED <<placed, pending, inventory, row>> /\ phase = "next" /\ phase' = "drain"
    BY <1>7 DEF EndOfSchedule
  <2> QED BY <1>1, <1>2, <2>1, NothingPlaced
<1>8. CASE Liquidate
  <2>1. UNCHANGED <<placed, pending, row>> /\ phase = "drain" /\ phase' = "done"
    BY <1>8 DEF Liquidate
  <2> QED BY <1>1, <1>2, <2>1, NothingPlaced
<1>9. CASE UNCHANGED mvars
  <2>1. UNCHANGED <<placed, pending, inventory, row, phase>>
    BY <1>9 DEF mvars
  <2> QED BY <1>1, <1>2, <2>1, NothingPlaced
<1> QED BY <1>3, <1>4, <1>5, <1>6, <1>7, <1>8, <1>9 DEF MNext

\* simulate_schedule: a decision is made with the fills up to its time in the
\* inventory and no later one, for every schedule, policy and delay of the
\* placements; at the end of the day every fill has been counted once.
THEOREM DecisionsKnowOnlyThePast == MSpec => []DecisionsKnowThePast
<1>1. MInit => PastInv
    BY PastInit
<1>2. PastInv /\ [MNext]_mvars => PastInv'
    BY PastNext
<1>3. PastInv => DecisionsKnowThePast
  <2> SUFFICES ASSUME PastInv PROVE DecisionsKnowThePast
    OBVIOUS
  <2> DEFINE end == MaxPlacement + Lifetime
  <2>1. \A o \in placed : /\ o.first \in Int /\ o.side \in Sides
                          /\ o.lots > 0 => o.first <= end
    BY DEF PastInv, Orders, Order
  <2> DEFINE By(time, side) == {o \in placed : o.side = side /\ o.lots > 0 /\ o.first <= time}
  <2>2. \A time, side : FilledBy(time, side) = LotsOf(By(time, side))
    BY DEF FilledBy
  <2>3. ASSUME Deciding, NEW side \in Sides
        PROVE  By(row.at, side) = Settled(side)
    <3>1. phase = "fills" /\ row.at \in Nat
      BY <2>3 DEF Deciding, PastInv, MInv, Shape
    <3>2. \A o \in Settled(side) : o.first <= row.at
      BY <3>1 DEF PastInv, SettledIsPast
    <3>3. ASSUME NEW o \in placed, o.side = side, o.lots > 0, Outstanding(o)
          PROVE  ~(o.first <= row.at)
      <4>1. PICK e \in pending : e.side = side
        BY <3>3 DEF Outstanding
      <4>2. PICK p \in placed : Outstanding(p) /\ p.side = e.side /\ p.first = e.time
        BY DEF PastInv, FillsAreOrders
      <4>3. p.number <= o.number /\ o.number <= p.number /\ p.number \in Nat /\ o.number \in Nat
        BY <3>3, <4>1, <4>2 DEF Outstanding, LastOfSide, PastInv, Orders, Order
      <4>4. p = o
        BY <4>3 DEF PastInv, Orders
      <4>5. row.at < e.time
        BY <2>3, DecidedLater DEF PastInv, MInv
      <4> QED BY <2>1, <3>1, <4>2, <4>4, <4>5
    <3> QED BY <3>2, <3>3 DEF Settled
  <2>4. ASSUME phase = "drain", pending = {}, NEW side \in Sides
        PROVE  By(end, side) = Settled(side)
    BY <2>1, <2>4 DEF Settled, Outstanding
  <2>5. "bid" \in Sides /\ "ask" \in Sides
    BY DEF Sides
  <2>6. Deciding \/ phase = "drain" => inventory = LotsOf(Settled("bid")) - LotsOf(Settled("ask"))
    BY DEF PastInv, Balanced, Deciding
  <2> HIDE DEF By
  <2>7. Deciding => inventory = FilledBy(row.at, "bid") - FilledBy(row.at, "ask")
    BY <2>2, <2>3, <2>5, <2>6
  <2>8. phase = "drain" /\ pending = {} =>
           inventory = FilledBy(end, "bid") - FilledBy(end, "ask")
    BY <2>2, <2>4, <2>5, <2>6
  <2> QED BY <2>7, <2>8 DEF DecisionsKnowThePast
<1> QED BY <1>1, <1>2, <1>3, PTL DEF MSpec

-------------------------------------------------------------------------------
(* The taker: run_day. *)

\* What run_day is given is of its type, and a valid row has sorted levels on
\* both sides.
Level == [px : Nat \ {0}, qty : Nat \ {0}]
Levels == Seq(Level)

Ascending(levels) == \A i, j \in DOMAIN levels : i < j => levels[i].px <= levels[j].px
Descending(levels) == \A i, j \in DOMAIN levels : i < j => levels[i].px >= levels[j].px

-------------------------------------------------------------------------------
(* The segments of a frame. *)

\* compute_features numbers the runs of valid rows: two rows of one number
\* have nothing but valid rows of one book between them.
LEMMA OneRun ==
    ASSUME NEW f, NEW d \in Nat \ {0}, NEW e \in Nat, d <= e, Countable(f, d), Countable(f, e),
           FeatureSegment(f, d) = FeatureSegment(f, e)
    PROVE  \A i \in d .. e : Countable(f, i) /\ f[i].book = f[d].book
<1> DEFINE Starts(i) == {j \in 1 .. i : StartsRun(f, j)}
<1>1. /\ IsFiniteSet(Starts(e)) /\ Starts(d) \in SUBSET Starts(e)
      /\ Cardinality(Starts(d)) = Cardinality(Starts(e))
  <2>1. IsFiniteSet(1 .. e)
    BY FS_Interval
  <2>2. Starts(e) \in SUBSET (1 .. e)
    OBVIOUS
  <2>3. IsFiniteSet(Starts(e))
    <3> HIDE DEF Starts
    <3> QED
      BY <2>1, <2>2, FS_Subset
  <2> QED
    BY <2>3 DEF FeatureSegment
<1>2. Starts(d) = Starts(e)
  <2> HIDE DEF Starts
  <2> QED
    BY <1>1, FS_Subset
<1>3. \A j \in d + 1 .. e : ~StartsRun(f, j)
  <2> SUFFICES ASSUME NEW j \in d + 1 .. e, StartsRun(f, j) PROVE FALSE
    OBVIOUS
  <2>1. j \in Starts(e) /\ j \notin Starts(d)
    OBVIOUS
  <2> QED
    BY <1>2, <2>1
<1> DEFINE T == {n \in Nat : n <= e - d => Countable(f, e - n) /\ f[e - n].book = f[e].book}
<1>4. 0 \in T
  OBVIOUS
<1>5. ASSUME NEW n \in Nat, n \in T PROVE n + 1 \in T
  <2> SUFFICES ASSUME n + 1 <= e - d
               PROVE  Countable(f, e - (n + 1)) /\ f[e - (n + 1)].book = f[e].book
    OBVIOUS
  <2>1. Countable(f, e - n) /\ f[e - n].book = f[e].book
    BY <1>5
  <2>2. e - n \in d + 1 .. e /\ e - n > 1 /\ (e - n) - 1 = e - (n + 1)
    OBVIOUS
  <2>3. ~StartsRun(f, e - n)
    BY <1>3, <2>2
  <2> QED
    BY <2>1, <2>2, <2>3 DEF StartsRun
<1>6. Nat \subseteq T
  <2> HIDE DEF T
  <2> QED
    BY <1>4, <1>5, NumbersInduct
<1>7. ASSUME NEW i \in d .. e PROVE Countable(f, i) /\ f[i].book = f[e].book
  <2>1. e - i \in Nat /\ e - i <= e - d /\ e - (e - i) = i
    OBVIOUS
  <2> QED
    BY <1>6, <2>1
<1> QED
  BY <1>7

-------------------------------------------------------------------------------
(* The walk through the book. *)

Walked == [remaining : Nat, notional : Nat]

\* One turn of the loop.
WalkedOn(levels, i, v) ==
    [remaining |-> v.remaining - Least(v.remaining, levels[i].qty),
     notional |-> v.notional + Least(v.remaining, levels[i].qty) * levels[i].px]

LEMMA LevelType ==
    ASSUME NEW levels \in Levels
    PROVE  /\ Len(levels) \in Nat /\ DOMAIN levels = 1 .. Len(levels)
           /\ \A i \in 1 .. Len(levels) : levels[i].px \in Nat \ {0} /\ levels[i].qty \in Nat \ {0}
<1>1. ASSUME NEW S, NEW s \in Seq(S)
      PROVE  Len(s) \in Nat /\ DOMAIN s = 1 .. Len(s) /\ \A i \in 1 .. Len(s) : s[i] \in S
  OBVIOUS
<1>2. Len(levels) \in Nat /\ DOMAIN levels = 1 .. Len(levels) /\ \A i \in 1 .. Len(levels) : levels[i] \in Level
  BY <1>1 DEF Levels
<1> QED
  BY <1>2 DEF Level

LEMMA Product ==
    ASSUME NEW a \in Nat, NEW b \in Nat
    PROVE  a * b \in Nat
OBVIOUS

LEMMA LeastType ==
    ASSUME NEW a \in Nat, NEW b \in Nat
    PROVE  /\ Least(a, b) \in Nat /\ Least(a, b) <= a /\ Least(a, b) <= b
           /\ Least(a, b) = a \/ Least(a, b) = b
BY DEF Least

\* What is computed of the walk is what its turns do one after the other.
LEMMA WalkTurns ==
    ASSUME NEW levels \in Levels, NEW quantity \in Nat
    PROVE  \E walk \in [0 .. Len(levels) -> Walked] :
              /\ Walk(levels, quantity) = walk[Len(levels)]
              /\ walk[0] = [remaining |-> quantity, notional |-> 0]
              /\ \A i \in 1 .. Len(levels) : walk[i] = WalkedOn(levels, i, walk[i - 1])
<1> DEFINE N == Len(levels)
           start == [remaining |-> quantity, notional |-> 0]
           rule == [i \in 1 .. N |-> [v \in Walked |-> WalkedOn(levels, i, v)]]
           Computes(f) == f = [i \in 0 .. Len(levels) |->
                IF i = 0 THEN [remaining |-> quantity, notional |-> 0]
                ELSE LET taken == Least(f[i - 1].remaining, levels[i].qty)
                     IN  [remaining |-> f[i - 1].remaining - taken,
                          notional |-> f[i - 1].notional + taken * levels[i].px]]
           walk == CHOOSE f : Computes(f)
<1>1. N \in Nat /\ start \in Walked
  BY DEF Levels, Walked
<1>2. ASSUME NEW i \in 1 .. N, NEW v \in Walked PROVE WalkedOn(levels, i, v) \in Walked
  <2>1. levels[i].qty \in Nat /\ levels[i].px \in Nat /\ v.remaining \in Nat /\ v.notional \in Nat
    <3>1. levels[i].qty \in Nat /\ levels[i].px \in Nat
      BY LevelType
    <3> QED
      BY <3>1 DEF Walked
  <2> DEFINE taken == Least(v.remaining, levels[i].qty)
  <2>2. taken \in Nat /\ taken <= v.remaining
    BY <2>1, LeastType
  <2> HIDE DEF taken
  <2>3. taken * levels[i].px \in Nat
    BY <2>1, <2>2, Product
  <2>4. v.remaining - taken \in Nat
    BY <2>1, <2>2
  <2>5. v.notional + taken * levels[i].px \in Nat
    <3> DEFINE product == taken * levels[i].px
    <3>1. product \in Nat
      BY <2>3
    <3> HIDE DEF product
    <3>2. v.notional + product \in Nat
      BY <2>1, <3>1
    <3> QED
      BY <3>2 DEF product
  <2> QED
    BY <2>4, <2>5 DEF WalkedOn, Walked, taken
<1>3. \A i \in 1 .. N, v \in Walked : rule[i][v] \in Walked
  BY <1>2
<1>4. PICK f \in [0 .. N -> Walked] : f[0] = start /\ \A i \in 1 .. N : f[i] = rule[i][f[i - 1]]
  <2> HIDE DEF N, start, rule
  <2>1. Recurses(Walked, start, N, rule)
    BY <1>1, <1>3, Recursion
  <2> QED
    BY <2>1 DEF Recurses
<1>5. Computes(f)
  <2>1. ASSUME NEW i \in 0 .. N, i # 0
        PROVE  f[i] = WalkedOn(levels, i, f[i - 1])
    <3>1. i \in 1 .. N /\ i - 1 \in 0 .. N
      BY <1>1, <2>1
    <3> QED
      BY <1>4, <3>1
  <2> QED
    BY <1>4, <2>1 DEF WalkedOn
<1>6. Computes(walk)
  <2> HIDE DEF Computes
  <2> QED
    BY <1>5
<1>7. Walk(levels, quantity) = walk[N]
  BY DEF Walk
<1> HIDE DEF walk
<1>8. walk[0] = start /\ \A i \in 1 .. N : walk[i] = WalkedOn(levels, i, walk[i - 1])
  BY <1>1, <1>6 DEF WalkedOn
<1> DEFINE T == {n \in Nat : n <= N => walk[n] \in Walked}
<1>9. 0 \in T
  BY <1>1, <1>8
<1>10. ASSUME NEW n \in Nat, n \in T PROVE n + 1 \in T
  <2> SUFFICES ASSUME n + 1 <= N PROVE walk[n + 1] \in Walked
    OBVIOUS
  <2>1. n + 1 \in 1 .. N /\ (n + 1) - 1 = n /\ walk[n] \in Walked
    BY <1>1, <1>10
  <2> QED
    BY <1>2, <1>8, <2>1
<1>11. Nat \subseteq T
  <2> HIDE DEF T
  <2> QED
    BY <1>9, <1>10, NumbersInduct
<1>12. walk \in [0 .. N -> Walked]
  <2>1. \A i \in 0 .. N : walk[i] \in Walked
    BY <1>1, <1>11
  <2>2. walk = [i \in 0 .. N |-> walk[i]]
    BY <1>6
  <2> HIDE DEF N
  <2> QED
    BY <2>1, <2>2
<1> QED
  BY <1>7, <1>8, <1>12

\* The same for the sum of a taking.
LEMMA CostTurns ==
    ASSUME NEW levels, Len(levels) \in Nat, \A i \in 1 .. Len(levels) : levels[i].px \in Nat,
           NEW t \in [1 .. Len(levels) -> Nat]
    PROVE  \E sum \in [0 .. Len(levels) -> Nat] :
              /\ Cost(levels, t) = sum[Len(levels)]
              /\ sum[0] = 0
              /\ \A i \in 1 .. Len(levels) : sum[i] = sum[i - 1] + t[i] * levels[i].px
<1> DEFINE N == Len(levels)
           rule == [i \in 1 .. N |-> [v \in Nat |-> v + t[i] * levels[i].px]]
           Computes(f) == f = [i \in 0 .. Len(levels) |->
                IF i = 0 THEN 0 ELSE f[i - 1] + t[i] * levels[i].px]
           sum == CHOOSE f : Computes(f)
<1>1. ASSUME NEW i \in 1 .. N, NEW v \in Nat PROVE v + t[i] * levels[i].px \in Nat
  <2>1. t[i] \in Nat /\ levels[i].px \in Nat
    OBVIOUS
  <2>2. t[i] * levels[i].px \in Nat
    BY <2>1, Product
  <2> QED
    BY <2>2
<1>2. \A i \in 1 .. N, v \in Nat : rule[i][v] \in Nat
  BY <1>1
<1>3. PICK f \in [0 .. N -> Nat] : f[0] = 0 /\ \A i \in 1 .. N : f[i] = rule[i][f[i - 1]]
  <2> HIDE DEF N, rule
  <2>1. N \in Nat /\ 0 \in Nat
    BY DEF N
  <2>2. Recurses(Nat, 0, N, rule)
    BY <1>2, <2>1, Recursion
  <2> QED
    BY <2>2 DEF Recurses
<1>4. Computes(f)
  <2>1. ASSUME NEW i \in 0 .. N, i # 0
        PROVE  f[i] = f[i - 1] + t[i] * levels[i].px
    <3>1. i \in 1 .. N /\ i - 1 \in 0 .. N
      BY <2>1
    <3> QED
      BY <1>3, <3>1
  <2> QED
    BY <1>3, <2>1
<1>5. Computes(sum)
  <2> HIDE DEF Computes
  <2> QED
    BY <1>4
<1>6. Cost(levels, t) = sum[N]
  BY DEF Cost
<1> HIDE DEF sum
<1>7. sum[0] = 0 /\ \A i \in 1 .. N : sum[i] = sum[i - 1] + t[i] * levels[i].px
  BY <1>5
<1> DEFINE T == {n \in Nat : n <= N => sum[n] \in Nat}
<1>8. 0 \in T
  BY <1>7
<1>9. ASSUME NEW n \in Nat, n \in T PROVE n + 1 \in T
  <2> SUFFICES ASSUME n + 1 <= N PROVE sum[n + 1] \in Nat
    OBVIOUS
  <2>1. n + 1 \in 1 .. N /\ (n + 1) - 1 = n /\ sum[n] \in Nat
    BY <1>9
  <2> QED
    BY <1>1, <1>7, <2>1
<1>10. Nat \subseteq T
  <2> HIDE DEF T
  <2> QED
    BY <1>8, <1>9, NumbersInduct
<1>11. sum \in [0 .. N -> Nat]
  <2>1. \A i \in 0 .. N : sum[i] \in Nat
    BY <1>10
  <2>2. sum = [i \in 0 .. N |-> sum[i]]
    BY <1>5
  <2> HIDE DEF N
  <2> QED
    BY <2>1, <2>2
<1> QED
  BY <1>6, <1>7, <1>11


\* The sums of a taking next to those of the walk, level by level: the walk is
\* never behind, as it takes what it can.
WalkSums(levels, quantity, walk) ==
    /\ walk \in [0 .. Len(levels) -> Walked]
    /\ Walk(levels, quantity) = walk[Len(levels)]
    /\ walk[0] = [remaining |-> quantity, notional |-> 0]
    /\ \A i \in 1 .. Len(levels) : walk[i] = WalkedOn(levels, i, walk[i - 1])

TakingSums(levels, t, sum, cost) ==
    /\ sum \in [0 .. Len(levels) -> Nat] /\ cost \in [0 .. Len(levels) -> Nat]
    /\ Cost(levels, t) = cost[Len(levels)]
    /\ sum[0] = 0 /\ cost[0] = 0
    /\ \A i \in 1 .. Len(levels) : /\ sum[i] = sum[i - 1] + t[i]
                                   /\ cost[i] = cost[i - 1] + t[i] * levels[i].px

\* What a taking takes is counted by a sum at the price of one.
LEMMA SumsOfTaking ==
    ASSUME NEW levels \in Levels, NEW t \in [1 .. Len(levels) -> Nat]
    PROVE  \E sum, cost :
              /\ TakingSums(levels, t, sum, cost)
              /\ Cost([i \in DOMAIN levels |-> [px |-> 1]], t) = sum[Len(levels)]
<1> DEFINE N == Len(levels)
           ones == [i \in DOMAIN levels |-> [px |-> 1]]
<1>1. /\ N \in Nat /\ DOMAIN levels = 1 .. N
      /\ \A i \in 1 .. N : levels[i].px \in Nat
  BY LevelType
<1>2. Len(ones) = N /\ \A i \in 1 .. N : ones[i].px = 1
  <2> HIDE DEF N
  <2>1. ones = [i \in 1 .. N |-> [px |-> 1]]
    BY <1>1
  <2> QED
    BY <1>1, <2>1
<1> HIDE DEF ones
<1>3. PICK cost \in [0 .. N -> Nat] :
         /\ Cost(levels, t) = cost[N]
         /\ cost[0] = 0
         /\ \A i \in 1 .. N : cost[i] = cost[i - 1] + t[i] * levels[i].px
  BY <1>1, CostTurns
<1>4. PICK sum \in [0 .. N -> Nat] :
         /\ Cost(ones, t) = sum[N]
         /\ sum[0] = 0
         /\ \A i \in 1 .. N : sum[i] = sum[i - 1] + t[i] * ones[i].px
  <2>1. Len(ones) \in Nat /\ \A i \in 1 .. Len(ones) : ones[i].px \in Nat
    BY <1>1, <1>2
  <2>2. t \in [1 .. Len(ones) -> Nat]
    BY <1>2
  <2> HIDE DEF N
  <2> QED
    BY <1>2, <2>1, <2>2, CostTurns
<1>5. \A i \in 1 .. N : sum[i] = sum[i - 1] + t[i]
  BY <1>1, <1>2, <1>4
<1> QED
  BY <1>3, <1>4, <1>5 DEF TakingSums, ones

LEMMA WalkIsAhead ==
    ASSUME NEW levels \in Levels, NEW quantity \in Nat, NEW t \in Takings(levels, quantity)
    PROVE  \E walk, sum, cost :
              /\ WalkSums(levels, quantity, walk) /\ TakingSums(levels, t, sum, cost)
              /\ sum[Len(levels)] = quantity
              /\ \A i \in 0 .. Len(levels) : walk[i].remaining + sum[i] <= quantity
<1> DEFINE N == Len(levels)
<1>1. /\ N \in Nat /\ DOMAIN levels = 1 .. N
      /\ \A i \in 1 .. N : levels[i].px \in Nat /\ levels[i].qty \in Nat
  BY LevelType
<1>2. /\ t \in [1 .. N -> Nat] /\ \A i \in 1 .. N : t[i] <= levels[i].qty
      /\ Cost([i \in DOMAIN levels |-> [px |-> 1]], t) = quantity
  BY <1>1 DEF Takings
<1>3. PICK sum, cost : TakingSums(levels, t, sum, cost) /\ sum[N] = quantity
  BY <1>2, SumsOfTaking
<1>4. PICK walk : WalkSums(levels, quantity, walk)
  BY WalkTurns DEF WalkSums
\* The taking does not take more than the quantity on the way either.
<1> DEFINE S == {n \in Nat : n <= N => sum[N - n] <= quantity}
<1>5. 0 \in S
  BY <1>1, <1>3
<1>6. ASSUME NEW n \in Nat, n \in S PROVE n + 1 \in S
  <2> SUFFICES ASSUME n + 1 <= N PROVE sum[N - (n + 1)] <= quantity
    OBVIOUS
  <2>1. sum[N - n] <= quantity
    BY <1>6, <1>1
  <2>2. N - n \in 1 .. N /\ (N - n) - 1 = N - (n + 1) /\ N - (n + 1) \in 0 .. N
    BY <1>1
  <2>3. sum[N - n] = sum[N - (n + 1)] + t[N - n]
    BY <1>3, <2>2 DEF TakingSums
  <2>4. t[N - n] \in Nat /\ sum[N - (n + 1)] \in Nat
    BY <1>2, <1>3, <2>2 DEF TakingSums
  <2> QED
    BY <2>1, <2>3, <2>4
<1>7. Nat \subseteq S
  <2> HIDE DEF S
  <2> QED
    BY <1>5, <1>6, NumbersInduct
<1>8. ASSUME NEW i \in 0 .. N PROVE sum[i] <= quantity
  <2>1. N - i \in Nat /\ N - i <= N /\ N - (N - i) = i
    BY <1>1
  <2> QED
    BY <1>7, <2>1
<1> DEFINE T == {n \in Nat : n <= N => walk[n].remaining + sum[n] <= quantity}
<1>9. 0 \in T
  BY <1>3, <1>4 DEF WalkSums, TakingSums
<1>10. ASSUME NEW n \in Nat, n \in T PROVE n + 1 \in T
  <2> SUFFICES ASSUME n + 1 <= N PROVE walk[n + 1].remaining + sum[n + 1] <= quantity
    OBVIOUS
  <2>1. n + 1 \in 1 .. N /\ n \in 0 .. N /\ n + 1 \in 0 .. N /\ (n + 1) - 1 = n
    BY <1>1
  <2>2. /\ walk[n].remaining \in Nat /\ sum[n] \in Nat /\ sum[n + 1] \in Nat
        /\ t[n + 1] \in Nat /\ t[n + 1] <= levels[n + 1].qty /\ levels[n + 1].qty \in Nat
    BY <1>1, <1>2, <1>3, <1>4, <2>1 DEF WalkSums, TakingSums, Walked
  <2> DEFINE taken == Least(walk[n].remaining, levels[n + 1].qty)
  <2>3. walk[n + 1].remaining = walk[n].remaining - taken /\ sum[n + 1] = sum[n] + t[n + 1]
    <3>1. walk[n + 1] = WalkedOn(levels, n + 1, walk[n])
      BY <1>4, <2>1 DEF WalkSums
    <3>2. WalkedOn(levels, n + 1, walk[n]).remaining = walk[n].remaining - taken
      BY DEF WalkedOn
    <3> QED
      BY <1>3, <2>1, <3>1, <3>2 DEF TakingSums
  <2>4. taken = walk[n].remaining \/ taken = levels[n + 1].qty
    BY <2>2, LeastType
  <2>5. walk[n].remaining + sum[n] <= quantity /\ sum[n + 1] <= quantity
    BY <1>8, <1>10, <2>1
  <2> HIDE DEF taken
  <2>6. CASE taken = walk[n].remaining
    <3>1. walk[n + 1].remaining = 0
      BY <2>2, <2>3, <2>6
    <3> QED
      BY <2>2, <2>5, <3>1
  <2>7. CASE taken = levels[n + 1].qty
    BY <2>2, <2>3, <2>5, <2>7
  <2> QED
    BY <2>4, <2>6, <2>7
<1>11. Nat \subseteq T
  <2> HIDE DEF T
  <2> QED
    BY <1>9, <1>10, NumbersInduct
<1>12. \A i \in 0 .. N : walk[i].remaining + sum[i] <= quantity
  BY <1>11
<1> QED
  BY <1>3, <1>4, <1>12

\* The walk is one of the takings.
LEMMA WalkIsTaking ==
    ASSUME NEW levels \in Levels, NEW quantity \in Nat, Walk(levels, quantity).remaining = 0
    PROVE  Walk(levels, quantity).notional \in Costs(levels, quantity)
<1> DEFINE N == Len(levels)
<1>1. /\ N \in Nat /\ DOMAIN levels = 1 .. N
      /\ \A i \in 1 .. N : levels[i].px \in Nat /\ levels[i].qty \in Nat
  BY LevelType
<1>2. PICK walk : WalkSums(levels, quantity, walk)
  BY WalkTurns DEF WalkSums
<1> DEFINE t == [i \in 1 .. N |-> Least(walk[i - 1].remaining, levels[i].qty)]
<1>3. ASSUME NEW i \in 1 .. N
      PROVE  /\ t[i] \in Nat /\ t[i] <= levels[i].qty
             /\ walk[i - 1].remaining \in Nat /\ walk[i].remaining \in Nat
             /\ walk[i - 1].notional \in Nat
             /\ walk[i].remaining = walk[i - 1].remaining - t[i]
             /\ walk[i].notional = walk[i - 1].notional + t[i] * levels[i].px
  <2>1. i - 1 \in 0 .. N /\ i \in 0 .. N
    BY <1>1
  <2>2. walk[i - 1] \in Walked /\ walk[i] \in Walked /\ walk[i] = WalkedOn(levels, i, walk[i - 1])
    BY <1>2, <2>1 DEF WalkSums
  <2>3. walk[i - 1].remaining \in Nat /\ walk[i].remaining \in Nat /\ walk[i - 1].notional \in Nat
    BY <2>2 DEF Walked
  <2>4. t[i] = Least(walk[i - 1].remaining, levels[i].qty) /\ t[i] \in Nat /\ t[i] <= levels[i].qty
    BY <1>1, <2>3, LeastType
  <2> HIDE DEF t
  <2> QED
    BY <2>2, <2>3, <2>4 DEF WalkedOn
<1>4. t \in [1 .. N -> Nat]
  BY <1>3
<1> HIDE DEF t
<1>5. PICK sum, cost : /\ TakingSums(levels, t, sum, cost)
                       /\ Cost([i \in DOMAIN levels |-> [px |-> 1]], t) = sum[N]
  BY <1>4, SumsOfTaking
<1> DEFINE T == {n \in Nat : n <= N => /\ sum[n] + walk[n].remaining = quantity
                                       /\ cost[n] = walk[n].notional}
<1>6. 0 \in T
  BY <1>2, <1>5 DEF WalkSums, TakingSums
<1>7. ASSUME NEW n \in Nat, n \in T PROVE n + 1 \in T
  <2> SUFFICES ASSUME n + 1 <= N
               PROVE  /\ sum[n + 1] + walk[n + 1].remaining = quantity
                      /\ cost[n + 1] = walk[n + 1].notional
    OBVIOUS
  <2>1. n + 1 \in 1 .. N /\ n \in 0 .. N /\ (n + 1) - 1 = n
    BY <1>1
  <2>2. /\ sum[n + 1] = sum[n] + t[n + 1] /\ sum[n] \in Nat
        /\ cost[n + 1] = cost[n] + t[n + 1] * levels[n + 1].px
    BY <1>5, <2>1 DEF TakingSums
  <2>3. /\ t[n + 1] \in Nat /\ walk[n].remaining \in Nat
        /\ walk[n + 1].remaining = walk[n].remaining - t[n + 1]
        /\ walk[n + 1].notional = walk[n].notional + t[n + 1] * levels[n + 1].px
    BY <1>3, <2>1
  <2>4. sum[n] + walk[n].remaining = quantity /\ cost[n] = walk[n].notional
    BY <1>7, <2>1
  <2>5. sum[n + 1] + walk[n + 1].remaining = quantity
    BY <2>2, <2>3, <2>4
  <2>6. cost[n + 1] = walk[n + 1].notional
    BY <2>2, <2>3, <2>4
  <2> QED
    BY <2>5, <2>6
<1>8. Nat \subseteq T
  <2> HIDE DEF T
  <2> QED
    BY <1>6, <1>7, NumbersInduct
<1>9. sum[N] + walk[N].remaining = quantity /\ cost[N] = walk[N].notional /\ sum[N] \in Nat
  BY <1>1, <1>5, <1>8 DEF TakingSums
<1>10. sum[N] = quantity /\ Cost(levels, t) = Walk(levels, quantity).notional
  BY <1>2, <1>5, <1>9 DEF WalkSums, TakingSums
\* What is taken of one level is not more than the quantity.
<1>11. ASSUME NEW i \in 1 .. N PROVE t[i] \in 0 .. quantity
  <2>1. i - 1 \in Nat /\ i - 1 <= N /\ i - 1 \in 0 .. N
    BY <1>1
  <2>2. sum[i - 1] + walk[i - 1].remaining = quantity /\ sum[i - 1] \in Nat
    BY <1>5, <1>8, <2>1 DEF TakingSums
  <2>3. /\ t[i] \in Nat /\ walk[i - 1].remaining \in Nat /\ walk[i].remaining \in Nat
        /\ walk[i].remaining = walk[i - 1].remaining - t[i]
    BY <1>3
  <2>4. t[i] <= quantity
    BY <2>2, <2>3
  <2> QED
    BY <2>3, <2>4
<1>12. t \in Takings(levels, quantity)
  <2>1. t \in [DOMAIN levels -> 0 .. quantity]
    BY <1>1, <1>4, <1>11
  <2> QED
    BY <1>1, <1>3, <1>5, <1>10, <2>1 DEF Takings
<1> QED
  BY <1>10, <1>12 DEF Costs


\* If what the walk is ahead by costs no more than at the last price, that
\* remains so when both take from the next level, and the other way round.
LEMMA Slide ==
    ASSUME NEW n \in Nat, NEW c \in Nat, NEW ahd \in Nat, NEW k \in Nat, NEW x \in Nat, NEW p \in Nat
    PROVE  /\ n <= c + ahd * p => n + k * p <= (c + x * p) + (ahd + k - x) * p
           /\ n >= c + ahd * p => n + k * p >= (c + x * p) + (ahd + k - x) * p
<1>1. (ahd + k - x) * p = ahd * p + k * p - x * p
  OBVIOUS
<1> DEFINE A == ahd * p
           K == k * p
           X == x * p
<1>2. A \in Nat /\ K \in Nat /\ X \in Nat
  BY Product
<1>3. (ahd + k - x) * p = A + K - X
  BY <1>1
<1> DEFINE Z == (ahd + k - x) * p
<1> HIDE DEF A, K, X, Z
<1>4. Z = A + K - X
  BY <1>3 DEF Z
<1>5. /\ n <= c + A => n + K <= (c + X) + Z
      /\ n >= c + A => n + K >= (c + X) + Z
  BY <1>2, <1>4
<1> QED
  BY <1>5 DEF A, K, X, Z

LEMMA Dearer ==
    ASSUME NEW a \in Nat, NEW p \in Nat, NEW q \in Nat, p <= q
    PROVE  a * p <= a * q
<1>1. a * q = a * p + a * (q - p) /\ q - p \in Nat
  OBVIOUS
<1>2. a * p \in Nat /\ a * (q - p) \in Nat
  BY <1>1, Product
<1> DEFINE P == a * p
           R == a * (q - p)
<1>3. a * q = P + R
  BY <1>1
<1> HIDE DEF P, R
<1>4. P <= P + R
  BY <1>2 DEF P, R
<1> QED
  BY <1>3, <1>4 DEF P

Turned(levels, quantity, walk, sum, cost, i) ==
    \E k \in Nat, x \in Nat, n \in Nat, c \in Nat, a \in Nat :
        /\ n = walk[i - 1].notional /\ c = cost[i - 1]
        /\ a = quantity - walk[i - 1].remaining - sum[i - 1]
        /\ walk[i].notional = n + k * levels[i].px
        /\ cost[i] = c + x * levels[i].px
        /\ quantity - walk[i].remaining - sum[i] = a + k - x

\* One turn of both, in numbers: what the walk has spent against what the
\* taking has, and what the walk is ahead by at the price of the level.
LEMMA BothTake ==
    ASSUME NEW levels \in Levels, NEW quantity \in Nat, NEW t \in Takings(levels, quantity),
           NEW walk, NEW sum, NEW cost,
           WalkSums(levels, quantity, walk), TakingSums(levels, t, sum, cost),
           \A i \in 0 .. Len(levels) : walk[i].remaining + sum[i] <= quantity,
           NEW i \in 1 .. Len(levels)
    PROVE  Turned(levels, quantity, walk, sum, cost, i)
<1>1. /\ Len(levels) \in Nat /\ DOMAIN levels = 1 .. Len(levels)
      /\ levels[i].px \in Nat /\ levels[i].qty \in Nat
  BY LevelType
<1>2. i - 1 \in 0 .. Len(levels) /\ i \in 0 .. Len(levels)
  BY <1>1
<1>3. t[i] \in Nat /\ cost[i - 1] \in Nat /\ sum[i - 1] \in Nat
  BY <1>1, <1>2 DEF Takings, TakingSums
<1>4. walk[i - 1].remaining \in Nat /\ walk[i - 1].notional \in Nat
  BY <1>2 DEF WalkSums, Walked
<1> DEFINE k == Least(walk[i - 1].remaining, levels[i].qty)
           a == quantity - walk[i - 1].remaining - sum[i - 1]
<1>5. k \in Nat
  BY <1>1, <1>4, LeastType
<1>6. a \in Nat
  <2>1. walk[i - 1].remaining + sum[i - 1] <= quantity
    BY <1>2
  <2> QED
    BY <1>3, <1>4, <2>1
<1>7. walk[i].remaining = walk[i - 1].remaining - k
      /\ walk[i].notional = walk[i - 1].notional + k * levels[i].px
  <2>1. walk[i] = WalkedOn(levels, i, walk[i - 1])
    BY DEF WalkSums
  <2> QED
    BY <2>1 DEF WalkedOn
<1>8. sum[i] = sum[i - 1] + t[i] /\ cost[i] = cost[i - 1] + t[i] * levels[i].px
  BY DEF TakingSums
<1>9. quantity - walk[i].remaining - sum[i] = a + k - t[i]
  <2> HIDE DEF k
  <2>1. walk[i].remaining = walk[i - 1].remaining - k /\ sum[i] = sum[i - 1] + t[i]
    BY <1>7, <1>8
  <2>2. \A r, s, m, x, y, z \in Int :
           y = r - m /\ z = s + x => quantity - y - z = (quantity - r - s) + m - x
    OBVIOUS
  <2>3. walk[i].remaining \in Int /\ sum[i] \in Int
    BY <1>3, <1>4, <1>5, <2>1
  <2> DEFINE r == walk[i - 1].remaining
             s == sum[i - 1]
             x == t[i]
             y == walk[i].remaining
             z == sum[i]
  <2>4. r \in Int /\ s \in Int /\ k \in Int /\ x \in Int /\ y \in Int /\ z \in Int
    BY <1>3, <1>4, <1>5, <2>3
  <2>5. y = r - k /\ z = s + x
    BY <2>1
  <2> HIDE DEF r, s, x, y, z
  <2>6. quantity - y - z = (quantity - r - s) + k - x
    BY <2>2, <2>4, <2>5
  <2> QED
    BY <2>6 DEF r, s, x, y, z
<1> HIDE DEF k, a
<1>10. a = quantity - walk[i - 1].remaining - sum[i - 1]
  BY DEF a
<1>11. /\ walk[i].notional = walk[i - 1].notional + k * levels[i].px
       /\ cost[i] = cost[i - 1] + t[i] * levels[i].px
  BY <1>7, <1>8 DEF k
<1> QED
  BY <1>3, <1>4, <1>5, <1>6, <1>9, <1>10, <1>11 DEF Turned

\* Among rising prices no taking of the quantity is cheaper than the walk.
LEMMA WalkIsCheapest ==
    ASSUME NEW levels \in Levels, NEW quantity \in Nat, Ascending(levels),
           Walk(levels, quantity).remaining = 0, NEW c \in Costs(levels, quantity)
    PROVE  Walk(levels, quantity).notional <= c
<1> DEFINE N == Len(levels)
<1>1. /\ N \in Nat /\ DOMAIN levels = 1 .. N
      /\ \A i \in 1 .. N : levels[i].px \in Nat /\ levels[i].qty \in Nat
  BY LevelType
<1>2. PICK t \in Takings(levels, quantity) : c = Cost(levels, t)
  BY DEF Costs
<1>3. PICK walk, sum, cost :
         /\ WalkSums(levels, quantity, walk) /\ TakingSums(levels, t, sum, cost)
         /\ sum[N] = quantity
         /\ \A i \in 0 .. N : walk[i].remaining + sum[i] <= quantity
  BY WalkIsAhead
<1> DEFINE Ahead(i) == quantity - walk[i].remaining - sum[i]
           T == {n \in Nat : n + 1 <= N =>
                    walk[n + 1].notional <= cost[n + 1] + Ahead(n + 1) * levels[n + 1].px}
<1>4. ASSUME NEW i \in 0 .. N
      PROVE  Ahead(i) \in Nat /\ walk[i].notional \in Nat /\ cost[i] \in Nat
             /\ walk[i].remaining \in Nat /\ sum[i] \in Nat
  <2>1. walk[i] \in Walked /\ cost[i] \in Nat /\ sum[i] \in Nat
    BY <1>3 DEF WalkSums, TakingSums
  <2>2. walk[i].remaining \in Nat /\ walk[i].notional \in Nat
    BY <2>1 DEF Walked
  <2>3. walk[i].remaining + sum[i] <= quantity
    BY <1>3
  <2> QED
    BY <2>1, <2>2, <2>3
\* What a turn does if the bound holds before it, at the price of this level.
<1>5. ASSUME NEW i \in 1 .. N,
             walk[i - 1].notional <= cost[i - 1] + Ahead(i - 1) * levels[i].px
      PROVE  walk[i].notional <= cost[i] + Ahead(i) * levels[i].px
  <2> DEFINE p == levels[i].px
  <2>1. PICK k \in Nat, x \in Nat, n \in Nat, b \in Nat, a \in Nat :
           /\ n = walk[i - 1].notional /\ b = cost[i - 1]
           /\ a = Ahead(i - 1)
           /\ walk[i].notional = n + k * p
           /\ cost[i] = b + x * p
           /\ Ahead(i) = a + k - x
    <3>1. Turned(levels, quantity, walk, sum, cost, i)
      BY <1>3, BothTake
    <3> QED
      BY <3>1 DEF Turned
  <2>2. p \in Nat
    BY <1>1
  <2> HIDE DEF p, Ahead
  <2>3. n <= b + a * p
    BY <1>5, <2>1 DEF p
  <2>4. n + k * p <= (b + x * p) + (a + k - x) * p
    BY <2>2, <2>3, Slide
  <2>5. walk[i].notional <= cost[i] + Ahead(i) * p
    BY <2>1, <2>4
  <2> QED
    BY <2>5 DEF p
<1>6. 0 \in T
  <2> SUFFICES ASSUME 1 <= N
               PROVE  walk[1].notional <= cost[1] + Ahead(1) * levels[1].px
    OBVIOUS
  <2>1. walk[0].notional = 0 /\ cost[0] = 0 /\ Ahead(0) = 0 /\ levels[1].px \in Nat
    BY <1>1, <1>3 DEF WalkSums, TakingSums
  <2>2. walk[0].notional <= cost[0] + Ahead(0) * levels[1].px
    <3> HIDE DEF Ahead
    <3>1. 0 * levels[1].px = 0
      BY <2>1
    <3> QED
      BY <2>1, <3>1
  <2>3. 1 \in 1 .. N /\ 1 - 1 = 0
    BY <1>1
  <2> HIDE DEF Ahead
  <2> QED
    BY <1>5, <2>2, <2>3
<1>7. ASSUME NEW n \in Nat, n \in T PROVE n + 1 \in T
  <2> DEFINE i == n + 2
             p == levels[n + 1].px
             q == levels[n + 2].px
  <2> SUFFICES ASSUME i <= N
               PROVE  walk[i].notional <= cost[i] + Ahead(i) * levels[i].px
    <3> HIDE DEF Ahead
    <3>1. (n + 1) + 1 = i
      OBVIOUS
    <3> QED
      BY <3>1
  <2>1. i \in 1 .. N /\ n + 1 \in 1 .. N /\ n + 1 \in 0 .. N /\ i - 1 = n + 1
    BY <1>1
  <2>2. p \in Nat /\ q \in Nat /\ p <= q
    BY <1>1, <2>1 DEF Ascending
  <2> DEFINE a == Ahead(n + 1)
             m == walk[n + 1].notional
             b == cost[n + 1]
  <2>3. a \in Nat /\ m \in Nat /\ b \in Nat
    BY <1>4, <2>1
  <2>4. m <= b + a * p
    BY <1>7, <2>1
  <2>5. a * p <= a * q /\ a * p \in Nat /\ a * q \in Nat
    <3> HIDE DEF a, p, q
    <3> QED
      BY <2>2, <2>3, Dearer, Product
  <2>6. m <= b + a * q
    <3> DEFINE P == a * p
               Q == a * q
    <3> HIDE DEF a, p, q, m, b
    <3>1. m <= b + P /\ P <= Q /\ P \in Nat /\ Q \in Nat
      BY <2>4, <2>5
    <3> HIDE DEF P, Q
    <3>2. m <= b + Q
      BY <2>3, <3>1
    <3> QED
      BY <3>2 DEF Q
  <2>7. walk[i - 1].notional <= cost[i - 1] + Ahead(i - 1) * levels[i].px
    <3> HIDE DEF Ahead
    <3> QED
      BY <2>1, <2>6
  <2> HIDE DEF Ahead, i
  <2> QED
    BY <1>5, <2>1, <2>7
<1>8. Nat \subseteq T
  <2> HIDE DEF T
  <2> QED
    BY <1>6, <1>7, NumbersInduct
<1>9. walk[N].notional <= cost[N]
  <2>1. CASE N = 0
    BY <1>3, <2>1 DEF WalkSums, TakingSums
  <2>2. CASE N # 0
    <3>1. N - 1 \in Nat /\ (N - 1) + 1 = N /\ N \in 1 .. N /\ N \in 0 .. N
      BY <1>1, <2>2
    <3>2. walk[N].notional <= cost[N] + Ahead(N) * levels[N].px
      <4> HIDE DEF Ahead, N
      <4>1. N - 1 \in T
        BY <1>8, <3>1
      <4> QED
        BY <3>1, <4>1
    <3>3. Ahead(N) = 0
      <4>1. walk[N].remaining = 0 /\ sum[N] = quantity
        BY <1>3 DEF WalkSums
      <4> QED
        BY <4>1
    <3>4. levels[N].px \in Nat /\ cost[N] \in Nat
      BY <1>1, <1>4, <3>1
    <3> HIDE DEF Ahead, N
    <3>5. Ahead(N) * levels[N].px = 0
      BY <3>3, <3>4
    <3> QED
      BY <3>2, <3>4, <3>5
  <2> QED
    BY <2>1, <2>2
<1>10. Walk(levels, quantity).notional = walk[N].notional /\ c = cost[N]
  BY <1>2, <1>3 DEF WalkSums, TakingSums
<1> QED
  BY <1>9, <1>10


\* Among falling prices no taking of the quantity brings more than the walk.
LEMMA WalkIsDearest ==
    ASSUME NEW levels \in Levels, NEW quantity \in Nat, Descending(levels),
           Walk(levels, quantity).remaining = 0, NEW c \in Costs(levels, quantity)
    PROVE  Walk(levels, quantity).notional >= c
<1> DEFINE N == Len(levels)
<1>1. /\ N \in Nat /\ DOMAIN levels = 1 .. N
      /\ \A i \in 1 .. N : levels[i].px \in Nat /\ levels[i].qty \in Nat
  BY LevelType
<1>2. PICK t \in Takings(levels, quantity) : c = Cost(levels, t)
  BY DEF Costs
<1>3. PICK walk, sum, cost :
         /\ WalkSums(levels, quantity, walk) /\ TakingSums(levels, t, sum, cost)
         /\ sum[N] = quantity
         /\ \A i \in 0 .. N : walk[i].remaining + sum[i] <= quantity
  BY WalkIsAhead
<1> DEFINE Ahead(i) == quantity - walk[i].remaining - sum[i]
           T == {n \in Nat : n + 1 <= N =>
                    walk[n + 1].notional >= cost[n + 1] + Ahead(n + 1) * levels[n + 1].px}
<1>4. ASSUME NEW i \in 0 .. N
      PROVE  Ahead(i) \in Nat /\ walk[i].notional \in Nat /\ cost[i] \in Nat
             /\ walk[i].remaining \in Nat /\ sum[i] \in Nat
  <2>1. walk[i] \in Walked /\ cost[i] \in Nat /\ sum[i] \in Nat
    BY <1>3 DEF WalkSums, TakingSums
  <2>2. walk[i].remaining \in Nat /\ walk[i].notional \in Nat
    BY <2>1 DEF Walked
  <2>3. walk[i].remaining + sum[i] <= quantity
    BY <1>3
  <2> QED
    BY <2>1, <2>2, <2>3
\* What a turn does if the bound holds before it, at the price of this level.
<1>5. ASSUME NEW i \in 1 .. N,
             walk[i - 1].notional >= cost[i - 1] + Ahead(i - 1) * levels[i].px
      PROVE  walk[i].notional >= cost[i] + Ahead(i) * levels[i].px
  <2> DEFINE p == levels[i].px
  <2>1. PICK k \in Nat, x \in Nat, n \in Nat, b \in Nat, a \in Nat :
           /\ n = walk[i - 1].notional /\ b = cost[i - 1]
           /\ a = Ahead(i - 1)
           /\ walk[i].notional = n + k * p
           /\ cost[i] = b + x * p
           /\ Ahead(i) = a + k - x
    <3>1. Turned(levels, quantity, walk, sum, cost, i)
      BY <1>3, BothTake
    <3> QED
      BY <3>1 DEF Turned
  <2>2. p \in Nat
    BY <1>1
  <2> HIDE DEF p, Ahead
  <2>3. n >= b + a * p
    BY <1>5, <2>1 DEF p
  <2>4. n + k * p >= (b + x * p) + (a + k - x) * p
    BY <2>2, <2>3, Slide
  <2>5. walk[i].notional >= cost[i] + Ahead(i) * p
    BY <2>1, <2>4
  <2> QED
    BY <2>5 DEF p
<1>6. 0 \in T
  <2> SUFFICES ASSUME 1 <= N
               PROVE  walk[1].notional >= cost[1] + Ahead(1) * levels[1].px
    OBVIOUS
  <2>1. walk[0].notional = 0 /\ cost[0] = 0 /\ Ahead(0) = 0 /\ levels[1].px \in Nat
    BY <1>1, <1>3 DEF WalkSums, TakingSums
  <2>2. walk[0].notional >= cost[0] + Ahead(0) * levels[1].px
    <3> HIDE DEF Ahead
    <3>1. 0 * levels[1].px = 0
      BY <2>1
    <3> QED
      BY <2>1, <3>1
  <2>3. 1 \in 1 .. N /\ 1 - 1 = 0
    BY <1>1
  <2> HIDE DEF Ahead
  <2> QED
    BY <1>5, <2>2, <2>3
<1>7. ASSUME NEW n \in Nat, n \in T PROVE n + 1 \in T
  <2> DEFINE i == n + 2
             p == levels[n + 1].px
             q == levels[n + 2].px
  <2> SUFFICES ASSUME i <= N
               PROVE  walk[i].notional >= cost[i] + Ahead(i) * levels[i].px
    <3> HIDE DEF Ahead
    <3>1. (n + 1) + 1 = i
      OBVIOUS
    <3> QED
      BY <3>1
  <2>1. i \in 1 .. N /\ n + 1 \in 1 .. N /\ n + 1 \in 0 .. N /\ i - 1 = n + 1
    BY <1>1
  <2>2. p \in Nat /\ q \in Nat /\ p >= q
    BY <1>1, <2>1 DEF Descending
  <2> DEFINE a == Ahead(n + 1)
             m == walk[n + 1].notional
             b == cost[n + 1]
  <2>3. a \in Nat /\ m \in Nat /\ b \in Nat
    BY <1>4, <2>1
  <2>4. m >= b + a * p
    BY <1>7, <2>1
  <2>5. a * p >= a * q /\ a * p \in Nat /\ a * q \in Nat
    <3> HIDE DEF a, p, q
    <3> QED
      BY <2>2, <2>3, Dearer, Product
  <2>6. m >= b + a * q
    <3> DEFINE P == a * p
               Q == a * q
    <3> HIDE DEF a, p, q, m, b
    <3>1. m >= b + P /\ P >= Q /\ P \in Nat /\ Q \in Nat
      BY <2>4, <2>5
    <3> HIDE DEF P, Q
    <3>2. m >= b + Q
      BY <2>3, <3>1
    <3> QED
      BY <3>2 DEF Q
  <2>7. walk[i - 1].notional >= cost[i - 1] + Ahead(i - 1) * levels[i].px
    <3> HIDE DEF Ahead
    <3> QED
      BY <2>1, <2>6
  <2> HIDE DEF Ahead, i
  <2> QED
    BY <1>5, <2>1, <2>7
<1>8. Nat \subseteq T
  <2> HIDE DEF T
  <2> QED
    BY <1>6, <1>7, NumbersInduct
<1>9. walk[N].notional >= cost[N]
  <2>1. CASE N = 0
    BY <1>3, <2>1 DEF WalkSums, TakingSums
  <2>2. CASE N # 0
    <3>1. N - 1 \in Nat /\ (N - 1) + 1 = N /\ N \in 1 .. N /\ N \in 0 .. N
      BY <1>1, <2>2
    <3>2. walk[N].notional >= cost[N] + Ahead(N) * levels[N].px
      <4> HIDE DEF Ahead, N
      <4>1. N - 1 \in T
        BY <1>8, <3>1
      <4> QED
        BY <3>1, <4>1
    <3>3. Ahead(N) = 0
      <4>1. walk[N].remaining = 0 /\ sum[N] = quantity
        BY <1>3 DEF WalkSums
      <4> QED
        BY <4>1
    <3>4. levels[N].px \in Nat /\ cost[N] \in Nat
      BY <1>1, <1>4, <3>1
    <3> HIDE DEF Ahead, N
    <3>5. Ahead(N) * levels[N].px = 0
      BY <3>3, <3>4
    <3> QED
      BY <3>2, <3>4, <3>5
  <2> QED
    BY <2>1, <2>2
<1>10. Walk(levels, quantity).notional = walk[N].notional /\ c = cost[N]
  BY <1>2, <1>3 DEF WalkSums, TakingSums
<1> QED
  BY <1>9, <1>10


-------------------------------------------------------------------------------
(* The trades. *)

\* What is asked of a signal before it is traded; none of it changes in a day.
Sound(d) ==
    /\ d \in Rows /\ signals[d] \in Directions
    /\ WithinDay(d) /\ WithinSegment(d) /\ DeepEnough(d)

SoundTrades == {Trade(d) : d \in {e \in Rows : Sound(e)}}

LEMMA RowTypes ==
    ASSUME frame \in [Rows -> RowKinds], NEW i \in Rows
    PROVE  /\ frame[i].bids \in Levels /\ frame[i].asks \in Levels
           /\ frame[i].valid => /\ frame[i].bids # <<>> /\ frame[i].asks # <<>>
                                /\ Descending(frame[i].bids) /\ Ascending(frame[i].asks)
<1>1. frame[i] \in RowKinds
  OBVIOUS
<1> QED
  BY <1>1, EngineAssumption DEF Levels, Level, Descending, Ascending

\* A trade looks at three rows of the day.
LEMMA SoundRows ==
    ASSUME frame \in [Rows -> RowKinds], latency \in Latencies, horizon \in Horizons,
           NEW d, Sound(d)
    PROVE  /\ d \in Nat \ {0} /\ EntryIndex(d) \in Rows /\ ExitIndex(d) \in Rows
           /\ d < ExitIndex(d) /\ d <= EntryIndex(d)
           /\ frame[d].valid /\ frame[EntryIndex(d)].valid /\ frame[ExitIndex(d)].valid
           /\ TradeQuantity(d) \in Nat
<1>1. /\ d \in Nat /\ d >= 1 /\ DayLength \in Nat /\ latency \in Nat
      /\ horizon \in Nat /\ horizon > 0 /\ horizon % Grid = 0
  BY EngineAssumption DEF Sound, Rows
<1>2. horizon \div Grid \in Nat /\ horizon \div Grid > 0
  BY <1>1 DEF Grid
<1>3. (latency + Grid - 1) \div Grid \in Nat
  BY <1>1 DEF Grid
<1>4. EntryIndex(d) <= DayLength /\ ExitIndex(d) <= DayLength
  BY DEF Sound, WithinDay
<1>5. EntryIndex(d) \in Rows /\ ExitIndex(d) \in Rows /\ d < ExitIndex(d) /\ d <= EntryIndex(d)
  BY <1>1, <1>2, <1>3, <1>4 DEF Rows, EntryIndex, ExitIndex
<1>6. frame[d].valid /\ frame[EntryIndex(d)].valid /\ frame[ExitIndex(d)].valid
  BY DEF Sound, WithinSegment
<1> DEFINE book == Opens(signals[d], frame[EntryIndex(d)])
<1>7. book \in Levels /\ book # <<>>
  BY <1>5, <1>6, RowTypes DEF Opens
<1>8. book[1].px \in Nat \ {0}
  <2>1. Len(book) \in Nat /\ Len(book) # 0
    <3> HIDE DEF book
    <3>1. \A S : \A s \in Seq(S) : s # <<>> => Len(s) \in Nat /\ Len(s) # 0
      OBVIOUS
    <3> QED
      BY <1>7, <3>1 DEF Levels
  <2> HIDE DEF book
  <2>2. 1 \in 1 .. Len(book)
    BY <2>1
  <2> QED
    BY <1>7, <2>2, LevelType
<1>9. TradeQuantity(d) \in Nat
  <2> DEFINE touch == book[1].px
             cost == touch * QuantityStep
             steps == Notional \div cost
  <2>1. touch \in Nat /\ touch > 0 /\ QuantityStep \in Nat /\ QuantityStep > 0 /\ Notional \in Nat
    BY <1>8, EngineAssumption
  <2>2. cost \in Nat /\ cost > 0
    <3> HIDE DEF touch
    <3> QED
      BY <2>1
  <2>3. steps \in Nat
    <3> HIDE DEF cost
    <3> QED
      BY <2>1, <2>2
  <2>4. steps * QuantityStep \in Nat
    <3> HIDE DEF steps
    <3> QED
      BY <2>1, <2>3, Product
  <2> QED
    BY <2>4 DEF TradeQuantity, FloorQuantity
<1> QED
  BY <1>1, <1>5, <1>6, <1>9

\* Each leg of a trade is the best the book of its row has.
LEMMA SoundLegs ==
    ASSUME frame \in [Rows -> RowKinds], latency \in Latencies, horizon \in Horizons,
           NEW d, Sound(d)
    PROVE  LET entering == Costs(Opens(signals[d], frame[EntryIndex(d)]), TradeQuantity(d))
               leaving == Costs(Closes(signals[d], frame[ExitIndex(d)]), TradeQuantity(d))
           IN  /\ EntryFill(d).notional \in entering /\ ExitFill(d).notional \in leaving
               /\ \A c \in entering : IF signals[d] = "long" THEN EntryFill(d).notional <= c
                                                          ELSE EntryFill(d).notional >= c
               /\ \A c \in leaving : IF signals[d] = "long" THEN ExitFill(d).notional >= c
                                                         ELSE ExitFill(d).notional <= c
<1> DEFINE opened == Opens(signals[d], frame[EntryIndex(d)])
           closed == Closes(signals[d], frame[ExitIndex(d)])
           quantity == TradeQuantity(d)
<1>1. /\ EntryIndex(d) \in Rows /\ ExitIndex(d) \in Rows
      /\ frame[EntryIndex(d)].valid /\ frame[ExitIndex(d)].valid /\ quantity \in Nat
  BY SoundRows
<1>2. /\ opened \in Levels /\ closed \in Levels
      /\ signals[d] = "long" => Ascending(opened) /\ Descending(closed)
      /\ signals[d] # "long" => Descending(opened) /\ Ascending(closed)
  BY <1>1, RowTypes DEF Opens, Closes
<1>3. /\ EntryFill(d) = Walk(opened, quantity) /\ ExitFill(d) = Walk(closed, quantity)
      /\ Walk(opened, quantity).remaining = 0 /\ Walk(closed, quantity).remaining = 0
  BY DEF Sound, DeepEnough, EntryFill, ExitFill
<1> HIDE DEF opened, closed, quantity
<1>4. /\ Walk(opened, quantity).notional \in Costs(opened, quantity)
      /\ Walk(closed, quantity).notional \in Costs(closed, quantity)
  BY <1>1, <1>2, <1>3, WalkIsTaking
<1>5. ASSUME signals[d] = "long"
      PROVE  /\ \A c \in Costs(opened, quantity) : Walk(opened, quantity).notional <= c
             /\ \A c \in Costs(closed, quantity) : Walk(closed, quantity).notional >= c
  BY <1>1, <1>2, <1>3, <1>5, WalkIsCheapest, WalkIsDearest
<1>6. ASSUME signals[d] # "long"
      PROVE  /\ \A c \in Costs(opened, quantity) : Walk(opened, quantity).notional >= c
             /\ \A c \in Costs(closed, quantity) : Walk(closed, quantity).notional <= c
  BY <1>1, <1>2, <1>3, <1>6, WalkIsCheapest, WalkIsDearest
<1> QED
  BY <1>3, <1>4, <1>5, <1>6 DEF opened, closed, quantity


-------------------------------------------------------------------------------
(* The invariant of the loop. *)

RunCounters ==
    [signals : Nat, completed_trades : Nat, skipped_overlap : Nat, excluded_latency : Nat,
     excluded_day_boundary : Nat, excluded_gap : Nat, excluded_quantity : Nat, excluded_depth : Nat]

ETypeOK ==
    /\ frame \in [Rows -> RowKinds]
    /\ signals \in [Rows -> Directions \cup {"none"}]
    /\ latency \in Latencies /\ horizon \in Horizons
    /\ ahead \in SUBSET {i \in Rows : signals[i] # "none"}
    /\ trades \in Seq(SoundTrades)
    /\ counters \in RunCounters
    /\ stage \in {"start", "loop", "done"}

\* Nothing is counted before the loop, so that a day refused for its latency
\* has its signals counted once.
NothingBefore ==
    stage = "start" => trades = <<>> /\ counters = [NoTradesYet EXCEPT !.signals = Cardinality(ahead)]

\* The signals that are left come when the last position has been left.
SignalsWait == \A n \in DOMAIN trades, i \in ahead : trades[n].exit <= i

EInv == ETypeOK /\ NothingBefore /\ SignalsWait /\ SignalsAccountedFor /\ PositionsDoNotOverlap

CountersAreNumbers ==
    /\ counters.signals \in Nat /\ counters.skipped_overlap \in Nat
    /\ counters.excluded_latency \in Nat /\ counters.excluded_day_boundary \in Nat
    /\ counters.excluded_gap \in Nat /\ counters.excluded_quantity \in Nat
    /\ counters.excluded_depth \in Nat

LEMMA NumbersCounted ==
    ASSUME counters \in RunCounters
    PROVE  CountersAreNumbers
BY DEF RunCounters, CountersAreNumbers

LEMMA AheadIsFinite ==
    ASSUME ETypeOK
    PROVE  IsFiniteSet(ahead) /\ Cardinality(ahead) \in Nat
<1>1. IsFiniteSet(Rows)
  BY EngineAssumption, FS_Interval DEF Rows
<1>2. ahead \in SUBSET Rows
  BY DEF ETypeOK
<1> QED
  BY <1>1, <1>2, FS_Subset, FS_CardinalityType

LEMMA EInitInv == EInit => EInv
<1> SUFFICES ASSUME EInit PROVE EInv
  OBVIOUS
<1>1. IsFiniteSet(ahead) /\ Cardinality(ahead) \in Nat
  <2>1. IsFiniteSet(Rows)
    BY EngineAssumption, FS_Interval DEF Rows
  <2>2. ahead \in SUBSET Rows
    BY DEF EInit
  <2> QED
    BY <2>1, <2>2, FS_Subset, FS_CardinalityType
<1>2. counters \in RunCounters
  BY <1>1 DEF EInit, NoTradesYet, RunCounters
<1>3. ETypeOK
  BY <1>2 DEF EInit, ETypeOK
<1>4. NothingBefore /\ SignalsWait /\ PositionsDoNotOverlap
  BY DEF EInit, NothingBefore, SignalsWait, PositionsDoNotOverlap
<1>5. SignalsAccountedFor
  BY <1>1 DEF EInit, SignalsAccountedFor, NoTradesYet
<1> QED
  BY <1>3, <1>4, <1>5 DEF EInv

\* The day does not change, so what was asked of a trade remains true of it.
LEMMA DayStays ==
    ASSUME UNCHANGED <<frame, signals, latency, horizon>>
    PROVE  SoundTrades' = SoundTrades /\ \A d : Trade(d)' = Trade(d) /\ Sound(d)' = Sound(d)
<1>1. \A d : /\ EntryIndex(d)' = EntryIndex(d) /\ ExitIndex(d)' = ExitIndex(d)
             /\ WithinDay(d)' = WithinDay(d)
  BY DEF EntryIndex, ExitIndex, WithinDay
<1>2. \A d : TradeQuantity(d)' = TradeQuantity(d)
  BY <1>1 DEF TradeQuantity
<1>3. \A d : EntryFill(d)' = EntryFill(d) /\ ExitFill(d)' = ExitFill(d)
  BY <1>1, <1>2 DEF EntryFill, ExitFill
<1>4. \A d : DeepEnough(d)' = DeepEnough(d)
  BY <1>2, <1>3 DEF DeepEnough
<1>5. \A d : WithinSegment(d)' = WithinSegment(d)
  BY <1>1 DEF WithinSegment
<1>6. \A d : Trade(d)' = Trade(d)
  BY <1>1, <1>2, <1>3 DEF Trade
<1>7. \A d : Sound(d)' = Sound(d)
  BY <1>1, <1>4, <1>5 DEF Sound
<1> QED
  BY <1>6, <1>7 DEF SoundTrades

\* A signal that is excluded is counted once.
LEMMA ExcludedOnce ==
    ASSUME EInv, NEW d \in Rows, Current(d), Exclude(d),
           NEW reason \in {"excluded_day_boundary", "excluded_gap", "excluded_quantity", "excluded_depth"},
           counters' = [counters EXCEPT ![reason] = @ + 1]
    PROVE  EInv'
<1>1. UNCHANGED <<frame, signals, latency, horizon, trades, stage>> /\ ahead' = ahead \ {d}
  BY DEF Exclude
<1>2. d \in ahead /\ stage = "loop"
  BY DEF Current
<1>3. IsFiniteSet(ahead) /\ Cardinality(ahead) \in Nat /\ Cardinality(ahead') = Cardinality(ahead) - 1
      /\ Cardinality(ahead') \in Nat
  <2>1. IsFiniteSet(ahead) /\ IsFiniteSet(ahead')
    BY <1>1, AheadIsFinite, FS_RemoveElement DEF EInv
  <2> QED
    BY <1>1, <1>2, <2>1, FS_RemoveElement, FS_CardinalityType
<1>4. trades \in Seq(SoundTrades) /\ Len(trades) \in Nat /\ counters \in RunCounters
  BY DEF EInv, ETypeOK
<1>5. counters' \in RunCounters
  <2>1. CASE reason = "excluded_day_boundary"
    BY <1>4, <2>1 DEF RunCounters
  <2>2. CASE reason = "excluded_gap"
    BY <1>4, <2>2 DEF RunCounters
  <2>3. CASE reason = "excluded_quantity"
    BY <1>4, <2>3 DEF RunCounters
  <2>4. CASE reason = "excluded_depth"
    BY <1>4, <2>4 DEF RunCounters
  <2> QED
    BY <2>1, <2>2, <2>3, <2>4
<1>6. ETypeOK'
  BY <1>1, <1>4, <1>5, DayStays DEF EInv, ETypeOK
<1>7. NothingBefore' /\ SignalsWait' /\ PositionsDoNotOverlap'
  BY <1>1, <1>2 DEF EInv, NothingBefore, SignalsWait, PositionsDoNotOverlap
<1>8. SignalsAccountedFor'
  <2> DEFINE left == Cardinality(ahead)
             left1 == Cardinality(ahead')
  <2>1. left \in Nat /\ left1 \in Nat /\ left1 = left - 1
    BY <1>3
  <2>2. counters.signals = left + Len(trades) + counters.skipped_overlap
                     + counters.excluded_latency + counters.excluded_day_boundary
                     + counters.excluded_gap + counters.excluded_quantity
                     + counters.excluded_depth
    BY DEF EInv, SignalsAccountedFor
  <2> HIDE DEF left, left1
  <2>3. counters'.signals = left1 + Len(trades) + counters'.skipped_overlap
                     + counters'.excluded_latency + counters'.excluded_day_boundary
                     + counters'.excluded_gap + counters'.excluded_quantity
                     + counters'.excluded_depth
    <3> DEFINE One(r) == IF reason = r THEN 1 ELSE 0
    <3>1. /\ counters'.signals = counters.signals
          /\ counters'.skipped_overlap = counters.skipped_overlap
          /\ counters'.excluded_latency = counters.excluded_latency
      BY <1>4 DEF RunCounters
    <3>2. /\ counters'.excluded_day_boundary = counters.excluded_day_boundary + One("excluded_day_boundary")
          /\ counters'.excluded_gap = counters.excluded_gap + One("excluded_gap")
      BY <1>4 DEF RunCounters
    <3>3. /\ counters'.excluded_quantity = counters.excluded_quantity + One("excluded_quantity")
          /\ counters'.excluded_depth = counters.excluded_depth + One("excluded_depth")
      BY <1>4 DEF RunCounters
    <3>4. One("excluded_day_boundary") + One("excluded_gap") + One("excluded_quantity")
             + One("excluded_depth") = 1
          /\ \A r : One(r) \in Nat
      OBVIOUS
    <3>5. CountersAreNumbers
      BY <1>4, NumbersCounted
    <3> DEFINE a == One("excluded_day_boundary")
               b == One("excluded_gap")
               c == One("excluded_quantity")
               e == One("excluded_depth")
    <3>6. a \in Nat /\ b \in Nat /\ c \in Nat /\ e \in Nat /\ a + b + c + e = 1
      BY <3>4
    <3>7. /\ counters'.excluded_day_boundary = counters.excluded_day_boundary + a
          /\ counters'.excluded_gap = counters.excluded_gap + b
          /\ counters'.excluded_quantity = counters.excluded_quantity + c
          /\ counters'.excluded_depth = counters.excluded_depth + e
      BY <3>2, <3>3
    <3> HIDE DEF One, a, b, c, e
    <3> DEFINE N == Len(trades)
               O == counters.skipped_overlap
               X == counters.excluded_latency
               B == counters.excluded_day_boundary
               G == counters.excluded_gap
               Q == counters.excluded_quantity
               D == counters.excluded_depth
    <3>8. N \in Nat /\ O \in Nat /\ X \in Nat /\ B \in Nat /\ G \in Nat /\ Q \in Nat /\ D \in Nat
      BY <1>4, <3>5 DEF CountersAreNumbers
    <3>9. counters'.signals = left + N + O + X + B + G + Q + D
      BY <2>2, <3>1
    <3>10. left1 + N + O + X + (B + a) + (G + b) + (Q + c) + (D + e) = left + N + O + X + B + G + Q + D
      <4> HIDE DEF N, O, X, B, G, Q, D
      <4> QED
        BY <2>1, <3>6, <3>8
    <3> QED
      BY <3>1, <3>7, <3>9, <3>10
  <2> QED
    BY <1>1, <2>3 DEF SignalsAccountedFor, left1
<1> QED
  BY <1>6, <1>7, <1>8 DEF EInv

\* A trade takes its own signal and those that come while it lasts.
LEMMA TradedOnce ==
    ASSUME EInv, NEW d \in Rows, MakeTrade(d)
    PROVE  EInv'
<1>1. /\ UNCHANGED <<frame, signals, latency, horizon, stage>>
      /\ ahead' = ahead \ ({d} \cup Overlapping(d))
      /\ trades' = Append(trades, Trade(d))
      /\ counters' = [counters EXCEPT !.skipped_overlap = @ + Cardinality(Overlapping(d))]
  BY DEF MakeTrade
<1>2. d \in ahead /\ stage = "loop" /\ \A e \in ahead : d <= e
  BY DEF MakeTrade, Tradable, Current
<1>3. Sound(d)
  <2>1. signals[d] \in Directions
    BY <1>2 DEF EInv, ETypeOK
  <2> QED
    BY <2>1 DEF MakeTrade, Tradable, Sound
<1>4. trades \in Seq(SoundTrades) /\ Len(trades) \in Nat /\ counters \in RunCounters
  BY DEF EInv, ETypeOK
<1>5. Trade(d) \in SoundTrades
  BY <1>3 DEF SoundTrades
<1>6. /\ trades' \in Seq(SoundTrades) /\ Len(trades') = Len(trades) + 1
      /\ DOMAIN trades = 1 .. Len(trades) /\ DOMAIN trades' = 1 .. Len(trades) + 1
      /\ trades'[Len(trades) + 1] = Trade(d)
      /\ \A n \in 1 .. Len(trades) : trades'[n] = trades[n]
  BY <1>1, <1>4, <1>5
<1>7. /\ IsFiniteSet(ahead) /\ Cardinality(ahead) \in Nat
      /\ Cardinality(Overlapping(d)) \in Nat /\ Cardinality(ahead') \in Nat
      /\ Cardinality(ahead) = Cardinality(ahead') + Cardinality(Overlapping(d)) + 1
  <2> DEFINE gone == {d} \cup Overlapping(d)
  <2>1. IsFiniteSet(ahead) /\ Overlapping(d) \in SUBSET ahead /\ d \notin Overlapping(d)
    BY AheadIsFinite DEF EInv, Overlapping, Rows
  <2>2. IsFiniteSet(Overlapping(d))
    BY <2>1, FS_Subset
  <2>3. IsFiniteSet(Overlapping(d) \cup {d})
        /\ Cardinality(Overlapping(d) \cup {d}) = Cardinality(Overlapping(d)) + 1
    BY <2>1, <2>2, FS_AddElement
  <2>4. gone = Overlapping(d) \cup {d} /\ ahead \cap gone = gone
    BY <1>2, <2>1
  <2>5. IsFiniteSet(ahead') /\ Cardinality(ahead') = Cardinality(ahead) - Cardinality(gone)
    <3> HIDE DEF gone
    <3>1. IsFiniteSet(ahead \ gone)
          /\ Cardinality(ahead \ gone) = Cardinality(ahead) - Cardinality(ahead \cap gone)
      BY <2>1, FS_Difference
    <3> QED
      BY <1>1, <2>4, <3>1 DEF gone
  <2>6. Cardinality(ahead) \in Nat /\ Cardinality(Overlapping(d)) \in Nat /\ Cardinality(ahead') \in Nat
    BY <2>1, <2>2, <2>5, FS_CardinalityType
  <2> HIDE DEF gone
  <2> QED
    BY <2>1, <2>3, <2>4, <2>5, <2>6
<1> DEFINE skipped == Cardinality(Overlapping(d))
<1>8. counters' \in RunCounters
  <2>1. skipped \in Nat /\ counters' = [counters EXCEPT !.skipped_overlap = @ + skipped]
    BY <1>1, <1>7
  <2> HIDE DEF skipped
  <2> QED
    BY <1>4, <2>1 DEF RunCounters
<1>9. ETypeOK'
  <2>1. SoundTrades' = SoundTrades
    BY <1>1, DayStays
  <2> QED
    BY <1>1, <1>6, <1>8, <2>1 DEF EInv, ETypeOK
<1>10. NothingBefore'
  BY <1>1, <1>2 DEF NothingBefore
<1>11. /\ Trade(d).exit = ExitIndex(d) /\ Trade(d).decision = d
       /\ ExitIndex(d) \in Nat /\ d \in Nat
  <2>1. ExitIndex(d) \in Rows
    BY <1>3, SoundRows DEF EInv, ETypeOK
  <2> QED
    BY <2>1 DEF Trade, Rows
<1>12. SignalsWait'
  <2> SUFFICES ASSUME NEW n \in 1 .. Len(trades) + 1, NEW i \in ahead'
               PROVE  trades'[n].exit <= i
    BY <1>6 DEF SignalsWait
  <2>1. i \in ahead /\ i \notin Overlapping(d) /\ i # d /\ i \in Nat
    BY <1>1 DEF EInv, ETypeOK, Rows
  <2>2. CASE n = Len(trades) + 1
    <3>1. ~(d < i /\ i < ExitIndex(d)) /\ d <= i
      BY <1>2, <2>1 DEF Overlapping
    <3>2. ExitIndex(d) <= i
      BY <1>11, <2>1, <3>1
    <3> QED
      BY <1>6, <1>11, <2>2, <3>2
  <2>3. CASE n # Len(trades) + 1
    <3>1. n \in 1 .. Len(trades) /\ n \in DOMAIN trades
      BY <1>4, <1>6, <2>3
    <3> QED
      BY <1>6, <2>1, <3>1 DEF EInv, SignalsWait
  <2> QED
    BY <2>2, <2>3
<1>13. PositionsDoNotOverlap'
  <2> SUFFICES ASSUME NEW m \in 1 .. Len(trades) + 1, NEW n \in 1 .. Len(trades) + 1, m < n
               PROVE  trades'[m].exit <= trades'[n].decision
    BY <1>6 DEF PositionsDoNotOverlap
  <2>1. m \in 1 .. Len(trades) /\ m \in DOMAIN trades /\ trades'[m] = trades[m]
    BY <1>4, <1>6
  <2>2. CASE n = Len(trades) + 1
    <3>1. trades[m].exit <= d
      BY <1>2, <2>1 DEF EInv, SignalsWait
    <3> QED
      BY <1>6, <1>11, <2>1, <2>2, <3>1
  <2>3. CASE n # Len(trades) + 1
    <3>1. n \in DOMAIN trades /\ trades'[n] = trades[n]
      BY <1>4, <1>6, <2>3
    <3> QED
      BY <2>1, <3>1 DEF EInv, PositionsDoNotOverlap
  <2> QED
    BY <2>2, <2>3
<1>14. SignalsAccountedFor'
  <2>1. counters.signals = Cardinality(ahead) + Len(trades) + counters.skipped_overlap
                     + counters.excluded_latency + counters.excluded_day_boundary
                     + counters.excluded_gap + counters.excluded_quantity
                     + counters.excluded_depth
    BY DEF EInv, SignalsAccountedFor
  <2> DEFINE left == Cardinality(ahead)
             left1 == Cardinality(ahead')
  <2>2. /\ skipped \in Nat /\ left \in Nat /\ left1 \in Nat /\ left = left1 + skipped + 1
        /\ counters' = [counters EXCEPT !.skipped_overlap = @ + skipped]
    BY <1>1, <1>7
  <2>3. Len(trades') = Len(trades) + 1
    BY <1>6
  <2>4. counters.signals = left + Len(trades) + counters.skipped_overlap
                     + counters.excluded_latency + counters.excluded_day_boundary
                     + counters.excluded_gap + counters.excluded_quantity
                     + counters.excluded_depth
    BY <2>1
  <2> HIDE DEF left, left1, skipped
  <2>5. counters'.signals = left1 + Len(trades') + counters'.skipped_overlap
                     + counters'.excluded_latency + counters'.excluded_day_boundary
                     + counters'.excluded_gap + counters'.excluded_quantity
                     + counters'.excluded_depth
    <3>1. /\ counters'.signals = counters.signals
          /\ counters'.skipped_overlap = counters.skipped_overlap + skipped
          /\ counters'.excluded_latency = counters.excluded_latency
          /\ counters'.excluded_day_boundary = counters.excluded_day_boundary
      BY <1>4, <2>2 DEF RunCounters
    <3>2. /\ counters'.excluded_gap = counters.excluded_gap
          /\ counters'.excluded_quantity = counters.excluded_quantity
          /\ counters'.excluded_depth = counters.excluded_depth
      BY <1>4, <2>2 DEF RunCounters
    <3>3. CountersAreNumbers
      BY <1>4, NumbersCounted
    <3> QED
      BY <1>4, <2>2, <2>3, <2>4, <3>1, <3>2, <3>3 DEF CountersAreNumbers
  <2> QED
    BY <2>5 DEF SignalsAccountedFor, left1
<1> QED
  BY <1>9, <1>10, <1>12, <1>13, <1>14 DEF EInv

LEMMA ENextInv == EInv /\ [ENext]_evars => EInv'
<1> SUFFICES ASSUME EInv, [ENext]_evars PROVE EInv'
  OBVIOUS
<1>1. CASE RejectLatency
  <2>1. /\ UNCHANGED <<frame, signals, latency, horizon, trades>>
        /\ stage = "start" /\ stage' = "done" /\ ahead' = {}
        /\ counters' = [counters EXCEPT !.excluded_latency = counters.signals]
    BY <1>1 DEF RejectLatency
  <2>2. counters \in RunCounters /\ trades = <<>>
        /\ counters = [NoTradesYet EXCEPT !.signals = Cardinality(ahead)]
    BY <2>1 DEF EInv, ETypeOK, NothingBefore
  <2>3. counters' \in RunCounters
    BY <2>1, <2>2 DEF RunCounters
  <2>4. SoundTrades' = SoundTrades
    BY <2>1, DayStays
  <2>5. ETypeOK'
    BY <2>1, <2>3, <2>4 DEF EInv, ETypeOK
  <2>6. NothingBefore' /\ SignalsWait' /\ PositionsDoNotOverlap'
    BY <2>1 DEF EInv, NothingBefore, SignalsWait, PositionsDoNotOverlap
  <2>7. SignalsAccountedFor'
    <3>1. Cardinality(ahead') = 0 /\ Len(trades') = 0
      BY <2>1, <2>2, FS_EmptySet
    <3>2. Cardinality(ahead) \in Nat
      BY AheadIsFinite DEF EInv
    <3> QED
      BY <2>1, <2>2, <3>1, <3>2 DEF SignalsAccountedFor, NoTradesYet
  <2> QED
    BY <2>5, <2>6, <2>7 DEF EInv
<1>2. CASE StartLoop
  <2>1. UNCHANGED <<frame, signals, latency, horizon, ahead, trades, counters>> /\ stage' = "loop"
    BY <1>2 DEF StartLoop
  <2>2. SoundTrades' = SoundTrades
    BY <2>1, DayStays
  <2> QED
    BY <2>1, <2>2 DEF EInv, ETypeOK, NothingBefore, SignalsWait, SignalsAccountedFor, PositionsDoNotOverlap
<1>3. CASE FinishDay
  <2>1. /\ UNCHANGED <<frame, signals, latency, horizon, ahead, trades>> /\ stage' = "done"
        /\ counters' = [counters EXCEPT !.completed_trades = Len(trades)]
    BY <1>3 DEF FinishDay
  <2>2. SoundTrades' = SoundTrades
    BY <2>1, DayStays
  <2>3. counters \in RunCounters /\ Len(trades) \in Nat
    BY DEF EInv, ETypeOK
  <2>4. counters' \in RunCounters
    BY <2>1, <2>3 DEF RunCounters
  <2>5. ETypeOK'
    BY <2>1, <2>2, <2>4 DEF EInv, ETypeOK
  <2>6. NothingBefore' /\ SignalsWait' /\ PositionsDoNotOverlap'
    BY <2>1 DEF EInv, NothingBefore, SignalsWait, PositionsDoNotOverlap
  <2>7. SignalsAccountedFor'
    BY <2>1, <2>3 DEF EInv, SignalsAccountedFor, RunCounters
  <2> QED
    BY <2>5, <2>6, <2>7 DEF EInv
<1>4. ASSUME NEW d \in Rows, ExcludeDayBoundary(d) PROVE EInv'
  BY <1>4, ExcludedOnce DEF ExcludeDayBoundary
<1>5. ASSUME NEW d \in Rows, ExcludeGap(d) PROVE EInv'
  BY <1>5, ExcludedOnce DEF ExcludeGap
<1>6. ASSUME NEW d \in Rows, ExcludeQuantity(d) PROVE EInv'
  BY <1>6, ExcludedOnce DEF ExcludeQuantity
<1>7. ASSUME NEW d \in Rows, ExcludeDepth(d) PROVE EInv'
  BY <1>7, ExcludedOnce DEF ExcludeDepth
<1>8. ASSUME NEW d \in Rows, MakeTrade(d) PROVE EInv'
  BY <1>8, TradedOnce
<1>9. CASE UNCHANGED evars
  <2>1. SoundTrades' = SoundTrades
    BY <1>9, DayStays DEF evars
  <2> QED
    BY <1>9, <2>1 DEF evars, EInv, ETypeOK, NothingBefore, SignalsWait, SignalsAccountedFor, PositionsDoNotOverlap
<1> QED
  BY <1>1, <1>2, <1>3, <1>4, <1>5, <1>6, <1>7, <1>8, <1>9 DEF ENext

\* run_day (execution/engine.py): the invariant of the loop over the signals of
\* a day.  For every day, book, latency and horizon, what is still to come
\* starts after the last position.
THEOREM EngineInvariant == ESpec => []EInv
<1>1. EInit => EInv
  BY EInitInv
<1>2. EInv /\ [ENext]_evars => EInv'
  BY ENextInv
<1> QED
  BY <1>1, <1>2, PTL DEF ESpec

\* RunCounters: every signal of the day has one fate, for every day and every
\* reason to exclude it.
THEOREM SignalsHaveOneFate == ESpec => []SignalsAccountedFor
<1>1. EInv => SignalsAccountedFor
  BY DEF EInv
<1> QED
  BY <1>1, EngineInvariant, PTL

\* "one_position_at_a_time_per_day": no position is decided on before the one
\* before it has been left, for every latency and horizon.
THEOREM OnePositionAtATime == ESpec => []PositionsDoNotOverlap
<1>1. EInv => PositionsDoNotOverlap
  BY DEF EInv
<1> QED
  BY <1>1, EngineInvariant, PTL

\* A trade that is on record satisfied the guards of the loop.
LEMMA TradeWasSound ==
    ASSUME EInv, NEW n \in DOMAIN trades
    PROVE  \E d \in Rows : Sound(d) /\ trades[n] = Trade(d)
<1>1. \A S : \A s \in Seq(S) : \A i \in DOMAIN s : s[i] \in S
  OBVIOUS
<1>2. trades[n] \in SoundTrades
  BY <1>1 DEF EInv, ETypeOK
<1> QED
  BY <1>2 DEF SoundTrades

\* run_day looks at three rows of a position: the renumbering of the segments
\* in compute_features makes them enough for all the rows between.
THEOREM TradesKeepToSegment == ESpec => []TradesStayInSegment
<1>1. EInv => TradesStayInSegment
  <2> SUFFICES ASSUME EInv, NEW n \in DOMAIN trades,
                      NEW i \in trades[n].decision .. trades[n].exit
               PROVE  Countable(frame, i) /\ frame[i].book = frame[trades[n].decision].book
    BY DEF TradesStayInSegment
  <2>1. PICK d \in Rows : Sound(d) /\ trades[n] = Trade(d)
    BY TradeWasSound
  <2>2. trades[n].decision = d /\ trades[n].exit = ExitIndex(d)
    BY <2>1 DEF Trade
  <2>3. d \in Nat \ {0} /\ ExitIndex(d) \in Nat /\ d <= ExitIndex(d)
    <3>1. d \in Nat \ {0} /\ ExitIndex(d) \in Rows /\ d < ExitIndex(d)
      BY <2>1, SoundRows DEF EInv, ETypeOK
    <3> QED
      BY <3>1 DEF Rows
  <2>4. /\ FeatureSegment(frame, d) # NoSegment
        /\ FeatureSegment(frame, ExitIndex(d)) = FeatureSegment(frame, d)
    BY <2>1 DEF Sound, WithinSegment
  <2>5. Countable(frame, d) /\ Countable(frame, ExitIndex(d))
    BY <2>4 DEF FeatureSegment
  <2>6. \A j \in d .. ExitIndex(d) : Countable(frame, j) /\ frame[j].book = frame[d].book
    BY <2>3, <2>4, <2>5, OneRun
  <2> QED
    BY <2>2, <2>6
<1> QED
  BY <1>1, EngineInvariant, PTL

\* walk_visible_book: what a leg costs, or brings, is the best of all the ways
\* to take its quantity from the visible levels, however many there are.
THEOREM LegsAreBest == ESpec => []LegsAreBestPrice
<1>1. EInv => LegsAreBestPrice
  <2> SUFFICES ASSUME EInv, NEW n \in DOMAIN trades
               PROVE  LET t == trades[n]
                          entering == Costs(Opens(t.direction, frame[t.entry]), t.quantity)
                          leaving == Costs(Closes(t.direction, frame[t.exit]), t.quantity)
                      IN  /\ t.entry_notional \in entering /\ t.exit_notional \in leaving
                          /\ \A c \in entering : IF t.direction = "long" THEN t.entry_notional <= c
                                                                      ELSE t.entry_notional >= c
                          /\ \A c \in leaving : IF t.direction = "long" THEN t.exit_notional >= c
                                                                     ELSE t.exit_notional <= c
    BY DEF LegsAreBestPrice
  <2>1. PICK d \in Rows : Sound(d) /\ trades[n] = Trade(d)
    BY TradeWasSound
  <2>2. /\ trades[n].direction = signals[d] /\ trades[n].quantity = TradeQuantity(d)
        /\ trades[n].entry = EntryIndex(d) /\ trades[n].exit = ExitIndex(d)
        /\ trades[n].entry_notional = EntryFill(d).notional
        /\ trades[n].exit_notional = ExitFill(d).notional
    BY <2>1 DEF Trade
  <2>3. frame \in [Rows -> RowKinds] /\ latency \in Latencies /\ horizon \in Horizons
    BY DEF EInv, ETypeOK
  <2> QED
    BY <2>1, <2>2, <2>3, SoundLegs
<1> QED
  BY <1>1, EngineInvariant, PTL

-------------------------------------------------------------------------------
(* The rows of a round trip. *)

GridType == grid \in [GridRows -> GridRowKinds]

StartsAt(j) == Valid(j) /\ (j = 0 \/ grid[j] = "new" \/ ~Valid(j - 1))
RunStarts(i) == {j \in 0 .. i : StartsAt(j)}

LEMMA RunIsStarts ==
    ASSUME NEW i \in Nat
    PROVE  /\ IsFiniteSet(RunStarts(i)) /\ Cardinality(RunStarts(i)) \in Nat
           /\ Run(i) = IF Valid(i) THEN Cardinality(RunStarts(i)) ELSE NoRun
<1>1. IsFiniteSet(0 .. i)
  BY FS_Interval
<1>2. RunStarts(i) \in SUBSET (0 .. i)
  BY DEF RunStarts
<1>3. IsFiniteSet(RunStarts(i))
  BY <1>1, <1>2, FS_Subset
<1>4. Run(i) = IF Valid(i) THEN Cardinality(RunStarts(i)) ELSE NoRun
  BY DEF Run, RunStarts, StartsAt
<1> QED
  BY <1>3, <1>4, FS_CardinalityType

\* feature_segment_id: between two rows of one run the book was never lost.
LEMMA RunIsUnbroken ==
    ASSUME NEW a \in Nat, NEW b \in Nat, a <= b, Valid(a), Valid(b), Run(a) = Run(b)
    PROVE  \A i \in a .. b : Valid(i) /\ (i > a => grid[i] # "new")
<1>1. RunStarts(a) = RunStarts(b)
  <2>1. RunStarts(a) \in SUBSET RunStarts(b)
    BY DEF RunStarts
  <2>2. Cardinality(RunStarts(a)) = Cardinality(RunStarts(b)) /\ IsFiniteSet(RunStarts(b))
    BY RunIsStarts
  <2> QED
    BY <2>1, <2>2, FS_Subset
<1>2. \A j \in a + 1 .. b : ~StartsAt(j)
  <2> SUFFICES ASSUME NEW j \in a + 1 .. b, StartsAt(j) PROVE FALSE
    OBVIOUS
  <2>1. j \in RunStarts(b) /\ j \notin RunStarts(a)
    BY DEF RunStarts
  <2> QED
    BY <1>1, <2>1
<1> DEFINE T == {n \in Nat : n <= b - a => Valid(b - n)}
<1>3. 0 \in T
  OBVIOUS
<1>4. ASSUME NEW n \in Nat, n \in T PROVE n + 1 \in T
  <2> SUFFICES ASSUME n + 1 <= b - a PROVE Valid(b - (n + 1))
    OBVIOUS
  <2>1. Valid(b - n)
    BY <1>4
  <2>2. b - n \in a + 1 .. b /\ b - n # 0 /\ (b - n) - 1 = b - (n + 1)
    OBVIOUS
  <2> QED
    BY <1>2, <2>1, <2>2 DEF StartsAt
<1>5. Nat \subseteq T
  <2> HIDE DEF T
  <2> QED
    BY <1>3, <1>4, NumbersInduct
<1>6. ASSUME NEW i \in a .. b PROVE Valid(i)
  <2>1. b - i \in Nat /\ b - i <= b - a /\ b - (b - i) = i
    OBVIOUS
  <2> QED
    BY <1>5, <2>1
<1> QED
  BY <1>2, <1>6 DEF StartsAt

\* And rows between which it was never lost are of one run.
LEMMA UnbrokenIsRun ==
    ASSUME NEW a \in Nat, NEW b \in Nat, a <= b,
           \A i \in a .. b : Valid(i) /\ (i > a => grid[i] # "new")
    PROVE  Run(a) = Run(b) /\ Run(a) # NoRun
<1>1. \A j \in a + 1 .. b : ~StartsAt(j)
  <2> SUFFICES ASSUME NEW j \in a + 1 .. b PROVE ~StartsAt(j)
    OBVIOUS
  <2>1. j \in a .. b /\ j - 1 \in a .. b /\ j > a /\ j # 0
    OBVIOUS
  <2> QED
    BY <2>1 DEF StartsAt
<1>2. RunStarts(a) = RunStarts(b)
  <2>1. \A j \in 0 .. b : j \in 0 .. a \/ j \in a + 1 .. b
    OBVIOUS
  <2> QED
    BY <1>1, <2>1 DEF RunStarts
<1>3. Valid(a) /\ Valid(b)
  OBVIOUS
<1>4. RunStarts(a) # {}
  <2> DEFINE T == {k \in 0 .. a : \A l \in k .. a : Valid(l)}
  <2>1. a \in T
    BY <1>3
  <2>2. PICK k \in T : \A l \in T : k <= l
    <3>1. T \in SUBSET Nat /\ T # {}
      BY <2>1
    <3> HIDE DEF T
    <3> QED
      BY <3>1, LeastNumber
  <2>3. k = 0 \/ ~Valid(k - 1)
    <3> SUFFICES ASSUME k # 0, Valid(k - 1) PROVE FALSE
      OBVIOUS
    <3>1. \A l \in k - 1 .. a : l = k - 1 \/ l \in k .. a
      BY <2>2
    <3>2. k - 1 \in T
      BY <2>2, <3>1
    <3> QED
      BY <2>2, <3>2
  <2>4. k \in 0 .. a /\ Valid(k)
    BY <2>2
  <2> QED
    BY <2>3, <2>4 DEF RunStarts, StartsAt
<1>5. Cardinality(RunStarts(a)) # 0
  BY <1>4, RunIsStarts, FS_EmptySet
<1> QED
  BY <1>2, <1>3, <1>5, RunIsStarts DEF NoRun

\* The first row at or after a time.
LEMMA RowFromIs ==
    ASSUME NEW time \in Nat
    PROVE  /\ RowFrom(time) \in Nat /\ time <= RowFrom(time) * Step
           /\ \A i \in Int : i * Step >= time => RowFrom(time) <= i
<1>1. Step \in Nat \ {0}
  BY RoundTripAssumption
<1> DEFINE q == (time + Step - 1) \div Step
           r == (time + Step - 1) % Step
<1>2. time + Step - 1 \in Nat
  BY <1>1
<1>3. q \in Nat /\ r \in 0 .. Step - 1 /\ time + Step - 1 = q * Step + r
  BY <1>1, <1>2
<1>4. RowFrom(time) = q
  BY DEF RowFrom
<1> HIDE DEF q, r
<1>5. q * Step \in Nat /\ time <= q * Step /\ q * Step < time + Step
  BY <1>1, <1>3
<1>6. ASSUME NEW i \in Int, i * Step >= time, i < q PROVE FALSE
  <2>1. (q - i) * Step >= Step
    BY <1>1, <1>3, <1>6
  <2>2. (q - i) * Step = q * Step - i * Step /\ i * Step \in Int
    BY <1>1, <1>3
  <2> QED
    BY <1>1, <1>5, <1>6, <2>1, <2>2
<1> QED
  BY <1>3, <1>4, <1>5, <1>6

LEMMA StepGrows ==
    ASSUME NEW i \in Int, NEW j \in Int, i < j
    PROVE  i * Step < j * Step /\ i * Step \in Int /\ j * Step \in Int
<1>1. Step \in Nat \ {0}
  BY RoundTripAssumption
<1>2. (j - i) * Step >= Step /\ (j - i) * Step = j * Step - i * Step
  BY <1>1
<1> QED
  BY <1>1, <1>2

\* The least of a set of numbers.
LEMMA MinIs ==
    ASSUME NEW S \in SUBSET Nat, S # {}
    PROVE  Min(S) \in S /\ \A m \in S : Min(S) <= m
<1>1. \E n \in S : \A m \in S : n <= m
  BY LeastNumber
<1> QED
  BY <1>1 DEF Min

LEMMA FirstOfIs ==
    ASSUME NEW S \in SUBSET GridRows
    PROVE  /\ FirstOf(S) \in S \cup {DayRows} /\ FirstOf(S) \in Nat
           /\ \A m \in S : FirstOf(S) <= m
<1>1. S \cup {DayRows} \in SUBSET Nat /\ S \cup {DayRows} # {}
  BY RoundTripAssumption DEF GridRows
<1> DEFINE all == S \cup {DayRows}
<1>2. Min(all) \in all /\ \A m \in all : Min(all) <= m
  <2> HIDE DEF all
  <2> QED
    BY <1>1, MinIs DEF all
<1> QED
  BY <1>1, <1>2 DEF FirstOf


-------------------------------------------------------------------------------
(* What is known of an entry, a target and a pair. *)

\* A probe, as far as the argument needs it: a fill comes after the row it was
\* decided at, and is known when it has happened.
ProbeAt(p, i) ==
    /\ p.decision = i /\ p.placed \in Int /\ p.exchange \in Int /\ p.received \in Int
    /\ i * Step <= p.placed
    /\ i * Step < p.exchange /\ p.exchange <= p.received

TripInv ==
    /\ GridType
    /\ cancel \in {"fixed_lifetime", "cancel_on_tail_exit"}
    /\ hold \in Holds \cup {OnSignal}
    /\ entry # NoProbe =>
          /\ entry.decision \in GridRows /\ InTail(entry.decision)
          /\ ProbeAt(entry, entry.decision)
    /\ target # DayRows =>
          entry # NoProbe /\ Survives /\ target = ExitTarget /\ target < DayRows
    /\ trip # NoTrip =>
          /\ target # DayRows
          /\ ProbeAt(trip.exit, target)
          /\ trip.valid => Valid(target) /\ InOneRun(trip.exit)

LEMMA FillsAreProbes ==
    ASSUME NEW i \in GridRows, NEW p \in FullFills(i)
    PROVE  ProbeAt(p, i)
<1>1. i \in Nat /\ i * Step \in Nat /\ MaxDelay \in Nat /\ QuoteLife \in Nat
  BY RoundTripAssumption DEF GridRows
<1>2. p \in Fills(i) /\ p.exchange <= p.received
  BY DEF FullFills
<1>3. PICK delay \in 0 .. MaxDelay,
           at \in i * Step + 1 .. i * Step + MaxDelay + QuoteLife,
           known \in i * Step + 1 .. i * Step + MaxDelay + QuoteLife :
              p = [decision |-> i, placed |-> i * Step + delay, exchange |-> at, received |-> known]
  BY <1>2 DEF Fills
<1>4. /\ p.decision = i /\ p.placed = i * Step + delay /\ p.exchange = at /\ p.received = known
  BY <1>3
<1>5. /\ delay \in Nat /\ at \in Int /\ known \in Int /\ i * Step < at
  BY <1>1
<1> QED
  BY <1>1, <1>2, <1>4, <1>5 DEF ProbeAt

\* Rows between which the book was never lost.
Unbroken(a, b) == \A i \in a .. b : Valid(i) /\ (i > a => grid[i] # "new")

\* first_true_for_starts: as long as the book is not lost, no row before the
\* first one is out of the tail.
LEMMA FirstOutIs ==
    ASSUME NEW start \in Nat
    PROVE  /\ FirstOut(start) \in Nat
           /\ FirstOut(start) = DayRows \/ start <= FirstOut(start)
           /\ \A i \in GridRows :
                 start <= i /\ i < FirstOut(start) /\ Unbroken(start, i) => grid[i] # "out"
<1> DEFINE outs == {j \in GridRows : j >= start /\ grid[j] = "out"}
           hit == FirstOf(outs)
<1>1. /\ hit \in outs \cup {DayRows} /\ hit \in Nat /\ DayRows \in Nat
      /\ \A m \in outs : hit <= m
  <2>1. outs \in SUBSET GridRows
    OBVIOUS
  <2> HIDE DEF outs
  <2> QED
    BY <2>1, FirstOfIs, RoundTripAssumption
<1>2. FirstOut(start) = IF start < DayRows /\ hit < DayRows /\ Run(start) # NoRun /\ Run(hit) = Run(start)
                        THEN hit ELSE DayRows
  BY DEF FirstOut
<1>3. hit # DayRows => start <= hit
  BY <1>1
<1>4. ASSUME NEW i \in GridRows, start <= i, i < FirstOut(start), Unbroken(start, i), grid[i] = "out"
      PROVE  FALSE
  <2>1. i \in outs /\ i \in Nat /\ i < DayRows
    BY <1>4, <1>1 DEF GridRows
  <2>2. hit <= i /\ start <= hit /\ hit < DayRows /\ start < DayRows
    BY <1>1, <1>3, <2>1, <1>4
  <2>3. \A k \in start .. hit : Valid(k) /\ (k > start => grid[k] # "new")
    BY <1>1, <1>4, <2>1, <2>2 DEF Unbroken
  <2>4. Run(start) = Run(hit) /\ Run(start) # NoRun
    BY <1>1, <2>2, <2>3, UnbrokenIsRun
  <2>5. FirstOut(start) = hit
    BY <1>2, <2>2, <2>4
  <2> HIDE DEF hit, outs
  <2> QED
    BY <1>1, <1>4, <2>1, <2>2, <2>5
<1> HIDE DEF hit, outs
<1> QED
  BY <1>1, <1>2, <1>3, <1>4

\* The exit is decided on when the entry's fill is known.
LEMMA ExitIs ==
    ASSUME hold \in Holds \cup {OnSignal}, entry.decision \in GridRows,
           ProbeAt(entry, entry.decision)
    PROVE  /\ entry.received \in Nat /\ ExitTarget \in Nat
           /\ hold # OnSignal => entry.received + MinimumDelay + hold <= ExitTarget * Step
           /\ ExitTarget # DayRows => entry.received <= ExitTarget * Step
           /\ hold = OnSignal =>
                 /\ TargetIndex(MinimumDelay) \in Nat
                 /\ \A i \in Int : i * Step >= entry.received + MinimumDelay =>
                       TargetIndex(MinimumDelay) <= i
                 /\ ExitTarget <= FirstOut(TargetIndex(MinimumDelay))
<1>1. /\ Step \in Nat \ {0} /\ MaxHold \in Nat /\ MaxHold >= Step /\ Holds \subseteq Nat
      /\ MinimumDelay = Step /\ OnSignal = -1
  BY RoundTripAssumption DEF MinimumDelay, OnSignal
<1>2. entry.received \in Nat
  <2>1. entry.decision \in Nat /\ entry.decision * Step \in Nat
    BY <1>1, RoundTripAssumption DEF GridRows
  <2> QED
    BY <2>1 DEF ProbeAt
<1>3. ASSUME NEW delay \in Nat
      PROVE  /\ TargetIndex(delay) \in Nat /\ entry.received + delay <= TargetIndex(delay) * Step
             /\ \A i \in Int : i * Step >= entry.received + delay => TargetIndex(delay) <= i
  <2>1. entry.received + delay \in Nat
    BY <1>2
  <2> QED
    BY <2>1, RowFromIs DEF TargetIndex
<1>4. CASE hold # OnSignal
  <2>1. hold \in Nat /\ MinimumDelay + hold \in Nat
    BY <1>1, <1>4
  <2>2. ExitTarget = TargetIndex(MinimumDelay + hold)
    BY <1>4 DEF ExitTarget
  <2>3. ExitTarget \in Nat /\ entry.received + (MinimumDelay + hold) <= ExitTarget * Step
    BY <1>3, <2>1, <2>2
  <2>4. ExitTarget * Step \in Nat
    BY <1>1, <2>3
  <2> QED
    BY <1>1, <1>2, <1>4, <2>1, <2>3, <2>4
<1>5. CASE hold = OnSignal
  <2> DEFINE first == TargetIndex(MinimumDelay)
             out == FirstOut(first)
             late == TargetIndex(MaxHold)
  <2>1. /\ first \in Nat /\ late \in Nat
        /\ entry.received + Step <= first * Step /\ entry.received + MaxHold <= late * Step
        /\ \A i \in Int : i * Step >= entry.received + MinimumDelay => first <= i
    BY <1>1, <1>3
  <2>2. out \in Nat /\ (out = DayRows \/ first <= out)
    BY <2>1, FirstOutIs
  <2>3. ExitTarget = Min({out, late})
    BY <1>5 DEF ExitTarget
  <2> HIDE DEF first, out, late
  <2>4. ExitTarget \in {out, late} /\ ExitTarget <= out /\ ExitTarget <= late
    <3>1. {out, late} \in SUBSET Nat /\ {out, late} # {}
      BY <2>1, <2>2
    <3> QED
      BY <2>3, <3>1, MinIs
  <2>5. entry.received <= late * Step
    BY <1>1, <1>2, <2>1
  <2>6. first <= out => entry.received <= out * Step
    <3> SUFFICES ASSUME first <= out PROVE entry.received <= out * Step
      OBVIOUS
    <3>1. first * Step <= out * Step /\ first * Step \in Nat /\ out * Step \in Nat
      <4>1. CASE first = out
        BY <1>1, <2>1, <4>1
      <4>2. CASE first < out
        BY <1>1, <2>1, <2>2, <4>2, StepGrows
      <4> QED
        BY <2>1, <2>2, <4>1, <4>2
    <3> QED
      BY <1>1, <1>2, <2>1, <3>1
  <2>7. ExitTarget \in Nat /\ (ExitTarget # DayRows => entry.received <= ExitTarget * Step)
    BY <2>1, <2>2, <2>4, <2>5, <2>6
  <2> QED
    BY <1>2, <1>5, <2>1, <2>4, <2>7 DEF first, out
<1> QED
  BY <1>4, <1>5

LEMMA TargetIsRow ==
    ASSUME TripInv, target < DayRows, target # DayRows
    PROVE  target \in GridRows
<1>1. target = ExitTarget /\ ExitTarget \in Nat
  BY ExitIs DEF TripInv
<1> QED
  BY <1>1, RoundTripAssumption DEF GridRows

LEMMA TripInit == TInit => TripInv
<1> SUFFICES ASSUME TInit PROVE TripInv
  OBVIOUS
<1> QED
  BY DEF TInit, TripInv, GridType

LEMMA TripNext == TripInv /\ [TNext]_tvars => TripInv'
<1> SUFFICES ASSUME TripInv, [TNext]_tvars PROVE TripInv'
  OBVIOUS
<1>1. DayRows \notin GridRows /\ DayRows \in Nat /\ NoProbe.decision = DayRows
  BY RoundTripAssumption DEF GridRows, NoProbe
<1>2. ASSUME UNCHANGED <<grid, cancel, hold>>
      PROVE  /\ GridType' /\ (cancel \in {"fixed_lifetime", "cancel_on_tail_exit"})'
             /\ (hold \in Holds \cup {OnSignal})'
             /\ \A i : (Valid(i)' <=> Valid(i)) /\ (InTail(i)' <=> InTail(i))
             /\ \A i : Run(i)' = Run(i)
  <2>1. \A i : (Valid(i)' <=> Valid(i)) /\ (InTail(i)' <=> InTail(i))
    BY <1>2 DEF Valid, InTail
  <2>2. \A i : Run(i)' = Run(i)
    BY <1>2, <2>1 DEF Run
  <2> QED
    BY <1>2, <2>1, <2>2 DEF TripInv, GridType
<1>3. ASSUME UNCHANGED <<grid, cancel, hold, entry>>
      PROVE  Survives' = Survives /\ ExitTarget' = ExitTarget
  <2>1. /\ \A i : NextUnsafe(i)' = NextUnsafe(i)
        /\ \A delay : TargetIndex(delay)' = TargetIndex(delay)
        /\ \A i : FirstOut(i)' = FirstOut(i)
    BY <1>2, <1>3 DEF NextUnsafe, TargetIndex, FirstOut
  <2> QED
    BY <1>3, <2>1 DEF Survives, ExitTarget
<1>4. CASE Enter
  <2>1. /\ UNCHANGED <<grid, cancel, hold, target, trip>> /\ entry = NoProbe
    BY <1>4 DEF Enter
  <2>2. PICK i \in GridRows : InTail(i) /\ entry' \in FullFills(i)
    BY <1>4 DEF Enter
  <2>3. ProbeAt(entry', i)
    BY <2>2, FillsAreProbes
  <2>4. entry'.decision = i /\ ProbeAt(entry', entry'.decision)
    BY <2>3 DEF ProbeAt
  <2>5. target = DayRows /\ trip = NoTrip
    BY <2>1 DEF TripInv
  <2>6. InTail(i)'
    BY <1>2, <2>1, <2>2
  <2> QED
    BY <1>2, <2>1, <2>2, <2>4, <2>5, <2>6 DEF TripInv, InTail, ProbeAt
<1>5. CASE Discard
  <2>1. /\ UNCHANGED <<grid, cancel, hold, target, trip>> /\ entry' = NoProbe /\ ~Survives
    BY <1>5 DEF Discard
  <2>2. target = DayRows /\ trip = NoTrip
    BY <2>1 DEF TripInv
  <2> QED
    BY <1>2, <2>1, <2>2 DEF TripInv
<1>6. CASE Target
  <2>1. /\ UNCHANGED <<grid, cancel, hold, entry, trip>>
        /\ entry # NoProbe /\ trip = NoTrip /\ Survives /\ ExitTarget < DayRows /\ target' = ExitTarget
    BY <1>6 DEF Target
  <2>2. Survives' /\ target' = ExitTarget' /\ target' < DayRows
    BY <1>3, <2>1
  <2>3. InTail(entry.decision)' /\ ProbeAt(entry, entry.decision)'
    BY <1>2, <2>1 DEF TripInv, ProbeAt
  <2> QED
    BY <1>2, <2>1, <2>2, <2>3 DEF TripInv
<1>7. CASE Pair
  <2>1. /\ UNCHANGED <<grid, cancel, hold, entry, target>>
        /\ target < DayRows /\ trip = NoTrip /\ Valid(target)
    BY <1>7 DEF Pair
  <2>2. PICK p \in FullFills(target) :
           trip' = [exit |-> p, valid |-> /\ p.placed >= target * Step
                                          /\ p.received > entry.received
                                          /\ InOneRun(p)]
    BY <1>7 DEF Pair
  <2>3. trip'.exit = p /\ (trip'.valid => InOneRun(p))
    BY <2>2
  <2>4. target # DayRows /\ target \in GridRows
    BY <1>1, <2>1, TargetIsRow DEF TripInv
  <2>5. ProbeAt(p, target)
    BY <2>4, FillsAreProbes
  <2>6. Valid(target)' /\ (InOneRun(p)' <=> InOneRun(p)) /\ (ProbeAt(p, target)' <=> ProbeAt(p, target))
    BY <1>2, <2>1 DEF InOneRun, ProbeAt
  <2>7. Survives' /\ target' = ExitTarget' /\ entry' # NoProbe' /\ target' < DayRows
    BY <1>3, <2>1, <2>4 DEF TripInv, NoProbe
  <2>8. InTail(entry.decision)' /\ ProbeAt(entry, entry.decision)' /\ entry'.decision \in GridRows
    BY <1>2, <2>1, <2>7 DEF TripInv, ProbeAt
  <2> QED
    BY <1>2, <2>1, <2>3, <2>4, <2>5, <2>6, <2>7, <2>8 DEF TripInv
<1>8. CASE UNCHANGED tvars
  <2>1. UNCHANGED <<grid, cancel, hold, entry, target, trip>>
    BY <1>8 DEF tvars
  <2>2. \A p : InOneRun(p)' <=> InOneRun(p)
    BY <1>2, <2>1 DEF InOneRun
  <2>3. \A p, i : ProbeAt(p, i)' <=> ProbeAt(p, i)
    BY DEF ProbeAt
  <2> QED
    BY <1>2, <1>3, <2>1, <2>2, <2>3 DEF TripInv
<1> QED
  BY <1>4, <1>5, <1>6, <1>7, <1>8 DEF TNext

\* A valid pair could have been made.
LEMMA TripsAreCausal == TripInv => ValidTripsAreCausal
<1> SUFFICES ASSUME TripInv, trip # NoTrip, trip.valid
             PROVE  /\ \A i \in entry.decision .. RowFrom(trip.exit.exchange) :
                          Valid(i) /\ (i > entry.decision => grid[i] # "new")
                    /\ IF hold = OnSignal
                       THEN \A i \in entry.decision + 1 .. target - 1 :
                               i * Step >= entry.received + MinimumDelay => InTail(i)
                       ELSE target * Step >= entry.received + MinimumDelay + hold
                    /\ trip.exit.placed >= entry.received
                    /\ cancel = "cancel_on_tail_exit" =>
                          \A i \in entry.decision + 1 .. DayRows - 1 :
                             i * Step + CancelLatency < entry.received => InTail(i)
  BY DEF ValidTripsAreCausal
<1> DEFINE d == entry.decision
           p == trip.exit
           filled == RowFrom(p.exchange)
<1>1. /\ target # DayRows /\ target < DayRows /\ target = ExitTarget /\ Survives
      /\ d \in GridRows /\ InTail(d) /\ ProbeAt(entry, d) /\ ProbeAt(p, target)
      /\ InOneRun(p) /\ GridType
  BY DEF TripInv
<1>2. /\ Step \in Nat \ {0} /\ DayRows \in Nat /\ CancelLatency \in Nat /\ MinimumDelay \in Nat
      /\ d \in Nat /\ d < DayRows /\ d * Step \in Nat
  BY <1>1, RoundTripAssumption DEF GridRows, MinimumDelay
<1>3. target \in GridRows /\ target \in Nat /\ target * Step \in Nat
  BY <1>1, <1>2, TargetIsRow DEF GridRows
<1>4. /\ filled \in GridRows /\ filled \in Nat /\ Valid(filled) /\ Run(filled) = Run(d)
      /\ target < filled
  <2>1. filled \in GridRows /\ Valid(filled) /\ Run(filled) = Run(d)
    BY <1>1 DEF InOneRun
  <2>2. p.exchange \in Nat /\ target * Step < p.exchange
    BY <1>1, <1>3 DEF ProbeAt
  <2>3. filled \in Nat /\ p.exchange <= filled * Step
    BY <2>2, RowFromIs
  <2>4. ~(filled <= target)
    <3> SUFFICES ASSUME filled <= target PROVE FALSE
      OBVIOUS
    <3>1. filled * Step <= target * Step /\ filled * Step \in Int
      <4>1. CASE filled = target
        BY <1>3, <4>1
      <4>2. CASE filled < target
        BY <1>3, <2>3, <4>2, StepGrows
      <4> QED
        BY <1>3, <2>3, <4>1, <4>2
    <3> QED
      BY <1>3, <2>2, <2>3, <3>1
  <2> QED
    BY <1>3, <2>1, <2>3, <2>4
<1> HIDE DEF filled
<1>5. \A i \in d .. filled : Valid(i) /\ (i > d => grid[i] # "new")
  <2>1. CASE d <= filled
    <3>1. Valid(d)
      BY <1>1 DEF InTail, Valid
    <3> QED
      BY <1>2, <1>4, <2>1, <3>1, RunIsUnbroken
  <2>2. CASE ~(d <= filled)
    BY <1>2, <1>4, <2>2
  <2> QED
    BY <2>1, <2>2
<1>6. /\ entry.received \in Nat
      /\ hold # OnSignal => entry.received + MinimumDelay + hold <= target * Step
      /\ entry.received <= target * Step
      /\ hold = OnSignal =>
            /\ TargetIndex(MinimumDelay) \in Nat
            /\ \A i \in Int : i * Step >= entry.received + MinimumDelay =>
                  TargetIndex(MinimumDelay) <= i
            /\ target <= FirstOut(TargetIndex(MinimumDelay))
  BY <1>1, ExitIs DEF TripInv
<1>7. ASSUME hold = OnSignal, NEW i \in d + 1 .. target - 1,
             i * Step >= entry.received + MinimumDelay
      PROVE  InTail(i)
  <2> DEFINE first == TargetIndex(MinimumDelay)
  <2>1. /\ i \in Nat /\ i \in GridRows /\ i \in d .. filled /\ i > d
        /\ first \in Nat /\ first <= i /\ i < FirstOut(first)
    <3>1. FirstOut(first) \in Nat
      BY <1>6, <1>7, FirstOutIs
    <3> QED
      BY <1>2, <1>3, <1>4, <1>6, <1>7, <3>1 DEF GridRows
  <2>2. d < first
    <3> SUFFICES ASSUME first <= d PROVE FALSE
      BY <1>2, <2>1
    <3>1. entry.received + MinimumDelay <= first * Step
      BY <1>2, <1>6, RowFromIs DEF TargetIndex
    <3>2. first * Step <= d * Step /\ first * Step \in Int
      <4>1. CASE first = d
        BY <1>2, <4>1
      <4>2. CASE first < d
        BY <1>2, <2>1, <4>2, StepGrows
      <4> QED
        BY <1>2, <2>1, <4>1, <4>2
    <3>3. d * Step < entry.received
      BY <1>1, <1>2 DEF ProbeAt
    <3> QED
      BY <1>2, <1>6, <3>1, <3>2, <3>3
  <2> HIDE DEF first
  <2>3. Unbroken(first, i)
    <3> SUFFICES ASSUME NEW k \in first .. i PROVE Valid(k) /\ (k > first => grid[k] # "new")
      BY DEF Unbroken
    <3>1. k \in d .. filled /\ k > d
      BY <1>2, <1>4, <2>1, <2>2
    <3> QED
      BY <1>5, <3>1
  <2>4. grid[i] # "out"
    BY <2>1, <2>3, FirstOutIs
  <2>5. Valid(i) /\ grid[i] # "new"
    BY <1>5, <2>1
  <2>6. grid[i] \in GridRowKinds
    BY <1>1, <2>1 DEF GridType
  <2> QED
    BY <2>4, <2>5, <2>6 DEF InTail, Valid, GridRowKinds
<1>8. p.placed >= entry.received
  BY <1>1, <1>3, <1>6 DEF ProbeAt
<1>9. ASSUME cancel = "cancel_on_tail_exit", NEW i \in d + 1 .. DayRows - 1,
             i * Step + CancelLatency < entry.received
      PROVE  InTail(i)
  <2> SUFFICES ASSUME ~InTail(i) PROVE FALSE
    OBVIOUS
  <2> DEFINE unsafe == {j \in GridRows : j > d /\ (~InTail(j) \/ Run(j) = NoRun \/ Run(j) # Run(j - 1))}
             next == NextUnsafe(d)
  <2>1. i \in GridRows /\ i \in Nat /\ i < DayRows /\ i \in unsafe
    BY <1>2, <1>9 DEF GridRows
  <2>2. next \in Nat /\ next <= i
    <3>1. unsafe \in SUBSET GridRows
      OBVIOUS
    <3>2. next = FirstOf(unsafe)
      BY DEF NextUnsafe
    <3> HIDE DEF unsafe, next
    <3> QED
      BY <2>1, <3>1, <3>2, FirstOfIs
  <2>3. entry.received <= next * Step + CancelLatency
    <3>1. next # DayRows
      BY <1>2, <2>1, <2>2
    <3> QED
      BY <1>1, <1>9, <3>1 DEF Survives
  <2> HIDE DEF next
  <2>4. next * Step <= i * Step /\ next * Step \in Int /\ i * Step \in Int
    <3>1. CASE next = i
      BY <1>2, <2>1, <3>1
    <3>2. CASE next < i
      BY <2>1, <2>2, <3>2, StepGrows
    <3> QED
      BY <2>1, <2>2, <3>1, <3>2
  <2> QED
    BY <1>2, <1>6, <1>9, <2>3, <2>4
<1> QED
  BY <1>2, <1>3, <1>5, <1>6, <1>7, <1>8, <1>9 DEF filled

\* The pairing of maker_roundtrip_search.py and state_exit_search.py: a valid
\* round trip could have been made with what was known, for every day, grid,
\* holding time, latency and delay.
THEOREM TripsCouldBeMade == TSpec => []ValidTripsAreCausal
<1>1. TInit => TripInv
  BY TripInit
<1>2. TripInv /\ [TNext]_tvars => TripInv'
  BY TripNext
<1>3. TripInv => ValidTripsAreCausal
  BY TripsAreCausal
<1> QED
  BY <1>1, <1>2, <1>3, PTL DEF TSpec

================================================================================
