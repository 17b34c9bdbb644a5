------------------------------ MODULE MarketMaker ------------------------------
(***************************************************************************)
(* simulate_schedule (pyresearch/obi/continuous_mm.py): one day of a       *)
(* market maker that quotes both sides on a fixed cadence.  The schedule   *)
(* has a row for every decision and side, labelled beforehand with what    *)
(* would become of an order placed there; the simulator walks through it,  *)
(* decides which orders it places, and recognises their fills in time      *)
(* order.  Quantities are whole lots, times local receive times.           *)
(***************************************************************************)
EXTENDS Integers, FiniteSets

CONSTANTS
    Quantity,     \* quote_qty_btc
    Soft,         \* soft_limit_abs_btc
    Hard,         \* hard_limit_abs_btc
    Lifetime,     \* quote_lifetime_ms
    MaxPlacement, \* bound: placement times of the schedule
    MaxSchedule   \* bound: rows of the schedule

ASSUME MakerAssumption ==
    /\ {Quantity, Soft, Hard, Lifetime} \subseteq Nat \ {0}
    /\ MaxPlacement \in Nat /\ MaxSchedule \in Nat

Sides == {"ask", "bid"}
Policies == {"neutral", "obi_aware"}

\* weighted_obi_l10 against the threshold; NaN counts as inside.
Obi == {"negative", "inside", "positive"}

VARIABLES
    policy,
    selector,    \* a selection_column: "none", "column", or with its "override"
    row,         \* the row at hand
    walked,      \* rows read
    inventory,
    available,   \* when the order of a side ends, -1 for none
    pending,     \* the heap of fills to come
    sequence,    \* of the last fill pushed
    placed,      \* the orders placed, for the properties
    phase

mvars == <<policy, selector, row, walked, inventory, available, pending, sequence, placed, phase>>

-------------------------------------------------------------------------------
(* The schedule (run_placements, cpp/app/tardis_passive_main.cpp).           *)

Expiry(at) == at + Lifetime

\* What would become of an order placed at a time: whether the book is valid
\* there, what is filled by when, and whether a replacement snapshot or the end
\* of the day cuts its life short, which shows only if it is not full by then.
Fates(at) ==
    LET never == -1
        life == at + 1 .. Expiry(at)
    IN  {f \in [valid : BOOLEAN, cut : BOOLEAN, lots : 0 .. Quantity,
               first : life \cup {never}, full : life \cup {never}] :
            /\ f.first # never <=> f.lots > 0
            /\ f.full # never <=> f.lots = Quantity
            /\ f.lots = Quantity => f.first <= f.full /\ ~f.cut
            /\ ~f.valid => f.lots = 0 /\ ~f.cut}

\* outcome_status: a cut order that is not full is labelled invalid.
FillStatus(fate) ==
    IF ~fate.valid THEN "invalid_at_placement"
    ELSE IF fate.lots = Quantity THEN "full"
    ELSE IF fate.cut THEN IF fate.lots > 0 THEN "partial_invalid" ELSE "invalid"
    ELSE IF fate.lots > 0 THEN "partial" ELSE "unfilled"

ValidOrderStatuses == {"full", "partial", "unfilled"}

NoRow == [at |-> 0]

-------------------------------------------------------------------------------
(* quote_permission.                                                         *)

ReducesInventory(side) == IF side = "bid" THEN inventory < 0 ELSE inventory > 0

\* Mutant of WithinLimits: what is held must be within the limits.
HeldWithinLimits(side) ==
    IF side = "bid" THEN inventory <= Hard /\ inventory < Soft
    ELSE inventory >= -Hard /\ inventory > -Soft

\* The whole quantity must fit below the hard limit, what is held below the soft.
WithinLimits(side) ==
    IF side = "bid" THEN inventory + Quantity <= Hard /\ inventory < Soft
    ELSE inventory - Quantity >= -Hard /\ inventory > -Soft

\* The OBI-aware policy does not quote the side a one-sided book runs over,
\* unless that reduces its inventory.
SuppressedByObi(side, obi) ==
    /\ policy = "obi_aware"
    /\ obi = IF side = "ask" THEN "positive" ELSE "negative"
    /\ ~ReducesInventory(side)

Allowed(obi) == WithinLimits(row.side) /\ ~SuppressedByObi(row.side, obi)

\* selection_column and risk_reducing_override.
Selected(selected) ==
    \/ selector = "none" \/ selected
    \/ selector = "override" /\ ReducesInventory(row.side)

-------------------------------------------------------------------------------
(* simulate_schedule.                                                        *)

MInit ==
    /\ policy \in Policies
    /\ selector \in {"none", "column", "override"}
    /\ row = NoRow /\ walked = 0
    /\ inventory = 0
    /\ available = [s \in Sides |-> -1]
    /\ pending = {} /\ sequence = 0 /\ placed = {}
    /\ phase = "next"

\* Rows are sorted by their placement, which may lag behind the cadence.
NextRow(at, side, fate) ==
    /\ phase = "next" /\ walked < MaxSchedule
    /\ row.at <= at
    /\ row' = [at |-> at, side |-> side, fate |-> fate]
    /\ walked' = walked + 1
    /\ phase' = "fills"
    /\ UNCHANGED <<policy, selector, inventory, available, pending, sequence, placed>>

\* The top of the heap: time, then sequence.
Top(e) ==
    \A f \in pending : e.time < f.time \/ (e.time = f.time /\ e.sequence <= f.sequence)

\* Mutant of Due: a fill at the time of the decision comes after it.
DueBefore(e) == phase = "drain" \/ e.time < row.at

\* Fills up to the decision come before it; at the end of the day all do.
Due(e) == phase = "drain" \/ e.time <= row.at

\* _apply_fill.
ApplyFill(e) ==
    /\ phase \in {"fills", "drain"}
    /\ Top(e) /\ Due(e)
    /\ inventory' = IF e.side = "bid" THEN inventory + e.lots ELSE inventory - e.lots
    /\ pending' = pending \ {e}
    /\ UNCHANGED <<policy, selector, row, walked, available, sequence, placed, phase>>

Deciding == phase = "fills" /\ \A e \in pending : ~(Top(e) /\ Due(e))

ActiveOrderConflict == row.at < available[row.side]

ValidPlacement == FillStatus(row.fate) \in ValidOrderStatuses

\* active_order_conflicts, invalid_placements and suppressed_by_*.
NotPlaced(obi, selected) ==
    /\ Deciding
    /\ ActiveOrderConflict \/ ~ValidPlacement \/ ~Allowed(obi) \/ ~Selected(selected)
    /\ row' = [at |-> row.at]
    /\ phase' = "next"
    /\ UNCHANGED <<policy, selector, walked, inventory, available, pending, sequence, placed>>

\* A full order is active until it is complete, any other until it expires.
OrderEnd(at, fate) == IF FillStatus(fate) = "full" THEN fate.full ELSE Expiry(at)

\* The order of the row is placed: its signal and its selector say so.
Place(obi, selected) ==
    LET fate == row.fate IN
    /\ Deciding
    /\ ~ActiveOrderConflict /\ ValidPlacement /\ Allowed(obi) /\ Selected(selected)
    /\ fate.lots > 0 => fate.first <= OrderEnd(row.at, fate)
    /\ available' = [available EXCEPT ![row.side] = OrderEnd(row.at, fate)]
    /\ IF fate.lots > 0
       THEN /\ sequence' = sequence + 1
            /\ pending' = pending \cup {[time |-> fate.first, sequence |-> sequence + 1,
                                         side |-> row.side, lots |-> fate.lots]}
       ELSE UNCHANGED <<sequence, pending>>
    /\ placed' = placed \cup {[number |-> walked, at |-> row.at, side |-> row.side,
                               lots |-> fate.lots, first |-> fate.first, full |-> fate.full]}
    /\ row' = [at |-> row.at]
    /\ phase' = "next"
    /\ UNCHANGED <<policy, selector, walked, inventory>>

EndOfSchedule ==
    /\ phase = "next"
    /\ phase' = "drain"
    /\ UNCHANGED <<policy, selector, row, walked, inventory, available, pending, sequence, placed>>

\* What is left is sold, or bought back, at the last touch.
Liquidate ==
    /\ phase = "drain" /\ pending = {}
    /\ inventory' = 0
    /\ phase' = "done"
    /\ UNCHANGED <<policy, selector, row, walked, available, pending, sequence, placed>>

MNext ==
    \/ \E at \in 0 .. MaxPlacement, side \in Sides : \E fate \in Fates(at) : NextRow(at, side, fate)
    \/ \E e \in pending : ApplyFill(e)
    \/ \E obi \in Obi, selected \in BOOLEAN : NotPlaced(obi, selected) \/ Place(obi, selected)
    \/ EndOfSchedule \/ Liquidate

MSpec == MInit /\ [][MNext]_mvars

-------------------------------------------------------------------------------
(* Properties.                                                               *)

\* "hard_limit_may_never_be_breached"
\* (research/specs/continuous_inventory_mm_spec.json): a quote is permitted
\* for what is held when it is placed, while its own fill and that of the
\* other side are still to come, in an order nobody chose.
HardLimitHolds == -Hard <= inventory /\ inventory <= Hard

LotsOf(orders) == Cardinality(UNION {{o} \X (1 .. o.lots) : o \in orders})

FilledBy(time, side) ==
    LotsOf({o \in placed : o.side = side /\ o.lots > 0 /\ o.first <= time})

\* "fills_processed_before_later_quote_decisions": a decision knows all fills
\* of the placed orders up to its time and none after it, although every order
\* carries its future in its label; at the end of the day each fill counts once.
DecisionsKnowThePast ==
    /\ Deciding => inventory = FilledBy(row.at, "bid") - FilledBy(row.at, "ask")
    /\ phase = "drain" /\ pending = {} =>
          inventory = FilledBy(MaxPlacement + Lifetime, "bid") - FilledBy(MaxPlacement + Lifetime, "ask")

\* "one_active_order_per_side": the next order of a side is placed when the
\* one before it is complete or has expired, however late placements are.
OneOrderPerSide ==
    \A o, p \in placed :
        o.side = p.side /\ o.number < p.number =>
            p.at >= IF o.lots = Quantity THEN o.full ELSE Expiry(o.at)

\* The specification prohibits "ignore_partial_fills" and leaves out orders
\* "invalid_at_placement" only: an order placed on a valid book that gets a
\* part of its quantity has that part counted.
PartialFillsCounted == Deciding /\ row.fate.valid /\ row.fate.lots > 0 => ValidPlacement
===============================================================================
