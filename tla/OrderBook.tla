------------------------------ MODULE OrderBook ------------------------------
(***************************************************************************)
(* The integer tick/lot book of cpp/book/order_book.cpp, as operators over *)
(* a book record.  A ladder gives every (side, price) level its quantity,  *)
(* 0 where the level is absent from bids_ or asks_.                        *)
(*                                                                         *)
(* Prices and quantities reach the book through InstrumentInfo, which      *)
(* throws on a price outside PRICE_FILTER or a negative quantity, so the   *)
(* negative branch of apply_levels is never taken and has no counterpart.  *)
(***************************************************************************)
EXTENDS Integers

CONSTANTS
    Prices,      \* the price ticks a level may have
    Quantities   \* the lot counts a level may have; 0 means "no level"

ASSUME BookAssumption == Prices \subseteq Int /\ Quantities \subseteq Nat /\ 0 \in Quantities

Level == {"bid", "ask"} \X Prices

Ladder == [Level -> Quantities]

NoLevels == [l \in Level |-> 0]

Bids(levels) == {p \in Prices : levels[<<"bid", p>>] # 0}

Asks(levels) == {p \in Prices : levels[<<"ask", p>>] # 0}

\* is_uncrossed: both sides quoted, best bid strictly below best ask.
Uncrossed(levels) ==
    /\ Bids(levels) # {}
    /\ Asks(levels) # {}
    /\ \A b \in Bids(levels), a \in Asks(levels) : b < a

Book == [levels : Ladder, last_update_id : Nat, valid : BOOLEAN]

\* clear()
ClearedBook == [levels |-> NoLevels, last_update_id |-> 0, valid |-> FALSE]

\* invalidate(): the levels and the id stay readable, only the flag drops.
Invalidate(b) == [b EXCEPT !.valid = FALSE]

\* apply_levels on both sides: quantities are absolute replacements.
ApplyLevels(levels, changes) ==
    [l \in Level |-> IF l \in DOMAIN changes THEN changes[l] ELSE levels[l]]

\* load_snapshot; it returns the valid flag of the book it leaves.
LoadSnapshot(snapshot) ==
    [levels |-> snapshot.levels,
     last_update_id |-> snapshot.last_update_id,
     valid |-> Uncrossed(snapshot.levels)]

\* apply_depth_event: an invalid book refuses the event; a valid one takes the
\* levels and the id first, and is invalidated afterwards if it is crossed or
\* one-sided.  The return value is the valid flag of the book it leaves.
ApplyDepthEvent(b, event) ==
    IF b.valid
    THEN LET after == ApplyLevels(b.levels, event.changes)
         IN  [levels |-> after,
              last_update_id |-> event.final_update_id,
              valid |-> Uncrossed(after)]
    ELSE b
==============================================================================
