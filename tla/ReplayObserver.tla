----------------------------- MODULE ReplayObserver -----------------------------
(***************************************************************************)
(* What the native research observers (cpp/research) share.  An observer   *)
(* is attached to EventReplayer::replay and called around each record: with*)
(* the book before it, for what it is, and with the book after it.  An     *)
(* observer is a record of its members, and each of its callbacks an       *)
(* operator from the members before the call to those after it.            *)
(***************************************************************************)
EXTENDS Replayer, SequencesExt, FiniteSetsExt

CONSTANTS
    Grid,       \* grid_ms of the rows
    OrderLots   \* order_lots of a hypothetical order

ASSUME ObserverAssumption == Grid \in Nat \ {0} /\ OrderLots \in Nat \ {0}

Sides == {"bid", "ask"}

BestOf(levels, side) == IF side = "bid" THEN Max(Bids(levels)) ELSE Min(Asks(levels))

\* Mids are in half ticks, as in the code.
MidX2(levels) == BestOf(levels, "bid") + BestOf(levels, "ask")

\* A price on the far side of a quote: below a bid, above an ask.
Beyond(side, price, quote) == IF side = "bid" THEN price < quote ELSE price > quote

\* The first multiple of step at or after ns.
Aligned(ns, step) == IF ns % step = 0 THEN ns ELSE ns + (step - (ns % step))

\* The points from next up to until, one step apart: one run of the loops of
\* advance_grid and place_due, and where they leave the next point.
Points(next, until, step) ==
    [i \in 1 .. (IF until < next THEN 0 ELSE (until - next) \div step + 1) |->
        next + (i - 1) * step]

NextPoint(next, until, step) == next + Len(Points(next, until, step)) * step

\* usable(): both feeds are there.
Usable(o, live) == live /\ o.trade_stream_up

\* on_connection: only the trade stream is the observer's own business.
OnConnection(o, stream, open) ==
    IF stream = "aggTrade" THEN [o EXCEPT !.trade_stream_up = open] ELSE o
===============================================================================
