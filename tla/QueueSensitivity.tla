--------------------------- MODULE QueueSensitivity ----------------------------
(***************************************************************************)
(* QueueSensitivityObserver of cpp/research/queue_sensitivity.cpp in its   *)
(* Grid mode: hypothetical orders at the touch under every pair of queue   *)
(* assumptions, and the path of the mid.  alpha is the share of the        *)
(* displayed quantity that is ahead of an order, beta the share of an      *)
(* unexplained removal that it is credited with.                           *)
(***************************************************************************)
EXTENDS ReplayObserver

CONSTANTS
    PlacementInterval,  \* placement_interval_ms
    ObservationWindow,            \* observation_window_ms
    Percents            \* kPercents

ASSUME SensitivityAssumption ==
    PlacementInterval \in Nat \ {0} /\ ObservationWindow \in Nat \ {0} /\ Percents \subseteq 0 .. 100

Cells == Percents \X Percents

Alpha(cell) == cell[1]
Beta(cell) == cell[2]

ScalePercent(value, percent) == (value * percent) \div 100

NewSensitivity ==
    [trade_stream_up |-> FALSE, in_segment |-> FALSE, segment |-> 0, start |-> 0,
     next_placement |-> 0, last_mid |-> 0, last_record |-> 0,
     pending |-> <<>>, fills |-> {}, mid_path |-> <<>>]

RecordMid(q, ns, levels) ==
    IF MidX2(levels) = q.last_mid THEN q
    ELSE [q EXCEPT !.last_mid = MidX2(levels),
                   !.mid_path = Append(@, [ns |-> ns, segment |-> q.segment, mid |-> MidX2(levels)])]

NewOrder(q, ns, side, levels) ==
    LET displayed == levels[<<side, BestOf(levels, side)>>]
    IN  [ns |-> ns, segment |-> q.segment, side |-> side, quote |-> BestOf(levels, side),
         added_behind |-> 0, trade_pool |-> 0, observed_end |-> 0,
         ahead |-> [c \in Cells |-> ScalePercent(displayed, Alpha(c))],
         filled |-> [c \in Cells |-> 0], fill |-> [c \in Cells |-> 0],
         mechanism |-> [c \in Cells |-> "unfilled"]]

\* place_due up to and including until: a bid and an ask at every instant.
PlaceDue(q, until, book) ==
    LET at == Points(q.next_placement, until, PlacementInterval)
        orders == [i \in 1 .. 2 * Len(at) |->
                      NewOrder(q, at[(i + 1) \div 2], IF i % 2 = 1 THEN "bid" ELSE "ask",
                               book.levels)]
    IN  [q EXCEPT !.pending = @ \o orders,
                  !.next_placement = NextPoint(@, until, PlacementInterval)]

\* retire: orders at the front whose window is over.
Retire(q, ns) ==
    LET over(n) == \A i \in 1 .. n : q.pending[i].ns + ObservationWindow <= ns
        n == Max({k \in 0 .. Len(q.pending) : over(k)})
    IN  [q EXCEPT !.fills = @ \cup {[q.pending[i] EXCEPT !.observed_end = q.pending[i].ns + ObservationWindow] :
                                       i \in 1 .. n},
                  !.pending = SubSeq(@, n + 1, Len(@))]

OpenSensitivity(q, ns) ==
    [q EXCEPT !.in_segment = TRUE, !.segment = @ + 1, !.start = ns, !.pending = <<>>,
              !.last_mid = 0, !.next_placement = Aligned(ns, PlacementInterval)]

CloseSensitivity(q, ns) ==
    IF q.in_segment
    THEN [q EXCEPT !.fills = @ \cup {[o EXCEPT !.observed_end = Min({o.ns + ObservationWindow, ns})] :
                                        o \in Range(q.pending)},
                   !.pending = <<>>, !.in_segment = FALSE]
    ELSE q

\* before_record
SensitivityBefore(q, ns, book, live) ==
    IF q.in_segment /\ Usable(q, live) THEN PlaceDue(Retire(q, ns), ns - 1, book) ELSE q

\* What an order is told of its level: additions queue behind it, removals are
\* charged to those first, then to the prints, and the rest is credited.
LevelMoved(o, delta) ==
    LET from_behind == Min({o.added_behind, -delta})
        explained == Min({o.trade_pool, -delta - from_behind})
        removal == -delta - from_behind - explained
    IN  IF delta >= 0
        THEN [o EXCEPT !.added_behind = @ + delta]
        ELSE [o EXCEPT !.added_behind = @ - from_behind,
                       !.trade_pool = @ - explained,
                       !.ahead = [c \in Cells |->
                                     Max({0, @[c] - ScalePercent(removal, Beta(c))})]]

\* before_depth_event and after_depth_event: an event that was not applied
\* leaves the orders as they are.
SensitivityDepth(q, ns, before, after, applied) ==
    LET moved(o) == LevelMoved(o, after.levels[<<o.side, o.quote>>] - before.levels[<<o.side, o.quote>>])
        told == [q EXCEPT !.pending = [i \in DOMAIN @ |-> moved(@[i])]]
    IN  IF applied /\ q.in_segment THEN RecordMid(told, ns, after.levels) ELSE q

\* after_snapshot
SensitivitySnapshot(q, ns) == CloseSensitivity(q, ns)

\* on_trade for one order of the side that was hit.
FillOrder(o, ns, trade) ==
    LET unfilled == {c \in Cells : o.mechanism[c] = "unfilled"}
        overflow(c) == trade.qty - Min({o.ahead[c], trade.qty})
        lots == [c \in unfilled |-> Min({OrderLots, o.filled[c] + overflow(c)})]
        full == {c \in unfilled : overflow(c) > 0 /\ lots[c] >= OrderLots}
    IN  IF o.side # trade.side \/ o.ns >= ns THEN o
        ELSE IF Beyond(o.side, trade.price, o.quote)
        THEN [o EXCEPT !.ahead = [c \in unfilled |-> 0] @@ @,
                       !.filled = [c \in unfilled |-> OrderLots] @@ @,
                       !.fill = [c \in unfilled |-> ns] @@ @,
                       !.mechanism = [c \in unfilled |-> "trade_through"] @@ @]
        ELSE IF trade.price # o.quote THEN o
        ELSE [o EXCEPT !.trade_pool = @ + trade.qty,
                       !.ahead = [c \in unfilled |-> o.ahead[c] - Min({o.ahead[c], trade.qty})] @@ @,
                       !.filled = lots @@ @,
                       !.fill = [c \in full |-> ns] @@ @,
                       !.mechanism = [c \in full |-> "at_quote"] @@ @]

SensitivityTrade(q, ns, trade) ==
    [q EXCEPT !.pending = [i \in DOMAIN @ |-> FillOrder(@[i], ns, trade)]]

\* after_record
SensitivityAfter(q, ns, book, live) ==
    LET seen == [q EXCEPT !.last_record = ns]
    IN  IF q.in_segment
        THEN IF Usable(q, live) THEN PlaceDue(Retire(seen, ns), ns, book)
             ELSE CloseSensitivity(seen, ns)
        ELSE IF Usable(q, live)
        THEN PlaceDue(RecordMid(OpenSensitivity(seen, ns), ns, book.levels), ns, book)
        ELSE seen

\* finish
SensitivityFinish(q) == CloseSensitivity(q, Max({q.last_record, q.start}))
===============================================================================
