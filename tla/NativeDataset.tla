----------------------------- MODULE NativeDataset -----------------------------
(***************************************************************************)
(* NativeDatasetExporter of cpp/research/native_dataset_exporter.cpp: the  *)
(* rows of the decision grid, each pending until the future it is labelled *)
(* with has been seen.  A row keeps the earliest instant at which one of   *)
(* its labels may be due, so that most records pass it over.  The feature  *)
(* columns are left out.                                                   *)
(*                                                                         *)
(* A label that is not there yet is not in the domain of its function; a   *)
(* stamp of 0 is an event that was not seen.                               *)
(***************************************************************************)
EXTENDS ReplayObserver

CONSTANTS
    Markouts,          \* markout_ms
    FillMarks,         \* fill_ms
    PostFills,         \* postfill_ms
    FillHorizon,       \* fill_horizon_ms
    AdverseThreshold,  \* adverse_threshold_half_ticks
    Never              \* bound: a deadline later than every stamp

ASSUME DatasetAssumption ==
    /\ Markouts \cup FillMarks \cup PostFills \cup {FillHorizon} \subseteq Nat \ {0}
    /\ AdverseThreshold \in Nat /\ Never \in Nat

NewDataset ==
    [trade_stream_up |-> FALSE, in_segment |-> FALSE, segments |-> 0, start |-> 0,
     next_sample |-> 0, pending |-> <<>>, min_deadline |-> Never, last_resolved_mid |-> 0,
     last_record |-> 0, written |-> {}, segment_qc |-> <<>>]

(***************************************************************************)
(* Rows                                                                    *)
(***************************************************************************)
NewSide(levels, side) ==
    [quote |-> BestOf(levels, side), ahead |-> levels[<<side, BestOf(levels, side)>>],
     consumed |-> 0, full_fill |-> 0, through |-> FALSE,
     fill_flag |-> <<>>, lots_at_horizon |-> -1, postfill |-> <<>>,
     mid_adverse |-> 0, fill_before_adverse |-> -1, quote_gone |-> 0, best_adverse |-> 0]

SideDeadlines(row, side) ==
    {row.ns + h : h \in FillMarks \ DOMAIN side.fill_flag}
    \cup (IF side.lots_at_horizon < 0 \/ side.fill_before_adverse < 0 \/ row.watching
          THEN {row.ns + FillHorizon} ELSE {})
    \cup {IF side.full_fill # 0 THEN side.full_fill + h ELSE row.ns + FillHorizon :
            h \in PostFills \ DOMAIN side.postfill}

RefreshNextDeadline(row) ==
    [row EXCEPT !.next_deadline =
        Min({Never} \cup {row.ns + h : h \in Markouts \ DOMAIN row.markout}
                    \cup UNION {SideDeadlines(row, row.side[s]) : s \in Sides})]

NewRow(d, ns, levels) ==
    RefreshNextDeadline(
        [ns |-> ns, segment |-> d.segments, mid |-> MidX2(levels), markout |-> <<>>,
         next_move |-> 0, next_move_dir |-> 0, watching |-> TRUE, next_deadline |-> Never,
         side |-> [s \in Sides |-> NewSide(levels, s)]])

\* advance_grid up to and including until; emit_sample is for a valid book.
AdvanceGrid(d, until, book) ==
    LET at == Points(d.next_sample, until, Grid)
        rows == [i \in DOMAIN at |-> NewRow(d, at[i], book.levels)]
    IN  IF d.in_segment
        THEN [d EXCEPT !.pending = @ \o rows,
                       !.min_deadline = Min({@} \cup {rows[i].next_deadline : i \in DOMAIN rows}),
                       !.next_sample = NextPoint(@, until, Grid)]
        ELSE d

\* An adverse move is one away from the resting order.
ApplyMidMove(row, mid, now) ==
    LET drift(s) == IF s = "bid" THEN mid - row.mid ELSE row.mid - mid
        turned(s) == row.side[s].mid_adverse = 0 /\ drift(s) <= -AdverseThreshold
        first == row.next_move_dir = 0
    IN  IF mid = row.mid \/ now > row.ns + FillHorizon
        THEN row
        ELSE [row EXCEPT
                !.next_move = IF first THEN now ELSE @,
                !.next_move_dir = IF first THEN (IF mid > row.mid THEN 1 ELSE -1) ELSE @,
                !.side = [s \in Sides |->
                    IF turned(s)
                    THEN [@[s] EXCEPT !.mid_adverse = now,
                                      !.fill_before_adverse = IF @ < 0 THEN 0 ELSE @]
                    ELSE @[s]]]

SettleSide(row, s, due, mid) ==
    LET side == row.side[s]
        filled == side.full_fill # 0
        flags == {h \in FillMarks \ DOMAIN side.fill_flag : row.ns + h <= due}
        over == row.ns + FillHorizon <= due
        open == PostFills \ DOMAIN side.postfill
        seen == {h \in open : filled /\ side.full_fill + h <= due}
        dropped == IF over /\ ~filled THEN open ELSE {}
        worth == IF s = "bid" THEN mid - 2 * side.quote ELSE 2 * side.quote - mid
    IN  [side EXCEPT
            !.fill_flag = [h \in flags |-> filled /\ side.full_fill <= row.ns + h] @@ @,
            !.lots_at_horizon =
                IF over /\ @ < 0
                THEN Max({0, Min({side.consumed - side.ahead, OrderLots})}) ELSE @,
            !.fill_before_adverse = IF over /\ @ < 0 THEN 2 ELSE @,
            !.postfill = [h \in seen |-> worth] @@ [h \in dropped |-> 0] @@ @]

Settle(row, due, mid) ==
    RefreshNextDeadline(
        [row EXCEPT
            !.markout = [h \in {x \in Markouts \ DOMAIN @ : row.ns + x <= due} |->
                            mid - row.mid] @@ @,
            !.side = [s \in Sides |-> SettleSide(row, s, due, mid)]])

\* The body of resolve_pending for one row.
ResolveRow(row, now, due, mid, changed) ==
    LET moved == IF changed THEN ApplyMidMove(row, mid, now) ELSE row
    IN  IF row.ns >= now THEN row
        ELSE IF moved.next_deadline > due THEN moved ELSE Settle(moved, due, mid)

FlushFrontResolved(d) ==
    LET resolved(n) == \A i \in 1 .. n : d.pending[i].next_deadline = Never
        n == Max({k \in 0 .. Len(d.pending) : resolved(k)})
    IN  [d EXCEPT !.written = @ \cup {d.pending[i] : i \in 1 .. n},
                  !.pending = SubSeq(@, n + 1, Len(@))]

ResolvePending(d, now, due, book) ==
    LET mid == MidX2(book.levels)
        changed == mid # d.last_resolved_mid
        rows == [i \in DOMAIN d.pending |-> ResolveRow(d.pending[i], now, due, mid, changed)]
    IN  IF d.pending = <<>> \/ ~book.valid \/ (due < d.min_deadline /\ ~changed)
        THEN d
        ELSE FlushFrontResolved(
                [d EXCEPT !.pending = rows, !.last_resolved_mid = mid,
                          !.min_deadline =
                              Min({Never} \cup {rows[i].next_deadline : i \in DOMAIN rows})])

\* The races of one resting order, with the book after a depth event.
RaceSide(row, s, now, levels) ==
    LET side == row.side[s]
        best == BestOf(levels, s)
        adverse == side.best_adverse = 0 /\ Beyond(s, best, side.quote)
        gone == /\ side.quote_gone = 0
                /\ adverse \/ (best # side.quote /\ levels[<<s, side.quote>>] = 0)
    IN  [side EXCEPT !.best_adverse = IF adverse THEN now ELSE @,
                     !.quote_gone = IF gone THEN now ELSE @]

WatchBookRaces(d, now, book) ==
    LET raced(row) ==
            LET sides == [s \in Sides |-> RaceSide(row, s, now, book.levels)]
                outstanding == \E s \in Sides :
                    /\ sides[s].best_adverse = 0 \/ sides[s].quote_gone = 0
                    /\ row.ns + FillHorizon > now
            IN  IF row.watching
                THEN [row EXCEPT !.side = sides, !.watching = outstanding] ELSE row
    IN  [d EXCEPT !.pending = [i \in DOMAIN @ |-> raced(@[i])]]

(***************************************************************************)
(* Segments and callbacks                                                  *)
(***************************************************************************)
OpenDataset(d, ns) ==
    [d EXCEPT !.in_segment = TRUE, !.start = ns, !.pending = <<>>, !.min_deadline = Never,
              !.last_resolved_mid = 0, !.next_sample = Aligned(ns, Grid), !.segments = @ + 1]

CloseDataset(d, ns, reason) ==
    IF d.in_segment
    THEN [d EXCEPT !.written = @ \cup Range(d.pending), !.pending = <<>>, !.in_segment = FALSE,
                   !.segment_qc = Append(@, [start |-> d.start, end |-> ns, reason |-> reason])]
    ELSE d

\* Mutant of DatasetBefore: the rows just emitted wait for the next record.
DatasetBeforeOnce(d, ns, book, live) ==
    IF d.in_segment /\ Usable(d, live)
    THEN AdvanceGrid(ResolvePending(d, ns, ns - 1, book), ns - 1, book)
    ELSE d

\* before_record: what is due before ns, and the grid before ns, with the book
\* of the record before.
DatasetBefore(d, ns, book, live) ==
    IF d.in_segment /\ Usable(d, live)
    THEN LET sampled == AdvanceGrid(ResolvePending(d, ns, ns - 1, book), ns - 1, book)
         IN  ResolvePending(sampled, ns, ns - 1, book)
    ELSE d

\* after_depth_event: an event that was not applied ends the segment.
DatasetDepth(d, ns, book, applied) ==
    IF ~applied THEN CloseDataset(d, ns, "depth_desync")
    ELSE IF d.in_segment THEN WatchBookRaces(d, ns, book)
    ELSE d

\* after_snapshot
DatasetSnapshot(d, ns) == CloseDataset(d, ns, "resnapshot")

\* on_trade for one resting order of the side that was hit.
FillSide(row, side, s, ns, trade) ==
    LET reaches == trade.price = side.quote \/ Beyond(s, trade.price, side.quote)
        through == trade.price # side.quote
        consumed == IF through THEN side.ahead + OrderLots ELSE side.consumed + trade.qty
        full == consumed >= side.ahead + OrderLots
    IN  IF \/ row.ns >= ns \/ row.ns + FillHorizon <= ns
           \/ side.full_fill # 0 \/ ~reaches
        THEN side
        ELSE [side EXCEPT !.consumed = consumed, !.through = @ \/ through,
                          !.full_fill = IF full THEN ns ELSE 0,
                          !.fill_before_adverse = IF full /\ @ < 0 THEN 1 ELSE @]

\* Mutant of FillRow: a fill does not move the deadline of the row.
FillRowOnly(row, ns, trade) ==
    [row EXCEPT !.side[trade.side] = FillSide(row, @, trade.side, ns, trade)]

FillRow(row, ns, trade) ==
    LET filled == [row EXCEPT !.side[trade.side] = FillSide(row, @, trade.side, ns, trade)]
    IN  IF filled.side[trade.side].full_fill # row.side[trade.side].full_fill
        THEN RefreshNextDeadline(filled) ELSE filled

\* on_trade: trade.side is the side of the orders it can consume.
DatasetTrade(d, ns, trade) ==
    LET rows == [i \in DOMAIN d.pending |-> FillRow(d.pending[i], ns, trade)]
        refreshed == {i \in DOMAIN rows :
                        rows[i].side[trade.side].full_fill
                            # d.pending[i].side[trade.side].full_fill}
    IN  [d EXCEPT !.pending = rows,
                  !.min_deadline = Min({@} \cup {rows[i].next_deadline : i \in refreshed})]

\* after_record
DatasetAfter(d, ns, book, live) ==
    LET seen == [d EXCEPT !.last_record = ns]
        sampled == AdvanceGrid(ResolvePending(seen, ns, ns, book), ns, book)
    IN  IF d.in_segment
        THEN IF Usable(d, live) THEN ResolvePending(sampled, ns, ns, book)
             ELSE CloseDataset(seen, ns, IF live THEN "trade_stream_down" ELSE "depth_desync")
        ELSE IF Usable(d, live) THEN OpenDataset(seen, ns) ELSE seen

\* finish
DatasetFinish(d) == CloseDataset(d, Max({d.last_record, d.start}), "end_of_input")
===============================================================================
