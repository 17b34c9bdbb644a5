------------------------------ MODULE NativeReplay ------------------------------
(***************************************************************************)
(* The observers of one replay of a capture: EventReplayer::replay of      *)
(* cpp/replay/event_replayer.cpp calls each of them around every record.   *)
(* The code runs each in a replay of its own over the same files; their    *)
(* outputs are joined afterwards on (file, segment, instant) by the native *)
(* studies (pyresearch/native), which rebuild from one what another has    *)
(* written.  The segments are counted by each observer for itself.         *)
(***************************************************************************)
EXTENDS NativeDataset, QueueSensitivity, LevelLifecycle

CONSTANTS
    RecordedDepths,     \* the updates a capture may hold
    RecordedSnapshots,  \* the ids of its snapshots
    Trades,             \* its trades: the side they can consume, price and quantity
    Lead,               \* the records it starts with
    Gaps,               \* from one stamp to the next; the threads' clocks are not ordered
    Repeats,            \* whether the venue repeats an update that was applied
    MaxRecords          \* bound: records after the lead

ASSUME NativeReplayAssumption ==
    /\ RecordedDepths \subseteq DepthEvents /\ RecordedSnapshots \subseteq Ids
    /\ Gaps \subseteq Int /\ Repeats \in BOOLEAN /\ MaxRecords \in Nat

VARIABLES
    replayer,     \* the synchronizer and depth_connected
    dataset,      \* the three observers
    sensitivity,
    lifecycle,
    clock,        \* local_system_ns of the last record
    records,      \* how many were read
    increasing,   \* every record was stamped later than the one before it
    ended         \* finish was called

nvars == <<replayer, dataset, sensitivity, lifecycle, clock, records, increasing, ended>>

NInit ==
    /\ replayer = NewReplay
    /\ dataset = NewDataset /\ sensitivity = NewSensitivity /\ lifecycle = NewLifecycle
    /\ clock = 0 /\ records = 0 /\ increasing = TRUE /\ ended = FALSE

Leading == records < Len(Lead)

\* The capture has this record next, gap after the one before.
Reads(record, gap) ==
    /\ ~ended /\ records < Len(Lead) + MaxRecords
    /\ IF Leading THEN record = Lead[records + 1] /\ gap = 1 ELSE gap \in Gaps
    /\ clock' = clock + gap
    /\ records' = records + 1
    /\ increasing' = (increasing /\ gap > 0)
    /\ UNCHANGED ended

CurrentBook == replayer.sync.book
DatasetSoFar == DatasetBefore(dataset, clock', CurrentBook, ShowsBook(replayer))
SensitivitySoFar == SensitivityBefore(sensitivity, clock', CurrentBook, ShowsBook(replayer))
LifecycleSoFar == LifecycleBefore(lifecycle, clock', CurrentBook, ShowsBook(replayer))

\* after_record, once the replayer and the observers have taken the record.
After(r, d, q, v) ==
    /\ replayer' = r
    /\ dataset' = DatasetAfter(d, clock', r.sync.book, ShowsBook(r))
    /\ sensitivity' = SensitivityAfter(q, clock', r.sync.book, ShowsBook(r))
    /\ lifecycle' = LifecycleAfter(v, clock', r.sync.book, ShowsBook(r))

ConnectionRecord(gap, stream, open) ==
    LET r == IF stream # "depth" THEN replayer
             ELSE IF open THEN OnOpenRecord(replayer) ELSE OnCloseRecord(replayer)
    IN  /\ Reads([type |-> "connection", stream |-> stream, open |-> open], gap)
        /\ After(r, OnConnection(DatasetSoFar, stream, open),
                    OnConnection(SensitivitySoFar, stream, open),
                    OnConnection(LifecycleSoFar, stream, open))

SnapshotRecord(gap, id) ==
    /\ Reads([type |-> "snapshot", id |-> id], gap)
    /\ After(OnSnapshotRecord(replayer, Snapshot(id)), DatasetSnapshot(DatasetSoFar, clock'),
             SensitivitySnapshot(SensitivitySoFar, clock'),
             LifecycleSnapshot(LifecycleSoFar, clock'))

\* What the venue may send once an update was applied.
MaySend(event) ==
    Repeats \/ (ShowsBook(replayer) => event.final_update_id > CurrentBook.last_update_id)

UpdateRecord(gap, event) ==
    LET r == OnUpdateRecord(replayer, event)
        applied == r.sync.result = "Applied"
    IN  /\ MaySend(event)
        /\ Reads([type |-> "update", event |-> event], gap)
        /\ IF replayer.depth_connected
           THEN After(r, DatasetDepth(DatasetSoFar, clock', r.sync.book, applied),
                      SensitivityDepth(SensitivitySoFar, clock', CurrentBook, r.sync.book, applied),
                      LifecycleDepth(LifecycleSoFar, clock', CurrentBook, r.sync.book, applied))
           ELSE After(r, DatasetSoFar, SensitivitySoFar, LifecycleSoFar)

\* A depth message that does not parse: no observer is called for it.
MalformedRecord(gap) ==
    /\ Reads([type |-> "malformed"], gap)
    /\ After(OnMalformedRecord(replayer), DatasetSoFar, SensitivitySoFar, LifecycleSoFar)

TradeRecord(gap, trade) ==
    /\ Reads([type |-> "trade", trade |-> trade], gap)
    /\ After(replayer, DatasetTrade(DatasetSoFar, clock', trade),
             SensitivityTrade(SensitivitySoFar, clock', trade),
             LifecycleTrade(LifecycleSoFar, clock', trade))

\* InstrumentInfo and Status: only time passes.
OtherRecord(gap) ==
    /\ Reads([type |-> "other"], gap)
    /\ After(replayer, DatasetSoFar, SensitivitySoFar, LifecycleSoFar)

Finish ==
    /\ ~ended /\ ~Leading
    /\ ended' = TRUE
    /\ dataset' = DatasetFinish(dataset)
    /\ sensitivity' = SensitivityFinish(sensitivity)
    /\ lifecycle' = LifecycleFinish(lifecycle)
    /\ UNCHANGED <<replayer, clock, records, increasing>>

NNext ==
    \/ \E gap \in Gaps \cup {1} :
        \/ \E stream \in {"depth", "aggTrade"}, open \in BOOLEAN :
                ConnectionRecord(gap, stream, open)
        \/ \E id \in RecordedSnapshots : SnapshotRecord(gap, id)
        \/ \E event \in RecordedDepths : UpdateRecord(gap, event)
        \/ MalformedRecord(gap)
        \/ \E trade \in Trades : TradeRecord(gap, trade)
        \/ OtherRecord(gap)
    \/ Finish

NSpec == NInit /\ [][NNext]_nvars

(***************************************************************************)
(* What the studies rebuild                                                *)
(***************************************************************************)
SegmentEnd(k) == dataset.segment_qc[k].end

\* The exporter saw an instant of segment k: a segment that something other
\* than the end of the input closed ends before its last instant.
Saw(k, ns) ==
    ns < SegmentEnd(k) \/ (ns = SegmentEnd(k) /\ dataset.segment_qc[k].reason = "end_of_input")

\* MidPath.mid_at (native/economic/data.py): the last point at or before ns.
PathOf(k) == SelectSeq(sensitivity.mid_path, LAMBDA p : p.segment = k)

MidAt(k, ns) == Last(SelectSeq(PathOf(k), LAMBDA p : p.ns <= ns)).mid

\* MidSeries.first_change_after (native/directional/data.py), in the horizon.
MovesAfter(row) ==
    SelectSeq(PathOf(row.segment), LAMBDA p : p.ns > row.ns /\ p.ns <= row.ns + FillHorizon)

\* The grid shifted forward (native/decay/data.py).
ForwardRows(row, h) ==
    {r \in dataset.written : r.segment = row.segment /\ r.ns = row.ns + h}

Adverse(row, s) ==
    SelectSeq(MovesAfter(row),
              LAMBDA p : (IF s = "bid" THEN p.mid - row.mid ELSE row.mid - p.mid) <= -AdverseThreshold)

FirstStamp(points) == IF points = <<>> THEN 0 ELSE points[1].ns

Sign(n) == IF n > 0 THEN 1 ELSE IF n < 0 THEN -1 ELSE 0

(***************************************************************************)
(* Properties                                                              *)
(***************************************************************************)

\* A markout of a row is what the row one horizon later in its segment shows,
\* and is missing exactly if there is no such row; this holds whatever the
\* stamps do.
MarkoutsAreForwardRows ==
    \A row \in dataset.written : \A h \in Markouts :
        IF ForwardRows(row, h) = {} THEN h \notin DOMAIN row.markout
        ELSE h \in DOMAIN row.markout /\ \A r \in ForwardRows(row, h) : row.markout[h] = r.mid - row.mid

\* As long as the stamps increase, markouts, next move and adverse moves are
\* what the path of the mid says.
LabelsOfThePath(row) ==
    /\ row.mid = MidAt(row.segment, row.ns)
    /\ \A h \in Markouts :
        /\ h \in DOMAIN row.markout <=> Saw(row.segment, row.ns + h)
        /\ h \in DOMAIN row.markout => row.markout[h] = MidAt(row.segment, row.ns + h) - row.mid
    /\ row.next_move = FirstStamp(MovesAfter(row))
    /\ row.next_move # 0 => row.next_move_dir = Sign(MovesAfter(row)[1].mid - row.mid)
    /\ \A s \in Sides : row.side[s].mid_adverse = FirstStamp(Adverse(row, s))

\* The labels the exporter settles record by record, behind cached deadlines,
\* are the ones the later studies rebuild from the rows and from the mid path
\* of another observer.
LabelsAreTheMidPath ==
    ended => /\ MarkoutsAreForwardRows
             /\ increasing => \A row \in dataset.written : LabelsOfThePath(row)

\* An order that is further ahead, or credited with more, fills no later and
\* no less: the cells bound each other.
CellsAreBracketed(o) ==
    \A c, e \in Cells :
        Alpha(c) <= Alpha(e) /\ Beta(c) >= Beta(e) =>
            /\ o.filled[c] >= o.filled[e]
            /\ o.fill[e] # 0 => o.fill[c] # 0 /\ o.fill[c] <= o.fill[e]

\* The side of a row and the order of the conservative cell at its instant.
SameFill(row, side, o) ==
    LET f == o.fill[<<100, 0>>]
        worth(ns) == IF o.side = "bid" THEN MidAt(row.segment, ns) - 2 * o.quote
                     ELSE 2 * o.quote - MidAt(row.segment, ns)
    IN  /\ side.quote = o.quote
        /\ side.full_fill = f
        /\ side.through = (o.mechanism[<<100, 0>>] = "trade_through")
        /\ \A h \in FillMarks :
            /\ h \in DOMAIN side.fill_flag <=> Saw(row.segment, row.ns + h)
            /\ h \in DOMAIN side.fill_flag => side.fill_flag[h] = (f # 0 /\ f <= row.ns + h)
        /\ side.lots_at_horizon # -1 => side.lots_at_horizon = o.filled[<<100, 0>>]
        /\ side.fill_before_adverse = 1 <=>
              f # 0 /\ (side.mid_adverse = 0 \/ f < side.mid_adverse)
        /\ f # 0 => \A h \in PostFills :
            /\ h \in DOMAIN side.postfill <=> Saw(row.segment, f + h)
            /\ h \in DOMAIN side.postfill => side.postfill[h] = worth(f + h)

\* Two simulations of the same hypothetical order agree on whether, when and
\* how it fills and on what it is worth afterwards, and the cells of the second
\* bound each other.
FillsAgreeWithQueueStudy ==
    ended /\ increasing =>
        /\ \A o \in sensitivity.fills : CellsAreBracketed(o)
        /\ \A row \in dataset.written : \A o \in sensitivity.fills :
            o.segment = row.segment /\ o.ns = row.ns => SameFill(row, row.side[o.side], o)

\* Between two records each side has the episode of its best price, whose
\* quantity, kept up from changes, is what the book shows.
EpisodesShowTheTouch ==
    lifecycle.in_segment =>
        \A s \in Sides :
            LET e == lifecycle.levels[s]
            IN  /\ e.active /\ e.price = BestOf(CurrentBook.levels, s)
                /\ e.current = CurrentBook.levels[<<s, e.price>>]
                /\ e.current = e.initial + e.added - e.removed
                /\ e.explained <= e.at_quote

\* Where an episode ended by the book moving away, the orders of the rows it
\* covers have lost their race at that instant, and no other order has.
RacesEndWithTheLevel ==
    \A row \in dataset.written, s \in Sides :
        LET over == {e \in lifecycle.episodes :
                        /\ e.segment = row.segment /\ e.side = s
                        /\ e.start <= row.ns /\ row.ns < e.end}
            side == row.side[s]
        IN  \A e \in over :
                /\ e.price = side.quote
                /\ e.reason = "stepped_away" /\ e.end <= row.ns + FillHorizon =>
                        side.best_adverse = e.end /\ side.quote_gone = e.end
                /\ e.reason # "improved" /\ side.best_adverse # 0 =>
                        e.reason = "stepped_away" /\ side.best_adverse = e.end

\* The episodes are the life of the touch, and the exporter's races are
\* decided where they end.
EpisodesAreTheTouch ==
    /\ EpisodesShowTheTouch
    /\ ended /\ increasing => RacesEndWithTheLevel

\* "A level episode always ends at or before its segment does"
\* (native/queue_tail/data.py:163), the segment being the exporter's.
EpisodesEndInSegment ==
    ended => \A e \in lifecycle.episodes : e.end <= SegmentEnd(e.segment)
===============================================================================
