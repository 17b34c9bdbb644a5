------------------------------ MODULE ResearchGrid ------------------------------
(***************************************************************************)
(* ResearchSnapshotExporter (cpp/research/research_exporter.cpp), driven   *)
(* by EventReplayer::replay record by record: it samples the replayed book *)
(* and the recent trade volume on a regular grid of local receive times.   *)
(*                                                                         *)
(* The stamps of a log are not sorted: three threads stamp records before  *)
(* the writer orders them.  Of the book a row shows only how many records  *)
(* made it and whether it was live; what makes a book live is in Replay.   *)
(***************************************************************************)
EXTENDS Naturals, Sequences, FiniteSets

CONSTANTS
    Interval,         \* interval_ns_
    Window,           \* trade_window_ns_
    Start,            \* start_ns_ and end_ns_
    End,
    HasEnd,           \* research_end_ns was given
    MaxStamp,         \* bound: stamps of the records
    MaxRecords        \* bound: records of the log

ASSUME GridAssumption ==
    /\ Interval \in Nat \ {0} /\ Window \in Nat \ {0}
    /\ Start \in Nat /\ End \in Nat /\ Start < End
    /\ HasEnd \in BOOLEAN
    /\ MaxStamp \in Nat /\ MaxRecords \in Nat

\* What a record does: a trade, or anything that leaves the book live or not.
Kind == {"buy", "sell", "live", "dead"}
Record == [stamp : 0 .. MaxStamp, kind : Kind]

VARIABLES
    include_invalid,  \* include_invalid_
    log,          \* the records read, the one at hand last
    synchronized, \* depth_connected and sync.is_live(), after `applied' records
    applied,      \* records that have changed the book and the volumes
    next_sample,  \* next_sample_ns_
    gridded,      \* next_sample_ns_ has a value
    volumes,      \* volumes_: the trades in the window, in the order of the log
    recent_buy,
    recent_sell,
    rows,         \* the rows written
    previous_sample_invalid,
    invalid_intervals,
    pc

gvars == <<include_invalid, log, synchronized, applied, next_sample, gridded, volumes, recent_buy, recent_sell,
           rows, previous_sample_invalid, invalid_intervals, pc>>

volume_vars == <<volumes, recent_buy, recent_sell>>
row_vars == <<rows, previous_sample_invalid, invalid_intervals>>

-------------------------------------------------------------------------------
(* write_sample. *)

\* prune_trades: drop the oldest trades until one is recent; how many go.
Cutoff(g) == IF g > Window THEN g - Window ELSE 0

\* Mutant of Old: a trade as old as the window goes with the older ones.
OldAtCutoff(g) ==
    CHOOSE n \in 0 .. Len(volumes) :
        /\ \A i \in 1 .. n : volumes[i].stamp <= Cutoff(g)
        /\ n = Len(volumes) \/ volumes[n + 1].stamp > Cutoff(g)

Old(g) ==
    CHOOSE n \in 0 .. Len(volumes) :
        /\ \A i \in 1 .. n : volumes[i].stamp < Cutoff(g)
        /\ n = Len(volumes) \/ volumes[n + 1].stamp >= Cutoff(g)

Lots(kind, n) == Cardinality({i \in 1 .. n : volumes[i].kind = kind})

Prune(g) ==
    /\ volumes' = SubSeq(volumes, Old(g) + 1, Len(volumes))
    /\ recent_buy' = recent_buy - Lots("buy", Old(g))
    /\ recent_sell' = recent_sell - Lots("sell", Old(g))

Row(g) ==
    [sample |-> g, version |-> applied, valid |-> synchronized,
     buy |-> recent_buy', sell |-> recent_sell']

\* An interval of invalid rows is counted at its first.
CountRow ==
    /\ previous_sample_invalid' = ~synchronized
    /\ invalid_intervals' = invalid_intervals
                          + (IF synchronized \/ previous_sample_invalid THEN 0 ELSE 1)

\* A row for the grid point, unless the book is invalid and such rows are left
\* out; then the grid moves on.
WriteSample ==
    /\ IF synchronized \/ include_invalid
       THEN /\ Prune(next_sample)
            /\ rows' = Append(rows, Row(next_sample))
            /\ CountRow
       ELSE UNCHANGED <<volume_vars, row_vars>>
    /\ next_sample' = next_sample + Interval

-------------------------------------------------------------------------------
(* The replay loop, as far as it concerns the exporter. *)

GInit ==
    /\ include_invalid \in BOOLEAN
    /\ log = <<>> /\ synchronized = FALSE /\ applied = 0
    /\ next_sample = 0 /\ gridded = FALSE
    /\ volumes = <<>> /\ recent_buy = 0 /\ recent_sell = 0
    /\ rows = <<>> /\ previous_sample_invalid = FALSE /\ invalid_intervals = 0
    /\ pc = "read"

\* initialize_grid: the first grid point not before the time and the start.
FirstSample(time) ==
    LET first == IF time < Start THEN Start ELSE time
    IN  IF first % Interval = 0 THEN first ELSE (first \div Interval + 1) * Interval

InitializeGrid(time) ==
    /\ next_sample' = IF gridded THEN next_sample ELSE FirstSample(time)
    /\ gridded' = TRUE

Trades(s) == {i \in DOMAIN s : s[i].kind \in {"buy", "sell"}}

\* The next record is read.  Trades come from one thread, whose clock does not
\* step back; among threads stamps come in any order.
ReadRecord(r) ==
    /\ pc = "read" /\ Len(log) < MaxRecords
    /\ r.kind \in {"buy", "sell"} => \A i \in Trades(log) : log[i].stamp <= r.stamp
    /\ log' = Append(log, r)
    /\ InitializeGrid(r.stamp)
    /\ pc' = "advance"
    /\ UNCHANGED <<include_invalid, synchronized, applied, volume_vars, row_vars>>

AtHand == log[Len(log)]

\* Mutant of Behind: the point at the record's own time is not left for later.
BehindOrAt == next_sample <= AtHand.stamp /\ next_sample < End

\* Points before the record at hand are still to be sampled.
Behind == next_sample < AtHand.stamp /\ next_sample < End

\* advance_before_event: the points before the record show the book without it.
AdvanceBefore ==
    /\ pc = "advance"
    /\ Behind
    /\ WriteSample
    /\ UNCHANGED <<include_invalid, log, synchronized, applied, gridded, pc>>

\* on_trade: one lot of the aggressor's side.
OnTrade(trade) ==
    /\ volumes' = Append(volumes, trade)
    /\ recent_buy' = recent_buy + (IF trade.kind = "buy" THEN 1 ELSE 0)
    /\ recent_sell' = recent_sell + (IF trade.kind = "buy" THEN 0 ELSE 1)

\* The record takes effect, on the volumes or on the synchronizer.
Apply ==
    /\ pc = "advance" /\ ~Behind
    /\ applied' = applied + 1
    /\ IF AtHand.kind \in {"buy", "sell"}
       THEN OnTrade(AtHand) /\ UNCHANGED synchronized
       ELSE synchronized' = (AtHand.kind = "live") /\ UNCHANGED volume_vars
    /\ pc' = "exact"
    /\ UNCHANGED <<include_invalid, log, next_sample, gridded, row_vars>>

\* Mutant of SampleExact: the grid is not moved on.
SampleExactAgain ==
    /\ pc = "exact"
    /\ IF next_sample = AtHand.stamp /\ next_sample < End
       THEN /\ Prune(next_sample) /\ rows' = Append(rows, Row(next_sample)) /\ CountRow
       ELSE UNCHANGED <<volume_vars, row_vars>>
    /\ pc' = "read"
    /\ UNCHANGED <<include_invalid, log, synchronized, applied, next_sample, gridded>>

\* sample_exact_event_time: a point at the record's own time shows its effect.
SampleExact ==
    /\ pc = "exact"
    /\ IF next_sample = AtHand.stamp /\ next_sample < End
       THEN WriteSample
       ELSE UNCHANGED <<volume_vars, row_vars, next_sample>>
    /\ pc' = "read"
    /\ UNCHANGED <<include_invalid, log, synchronized, applied, gridded>>

\* The log ends; finish_at carries the last book to the end that was asked for.
EndOfLog ==
    /\ pc = "read"
    /\ IF HasEnd THEN InitializeGrid(End) ELSE UNCHANGED <<next_sample, gridded>>
    /\ pc' = IF HasEnd THEN "finish" ELSE "closed"
    /\ UNCHANGED <<include_invalid, log, synchronized, applied, volume_vars, row_vars>>

FinishAt ==
    /\ pc = "finish" /\ next_sample < End
    /\ WriteSample
    /\ UNCHANGED <<include_invalid, log, synchronized, applied, gridded, pc>>

Close ==
    /\ pc = "finish" /\ next_sample >= End
    /\ pc' = "closed"
    /\ UNCHANGED <<include_invalid, log, synchronized, applied, next_sample, gridded, volume_vars, row_vars>>

GNext ==
    \/ \E r \in Record : ReadRecord(r)
    \/ AdvanceBefore \/ Apply \/ SampleExact \/ EndOfLog \/ FinishAt \/ Close

GSpec == GInit /\ [][GNext]_gvars

-------------------------------------------------------------------------------
(* What the rows ought to show, from the log alone. *)

Earliest(S) == CHOOSE n \in S : \A m \in S : n <= m

\* The records a row at g may know: those before the first one stamped g or
\* later, and that one too if it is stamped g.
Known(g) ==
    LET reached == {n \in DOMAIN log : log[n].stamp >= g}
        n == Earliest(reached)
    IN  IF reached = {} THEN Len(log) ELSE IF log[n].stamp = g THEN n ELSE n - 1

LiveAfter(n) ==
    LET depth == {i \in 1 .. n : log[i].kind \in {"live", "dead"}}
    IN  depth # {} /\ \E i \in depth : log[i].kind = "live" /\ \A j \in depth : j <= i

Recent(kind, g) ==
    Cardinality({i \in 1 .. Known(g) : log[i].kind = kind /\ log[i].stamp >= Cutoff(g)})

\* The grid points passed, from the start and the first record on.
Passed ==
    {g \in 0 .. next_sample : /\ gridded /\ g < next_sample /\ g % Interval = 0
                              /\ g >= Start
                              /\ g >= IF log = <<>> THEN End ELSE log[1].stamp}

-------------------------------------------------------------------------------
(* Properties. *)

GTypeOK ==
    /\ log \in Seq(Record) /\ applied \in 0 .. Len(log) /\ include_invalid \in BOOLEAN
    /\ synchronized \in BOOLEAN /\ gridded \in BOOLEAN /\ previous_sample_invalid \in BOOLEAN
    /\ next_sample \in Nat /\ next_sample % Interval = 0
    /\ volumes \in Seq(Record)
    /\ recent_buy = Lots("buy", Len(volumes)) /\ recent_sell = Lots("sell", Len(volumes))
    /\ rows \in Seq([sample : Nat, version : Nat, valid : BOOLEAN, buy : Nat, sell : Nat])
    /\ pc \in {"read", "advance", "exact", "finish", "closed"}
    /\ applied = IF pc = "advance" THEN Len(log) - 1 ELSE Len(log)

\* A row knows the records up to its own time and nothing stamped later,
\* however the log is ordered; and it misses none it may know.
NoLookAhead == \A n \in DOMAIN rows : rows[n].version = Known(rows[n].sample)

\* Every grid point passed has one row, in order, if its book was valid or
\* invalid ones are wanted, and none otherwise.
RowsAreTheGrid ==
    /\ \A m, n \in DOMAIN rows : m < n => rows[m].sample < rows[n].sample
    /\ {rows[n].sample : n \in DOMAIN rows} =
          {g \in Passed : include_invalid \/ LiveAfter(Known(g))}
    /\ \A n \in DOMAIN rows : rows[n].valid = LiveAfter(Known(rows[n].sample))

\* The volumes of a row are those of the trades it knows in the window before it.
VolumesAreRecent ==
    \A n \in DOMAIN rows :
        /\ rows[n].buy = Recent("buy", rows[n].sample)
        /\ rows[n].sell = Recent("sell", rows[n].sample)
===============================================================================
