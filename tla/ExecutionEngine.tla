---------------------------- MODULE ExecutionEngine ----------------------------
(***************************************************************************)
(* run_day (pyresearch/execution/engine.py): one day of a taker strategy   *)
(* that holds one position at a time.  It walks through the signals of the *)
(* day, enters `latency' after a signal, leaves `horizon' after it, and    *)
(* skips the signals in between.  The day is the frame compute_features    *)
(* (pyresearch/support/feature_pipeline.py) makes of a 100 ms grid.        *)
(*                                                                         *)
(* Rows are numbered from 1; prices, quantities and notionals are in whole *)
(* ticks, steps and their products.                                        *)
(***************************************************************************)
EXTENDS Naturals, Sequences, FiniteSets

CONSTANTS
    RowKinds,     \* what a row of the grid may hold
    DayLength,    \* bound: rows of the day
    Latencies,    \* latency_ms and horizon_ms of the scenarios
    Horizons,
    Notional,     \* notional_usdt
    QuantityStep

Grid == 100   \* ms between rows

\* `valid' is valid_book_state, `book' is book_segment_id with 0 for NaN; a
\* valid book has both sides, a missing level is a shorter list.  Levels are
\* sorted: walk_visible_book refuses the day (engine.py:119-122) if they are not.
ASSUME EngineAssumption ==
    /\ DayLength \in Nat \ {0}
    /\ Latencies \subseteq Nat
    /\ \A h \in Horizons : h \in Nat \ {0} /\ h % Grid = 0
    /\ Notional \in Nat /\ QuantityStep \in Nat \ {0}
    /\ \A r \in RowKinds :
          /\ r.valid \in BOOLEAN /\ r.book \in Nat
          /\ r.bids \in Seq([px : Nat \ {0}, qty : Nat \ {0}])
          /\ r.asks \in Seq([px : Nat \ {0}, qty : Nat \ {0}])
          /\ r.valid => /\ r.bids # <<>> /\ r.asks # <<>>
                        /\ \A i, j \in DOMAIN r.bids : i < j => r.bids[i].px >= r.bids[j].px
                        /\ \A i, j \in DOMAIN r.asks : i < j => r.asks[i].px <= r.asks[j].px

Rows == 1 .. DayLength
Directions == {"long", "short"}

VARIABLES
    frame,       \* the rows of the day
    signals,     \* the direction of each row's prediction, "none" below the threshold
    latency,
    horizon,
    ahead,       \* the signals at and after signal_cursor
    trades,      \* rows, the trades made
    counters,    \* RunCounters
    stage

evars == <<frame, signals, latency, horizon, ahead, trades, counters, stage>>

-------------------------------------------------------------------------------
(* The frame. *)

\* compute_features: a run of valid rows of one book segment is a feature
\* segment; other rows belong to none.
Countable(f, i) == f[i].valid /\ f[i].book # 0

StartsRun(f, i) ==
    Countable(f, i) /\ (i > 1 => ~Countable(f, i - 1) \/ f[i].book # f[i - 1].book)

NoSegment == 0

\* Mutant of FeatureSegment: the book's segment, whatever became invalid inside it.
BookSegment(f, i) == IF Countable(f, i) THEN f[i].book ELSE NoSegment

FeatureSegment(f, i) ==
    IF Countable(f, i) THEN Cardinality({j \in 1 .. i : StartsRun(f, j)}) ELSE NoSegment

-------------------------------------------------------------------------------
(* Fills. *)

\* floor_quantity: the notional at the touch, in whole steps.
FloorQuantity(touch) == (Notional \div (touch * QuantityStep)) * QuantityStep

Least(a, b) == IF a < b THEN a ELSE b

\* Mutant of Walk: the last level is taken whole.
WalkWhole(levels, quantity) ==
    LET walk[i \in 0 .. Len(levels)] ==
            IF i = 0 THEN [remaining |-> quantity, notional |-> 0]
            ELSE LET taken == IF walk[i - 1].remaining = 0 THEN 0 ELSE levels[i].qty
                 IN  [remaining |-> walk[i - 1].remaining - Least(walk[i - 1].remaining, taken),
                      notional |-> walk[i - 1].notional + taken * levels[i].px]
    IN  walk[Len(levels)]

\* walk_visible_book: take the levels in order until the quantity is filled.
Walk(levels, quantity) ==
    LET walk[i \in 0 .. Len(levels)] ==
            IF i = 0 THEN [remaining |-> quantity, notional |-> 0]
            ELSE LET taken == Least(walk[i - 1].remaining, levels[i].qty)
                 IN  [remaining |-> walk[i - 1].remaining - taken,
                      notional |-> walk[i - 1].notional + taken * levels[i].px]
    IN  walk[Len(levels)]

Opens(direction, row) == IF direction = "long" THEN row.asks ELSE row.bids
Closes(direction, row) == IF direction = "long" THEN row.bids ELSE row.asks

-------------------------------------------------------------------------------
(* The loop. *)

NoTradesYet == [signals |-> 0, completed_trades |-> 0, skipped_overlap |-> 0,
                excluded_latency |-> 0, excluded_day_boundary |-> 0, excluded_gap |-> 0,
                excluded_quantity |-> 0, excluded_depth |-> 0]

EInit ==
    /\ frame \in [Rows -> RowKinds]
    /\ signals \in [Rows -> Directions \cup {"none"}]
    /\ latency \in Latencies /\ horizon \in Horizons
    /\ ahead = {i \in Rows : signals[i] # "none"}
    /\ trades = <<>>
    /\ counters = [NoTradesYet EXCEPT !.signals = Cardinality(ahead)]
    /\ stage = "start"

\* latency_ms >= horizon_ms: no signal of the day can be traded.
RejectLatency ==
    /\ stage = "start" /\ latency >= horizon
    /\ counters' = [counters EXCEPT !.excluded_latency = counters.signals]
    /\ ahead' = {}
    /\ stage' = "done"
    /\ UNCHANGED <<frame, signals, latency, horizon, trades>>

StartLoop ==
    /\ stage = "start" /\ latency < horizon
    /\ stage' = "loop"
    /\ UNCHANGED <<frame, signals, latency, horizon, ahead, trades, counters>>

EntryIndex(d) == d + (latency + Grid - 1) \div Grid
ExitIndex(d) == d + horizon \div Grid

\* The guards of the loop's body, in its order.
WithinDay(d) == EntryIndex(d) <= DayLength /\ ExitIndex(d) <= DayLength

WithinSegment(d) ==
    LET segment == FeatureSegment(frame, d)
    IN  /\ segment # NoSegment
        /\ \A i \in {d, EntryIndex(d), ExitIndex(d)} :
              frame[i].valid /\ FeatureSegment(frame, i) = segment

TradeQuantity(d) == FloorQuantity(Opens(signals[d], frame[EntryIndex(d)])[1].px)

EntryFill(d) == Walk(Opens(signals[d], frame[EntryIndex(d)]), TradeQuantity(d))
ExitFill(d) == Walk(Closes(signals[d], frame[ExitIndex(d)]), TradeQuantity(d))

\* The position could be opened at once, opened after the latency, and closed.
DeepEnough(d) ==
    /\ Walk(Opens(signals[d], frame[d]), TradeQuantity(d)).remaining = 0
    /\ EntryFill(d).remaining = 0
    /\ ExitFill(d).remaining = 0

\* The signal at the cursor.
Current(d) == stage = "loop" /\ d \in ahead /\ \A e \in ahead : d <= e

\* A signal that cannot be traded is counted under its reason and passed over.
Exclude(d) ==
    /\ ahead' = ahead \ {d}
    /\ UNCHANGED <<frame, signals, latency, horizon, trades, stage>>

ExcludeDayBoundary(d) ==
    /\ Current(d) /\ ~WithinDay(d)
    /\ counters' = [counters EXCEPT !.excluded_day_boundary = @ + 1]
    /\ Exclude(d)

ExcludeGap(d) ==
    /\ Current(d) /\ WithinDay(d) /\ ~WithinSegment(d)
    /\ counters' = [counters EXCEPT !.excluded_gap = @ + 1]
    /\ Exclude(d)

ExcludeQuantity(d) ==
    /\ Current(d) /\ WithinDay(d) /\ WithinSegment(d) /\ TradeQuantity(d) = 0
    /\ counters' = [counters EXCEPT !.excluded_quantity = @ + 1]
    /\ Exclude(d)

ExcludeDepth(d) ==
    /\ Current(d) /\ WithinDay(d) /\ WithinSegment(d) /\ TradeQuantity(d) > 0 /\ ~DeepEnough(d)
    /\ counters' = [counters EXCEPT !.excluded_depth = @ + 1]
    /\ Exclude(d)

Trade(d) ==
    [decision |-> d, entry |-> EntryIndex(d), exit |-> ExitIndex(d), direction |-> signals[d],
     quantity |-> TradeQuantity(d), entry_notional |-> EntryFill(d).notional,
     exit_notional |-> ExitFill(d).notional]

\* Mutant of Overlapping: the position is busy until its entry.
OverlappingUntilEntry(d) == {i \in ahead : d < i /\ i < EntryIndex(d)}

\* The signals while the position is pending or open; searchsorted finds the
\* first one at or after the exit.
Overlapping(d) == {i \in ahead : d < i /\ i < ExitIndex(d)}

Tradable(d) ==
    Current(d) /\ WithinDay(d) /\ WithinSegment(d) /\ TradeQuantity(d) > 0 /\ DeepEnough(d)

\* Mutant of MakeTrade: next_cursor - signal_cursor counts the trade itself.
MakeTradeCountsItself(d) ==
    /\ Tradable(d)
    /\ trades' = Append(trades, Trade(d))
    /\ counters' = [counters EXCEPT !.skipped_overlap = @ + Cardinality(Overlapping(d)) + 1]
    /\ ahead' = ahead \ ({d} \cup Overlapping(d))
    /\ UNCHANGED <<frame, signals, latency, horizon, stage>>

MakeTrade(d) ==
    /\ Tradable(d)
    /\ trades' = Append(trades, Trade(d))
    /\ counters' = [counters EXCEPT !.skipped_overlap = @ + Cardinality(Overlapping(d))]
    /\ ahead' = ahead \ ({d} \cup Overlapping(d))
    /\ UNCHANGED <<frame, signals, latency, horizon, stage>>

FinishDay ==
    /\ stage = "loop" /\ ahead = {}
    /\ counters' = [counters EXCEPT !.completed_trades = Len(trades)]
    /\ stage' = "done"
    /\ UNCHANGED <<frame, signals, latency, horizon, ahead, trades>>

ENext ==
    \/ RejectLatency \/ StartLoop \/ FinishDay
    \/ \E d \in Rows : \/ ExcludeDayBoundary(d) \/ ExcludeGap(d) \/ ExcludeQuantity(d)
                       \/ ExcludeDepth(d) \/ MakeTrade(d)

ESpec == EInit /\ [][ENext]_evars

-------------------------------------------------------------------------------
(* Properties. *)

\* Every signal of the day has exactly one fate: traded, skipped because a
\* position was open, or excluded for one reason.
SignalsAccountedFor ==
    counters.signals = Cardinality(ahead) + Len(trades) + counters.skipped_overlap
                     + counters.excluded_latency + counters.excluded_day_boundary
                     + counters.excluded_gap + counters.excluded_quantity
                     + counters.excluded_depth

\* "one_position_at_a_time_per_day" (research/specs/execution_spec_frozen.json):
\* a position is decided on when the one before it has been left.
PositionsDoNotOverlap ==
    \A m, n \in DOMAIN trades : m < n => trades[m].exit <= trades[n].decision

\* "Entry, holding, and exit must remain in one valid feature segment"
\* (execution_economics_research.md:53): the book is valid in every row of the
\* position, of which the code looks at three.
TradesStayInSegment ==
    \A n \in DOMAIN trades :
        \A i \in trades[n].decision .. trades[n].exit :
            Countable(frame, i) /\ frame[i].book = frame[trades[n].decision].book

\* "reject_if_latency_not_less_than_horizon"
\* (research/specs/execution_spec_frozen.json:176): a position is entered
\* before it is left, and not left at the quote it was entered at.
EntryBeforeExit ==
    \A n \in DOMAIN trades :
        trades[n].decision <= trades[n].entry /\ trades[n].entry < trades[n].exit

Cost(levels, t) ==
    LET sum[i \in 0 .. Len(levels)] == IF i = 0 THEN 0 ELSE sum[i - 1] + t[i] * levels[i].px
    IN  sum[Len(levels)]

\* The ways to take a quantity from the levels of one side.
Takings(levels, quantity) ==
    {t \in [DOMAIN levels -> 0 .. quantity] :
        /\ \A i \in DOMAIN levels : t[i] <= levels[i].qty
        /\ Cost([i \in DOMAIN levels |-> [px |-> 1]], t) = quantity}

Costs(levels, quantity) == {Cost(levels, t) : t \in Takings(levels, quantity)}

\* Each leg is the cheapest purchase, or the dearest sale, the visible book
\* offers for the whole quantity.
LegsAreBestPrice ==
    \A n \in DOMAIN trades :
        LET t == trades[n]
            entry == Costs(Opens(t.direction, frame[t.entry]), t.quantity)
            exit == Costs(Closes(t.direction, frame[t.exit]), t.quantity)
            Cheapest(c, costs) == c \in costs /\ \A e \in costs : c <= e
            Dearest(c, costs) == c \in costs /\ \A e \in costs : c >= e
        IN  IF t.direction = "long"
            THEN Cheapest(t.entry_notional, entry) /\ Dearest(t.exit_notional, exit)
            ELSE Dearest(t.entry_notional, entry) /\ Cheapest(t.exit_notional, exit)
===============================================================================
