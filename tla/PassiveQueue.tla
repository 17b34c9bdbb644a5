----------------------------- MODULE PassiveQueue -----------------------------
(***************************************************************************)
(* PassiveTradeIndex (cpp/research/passive_queue.cpp): was a passive order *)
(* of a given price, size and queue position filled between its placement  *)
(* and its expiry?  The index answers from arrays it searches; Sequential  *)
(* below answers the same question by watching the trades go by, one at a  *)
(* time, as the tests describe it (cpp/tests/test_main.cpp:530-618).       *)
(*                                                                         *)
(* Times are local receive times, prices ticks, quantities lots.  Arrays   *)
(* start at 1, and the end of an interval is the first index after it.     *)
(***************************************************************************)
EXTENDS Naturals, FiniteSets, SequencesExt

CONSTANTS
    TradeRows,   \* the rows a trade file may hold: side, price, qty, local
    MaxRows,     \* bound: rows of a file
    MaxPrice,    \* bound: every price is below it (the tree's neutral element)
    MaxLots,     \* INT64_MAX
    MaxQty,      \* bound: order sizes evaluated
    MaxQueue,    \* bound: queues evaluated
    MaxTime      \* bound: local times evaluated

Side == {"Buy", "Sell"}

ASSUME PassiveAssumption ==
    /\ \A t \in TradeRows : /\ t.side \in Side
                         /\ t.price \in 1 .. MaxPrice - 1
                         /\ t.qty \in 1 .. MaxLots
                         /\ t.local \in 1 .. MaxTime - 1
    /\ {MaxRows, MaxPrice, MaxLots, MaxQty, MaxQueue, MaxTime} \subseteq Nat

VARIABLES
    buys,     \* buys_ and sells_: the indexed trades of each side
    sells,
    next_ordinal, \* rows_, the next source ordinal
    previous_local_timestamp,
    regressions,
    trees,    \* buy_through_tree_ and sell_through_tree_
    status    \* "open", "finalized", or "thrown": the program has ended

pvars == <<buys, sells, next_ordinal, previous_local_timestamp, regressions, trees, status>>

NoTrees == [Buy |-> <<>>, Sell |-> <<>>]

-------------------------------------------------------------------------------
(* ExtremeTree: a segment tree that finds the first price beyond a quote.  A *)
(* bid is traded through by a sell below it, an ask by a buy above it.       *)

Beyond(side, price, quote) == IF side = "Sell" THEN price < quote ELSE price > quote

Extreme(side, p, q) == IF Beyond(side, p, q) THEN p ELSE q

\* The number of leaves: doubled until there is one for every trade.
LeafCount(trades) ==
    LET doubled[k \in 0 .. Len(trades)] ==
            IF k = 0 THEN 1
            ELSE IF doubled[k - 1] < Len(trades) THEN 2 * doubled[k - 1] ELSE doubled[k - 1]
    IN  doubled[Len(trades)]

\* build: node n has the extreme of nodes 2n and 2n + 1.
Tree(side, trades) ==
    LET leaves == LeafCount(trades)
        node[n \in 1 .. 2 * leaves - 1] ==
            IF n < leaves THEN Extreme(side, node[2 * n], node[2 * n + 1])
            ELSE IF n - leaves < Len(trades) THEN trades[n - leaves + 1].price
            ELSE IF side = "Sell" THEN MaxPrice ELSE 0
    IN  node

\* The leaves below every node: half of those below the node it comes from.
Below(leaves) ==
    LET below[n \in 1 .. 2 * leaves - 1] ==
            IF n = 1 THEN [begin |-> 1, end |-> leaves + 1]
            ELSE LET half == (below[n \div 2].begin + below[n \div 2].end) \div 2
                 IN  IF n % 2 = 0 THEN [below[n \div 2] EXCEPT !.end = half]
                     ELSE [below[n \div 2] EXCEPT !.begin = half]
    IN  below

\* first_satisfying: the first index in begin .. end - 1 beyond the quote, or
\* the index after the last trade.
FirstThrough(side, trades, tree, begin, end, quote) ==
    LET none == Len(trades) + 1
        leaves == LeafCount(trades)
        below == Below(leaves)
        find[n \in 1 .. 2 * leaves - 1] ==
            IF below[n].end <= begin \/ end <= below[n].begin \/ ~Beyond(side, tree[n], quote)
            THEN none
            ELSE IF n >= leaves THEN IF below[n].begin < none THEN below[n].begin ELSE none
            ELSE IF find[2 * n] # none THEN find[2 * n] ELSE find[2 * n + 1]
    IN  IF begin >= end \/ end > none THEN none ELSE find[1]

-------------------------------------------------------------------------------
(* Searches in the arrays. *)

FirstIndex(s, Test(_)) == LET i == SelectInSeq(s, Test) IN IF i = 0 THEN Len(s) + 1 ELSE i

\* upper_local and lower_local: the first trade after, and not before, a time.
UpperLocal(s, time) == FirstIndex(s, LAMBDA t : t.local > time)
LowerLocal(s, time) == FirstIndex(s, LAMBDA t : t.local >= time)

\* Mutant of Earlier: trades received at the same time have no order.
EarlierByTime(t, u) == t.local < u.local

\* earlier: receive time, then position in the file.
Earlier(t, u) ==
    \/ t.local < u.local
    \/ t.local = u.local /\ t.ordinal < u.ordinal

\* ExactPriceSeries: the trades at one price, and the running sum of their lots.
Exact(trades, price) ==
    LET series[i \in 0 .. Len(trades)] ==
            IF i = 0 THEN <<>>
            ELSE IF trades[i].price = price THEN Append(series[i - 1], trades[i])
            ELSE series[i - 1]
    IN  series[Len(trades)]

PrefixQuantities(s) ==
    LET sum[i \in 0 .. Len(s)] == IF i = 0 THEN 0 ELSE sum[i - 1] + s[i].qty
    IN  sum

\* find_crossing: the first trade of start .. stop - 1 with which the lots
\* traded since start reach `needed', or stop.
Crossing(prefix, start, stop, needed) ==
    LET reached == {k \in start .. stop - 1 : prefix[k] - prefix[start - 1] >= needed}
    IN  IF reached = {} THEN stop ELSE CHOOSE k \in reached : \A j \in reached : k <= j

\* The index after the last trade at the price that still met the order: the
\* one that filled it, or the last one before it was traded through.
EffectiveEnd(s, start, stop, full, through, through_is_full) ==
    IF through_is_full
    THEN CHOOSE k \in start .. stop :
            /\ \A j \in start .. k - 1 : Earlier(s[j], through)
            /\ k = stop \/ ~Earlier(s[k], through)
    ELSE IF full < stop THEN full + 1 ELSE stop

\* What is left for the order once the queue in front of it is served.
Filled(traded, queue, qty) ==
    IF traded <= queue THEN 0 ELSE IF traded - queue > qty THEN qty ELSE traded - queue

-------------------------------------------------------------------------------
(* evaluate. *)

\* An order: the side of the trades that can fill it, its quote and size, the
\* lots ahead of it, and the open interval of its life.
Orders ==
    {o \in [side : Side, quote : 1 .. MaxPrice - 1, qty : 1 .. MaxQty, queue : 0 .. MaxQueue,
            placed : 0 .. MaxTime, expires : 0 .. MaxTime] : o.expires > o.placed}

StateOf(filled, qty) ==
    IF filled = qty THEN "full" ELSE IF filled > 0 THEN "partial" ELSE "unfilled"

\* evaluate_side.  Fills are named by the ordinal of their trade, 0 for none.
EvaluateSide(o, trades, tree) ==
    LET through_index == FirstThrough(o.side, trades, tree, UpperLocal(trades, o.placed),
                                      LowerLocal(trades, o.expires), o.quote)
        have_through == through_index <= Len(trades)
        through == trades[through_index]
        s == Exact(trades, o.quote)
        start == UpperLocal(s, o.placed)
        stop == LowerLocal(s, o.expires)
        prefix == PrefixQuantities(s)
        first == Crossing(prefix, start, stop, o.queue + 1)
        full == Crossing(prefix, start, stop, o.queue + o.qty)
        through_is_first == have_through /\ (first < stop => Earlier(through, s[first]))
        through_is_full == have_through /\ (full < stop => Earlier(through, s[full]))
        end == EffectiveEnd(s, start, stop, full, through, through_is_full)
        traded == prefix[end - 1] - prefix[start - 1]
        filled == IF through_is_full THEN o.qty ELSE Filled(traded, o.queue, o.qty)
    IN  [state |-> StateOf(filled, o.qty),
         filled |-> filled,
         same_price_traded |-> traded,
         queue_consumed |-> IF through_is_full \/ traded > o.queue THEN o.queue ELSE traded,
         qualifying |-> end - start + (IF through_is_full THEN 1 ELSE 0),
         first_fill |-> IF through_is_first THEN through.ordinal
                        ELSE IF first < stop THEN s[first].ordinal ELSE 0,
         full_fill |-> IF through_is_full THEN through.ordinal
                       ELSE IF full < stop THEN s[full].ordinal ELSE 0,
         by_through |-> through_is_full]

Evaluate(o) == EvaluateSide(o, IF o.side = "Buy" THEN buys ELSE sells, trees[o.side])

-------------------------------------------------------------------------------
(* Building the index. *)

PInit ==
    /\ buys = <<>> /\ sells = <<>>
    /\ next_ordinal = 0
    /\ previous_local_timestamp = 0
    /\ regressions = 0
    /\ trees = NoTrees
    /\ status = "open"

\* add_trade.
AddTrade(t) ==
    LET indexed == [local |-> t.local, ordinal |-> next_ordinal + 1, price |-> t.price, qty |-> t.qty]
    IN  /\ status = "open" /\ next_ordinal < MaxRows
        /\ regressions' = regressions + (IF next_ordinal # 0 /\ t.local < previous_local_timestamp
                                         THEN 1 ELSE 0)
        /\ previous_local_timestamp' = t.local
        /\ buys' = IF t.side = "Buy" THEN Append(buys, indexed) ELSE buys
        /\ sells' = IF t.side = "Sell" THEN Append(sells, indexed) ELSE sells
        /\ next_ordinal' = next_ordinal + 1
        /\ UNCHANGED <<trees, status>>

\* The running sum of some price passes INT64_MAX.
Overflows ==
    \E trades \in {buys, sells} : \E t \in ToSet(trades) :
        LET s == Exact(trades, t.price) IN PrefixQuantities(s)[Len(s)] > MaxLots

\* finalize: an index whose rows are out of order, or too many lots, is refused.
Finalize ==
    /\ status = "open"
    /\ IF regressions # 0 \/ Overflows
       THEN status' = "thrown" /\ UNCHANGED trees
       ELSE /\ status' = "finalized"
            /\ trees' = [Buy |-> Tree("Buy", buys), Sell |-> Tree("Sell", sells)]
    /\ UNCHANGED <<buys, sells, next_ordinal, previous_local_timestamp, regressions>>

PNext == Finalize \/ \E t \in TradeRows : AddTrade(t)

PSpec == PInit /\ [][PNext]_pvars

-------------------------------------------------------------------------------
(* The same answer by watching the trades. *)

NewOrder == [state |-> "unfilled", queue_consumed |-> 0, filled |-> 0, same_price_traded |-> 0, qualifying |-> 0,
             first_fill |-> 0, full_fill |-> 0, by_through |-> FALSE]

FirstFill(w, t) == IF w.first_fill = 0 THEN t.ordinal ELSE w.first_fill

\* One trade of the other side passes an order w that is not full.
Watch(o, w, t) ==
    IF Beyond(o.side, t.price, o.quote)
    THEN [w EXCEPT !.filled = o.qty, !.queue_consumed = o.queue, !.qualifying = @ + 1,
                   !.first_fill = FirstFill(w, t), !.full_fill = t.ordinal, !.by_through = TRUE]
    ELSE LET to_queue == IF t.qty < o.queue - w.queue_consumed
                         THEN t.qty ELSE o.queue - w.queue_consumed
             to_order == IF t.qty - to_queue < o.qty - w.filled
                         THEN t.qty - to_queue ELSE o.qty - w.filled
         IN  [w EXCEPT !.queue_consumed = @ + to_queue,
                       !.filled = @ + to_order,
                       !.same_price_traded = @ + t.qty,
                       !.qualifying = @ + 1,
                       !.first_fill = IF to_order > 0 THEN FirstFill(w, t) ELSE @,
                       !.full_fill = IF w.filled + to_order = o.qty THEN t.ordinal ELSE @]

\* A trade within the life of the order, at its quote or through it.
Meets(o, t) ==
    /\ o.placed < t.local /\ t.local < o.expires
    /\ t.price = o.quote \/ Beyond(o.side, t.price, o.quote)

Sequential(o) ==
    LET trades == IF o.side = "Buy" THEN buys ELSE sells
        watched[i \in 0 .. Len(trades)] ==
            IF i = 0 THEN NewOrder
            ELSE IF watched[i - 1].full_fill # 0 \/ ~Meets(o, trades[i]) THEN watched[i - 1]
            ELSE Watch(o, watched[i - 1], trades[i])
        w == watched[Len(trades)]
    IN  [w EXCEPT !.state = StateOf(w.filled, o.qty)]

-------------------------------------------------------------------------------
(* Properties. *)

\* The indexed evaluation is the sequential one, for every order: trades
\* through the price and at it, ties, exactly served queues, empty intervals;
\* "Trades later in the probe lifetime cannot affect an order that was already
\* fully filled" (passive_queue.cpp:299-301).
EvaluationIsSequential ==
    status = "finalized" => \A o \in Orders : Evaluate(o) = Sequential(o)
===============================================================================
