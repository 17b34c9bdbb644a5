----------------------------- MODULE LevelLifecycle -----------------------------
(***************************************************************************)
(* LevelLifecycleObserver of cpp/research/level_lifecycle.cpp: an episode  *)
(* is one price being the best of its side; the grid rows say what was     *)
(* printed at and through the level of an instant.  The quantity of a      *)
(* level is kept up from the changes of the book, never read again.        *)
(***************************************************************************)
EXTENDS ReplayObserver

CONSTANT Horizons   \* kHorizonMs

ASSUME LifecycleAssumption == Horizons # {} /\ Horizons \subseteq Nat \ {0}

NoEpisode == [active |-> FALSE]

NewLifecycle ==
    [trade_stream_up |-> FALSE, in_segment |-> FALSE, segment |-> 0, start |-> 0,
     next_sample |-> 0, last_record |-> 0, last_episode |-> 0,
     levels |-> [s \in Sides |-> NoEpisode], pending |-> <<>>, episodes |-> {}, grid |-> {}]

StartEpisode(v, side, levels, ns) ==
    LET quantity == levels[<<side, BestOf(levels, side)>>]
    IN  [v EXCEPT !.last_episode = @ + 1,
                  !.levels[side] =
                      [active |-> TRUE, id |-> v.last_episode + 1, segment |-> v.segment,
                       side |-> side, price |-> BestOf(levels, side), start |-> ns,
                       initial |-> quantity, current |-> quantity, added |-> 0, removed |-> 0,
                       explained |-> 0, replenished |-> 0, at_quote |-> 0, trade_pool |-> 0]]

EndEpisode(v, side, ns, reason) ==
    IF v.levels[side].active
    THEN [v EXCEPT !.episodes = @ \cup {[end |-> ns, reason |-> reason] @@ v.levels[side]},
                   !.levels[side] = NoEpisode]
    ELSE v

\* apply_level_delta: the prints seen at the level explain a removal first;
\* what follows a removal replenishes.
ApplyLevelDelta(episode, delta) ==
    LET explained == Min({episode.trade_pool, -delta})
    IN  IF delta >= 0
        THEN [episode EXCEPT !.current = @ + delta, !.added = @ + delta,
                             !.replenished = IF episode.removed > 0 THEN @ + delta ELSE @]
        ELSE [episode EXCEPT !.current = @ + delta, !.removed = @ - delta,
                             !.trade_pool = @ - explained, !.explained = @ + explained]

\* advance_grid up to and including until: a row for each side with a level.
SampleLevels(v, until, book) ==
    LET at == Points(v.next_sample, until, Grid)
        side(i) == IF i % 2 = 1 THEN "bid" ELSE "ask"
        rows == [i \in 1 .. 2 * Len(at) |->
                    [ns |-> at[(i + 1) \div 2], side |-> side(i), segment |-> v.segment,
                     episode |-> v.levels[side(i)].id, price |-> v.levels[side(i)].price,
                     current |-> v.levels[side(i)].current,
                     at_quote |-> [h \in Horizons |-> 0], through |-> [h \in Horizons |-> 0]]]
    IN  [v EXCEPT !.pending = @ \o rows, !.next_sample = NextPoint(@, until, Grid)]

\* emit_pending: a horizon that ends after the segment has no label.
EmitLevel(row, horizons) ==
    [row EXCEPT !.at_quote = [h \in horizons |-> @[h]], !.through = [h \in horizons |-> @[h]]]

RetireLevels(v, ns) ==
    LET over(n) == \A i \in 1 .. n : v.pending[i].ns + Max(Horizons) <= ns
        n == Max({k \in 0 .. Len(v.pending) : over(k)})
    IN  [v EXCEPT !.grid = @ \cup {EmitLevel(v.pending[i], Horizons) : i \in 1 .. n},
                  !.pending = SubSeq(@, n + 1, Len(@))]

OpenLifecycle(v, ns, levels) ==
    LET opened == [v EXCEPT !.in_segment = TRUE, !.segment = @ + 1, !.start = ns,
                            !.pending = <<>>, !.next_sample = Aligned(ns, Grid)]
    IN  StartEpisode(StartEpisode(opened, "bid", levels, ns), "ask", levels, ns)

CloseLifecycle(v, ns, reason) ==
    LET emitted == [v EXCEPT !.grid = @ \cup {EmitLevel(row, {h \in Horizons : row.ns + h <= ns}) :
                                                row \in Range(v.pending)},
                             !.pending = <<>>, !.in_segment = FALSE]
    IN  IF v.in_segment
        THEN EndEpisode(EndEpisode(emitted, "bid", ns, reason), "ask", ns, reason)
        ELSE v

\* before_record
LifecycleBefore(v, ns, book, live) ==
    IF v.in_segment /\ Usable(v, live)
    THEN SampleLevels(RetireLevels(v, ns), ns - 1, book) ELSE v

\* Mutant of MoveLevel: the best quantity is taken over instead of attributed.
MoveLevelAnew(v, side, ns, before, after) ==
    LET best == BestOf(after.levels, side)
        episode == v.levels[side]
    IN  IF best = episode.price THEN v
        ELSE StartEpisode(EndEpisode(v, side, ns, IF Beyond(side, best, episode.price)
                                                  THEN "stepped_away" ELSE "improved"),
                          side, after.levels, ns)

\* One side of after_depth_event: the change goes to the episode the event
\* found, before it is decided whether its price is still the best.
MoveLevel(v, side, ns, before, after) ==
    LET episode == v.levels[side]
        at == <<side, episode.price>>
        told == [v EXCEPT !.levels[side] =
                    ApplyLevelDelta(@, after.levels[at] - before.levels[at])]
        best == BestOf(after.levels, side)
    IN  IF best = episode.price THEN told
        ELSE StartEpisode(EndEpisode(told, side, ns, IF Beyond(side, best, episode.price)
                                                     THEN "stepped_away" ELSE "improved"),
                          side, after.levels, ns)

\* before_depth_event and after_depth_event
LifecycleDepth(v, ns, before, after, applied) ==
    IF applied /\ v.in_segment
    THEN MoveLevel(MoveLevel(v, "bid", ns, before, after), "ask", ns, before, after)
    ELSE v

\* after_snapshot
LifecycleSnapshot(v, ns) == CloseLifecycle(v, ns, "resynchronized")

\* on_trade for one row of the side that was hit.
PrintRow(row, ns, trade) ==
    LET counted == {h \in Horizons : ns <= row.ns + h}
        printed(volume) == [h \in counted |-> volume[h] + trade.qty] @@ volume
    IN  IF row.side # trade.side \/ row.ns >= ns THEN row
        ELSE IF Beyond(row.side, trade.price, row.price)
        THEN [row EXCEPT !.through = printed(@)]
        ELSE IF trade.price = row.price THEN [row EXCEPT !.at_quote = printed(@)]
        ELSE row

LifecycleTrade(v, ns, trade) ==
    LET episode == v.levels[trade.side]
    IN  IF ~v.in_segment THEN v
        ELSE [v EXCEPT !.pending = [i \in DOMAIN @ |-> PrintRow(@[i], ns, trade)],
                       !.levels[trade.side] =
                           IF trade.price = episode.price
                           THEN [@ EXCEPT !.at_quote = @ + trade.qty, !.trade_pool = @ + trade.qty]
                           ELSE @]

\* after_record
LifecycleAfter(v, ns, book, live) ==
    LET seen == [v EXCEPT !.last_record = ns]
    IN  IF v.in_segment
        THEN IF Usable(v, live) THEN SampleLevels(RetireLevels(seen, ns), ns, book)
             ELSE CloseLifecycle(seen, ns, "segment_end")
        ELSE IF Usable(v, live) THEN SampleLevels(OpenLifecycle(seen, ns, book.levels), ns, book)
        ELSE seen

\* finish
LifecycleFinish(v) == CloseLifecycle(v, Max({v.last_record, v.start}), "end_of_input")
===============================================================================
