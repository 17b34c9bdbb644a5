------------------------------ MODULE Exchange -------------------------------
(***************************************************************************)
(* The venue as the code in cpp/exchange/binance uses it (external: no     *)
(* source of it is in the repository).  Its book has a content at every    *)
(* update id, History[id].  A diff-depth message (U, u, pu, levels) carries*)
(* the absolute quantity at u of every level that changed after pu; a REST *)
(* snapshot carries the SnapshotDepth best levels per side at one id       *)
(* (capture_main.cpp asks for limit=1000).                                 *)
(***************************************************************************)
EXTENDS OrderBook, FiniteSets

CONSTANTS
    MaxId,          \* update ids are 0 .. MaxId
    History,        \* the exchange's own book at every id
    SnapshotDepth   \* levels per side in a REST snapshot

ASSUME ExchangeAssumption ==
    /\ MaxId \in Nat
    /\ History \in [0 .. MaxId -> Ladder]
    /\ SnapshotDepth \in Nat

Ids == 0 .. MaxId

\* The levels whose quantity moved somewhere after prev, up to final.
Changed(prev, final) ==
    {l \in Level : \E i \in prev .. final : History[i][l] # History[final][l]}

DepthEvent(prev, first, final) ==
    [first_update_id |-> first,
     final_update_id |-> final,
     previous_final_update_id |-> prev,
     changes |-> [l \in Changed(prev, final) |-> History[final][l]]]

\* Every genuine diff-depth message: pu < U <= u.
DepthEvents ==
    {DepthEvent(t[1], t[2], t[3]) :
        t \in {x \in Ids \X Ids \X Ids : x[1] < x[2] /\ x[2] <= x[3]}}

\* The levels a snapshot taken at id speaks for: fewer than SnapshotDepth
\* better levels were quoted on the same side.
Window(id) ==
    {l \in Level :
        Cardinality(IF l[1] = "bid"
                    THEN {p \in Bids(History[id]) : p > l[2]}
                    ELSE {p \in Asks(History[id]) : p < l[2]}) < SnapshotDepth}

Snapshot(id) ==
    [last_update_id |-> id,
     levels |-> [l \in Level |-> IF l \in Window(id) THEN History[id][l] ELSE 0]]
==============================================================================
