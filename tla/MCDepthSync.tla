----------------------------- MODULE MCDepthSync ------------------------------
(* The synchronizer on its own, called with anything at any time, and the    *)
(* one of a replay with its observers, over the small exchange.  A behaviour *)
(* is of one of them.                                                        *)
EXTENDS NativeReplay, MCVenue

\* Both sides of the touch are added to and taken from before they move.
TouchHistory ==
    [id \in 0 .. 4 |->
        CASE id = 0 -> Quote(<<1>>, <<0, 0, 1>>)
          [] id = 1 -> Quote(<<1, 2>>, <<0, 0, 1>>)
          [] id = 2 -> Quote(<<1, 1>>, <<0, 0, 2>>)
          [] id = 3 -> Quote(<<2>>, <<0, 1, 2>>)
          [] id = 4 -> Quote(<<2, 1>>, <<0, 0, 1>>)]

MCDepths ==
    {DepthEvent(0, 1, 1), DepthEvent(1, 2, 2), DepthEvent(2, 3, 3), DepthEvent(3, 4, 4),
     DepthEvent(1, 2, 3)}

Trade(side, price, qty) == [side |-> side, price |-> price, qty |-> qty]

MCTrades ==
    {Trade("bid", 2, 1), Trade("bid", 2, 3), Trade("bid", 1, 1), Trade("ask", 3, 1),
     Trade("ask", 3, 2)}

MCLead ==
    <<[type |-> "connection", stream |-> "aggTrade", open |-> TRUE],
      [type |-> "connection", stream |-> "depth", open |-> TRUE],
      [type |-> "snapshot", id |-> 1],
      [type |-> "update", event |-> DepthEvent(0, 1, 1)]>>

MCGaps == {-1, 1, 3}

VARIABLE driven_by   \* "calls" or "records"

allvars == <<ds, nvars, driven_by>>

MCInit == Init /\ NInit /\ driven_by \in {"calls", "records"}

MCNext ==
    /\ UNCHANGED driven_by
    /\ \/ driven_by = "calls" /\ Next /\ UNCHANGED nvars
       \/ driven_by = "records" /\ NNext /\ UNCHANGED ds

MCSpec == MCInit /\ [][MCNext]_allvars

\* The replay of a capture only.
RecordsInit == Init /\ NInit /\ driven_by = "records"

RecordsSpec == RecordsInit /\ [][MCNext]_allvars
===============================================================================
