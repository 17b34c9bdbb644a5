-------------------------------- MODULE MCVenue -------------------------------
(* A small exchange for TLC: three prices, five ids.  The best bid moves up  *)
(* and back, an ask appears inside the spread and is taken out, sizes        *)
(* change, so that a missed message leaves a phantom level, a missing one    *)
(* or a wrong quantity.                                                      *)
EXTENDS Exchange

MCPrices == 1 .. 3
MCQuantities == 0 .. 2

Quote(bids, asks) ==
    [l \in Level |-> IF l[1] = "bid"
                     THEN IF l[2] \in DOMAIN bids THEN bids[l[2]] ELSE 0
                     ELSE IF l[2] \in DOMAIN asks THEN asks[l[2]] ELSE 0]

MCHistory ==
    [id \in 0 .. 4 |->
        CASE id = 0 -> Quote(<<1>>, <<0, 0, 1>>)
          [] id = 1 -> Quote(<<1, 1>>, <<0, 0, 1>>)
          [] id = 2 -> Quote(<<2>>, <<0, 0, 1>>)
          [] id = 3 -> Quote(<<2>>, <<0, 1, 2>>)
          [] id = 4 -> Quote(<<2, 1>>, <<0, 0, 2>>)]

\* The five ids in three messages of the stream.
MCFeed == <<DepthEvent(0, 1, 1), DepthEvent(1, 2, 3), DepthEvent(3, 4, 4)>>
===============================================================================
