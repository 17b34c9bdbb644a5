--------------------------- MODULE MCExecutionEngine ---------------------------
(* Days of a few rows: a deep and a thin book, a gap, and a new book segment *)
(* at a price at which the notional buys nothing.                            *)
EXTENDS ExecutionEngine

Level(px, qty) == [px |-> px, qty |-> qty]
BookRow(valid, book, bids, asks) == [valid |-> valid, book |-> book, bids |-> bids, asks |-> asks]

Deep == BookRow(TRUE, 1, <<Level(4, 2), Level(3, 3)>>, <<Level(5, 1), Level(6, 4)>>)
Thin == BookRow(TRUE, 1, <<Level(4, 1)>>, <<Level(5, 1)>>)
Gap == BookRow(FALSE, 1, <<Level(4, 9)>>, <<Level(5, 9)>>)
Dear == BookRow(TRUE, 2, <<Level(40, 9)>>, <<Level(41, 9)>>)

Kinds == {Deep, Thin, Gap, Dear}
===============================================================================
