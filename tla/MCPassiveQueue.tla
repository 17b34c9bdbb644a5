---------------------------- MODULE MCPassiveQueue ----------------------------
(* Trade files of a few rows: prices below, at and above a quote, lots that  *)
(* serve a queue exactly or not, and receive times that may tie or regress.  *)
EXTENDS PassiveQueue

Sells == [side : {"Sell"}, price : {1, 2}, qty : {1, 2}, local : {1, 2, 3}]
Buys == [side : {"Buy"}, price : {1, 2}, qty : {1}, local : {2}]
BothSides == Sells \cup Buys
===============================================================================
