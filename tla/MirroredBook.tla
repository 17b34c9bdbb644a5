----------------------------- MODULE MirroredBook -----------------------------
(***************************************************************************)
(* What a reader of the book is promised through is_live(): either there   *)
(* is nothing to see, or a faithful copy of the exchange's book at some    *)
(* update id.  A copy may be lost at any time; while it stays in sight its *)
(* id only grows and its base (the snapshot it was built from) does not    *)
(* change; a copy with a new base is reached only through a moment in      *)
(* which there is nothing to see.                                          *)
(***************************************************************************)
EXTENDS Integers

CONSTANT Faithful(_)   \* which views are copies of the exchange's book

VARIABLE view

Nothing == [seen |-> FALSE]

Init == view = Nothing

Acquire == ~view.seen /\ view'.seen /\ Faithful(view')

Advance ==
    /\ view.seen /\ view'.seen
    /\ view'.base = view.base
    /\ view'.id > view.id
    /\ Faithful(view')

Lose == view.seen /\ view' = Nothing

Next == Acquire \/ Advance \/ Lose

Spec == Init /\ [][Next]_view
===============================================================================
