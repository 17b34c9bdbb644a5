----------------------------- MODULE MCHistorical -----------------------------
(* The historical path and the studies on top of it, which keep their work   *)
(* in files, die and are run again: the hours of the vendor as they reach    *)
(* the cache, what is made of their messages, the commands of the passive    *)
(* study, and the validation that may be used once.  Each starts from what   *)
(* the one before it has finished, so a behaviour looks at one of them and   *)
(* leaves the others before their first step.                                *)
(*                                                                           *)
(* The messages: four updates of a small venue, lost, repeated or late, with *)
(* snapshots inside, between and ahead of them.  The study: one day for each *)
(* stage, and a second one in development.                                   *)
EXTENDS HistoricalL2, HourCache, MCVenue, PassiveStudy, SingleUse

SixIds ==
    [id \in 0 .. 5 |-> IF id = 5 THEN Quote(<<2, 1>>, <<0, 0, 1>>) ELSE MCHistory[id]]

FourUpdates == {DepthEvent(0, 1, 1), DepthEvent(1, 2, 3), DepthEvent(3, 4, 4), DepthEvent(4, 5, 5)}

MCStageA == <<"may">>
MCDevelopment == <<"april", "may">>
MCValidation == <<"june">>
MCHoldout == <<"july">>

\* This small venue meets the hypotheses of the theorems of HistoricalProofs.
ASSUME MCHypotheses ==
    AlwaysQuoted /\ RoomForAll /\ NoSnapshotInAHole /\ 0 \notin Times

VARIABLE looked_at   \* "hours", "messages", "study" or "trial"

allvars == <<hvars, hcvars, svars, uvars, looked_at>>

others(p) ==
    /\ p # "hours" => UNCHANGED hcvars
    /\ p # "messages" => UNCHANGED hvars
    /\ p # "study" => UNCHANGED svars
    /\ p # "trial" => UNCHANGED uvars

\* The cache when ensure has returned.
Cached ==
    /\ edition = 1 /\ resumable = TRUE /\ measured = TRUE
    /\ partial = NoFile /\ compressed = <<1, 1>> /\ parquet = compressed /\ sidecar = compressed
    /\ jwt = "none" /\ run = "done" /\ attempt = 0 /\ response = NoResponse
    /\ faulted = 0

HIdle == HInit /\ archive = {}
UIdle == UInit /\ passing = {}

MCInit ==
    /\ looked_at \in {"hours", "messages", "study", "trial"}
    /\ IF looked_at = "hours" THEN HCInit ELSE Cached
    /\ IF looked_at = "messages" THEN HInit ELSE HIdle
    /\ SInit
    /\ IF looked_at = "trial" THEN UInit ELSE UIdle

MCNext ==
    /\ \/ looked_at = "hours" /\ HCNext
       \/ looked_at = "messages" /\ HNext
       \/ looked_at = "study" /\ SNext
       \/ looked_at = "trial" /\ UNext
    /\ UNCHANGED looked_at /\ others(looked_at)

MCSpec ==
    /\ MCInit /\ [][MCNext]_allvars
    /\ WF_hcvars(looked_at = "hours" /\ Step /\ UNCHANGED looked_at /\ others(looked_at))
===============================================================================
