------------------------------ MODULE MCResearch ------------------------------
(* The programs of the research path.  Each works on files the one before it *)
(* has finished, so a behaviour takes one of them through its small inputs   *)
(* and leaves the others before their first step.                            *)
EXTENDS ResearchGrid, MCPassiveQueue, MCExecutionEngine, MarketMaker, RoundTrips

VARIABLE program

others(p) ==
    /\ p # "grid" => UNCHANGED gvars
    /\ p # "queue" => UNCHANGED pvars
    /\ p # "engine" => UNCHANGED evars
    /\ p # "maker" => UNCHANGED mvars
    /\ p # "search" => UNCHANGED tvars

GIdle == include_invalid = TRUE /\ GInit
EIdle ==
    /\ frame = [i \in Rows |-> Deep] /\ signals = [i \in Rows |-> "none"]
    /\ latency = 0 /\ horizon = 200
    /\ EInit
MIdle == policy = "neutral" /\ selector = "none" /\ MInit
TIdle ==
    /\ grid = [i \in GridRows |-> "tail"] /\ cancel = "fixed_lifetime" /\ hold = OnSignal
    /\ TInit

MCInit ==
    /\ program \in {"grid", "queue", "engine", "maker", "search"}
    /\ IF program = "grid" THEN GInit ELSE GIdle
    /\ PInit
    /\ IF program = "engine" THEN EInit ELSE EIdle
    /\ IF program = "maker" THEN MInit ELSE MIdle
    /\ IF program = "search" THEN TInit ELSE TIdle

MCNext ==
    /\ \/ program = "grid" /\ GNext
       \/ program = "queue" /\ PNext
       \/ program = "engine" /\ ENext
       \/ program = "maker" /\ MNext
       \/ program = "search" /\ TNext
    /\ UNCHANGED program /\ others(program)

MCSpec == MCInit /\ [][MCNext]_<<program, gvars, pvars, evars, mvars, tvars>>
===============================================================================
