------------------------------ MODULE RoundTrips ------------------------------
(***************************************************************************)
(* The maker round trips of pyresearch/obi/maker_roundtrip_search.py and   *)
(* state_exit_search.py: a probe of the passive study that was filled is   *)
(* paired with the probe of the other side that is placed once the fill is *)
(* known, after a holding time or when the signal leaves its tail.         *)
(*                                                                         *)
(* Times count units, Step of them to a row of the 100 ms feature grid.    *)
(***************************************************************************)
EXTENDS Integers, FiniteSetsExt

CONSTANTS
    DayRows,        \* rows of the day
    Step,           \* units to a row
    CancelLatency,  \* from the unsafe row to the cancelled order
    Holds,          \* additional holding times
    MaxHold,        \* when the exit on the signal gives up waiting
    MaxDelay,       \* bound: from the exchange to the local clock
    QuoteLife       \* lifetime of a probe

ASSUME RoundTripAssumption ==
    /\ DayRows \in Nat \ {0} /\ Step \in Nat \ {0} /\ MaxHold >= Step
    /\ CancelLatency \in Nat /\ MaxHold \in Nat /\ MaxDelay \in Nat /\ QuoteLife \in Nat
    /\ Holds \subseteq Nat

GridRows == 0 .. DayRows - 1

\* A row without a valid book; one with the signal in its tail, or out of it;
\* one that starts another segment of the book.
GridRowKinds == {"invalid", "tail", "out", "new"}

VARIABLES
    grid,     \* the feature rows of the day
    cancel,   \* the cancel mode
    hold,     \* how long an exit waits; -1 for the exit on the signal
    entry,    \* the probe that opens, with its full fill
    target,   \* the row the exit is placed at
    trip      \* the pair, with its verdict

tvars == <<grid, cancel, hold, entry, target, trip>>

OnSignal == -1
NoProbe == [decision |-> DayRows]
NoTrip == [none |-> TRUE]

TInit ==
    /\ grid \in [GridRows -> GridRowKinds]
    /\ cancel \in {"fixed_lifetime", "cancel_on_tail_exit"}
    /\ hold \in Holds \cup {OnSignal}
    /\ entry = NoProbe /\ target = DayRows /\ trip = NoTrip

Valid(i) == grid[i] # "invalid"
InTail(i) == grid[i] \in {"tail", "new"}

NoRun == 0

\* feature_segment_id: the runs of valid rows of one book segment, numbered.
Run(i) ==
    IF Valid(i)
    THEN Cardinality({j \in 0 .. i : Valid(j) /\ (j = 0 \/ grid[j] = "new" \/ ~Valid(j - 1))})
    ELSE NoRun

FirstOf(S) == Min(S \cup {DayRows})

-------------------------------------------------------------------------------
(* Probes. *)

\* What the simulation may find of a full fill of the probe placed at row i:
\* it is placed when the row is known locally, and the events it sees are those
\* the row does not hold.
Fills(i) ==
    {[decision |-> i, placed |-> i * Step + delay, exchange |-> at, received |-> known] :
        delay \in 0 .. MaxDelay,
        at \in i * Step + 1 .. i * Step + MaxDelay + QuoteLife,
        known \in i * Step + 1 .. i * Step + MaxDelay + QuoteLife}

FullFills(i) ==
    {p \in Fills(i) : /\ p.placed <= p.received /\ p.received <= p.placed + QuoteLife
                      /\ p.exchange <= p.received /\ p.received <= p.exchange + MaxDelay}

\* A full fill of a probe whose signal was in its tail.
Enter ==
    /\ entry = NoProbe
    /\ \E i \in GridRows :
          /\ InTail(i)
          /\ entry' \in FullFills(i)
    /\ UNCHANGED <<grid, cancel, hold, target, trip>>

-------------------------------------------------------------------------------
(* Cancels and exits. *)

\* next_unsafe_indices: the first row after i that is out of the tail, or
\* belongs to no run, or starts one.
NextUnsafe(i) ==
    FirstOf({j \in GridRows : j > i /\ (~InTail(j) \/ Run(j) = NoRun \/ Run(j) # Run(j - 1))})

Survives ==
    \/ cancel = "fixed_lifetime"
    \/ NextUnsafe(entry.decision) = DayRows
    \/ entry.received <= NextUnsafe(entry.decision) * Step + CancelLatency

\* The first row at or after a time.
RowFrom(time) == (time + Step - 1) \div Step

\* Mutant of TargetIndex: the row is rounded down.
TargetIndexBelow(delay) == (entry.received + delay) \div Step

\* target_exit_indices: on the clock on which the fill is known.
TargetIndex(delay) == RowFrom(entry.received + delay)

MinimumDelay == Step

\* first_true_for_starts: the first row with the signal out of its tail, if it
\* lies in the run of the start.
FirstOut(start) ==
    LET hit == FirstOf({j \in GridRows : j >= start /\ grid[j] = "out"})
    IN  IF start < DayRows /\ hit < DayRows /\ Run(start) # NoRun /\ Run(hit) = Run(start)
        THEN hit ELSE DayRows

\* state_exit_targets, or the row after the holding time.
ExitTarget ==
    IF hold = OnSignal
    THEN Min({FirstOut(TargetIndex(MinimumDelay)), TargetIndex(MaxHold)})
    ELSE TargetIndex(MinimumDelay + hold)

\* A cancelled entry is in no pair.
Discard ==
    /\ entry # NoProbe /\ ~Survives
    /\ entry' = NoProbe
    /\ UNCHANGED <<grid, cancel, hold, target, trip>>

Target ==
    /\ entry # NoProbe /\ trip = NoTrip /\ target = DayRows
    /\ Survives /\ ExitTarget < DayRows
    /\ target' = ExitTarget
    /\ UNCHANGED <<grid, cancel, hold, entry, trip>>

\* The rest of _pair_values and _pair_values_at_target: both fills within the
\* day, at valid rows of the one run that both probes were placed in.
InOneRun(p) ==
    LET fills == {RowFrom(entry.exchange), RowFrom(p.exchange)}
    IN  /\ fills \subseteq GridRows
        /\ \A i \in fills : Valid(i) /\ Run(i) = Run(entry.decision)
        /\ Run(p.decision) = Run(entry.decision)

\* The exit probe is in the lookup if it was placed at a valid row and filled.
Pair ==
    /\ target < DayRows /\ trip = NoTrip
    /\ Valid(target)
    /\ \E p \in FullFills(target) :
          trip' = [exit |-> p, valid |-> /\ p.placed >= target * Step
                                         /\ p.received > entry.received
                                         /\ InOneRun(p)]
    /\ UNCHANGED <<grid, cancel, hold, entry, target>>

TNext == Enter \/ Discard \/ Target \/ Pair

TSpec == TInit /\ [][TNext]_tvars

-------------------------------------------------------------------------------
(* Properties. *)

\* A valid round trip could have been made: from the entry's decision to the
\* exit's fill the book was never lost ("reject_if_entry_and_exit_cross_
\* feature_segment"), the exit was decided on when the entry's fill was known
\* for the minimum delay ("causal_clock"), an exit on the signal left at its
\* first row out of the tail, and no cancel was due before the fill.
ValidTripsAreCausal ==
    trip # NoTrip /\ trip.valid =>
        /\ \A i \in entry.decision .. RowFrom(trip.exit.exchange) :
              Valid(i) /\ (i > entry.decision => grid[i] # "new")
        /\ IF hold = OnSignal
           THEN \A i \in entry.decision + 1 .. target - 1 :
                   i * Step >= entry.received + MinimumDelay => InTail(i)
           ELSE target * Step >= entry.received + MinimumDelay + hold
        /\ trip.exit.placed >= entry.received
        /\ cancel = "cancel_on_tail_exit" =>
              \A i \in entry.decision + 1 .. DayRows - 1 :
                 i * Step + CancelLatency < entry.received => InTail(i)
===============================================================================
