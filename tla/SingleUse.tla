------------------------------- MODULE SingleUse -------------------------------
(***************************************************************************)
(* run_stage of pyresearch/obi/continuous_mm.py: development, then one     *)
(* validation, then one replication if the validation passes its gate.  A  *)
(* stage writes its day metrics, its summary and last its receipt, and may *)
(* die between any two of them; between commands the code or its           *)
(* specification may change.  loop6_frozen_ablation.py guards its single   *)
(* validation in the same way.                                             *)
(***************************************************************************)
EXTENDS Naturals

CONSTANTS
    MaxVersion,   \* bound: changes of code and specification
    MaxDeaths     \* bound: deaths of a stage

ASSUME SingleUseAssumption == MaxVersion \in Nat /\ MaxDeaths \in Nat

Stages == {"development", "validation", "replication"}

VARIABLES
    version,   \* of code and specification
    passing,   \* the versions that pass the gate
    results,   \* the files of _stage_paths and the receipt, per stage
    running,   \* the stage that runs
    output,    \* the file it writes next
    deaths

uvars == <<version, passing, results, running, output, deaths>>

None == [none |-> TRUE]

UInit ==
    /\ version = 0 /\ passing \in SUBSET (0 .. MaxVersion)
    /\ results = [s \in Stages |-> [metrics |-> None, summary |-> None, receipt |-> None]]
    /\ running = "none" /\ output = "metrics"
    /\ deaths = 0

\* Mutant of MayRun: a receipt does not prevent another evaluation.
MayRunAgain(s) ==
    CASE s = "development" -> TRUE
      [] s = "validation" -> results["development"].summary # None
      [] s = "replication" ->
            /\ results["validation"].receipt # None
            /\ results["validation"].receipt.gate_passes

\* The guards of run_stage.
MayRun(s) ==
    CASE s = "development" -> TRUE
      [] s = "validation" ->
            /\ results["validation"].receipt = None
            /\ results["development"].summary # None
      [] s = "replication" ->
            /\ results["replication"].receipt = None
            /\ results["validation"].receipt # None
            /\ results["validation"].receipt.gate_passes

RunStage(s) ==
    /\ running = "none" /\ MayRun(s)
    /\ running' = s /\ output' = "metrics"
    /\ UNCHANGED <<version, passing, results, deaths>>

Result == results[running]

WriteMetrics ==
    /\ running # "none" /\ output = "metrics"
    /\ results' = [results EXCEPT ![running].metrics = [version |-> version]]
    /\ output' = "summary"
    /\ UNCHANGED <<version, passing, running, deaths>>

\* The summary of a validation holds the verdict of validation_gate; a
\* development has no receipt.
WriteSummary ==
    /\ running # "none" /\ output = "summary"
    /\ results' = [results EXCEPT ![running].summary =
                      [metrics |-> Result.metrics, passes |-> version \in passing]]
    /\ IF running = "development" THEN running' = "none" /\ UNCHANGED output
       ELSE output' = "receipt" /\ UNCHANGED running
    /\ UNCHANGED <<version, passing, deaths>>

WriteReceipt ==
    /\ running # "none" /\ output = "receipt"
    /\ results' = [results EXCEPT ![running].receipt =
                      [metrics |-> Result.metrics, summary |-> Result.summary,
                       gate_passes |-> running = "replication" \/ Result.summary.passes]]
    /\ running' = "none"
    /\ UNCHANGED <<version, passing, output, deaths>>

Dies ==
    /\ running # "none" /\ deaths < MaxDeaths
    /\ running' = "none"
    /\ deaths' = deaths + 1
    /\ UNCHANGED <<version, passing, results, output>>

Change ==
    /\ running = "none" /\ version < MaxVersion
    /\ version' = version + 1
    /\ UNCHANGED <<passing, results, running, output, deaths>>

UNext ==
    \/ \E s \in Stages : RunStage(s)
    \/ WriteMetrics \/ WriteSummary \/ WriteReceipt \/ Dies \/ Change

USpec == UInit /\ [][UNext]_uvars

-------------------------------------------------------------------------------
(* Properties. *)

\* verify_validation_receipt holds for ever: what a receipt names is what is on
\* the disk, whatever was changed and run since; and the replication was
\* opened only behind a receipt of a validation that passed
\* ("do_not_open_replication_split_if_validation_fails").
ReceiptsStayTrue ==
    /\ \A s \in {"validation", "replication"} :
          results[s].receipt # None =>
              /\ results[s].receipt.metrics = results[s].metrics
              /\ results[s].receipt.summary = results[s].summary
    /\ results["replication"].metrics # None =>
          /\ results["validation"].receipt # None
          /\ results["validation"].metrics.version \in passing
===============================================================================
