----------------------------- MODULE PassiveStudy -----------------------------
(***************************************************************************)
(* The commands of pyresearch/passive/pipeline.py: stage-a, development,   *)
(* validation, holdout and thresholds.  A command builds the days it needs *)
(* or reuses those on the disk, analyses them, and freezes the methodology *)
(* after development.  It may die between any two files it writes, and is  *)
(* run again; between commands the code, the binary, the fitted models and *)
(* the features may change.                                                *)
(*                                                                         *)
(* A file is what it was made from, which also stands for its hash: two    *)
(* files are the same if the same versions of everything made them.        *)
(***************************************************************************)
EXTENDS Naturals, Sequences, FiniteSetsExt

CONSTANTS
    StageA,       \* the dates of the split, as sequences without repetition
    Development,
    Validation,
    Holdout,
    MaxEdits,     \* bound: changes between commands
    MaxCrashes    \* bound: deaths of a command

DatesOf(s) == {s[i] : i \in DOMAIN s}
Dates == DatesOf(Development) \cup DatesOf(Validation) \cup DatesOf(Holdout)

\* The split of research/specs/maker_research_spec_frozen.json: stage A looks at
\* a development day, and no day is in two of the others.
ASSUME StudyAssumption ==
    /\ {StageA, Development, Validation, Holdout} \subseteq Seq(Dates)
    /\ DatesOf(StageA) \subseteq DatesOf(Development)
    /\ DatesOf(Development) \cap DatesOf(Validation) = {}
    /\ (DatesOf(Development) \cup DatesOf(Validation)) \cap DatesOf(Holdout) = {}
    /\ MaxEdits \in Nat /\ MaxCrashes \in Nat

VARIABLES
    inputs,      \* versions of what the commands read
    thresholds,  \* THRESHOLDS_REPORT
    frozen,      \* FROZEN_SPEC
    frozen_hash, \* FROZEN_SPEC_HASH
    opening,     \* holdout_opening_audit.json
    day,         \* the files of _day_paths, per date
    command,     \* the command that runs
    task,        \* its tasks to do
    file,        \* the next file of the day at hand
    crashes

svars == <<inputs, thresholds, frozen, frozen_hash, opening, day, command, task, file, crashes>>

files == <<thresholds, frozen, frozen_hash, opening, day>>

Absent == [absent |-> TRUE]
Torn == [torn |-> TRUE]
Inputs == {"bundle", "code", "binary", "models", "features"}

SInit ==
    /\ inputs = [i \in Inputs |-> 0]
    /\ thresholds = Absent /\ frozen = Absent /\ frozen_hash = Absent /\ opening = Absent
    /\ day = [d \in Dates |-> [placements |-> Absent, probes |-> Absent,
                               labeled |-> Absent, manifest |-> Absent]]
    /\ command = "none" /\ task = <<>> /\ file = "manifest"
    /\ crashes = 0

-------------------------------------------------------------------------------
(* The commands and their tasks, in order. *)

Build(dates, repeat) ==
    [i \in DOMAIN dates |-> [do |-> "build", date |-> dates[i], repeat |-> repeat]]

Do(what) == <<[do |-> what]>>

\* Mutant of Tasks: the holdout is opened when its days are there.
TasksOpenLater(c) ==
    CASE c = "thresholds" -> Do("thresholds")
      [] c = "stage-a" -> Do("thresholds") \o Build(StageA, 2) \o Do("analyze")
      [] c = "development" ->
            Do("thresholds") \o Build(Development, 1) \o Do("analyze") \o Do("freeze") \o Do("seal")
      [] c = "validation" -> Do("validate") \o Build(Validation, 1) \o Do("analyze")
      [] c = "holdout" -> Do("validate") \o Build(Holdout, 1) \o Do("open") \o Do("analyze")

Tasks(c) ==
    CASE c = "thresholds" -> Do("thresholds")
      [] c = "stage-a" -> Do("thresholds") \o Build(StageA, 2) \o Do("analyze")
      [] c = "development" ->
            Do("thresholds") \o Build(Development, 1) \o Do("analyze") \o Do("freeze") \o Do("seal")
      [] c = "validation" -> Do("validate") \o Build(Validation, 1) \o Do("analyze")
      [] c = "holdout" -> Do("validate") \o Do("open") \o Build(Holdout, 1) \o Do("analyze")

Commands == {"thresholds", "stage-a", "development", "validation", "holdout"}

StartCommand(c) ==
    /\ command = "none"
    /\ command' = c /\ task' = Tasks(c)
    /\ UNCHANGED <<inputs, files, file, crashes>>

At(what) == task # <<>> /\ Head(task).do = what

Done == task' = Tail(task)

\* An exception, or the end of the command.
Abort == command' = "none" /\ task' = <<>>

EndCommand ==
    /\ command # "none" /\ task = <<>>
    /\ command' = "none"
    /\ UNCHANGED <<inputs, files, task, file, crashes>>

-------------------------------------------------------------------------------
(* compute_signal_thresholds: from the models and the development features. *)

ComputeSignalThresholds ==
    /\ At("thresholds")
    /\ thresholds' = [models |-> inputs["models"], features |-> inputs["features"]]
    /\ Done
    /\ UNCHANGED <<inputs, frozen, frozen_hash, opening, day, command, file, crashes>>

-------------------------------------------------------------------------------
(* build_day. *)

Building(f) == At("build") /\ file = f

Date == Head(task).date

\* Mutant of Reusable: the files that the manifest names are there.
ReusableIfPresent(d, repeat) ==
    /\ day[d].manifest # Absent
    /\ day[d].manifest.repeat >= repeat
    /\ \A f \in {"placements", "probes", "labeled"} : day[d][f] # Absent

\* _reusable_day.
Reusable(d, repeat) ==
    /\ day[d].manifest # Absent
    /\ day[d].manifest.repeat >= repeat
    /\ \A f \in {"placements", "probes", "labeled"} : day[d][f] = day[d].manifest[f]

Reuse ==
    /\ Building("manifest") /\ Reusable(Date, Head(task).repeat)
    /\ Done
    /\ UNCHANGED <<inputs, files, command, file, crashes>>

Write(f, content) == day' = [day EXCEPT ![Date][f] = content]

\* The files of a day are written in their order; the manifest of an earlier
\* build stays until its turn comes.
BuildPlacements ==
    /\ Building("manifest") /\ ~Reusable(Date, Head(task).repeat)
    /\ Write("placements", [code |-> inputs["code"], models |-> inputs["models"],
                            features |-> inputs["features"]])
    /\ file' = "probes"
    /\ UNCHANGED <<inputs, thresholds, frozen, frozen_hash, opening, command, task, crashes>>

\* The binary writes its output in place.
StartProbe ==
    /\ Building("probes")
    /\ Write("probes", Torn)
    /\ file' = "probed"
    /\ UNCHANGED <<inputs, thresholds, frozen, frozen_hash, opening, command, task, crashes>>

RunProbe ==
    /\ Building("probed")
    /\ Write("probes", [placements |-> day[Date].placements, binary |-> inputs["binary"]])
    /\ file' = "labeled"
    /\ UNCHANGED <<inputs, thresholds, frozen, frozen_hash, opening, command, task, crashes>>

\* label_probe_file; the repeated labelling leaves nothing behind.
LabelProbes ==
    /\ Building("labeled")
    /\ Write("labeled", [probes |-> day[Date].probes, code |-> inputs["code"],
                         features |-> inputs["features"]])
    /\ file' = "described"
    /\ UNCHANGED <<inputs, thresholds, frozen, frozen_hash, opening, command, task, crashes>>

WriteManifest ==
    /\ Building("described")
    /\ Write("manifest", [placements |-> day[Date].placements, probes |-> day[Date].probes,
                          labeled |-> day[Date].labeled, repeat |-> Head(task).repeat])
    /\ file' = "manifest"
    /\ Done
    /\ UNCHANGED <<inputs, thresholds, frozen, frozen_hash, opening, command, crashes>>

\* The analysis computes missing thresholds; every command before it has them.
Analyze ==
    /\ At("analyze")
    /\ Done
    /\ UNCHANGED <<inputs, files, command, file, crashes>>

-------------------------------------------------------------------------------
(* The frozen methodology. *)

\* Mutant of FrozenIsValid: verify_binary is not set.
FrozenIsValidAnyBinary ==
    /\ frozen # Absent /\ frozen_hash = frozen
    /\ \A i \in {"models", "bundle"} : frozen[i] = inputs[i]

\* _validate_frozen: the hash of the specification, and of what it names.
FrozenIsValid ==
    /\ frozen # Absent /\ frozen_hash = frozen
    /\ \A i \in {"models", "bundle", "binary"} : frozen[i] = inputs[i]

Validate ==
    /\ At("validate")
    /\ IF FrozenIsValid THEN Done /\ UNCHANGED command ELSE Abort
    /\ UNCHANGED <<inputs, files, file, crashes>>

\* _freeze_after_development: the first time it writes the specification, later
\* it only validates it.
Freeze ==
    /\ At("freeze") /\ frozen = Absent
    /\ frozen' = [models |-> inputs["models"], bundle |-> inputs["bundle"],
                  binary |-> inputs["binary"], thresholds |-> thresholds]
    /\ Done
    /\ UNCHANGED <<inputs, thresholds, frozen_hash, opening, day, command, file, crashes>>

AlreadyFrozen ==
    /\ At("freeze") /\ frozen # Absent
    /\ Abort
    /\ UNCHANGED <<inputs, files, file, crashes>>

\* The sidecar of the specification; write_text truncates the file before it fills it.
StartSeal ==
    /\ At("seal") /\ frozen_hash = Absent
    /\ frozen_hash' = Torn
    /\ UNCHANGED <<inputs, thresholds, frozen, opening, day, command, task, file, crashes>>

Seal ==
    /\ At("seal") /\ frozen_hash = Torn
    /\ frozen_hash' = frozen
    /\ Done
    /\ UNCHANGED <<inputs, thresholds, frozen, opening, day, command, file, crashes>>

\* An opening audit that is there must name the same specification.
OpenHoldout ==
    /\ At("open")
    /\ IF opening = Absent THEN opening' = frozen ELSE UNCHANGED opening
    /\ IF opening \in {Absent, frozen} THEN Done /\ UNCHANGED command ELSE Abort
    /\ UNCHANGED <<inputs, thresholds, frozen, frozen_hash, day, file, crashes>>

-------------------------------------------------------------------------------
(* The world. *)

Edits == MapThenSumSet(LAMBDA i : inputs[i], Inputs)

Edit(i) ==
    /\ command = "none" /\ Edits < MaxEdits
    /\ inputs' = [inputs EXCEPT ![i] = @ + 1]
    /\ UNCHANGED <<files, command, task, file, crashes>>

Crash ==
    /\ command # "none" /\ crashes < MaxCrashes
    /\ Abort /\ file' = "manifest"
    /\ crashes' = crashes + 1
    /\ UNCHANGED <<inputs, files>>

SNext ==
    \/ \E c \in Commands : StartCommand(c)
    \/ EndCommand
    \/ ComputeSignalThresholds \/ Analyze
    \/ Reuse \/ BuildPlacements \/ StartProbe \/ RunProbe \/ LabelProbes \/ WriteManifest
    \/ Validate \/ Freeze \/ AlreadyFrozen \/ StartSeal \/ Seal \/ OpenHoldout
    \/ Crash \/ \E i \in Inputs : Edit(i)

SSpec == SInit /\ [][SNext]_svars

-------------------------------------------------------------------------------
(* Properties. *)

DatesAnalyzedBy(c) ==
    DatesOf(CASE c = "stage-a" -> StageA
              [] c = "development" -> Development
              [] c = "validation" -> Validation
              [] c = "holdout" -> Holdout)

\* What is analysed was made in one go: the labels from the probes beside them,
\* those from the placements beside them, whatever died in between and was run
\* again with other code over the files of an earlier build.
AnalysedDaysAreWhole ==
    At("analyze") =>
        \A d \in DatesAnalyzedBy(command) :
            /\ day[d].labeled \notin {Absent, Torn} /\ day[d].probes \notin {Absent, Torn}
            /\ day[d].labeled.probes = day[d].probes
            /\ day[d].probes.placements = day[d].placements

\* "opened_before_holdout_probe_or_label_read" (pipeline.py:533): no file of a
\* holdout day exists without an opening audit, which names the sealed
\* specification.
HoldoutIsOpenedFirst ==
    \A d \in DatesOf(Holdout) :
        day[d].placements # Absent =>
            opening # Absent /\ opening = frozen /\ frozen_hash = frozen

\* The probes that validation and holdout are analysed on were made by the
\* binary and from the model of the frozen specification, however often the
\* inputs were changed, and changed back, since.
LaterStagesUseTheFrozenModel ==
    \A d \in DatesOf(Validation) \cup DatesOf(Holdout) :
        day[d].probes \notin {Absent, Torn} =>
            /\ day[d].probes.binary = frozen.binary
            /\ day[d].probes.placements.models = frozen.models
===============================================================================
