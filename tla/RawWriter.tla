------------------------------ MODULE RawWriter ------------------------------
(***************************************************************************)
(* RawEventWriter in rotating mode (cpp/storage/raw_event_writer.cpp), the *)
(* ManifestFinalizer and its manifests (raw_file_manifest.cpp), the way    *)
(* crypto_capture shuts both down, and what crypto_replay accepts of the   *)
(* files they leave behind (cpp/replay/event_replayer.cpp).                *)
(*                                                                         *)
(* Every call of the writer runs under its mutex and is one step here.     *)
(* What can go wrong inside a call makes its outcome nondeterministic: an  *)
(* operator from a call to the set of its outcomes stands for each         *)
(* function, and `threw' tells whether an exception left it.  A block goes *)
(* from block_ through the buffer of the ofstream (`buffered') to the      *)
(* file; a process that dies leaves some of the buffered bytes there.      *)
(*                                                                         *)
(* Records of a run are numbered as they are appended; number 1 is the     *)
(* instrument metadata, which main writes before it starts the threads.    *)
(* Files are named by their bucket and the attempt that found a free name. *)
(*                                                                         *)
(* Bounds: MaxBucket, MaxRecords per run, MaxRuns process runs, MaxFaults  *)
(* failures of the kinds in FaultKinds.                                    *)
(***************************************************************************)
EXTENDS Integers, SequencesExt

CONSTANTS
    BlockTarget,   \* block_target_bytes_, in records
    MaxBucket, MaxRecords, MaxRuns, FaultKinds, MaxFaults

Fault == {"open", "block", "flush", "start", "manifest"}

ASSUME WriterAssumption ==
    /\ BlockTarget \in Nat \ {0}
    /\ {MaxBucket, MaxRecords, MaxRuns, MaxFaults} \subseteq Nat
    /\ FaultKinds \subseteq Fault

NoFile == <<>>   \* an empty file name

InstrumentRecord == 1

VARIABLES
    writer,     \* the RawEventWriter
    files,      \* the raw files on disk
    tasks,      \* closed files whose manifest is being written
    failures,   \* failures_ of the finalizer
    manifests,  \* the published manifests
    run,        \* which run of the process this is
    phase,      \* where main is
    faults

wvars == <<writer, files, tasks, failures, manifests, run, phase, faults>>

NewWriter ==
    [open |-> FALSE, current_bucket |-> 0, current_path |-> NoFile,
     previous_file |-> NoFile, segments_opened |-> 0, segment_records |-> 0,
     records_written |-> 0, block |-> <<>>, buffered |-> <<>>, broken |-> FALSE]

WInit ==
    /\ writer = NewWriter /\ files = <<>> /\ tasks = {} /\ failures = 0
    /\ manifests = <<>> /\ run = 1 /\ phase = "running" /\ faults = 0

(***************************************************************************)
(* Calls and their outcomes                                                *)
(***************************************************************************)
Now == [writer |-> writer, files |-> files, tasks |-> tasks, failures |-> failures,
        faults |-> faults, threw |-> FALSE]

Returns(c) ==
    /\ writer' = c.writer /\ files' = c.files /\ tasks' = c.tasks
    /\ failures' = c.failures /\ faults' = c.faults

Throws(c) == [c EXCEPT !.threw = TRUE]

Fails(c, kind) ==
    IF kind \in FaultKinds /\ c.faults < MaxFaults
    THEN {[c EXCEPT !.faults = @ + 1]}
    ELSE {}

\* g after f, unless f threw.
Then(outcomes, g(_)) == UNION {IF c.threw THEN {c} ELSE g(c) : c \in outcomes}

\* The first n buffered blocks reach the file, and part of the next if torn.
\* A file is whole if it has its header and ends with a block.
Lands(c, n, torn) ==
    LET path == c.writer.current_path
        landed == FlattenSeq(SubSeq(c.writer.buffered, 1, n))
        file == [c.files[path] EXCEPT !.records = @ \o landed, !.whole = ~torn /\ (@ \/ n > 0)]
    IN  [c EXCEPT !.files[path] = file, !.writer.buffered = <<>>]

LandsWhole(c) == Lands(c, Len(c.writer.buffered), FALSE)

LandsInPart(c) ==
    {Lands(c, n, torn) : n \in 0 .. Len(c.writer.buffered) - 1, torn \in BOOLEAN}
        \cup {LandsWhole(c)}

\* Mutant of FlushLocked: block_ is not cleared.
FlushLockedWithoutClear(c) ==
    IF c.writer.block = <<>> THEN {c} ELSE {[c EXCEPT !.writer.buffered = Append(@, c.writer.block)]}

\* Mutant of FlushLocked: the stream's state is not looked at.
FlushLockedUnchecked(c) ==
    LET sent == [c EXCEPT !.writer.buffered = Append(@, c.writer.block), !.writer.block = <<>>]
    IN  IF c.writer.block = <<>> THEN {c} ELSE {sent} \cup UNION {LandsInPart(f) : f \in Fails(sent, "block")}

\* flush_locked.  The stream takes the block; a stream that fails stays failed
\* and the block stays in block_.
FlushLocked(c) ==
    LET block == c.writer.block
        sent == [c EXCEPT !.writer.buffered = Append(@, block), !.writer.block = <<>>]
        failed == {Throws([d EXCEPT !.writer.block = block, !.writer.broken = TRUE]) :
                      d \in UNION {LandsInPart(f) : f \in Fails(sent, "block")}}
    IN  CASE block = <<>> -> {c}
          [] block # <<>> /\ c.writer.broken -> {Throws(c)}
          [] OTHER -> {sent} \cup failed

\* out_.flush(): it sets the stream's error bit and nobody looks at it here.
StreamFlush(c) ==
    IF c.writer.broken
    THEN {c}
    ELSE {LandsWhole(c)} \cup
         {[d EXCEPT !.writer.broken = TRUE] :
             d \in UNION {LandsInPart(f) : f \in Fails(c, "flush")}}

ClosedRawFile(w) ==
    [path |-> w.current_path, previous_file |-> w.previous_file,
     continuation |-> w.segments_opened > 1, raw_records |-> w.segment_records]

\* The hook of crypto_capture: submit the file to the finalizer, which may
\* fail to start a thread for it.
FileClosed(c) ==
    {[c EXCEPT !.tasks = @ \cup {ClosedRawFile(c.writer)}]} \cup
    {[f EXCEPT !.failures = @ + 1] : f \in Fails(c, "start")}

\* Mutant of CloseStream: previous_file_ is not brought forward.
CloseStreamKeepsPrevious(c) ==
    LET closed == [c EXCEPT !.writer.open = FALSE]
    IN  IF c.writer.broken THEN {Throws(closed)} ELSE FileClosed(closed)

\* The end of close_segment_locked, after the flushes.
CloseStream(c) ==
    LET closed == [c EXCEPT !.writer.open = FALSE]
    IN  IF c.writer.broken
        THEN {Throws(closed)}
        ELSE {[d EXCEPT !.writer.previous_file = c.writer.current_path] :
                 d \in FileClosed(closed)}

CloseSegment(c) ==
    IF c.writer.open
    THEN Then(Then(FlushLocked(c), StreamFlush), CloseStream)
    ELSE {c}

\* Mutant of FreePath: the name of the bucket, free or not.
FirstPath(c, bucket) == <<bucket, 0>>

\* segment_path_locked: the first attempt whose name is free.
FreePath(c, bucket) ==
    LET taken == {n[2] : n \in {m \in DOMAIN c.files : m[1] = bucket}}
    IN  <<bucket, CHOOSE a \in 0 .. Cardinality(taken) :
                     a \notin taken /\ \A b \in 0 .. a - 1 : b \in taken>>

\* The new file; its header is still in the stream's buffer.  run and nth are
\* not on disk: they say which process opened the file, as which segment.
NewFile(c) ==
    [run |-> run, nth |-> c.writer.segments_opened + 1, records |-> <<>>, whole |-> FALSE]

OpenSegment(c, bucket) ==
    LET path == FreePath(c, bucket)
        opened == [c.writer EXCEPT !.open = TRUE, !.current_bucket = bucket,
                                   !.current_path = path,
                                   !.segments_opened = @ + 1, !.segment_records = 0,
                                   !.buffered = << <<>> >>, !.broken = FALSE]
        disk == [p \in DOMAIN c.files \cup {path} |-> IF p = path THEN NewFile(c) ELSE c.files[p]]
    IN  {[c EXCEPT !.files = disk, !.writer = opened]}
        \cup {Throws(f) : f \in Fails(c, "open")}

\* Which file a record of this bucket goes to: rotation only runs forward.
Rotate(c, bucket) ==
    CASE ~c.writer.open -> OpenSegment(c, bucket)
      [] c.writer.open /\ bucket > c.writer.current_bucket ->
            LET Open(d) == OpenSegment(d, bucket)
            IN  Then(CloseSegment(c), Open)
      [] OTHER -> {c}

AppendRecord(c) ==
    LET w == c.writer
        added == [w EXCEPT !.block = Append(@, w.records_written + 1),
                           !.records_written = @ + 1, !.segment_records = @ + 1]
        d == [c EXCEPT !.writer = added]
    IN  IF Len(added.block) >= BlockTarget THEN FlushLocked(d) ELSE {d}

Write(bucket) == Then(Rotate(Now, bucket), AppendRecord)

\* flush()
Flush(c) == IF c.writer.open THEN Then(FlushLocked(c), StreamFlush) ELSE {c}

(***************************************************************************)
(* The process                                                             *)
(***************************************************************************)

\* The writer's destructor closes it and swallows what that throws.
Destroyed(c) == CloseSegment([c EXCEPT !.threw = FALSE])

\* A record of any thread, which may be one that still ends after a fatal error.
\* Its stamp was taken before the mutex, from a clock that may also be set back,
\* so it may belong to any bucket.  A failure ends main if the record is the
\* metadata, sets stop if it is the ConnectionClose of a thread, and is a lost
\* connection or a failed snapshot otherwise.
WriteRecord(bucket) ==
    /\ phase \in {"running", "stopping"} /\ writer.records_written < MaxRecords
    /\ \E c \in Write(bucket) :
          IF c.threw /\ writer.records_written = 0
          THEN phase' = "failed" /\ \E d \in Destroyed(c) : Returns(d)
          ELSE /\ Returns(c)
               /\ phase' \in {phase} \cup (IF c.threw THEN {"stopping"} ELSE {})
    /\ UNCHANGED <<manifests, run>>

\* Every ten seconds; if it throws, main leaves its loop.
PeriodicFlush ==
    /\ phase = "running" /\ writer.records_written > 0
    /\ \E c \in Flush(Now) :
          Returns(c) /\ phase' = IF c.threw THEN "stopping" ELSE phase
    /\ UNCHANGED <<manifests, run>>

\* The threads are joined: flush and close.  What throws there leaves main.
Shutdown ==
    /\ phase \in {"running", "stopping"} /\ writer.records_written > 0
    /\ \E c \in Then(Flush(Now), CloseSegment) :
          \E d \in IF c.threw THEN Destroyed(c) ELSE {c} :
             /\ Returns(d)
             /\ phase' = IF phase = "stopping" \/ c.threw THEN "failed" ELSE "closed"
    /\ UNCHANGED <<manifests, run>>

\* Mutant of Exit: the failures of the finalizer are not looked at.
ExitIgnoresFailures ==
    /\ phase \in {"closed", "failed"} /\ tasks = {}
    /\ phase' = IF phase = "closed" THEN "exited_0" ELSE "exited_2"
    /\ UNCHANGED <<writer, files, tasks, failures, manifests, run, faults>>

\* wait_all, then the exit code.
Exit ==
    /\ phase \in {"closed", "failed"} /\ tasks = {}
    /\ phase' = IF phase = "closed" /\ failures = 0 THEN "exited_0" ELSE "exited_2"
    /\ UNCHANGED <<writer, files, tasks, failures, manifests, run, faults>>

ManifestOf(file) ==
    [previous_file |-> file.previous_file, continuation |-> file.continuation,
     raw_records |-> file.raw_records, sha256 |-> files[file.path].records]

\* A task of the finalizer hashes the closed file and renames the manifest
\* into place, or fails on the way.
Publish(file) ==
    /\ tasks' = tasks \ {file}
    /\ manifests' = [p \in DOMAIN manifests \cup {file.path} |->
                        IF p = file.path THEN ManifestOf(file) ELSE manifests[p]]
    /\ UNCHANGED <<writer, files, failures, run, phase, faults>>

PublishFails(file) ==
    /\ "manifest" \in FaultKinds /\ faults < MaxFaults
    /\ faults' = faults + 1 /\ failures' = failures + 1
    /\ tasks' = tasks \ {file}
    /\ UNCHANGED <<writer, files, manifests, run, phase>>

Crash ==
    /\ phase \in {"running", "stopping", "closed", "failed"}
    /\ \E c \in IF writer.open /\ ~writer.broken THEN LandsInPart(Now) ELSE {Now} :
          files' = c.files
    /\ phase' = "crashed" /\ tasks' = {} /\ writer' = NewWriter
    /\ UNCHANGED <<failures, manifests, run, faults>>

\* The service manager starts the process again, in the same directory.
Restart ==
    /\ phase \in {"exited_0", "exited_2", "crashed"} /\ run < MaxRuns
    /\ run' = run + 1 /\ phase' = "running"
    /\ writer' = NewWriter /\ failures' = 0
    /\ UNCHANGED <<files, tasks, manifests, faults>>

WNext ==
    \/ \E bucket \in 0 .. MaxBucket : WriteRecord(bucket)
    \/ PeriodicFlush \/ Shutdown \/ Exit
    \/ \E file \in tasks : Publish(file) \/ PublishFails(file)
    \/ Crash \/ Restart

WSpec == WInit /\ [][WNext]_wvars

(***************************************************************************)
(* The reader: what crypto_replay makes of a list of these files           *)
(***************************************************************************)

\* Mutant of Accepts: any predecessor will do.
AcceptsAnyPredecessor(paths) ==
    /\ paths # <<>>
    /\ paths[1] \in DOMAIN manifests => ~manifests[paths[1]].continuation

\* validate_raw_chain: a file without a manifest is let through.
Accepts(paths) ==
    /\ paths # <<>>
    /\ \A i \in DOMAIN paths : paths[i] \in DOMAIN manifests =>
          IF i = 1
          THEN ~manifests[paths[1]].continuation
          ELSE manifests[paths[i]].previous_file = paths[i - 1]

\* RawEventReader throws on a file without its header and on one that ends
\* inside a block.
Readable(path) == files[path].whole

\* instrument_from_raw_files: the first file that is readable and has it.
HasInstrument(paths) ==
    \E i \in DOMAIN paths :
        Readable(paths[i]) /\ InstrumentRecord \in Range(files[paths[i]].records)

Replayed(paths) == FlattenSeq([i \in DOMAIN paths |-> files[paths[i]].records])

Replays(paths) ==
    Accepts(paths) /\ HasInstrument(paths) /\ \A i \in DOMAIN paths : Readable(paths[i])

(***************************************************************************)
(* Properties                                                              *)
(***************************************************************************)
Count(n) == [i \in 1 .. n |-> i]

\* The files of a run, in the order it opened them.
FilesOfRun(r) ==
    LET ofRun == {p \in DOMAIN files : files[p].run = r}
    IN  [n \in 1 .. Cardinality(ofRun) |-> CHOOSE p \in ofRun : files[p].nth = n]

Stored(r) == Replayed(FilesOfRun(r))

\* Rotation is a storage boundary only: while the stream works, the files of a
\* run in order, then what the stream and block_ hold, are the records of the
\* run: none lost, repeated or moved at a boundary.
RotationKeepsTheStream ==
    phase = "running" /\ ~writer.broken =>
        Stored(run) \o FlattenSeq(writer.buffered) \o writer.block
            = Count(writer.records_written)

\* Whatever fails, and whenever the process dies: the files of every run hold
\* the beginning of its stream, without a hole.
RunsHaveNoHoles == \A r \in 1 .. run : Stored(r) = Count(Len(Stored(r)))

\* A published manifest tells the truth about a whole file that has not
\* changed since, and names the file its run wrote before it.
ManifestsAreTrue ==
    \A p \in DOMAIN manifests :
        LET m == manifests[p]
            chain == FilesOfRun(files[p].run)
        IN  /\ m.sha256 = files[p].records /\ files[p].whole
            /\ m.raw_records = Len(files[p].records)
            /\ m.continuation = (files[p].nth > 1)
            /\ m.previous_file =
                  (IF files[p].nth = 1 THEN NoFile ELSE chain[files[p].nth - 1])

\* Captured data is never truncated or replaced, by a rotation, a restart in
\* the same bucket or a clock that was set back.
CaptureIsNeverRewritten ==
    [][\A p \in DOMAIN files :
          p \in DOMAIN files' /\ IsPrefix(files[p].records, files'[p].records)]_wvars

\* The lists of files a user may pass.
Chains == SeqOf(DOMAIN files, 3)

\* If all files of a list have manifests and replay accepts it, it is the
\* stream of one run from its beginning: nothing is skipped between two files.
AcceptedChainHasNoHole ==
    \A paths \in Chains :
        Accepts(paths) /\ Range(paths) \subseteq DOMAIN manifests =>
            Replayed(paths) = Count(Len(Replayed(paths)))

\* What a run that exits with 0 leaves behind: every file has its manifest and
\* the chain is accepted and gives back every record of the run.
CleanExitIsComplete ==
    phase = "exited_0" =>
        /\ Range(FilesOfRun(run)) \subseteq DOMAIN manifests
        /\ Replays(FilesOfRun(run))
        /\ Stored(run) = Count(writer.records_written)
==============================================================================
