------------------------------- MODULE HourCache -------------------------------
(***************************************************************************)
(* HourlyCache.ensure and CryptoHFTDataClient.download                     *)
(* (pyresearch/historical/cryptohftdata.py): one hour of the vendor's      *)
(* archive is downloaded with retries and resumed, decompressed and        *)
(* described by a sidecar, by a process that may die at any point and is   *)
(* run again.                                                              *)
(*                                                                         *)
(* A file is a sequence of pieces, each the edition of the object that it  *)
(* came from: a file is truncated, or spliced from two editions, or whole. *)
(* The vendor's server is modelled from how the client uses it.            *)
(***************************************************************************)
EXTENDS Naturals, Sequences, FiniteSets

CONSTANTS
    Size,        \* pieces of the object
    Attempts,    \* of CryptoHFTDataClient
    MaxFaults    \* bound: faults of the server, the network and the process

ASSUME HourCacheAssumption == Size \in Nat \ {0} /\ Attempts \in Nat \ {0} /\ MaxFaults \in Nat

VARIABLES
    edition,     \* of the object on the server
    resumable,   \* the server honours Range
    measured,    \* the server sends Content-Length
    partial,     \* the .part file; <<>> when it is absent or empty
    compressed,  \* the cached object
    parquet,     \* the object it was decompressed from
    sidecar,     \* the object the sidecar describes
    jwt,         \* the client's token
    run,         \* where ensure is
    attempt,     \* of download
    response,    \* the open response
    faulted      \* faults so far

disk == <<partial, compressed, parquet, sidecar>>
server == <<edition, resumable, measured>>
hcvars == <<server, disk, jwt, run, attempt, response, faulted>>

NoFile == <<>>
NoResponse == [body |-> <<>>]

\* zstd and ParquetFile take the whole of one edition and nothing else.
Whole(file) == Len(file) = Size /\ \A i, j \in DOMAIN file : file[i] = file[j]

Rest(offset) == [i \in 1 .. Size - offset |-> edition]

Stopped == run \in {"none", "done", "failed"}

HCInit ==
    /\ edition = 1 /\ resumable \in BOOLEAN /\ measured \in BOOLEAN
    /\ partial = NoFile /\ compressed = NoFile /\ parquet = NoFile /\ sidecar = NoFile
    /\ jwt = "none" /\ run = "none" /\ attempt = 0 /\ response = NoResponse
    /\ faulted = 0

Fault == faulted < MaxFaults /\ faulted' = faulted + 1

(***************************************************************************)
(* ensure                                                                  *)
(***************************************************************************)

\* A new process has no token.  An object that its sidecar does not describe
\* is refused; one that is there is not downloaded again.
Ensure ==
    /\ run = "none" \/ (Stopped /\ sidecar = NoFile)
    /\ run' = CASE compressed # NoFile /\ sidecar # NoFile /\ sidecar # compressed -> "failed"
                [] compressed # NoFile -> "decompress"
                [] OTHER -> "request"
    /\ jwt' = "none" /\ attempt' = 1
    /\ UNCHANGED <<server, disk, response, faulted>>

\* The next attempt, or the last error after all of them.
Retry ==
    /\ run' = IF attempt < Attempts THEN "request" ELSE "failed"
    /\ attempt' = attempt + 1
    /\ response' = NoResponse

IssueJwt ==
    /\ run = "request" /\ jwt = "none"
    /\ jwt' = "valid"
    /\ UNCHANGED <<server, disk, run, attempt, response, faulted>>

\* 401 drops the token, so that the next attempt asks for another one.
Unauthorized ==
    /\ run = "request" /\ jwt = "expired"
    /\ jwt' = "none"
    /\ Retry
    /\ UNCHANGED <<server, disk, faulted>>

\* Mutant of Requested: the offset is sent but the answer to it is not looked at.
RequestedAppends ==
    LET offset == Len(partial)
        answer == IF offset > 0 /\ resumable THEN offset ELSE 0
    IN  /\ run = "request" /\ jwt = "valid"
        /\ offset = 0 \/ ~resumable \/ offset < Size
        /\ partial' = partial
        /\ response' = [body |-> Rest(answer), before |-> offset, length |-> Size - answer]
        /\ run' = "copy"
        /\ UNCHANGED <<server, compressed, parquet, sidecar, jwt, attempt, faulted>>

\* The rest of the object (206) is appended to what is there, all of it (200)
\* replaces what is there.
Requested ==
    LET offset == Len(partial)
        append == offset > 0 /\ resumable
        before == IF append THEN offset ELSE 0
    IN  /\ run = "request" /\ jwt = "valid"
        /\ append => offset < Size
        /\ partial' = IF append THEN partial ELSE NoFile
        /\ response' = [body |-> Rest(before), before |-> before, length |-> Size - before]
        /\ run' = "copy"
        /\ UNCHANGED <<server, compressed, parquet, sidecar, jwt, attempt, faulted>>

\* No byte is left behind the partial file: 416, which is not retried.
RangeRefused ==
    /\ run = "request" /\ jwt = "valid"
    /\ resumable /\ Len(partial) >= Size
    /\ run' = "failed"
    /\ UNCHANGED <<server, disk, jwt, attempt, response, faulted>>

\* 408, 429, 5xx and a lost connection are retried, 404 and the rest are not.
RequestFails ==
    /\ Fault
    /\ run = "request"
    /\ Retry \/ (run' = "failed" /\ UNCHANGED <<attempt, response>>)
    /\ UNCHANGED <<server, disk, jwt>>

CopyPiece ==
    /\ run = "copy" /\ response.body # <<>>
    /\ partial' = Append(partial, Head(response.body))
    /\ response' = [response EXCEPT !.body = Tail(@)]
    /\ UNCHANGED <<server, compressed, parquet, sidecar, jwt, run, attempt, faulted>>

\* The body ends, early or not, without an error.
BodyEnds ==
    /\ run = "copy"
    /\ IF response.body = <<>> THEN UNCHANGED faulted ELSE Fault
    /\ run' = "measure"
    /\ UNCHANGED <<server, disk, jwt, attempt, response>>

\* The connection breaks; after the last piece only if nothing told the client
\* that it was the last.
BodyBreaks ==
    /\ Fault
    /\ run = "copy" /\ (response.body # <<>> \/ ~measured)
    /\ Retry
    /\ UNCHANGED <<server, disk, jwt>>

\* Mutant of Complete: any body will do.
CompleteAlways == TRUE

\* Content-Length, where there is one, against the bytes that arrived.
Complete == measured => Len(partial) - response.before = response.length

Incomplete ==
    /\ run = "measure" /\ ~Complete
    /\ Retry
    /\ UNCHANGED <<server, disk, jwt, faulted>>

EmptyObject ==
    /\ run = "measure" /\ Complete /\ partial = NoFile
    /\ run' = "failed"
    /\ UNCHANGED <<server, disk, jwt, attempt, response, faulted>>

ReplaceDestination ==
    /\ run = "measure" /\ Complete /\ partial # NoFile
    /\ compressed' = partial /\ partial' = NoFile
    /\ run' = "decompress" /\ response' = NoResponse
    /\ UNCHANGED <<server, parquet, sidecar, jwt, attempt, faulted>>

\* Mutant of Decompress: into the final name, where a failed one stays.
DecompressInPlace ==
    /\ run = "decompress" /\ parquet = NoFile
    /\ parquet' = compressed
    /\ run' = IF Whole(compressed) THEN "describe" ELSE "failed"
    /\ UNCHANGED <<server, partial, compressed, sidecar, jwt, attempt, response, faulted>>

\* Into a .part file, which gets its name only when ParquetFile takes it.
Decompress ==
    /\ run = "decompress" /\ parquet = NoFile
    /\ IF Whole(compressed)
       THEN parquet' = compressed /\ run' = "describe"
       ELSE run' = "failed" /\ UNCHANGED parquet
    /\ UNCHANGED <<server, partial, compressed, sidecar, jwt, attempt, response, faulted>>

Decompressed ==
    /\ run = "decompress" /\ parquet # NoFile
    /\ run' = "describe"
    /\ UNCHANGED <<server, disk, jwt, attempt, response, faulted>>

Describe ==
    /\ run = "describe"
    /\ sidecar' = compressed
    /\ run' = "done"
    /\ UNCHANGED <<server, partial, compressed, parquet, jwt, attempt, response, faulted>>

Step ==
    \/ Ensure \/ IssueJwt \/ Unauthorized \/ Requested \/ RangeRefused \/ CopyPiece
    \/ (response.body = <<>> /\ BodyEnds) \/ Incomplete \/ EmptyObject \/ ReplaceDestination
    \/ Decompress \/ Decompressed \/ Describe

(***************************************************************************)
(* The world                                                               *)
(***************************************************************************)

\* The process dies; the next run starts with what is on the disk.
Die ==
    /\ Fault
    /\ ~Stopped
    /\ run' = "none" /\ jwt' = "none" /\ attempt' = 0 /\ response' = NoResponse
    /\ UNCHANGED <<server, disk>>

JwtExpires ==
    /\ Fault
    /\ jwt = "valid"
    /\ jwt' = "expired"
    /\ UNCHANGED <<server, disk, run, attempt, response>>

\* The vendor publishes the hour again.
NewEdition ==
    /\ Fault
    /\ edition' = edition + 1
    /\ UNCHANGED <<resumable, measured, disk, jwt, run, attempt, response>>

HCNext ==
    \/ Step
    \/ RequestFails \/ BodyEnds \/ BodyBreaks
    \/ Die \/ JwtExpires \/ NewEdition

\* The command goes on while its process lives, and is run again.
HCSpec == HCInit /\ [][HCNext]_hcvars /\ WF_hcvars(Step)

(***************************************************************************)
(* Properties                                                              *)
(***************************************************************************)

\* What the pipeline reads of an hour is one edition of it, whole, and is what
\* the sidecar describes, whatever was truncated, resumed, spliced or crashed
\* on the way: ensure trusts any Parquet file it finds.
CachedHourIsWhole ==
    /\ parquet # NoFile => Whole(parquet) /\ parquet = compressed
    /\ sidecar # NoFile => sidecar = parquet

\* An object that is measured and stays the same.
SteadyServer == [](measured /\ edition = 1)

\* A partial file that is the whole object, which only its rename is missing.
Unrenamed == run # "measure" /\ run # "copy" /\ Len(partial) = Size /\ resumable

\* Broken downloads are resumed, so that in the end the hour is cached,
\* however often the network and the process failed.
ResumedDownloadsFinish == SteadyServer => <>(sidecar # NoFile)

\* They are, but for a process that died between the last byte and the rename:
\* every later run asks for the bytes behind the last and gives up on 416.
ResumedDownloadsFinishOrWait == SteadyServer => <>(sidecar # NoFile \/ Unrenamed)
===============================================================================
