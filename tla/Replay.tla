-------------------------------- MODULE Replay --------------------------------
(***************************************************************************)
(* EventReplayer::replay (cpp/replay/event_replayer.cpp) over the log the  *)
(* collector has written so far.  The replayer drives a synchronizer of    *)
(* its own, record by record; since it is a function of the log, it is run *)
(* here in step with the collector: `replay' is what reading the log would *)
(* give if the collector stopped, or crashed, now.                         *)
(***************************************************************************)
EXTENDS Collector, Replayer

VARIABLES
    replay,    \* the replayer after the records written so far
    orderly    \* history: the log is in the order of the calls, and all used

\* on_record for a record of the collector's log.
OnRecord(r, rec) ==
    CASE rec.type = "ConnectionOpen" -> OnOpenRecord(r)
      [] rec.type = "ConnectionClose" -> OnCloseRecord(r)
      [] rec.type = "DepthSnapshot" -> OnSnapshotRecord(r, Snapshot(rec.id))
      [] rec.type = "DepthUpdate" ->
            IF rec.message = Malformed
            THEN OnMalformedRecord(r)
            ELSE OnUpdateRecord(r, Feed[rec.message])

\* Both threads write a record first and call the synchronizer for it later,
\* under the mutex.  Here neither gets between the other's two steps.
LogOrderIsCallOrder ==
    ~(mpc = "install" /\ dpc \in {"open_lock", "close_lock", "on_depth", "parse_failed"})

\* A fault that keeps what is in the log: a failure to connect, a message the
\* stream has lost, a failed request.  After any other the log holds a record
\* that nobody used, or lacks one.
Harmless ==
    \/ UNCHANGED faults
    \/ dpc = "connecting" /\ dpc' # dpc
    \/ dpc = "read" /\ position' = position + 2
    \/ mpc = "fetch" /\ mpc' # mpc

\* Neither synchronizer was taken out of service by its book or its buffer.
InService == replay.sync.state # "Invalid" /\ ds.state # "Invalid"

RInit == CInit /\ replay = NewReplay /\ orderly = TRUE

RNext == /\ CNext
         /\ replay' = IF record' = NoRecord THEN replay ELSE OnRecord(replay, record')
         /\ orderly' = (orderly /\ Harmless /\ LogOrderIsCallOrder' /\ InService')

rvars == <<cvars, replay, orderly>>

RSpec == RInit /\ [][RNext]_rvars

ReplayLive == ShowsBook(replay)

\* The log in the order of the calls throughout.
OrderedRSpec == RInit /\ [][RNext /\ LogOrderIsCallOrder']_rvars

(***************************************************************************)
(* Properties                                                              *)
(***************************************************************************)

\* What replay calls live is the exchange's book, built from a snapshot of the
\* connection it shows: research output is gated on it, for every order in
\* which the two threads wrote their records, every record lost or kept by a
\* failed write, and every prefix a crash leaves.  The replayer has no session
\* check and takes the snapshots of closed connections too.
ReplayLiveIsExchangeBook ==
    ReplayLive =>
        /\ Mirrors(replay.sync.book, replay.sync.snapshot_update_id)
        /\ replay.sync.snapshot_update_id >= opened_at

\* Both threads are between two records: what is in the log is also applied.
CaptureQuiet == dpc = "read" /\ mpc = "poll"

\* Replaying the log reproduces the book the collector had: when the collector
\* is live and nothing is in flight, so is the replayer, with the same book.
ReplayReproducesCapture ==
    CaptureQuiet /\ IsLive(ds) => ReplayLive /\ replay.sync.book = ds.book

\* It does as long as the log keeps the order of the calls and every record in
\* it was used, and need not afterwards: the replayer has neither the session
\* check nor request_snapshot, and nobody fetches it another snapshot.
OrderlyLogReproducesCapture == orderly => ReplayReproducesCapture
===============================================================================
