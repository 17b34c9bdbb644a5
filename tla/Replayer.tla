------------------------------- MODULE Replayer -------------------------------
(***************************************************************************)
(* What EventReplayer::replay (cpp/replay/event_replayer.cpp) does to its  *)
(* own synchronizer for one record of a raw file, whoever wrote the file:  *)
(* the collector (Replay) or the historical packer (HistoricalL2).  A      *)
(* replayer is a record of the synchronizer and depth_connected.           *)
(***************************************************************************)
EXTENDS DepthSync

\* Mutant of ReturnFromSnapshot: what was buffered before the snapshot is gone.
ReturnFromSnapshotAlone(s, snap) ==
    [OnSnapshot(s, snap) EXCEPT !.buffer = <<>>, !.draining = FALSE]

\* The loops of on_snapshot, run to their end.
RunLoops(s) ==
    LET turn[n \in Nat] ==
            IF n = 0
            THEN s
            ELSE LET before == turn[n - 1]
                 IN  IF before.draining THEN DrainStep(before) ELSE before
    IN  turn[Len(s.buffer) + 1]

\* on_snapshot as its caller sees it.
ReturnFromSnapshot(s, snap) == RunLoops(OnSnapshot(s, snap))

NewReplay == [sync |-> NewSynchronizer, depth_connected |-> FALSE]

OnOpenRecord(r) == [sync |-> OnConnected(r.sync), depth_connected |-> TRUE]

\* The last book is kept for the final checksum.
OnCloseRecord(r) == [r EXCEPT !.depth_connected = FALSE]

OnSnapshotRecord(r, snapshot) == [r EXCEPT !.sync = ReturnFromSnapshot(@, snapshot)]

OnUpdateRecord(r, event) ==
    IF r.depth_connected THEN [r EXCEPT !.sync = OnDepth(@, event)] ELSE r

\* A depth record that does not parse.
OnMalformedRecord(r) ==
    IF r.depth_connected THEN [r EXCEPT !.sync = BeginResync(@)] ELSE r

\* What the exporters take for a valid book.
ShowsBook(r) == r.depth_connected /\ IsLive(r.sync)
===============================================================================
