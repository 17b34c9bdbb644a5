----------------------------- MODULE ReplayProofs -----------------------------
(***************************************************************************)
(* Proofs about the replay of the collector's log, for every exchange,     *)
(* feed, schedule of the threads, kind and number of faults: what replay   *)
(* calls live is the exchange's book, and a log that keeps the order of    *)
(* the calls reproduces the book the collector had.                        *)
(***************************************************************************)
EXTENDS Replay, CollectorProofs

-------------------------------------------------------------------------------
(* Safety: what replay shows belongs to the connection it shows. *)

\* All that waits to be applied was sent after id, and what is live was built
\* from a snapshot that is not older than id.
Since(s, id) ==
    /\ \A i \in 1 .. Len(s.buffer) : s.buffer[i].previous_final_update_id >= id
    /\ s.state = "Live" => s.snapshot_update_id >= id

\* The first event covers the snapshot's id, so a snapshot on which an event of
\* this connection aligns is not older than the connection.
LEMMA ApplySince ==
    ASSUME NEW s, Aligning(s), NEW id \in Ids, Since(s, id),
           NEW e \in DepthEvents, e.previous_final_update_id >= id
    PROVE  /\ Since(ApplyFirstEvent(s, e), id)
           /\ s.state = "Live" => Since(ApplyContiguousEvent(s, e), id)
<1>1. s \in Synchronizer /\ s.snapshot_update_id \in Int /\ s.buffer \in Seq(DepthEvents)
  BY ExchangeAssumption DEF Aligning, Synchronizer, Ids
<1>2. /\ e.first_update_id \in Int /\ e.final_update_id \in Int
      /\ e.previous_final_update_id \in Int /\ id \in Int
      /\ e.previous_final_update_id < e.first_update_id
  BY GenuineEvent, ExchangeAssumption DEF Ids
<1>3. Since([s EXCEPT !.result = "Stale"], id)
  BY <1>1 DEF Since, Synchronizer
<1>4. Since(DetectGap(s, e), id)
  <2>1. DetectGap(s, e).buffer = <<e>> /\ DetectGap(s, e).state = "GapDetected"
    BY <1>1 DEF DetectGap, Synchronizer
  <2>2. Len(<<e>>) = 1 /\ <<e>>[1] = e
    OBVIOUS
  <2> HIDE DEF DetectGap
  <2> QED
    BY <1>2, <2>1, <2>2 DEF Since
<1>5. ASSUME NEW aligned, s.snapshot_update_id >= id
      PROVE  Since(ApplyEvent(s, e, aligned), id)
  <2> DEFINE r == ApplyEvent(s, e, aligned)
  <2>1. r.buffer = s.buffer /\ r.snapshot_update_id = s.snapshot_update_id
    BY <1>1 DEF ApplyEvent, Synchronizer
  <2> HIDE DEF r
  <2>2. Since(r, id)
    BY <1>5, <2>1 DEF Since
  <2> QED
    BY <2>2 DEF r
<1>6. ~(e.first_update_id > s.snapshot_update_id) => s.snapshot_update_id >= id
  BY <1>1, <1>2
<1>7. Since(ApplyFirstEvent(s, e), id)
  BY <1>3, <1>4, <1>5, <1>6 DEF ApplyFirstEvent
<1>8. ASSUME s.state = "Live"
      PROVE  Since(ApplyContiguousEvent(s, e), id)
  <2>1. s.snapshot_update_id >= id
    BY <1>8 DEF Since
  <2> QED
    BY <1>3, <1>4, <1>5, <2>1 DEF ApplyContiguousEvent
<1> QED
  BY <1>7, <1>8

\* What a resync keeps is what was buffered.
LEMMA ResyncSince ==
    ASSUME NEW s \in Synchronizer, NEW id, Since(s, id)
    PROVE  Since(BeginResync(s), id) /\ Since(NeedSnapshotOnGap(s), id)
  BY DEF Since, BeginResync, NeedSnapshotOnGap, Synchronizer

\* on_depth, for a message of this connection.
LEMMA OnDepthSince ==
    ASSUME NEW s, SyncInv(s), ~s.draining, NEW id \in Ids, Since(s, id),
           NEW e \in DepthEvents, e.previous_final_update_id >= id
    PROVE  Since(OnDepth(s, e), id)
<1>1. s \in Synchronizer /\ s.buffer \in Seq(DepthEvents)
  BY DEF SyncInv, Synchronizer
<1>2. CASE s.state \in {"Disconnected", "Invalid"}
  BY <1>1, <1>2 DEF OnDepth, Since, Synchronizer
<1>3. CASE s.state \in {"Buffering", "SnapshotPending", "Resyncing", "GapDetected"}
  <2>1. OnDepth(s, e) = BufferEvent(s, e)
    BY <1>3 DEF OnDepth
  <2>2. CASE Len(s.buffer) >= MaxBufferedEvents
    BY <1>1, <2>1, <2>2 DEF BufferEvent, Since, Synchronizer
  <2>3. CASE ~(Len(s.buffer) >= MaxBufferedEvents)
    <3> DEFINE longer == Append(s.buffer, e)
    <3>1. \A i \in 1 .. Len(longer) : longer[i].previous_final_update_id >= id
      BY <1>1 DEF Since
    <3>2. OnDepth(s, e).buffer = longer /\ OnDepth(s, e).state = s.state
      BY <1>1, <2>1, <2>3 DEF BufferEvent, Synchronizer
    <3> HIDE DEF longer
    <3> QED
      BY <1>3, <3>1, <3>2 DEF Since
  <2> QED
    BY <2>2, <2>3
<1>4. CASE s.state = "Syncing"
  <2> DEFINE r == ApplyFirstEvent(s, e)
  <2>1. /\ OnDepth(s, e) = NeedSnapshotOnGap(r)
        /\ Aligning(s) /\ s.book.last_update_id = s.snapshot_update_id
    BY <1>1, <1>4 DEF OnDepth, SyncInv, Aligning
  <2>2. r \in Synchronizer /\ Since(r, id)
    BY <2>1, FirstEventOp, ApplySince DEF Outcome
  <2> HIDE DEF r
  <2> QED
    BY <2>1, <2>2, ResyncSince
<1>5. CASE s.state = "Live"
  <2>1. OnDepth(s, e) = ApplyContiguousEvent(s, e) /\ Aligning(s)
    BY <1>1, <1>5 DEF OnDepth, SyncInv, Aligning
  <2> QED
    BY <1>5, <2>1, ApplySince
<1> QED
  BY <1>1, <1>2, <1>3, <1>4, <1>5 DEF Synchronizer, SyncState

\* A turn of the loops of on_snapshot.
LEMMA DrainStepSince ==
    ASSUME NEW s, SyncInv(s), s.draining, NEW id \in Ids, Since(s, id)
    PROVE  Since(DrainStep(s), id)
<1> DEFINE e == Head(s.buffer)
           popped == [s EXCEPT !.buffer = Tail(@)]
           first == ApplyFirstEvent(popped, e)
           next == ApplyContiguousEvent(popped, e)
<1>1. s \in Synchronizer /\ s.state \in {"Syncing", "Live"} /\ s.buffer \in Seq(DepthEvents)
  BY DEF SyncInv, Synchronizer
<1>2. CASE s.buffer = <<>>
  BY <1>1, <1>2 DEF DrainStep, Since, Synchronizer
<1>3. ASSUME s.buffer # <<>>
      PROVE  /\ e \in DepthEvents /\ e.previous_final_update_id >= id
             /\ Aligning(popped) /\ Since(popped, id)
             /\ popped.first_event_applied = s.first_event_applied
             /\ popped.state = s.state /\ popped.book = s.book
             /\ popped.snapshot_update_id = s.snapshot_update_id
  <2>1. /\ e \in DepthEvents /\ Tail(s.buffer) \in Seq(DepthEvents)
        /\ Len(Tail(s.buffer)) = Len(s.buffer) - 1 /\ Len(s.buffer) \in Nat \ {0}
        /\ \A i \in 1 .. Len(Tail(s.buffer)) : Tail(s.buffer)[i] = s.buffer[i + 1]
        /\ e = s.buffer[1]
    BY <1>1, <1>3
  <2>2. Len(Tail(s.buffer)) <= MaxBufferedEvents
    BY <2>1, BufferAssumption DEF SyncInv
  <2>3. Aligning(popped)
    BY <1>1, <2>1, <2>2 DEF SyncInv, Aligning, Synchronizer
  <2>4. /\ popped.buffer = Tail(s.buffer)
        /\ popped.first_event_applied = s.first_event_applied
        /\ popped.state = s.state /\ popped.book = s.book
        /\ popped.snapshot_update_id = s.snapshot_update_id
    BY <1>1 DEF Synchronizer
  <2>5. Since(popped, id)
    <3> HIDE DEF popped
    <3>1. ASSUME NEW i \in 1 .. Len(Tail(s.buffer))
          PROVE  Tail(s.buffer)[i].previous_final_update_id >= id
      <4>1. i + 1 \in 1 .. Len(s.buffer)
        BY <2>1
      <4> QED
        BY <2>1, <4>1 DEF Since
    <3> QED
      BY <2>4, <3>1 DEF Since
  <2>6. e.previous_final_update_id >= id
    <3> HIDE DEF e
    <3>1. 1 \in 1 .. Len(s.buffer)
      BY <2>1
    <3> QED
      BY <2>1, <3>1 DEF Since
  <2> HIDE DEF popped, e
  <2> QED
    BY <2>1, <2>3, <2>4, <2>5, <2>6
<1>4. ASSUME NEW r, NEW goesOn, r \in Synchronizer, Since(r, id), DrainStep(s) = Settled(r, goesOn)
      PROVE  Since(DrainStep(s), id)
  <2> DEFINE n == NeedSnapshotOnGap(r)
  <2>1. Since(n, id) /\ n \in Synchronizer
    <3>1. Invalidate(r.book) \in Book /\ 0 \in Ids
      BY <1>4, BookOps, ExchangeAssumption DEF Synchronizer, Ids
    <3> QED
      BY <1>4, <3>1, ResyncSince
      DEF NeedSnapshotOnGap, BeginResync, Synchronizer, SyncState, SyncResult
  <2>2. DrainStep(s) = [n EXCEPT !.draining = n.result \in goesOn]
    BY <1>4 DEF Settled
  <2> HIDE DEF n
  <2>3. /\ DrainStep(s).buffer = n.buffer /\ DrainStep(s).state = n.state
        /\ DrainStep(s).snapshot_update_id = n.snapshot_update_id
    BY <2>1, <2>2 DEF Synchronizer
  <2> QED
    BY <2>1, <2>3 DEF Since
<1>5. CASE s.buffer # <<>> /\ ~s.first_event_applied
           /\ e.final_update_id < s.snapshot_update_id
  <2>1. DrainStep(s) = popped
    BY <1>5 DEF DrainStep
  <2> QED
    BY <1>3, <1>5, <2>1
<1>6. CASE s.buffer # <<>> /\ ~s.first_event_applied
           /\ ~(e.final_update_id < s.snapshot_update_id)
  <2>1. DrainStep(s) = Settled(first, {"Applied"})
    BY <1>6 DEF DrainStep, Settled
  <2> HIDE DEF popped, e
  <2>2. first \in Synchronizer /\ Since(first, id)
    <3>1. Outcome(popped, first)
      BY <1>1, <1>3, <1>6, FirstEventOp DEF SyncInv
    <3> QED
      BY <1>3, <1>6, <3>1, ApplySince DEF Outcome
  <2> HIDE DEF first
  <2> QED
    BY <1>4, <2>1, <2>2
<1>7. CASE s.buffer # <<>> /\ s.first_event_applied
  <2>1. DrainStep(s) = Settled(next, {"Applied", "Stale"})
    BY <1>7 DEF DrainStep, Settled
  <2> HIDE DEF popped, e
  <2>2. next \in Synchronizer /\ Since(next, id)
    <3>1. Outcome(popped, next)
      BY <1>3, <1>7, ContiguousEventOp
    <3>2. s.state = "Live"
      BY <1>1, <1>7 DEF SyncInv
    <3> QED
      BY <1>3, <1>7, <3>1, <3>2, ApplySince DEF Outcome
  <2> HIDE DEF next
  <2> QED
    BY <1>4, <2>1, <2>2
<1> QED
  BY <1>2, <1>5, <1>6, <1>7

\* on_snapshot as its caller sees it, whatever the snapshot.
LEMMA ReturnOp ==
    ASSUME NEW s, SyncInv(s), ~s.draining, NEW snap \in Ids
    PROVE  /\ SyncInv(ReturnFromSnapshot(s, Snapshot(snap)))
           /\ ~ReturnFromSnapshot(s, Snapshot(snap)).draining
           /\ \A id \in Ids : Since(s, id) => Since(ReturnFromSnapshot(s, Snapshot(snap)), id)
<1> DEFINE r == OnSnapshot(s, Snapshot(snap))
<1>1. SyncInv(r)
  BY OnSnapshotOp
<1>2. ASSUME NEW id \in Ids, Since(s, id) PROVE Since(r, id)
  <2>1. s \in Synchronizer
    BY DEF SyncInv
  <2>2. CASE s.state = "Disconnected"
    BY <1>2, <2>1, <2>2 DEF OnSnapshot, Since, Synchronizer
  <2>3. CASE s.state # "Disconnected"
    <3>1. r.buffer = s.buffer /\ r.state # "Live"
      BY <2>1, <2>3, OnSnapshotEffect
    <3> HIDE DEF r
    <3> QED
      BY <1>2, <3>1 DEF Since
  <2> QED
    BY <2>2, <2>3
<1> HIDE DEF r
<1>3. ASSUME NEW id \in Ids, Since(r, id)
      PROVE  Since(RunLoops(r), id)
  <2> DEFINE T == {v \in Synchronizer : SyncInv(v) /\ Since(v, id)}
  <2>1. r \in T
    BY <1>1, <1>3 DEF SyncInv
  <2>2. \A v \in T : SyncInv(v) /\ v.draining => DrainStep(v) \in T
    BY DrainStepOp, DrainStepSince DEF SyncInv
  <2>3. RunLoops(r) \in T
    <3> HIDE DEF T
    <3> QED
      BY <1>1, <2>1, <2>2, LoopsEnd
  <2> QED
    BY <2>3
<1>4. SyncInv(RunLoops(r)) /\ ~RunLoops(r).draining
  <2> DEFINE T == {v \in Synchronizer : SyncInv(v)}
  <2>1. r \in T /\ \A v \in T : SyncInv(v) /\ v.draining => DrainStep(v) \in T
    BY <1>1, DrainStepOp DEF SyncInv
  <2> HIDE DEF T
  <2> QED
    BY <1>1, <2>1, LoopsEnd
<1> QED
  BY <1>2, <1>3, <1>4 DEF ReturnFromSnapshot, r

\* The replayer follows the depth thread: it is closed while the thread is,
\* and what it knows of an open connection is of that connection.
Fresh ==
    /\ FinalId(position) >= opened_at
    /\ replay.depth_connected => Since(replay.sync, opened_at)
    /\ dpc \in {"down", "connecting", "on_open", "close_lock"} => ~replay.depth_connected
    /\ dpc \in {"open_lock", "open_request", "read", "parse_failed", "on_depth", "resync",
                "closing"} =>
          replay.depth_connected

\* The replayer's synchronizer is one that has returned from its last call.
ReplayTypes ==
    /\ replay \in [sync : Synchronizer, depth_connected : BOOLEAN]
    /\ SyncInv(replay.sync) /\ ~replay.sync.draining

\* Nothing is written once the process has ended: the last step is not repeated.
Finished == mpc = "done" => record = NoRecord /\ dpc = "ended" /\ tpc = "ended"

\* The inductive invariant of safety.
ReplayInv == CollInv /\ ReplayTypes /\ Fresh /\ Finished

\* What each record does to the replayer.
LEMMA Records ==
    ASSUME NEW r, NEW n
    PROVE  /\ OnRecord(r, [type |-> "ConnectionOpen"]) = OnOpenRecord(r)
           /\ OnRecord(r, [type |-> "ConnectionClose"]) = OnCloseRecord(r)
           /\ OnRecord(r, [type |-> "DepthSnapshot", id |-> n]) = OnSnapshotRecord(r, Snapshot(n))
           /\ OnRecord(r, DepthRecord(Malformed)) = OnMalformedRecord(r)
           /\ n # Malformed => OnRecord(r, DepthRecord(n)) = OnUpdateRecord(r, Feed[n])
           /\ NoRecord \notin {[type |-> "ConnectionOpen"], [type |-> "ConnectionClose"],
                               [type |-> "DepthSnapshot", id |-> n], DepthRecord(n)}
<1> DEFINE open == [type |-> "ConnectionOpen"]
           close == [type |-> "ConnectionClose"]
           snap == [type |-> "DepthSnapshot", id |-> n]
           update == DepthRecord(n)
           broken == DepthRecord(Malformed)
<1>1. /\ open.type = "ConnectionOpen" /\ close.type = "ConnectionClose"
      /\ snap.type = "DepthSnapshot" /\ snap.id = n
      /\ update.type = "DepthUpdate" /\ update.message = n
      /\ broken.type = "DepthUpdate" /\ broken.message = Malformed
      /\ NoRecord.type = "none"
  BY DEF DepthRecord, NoRecord
<1> HIDE DEF open, close, snap, update, broken
<1>2. /\ OnRecord(r, open) = OnOpenRecord(r)
      /\ OnRecord(r, close) = OnCloseRecord(r)
      /\ OnRecord(r, snap) = OnSnapshotRecord(r, Snapshot(n))
      /\ OnRecord(r, broken) = OnMalformedRecord(r)
      /\ n # Malformed => OnRecord(r, update) = OnUpdateRecord(r, Feed[n])
  BY <1>1 DEF OnRecord
<1>3. NoRecord \notin {open, close, snap, update}
  BY <1>1
<1> QED
  BY <1>2, <1>3 DEF open, close, snap, update, broken

\* A new replayer.
LEMMA ReplayInit == RInit => ReplayInv
<1> SUFFICES ASSUME RInit
             PROVE  ReplayInv
  OBVIOUS
<1>1. CollInv
  BY CollInit DEF RInit
<1>2. ds = NewSynchronizer /\ replay.sync = NewSynchronizer
      /\ replay = [sync |-> NewSynchronizer, depth_connected |-> FALSE]
  BY DEF RInit, CInit, Init, NewReplay
<1>3. SyncInv(replay.sync) /\ ~replay.sync.draining
  BY <1>1, <1>2 DEF CollInv, NewSynchronizer
<1>4. ReplayTypes
  BY <1>2, <1>3 DEF ReplayTypes, SyncInv
<1>5. Fresh
  <2>1. FinalId(0) \in Ids /\ FinalId(0) >= 0
    BY FeedIds, CollectorAssumption, ExchangeAssumption DEF Ids
  <2> QED
    BY <1>2, <2>1 DEF Fresh, RInit, CInit
<1>6. Finished
  BY DEF Finished, RInit, CInit
<1> QED
  BY <1>1, <1>4, <1>5, <1>6 DEF ReplayInv

\* A message read next, or after a lost one, was sent after the connection was
\* opened.
LEMMA FeedAfter ==
    ASSUME NEW n \in 0 .. Len(Feed), NEW m \in {n + 1, n + 2}, m <= Len(Feed)
    PROVE  /\ m \in 1 .. Len(Feed) /\ m # Malformed /\ Feed[m] \in DepthEvents
           /\ FinalId(n) <= FinalId(m)
           /\ Feed[m].previous_final_update_id >= FinalId(n)
<1>1. Len(Feed) \in Nat /\ Feed \in Seq(DepthEvents) /\ m \in 1 .. Len(Feed)
  BY CollectorAssumption
<1>2. \A k \in 0 .. Len(Feed) : FinalId(k) \in Int
  BY FeedIds, ExchangeAssumption DEF Ids
<1>3. Feed[m] \in DepthEvents
  BY <1>1
<1>4. Feed[m].previous_final_update_id = FinalId(m - 1)
  <2>1. CASE m = 1
    BY <1>1, <2>1 DEF FinalId
  <2>2. CASE m # 1
    <3>1. m \in 2 .. Len(Feed) /\ m - 1 # 0
      BY <1>1, <2>2
    <3> QED
      BY <3>1, CollectorAssumption DEF FinalId
  <2> QED
    BY <2>1, <2>2
<1>5. \A k \in 0 .. Len(Feed) : k < Len(Feed) => FinalId(k) < FinalId(k + 1)
  BY FeedIds
<1>6. FinalId(n) <= FinalId(m) /\ FinalId(m - 1) >= FinalId(n)
  <2>1. CASE m = n + 1
    <3>1. n \in 0 .. Len(Feed) /\ n < Len(Feed) /\ m - 1 = n /\ m \in 0 .. Len(Feed)
      BY <1>1, <2>1
    <3>2. FinalId(n) \in Int /\ FinalId(m) \in Int /\ FinalId(n) < FinalId(m)
      BY <1>2, <1>5, <2>1, <3>1
    <3> QED
      BY <3>1, <3>2
  <2>2. CASE m = n + 2
    <3> DEFINE k == n + 1
    <3>1. /\ n < Len(Feed) /\ k \in 0 .. Len(Feed) /\ k < Len(Feed) /\ m - 1 = k /\ m = k + 1
          /\ m \in 0 .. Len(Feed)
      BY <1>1, <2>2
    <3> HIDE DEF k
    <3>2. FinalId(n) < FinalId(k) /\ FinalId(k) < FinalId(m)
      BY <1>5, <3>1 DEF k
    <3>3. FinalId(n) \in Int /\ FinalId(k) \in Int /\ FinalId(m) \in Int
      BY <1>2, <3>1
    <3> QED
      BY <3>1, <3>2, <3>3
  <2> QED
    BY <2>1, <2>2
<1> QED
  BY <1>1, <1>3, <1>4, <1>6 DEF Malformed

\* Every record keeps the replayer's types, and what it knows of a connection,
\* provided a depth message is of that connection.
LEMMA RecordKeeps ==
    ASSUME NEW r \in [sync : Synchronizer, depth_connected : BOOLEAN],
           SyncInv(r.sync), ~r.sync.draining, NEW id \in Ids,
           r.depth_connected => Since(r.sync, id),
           NEW q,
           \/ q = r
           \/ q = OnOpenRecord(r) \/ q = OnCloseRecord(r) \/ q = OnMalformedRecord(r)
           \/ \E snap \in Ids : q = OnSnapshotRecord(r, Snapshot(snap))
           \/ \E e \in DepthEvents : /\ e.previous_final_update_id >= id
                                     /\ q = OnUpdateRecord(r, e)
    PROVE  /\ q \in [sync : Synchronizer, depth_connected : BOOLEAN]
           /\ SyncInv(q.sync) /\ ~q.sync.draining
           /\ q.depth_connected => Since(q.sync, id)
<1>1. ASSUME NEW s, SyncInv(s), ~s.draining, r.depth_connected => Since(s, id),
             q = [r EXCEPT !.sync = s]
      PROVE  /\ q \in [sync : Synchronizer, depth_connected : BOOLEAN]
             /\ SyncInv(q.sync) /\ ~q.sync.draining
             /\ q.depth_connected => Since(q.sync, id)
             /\ q.depth_connected = r.depth_connected
  <2>1. s \in Synchronizer
    BY <1>1 DEF SyncInv
  <2>2. q.sync = s /\ q.depth_connected = r.depth_connected
    BY <1>1
  <2>3. q \in [sync : Synchronizer, depth_connected : BOOLEAN]
    BY <1>1, <2>1
  <2> QED
    BY <1>1, <2>2, <2>3
<1>2. CASE q = r
  BY <1>2
<1>3. CASE q = OnOpenRecord(r)
  <2> DEFINE s == OnConnected(r.sync)
  <2>1. s.buffer = <<>> /\ s.state = "Buffering" /\ s.draining = r.sync.draining
    BY DEF OnConnected, Synchronizer
  <2>2. SyncInv(s) /\ s \in Synchronizer
    BY DroppingOps DEF SyncInv
  <2>3. q.sync = s /\ q.depth_connected /\ q = [sync |-> s, depth_connected |-> TRUE]
    BY <1>3 DEF OnOpenRecord
  <2> HIDE DEF s
  <2>4. Since(s, id)
    BY <2>1 DEF Since
  <2> QED
    BY <2>1, <2>2, <2>3, <2>4
<1>4. CASE q = OnCloseRecord(r)
  BY <1>4 DEF OnCloseRecord
<1>5. CASE q = OnMalformedRecord(r)
  <2>1. CASE ~r.depth_connected
    BY <1>2, <1>5, <2>1 DEF OnMalformedRecord
  <2>2. CASE r.depth_connected
    <3> DEFINE s == BeginResync(r.sync)
    <3>1. SyncInv(s) /\ Since(s, id)
      BY <2>2, ResyncOp, ResyncSince DEF SyncInv
    <3>2. ~s.draining
      BY DEF BeginResync, Synchronizer
    <3>3. q = [r EXCEPT !.sync = s]
      BY <1>5, <2>2 DEF OnMalformedRecord
    <3> HIDE DEF s
    <3> QED
      BY <1>1, <3>1, <3>2, <3>3
  <2> QED
    BY <2>1, <2>2
<1>6. ASSUME NEW snap \in Ids, q = OnSnapshotRecord(r, Snapshot(snap))
      PROVE  /\ q \in [sync : Synchronizer, depth_connected : BOOLEAN]
             /\ SyncInv(q.sync) /\ ~q.sync.draining
             /\ q.depth_connected => Since(q.sync, id)
  <2> DEFINE s == ReturnFromSnapshot(r.sync, Snapshot(snap))
  <2>1. SyncInv(s) /\ ~s.draining /\ (Since(r.sync, id) => Since(s, id))
    BY ReturnOp
  <2>2. q = [r EXCEPT !.sync = s]
    BY <1>6 DEF OnSnapshotRecord
  <2> HIDE DEF s
  <2> QED
    BY <1>1, <2>1, <2>2
<1>7. ASSUME NEW e \in DepthEvents, e.previous_final_update_id >= id, q = OnUpdateRecord(r, e)
      PROVE  /\ q \in [sync : Synchronizer, depth_connected : BOOLEAN]
             /\ SyncInv(q.sync) /\ ~q.sync.draining
             /\ q.depth_connected => Since(q.sync, id)
  <2>1. CASE ~r.depth_connected
    BY <1>2, <1>7, <2>1 DEF OnUpdateRecord
  <2>2. CASE r.depth_connected
    <3> DEFINE s == OnDepth(r.sync, e)
    <3>1. SyncInv(s) /\ Since(s, id)
      BY <1>7, <2>2, OnDepthOp, OnDepthSince
    <3>2. ~s.draining
      BY OnDepthEffect
    <3>3. q = [r EXCEPT !.sync = s]
      BY <1>7, <2>2 DEF OnUpdateRecord
    <3> HIDE DEF s
    <3> QED
      BY <1>1, <3>1, <3>2, <3>3
  <2> QED
    BY <2>1, <2>2
<1> QED
  BY <1>2, <1>3, <1>4, <1>5, <1>6, <1>7

\* A step of the depth thread keeps it.
LEMMA DepthFresh ==
    ReplayInv /\ DepthThread /\ RNext => (ReplayTypes /\ Fresh)'
<1> SUFFICES ASSUME ReplayInv, DepthThread, RNext
             PROVE  (ReplayTypes /\ Fresh)'
  OBVIOUS
<1> USE DEF depth, main, venue, shared, Silent, DepthGoes
<1>1. /\ replay \in [sync : Synchronizer, depth_connected : BOOLEAN]
      /\ SyncInv(replay.sync) /\ ~replay.sync.draining
      /\ replay.depth_connected => Since(replay.sync, opened_at)
      /\ opened_at \in Ids /\ position \in 0 .. Len(Feed) /\ published \in 0 .. Len(Feed)
      /\ Len(Feed) \in Nat
      /\ replay' = IF record' = NoRecord THEN replay ELSE OnRecord(replay, record')
      /\ FinalId(position) >= opened_at /\ FinalId(position) \in Int /\ opened_at \in Int
      /\ FinalId(published) \in Ids
  BY FeedIds, CollectorAssumption, ExchangeAssumption
  DEF ReplayInv, ReplayTypes, Fresh, CollInv, CTypeOK, RNext, Ids
\* With the record the step has written.
<1>2. ASSUME NEW q,
             q = replay' ,
             \/ q = replay
             \/ q = OnOpenRecord(replay) \/ q = OnCloseRecord(replay)
             \/ q = OnMalformedRecord(replay)
             \/ \E e \in DepthEvents : /\ e.previous_final_update_id >= opened_at
                                       /\ q = OnUpdateRecord(replay, e)
      PROVE  /\ ReplayTypes'
             /\ replay.depth_connected' => Since(replay.sync', opened_at)
  <2>1. /\ q \in [sync : Synchronizer, depth_connected : BOOLEAN]
        /\ SyncInv(q.sync) /\ ~q.sync.draining
        /\ q.depth_connected => Since(q.sync, opened_at)
    BY <1>1, <1>2, RecordKeeps
  <2> QED
    BY <1>2, <2>1 DEF ReplayTypes
<1>3. CASE DepthConnected
  <2>1. replay' = replay /\ ~replay.depth_connected
    BY <1>1, <1>3 DEF DepthConnected, ReplayInv, Fresh
  <2>2. ReplayTypes'
    BY <1>2, <2>1
  <2>3. (FinalId(position) >= opened_at)'
    <3>1. FinalId(published) >= FinalId(published)
      BY <1>1, ExchangeAssumption DEF Ids
    <3>2. position' = published /\ opened_at' = FinalId(published)
      BY <1>3 DEF DepthConnected
    <3> QED
      BY <3>1, <3>2 DEF FinalId
  <2> QED
    BY <1>3, <2>1, <2>2, <2>3 DEF DepthConnected, Fresh
<1>4. ASSUME position' = position, opened_at' = opened_at
      PROVE  (FinalId(position) >= opened_at)'
  BY <1>1, <1>4 DEF FinalId
<1>5. CASE DepthOpenWrite
  <2>1. /\ record' \in {NoRecord, [type |-> "ConnectionOpen"]}
        /\ dpc' = "open_lock" => record' = [type |-> "ConnectionOpen"]
        /\ dpc' \in {"open_lock", "on_disconnect"}
        /\ position' = position /\ opened_at' = opened_at
    BY <1>5 DEF DepthOpenWrite, Written, WriteThrows
  <2>2. CASE record' = NoRecord
    <3>1. replay' = replay /\ dpc' = "on_disconnect"
      BY <1>1, <2>1, <2>2, Records
    <3> QED
      BY <1>2, <1>4, <2>1, <3>1 DEF Fresh
  <2>3. CASE record' = [type |-> "ConnectionOpen"]
    <3>1. replay' = OnOpenRecord(replay)
      BY <1>1, <2>3, Records
    <3>2. replay.depth_connected'
      BY <3>1 DEF OnOpenRecord
    <3> QED
      BY <1>2, <1>4, <2>1, <3>1, <3>2 DEF Fresh
  <2> QED
    BY <2>1, <2>2, <2>3
<1>6. CASE DepthCloseWrite
  <2>1. /\ record' \in {NoRecord, [type |-> "ConnectionClose"]}
        /\ dpc' = "close_lock" => record' = [type |-> "ConnectionClose"]
        /\ dpc' \in {"close_lock", "ended"}
        /\ position' = position /\ opened_at' = opened_at
    BY <1>6 DEF DepthCloseWrite, Written, WriteThrows
  <2>2. CASE record' = NoRecord
    <3>1. replay' = replay /\ dpc' = "ended"
      BY <1>1, <2>1, <2>2, Records
    <3> QED
      BY <1>2, <1>4, <2>1, <3>1 DEF Fresh
  <2>3. CASE record' = [type |-> "ConnectionClose"]
    <3>1. replay' = OnCloseRecord(replay)
      BY <1>1, <2>3, Records
    <3>2. ~replay.depth_connected'
      BY <1>1, <3>1 DEF OnCloseRecord
    <3> QED
      BY <1>2, <1>4, <2>1, <3>1, <3>2 DEF Fresh
  <2> QED
    BY <2>1, <2>2, <2>3
<1>7. ASSUME NEW n \in {position + 1, position + 2}, n <= published, dpc = "read",
             position' = n, opened_at' = opened_at, dpc' \in {"on_depth", "on_disconnect"},
             record' \in {NoRecord, DepthRecord(n)}
      PROVE  (ReplayTypes /\ Fresh)'
  <2>1. /\ n # Malformed /\ Feed[n] \in DepthEvents /\ n \in 0 .. Len(Feed)
        /\ FinalId(position) <= FinalId(n)
        /\ Feed[n].previous_final_update_id >= FinalId(position)
    BY <1>1, <1>7, FeedAfter
  <2>2. /\ FinalId(n) \in Int /\ Feed[n].previous_final_update_id \in Int
    BY <2>1, FeedIds, GenuineEvent, ExchangeAssumption DEF Ids
  <2>3. FinalId(n) >= opened_at /\ Feed[n].previous_final_update_id >= opened_at
    BY <1>1, <2>1, <2>2
  <2>4. (FinalId(position) >= opened_at)'
    BY <1>7, <2>3 DEF FinalId
  <2>5. replay' = replay \/ replay' = OnUpdateRecord(replay, Feed[n])
    BY <1>1, <1>7, <2>1, Records
  <2>6. replay.depth_connected /\ replay.depth_connected'
    BY <1>1, <1>7, <2>5 DEF OnUpdateRecord, ReplayInv, Fresh
  <2>7. ReplayTypes' /\ (replay.depth_connected' => Since(replay.sync', opened_at))
    BY <1>2, <2>1, <2>3, <2>5
  <2> QED
    BY <1>7, <2>4, <2>6, <2>7 DEF Fresh
<1>8. CASE DepthReceive
  BY <1>7, <1>8 DEF DepthReceive, Reads, Written
<1>9. CASE DepthReceiveSkipping
  BY <1>7, <1>9 DEF DepthReceiveSkipping, Reads
<1>10. CASE DepthReceiveWriteThrows
  BY <1>7, <1>10 DEF DepthReceiveWriteThrows, Reads, WriteThrows
<1>11. CASE DepthReceiveMalformed
  <2>1. /\ position' = position + 1 /\ position + 1 <= published /\ opened_at' = opened_at
        /\ record' = DepthRecord(Malformed) /\ dpc = "read" /\ dpc' = "parse_failed"
    BY <1>11 DEF DepthReceiveMalformed, Reads
  <2>2. FinalId(position) <= FinalId(position + 1) /\ position + 1 \in 0 .. Len(Feed)
    BY <1>1, <2>1, FeedAfter
  <2>3. (FinalId(position) >= opened_at)'
    <3>1. FinalId(position + 1) \in Int
      BY <2>2, FeedIds, ExchangeAssumption DEF Ids
    <3> QED
      BY <1>1, <2>1, <2>2, <3>1 DEF FinalId
  <2>4. replay' = OnMalformedRecord(replay)
    BY <1>1, <2>1, Records
  <2>5. replay.depth_connected'
    BY <1>1, <2>1, <2>4 DEF OnMalformedRecord, ReplayInv, Fresh
  <2>6. ReplayTypes' /\ (replay.depth_connected' => Since(replay.sync', opened_at))
    BY <1>2, <2>4
  <2> QED
    BY <2>1, <2>3, <2>5, <2>6 DEF Fresh
<1>12. ASSUME record' = NoRecord, position' = position, opened_at' = opened_at,
              dpc' \in {"open_lock", "open_request", "read", "parse_failed", "on_depth", "resync",
                        "closing"}
                 => replay.depth_connected,
              dpc' \in {"down", "connecting", "on_open", "close_lock"} => ~replay.depth_connected
       PROVE  (ReplayTypes /\ Fresh)'
  <2>1. replay' = replay
    BY <1>1, <1>12
  <2>2. ReplayTypes' /\ (replay.depth_connected' => Since(replay.sync', opened_at))
    BY <1>2, <2>1
  <2> QED
    BY <1>4, <1>12, <2>1, <2>2 DEF Fresh
<1>13. CASE \/ DepthConnect \/ DepthConnectFails \/ DepthEnds
             \/ DepthLeavesRead \/ DepthClosed
  BY <1>12, <1>13
  DEF DepthConnect, DepthConnectFails, DepthEnds, DepthLeavesRead, DepthClosed, ReplayInv, Fresh
<1>14. CASE DepthOpenLock \/ DepthOpenRequest \/ DepthParseFailed \/ DepthApply \/ DepthResync
  BY <1>12, <1>14
  DEF DepthOpenLock, DepthOpenRequest, DepthParseFailed, DepthApply, DepthResync, LoopHead,
      ReplayInv, Fresh
<1>15. CASE DepthCloseLock
  BY <1>12, <1>15 DEF DepthCloseLock, ReplayInv, Fresh
<1> QED
  BY <1>3, <1>5, <1>6, <1>8, <1>9, <1>10, <1>11, <1>13, <1>14, <1>15 DEF DepthThread

\* The other threads only put snapshots into the log.
LEMMA OthersFresh ==
    ReplayInv /\ (Publish \/ MainThread \/ TradeThread \/ Signal \/ Exited) /\ RNext
        => (ReplayTypes /\ Fresh)'
<1> SUFFICES ASSUME ReplayInv, Publish \/ MainThread \/ TradeThread \/ Signal \/ Exited, RNext
             PROVE  (ReplayTypes /\ Fresh)'
  OBVIOUS
<1>1. /\ replay \in [sync : Synchronizer, depth_connected : BOOLEAN]
      /\ SyncInv(replay.sync) /\ ~replay.sync.draining
      /\ replay.depth_connected => Since(replay.sync, opened_at)
      /\ opened_at \in Ids /\ snapshot \in Ids
      /\ replay' = IF record' = NoRecord THEN replay ELSE OnRecord(replay, record')
  BY DEF ReplayInv, ReplayTypes, Fresh, CollInv, CTypeOK, RNext
<1>2. /\ position' = position /\ opened_at' = opened_at /\ dpc' = dpc
      /\ record' \in {NoRecord, [type |-> "DepthSnapshot", id |-> snapshot]}
  <2> USE DEF depth, main, venue, shared, Silent
  <2>1. CASE Publish \/ TradeThread \/ Signal
    BY <2>1 DEF Publish, TradeThread, Signal
  <2>2. CASE Exited
    BY <2>2 DEF Exited, cvars, ReplayInv, Finished
  <2>3. CASE MainStore
    BY <2>3 DEF MainStore, MainUnchanged, Written, WriteThrows
  <2>4. CASE MainThread /\ ~MainStore
    BY <2>4 DEF MainThread, MainUnchanged, MainPoll, MainTake, MainFetch, MainInstall,
                MainDrain, MainResync, MainStops, MainJoin
  <2> QED
    BY <2>1, <2>2, <2>3, <2>4
<1>3. replay' = replay \/ replay' = OnSnapshotRecord(replay, Snapshot(snapshot))
  BY <1>1, <1>2, Records
<1>4. replay.depth_connected' = replay.depth_connected
  BY <1>1, <1>3 DEF OnSnapshotRecord
<1>5. ASSUME NEW q, q = replay'
      PROVE  /\ q \in [sync : Synchronizer, depth_connected : BOOLEAN]
             /\ SyncInv(q.sync) /\ ~q.sync.draining
             /\ q.depth_connected => Since(q.sync, opened_at)
  BY <1>1, <1>3, <1>5, RecordKeeps
<1>6. ReplayTypes' /\ (replay.depth_connected' => Since(replay.sync', opened_at'))
  BY <1>2, <1>5 DEF ReplayTypes
<1>7. (FinalId(position) >= opened_at)'
  BY <1>2 DEF ReplayInv, Fresh, FinalId
<1> QED
  BY <1>2, <1>4, <1>6, <1>7 DEF Fresh, ReplayInv

\* No thread goes on after the process has ended.
LEMMA FinishedStep == ReplayInv /\ CNext => Finished'
<1> SUFFICES ASSUME ReplayInv, CNext
             PROVE  Finished'
  OBVIOUS
<1> USE DEF depth, main, venue, shared, Silent, Finished
<1>1. mpc = "done" => record = NoRecord /\ dpc = "ended" /\ tpc = "ended"
  BY DEF ReplayInv
<1>2. CASE Publish \/ TradeThread \/ Signal
  BY <1>1, <1>2 DEF Publish, TradeThread, Signal
<1>3. CASE Exited
  BY <1>1, <1>3 DEF Exited, cvars
<1>4. CASE MainThread
  <2>1. dpc' = dpc /\ tpc' = tpc
    BY <1>4 DEF MainThread, MainUnchanged, MainPoll, MainTake, MainFetch, MainStore, MainInstall,
                MainDrain, MainResync, MainStops, MainJoin
  <2>2. mpc' = "done" => MainJoin
    BY <1>4 DEF MainThread, MainGoes, MainPoll, MainTake, MainFetch, MainStore, MainInstall,
                MainDrain, MainResync, MainStops
  <2> QED
    BY <2>1, <2>2 DEF MainJoin
<1>5. CASE DepthThread
  <2>1. dpc # "ended" /\ mpc' = mpc
    BY <1>5 DEF DepthThread, DepthGoes, Reads, DepthConnect, DepthConnected, DepthConnectFails,
                DepthEnds, DepthOpenWrite, DepthClosed, DepthOpenLock, DepthOpenRequest, DepthReceive, DepthReceiveSkipping,
                DepthReceiveMalformed, DepthReceiveWriteThrows, DepthLeavesRead, DepthParseFailed,
                DepthApply, DepthResync, DepthCloseWrite, DepthCloseLock
  <2> QED
    BY <1>1, <2>1
<1> QED
  BY <1>2, <1>3, <1>4, <1>5 DEF CNext

\* The invariant is inductive.
LEMMA ReplayStep == ReplayInv /\ [RNext]_rvars => ReplayInv'
<1> SUFFICES ASSUME ReplayInv, [RNext]_rvars
             PROVE  ReplayInv'
  OBVIOUS
<1>1. CASE RNext
  <2>1. CNext
    BY <1>1 DEF RNext
  <2>2. CollInv'
    BY <2>1, CollStep DEF ReplayInv
  <2>3. (ReplayTypes /\ Fresh)'
    BY <1>1, <2>1, DepthFresh, OthersFresh DEF CNext
  <2> QED
    BY <2>1, <2>2, <2>3, FinishedStep DEF ReplayInv
<1>2. CASE UNCHANGED rvars
  <2>1. CollInv'
    BY <1>2, CollStep DEF ReplayInv, rvars
  <2> QED
    BY <1>2, <2>1
    DEF ReplayInv, ReplayTypes, Fresh, Finished, FinalId, rvars, cvars, depth, main, venue, shared
<1> QED
  BY <1>1, <1>2

\* The replayer's synchronizer is always one that has returned, and what it
\* knows of an open connection is of that connection.
THEOREM ReplayInvariant == RSpec => []ReplayInv
  BY ReplayInit, ReplayStep, PTL DEF RSpec

\* What replay calls live is the exchange's book, built from a snapshot of the
\* connection it shows, for every order of the records and every prefix of them.
THEOREM ReplayLiveIsExchange == RSpec => []ReplayLiveIsExchangeBook
<1>1. ReplayInv => ReplayLiveIsExchangeBook
  BY DEF ReplayInv, ReplayTypes, Fresh, Since, SyncInv, ReplayLiveIsExchangeBook, ReplayLive,
         ShowsBook, IsLive
<1> QED
  BY <1>1, ReplayInvariant, PTL

-------------------------------------------------------------------------------
(* Fidelity: the log in the order of the calls. *)

\* The states in which a message is buffered; a call does not tell them apart.
Buffered == {"Buffering", "SnapshotPending", "Resyncing", "GapDetected"}

\* No later call can tell r and s apart, except by the result of the last one.
Same(r, s) ==
    /\ r.book = s.book /\ r.buffer = s.buffer
    /\ r.first_event_applied = s.first_event_applied
    /\ r.snapshot_update_id = s.snapshot_update_id
    /\ r.draining = s.draining
    /\ r.state = s.state \/ (r.state \in Buffered /\ s.state \in Buffered)

\* The book has been dropped: what begin_resync would do is done.
Dropped(s) ==
    /\ s.state \in Buffered
    /\ ~s.book.valid /\ ~s.first_event_applied /\ s.snapshot_update_id = 0

LEMMA SameTransitive ==
    ASSUME NEW r, NEW s, NEW t, Same(r, s), Same(s, t)
    PROVE  Same(r, t)
  BY DEF Same

LEMMA SameReflexive == \A s : Same(s, s)
  BY DEF Same

LEMMA SameFields ==
    ASSUME NEW r \in Synchronizer, NEW s \in Synchronizer, Same(r, s),
           r.state = s.state, r.result = s.result
    PROVE  r = s
  BY DEF Same, Synchronizer

\* on_connected forgets everything.
LEMMA OnConnectedSame ==
    ASSUME NEW r \in Synchronizer, NEW s \in Synchronizer, r.draining = s.draining
    PROVE  Same(OnConnected(r), OnConnected(s))
  BY DEF Same, OnConnected, Synchronizer

\* An event is applied the same way, whatever the result of the last call.
LEMMA ApplySame ==
    ASSUME NEW r \in Synchronizer, NEW s \in Synchronizer, Same(r, s), s.state \in Aligned, NEW e
    PROVE  /\ ApplyFirstEvent(r, e) = ApplyFirstEvent(s, e)
           /\ ApplyContiguousEvent(r, e) = ApplyContiguousEvent(s, e)
           /\ OnDepth(r, e) = OnDepth(s, e)
<1>1. /\ r.book = s.book /\ r.buffer = s.buffer /\ r.state = s.state
      /\ r.first_event_applied = s.first_event_applied
      /\ r.snapshot_update_id = s.snapshot_update_id /\ r.draining = s.draining
  BY DEF Same, Aligned, Buffered
<1>2. r = [s EXCEPT !.result = r.result]
  BY <1>1 DEF Synchronizer
<1>3. [r EXCEPT !.result = "Stale"] = [s EXCEPT !.result = "Stale"]
  BY <1>1 DEF Synchronizer
<1>4. DetectGap(r, e) = DetectGap(s, e)
  BY <1>1 DEF DetectGap, Synchronizer
<1>5. ApplyEvent(r, e, TRUE) = ApplyEvent(s, e, TRUE)
  BY <1>1 DEF ApplyEvent, Synchronizer
<1>6. ApplyEvent(r, e, r.first_event_applied) = ApplyEvent(s, e, s.first_event_applied)
  BY <1>1 DEF ApplyEvent, Synchronizer
<1>7. ApplyFirstEvent(r, e) = ApplyFirstEvent(s, e)
  BY <1>1, <1>3, <1>4, <1>5 DEF ApplyFirstEvent
<1>8. ApplyContiguousEvent(r, e) = ApplyContiguousEvent(s, e)
  BY <1>1, <1>3, <1>4, <1>6 DEF ApplyContiguousEvent
<1>9. OnDepth(r, e) = OnDepth(s, e)
  BY <1>1, <1>7, <1>8 DEF OnDepth, Aligned
<1> QED
  BY <1>7, <1>8, <1>9

\* on_depth cannot tell them apart.
LEMMA OnDepthSame ==
    ASSUME NEW r \in Synchronizer, NEW s \in Synchronizer, Same(r, s), NEW e
    PROVE  Same(OnDepth(r, e), OnDepth(s, e))
<1>1. CASE s.state \in Aligned
  BY <1>1, ApplySame, SameReflexive
<1>2. CASE s.state \in {"Disconnected", "Invalid"}
  <2>1. r.state = s.state
    BY <1>2 DEF Same, Buffered
  <2> QED
    BY <1>2, <2>1 DEF Same, OnDepth, Synchronizer
<1>3. CASE s.state \in Buffered
  <2>1. r.state \in Buffered
    BY <1>3 DEF Same
  <2>2. OnDepth(r, e) = BufferEvent(r, e) /\ OnDepth(s, e) = BufferEvent(s, e)
    BY <1>3, <2>1 DEF OnDepth, Buffered
  <2>3. Same(BufferEvent(r, e), BufferEvent(s, e))
    BY <1>3, <2>1 DEF BufferEvent, Same, Synchronizer
  <2> QED
    BY <2>2, <2>3
<1> QED
  BY <1>1, <1>2, <1>3 DEF Synchronizer, SyncState, Aligned, Buffered

\* on_snapshot starts afresh from the buffer.
LEMMA OnSnapshotSame ==
    ASSUME NEW r \in Synchronizer, NEW s \in Synchronizer, Same(r, s),
           s.state # "Disconnected", NEW snap
    PROVE  OnSnapshot(r, snap) = OnSnapshot(s, snap)
<1>1. /\ r.book = s.book /\ r.buffer = s.buffer
      /\ r.first_event_applied = s.first_event_applied
      /\ r.snapshot_update_id = s.snapshot_update_id /\ r.draining = s.draining
      /\ r.state # "Disconnected"
  BY DEF Same, Buffered
<1> DEFINE loaded == LoadSnapshot(snap)
           after(t, state, result, draining) ==
             [state |-> state, result |-> result, buffer |-> t.buffer,
              first_event_applied |-> FALSE, snapshot_update_id |-> snap.last_update_id,
              book |-> loaded, draining |-> draining]
\* All that is left of the state before the call is its buffer.
<1>2. ASSUME NEW t \in Synchronizer, t.state # "Disconnected"
      PROVE  OnSnapshot(t, snap) =
               IF loaded.valid THEN after(t, "Syncing", "None", TRUE)
                               ELSE after(t, "Invalid", "InvalidBook", t.draining)
  <2>1. CASE loaded.valid
    <3>1. OnSnapshot(t, snap) =
            [[t EXCEPT !.book = loaded, !.first_event_applied = FALSE,
                       !.snapshot_update_id = snap.last_update_id]
               EXCEPT !.state = "Syncing", !.result = "None", !.draining = TRUE]
      BY <1>2, <2>1 DEF OnSnapshot
    <3> HIDE DEF loaded
    <3> QED
      BY <2>1, <3>1 DEF Synchronizer
  <2>2. CASE ~loaded.valid
    <3>1. OnSnapshot(t, snap) =
            [[t EXCEPT !.book = loaded, !.first_event_applied = FALSE,
                       !.snapshot_update_id = snap.last_update_id]
               EXCEPT !.state = "Invalid", !.result = "InvalidBook"]
      BY <1>2, <2>2 DEF OnSnapshot
    <3> HIDE DEF loaded
    <3> QED
      BY <2>2, <3>1 DEF Synchronizer
  <2> QED
    BY <2>1, <2>2
<1> HIDE DEF loaded
<1> QED
  BY <1>1, <1>2

\* request_snapshot only renames a buffering state.
LEMMA RequestSame ==
    ASSUME NEW s \in Synchronizer, s.state \in Buffered
    PROVE  Same(s, RequestSnapshot(s))
  BY DEF Same, RequestSnapshot, Buffered, Synchronizer

\* So does begin_resync, once the book has been dropped.
LEMMA ResyncSame ==
    ASSUME NEW s \in Synchronizer, Dropped(s)
    PROVE  Same(s, BeginResync(s))
<1>1. Invalidate(s.book) = s.book
  BY DEF Dropped, Invalidate, Synchronizer, Book
<1> QED
  BY <1>1 DEF Same, BeginResync, Dropped, Buffered, Synchronizer

\* A gap drops the book, whether or not it becomes a resync.
LEMMA GapDrops ==
    ASSUME NEW s \in Synchronizer, NEW e \in DepthEvents,
           NEW r \in {ApplyFirstEvent(s, e), ApplyContiguousEvent(s, e)},
           r.result = "GapDetected"
    PROVE  /\ Dropped(r) /\ Dropped(NeedSnapshotOnGap(r))
           /\ NeedSnapshotOnGap(r).result = "NeedSnapshot"
<1>1. [s EXCEPT !.result = "Stale"].result = "Stale"
  BY DEF Synchronizer
<1>2. \A aligned : ApplyEvent(s, e, aligned).result # "GapDetected"
  BY DEF ApplyEvent, Synchronizer
<1>3. r = DetectGap(s, e)
  BY <1>1, <1>2 DEF ApplyFirstEvent, ApplyContiguousEvent
<1>4. Dropped(r) /\ r.book \in Book /\ DOMAIN r = DOMAIN s
  BY <1>3, BookOps DEF DetectGap, Dropped, Buffered, Invalidate, Synchronizer, Book
<1>5. NeedSnapshotOnGap(r) = [BeginResync(r) EXCEPT !.result = "NeedSnapshot"]
  BY DEF NeedSnapshotOnGap
<1>6. Dropped(NeedSnapshotOnGap(r)) /\ NeedSnapshotOnGap(r).result = "NeedSnapshot"
  BY <1>4, <1>5 DEF BeginResync, Dropped, Buffered, Invalidate, Synchronizer, Book
<1> QED
  BY <1>4, <1>6

\* What becomes of an event that could not be applied.
LEMMA OutcomeDrops ==
    ASSUME NEW s, NEW e \in DepthEvents, s \in Synchronizer,
           NEW r \in {ApplyFirstEvent(s, e), ApplyContiguousEvent(s, e)}, Outcome(s, r)
    PROVE  /\ r.result \in NeedsResync => r.state = "Invalid" \/ Dropped(r)
           /\ LET n == NeedSnapshotOnGap(r)
              IN  n.result \in NeedsResync => n.state = "Invalid" \/ Dropped(n)
<1>1. CASE r.result = "GapDetected"
  BY <1>1, GapDrops
<1>2. CASE r.result # "GapDetected"
  <2>1. NeedSnapshotOnGap(r) = r
    BY <1>2 DEF NeedSnapshotOnGap
  <2>2. r.result \in NeedsResync => r.state = "Invalid"
    BY <1>2 DEF Outcome, NeedsResync
  <2> QED
    BY <2>1, <2>2
<1> QED
  BY <1>1, <1>2

\* When on_depth asks for a resync, the book has been dropped.
LEMMA OnDepthDrops ==
    ASSUME NEW s, SyncInv(s), ~s.draining, NEW e \in DepthEvents,
           OnDepth(s, e).result \in NeedsResync
    PROVE  OnDepth(s, e).state = "Invalid" \/ Dropped(OnDepth(s, e))
<1>1. s \in Synchronizer
  BY DEF SyncInv
<1>2. CASE s.state \in {"Disconnected", "Invalid"}
  BY <1>1, <1>2 DEF OnDepth, Synchronizer, NeedsResync
<1>3. CASE s.state \in Buffered
  <2>1. OnDepth(s, e) = BufferEvent(s, e)
    BY <1>3 DEF OnDepth, Buffered
  <2> QED
    BY <1>1, <2>1 DEF BufferEvent, Synchronizer, NeedsResync
<1>4. CASE s.state = "Syncing"
  <2>1. /\ OnDepth(s, e) = NeedSnapshotOnGap(ApplyFirstEvent(s, e))
        /\ Aligning(s) /\ s.book.last_update_id = s.snapshot_update_id
    BY <1>1, <1>4 DEF OnDepth, SyncInv, Aligning
  <2> QED
    BY <1>1, <2>1, FirstEventOp, OutcomeDrops
<1>5. CASE s.state = "Live"
  <2>1. OnDepth(s, e) = ApplyContiguousEvent(s, e) /\ Aligning(s) /\ s.first_event_applied
    BY <1>1, <1>5 DEF OnDepth, SyncInv, Aligning
  <2> QED
    BY <1>1, <2>1, ContiguousEventOp, OutcomeDrops
<1> QED
  BY <1>1, <1>2, <1>3, <1>4, <1>5 DEF Synchronizer, SyncState, Buffered

\* When the loops of on_snapshot end with a need of a resync, too.
LEMMA DrainStepDrops ==
    ASSUME NEW s, SyncInv(s), s.draining, ~DrainStep(s).draining,
           DrainStep(s).result \in {"NeedSnapshot", "InvalidBook"}
    PROVE  DrainStep(s).state = "Invalid" \/ Dropped(DrainStep(s))
<1> DEFINE e == Head(s.buffer)
           popped == [s EXCEPT !.buffer = Tail(@)]
           first == ApplyFirstEvent(popped, e)
           next == ApplyContiguousEvent(popped, e)
<1>1. s \in Synchronizer /\ s.state \in {"Syncing", "Live"} /\ s.buffer \in Seq(DepthEvents)
  BY DEF SyncInv, Synchronizer
<1>2. s.buffer # <<>>
  BY <1>1 DEF DrainStep, Synchronizer
<1>3. /\ e \in DepthEvents /\ Aligning(popped) /\ popped \in Synchronizer /\ popped.draining
      /\ popped.first_event_applied = s.first_event_applied
      /\ popped.snapshot_update_id = s.snapshot_update_id /\ popped.book = s.book
  <2>1. /\ e \in DepthEvents /\ Tail(s.buffer) \in Seq(DepthEvents)
        /\ Len(Tail(s.buffer)) <= MaxBufferedEvents
    BY <1>1, <1>2, BufferAssumption DEF SyncInv
  <2> QED
    BY <1>1, <2>1 DEF SyncInv, Aligning, Synchronizer
<1>4. ASSUME NEW r \in {first, next}, Outcome(popped, r), NEW goesOn, DrainStep(s) = Settled(r, goesOn)
      PROVE  DrainStep(s).state = "Invalid" \/ Dropped(DrainStep(s))
  <2> DEFINE n == NeedSnapshotOnGap(r)
  <2>1. n \in Synchronizer
    BY <1>4, OutcomeTypes
  <2>2. n.result \in NeedsResync => n.state = "Invalid" \/ Dropped(n)
    <3> HIDE DEF popped, e
    <3> QED
      BY <1>3, <1>4, OutcomeDrops
  <2>3. DrainStep(s) = [n EXCEPT !.draining = n.result \in goesOn]
    BY <1>4 DEF Settled
  <2> HIDE DEF n
  <2>4. /\ DrainStep(s).result = n.result /\ DrainStep(s).state = n.state
        /\ DrainStep(s).book = n.book /\ DrainStep(s).first_event_applied = n.first_event_applied
        /\ DrainStep(s).snapshot_update_id = n.snapshot_update_id
    BY <2>1, <2>3 DEF Synchronizer
  <2> QED
    BY <2>2, <2>4 DEF Dropped, NeedsResync
<1>5. CASE ~s.first_event_applied /\ e.final_update_id < s.snapshot_update_id
  <2>1. DrainStep(s) = popped
    BY <1>2, <1>5 DEF DrainStep
  <2> QED
    BY <1>3, <2>1
<1>6. CASE ~s.first_event_applied /\ ~(e.final_update_id < s.snapshot_update_id)
  <2>1. DrainStep(s) = Settled(first, {"Applied"})
    BY <1>2, <1>6 DEF DrainStep, Settled
  <2> HIDE DEF popped, e
  <2>2. Outcome(popped, first)
    BY <1>1, <1>3, <1>6, FirstEventOp DEF SyncInv
  <2> QED
    BY <1>4, <2>1, <2>2
<1>7. CASE s.first_event_applied
  <2>1. DrainStep(s) = Settled(next, {"Applied", "Stale"})
    BY <1>2, <1>7 DEF DrainStep, Settled
  <2> HIDE DEF popped, e
  <2>2. Outcome(popped, next)
    BY <1>3, <1>7, ContiguousEventOp
  <2> QED
    BY <1>4, <2>1, <2>2
<1> QED
  BY <1>5, <1>6, <1>7

\* on_snapshot as it will have returned, for a snapshot that is in the log.
MainDone ==
    CASE mpc = "install" -> ReturnFromSnapshot(ds, Snapshot(snapshot))
      [] mpc = "drain" -> RunLoops(ds)
      [] OTHER -> ds

\* The collector's synchronizer once all that is in the log is applied: main
\* first, since the log of an orderly run has its snapshot first.
InFlight ==
    CASE dpc = "on_depth" -> OnDepth(MainDone, Feed[message])
      [] dpc = "open_lock" -> OnConnected(ds)
      [] OTHER -> MainDone

\* As long as the connection is open, the replayer is that synchronizer.
Matches ==
    orderly /\ (ds.state # "Disconnected" \/ dpc = "open_lock") =>
        Same(replay.sync, InFlight)

\* Nobody wants a snapshot, and none is on its way.
Idle == ~requested /\ mpc \in {"poll", "join", "done"}

\* When everything in the log is used, there is one request per need: none is
\* under way when a connection opens, none is left when the book is aligned,
\* and a snapshot on its way is for the connection that is open.
Requests ==
    orderly =>
        /\ dpc \in {"connecting", "on_open", "open_lock", "open_request", "resync"} => Idle
        /\ dpc \in {"down", "closing", "on_disconnect", "close_lock"} =>
              stop \/ (Idle /\ session = NoSession)
        /\ dpc = "open_request" => ds.state = "Buffering"
        /\ dpc # "parse_failed"
        /\ ds.state \in Aligned => ~requested /\ mpc \in {"poll", "drain", "join", "done"}
        /\ mpc \in {"take", "fetch", "store", "install"} => ~requested
        /\ mpc \in {"fetch", "store", "install"} /\ ds.state # "Disconnected" =>
              session_at_request = session

\* A thread that is about to resync has nothing left to drop.
Resyncs == dpc = "resync" \/ mpc = "resync" => ds.state = "Invalid" \/ Dropped(ds)

\* What is known of an orderly run, and the types of the counters.
Orderly ==
    /\ faults \in Nat /\ orderly \in BOOLEAN
    /\ orderly => LogOrderIsCallOrder /\ InService

\* The inductive invariant of fidelity.
FidelityInv == ReplayInv /\ Orderly /\ Resyncs /\ Requests /\ Matches

LEMMA FidelityInit == RInit => FidelityInv
<1> SUFFICES ASSUME RInit
             PROVE  FidelityInv
  OBVIOUS
<1>1. ReplayInv
  BY ReplayInit
<1>2. /\ dpc = "down" /\ mpc = "poll" /\ ~requested /\ session = NoSession /\ faults = 0
      /\ ds.state = "Disconnected" /\ replay.sync.state = "Disconnected" /\ orderly = TRUE
  BY DEF RInit, CInit, Init, NewSynchronizer, NewReplay
<1> QED
  BY <1>1, <1>2
  DEF FidelityInv, Orderly, Resyncs, Requests, Matches, Idle, Aligned, LogOrderIsCallOrder, InService

\* A step after which the run is still orderly.
LEMMA StaysOrderly ==
    ASSUME Orderly, RNext, orderly'
    PROVE  /\ orderly /\ Harmless /\ LogOrderIsCallOrder' /\ InService'
           /\ LogOrderIsCallOrder /\ InService
  BY DEF Orderly, RNext

LEMMA OrderlyStep == Orderly /\ RNext => Orderly'
<1> SUFFICES ASSUME Orderly, RNext
             PROVE  Orderly'
  OBVIOUS
<1>1. orderly' \in BOOLEAN /\ (orderly' => LogOrderIsCallOrder' /\ InService')
  BY DEF RNext, Orderly
<1>2. faults' = faults \/ faults' = faults + 1
  <2> USE DEF NoFault, Goes, Written, WriteThrows
  <2>1. CASE Publish \/ TradeThread \/ Signal
    BY <2>1 DEF Publish, TradeThread, Signal
  <2>2. CASE Exited
    BY <2>2 DEF Exited, cvars
  <2>3. CASE MainThread
    BY <2>3 DEF MainThread, MainPoll, MainTake, MainFetch, MainStore, MainInstall,
                MainDrain, MainResync, MainStops, MainJoin
  <2>4. CASE DepthThread
    BY <2>4 DEF DepthThread, DepthConnect, DepthConnected, DepthConnectFails, DepthEnds,
                DepthOpenWrite, DepthClosed, DepthOpenLock, DepthOpenRequest, DepthReceive, DepthReceiveSkipping,
                DepthReceiveMalformed, DepthReceiveWriteThrows, DepthLeavesRead, DepthParseFailed,
                DepthApply, DepthResync, DepthCloseWrite, DepthCloseLock
  <2> QED
    BY <2>1, <2>2, <2>3, <2>4 DEF RNext, CNext
<1> QED
  BY <1>1, <1>2 DEF Orderly

\* Between the call that asks for a resync and the resync the mutex is held.
LEMMA ResyncsStep == CollInv /\ Resyncs /\ CNext => Resyncs'
<1> SUFFICES ASSUME CollInv, Resyncs, CNext
             PROVE  Resyncs'
  OBVIOUS
<1> USE DEF depth, main, venue, shared
<1>1. /\ SyncInv(ds) /\ ds \in Synchronizer
      /\ mutex = "free" => dpc # "resync" /\ mpc \notin {"drain", "resync"} /\ ~ds.draining
      /\ dpc = "resync" => mpc \notin {"drain", "resync"}
      /\ message \in 0 .. Len(Feed) /\ (dpc = "on_depth" => message # 0)
      /\ ds.draining <=> mpc = "drain"
      /\ snapshot \in Ids
  BY DEF CollInv, SyncInv, CTypeOK, Control, Malformed
<1>2. ASSUME ds' = ds, dpc' = dpc \/ dpc' # "resync", mpc' = mpc \/ mpc' # "resync"
      PROVE  Resyncs'
  BY <1>2 DEF Resyncs, Dropped
<1>3. CASE Publish \/ TradeThread \/ Signal \/ Exited
  BY <1>2, <1>3 DEF Publish, TradeThread, Signal, Exited, cvars
<1>4. CASE DepthApply
  <2>1. Feed[message] \in DepthEvents
    BY <1>1, <1>4, CollectorAssumption DEF DepthApply
  <2>2. ds' = OnDepth(ds, Feed[message]) /\ mpc' = mpc /\ mpc # "resync"
        /\ (dpc' = "resync" => ds'.result \in NeedsResync)
    BY <1>1, <1>4 DEF DepthApply, LoopHead
  <2>3. dpc' = "resync" => ds'.state = "Invalid" \/ Dropped(ds')
    BY <1>1, <1>4, <2>1, <2>2, OnDepthDrops DEF DepthApply
  <2> QED
    BY <2>2, <2>3 DEF Resyncs, Dropped
<1>5. CASE DepthOpenLock \/ DepthParseFailed \/ DepthCloseLock \/ DepthResync
  <2>1. dpc' # "resync" /\ mpc' # "resync"
    BY <1>1, <1>5
    DEF DepthOpenLock, DepthParseFailed, DepthCloseLock, DepthResync, DepthGoes, LoopHead
  <2> QED
    BY <2>1 DEF Resyncs
<1>6. CASE DepthThread /\ UNCHANGED ds /\ ~DepthApply
  BY <1>2, <1>6
  DEF DepthThread, DepthGoes, Reads, DepthConnect, DepthConnected, DepthConnectFails, DepthEnds,
      DepthOpenWrite, DepthOpenRequest, DepthClosed, LoopHead,
      DepthReceive, DepthReceiveSkipping, DepthReceiveMalformed, DepthReceiveWriteThrows,
      DepthLeavesRead, DepthOpenLock, DepthParseFailed, DepthResync, DepthCloseWrite, DepthCloseLock
<1>7. CASE MainTake \/ MainResync
  <2>1. dpc' # "resync" /\ mpc' # "resync"
    BY <1>1, <1>7 DEF MainTake, MainResync, MainGoes, MainUnchanged
  <2> QED
    BY <2>1 DEF Resyncs
<1>8. CASE MainInstall
  <2>1. dpc' = dpc /\ dpc # "resync"
    BY <1>1, <1>8 DEF MainInstall, MainUnchanged
  <2>2. mpc' = "resync" => ds' = OnSnapshot(ds, Snapshot(snapshot)) /\ ds'.result = "InvalidBook"
    BY <1>8 DEF MainInstall
  <2>3. mpc' = "resync" => ds'.state = "Invalid"
    BY <1>1, <1>8, <2>2, OnSnapshotEffect DEF MainInstall
  <2> QED
    BY <2>1, <2>3 DEF Resyncs
<1>9. CASE MainDrain
  <2>1. dpc' = dpc /\ dpc # "resync" /\ ds.draining /\ ds' = DrainStep(ds)
        /\ (mpc' = "resync" => ~ds'.draining /\ ds'.result \in {"NeedSnapshot", "InvalidBook"})
    BY <1>1, <1>9 DEF MainDrain, MainUnchanged
  <2>2. mpc' = "resync" => ds'.state = "Invalid" \/ Dropped(ds')
    BY <1>1, <2>1, DrainStepDrops
  <2> QED
    BY <2>1, <2>2 DEF Resyncs, Dropped
<1>10. CASE MainPoll \/ MainFetch \/ MainStore \/ MainStops \/ MainJoin
  BY <1>2, <1>10 DEF MainPoll, MainFetch, MainStore, MainStops, MainJoin, MainGoes, MainUnchanged
<1>11. DepthThread => UNCHANGED ds \/ DepthOpenLock \/ DepthParseFailed \/ DepthApply
                      \/ DepthResync \/ DepthCloseLock
  BY DEF DepthThread, DepthConnect, DepthConnected, DepthConnectFails, DepthEnds,
         DepthOpenWrite, DepthOpenRequest, DepthClosed, DepthReceive, DepthReceiveSkipping, DepthReceiveMalformed, DepthReceiveWriteThrows,
         DepthLeavesRead, Reads, DepthCloseWrite
<1> QED
  BY <1>3, <1>4, <1>5, <1>6, <1>7, <1>8, <1>9, <1>10, <1>11 DEF CNext, MainThread

\* The requests of an orderly run.
LEMMA RequestsStep == FidelityInv /\ RNext => Requests'
<1> SUFFICES ASSUME FidelityInv, RNext, orderly'
             PROVE  Requests'
  BY DEF Requests
<1> USE DEF depth, main, venue, shared, Silent, DepthGoes, MainGoes, MainUnchanged, Idle, Aligned
<1>1. /\ SyncInv(ds) /\ ds \in Synchronizer
      /\ mutex = "free" => dpc # "resync" /\ mpc \notin {"drain", "resync"} /\ ~ds.draining
      /\ ds.draining <=> mpc = "drain"
      /\ session \in {NoSession, connection}
      /\ dpc \in {"down", "connecting", "on_open", "open_lock"} => session = NoSession
      /\ dpc \in {"open_request", "read", "parse_failed", "on_depth", "resync", "closing"} =>
            session # NoSession
      /\ session # NoSession <=> ds.state # "Disconnected"
      /\ mpc \in {"drain", "resync"} => session # NoSession
      /\ snapshot \in Ids /\ ~ (dpc = "resync" /\ mpc \in {"drain", "resync"})
  BY DEF FidelityInv, ReplayInv, CollInv, SyncInv, CTypeOK, Control, Sessions
<1>2. /\ CNext /\ Harmless /\ faults \in Nat
      /\ LogOrderIsCallOrder /\ LogOrderIsCallOrder' /\ InService /\ InService'
  BY StaysOrderly DEF FidelityInv, RNext, Orderly
<1>3. /\ dpc \in {"connecting", "on_open", "open_lock", "open_request", "resync"} => Idle
      /\ dpc \in {"down", "closing", "on_disconnect", "close_lock"} =>
            stop \/ (Idle /\ session = NoSession)
      /\ dpc = "open_request" => ds.state = "Buffering"
      /\ dpc # "parse_failed"
      /\ ds.state \in Aligned => ~requested /\ mpc \in {"poll", "drain", "join", "done"}
      /\ mpc \in {"take", "fetch", "store", "install"} => ~requested
      /\ mpc \in {"fetch", "store", "install"} /\ ds.state # "Disconnected" =>
            session_at_request = session
  BY StaysOrderly DEF FidelityInv, Requests
<1>4. \A kind : Goes(kind) => faults' # faults
  BY <1>2 DEF Goes
<1> USE DEF Requests
<1>5. CASE Publish \/ TradeThread \/ Signal \/ Exited
  BY <1>3, <1>5 DEF Publish, TradeThread, Signal, Exited, cvars
<1>6. CASE DepthThread
  <2>1. CASE DepthConnect \/ DepthConnected \/ DepthConnectFails \/ DepthEnds
    <3>1. dpc \in {"down", "connecting"} /\ session = NoSession /\ ds.state = "Disconnected"
      BY <1>1, <2>1 DEF DepthConnect, DepthConnected, DepthConnectFails, DepthEnds
    <3> QED
      BY <1>3, <2>1, <3>1 DEF DepthConnect, DepthConnected, DepthConnectFails, DepthEnds
  <2>2. CASE DepthOpenWrite
    <3>1. dpc = "on_open" /\ dpc' \in {"open_lock", "on_disconnect"}
      BY <2>2 DEF DepthOpenWrite
    <3>2. dpc' = "on_disconnect" => session = NoSession
      BY <1>1, <3>1
    <3> QED
      BY <1>3, <2>2, <3>1, <3>2 DEF DepthOpenWrite
  <2>3. CASE DepthOpenLock
    <3>1. ds'.state = "Buffering"
      BY <1>1, <2>3 DEF DepthOpenLock, OnConnected, Synchronizer
    <3> QED
      BY <1>3, <2>3, <3>1 DEF DepthOpenLock
  <2>4. CASE DepthOpenRequest
    BY <1>1, <1>3, <2>4 DEF DepthOpenRequest, LoopHead
  <2>5. CASE DepthReceive \/ DepthReceiveSkipping
    BY <1>1, <1>3, <2>5 DEF DepthReceive, DepthReceiveSkipping, Reads
  <2>6. CASE DepthReceiveMalformed \/ DepthReceiveWriteThrows
    <3>1. faults' # faults
      BY <1>4, <2>6 DEF DepthReceiveMalformed, DepthReceiveWriteThrows, WriteThrows
    <3>2. dpc = "read" /\ position' = position + 1 /\ mpc' = mpc
      BY <2>6 DEF DepthReceiveMalformed, DepthReceiveWriteThrows, Reads
    <3>3. position \in Int
      BY CollectorAssumption DEF FidelityInv, ReplayInv, CollInv, CTypeOK
    <3> QED
      BY <1>2, <3>1, <3>2, <3>3 DEF Harmless
  <2>7. CASE DepthLeavesRead \/ DepthClosed
    <3>1. stop
      <4>1. CASE DepthLeavesRead /\ Goes("disconnect")
        <5>1. faults' # faults /\ dpc = "read" /\ position' = position /\ mpc' = mpc
          BY <1>4, <4>1 DEF DepthLeavesRead
        <5>2. position \in Int
          BY CollectorAssumption DEF FidelityInv, ReplayInv, CollInv, CTypeOK
        <5> QED
          BY <1>2, <5>1, <5>2 DEF Harmless
      <4>2. CASE DepthClosed
        BY <1>1, <1>3, <4>2 DEF DepthClosed
      <4> QED
        BY <2>7, <4>1, <4>2 DEF DepthLeavesRead
    <3> QED
      BY <1>1, <1>3, <2>7, <3>1 DEF DepthLeavesRead, DepthClosed
  <2>8. CASE DepthParseFailed
    BY <1>3, <2>8 DEF DepthParseFailed
  <2>9. CASE DepthApply
    <3> DEFINE e == Feed[message]
    <3>1. /\ ds' = OnDepth(ds, e) /\ mpc' = mpc /\ mutex = "free" /\ requested' = requested
          /\ session' = session /\ session_at_request' = session_at_request
          /\ dpc = "on_depth" /\ dpc' \in {"read", "closing", "resync"}
          /\ dpc' = "closing" => stop /\ stop' = stop
          /\ dpc' = "resync" => ds'.result \in NeedsResync
      BY <2>9 DEF DepthApply, LoopHead
    <3>2. /\ ds'.state = "Disconnected" <=> ds.state = "Disconnected"
          /\ ds'.state \in Aligned => ds.state \in Aligned
      BY <1>1, <3>1, OnDepthEffect
    <3>3. dpc' = "resync" => ds.state \in Aligned
      <4>1. e \in DepthEvents
        BY <2>9, CollectorAssumption DEF FidelityInv, ReplayInv, CollInv, CTypeOK, Control, Malformed, DepthApply
      <4>2. ds'.state # "Invalid" /\ ds.state # "Invalid" /\ ds.state # "Disconnected"
        BY <1>1, <1>2, <3>1 DEF InService
      <4>3. ASSUME ds.state \in Buffered
            PROVE  ds'.result \notin NeedsResync
        <5>1. ds' = BufferEvent(ds, e)
          BY <3>1, <4>3 DEF OnDepth, Buffered
        <5> QED
          BY <1>1, <4>2, <5>1 DEF BufferEvent, NeedsResync, Synchronizer
      <4> QED
        BY <1>1, <3>1, <4>2, <4>3 DEF Synchronizer, SyncState, Buffered
    <3> QED
      BY <1>1, <1>3, <3>1, <3>2, <3>3
  <2>10. CASE DepthResync
    <3>1. ds'.state = "Resyncing"
      BY <1>1, <2>10 DEF DepthResync, BeginResync, Synchronizer
    <3> QED
      BY <1>1, <1>3, <2>10, <3>1 DEF DepthResync, LoopHead
  <2>11. CASE DepthCloseWrite
    BY <1>1, <1>3, <2>11 DEF DepthCloseWrite
  <2>12. CASE DepthCloseLock
    <3>1. ds' = ds \/ ds'.state = "Disconnected"
      BY <1>1, <2>12 DEF DepthCloseLock, OnDisconnected, Synchronizer
    <3>2. session' = NoSession /\ (ds' = ds => ds.state = "Disconnected")
      BY <1>1, <2>12, <3>1 DEF DepthCloseLock, OnDisconnected, Synchronizer
    <3> QED
      BY <1>3, <2>12, <3>1, <3>2 DEF DepthCloseLock
  <2> QED
    BY <1>6, <2>1, <2>2, <2>3, <2>4, <2>5, <2>6, <2>7, <2>8, <2>9, <2>10, <2>11, <2>12
    DEF DepthThread
<1>7. CASE MainThread
  <2>1. CASE MainPoll
    BY <1>1, <1>3, <2>1 DEF MainPoll
  <2>2. CASE MainTake
    <3>1. ds' = ds \/ ds'.state \in {"SnapshotPending", "Disconnected"}
      BY <1>1, <2>2 DEF MainTake, RequestSnapshot, Synchronizer
    <3> QED
      BY <1>1, <1>3, <2>2, <3>1 DEF MainTake
  <2>3. CASE MainFetch
    BY <1>1, <1>3, <2>3 DEF MainFetch
  <2>4. CASE MainStore
    BY <1>1, <1>3, <2>4 DEF MainStore
  <2>5. CASE MainInstall
    <3>1. CASE session # session_at_request
      BY <1>1, <1>3, <2>5, <3>1 DEF MainInstall
    <3>2. CASE session = session_at_request
      <4>1. /\ ds' = OnSnapshot(ds, Snapshot(snapshot)) /\ mpc = "install" /\ ~ds.draining
            /\ session' = session /\ session_at_request' = session_at_request
            /\ requested' = requested /\ dpc' = dpc /\ stop' = stop
            /\ mpc' \in {"drain", "resync", "poll"} /\ (ds'.draining => mpc' = "drain")
        <5>1. /\ ds' = OnSnapshot(ds, Snapshot(snapshot)) /\ mpc = "install"
              /\ mpc' = CASE ds'.draining -> "drain"
                          [] ds'.result = "InvalidBook" -> "resync"
                          [] OTHER -> "poll"
          BY <2>5, <3>2 DEF MainInstall
        <5>2. mpc' \in {"drain", "resync", "poll"} /\ (ds'.result # "InvalidBook" /\ ds'.draining => mpc' = "drain")
          BY <5>1
        <5>3. ds'.draining => ds'.result # "InvalidBook"
          BY <1>1, <5>1, OnSnapshotEffect
        <5> QED
          BY <1>1, <2>5, <3>2, <5>1, <5>2, <5>3 DEF MainInstall
      <4>2. /\ ds'.state = "Disconnected" <=> ds.state = "Disconnected"
            /\ ds'.state \in Aligned => ds'.draining
        BY <1>1, <4>1, OnSnapshotEffect
      <4> QED
        BY <1>1, <1>3, <4>1, <4>2
    <3> QED
      BY <3>1, <3>2
  <2>6. CASE MainDrain
    <3>1. /\ ds' = DrainStep(ds) /\ mpc = "drain" /\ ds.draining
          /\ session' = session /\ session_at_request' = session_at_request
          /\ requested' = requested /\ dpc' = dpc /\ stop' = stop
          /\ mpc' \in {"drain", "resync", "poll"}
          /\ mpc' = "resync" => ~ds'.draining /\ ds'.result \in {"NeedSnapshot", "InvalidBook"}
      BY <1>1, <2>6 DEF MainDrain
    <3>2. ds.state \in Aligned
      BY <1>1, <3>1 DEF SyncInv
    <3>3. mpc' = "resync" => ds'.state \notin Aligned
      BY <1>1, <3>1, DrainStepDrops DEF Dropped, Buffered
    <3> QED
      BY <1>1, <1>3, <3>1, <3>2, <3>3
  <2>7. CASE MainResync
    <3>1. ds'.state = "Resyncing"
      BY <1>1, <2>7 DEF MainResync, BeginResync, Synchronizer
    <3> QED
      BY <1>1, <1>3, <2>7, <3>1 DEF MainResync
  <2>8. CASE MainStops \/ MainJoin
    BY <1>1, <1>3, <2>8 DEF MainStops, MainJoin
  <2> QED
    BY <1>7, <2>1, <2>2, <2>3, <2>4, <2>5, <2>6, <2>7, <2>8 DEF MainThread
<1> QED
  BY <1>2, <1>5, <1>6, <1>7 DEF CNext

\* on_snapshot, once returned, is a synchronizer like any other.
LEMMA MainDoneOp ==
    CollInv => MainDone \in Synchronizer /\ SyncInv(MainDone) /\ ~MainDone.draining
<1> SUFFICES ASSUME CollInv
             PROVE  MainDone \in Synchronizer /\ SyncInv(MainDone) /\ ~MainDone.draining
  OBVIOUS
<1>1. /\ SyncInv(ds) /\ snapshot \in Ids
      /\ ds.draining <=> mpc = "drain"
  BY DEF CollInv, CTypeOK, Control
<1>2. SyncInv(MainDone) /\ ~MainDone.draining
  <2>1. CASE mpc = "install"
    BY <1>1, <2>1, ReturnOp DEF MainDone
  <2>2. CASE mpc = "drain"
    <3> DEFINE T == {v \in Synchronizer : SyncInv(v)}
    <3>1. ds \in T /\ \A v \in T : SyncInv(v) /\ v.draining => DrainStep(v) \in T
      BY <1>1, DrainStepOp DEF SyncInv
    <3> HIDE DEF T
    <3>2. SyncInv(RunLoops(ds)) /\ ~RunLoops(ds).draining
      BY <1>1, <3>1, LoopsEnd
    <3> QED
      BY <2>2, <3>2 DEF MainDone
  <2>3. CASE mpc \notin {"install", "drain"}
    BY <1>1, <2>3 DEF MainDone
  <2> QED
    BY <2>1, <2>2, <2>3
<1> QED
  BY <1>2 DEF SyncInv

LEMMA MainDoneNext == (CollInv => MainDone \in Synchronizer)'
<1>1. CollInv => MainDone \in Synchronizer
  BY MainDoneOp
<1> QED
  BY <1>1, PTL

\* A message is applied the same way to what main has done and to what main
\* will have done.
LEMMA InFlightSame ==
    ASSUME CollInv, CollInv', Same(MainDone, MainDone'), dpc # "open_lock",
           dpc' = dpc, message' = message
    PROVE  Same(InFlight, InFlight')
<1>1. MainDone \in Synchronizer /\ MainDone' \in Synchronizer
  <2>1. MainDone \in Synchronizer
    BY MainDoneOp
  <2>2. (MainDone \in Synchronizer)'
    BY MainDoneNext
  <2> QED
    BY <2>1, <2>2
<1>2. CASE dpc = "on_depth"
  <2> DEFINE a == MainDone
             b == MainDone'
  <2>1. Same(OnDepth(a, Feed[message]), OnDepth(b, Feed[message]))
    <3> HIDE DEF a, b
    <3> QED
      BY <1>1, OnDepthSame DEF a, b
  <2>2. InFlight = OnDepth(a, Feed[message]) /\ InFlight' = OnDepth(b, Feed[message])
    <3> HIDE DEF MainDone
    <3> QED
      BY <1>2 DEF InFlight
  <2> QED
    BY <2>1, <2>2
<1>3. CASE dpc # "on_depth"
  <2> HIDE DEF MainDone
  <2>1. InFlight = MainDone /\ InFlight' = MainDone'
    BY <1>3 DEF InFlight
  <2> QED
    BY <2>1
<1> QED
  BY <1>2, <1>3

\* The replayer keeps up with what is in flight.
LEMMA MatchesStep == FidelityInv /\ RNext => Matches'
<1> SUFFICES ASSUME FidelityInv, RNext, orderly', (ds.state # "Disconnected" \/ dpc = "open_lock")'
             PROVE  Same(replay.sync, InFlight)'
  BY DEF Matches
<1> USE DEF depth, main, venue, shared, Silent, DepthGoes, MainGoes, MainUnchanged
<1>1. /\ SyncInv(ds) /\ ds \in Synchronizer
      /\ mutex = "free" => dpc # "resync" /\ mpc \notin {"drain", "resync"} /\ ~ds.draining
      /\ ds.draining <=> mpc = "drain"
      /\ session \in {NoSession, connection}
      /\ dpc \in {"down", "connecting", "on_open", "open_lock"} => session = NoSession
      /\ dpc \in {"open_request", "read", "parse_failed", "on_depth", "resync", "closing"} =>
            session # NoSession
      /\ session # NoSession <=> ds.state # "Disconnected"
      /\ mpc \in {"drain", "resync"} => session # NoSession
      /\ snapshot \in Ids /\ ~ (dpc = "resync" /\ mpc \in {"drain", "resync"})
      /\ position \in 0 .. Len(Feed) /\ published \in 0 .. Len(Feed) /\ Len(Feed) \in Nat
      /\ message \in 0 .. Len(Feed)
  BY CollectorAssumption
  DEF FidelityInv, ReplayInv, CollInv, SyncInv, CTypeOK, Control, Sessions
<1>2. /\ CNext /\ Harmless /\ faults \in Nat /\ orderly
      /\ LogOrderIsCallOrder /\ LogOrderIsCallOrder' /\ InService /\ InService'
      /\ CollInv /\ CollInv'
  BY StaysOrderly, CollStep DEF FidelityInv, ReplayInv, RNext, Orderly
<1>3. /\ dpc \in {"connecting", "on_open", "open_lock", "open_request", "resync"} => Idle
      /\ dpc # "parse_failed"
      /\ ds.state \in Aligned => ~requested /\ mpc \in {"poll", "drain", "join", "done"}
      /\ mpc \in {"fetch", "store", "install"} /\ ds.state # "Disconnected" =>
            session_at_request = session
  BY StaysOrderly DEF FidelityInv, Requests
<1>4. \A kind : Goes(kind) => faults' # faults
  BY <1>2 DEF Goes
<1>5. /\ replay \in [sync : Synchronizer, depth_connected : BOOLEAN]
      /\ SyncInv(replay.sync) /\ ~replay.sync.draining
      /\ dpc \in {"open_lock", "open_request", "read", "on_depth", "resync", "closing"} =>
            replay.depth_connected
      /\ replay' = IF record' = NoRecord THEN replay ELSE OnRecord(replay, record')
  BY DEF FidelityInv, ReplayInv, ReplayTypes, Fresh, RNext
<1>6. ds.state # "Disconnected" \/ dpc = "open_lock" => Same(replay.sync, InFlight)
  BY <1>2 DEF FidelityInv, Matches
\* A step that writes nothing and leaves what is in flight as it is.
<1>7. ASSUME record' = NoRecord, ds.state # "Disconnected" \/ dpc = "open_lock",
             Same(InFlight, InFlight')
      PROVE  Same(replay.sync, InFlight)'
  <2>1. replay' = replay
    BY <1>5, <1>7
  <2> HIDE DEF InFlight
  <2>2. Same(replay.sync, InFlight')
    BY <1>6, <1>7, SameTransitive
  <2> QED
    BY <2>1, <2>2
<1>8. ASSUME ds' = ds, mpc' = mpc \/ {mpc, mpc'} \cap {"install", "drain"} = {},
             snapshot' = snapshot \/ mpc' # "install"
      PROVE  MainDone' = MainDone
  BY <1>8 DEF MainDone
<1>9. CASE Publish \/ TradeThread \/ Signal \/ Exited
  <2>1. UNCHANGED <<ds, mpc, dpc, snapshot, message>> /\ record' = NoRecord
    BY <1>9 DEF Publish, TradeThread, Signal, Exited, cvars, FidelityInv, ReplayInv, Finished
  <2>2. InFlight' = InFlight
    BY <1>8, <2>1 DEF InFlight
  <2> QED
    BY <1>7, <2>1, <2>2, SameReflexive
<1>10. CASE DepthThread
  <2>1. CASE DepthConnect \/ DepthConnected \/ DepthConnectFails \/ DepthEnds
    <3>1. ds' = ds /\ dpc \in {"down", "connecting"} /\ dpc' # "open_lock"
      BY <2>1 DEF DepthConnect, DepthConnected, DepthConnectFails, DepthEnds
    <3> QED
      BY <1>1, <3>1
  <2>2. CASE DepthOpenWrite
    <3>1. ds' = ds /\ dpc = "on_open" /\ dpc' = "open_lock"
          /\ record' = [type |-> "ConnectionOpen"]
      BY <1>1, <2>2 DEF DepthOpenWrite, Written
    <3>2. replay' = OnOpenRecord(replay)
      BY <1>5, <3>1, Records
    <3>3. replay'.sync = OnConnected(replay.sync)
      BY <3>2 DEF OnOpenRecord
    <3>4. InFlight' = OnConnected(ds)
      BY <3>1 DEF InFlight
    <3>5. ~ds.draining
      BY <1>1, <3>1
    <3>6. Same(OnConnected(replay.sync), OnConnected(ds))
      BY <1>1, <1>5, <3>5, OnConnectedSame DEF Synchronizer
    <3> QED
      BY <3>3, <3>4, <3>6
  <2>3. CASE DepthOpenLock
    <3>1. /\ ds' = OnConnected(ds) /\ dpc = "open_lock" /\ dpc' = "open_request" /\ mpc' = mpc
          /\ record' = NoRecord /\ mpc \in {"poll", "join", "done"}
      BY <1>3, <2>3 DEF DepthOpenLock, Idle
    <3>2. InFlight = OnConnected(ds) /\ InFlight' = ds'
      BY <3>1 DEF InFlight, MainDone
    <3> QED
      BY <1>7, <3>1, <3>2, SameReflexive
  <2>4. CASE DepthOpenRequest \/ DepthLeavesRead \/ DepthClosed
    <3>1. /\ UNCHANGED <<ds, mpc, snapshot>> /\ record' = NoRecord
          /\ dpc \notin {"on_depth", "open_lock"} /\ dpc' \notin {"on_depth", "open_lock"}
      BY <2>4 DEF DepthOpenRequest, DepthLeavesRead, DepthClosed, LoopHead
    <3>2. InFlight' = InFlight
      BY <1>8, <3>1 DEF InFlight
    <3> QED
      BY <1>7, <3>1, <3>2, SameReflexive
  <2>5. ASSUME NEW n \in {position + 1, position + 2}, n <= published, dpc = "read", dpc' = "on_depth",
               message' = n, record' = DepthRecord(n), UNCHANGED <<ds, mpc, snapshot>>
        PROVE  Same(replay.sync, InFlight)'
    <3>1. n # Malformed
      BY <1>1, <2>5 DEF Malformed
    <3>2. replay' = OnUpdateRecord(replay, Feed[n])
      BY <1>5, <2>5, <3>1, Records
    <3>3. replay'.sync = OnDepth(replay.sync, Feed[n])
      BY <1>5, <2>5, <3>2 DEF OnUpdateRecord
    <3>4. Same(replay.sync, MainDone)
      BY <1>6, <2>5 DEF InFlight
    <3>5. InFlight' = OnDepth(MainDone, Feed[n])
      <4>1. MainDone' = MainDone
        BY <1>8, <2>5
      <4> HIDE DEF MainDone
      <4> QED
        BY <2>5, <4>1 DEF InFlight
    <3>6. MainDone \in Synchronizer
      BY <1>2, MainDoneOp
    <3>7. Same(OnDepth(replay.sync, Feed[n]), OnDepth(MainDone, Feed[n]))
      <4> HIDE DEF MainDone
      <4> QED
        BY <1>5, <3>4, <3>6, OnDepthSame
    <3> QED
      BY <3>3, <3>5, <3>7
  <2>6. CASE DepthReceive
    BY <2>5, <2>6 DEF DepthReceive, Reads, Written
  <2>7. CASE DepthReceiveSkipping
    BY <2>5, <2>7 DEF DepthReceiveSkipping, Reads
  <2>8. CASE DepthReceiveMalformed \/ DepthReceiveWriteThrows
    <3>1. faults' # faults
      BY <1>4, <2>8 DEF DepthReceiveMalformed, DepthReceiveWriteThrows, WriteThrows
    <3>2. dpc = "read" /\ position' = position + 1 /\ mpc' = mpc
      BY <2>8 DEF DepthReceiveMalformed, DepthReceiveWriteThrows, Reads
    <3> QED
      BY <1>1, <1>2, <3>1, <3>2 DEF Harmless
  <2>9. CASE DepthParseFailed
    BY <1>3, <2>9 DEF DepthParseFailed
  <2>10. CASE DepthApply
    <3>1. /\ ds' = OnDepth(ds, Feed[message]) /\ dpc = "on_depth"
          /\ dpc' \in {"read", "closing", "resync"}
          /\ mpc' = mpc /\ mutex = "free" /\ record' = NoRecord
      BY <2>10 DEF DepthApply, LoopHead
    <3>2. mpc \notin {"install", "drain"}
      BY <1>1, <1>2, <3>1 DEF LogOrderIsCallOrder
    <3>3. InFlight = OnDepth(ds, Feed[message]) /\ InFlight' = ds'
      BY <3>1, <3>2 DEF InFlight, MainDone
    <3> QED
      BY <1>1, <1>7, <3>1, <3>3, SameReflexive
  <2>11. CASE DepthResync
    <3>1. /\ ds' = BeginResync(ds) /\ dpc = "resync" /\ dpc' \in {"read", "closing"}
          /\ mpc' = mpc /\ mpc \in {"poll", "join", "done"} /\ record' = NoRecord
      BY <1>3, <2>11 DEF DepthResync, LoopHead, Idle
    <3>2. InFlight = ds /\ InFlight' = ds'
      BY <3>1 DEF InFlight, MainDone
    <3>3. Dropped(ds)
      BY <1>2, <3>1 DEF FidelityInv, Resyncs, InService
    <3> QED
      BY <1>1, <1>7, <3>1, <3>2, <3>3, ResyncSame
  <2>12. CASE DepthCloseWrite
    <3>1. /\ UNCHANGED <<ds, mpc, snapshot>> /\ dpc = "on_disconnect"
          /\ dpc' \in {"close_lock", "ended"}
      BY <2>12 DEF DepthCloseWrite
    <3>2. record' = [type |-> "ConnectionClose"]
      <4>1. CASE WriteThrows([type |-> "ConnectionClose"])
        <5>1. faults' # faults /\ dpc = "on_disconnect" /\ mpc' = mpc
          BY <1>4, <3>1, <4>1 DEF WriteThrows
        <5> QED
          BY <1>2, <5>1 DEF Harmless
      <4> QED
        BY <2>12, <4>1 DEF DepthCloseWrite, Written
    <3>3. replay' = OnCloseRecord(replay)
      BY <1>5, <3>2, Records
    <3>4. replay'.sync = replay.sync
      BY <1>5, <3>3 DEF OnCloseRecord
    <3>5. InFlight' = InFlight
      BY <1>8, <3>1 DEF InFlight
    <3>6. Same(replay.sync, InFlight)
      BY <1>6, <3>1
    <3> HIDE DEF InFlight
    <3> QED
      BY <3>4, <3>5, <3>6
  <2>13. CASE DepthCloseLock
    <3>1. ds'.state = "Disconnected" /\ dpc' = "down"
      BY <1>1, <2>13 DEF DepthCloseLock, OnDisconnected, Synchronizer
    <3> QED
      BY <3>1
  <2> QED
    BY <1>10, <2>1, <2>2, <2>3, <2>4, <2>6, <2>7, <2>8, <2>9, <2>10, <2>11, <2>12, <2>13
    DEF DepthThread
\* A step of main that writes nothing changes only what it has done.
<1>11. ASSUME record' = NoRecord, dpc' = dpc, message' = message, dpc # "open_lock",
              ds.state # "Disconnected", Same(MainDone, MainDone')
       PROVE  Same(replay.sync, InFlight)'
  <2>1. Same(InFlight, InFlight')
    <3> HIDE DEF MainDone, InFlight
    <3> QED
      BY <1>2, <1>11, InFlightSame
  <2> QED
    BY <1>7, <1>11, <2>1
<1>12. CASE MainThread
  <2>1. CASE dpc = "open_lock"
    <3>1. mpc \in {"poll", "join", "done"} /\ ~requested
      BY <1>3, <2>1 DEF Idle
    <3>2. /\ UNCHANGED <<ds, dpc>> /\ record' = NoRecord
      BY <1>12, <3>1 DEF MainThread, MainPoll, MainTake, MainFetch, MainStore, MainInstall,
                         MainDrain, MainResync, MainStops, MainJoin
    <3>3. InFlight' = InFlight
      BY <2>1, <3>2 DEF InFlight
    <3> QED
      BY <1>7, <2>1, <3>2, <3>3, SameReflexive
  <2>2. /\ dpc # "open_lock" => ds'.state # "Disconnected"
        /\ dpc' = dpc /\ message' = message
    BY <1>12 DEF MainThread, MainPoll, MainTake, MainFetch, MainStore, MainInstall,
                 MainDrain, MainResync, MainStops, MainJoin
  <2>3. CASE dpc # "open_lock" /\ (MainPoll \/ MainFetch \/ MainStops \/ MainJoin)
    <3>1. /\ ds' = ds /\ record' = NoRecord /\ {mpc, mpc'} \cap {"install", "drain"} = {}
      BY <2>3 DEF MainPoll, MainFetch, MainStops, MainJoin
    <3>2. MainDone' = MainDone
      BY <3>1 DEF MainDone
    <3> QED
      BY <1>11, <2>2, <2>3, <3>1, <3>2, SameReflexive
  <2>4. CASE dpc # "open_lock" /\ MainTake
    <3>1. mpc = "take" /\ mpc' \in {"fetch", "poll"} /\ record' = NoRecord
          /\ (ds' = ds \/ ds' = RequestSnapshot(ds))
      BY <2>4 DEF MainTake
    <3>2. MainDone = ds /\ MainDone' = ds'
      BY <3>1 DEF MainDone
    <3>3. ds.state # "Disconnected"
      BY <2>2, <2>4, <3>1, <1>1 DEF RequestSnapshot, Synchronizer
    <3>4. ds.state \in Buffered
      BY <1>1, <1>2, <1>3, <3>1, <3>3 DEF InService, Synchronizer, SyncState, Aligned, Buffered
    <3>5. Same(ds, ds')
      BY <1>1, <3>1, <3>4, RequestSame, SameReflexive
    <3> QED
      BY <1>11, <2>2, <2>4, <3>1, <3>2, <3>3, <3>5
  <2>5. CASE dpc # "open_lock" /\ MainStore
    <3>1. /\ ds' = ds /\ mpc = "store" /\ mpc' = "install" /\ snapshot' = snapshot
          /\ record' = [type |-> "DepthSnapshot", id |-> snapshot]
      <4>1. CASE WriteThrows([type |-> "DepthSnapshot", id |-> snapshot])
        <5>1. faults' # faults /\ mpc = "store" /\ dpc' = dpc /\ position' = position
          BY <1>4, <2>5, <4>1 DEF WriteThrows, MainStore
        <5> QED
          BY <1>1, <1>2, <5>1 DEF Harmless
      <4> QED
        BY <2>5, <4>1 DEF MainStore, Written
    <3>2. replay' = OnSnapshotRecord(replay, Snapshot(snapshot))
      BY <1>5, <3>1, Records
    <3>3. replay'.sync = ReturnFromSnapshot(replay.sync, Snapshot(snapshot))
      BY <1>5, <3>2 DEF OnSnapshotRecord
    <3>4. dpc' \notin {"on_depth", "open_lock"}
      BY <1>2, <2>2, <2>5, <3>1 DEF LogOrderIsCallOrder
    <3>5. InFlight' = ReturnFromSnapshot(ds, Snapshot(snapshot))
      BY <3>1, <3>4 DEF InFlight, MainDone
    <3>6. ds.state # "Disconnected" /\ Same(replay.sync, ds)
      BY <1>6, <2>2, <2>5, <3>1, <3>4 DEF InFlight, MainDone
    <3>7. OnSnapshot(replay.sync, Snapshot(snapshot)) = OnSnapshot(ds, Snapshot(snapshot))
      BY <1>1, <1>5, <3>6, OnSnapshotSame
    <3> QED
      BY <3>3, <3>5, <3>7, SameReflexive DEF ReturnFromSnapshot
  <2>6. CASE dpc # "open_lock" /\ MainInstall
    <3>1. mpc = "install" /\ ~ds.draining /\ record' = NoRecord
      BY <1>1, <2>6 DEF MainInstall
    <3>2. ds.state # "Disconnected"
      BY <1>1, <2>2, <2>6, <3>1, OnSnapshotEffect DEF MainInstall
    <3>3. session = session_at_request
      BY <1>3, <3>1, <3>2
    <3>4. ds' = OnSnapshot(ds, Snapshot(snapshot))
      BY <2>6, <3>3 DEF MainInstall
    <3>5. ds'.draining
      BY <1>1, <1>2, <3>1, <3>2, <3>4, OnSnapshotEffect DEF InService
    <3>6. mpc' = "drain"
      <4>1. mpc' = CASE ds'.draining -> "drain"
                     [] ds'.result = "InvalidBook" -> "resync"
                     [] OTHER -> "poll"
        BY <2>6, <3>3 DEF MainInstall
      <4>2. ds'.result # "InvalidBook"
        BY <1>1, <3>1, <3>4, <3>5, OnSnapshotEffect
      <4> QED
        BY <3>5, <4>1, <4>2
    <3>7. MainDone = RunLoops(ds') /\ MainDone' = RunLoops(ds')
      BY <3>1, <3>4, <3>6 DEF MainDone, ReturnFromSnapshot
    <3> QED
      BY <1>11, <2>2, <2>6, <3>1, <3>2, <3>7, SameReflexive
  <2>7. CASE dpc # "open_lock" /\ MainDrain
    <3>1. /\ mpc = "drain" /\ ds.draining /\ ds' = DrainStep(ds) /\ record' = NoRecord
          /\ ds'.draining => mpc' = "drain"
          /\ ~ds'.draining => mpc' \in {"resync", "poll"}
      BY <1>1, <2>7 DEF MainDrain
    <3>2. RunLoops(ds') = RunLoops(ds) /\ (~ds'.draining => RunLoops(ds') = ds')
      BY <1>1, <1>2, <3>1, LoopsFromHere DEF CollInv
    <3>3. MainDone = RunLoops(ds) /\ MainDone' = RunLoops(ds)
      <4>1. MainDone = RunLoops(ds)
        BY <3>1 DEF MainDone
      <4>2. CASE ds'.draining
        BY <3>1, <3>2, <4>1, <4>2 DEF MainDone
      <4>3. CASE ~ds'.draining
        BY <3>1, <3>2, <4>1, <4>3 DEF MainDone
      <4> QED
        BY <4>1, <4>2, <4>3
    <3>4. ds.state # "Disconnected"
      BY <1>1, <3>1
    <3> QED
      BY <1>11, <2>2, <2>7, <3>1, <3>3, <3>4, SameReflexive
  <2>8. CASE dpc # "open_lock" /\ MainResync
    <3>1. mpc = "resync" /\ mpc' = "poll" /\ ds' = BeginResync(ds) /\ record' = NoRecord
      BY <2>8 DEF MainResync
    <3>2. Dropped(ds) /\ ds.state # "Disconnected"
      BY <1>1, <1>2, <3>1 DEF FidelityInv, Resyncs, InService
    <3>3. MainDone = ds /\ MainDone' = ds'
      BY <3>1 DEF MainDone
    <3>4. Same(ds, ds')
      BY <1>1, <3>1, <3>2, ResyncSame
    <3> QED
      BY <1>11, <2>2, <2>8, <3>1, <3>2, <3>3, <3>4
  <2> QED
    BY <1>12, <2>1, <2>3, <2>4, <2>5, <2>6, <2>7, <2>8 DEF MainThread
<1> QED
  BY <1>2, <1>9, <1>10, <1>12 DEF CNext

\* The invariant is inductive.
LEMMA FidelityStep == FidelityInv /\ [RNext]_rvars => FidelityInv'
<1> SUFFICES ASSUME FidelityInv, [RNext]_rvars
             PROVE  FidelityInv'
  OBVIOUS
<1>1. ReplayInv'
  BY ReplayStep DEF FidelityInv
<1>2. CASE RNext
  <2>1. Orderly'
    BY <1>2, OrderlyStep DEF FidelityInv
  <2>2. Resyncs'
    BY <1>2, ResyncsStep DEF FidelityInv, ReplayInv, RNext
  <2>3. Requests' /\ Matches'
    BY <1>2, RequestsStep, MatchesStep
  <2> QED
    BY <1>1, <2>1, <2>2, <2>3 DEF FidelityInv
<1>3. CASE UNCHANGED rvars
  <2> USE <1>3 DEF rvars, cvars, depth, main, venue, shared
  <2>1. Orderly' /\ Resyncs'
    BY DEF FidelityInv, Orderly, Resyncs, Dropped, LogOrderIsCallOrder, InService
  <2>2. Requests'
    BY DEF FidelityInv, Requests, Idle
  <2>3. Matches'
    BY DEF FidelityInv, Matches, InFlight, MainDone
  <2> QED
    BY <1>1, <2>1, <2>2, <2>3 DEF FidelityInv
<1> QED
  BY <1>2, <1>3

\* In an orderly run the replayer is the collector's synchronizer with what is
\* in flight applied.
THEOREM FidelityInvariant == RSpec => []FidelityInv
  BY FidelityInit, FidelityStep, PTL DEF RSpec

\* Replaying a log that keeps the order of the calls, and of which every record
\* was used, reproduces the book the collector had.
THEOREM OrderlyLogReproduces == RSpec => []OrderlyLogReproducesCapture
<1>1. FidelityInv => OrderlyLogReproducesCapture
  <2> SUFFICES ASSUME FidelityInv, orderly, CaptureQuiet, IsLive(ds)
               PROVE  ReplayLive /\ replay.sync.book = ds.book
    BY DEF OrderlyLogReproducesCapture, ReplayReproducesCapture
  <2>1. dpc = "read" /\ mpc = "poll" /\ ds.state = "Live" /\ ds.book.valid
    BY DEF CaptureQuiet, IsLive
  <2>2. Same(replay.sync, ds)
    BY <2>1 DEF FidelityInv, Matches, InFlight, MainDone
  <2>3. replay.depth_connected
    BY <2>1 DEF FidelityInv, ReplayInv, Fresh
  <2>4. replay.sync.state = "Live" /\ replay.sync.book = ds.book
    BY <2>1, <2>2 DEF Same, Buffered
  <2> QED
    BY <2>1, <2>3, <2>4 DEF ReplayLive, ShowsBook, IsLive
<1> QED
  BY <1>1, FidelityInvariant, PTL
================================================================================
