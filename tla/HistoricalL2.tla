----------------------------- MODULE HistoricalL2 -----------------------------
(***************************************************************************)
(* The historical order-book path of pyresearch/historical/l2.py: the      *)
(* search for a snapshot, the continuity audit and the packer that turns   *)
(* hourly vendor files into a raw file for the C++ replayer.  The replayer *)
(* is fed here with every record as it is packed.                          *)
(*                                                                         *)
(* The packer tracks a synchronizer it does not run: its state,            *)
(* previous_u and buffered_while_invalid decide which snapshots and        *)
(* updates the raw file gets, and are only right as long as the            *)
(* DepthSynchronizer that replays the file is in the corresponding state.  *)
(*                                                                         *)
(* A stream of messages in ordering-key order is what iter_hour_messages   *)
(* and merge_ordered_hours yield.  Its snapshots are chosen first, so that *)
(* discover_snapshot can look at them; its updates as they come.           *)
(***************************************************************************)
EXTENDS Replayer, SequencesExt, FiniteSetsExt

CONSTANTS
    Depths,       \* the updates the vendor may have recorded, each any number of times
    SnapshotIds,  \* the ids of the snapshots it may have recorded
    Times,        \* received_time_ns
    HourLength,   \* of the same clock
    StartTime,    \* start_ns, the start of an hour
    EndTime,      \* end_ns
    Lookback,     \* max_lookback_hours
    MaxSnapshots, \* bound: snapshots in the archive
    MaxUpdates    \* bound: updates in the stream

ASSUME HistoricalAssumption ==
    /\ Depths \subseteq DepthEvents
    /\ SnapshotIds \subseteq Ids \ {0}
    /\ Times \subseteq Nat
    /\ HourLength \in Nat \ {0}
    /\ StartTime \in Nat /\ StartTime % HourLength = 0
    /\ EndTime \in Nat /\ Lookback \in Nat
    /\ MaxUpdates \in Nat

VARIABLES
    archive,    \* the snapshots of the hourly files
    stage,      \* which step of the pipeline runs
    initial,    \* the snapshot that discover_snapshot selected
    cursor,     \* ordering key of the last message read
    updates,    \* how many updates were read
    audit,      \* audit_continuity: its locals and its counts
    packer,     \* pack_for_existing_cpp_pipeline: its locals
    written,    \* the records of the last call of the packer that wrote any
    connected,  \* depth_connected of the replayer of the raw file
    in_order    \* history: no snapshot was older than the anchor it replaced

hvars == <<ds, archive, stage, initial, cursor, updates, audit, packer, written, connected,
           in_order>>

\* The replayer of the raw file; ds is its synchronizer.
replay == [sync |-> ds, depth_connected |-> connected]

(***************************************************************************)
(* Messages and their order                                                *)
(***************************************************************************)
SnapshotMessage(time, id, usable) ==
    [received_time |-> time, event_type |-> "snapshot", depth |-> Snapshot(id), usable |-> usable]

UpdateMessage(time, event) ==
    [received_time |-> time, event_type |-> "update", depth |-> event]

SequenceAnchor(m) ==
    IF m.event_type = "snapshot" THEN m.depth.last_update_id ELSE m.depth.final_update_id

\* The source ordinal, which comes last, separates messages alike in the rest.
OrderingKey(m) ==
    <<m.received_time, SequenceAnchor(m)>>
    \o IF m.event_type = "snapshot"
       THEN <<0, -1, -1>>
       ELSE <<1, m.depth.first_update_id, m.depth.previous_final_update_id>>

Less(k, l) ==
    \E i \in DOMAIN k : k[i] < l[i] /\ \A j \in 1 .. i - 1 : k[j] = l[j]

NoMessage == [event_type |-> "none"]

(***************************************************************************)
(* discover_snapshot                                                       *)
(***************************************************************************)
HourOf(time) == time \div HourLength

\* The candidates of the hour `back' hours before the start.
Candidates(back, allow_start_hour_snapshot) ==
    {m \in archive :
        /\ HourOf(m.received_time) + back = HourOf(StartTime)
        /\ m.usable
        /\ IF back = 0 /\ allow_start_hour_snapshot
           THEN m.received_time >= StartTime
           ELSE m.received_time <= StartTime}

FirstOf(S) == CHOOSE m \in S : \A n \in S : ~Less(OrderingKey(n), OrderingKey(m))
LastOf(S) == CHOOSE m \in S : \A n \in S : ~Less(OrderingKey(m), OrderingKey(n))

\* Hour by hour backwards; the start hour may be searched forwards.
DiscoverSnapshot(allow) ==
    LET hits == {back \in 0 .. Lookback : Candidates(back, allow) # {}}
    IN  IF hits = {} THEN NoMessage
        ELSE LET found == Candidates(Min(hits), allow)
             IN  IF Min(hits) = 0 /\ allow THEN FirstOf(found) ELSE LastOf(found)

(***************************************************************************)
(* audit_continuity                                                        *)
(***************************************************************************)
NewAudit(snapshot) ==
    [initial_snapshot_id |-> snapshot.depth.last_update_id,
     awaiting_initial_bridge |-> TRUE,
     previous_update_u |-> 0,
     pu_breaks |-> 0, contiguous_updates |-> 0, duplicate_stale_messages |-> 0]

Broken(a, event) == [a EXCEPT !.pu_breaks = @ + 1, !.previous_update_u = event.final_update_id]

Contiguous(a, event) ==
    [a EXCEPT !.contiguous_updates = @ + 1, !.previous_update_u = event.final_update_id]

AuditStale(a) == [a EXCEPT !.duplicate_stale_messages = @ + 1]

AuditBridge(a, event) ==
    LET id == a.initial_snapshot_id
    IN  IF event.final_update_id < id THEN AuditStale(a)
        ELSE [IF event.first_update_id <= id THEN Contiguous(a, event) ELSE Broken(a, event)
              EXCEPT !.awaiting_initial_bridge = FALSE]

\* Snapshots get a status in the audit file and change none of its locals.
Audit(a, m) ==
    IF m.event_type = "snapshot" THEN a
    ELSE IF a.awaiting_initial_bridge THEN AuditBridge(a, m.depth)
    ELSE IF m.depth.final_update_id <= a.previous_update_u THEN AuditStale(a)
    ELSE IF m.depth.previous_final_update_id = a.previous_update_u
    THEN Contiguous(a, m.depth)
    ELSE Broken(a, m.depth)

(***************************************************************************)
(* pack_for_existing_cpp_pipeline.  A call of the packer returns its new   *)
(* locals; `out' is what it wrote.                                         *)
(***************************************************************************)
OpenRecord(stamp) == [type |-> "ConnectionOpen", stamp |-> stamp]
CloseRecord(stamp) == [type |-> "ConnectionClose", stamp |-> stamp]
SnapshotRecord(stamp, m) == [type |-> "DepthSnapshot", stamp |-> stamp, depth |-> m.depth]
UpdateRecord(m) == [type |-> "DepthUpdate", stamp |-> m.received_time, depth |-> m.depth]

\* Where the raw file starts: at the requested start if the snapshot is later.
BaseTime(snapshot) ==
    IF StartTime + 1 < snapshot.received_time THEN StartTime
    ELSE IF snapshot.received_time >= 2 THEN snapshot.received_time - 2 ELSE 0

NewPacker(snapshot) ==
    [state |-> "awaiting_bridge",
     previous_u |-> snapshot.depth.last_update_id,
     snapshot_anchor |-> snapshot.depth.last_update_id,
     buffered_while_invalid |-> <<>>,
     pending_live_snapshot |-> NoMessage,
     deferred_live_updates |-> <<>>,
     last_update_received |-> 0,
     out |-> <<OpenRecord(BaseTime(snapshot) + 1),
               SnapshotRecord(snapshot.received_time, snapshot)>>]

EmitUpdate(p, m) ==
    [p EXCEPT !.out = Append(@, UpdateRecord(m)), !.last_update_received = m.received_time]

\* Mutant of FlushDeferred: the updates are forgotten with the snapshot.
FlushDeferredSilently(p) == [p EXCEPT !.deferred_live_updates = <<>>]

FlushDeferred(p) ==
    LET deferred == p.deferred_live_updates
    IN  [p EXCEPT !.out = @ \o [i \in DOMAIN deferred |-> UpdateRecord(deferred[i])],
                  !.last_update_received =
                      IF deferred = <<>> THEN @ ELSE Last(deferred).received_time,
                  !.deferred_live_updates = <<>>]

Bridges(event, id) == event.first_update_id <= id /\ id <= event.final_update_id

Follows(event, u) == event.previous_final_update_id = u

\* The buffered updates after the one that bridged the snapshot: those that
\* are stale are passed over, the first that does not follow ends the walk.
WalkPast(walk, event) ==
    IF walk.gap # <<>> \/ event.final_update_id <= walk.u THEN walk
    ELSE IF Follows(event, walk.u) THEN [walk EXCEPT !.u = event.final_update_id]
    ELSE [walk EXCEPT !.gap = <<event>>]

WalkBuffered(first_u, events) ==
    LET walk[i \in 0 .. Len(events)] ==
            IF i = 0 THEN [u |-> first_u, gap |-> <<>>] ELSE WalkPast(walk[i - 1], events[i])
    IN  walk[Len(events)]

\* The events from the first one that is not older than the snapshot.
FromId(events, id) ==
    LET next == SelectInSeq(events, LAMBDA e : e.final_update_id >= id)
    IN  IF next = 0 THEN <<>> ELSE SubSeq(events, next, Len(events))

\* Mutant of Realign: a later gap keeps the whole rest of the buffer.
RealignKeepsRest(p, id) ==
    LET rest == FromId(p.buffered_while_invalid, id)
        anchored == [p EXCEPT !.snapshot_anchor = id, !.previous_u = id,
                              !.buffered_while_invalid = rest]
    IN  IF rest = <<>> THEN [anchored EXCEPT !.state = "awaiting_bridge"]
        ELSE IF ~Bridges(Head(rest), id) THEN [anchored EXCEPT !.state = "invalid"]
        ELSE LET walk == WalkBuffered(Head(rest).final_update_id, Tail(rest))
             IN  [anchored EXCEPT !.state = IF walk.gap = <<>> THEN "live" ELSE "invalid",
                                  !.previous_u = walk.u, !.buffered_while_invalid = walk.gap]

\* A new snapshot meets the updates written since the book was lost.
Realign(p, id) ==
    LET rest == FromId(p.buffered_while_invalid, id)
        anchored == [p EXCEPT !.snapshot_anchor = id, !.previous_u = id,
                              !.buffered_while_invalid = <<>>]
    IN  IF rest = <<>> THEN [anchored EXCEPT !.state = "awaiting_bridge"]
        ELSE IF ~Bridges(Head(rest), id)
        THEN [anchored EXCEPT !.state = "invalid",
                              !.buffered_while_invalid = <<Head(rest)>>]
        ELSE LET walk == WalkBuffered(Head(rest).final_update_id, Tail(rest))
             IN  [anchored EXCEPT !.state = IF walk.gap = <<>> THEN "live" ELSE "invalid",
                                  !.previous_u = walk.u, !.buffered_while_invalid = walk.gap]

\* A snapshot that arrives while the book is live is kept until an update
\* passes it, in case the next one does not follow.
PackLiveSnapshot(p, m) ==
    LET id == m.depth.last_update_id
        pending == p.pending_live_snapshot
    IN  IF id <= p.previous_u THEN p
        ELSE IF pending = NoMessage THEN [p EXCEPT !.pending_live_snapshot = m]
        ELSE IF id = pending.depth.last_update_id THEN p
        ELSE [FlushDeferred(p) EXCEPT !.pending_live_snapshot = m]

PackSnapshot(p, m) ==
    LET id == m.depth.last_update_id
    IN  IF ~m.usable THEN p
        ELSE IF p.state = "live" THEN PackLiveSnapshot(p, m)
        ELSE IF /\ p.state = "awaiting_bridge"
                /\ p.buffered_while_invalid = <<>>
                /\ id = p.snapshot_anchor
        THEN p
        ELSE Realign([p EXCEPT !.out = Append(@, SnapshotRecord(m.received_time, m))], id)

\* The first update after a snapshot.
PackBridge(p, m) ==
    IF m.depth.final_update_id < p.snapshot_anchor THEN p
    ELSE LET emitted == [EmitUpdate(p, m) EXCEPT !.previous_u = m.depth.final_update_id]
         IN  IF Bridges(m.depth, p.snapshot_anchor)
             THEN [emitted EXCEPT !.state = "live"]
             ELSE [emitted EXCEPT !.state = "invalid", !.buffered_while_invalid = <<m.depth>>]

PackInvalid(p, m) ==
    [EmitUpdate(p, m) EXCEPT !.buffered_while_invalid = Append(@, m.depth)]

\* The next update of a live book, written now or after the pending snapshot
\* has been passed.
PackContiguous(p, m) ==
    LET advanced == [p EXCEPT !.previous_u = m.depth.final_update_id]
        deferred == [advanced EXCEPT !.deferred_live_updates = Append(@, m)]
    IN  IF p.pending_live_snapshot = NoMessage THEN EmitUpdate(advanced, m)
        ELSE IF m.depth.final_update_id >= p.pending_live_snapshot.depth.last_update_id
        THEN [FlushDeferred(deferred) EXCEPT !.pending_live_snapshot = NoMessage]
        ELSE deferred

\* Mutant of PackCoveredGap: the close is stamped after the update that shows it.
PackCoveredGapAfterIt(p, m) ==
    LET flushed == FlushDeferred(p)
        last == IF flushed.last_update_received = 0 THEN m.received_time
                ELSE flushed.last_update_received
        reconnected ==
            [flushed EXCEPT !.out = @ \o
                <<CloseRecord(last + 1),
                  OpenRecord(m.received_time),
                  SnapshotRecord(m.received_time, p.pending_live_snapshot)>>]
    IN  [EmitUpdate(reconnected, m) EXCEPT !.previous_u = m.depth.final_update_id,
                                           !.pending_live_snapshot = NoMessage]

\* A gap that the pending snapshot covers: the connection is closed and opened
\* again around what was not observed.
PackCoveredGap(p, m) ==
    LET flushed == FlushDeferred(p)
        last == IF flushed.last_update_received = 0 THEN m.received_time
                ELSE flushed.last_update_received
        reconnected ==
            [flushed EXCEPT !.out = @ \o
                <<CloseRecord(Min({last + 1, m.received_time})),
                  OpenRecord(m.received_time),
                  SnapshotRecord(m.received_time, p.pending_live_snapshot)>>]
    IN  [EmitUpdate(reconnected, m) EXCEPT !.previous_u = m.depth.final_update_id,
                                           !.pending_live_snapshot = NoMessage]

PackGap(p, m) ==
    [EmitUpdate(FlushDeferred(p), m) EXCEPT
        !.pending_live_snapshot = NoMessage, !.state = "invalid",
        !.buffered_while_invalid = <<m.depth>>, !.previous_u = m.depth.final_update_id]

PackUpdate(p, m) ==
    LET pending == p.pending_live_snapshot
    IN  CASE p.state = "awaiting_bridge" -> PackBridge(p, m)
          [] p.state = "invalid" -> PackInvalid(p, m)
          [] p.state = "live" ->
                IF m.depth.final_update_id <= p.previous_u THEN p
                ELSE IF Follows(m.depth, p.previous_u) THEN PackContiguous(p, m)
                ELSE IF pending # NoMessage /\ Bridges(m.depth, pending.depth.last_update_id)
                THEN PackCoveredGap(p, m)
                ELSE PackGap(p, m)

\* Messages up to the selected snapshot, and from the end on, are not packed.
Pack(p, m) ==
    IF ~Less(OrderingKey(initial), OrderingKey(m)) \/ m.received_time >= EndTime THEN p
    ELSE IF m.event_type = "snapshot" THEN PackSnapshot(p, m) ELSE PackUpdate(p, m)

(***************************************************************************)
(* The replayer of the raw file                                            *)
(***************************************************************************)
ReadRecord(r, rec) ==
    CASE rec.type = "ConnectionOpen" -> OnOpenRecord(r)
      [] rec.type = "ConnectionClose" -> OnCloseRecord(r)
      [] rec.type = "DepthSnapshot" -> OnSnapshotRecord(r, rec.depth)
      [] rec.type = "DepthUpdate" -> OnUpdateRecord(r, rec.depth)

ReadAll(r, records) ==
    LET read[i \in 0 .. Len(records)] ==
            IF i = 0 THEN r ELSE ReadRecord(read[i - 1], records[i])
    IN  read[Len(records)]

\* The packer has returned: its records go to the file and the replayer.
Wrote(p) ==
    /\ packer' = [p EXCEPT !.out = <<>>]
    /\ written' = IF p.out = <<>> THEN written ELSE p.out
    /\ LET after == ReadAll(replay, p.out)
       IN  ds' = after.sync /\ connected' = after.depth_connected

(***************************************************************************)
(* stage_ab: the search, then the audit and the packer over the stream.    *)
(* They read it one after the other and share nothing, so they take each   *)
(* message together here.                                                  *)
(***************************************************************************)
VendorSnapshots ==
    {SnapshotMessage(t, id, usable) : t \in Times, id \in SnapshotIds, usable \in BOOLEAN}

HInit ==
    /\ ds = NewReplay.sync /\ connected = NewReplay.depth_connected
    /\ archive \in {{}} \cup {Range(s) : s \in [1 .. MaxSnapshots -> VendorSnapshots]}
    /\ stage = "discover"
    /\ initial = NoMessage /\ cursor = <<>> /\ updates = 0
    /\ audit = <<>> /\ packer = <<>> /\ written = <<>> /\ in_order = TRUE

\* allow_start_hour_snapshot is an option of the command.
Discover(allow) ==
    LET found == DiscoverSnapshot(allow)
    IN  /\ stage = "discover"
        /\ initial' = found
        /\ IF found = NoMessage
           THEN stage' = "blocked_no_snapshot"
                /\ UNCHANGED <<ds, connected, archive, cursor, audit, packer, written>>
           ELSE /\ stage' = "stream"
                /\ cursor' = OrderingKey(found)
                /\ archive' = {m \in archive : ~Less(OrderingKey(m), cursor')}
                /\ audit' = NewAudit(found)
                /\ Wrote(NewPacker(found))
        /\ UNCHANGED <<updates, in_order>>

Read(m) ==
    /\ cursor' = OrderingKey(m)
    /\ audit' = Audit(audit, m)
    /\ Wrote(Pack(packer, m))
    /\ in_order' = (in_order /\ packer.snapshot_anchor <= packer'.snapshot_anchor)
    /\ UNCHANGED <<stage, initial>>

NextSnapshot ==
    /\ stage = "stream" /\ archive # {}
    /\ LET m == FirstOf(archive)
       IN  Read(m) /\ archive' = archive \ {m}
    /\ UNCHANGED updates

NextUpdate(m) ==
    /\ stage = "stream" /\ updates < MaxUpdates
    /\ ~Less(OrderingKey(m), cursor)
    /\ \A s \in archive : Less(OrderingKey(m), OrderingKey(s))
    /\ Read(m)
    /\ updates' = updates + 1
    /\ UNCHANGED archive

\* The stream may end at any message; what is deferred is written then.
CloseFile ==
    /\ stage = "stream" /\ archive = {}
    /\ stage' = "packed"
    /\ Wrote(IF packer.state = "live" THEN FlushDeferred(packer) ELSE packer)
    /\ UNCHANGED <<archive, initial, cursor, updates, audit, in_order>>

HNext ==
    \/ \E allow \in BOOLEAN : Discover(allow)
    \/ NextSnapshot
    \/ \E time \in Times, event \in Depths : NextUpdate(UpdateMessage(time, event))
    \/ CloseFile

HSpec == HInit /\ [][HNext]_hvars

(***************************************************************************)
(* Hypotheses about the venue, under which the packer is right             *)
(***************************************************************************)

\* The venue quotes both sides, and what a snapshot leaves out never hides it:
\* otherwise the replay may call a book invalid that the packer takes for live.
AlwaysQuoted ==
    \A levels \in Ladder, id, base \in Ids : MirrorsAt(levels, id, base) => Uncrossed(levels)

\* The synchronizer has room for every update of the stream.  It starts again
\* when its buffer is full, and the packer's has no limit.
RoomForAll == MaxUpdates <= MaxBufferedEvents

\* No update leaves out the id of a snapshot: the vendor's updates carry every
\* id between the one they follow and their last, as the exchange's do.
NoSnapshotInAHole ==
    \A e \in Depths, id \in SnapshotIds :
        e.previous_final_update_id < id => e.first_update_id <= id

(***************************************************************************)
(* Properties                                                              *)
(***************************************************************************)

\* The packer's three states are those of the DepthSynchronizer that replays
\* what it wrote: live at the update before the first deferred one, waiting on
\* the same snapshot, or holding the same buffer after a gap.  Otherwise it
\* leaves out snapshots or updates the replay needs.
PackerTracksReplay ==
    stage \in {"stream", "packed"} =>
        LET deferred == packer.deferred_live_updates
        IN  CASE packer.state = "live" ->
                    /\ ShowsBook(replay)
                    /\ ds.book.last_update_id =
                           IF deferred = <<>> THEN packer.previous_u
                           ELSE Head(deferred).depth.previous_final_update_id
              [] packer.state = "awaiting_bridge" ->
                    /\ ds.state = "Syncing"
                    /\ ds.book.last_update_id = packer.snapshot_anchor
              [] packer.state = "invalid" ->
                    /\ ds.state \in {"GapDetected", "Resyncing"}
                    /\ ds.buffer = packer.buffered_while_invalid

\* A sequence audit without a break, made before anything is packed, of
\* updates that reach the last snapshot taken.
CleanAudit ==
    /\ stage = "packed" /\ cursor[1] < EndTime
    /\ audit.pu_breaks = 0 /\ audit.contiguous_updates > 0
    /\ packer.snapshot_anchor <= audit.previous_update_u

ReplaysToTheEnd ==
    ShowsBook(replay) /\ ds.book.last_update_id = audit.previous_update_u

\* The report of a blocked reconstruction blames genuine gaps in the updates:
\* where the audit found none, the packed book is live at the last update.
\* It is not if a snapshot older than the one before it comes in while the
\* packer waits for the bridge: the packer anchors on it, and the audit does not.
OnlyGapsBlock == CleanAudit => ReplaysToTheEnd

\* As long as the snapshots come in the order of their ids, a clean audit is
\* what the replay later bears out.
CleanAuditReplays == CleanAudit /\ in_order => ReplaysToTheEnd

Advance(before, records) ==
    \A i, j \in DOMAIN records :
        /\ before # <<>> /\ records[i].type # "ConnectionClose" =>
               Last(before).stamp <= records[i].stamp
        /\ i < j => records[i].stamp <= records[j].stamp

\* The raw file never steps back in time, although updates are held back and
\* snapshots are written later than they came: the sampling grid of the replay
\* goes by these stamps.  Only the close that gates a covered gap may be older
\* than the record before it: it is stamped after the last update, and the
\* book may have come back by a snapshot since.
PackedStampsAdvance == [][written' # written => Advance(written, written')]_hvars
===============================================================================
