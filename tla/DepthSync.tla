------------------------------ MODULE DepthSync ------------------------------
(***************************************************************************)
(* DepthSynchronizer of cpp/exchange/binance/depth_sync.cpp together with  *)
(* the OrderBook it drives.  Every member function is an operator from the *)
(* synchronizer before the call to the one after it, so that the live      *)
(* collector and the replayer can both be built from them; `result' is the *)
(* SyncResult of the last call.                                            *)
(*                                                                         *)
(* on_snapshot is the one function with a loop.  OnSnapshot is its part    *)
(* before the loops and each DrainStep takes one buffered event; `draining'*)
(* is TRUE while the function has not returned.  Nothing else runs then:   *)
(* its callers hold sync_mutex.                                            *)
(***************************************************************************)
EXTENDS Exchange, Sequences

CONSTANT MaxBufferedEvents   \* max_buffered_events, 100000 in the code

ASSUME BufferAssumption == MaxBufferedEvents \in Nat \ {0}

VARIABLE ds

SyncState == {"Disconnected", "Buffering", "SnapshotPending", "Syncing",
              "Live", "GapDetected", "Invalid", "Resyncing"}

SyncResult == {"None", "Buffered", "Applied", "Stale", "GapDetected",
               "NeedSnapshot", "InvalidBook", "IgnoredDisconnected"}

Synchronizer ==
    [state : SyncState, result : SyncResult, buffer : Seq(DepthEvents),
     first_event_applied : BOOLEAN, snapshot_update_id : Ids, book : Book,
     draining : BOOLEAN]

NewSynchronizer ==
    [state |-> "Disconnected", result |-> "None", buffer |-> <<>>,
     first_event_applied |-> FALSE, snapshot_update_id |-> 0,
     book |-> ClearedBook, draining |-> FALSE]

IsLive(s) == s.state = "Live" /\ s.book.valid

(***************************************************************************)
(* Member functions                                                        *)
(***************************************************************************)
OnConnected(s) ==
    [s EXCEPT !.book = ClearedBook, !.buffer = <<>>,
              !.first_event_applied = FALSE, !.snapshot_update_id = 0,
              !.state = "Buffering", !.result = "None"]

OnDisconnected(s) ==
    [s EXCEPT !.book = Invalidate(@), !.buffer = <<>>,
              !.first_event_applied = FALSE, !.snapshot_update_id = 0,
              !.state = "Disconnected", !.result = "None"]

RequestSnapshot(s) ==
    [s EXCEPT !.state = IF @ = "Disconnected" THEN @ ELSE "SnapshotPending",
              !.result = "None"]

\* The buffer is kept: what was received since the gap may bridge the next
\* snapshot.
BeginResync(s) ==
    [s EXCEPT !.book = Invalidate(@), !.first_event_applied = FALSE,
              !.snapshot_update_id = 0, !.state = "Resyncing", !.result = "None"]

BufferEvent(s, event) ==
    IF Len(s.buffer) >= MaxBufferedEvents
    THEN [s EXCEPT !.book = Invalidate(@), !.buffer = <<>>,
                   !.state = "Invalid", !.result = "InvalidBook"]
    ELSE [s EXCEPT !.buffer = Append(@, event), !.result = "Buffered"]

DetectGap(s, event) ==
    [s EXCEPT !.book = Invalidate(@), !.buffer = <<event>>,
              !.first_event_applied = FALSE, !.snapshot_update_id = 0,
              !.state = "GapDetected", !.result = "GapDetected"]

\* The common tail of apply_first_event and apply_contiguous_event.
ApplyEvent(s, event, aligned) ==
    LET after == ApplyDepthEvent(s.book, event)
    IN  IF after.valid
        THEN [s EXCEPT !.book = after, !.first_event_applied = aligned,
                       !.state = "Live", !.result = "Applied"]
        ELSE [s EXCEPT !.book = after, !.state = "Invalid",
                       !.result = "InvalidBook"]

\* After the first two tests U <= S <= u holds, so the third test of the
\* function, which returns Stale, never succeeds.
ApplyFirstEvent(s, event) ==
    IF event.final_update_id < s.snapshot_update_id
    THEN [s EXCEPT !.result = "Stale"]
    ELSE IF event.first_update_id > s.snapshot_update_id
    THEN DetectGap(s, event)
    ELSE ApplyEvent(s, event, TRUE)

\* Mutant of ApplyContiguousEvent: pu is not compared.
ApplyContiguousEventUnchecked(s, event) ==
    IF event.final_update_id <= s.book.last_update_id
    THEN [s EXCEPT !.result = "Stale"]
    ELSE ApplyEvent(s, event, s.first_event_applied)

ApplyContiguousEvent(s, event) ==
    IF event.final_update_id <= s.book.last_update_id
    THEN [s EXCEPT !.result = "Stale"]
    ELSE IF event.previous_final_update_id # s.book.last_update_id
    THEN DetectGap(s, event)
    ELSE ApplyEvent(s, event, s.first_event_applied)

\* A gap met while aligning becomes a resync that asks for a new snapshot.
NeedSnapshotOnGap(s) ==
    IF s.result = "GapDetected"
    THEN [BeginResync(s) EXCEPT !.result = "NeedSnapshot"]
    ELSE s

OnDepth(s, event) ==
    CASE s.state = "Disconnected" ->
            [s EXCEPT !.result = "IgnoredDisconnected"]
      [] s.state \in {"Buffering", "SnapshotPending", "Resyncing", "GapDetected"} ->
            BufferEvent(s, event)
      [] s.state = "Invalid" ->
            [s EXCEPT !.result = "InvalidBook"]
      [] s.state = "Syncing" ->
            NeedSnapshotOnGap(IF s.first_event_applied
                              THEN ApplyContiguousEvent(s, event)
                              ELSE ApplyFirstEvent(s, event))
      [] s.state = "Live" ->
            ApplyContiguousEvent(s, event)

\* Mutant of OnSnapshot: a live synchronizer stays live while it realigns.
OnSnapshotStaysLive(s, snapshot) ==
    LET loaded == LoadSnapshot(snapshot)
        syncing == [s EXCEPT !.book = loaded, !.first_event_applied = FALSE,
                             !.snapshot_update_id = snapshot.last_update_id]
    IN  IF s.state = "Disconnected"
        THEN [s EXCEPT !.result = "IgnoredDisconnected"]
        ELSE IF loaded.valid
        THEN [syncing EXCEPT !.state = IF @ = "Live" THEN @ ELSE "Syncing",
                             !.result = "None", !.draining = TRUE]
        ELSE [syncing EXCEPT !.state = "Invalid", !.result = "InvalidBook"]

\* Mutant of OnSnapshot: load_snapshot without its clear(), so that levels the
\* snapshot does not list survive.
OnSnapshotWithoutClear(s, snapshot) ==
    LET merged == [l \in Level |-> IF snapshot.levels[l] # 0
                                   THEN snapshot.levels[l] ELSE s.book.levels[l]]
        loaded == LoadSnapshot([snapshot EXCEPT !.levels = merged])
        syncing == [s EXCEPT !.book = loaded, !.first_event_applied = FALSE,
                             !.snapshot_update_id = snapshot.last_update_id]
    IN  IF s.state = "Disconnected"
        THEN [s EXCEPT !.result = "IgnoredDisconnected"]
        ELSE IF loaded.valid
        THEN [syncing EXCEPT !.state = "Syncing", !.result = "None", !.draining = TRUE]
        ELSE [syncing EXCEPT !.state = "Invalid", !.result = "InvalidBook"]

OnSnapshot(s, snapshot) ==
    LET loaded == LoadSnapshot(snapshot)
        syncing == [s EXCEPT !.book = loaded, !.first_event_applied = FALSE,
                             !.snapshot_update_id = snapshot.last_update_id]
    IN  IF s.state = "Disconnected"
        THEN [s EXCEPT !.result = "IgnoredDisconnected"]
        ELSE IF loaded.valid
        THEN [syncing EXCEPT !.state = "Syncing", !.result = "None", !.draining = TRUE]
        ELSE [syncing EXCEPT !.state = "Invalid", !.result = "InvalidBook"]

\* Mutant of DrainStep: the loop ends with the event that aligned it.
DrainStepAlignsOnly(s) ==
    LET event == Head(s.buffer)
        popped == [s EXCEPT !.buffer = Tail(@)]
        applied == NeedSnapshotOnGap(IF s.first_event_applied
                                     THEN ApplyContiguousEvent(popped, event)
                                     ELSE ApplyFirstEvent(popped, event))
    IN  IF s.buffer = <<>>
        THEN [s EXCEPT !.draining = FALSE,
                       !.result = IF s.first_event_applied THEN "Applied" ELSE "Buffered"]
        ELSE IF ~s.first_event_applied /\ event.final_update_id < s.snapshot_update_id
        THEN popped
        ELSE [applied EXCEPT !.draining = FALSE]

\* One turn of the loops of on_snapshot: drop a buffered event older than the
\* snapshot, align on the first that is not, then apply the rest in order.
DrainStep(s) ==
    LET event == Head(s.buffer)
        popped == [s EXCEPT !.buffer = Tail(@)]
        applied == NeedSnapshotOnGap(IF s.first_event_applied
                                     THEN ApplyContiguousEvent(popped, event)
                                     ELSE ApplyFirstEvent(popped, event))
        goesOn == IF s.first_event_applied THEN {"Applied", "Stale"} ELSE {"Applied"}
    IN  IF s.buffer = <<>>
        THEN [s EXCEPT !.draining = FALSE,
                       !.result = IF s.first_event_applied THEN "Applied" ELSE "Buffered"]
        ELSE IF ~s.first_event_applied /\ event.final_update_id < s.snapshot_update_id
        THEN popped
        ELSE [applied EXCEPT !.draining = applied.result \in goesOn]

(***************************************************************************)
(* The component on its own: its callers may hand it any genuine message,  *)
(* lost, repeated or reordered, and any genuine snapshot, at any time.     *)
(***************************************************************************)
Init == ds = NewSynchronizer

Connect == ~ds.draining /\ ds' = OnConnected(ds)

Disconnect == ~ds.draining /\ ds' = OnDisconnected(ds)

Request == ~ds.draining /\ ds' = RequestSnapshot(ds)

\* Both callers run begin_resync only for an open connection.
Resync == ~ds.draining /\ ds.state # "Disconnected" /\ ds' = BeginResync(ds)

Depth(event) == ~ds.draining /\ ds' = OnDepth(ds, event)

TakeSnapshot(id) == ~ds.draining /\ ds' = OnSnapshot(ds, Snapshot(id))

Drain == ds.draining /\ ds' = DrainStep(ds)

Next ==
    \/ Connect
    \/ Disconnect
    \/ Request
    \/ Resync
    \/ \E event \in DepthEvents : Depth(event)
    \/ \E id \in Ids : TakeSnapshot(id)
    \/ Drain

Spec == Init /\ [][Next]_ds

(***************************************************************************)
(* Properties                                                              *)
(***************************************************************************)

\* Every field of the synchronizer has its type: what is buffered is genuine
\* depth, the snapshot id is an exchange id, the book is a book.
TypeOK == ds \in Synchronizer

\* The book the exchange had at the book's own update id, except that levels
\* outside the last snapshot's depth may be missing.
MirrorsAt(levels, id, base) ==
    \A l \in Level :
        \/ levels[l] = History[id][l]
        \/ levels[l] = 0 /\ l \notin Window(base)

Mirrors(book, base) == MirrorsAt(book.levels, book.last_update_id, base)

\* While is_live() holds, the local book is the exchange's book at
\* last_update_id, whatever was lost, repeated or reordered before: no phantom
\* quantity, and nothing missing inside the depth of the snapshot it was built
\* from (snapshot_update_id names that snapshot for as long as it is live).
LiveBookIsExchangeBook ==
    IsLive(ds) => Mirrors(ds.book, ds.snapshot_update_id)

\* When on_snapshot and on_depth have returned, an aligned or aligning
\* synchronizer has no buffered event left behind: a forgotten one would be a
\* gap nobody detects until the next message.
NoEventLeftBehind ==
    ~ds.draining /\ ds.state \in {"Syncing", "Live"} => ds.buffer = <<>>

\* first_event_applied_ is the alignment flag: Live exactly follows it, and
\* Syncing never has it once on_snapshot returned (so the contiguous branch of
\* on_depth in Syncing is never taken).
AlignmentFlag ==
    /\ ds.state = "Live" => ds.first_event_applied
    /\ ds.state = "Syncing" => ~ds.first_event_applied

\* The reorder buffer never grows past max_buffered_events_.
BufferBounded == Len(ds.buffer) <= MaxBufferedEvents

\* What the two-phase alignment relies on between calls: the buffer is emptied
\* by an alignment, in bounds before it, and the flag agrees with the state.
BufferDiscipline == NoEventLeftBehind /\ AlignmentFlag /\ BufferBounded

\* The reader's view of the synchronizer: what is_live() lets through.
DisplayedView ==
    IF IsLive(ds)
    THEN [seen |-> TRUE, levels |-> ds.book.levels,
          id |-> ds.book.last_update_id, base |-> ds.snapshot_update_id]
    ELSE [seen |-> FALSE]

FaithfulView(v) == v.id \in Ids /\ v.base \in Ids /\ MirrorsAt(v.levels, v.id, v.base)

Promise == INSTANCE MirroredBook WITH view <- DisplayedView, Faithful <- FaithfulView

\* The synchronizer keeps the promise of MirroredBook: every call shows either
\* nothing, or a faithful mirror that only advances; a replacement snapshot
\* never swaps the base of a book in sight.
KeepsPromise == Promise!Spec
==============================================================================
