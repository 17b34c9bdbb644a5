--------------------------- MODULE DepthSyncProofs ----------------------------
(***************************************************************************)
(* Proofs about DepthSync for every book, every exchange history, every    *)
(* snapshot depth and every buffer size.  The lemmas are stated over a     *)
(* synchronizer s, not over the variable, so that modules that drive one   *)
(* in their own way can cite them.                                         *)
(***************************************************************************)
EXTENDS Replayer, Induction

\* The inductive invariant.  LiveBookIsExchangeBook alone is not inductive: a
\* book becomes live from Syncing, so the loaded snapshot must already mirror
\* the exchange at the id the first event is aligned on, and the loop of
\* on_snapshot must never leave Syncing or Live while it runs.
SyncInv(s) ==
    /\ s \in Synchronizer
    /\ s.book.last_update_id \in Ids
    /\ s.state = "Live" => s.first_event_applied
    /\ s.state = "Syncing" => /\ ~s.first_event_applied
                              /\ s.book.last_update_id = s.snapshot_update_id
    /\ s.state \in {"Syncing", "Live"} => Mirrors(s.book, s.snapshot_update_id)
    /\ s.draining => s.state \in {"Syncing", "Live"}
    /\ ~s.draining /\ s.state \in {"Syncing", "Live"} => s.buffer = <<>>
    /\ Len(s.buffer) <= MaxBufferedEvents

-------------------------------------------------------------------------------
(* What the exchange's messages are. *)

\* A genuine diff-depth message is well ordered, names the exchange's quantity
\* at u, and leaves out only levels that did not move between pu and u.
LEMMA GenuineEvent ==
    ASSUME NEW e \in DepthEvents
    PROVE  /\ e.first_update_id \in Ids
           /\ e.final_update_id \in Ids
           /\ e.previous_final_update_id \in Ids
           /\ e.previous_final_update_id < e.first_update_id
           /\ e.first_update_id <= e.final_update_id
           /\ DOMAIN e.changes \subseteq Level
           /\ \A l \in DOMAIN e.changes : e.changes[l] = History[e.final_update_id][l]
           /\ \A l \in Level \ DOMAIN e.changes :
                 \A i \in e.previous_final_update_id .. e.final_update_id :
                    History[i][l] = History[e.final_update_id][l]
<1>1. PICK prev \in Ids, first \in Ids, final \in Ids :
          prev < first /\ first <= final /\ e = DepthEvent(prev, first, final)
  BY DEF DepthEvents
<1>2. /\ e.first_update_id = first
      /\ e.final_update_id = final
      /\ e.previous_final_update_id = prev
      /\ e.changes = [l \in Changed(prev, final) |-> History[final][l]]
  BY <1>1 DEF DepthEvent
<1>3. DOMAIN e.changes = Changed(prev, final)
  BY <1>2
<1> QED
  BY <1>1, <1>2, <1>3 DEF Changed

\* Every content of the exchange's history is a ladder of quantities.
LEMMA HistoryType ==
    ASSUME NEW id \in Ids, NEW l \in Level
    PROVE  History[id][l] \in Quantities
  BY ExchangeAssumption DEF Ids, Ladder

\* A snapshot is a ladder, and it is exact inside its window and empty outside.
LEMMA GenuineSnapshot ==
    ASSUME NEW id \in Ids
    PROVE  /\ Snapshot(id).last_update_id = id
           /\ Snapshot(id).levels \in Ladder
           /\ \A l \in Level :
                 \/ Snapshot(id).levels[l] = History[id][l]
                 \/ Snapshot(id).levels[l] = 0 /\ l \notin Window(id)
  BY HistoryType, BookAssumption DEF Snapshot, Ladder

-------------------------------------------------------------------------------
(* The order book. *)

\* apply_depth_event leaves a book, whose id is one of the exchange's.
LEMMA ApplyIsBook ==
    ASSUME NEW b \in Book, b.last_update_id \in Ids, NEW e \in DepthEvents
    PROVE  /\ ApplyDepthEvent(b, e) \in Book
           /\ ApplyDepthEvent(b, e).last_update_id \in Ids
<1>1. ApplyLevels(b.levels, e.changes) \in Ladder
  BY GenuineEvent, HistoryType DEF ApplyLevels, Ladder, Book
<1>2. Ids \subseteq Nat
  BY ExchangeAssumption DEF Ids
<1> QED
  BY <1>1, <1>2, GenuineEvent DEF ApplyDepthEvent, Book, Uncrossed

\* The heart of the synchronization rules: a book that mirrors the exchange at
\* an id between pu and u still mirrors it, at u, after the event is applied.
LEMMA ApplyKeepsMirror ==
    ASSUME NEW b \in Book, NEW e \in DepthEvents, NEW base \in Ids,
           b.valid, b.last_update_id \in Ids,
           e.previous_final_update_id <= b.last_update_id,
           b.last_update_id <= e.final_update_id,
           Mirrors(b, base)
    PROVE  /\ Mirrors(ApplyDepthEvent(b, e), base)
           /\ ApplyDepthEvent(b, e).last_update_id = e.final_update_id
<1> DEFINE after == ApplyDepthEvent(b, e)
<1>1. /\ after.last_update_id = e.final_update_id
      /\ after.levels = ApplyLevels(b.levels, e.changes)
  BY DEF ApplyDepthEvent
<1>2. b.last_update_id \in e.previous_final_update_id .. e.final_update_id
  BY GenuineEvent, ExchangeAssumption DEF Ids
<1>3. ASSUME NEW l \in Level
      PROVE  \/ after.levels[l] = History[after.last_update_id][l]
             \/ after.levels[l] = 0 /\ l \notin Window(base)
  <2>1. CASE l \in DOMAIN e.changes
    BY <1>1, <2>1, GenuineEvent DEF ApplyLevels
  <2>2. CASE l \notin DOMAIN e.changes
    <3>1. after.levels[l] = b.levels[l]
      BY <1>1, <2>2 DEF ApplyLevels
    <3>2. History[b.last_update_id][l] = History[e.final_update_id][l]
      BY <1>2, <2>2, GenuineEvent
    <3> QED
      BY <1>1, <3>1, <3>2 DEF Mirrors, MirrorsAt
  <2> QED
    BY <2>1, <2>2
<1> QED
  BY <1>1, <1>3 DEF Mirrors, MirrorsAt

-------------------------------------------------------------------------------
(* Each member function preserves the invariant. *)

\* clear(), invalidate() and load_snapshot() leave a book.
LEMMA BookOps ==
    /\ ClearedBook \in Book
    /\ \A b \in Book : Invalidate(b) \in Book
    /\ \A id \in Ids : LoadSnapshot(Snapshot(id)) \in Book
<1>1. Ids \subseteq Nat
  BY ExchangeAssumption DEF Ids
<1>2. ClearedBook \in Book
  BY BookAssumption DEF ClearedBook, Book, NoLevels, Ladder
<1>3. \A b \in Book : Invalidate(b) \in Book
  BY DEF Invalidate, Book
<1>4. \A id \in Ids : LoadSnapshot(Snapshot(id)) \in Book
  BY <1>1, GenuineSnapshot DEF LoadSnapshot, Book, Uncrossed
<1> QED
  BY <1>2, <1>3, <1>4

\* An emptied buffer is a buffer within its bound.
LEMMA NoBuffer == <<>> \in Seq(DepthEvents) /\ Len(<<>>) <= MaxBufferedEvents
  BY BufferAssumption

\* The functions that drop the book: nothing is left to mirror.
LEMMA DroppingOps ==
    ASSUME NEW s, SyncInv(s), ~s.draining
    PROVE  /\ SyncInv(OnConnected(s))
           /\ SyncInv(OnDisconnected(s))
           /\ SyncInv(RequestSnapshot(s))
<1>1. s \in Synchronizer /\ s.book \in Book /\ 0 \in Ids /\ ClearedBook.last_update_id \in Ids
  BY ExchangeAssumption DEF SyncInv, Synchronizer, Ids, ClearedBook
<1>2. Invalidate(s.book) \in Book /\ Invalidate(s.book).last_update_id \in Ids
  BY <1>1, BookOps DEF Invalidate, SyncInv, Book
<1>3. SyncInv(OnConnected(s))
  BY <1>1, BookOps, NoBuffer DEF SyncInv, OnConnected, Synchronizer, SyncState, SyncResult
<1>4. SyncInv(OnDisconnected(s))
  BY <1>1, <1>2, NoBuffer DEF SyncInv, OnDisconnected, Synchronizer, SyncState, SyncResult
<1>5. SyncInv(RequestSnapshot(s))
  BY <1>1 DEF SyncInv, RequestSnapshot, Synchronizer, SyncState, SyncResult
<1> QED
  BY <1>3, <1>4, <1>5

\* begin_resync may be reached from a state in which the loop of on_snapshot
\* has found a gap, so only what the function reads is assumed.
LEMMA ResyncOp ==
    ASSUME NEW s \in Synchronizer, s.book.last_update_id \in Ids, ~s.draining,
           Len(s.buffer) <= MaxBufferedEvents
    PROVE  SyncInv(BeginResync(s))
<1>1. Invalidate(s.book) \in Book /\ Invalidate(s.book).last_update_id \in Ids
  BY BookOps DEF Invalidate, Synchronizer, Book
<1>2. 0 \in Ids
  BY ExchangeAssumption DEF Ids
<1> QED
  BY <1>1, <1>2 DEF SyncInv, BeginResync, Synchronizer, SyncState, SyncResult

\* buffer_event: the message is kept, or the overflow drops everything.
LEMMA BufferOp ==
    ASSUME NEW s, SyncInv(s), ~s.draining, s.state \notin {"Syncing", "Live"},
           NEW e \in DepthEvents
    PROVE  SyncInv(BufferEvent(s, e))
<1>1. Invalidate(s.book) \in Book /\ Invalidate(s.book).last_update_id \in Ids
  BY BookOps DEF Invalidate, Synchronizer, Book, SyncInv
<1>2. CASE Len(s.buffer) >= MaxBufferedEvents
  BY <1>1, <1>2, NoBuffer
  DEF SyncInv, BufferEvent, Synchronizer, SyncState, SyncResult
<1>3. CASE ~(Len(s.buffer) >= MaxBufferedEvents)
  <2>1. /\ Append(s.buffer, e) \in Seq(DepthEvents)
        /\ Len(Append(s.buffer, e)) <= MaxBufferedEvents
    BY <1>3, BufferAssumption DEF SyncInv, Synchronizer
  <2> QED
    BY <1>3, <2>1 DEF SyncInv, BufferEvent, Synchronizer, SyncState, SyncResult
<1> QED
  BY <1>2, <1>3

\* detect_gap leaves exactly the offending message buffered.
LEMMA GapOp ==
    ASSUME NEW s \in Synchronizer, s.book.last_update_id \in Ids,
           NEW e \in DepthEvents
    PROVE  /\ DetectGap(s, e) \in Synchronizer
           /\ DetectGap(s, e).book.last_update_id \in Ids
           /\ DetectGap(s, e).result = "GapDetected"
           /\ DetectGap(s, e).state = "GapDetected"
           /\ DetectGap(s, e).draining = s.draining
           /\ Len(DetectGap(s, e).buffer) <= MaxBufferedEvents
<1>1. Invalidate(s.book) \in Book /\ Invalidate(s.book).last_update_id \in Ids
  BY BookOps DEF Invalidate, Synchronizer, Book
<1>2. 0 \in Ids
  BY ExchangeAssumption DEF Ids
<1>3. <<e>> \in Seq(DepthEvents) /\ Len(<<e>>) <= MaxBufferedEvents
  BY BufferAssumption
<1> QED
  BY <1>1, <1>2, <1>3 DEF DetectGap, Synchronizer, SyncState, SyncResult
\* What apply_first_event and apply_contiguous_event leave behind.
Outcome(s, r) ==
    /\ r \in Synchronizer
    /\ r.book.last_update_id \in Ids
    /\ r.draining = s.draining
    /\ Len(r.buffer) <= MaxBufferedEvents
    /\ r.result \in {"Applied", "Stale", "GapDetected", "InvalidBook"}
    /\ r.result = "Applied" => /\ r.state = "Live"
                               /\ r.first_event_applied
                               /\ r.buffer = s.buffer
                               /\ Mirrors(r.book, r.snapshot_update_id)
    /\ r.result = "Stale" => r = [s EXCEPT !.result = "Stale"]
    /\ r.result = "GapDetected" => r.state = "GapDetected"
    /\ r.result = "InvalidBook" => r.state = "Invalid"

\* A synchronizer on which an event may be applied: it mirrors the exchange.
Aligning(s) ==
    /\ s \in Synchronizer
    /\ s.book.last_update_id \in Ids
    /\ Len(s.buffer) <= MaxBufferedEvents
    /\ s.state \in {"Syncing", "Live"}
    /\ Mirrors(s.book, s.snapshot_update_id)

\* Applying an event that covers the book's id keeps the mirror, or ends in
\* an Invalid synchronizer.
LEMMA ApplyOp ==
    ASSUME NEW s, Aligning(s), NEW e \in DepthEvents,
           e.previous_final_update_id <= s.book.last_update_id,
           s.book.last_update_id <= e.final_update_id
    PROVE  Outcome(s, ApplyEvent(s, e, TRUE))
<1> DEFINE after == ApplyDepthEvent(s.book, e)
<1>1. s.book \in Book /\ s.snapshot_update_id \in Ids /\ s \in Synchronizer
  BY DEF Aligning, Synchronizer
<1>2. after \in Book /\ after.last_update_id \in Ids
  BY <1>1, ApplyIsBook DEF Aligning
<1>3. CASE after.valid
  <2>1. s.book.valid
    BY <1>3, <1>1 DEF ApplyDepthEvent
  <2>2. Mirrors(after, s.snapshot_update_id)
    BY <1>1, <2>1, ApplyKeepsMirror DEF Aligning
  <2>3. ApplyEvent(s, e, TRUE)
          = [s EXCEPT !.book = after, !.first_event_applied = TRUE,
                      !.state = "Live", !.result = "Applied"]
    BY <1>3 DEF ApplyEvent
  <2> HIDE DEF after
  <2> QED
    BY <1>1, <1>2, <2>2, <2>3 DEF Outcome, Aligning, Synchronizer, SyncState, SyncResult
<1>4. CASE ~after.valid
  <2>1. ApplyEvent(s, e, TRUE)
          = [s EXCEPT !.book = after, !.state = "Invalid", !.result = "InvalidBook"]
    BY <1>4 DEF ApplyEvent
  <2> HIDE DEF after
  <2> QED
    BY <1>1, <1>2, <2>1 DEF Outcome, Aligning, Synchronizer, SyncState, SyncResult
<1> QED
  BY <1>3, <1>4

\* The first event: the snapshot's id lies in the event, so the event covers
\* everything that moved since the snapshot.
LEMMA FirstEventOp ==
    ASSUME NEW s, Aligning(s), NEW e \in DepthEvents,
           s.book.last_update_id = s.snapshot_update_id
    PROVE  Outcome(s, ApplyFirstEvent(s, e))
<1>1. /\ s \in Synchronizer /\ s.snapshot_update_id \in Int
      /\ s.book.last_update_id \in Ids /\ Len(s.buffer) <= MaxBufferedEvents
  BY ExchangeAssumption DEF Aligning, Synchronizer, Ids
<1>2. /\ e.first_update_id \in Int /\ e.final_update_id \in Int
      /\ e.previous_final_update_id \in Int
      /\ e.previous_final_update_id < e.first_update_id
  BY GenuineEvent, ExchangeAssumption DEF Ids
<1>3. CASE e.final_update_id < s.snapshot_update_id
  <2>1. ApplyFirstEvent(s, e) = [s EXCEPT !.result = "Stale"]
    BY <1>3 DEF ApplyFirstEvent
  <2> QED
    BY <1>1, <2>1 DEF Outcome, Synchronizer, SyncResult
<1>4. CASE ~(e.final_update_id < s.snapshot_update_id)
           /\ e.first_update_id > s.snapshot_update_id
  <2>1. ApplyFirstEvent(s, e) = DetectGap(s, e)
    BY <1>1, <1>2, <1>4 DEF ApplyFirstEvent
  <2> QED
    BY <1>1, <2>1, GapOp DEF Outcome
<1>5. CASE ~(e.final_update_id < s.snapshot_update_id)
           /\ ~(e.first_update_id > s.snapshot_update_id)
  <2>1. ApplyFirstEvent(s, e) = ApplyEvent(s, e, TRUE)
    BY <1>5 DEF ApplyFirstEvent
  <2>2. /\ e.previous_final_update_id <= s.book.last_update_id
        /\ s.book.last_update_id <= e.final_update_id
    BY <1>1, <1>2, <1>5
  <2> QED
    BY <2>1, <2>2, ApplyOp
<1> QED
  BY <1>3, <1>4, <1>5

\* The next events: pu is the book's own id.
LEMMA ContiguousEventOp ==
    ASSUME NEW s, Aligning(s), NEW e \in DepthEvents, s.first_event_applied
    PROVE  Outcome(s, ApplyContiguousEvent(s, e))
<1>1. /\ s \in Synchronizer /\ s.book.last_update_id \in Int
      /\ s.book.last_update_id \in Ids /\ Len(s.buffer) <= MaxBufferedEvents
  BY ExchangeAssumption DEF Aligning, Synchronizer, Ids
<1>2. e.final_update_id \in Int /\ e.previous_final_update_id \in Int
  BY GenuineEvent, ExchangeAssumption DEF Ids
<1>3. CASE e.final_update_id <= s.book.last_update_id
  <2>1. ApplyContiguousEvent(s, e) = [s EXCEPT !.result = "Stale"]
    BY <1>3 DEF ApplyContiguousEvent
  <2> QED
    BY <1>1, <2>1 DEF Outcome, Synchronizer, SyncResult
<1>4. CASE ~(e.final_update_id <= s.book.last_update_id)
           /\ e.previous_final_update_id # s.book.last_update_id
  <2>1. ApplyContiguousEvent(s, e) = DetectGap(s, e)
    BY <1>1, <1>2, <1>4 DEF ApplyContiguousEvent
  <2> QED
    BY <1>1, <2>1, GapOp DEF Outcome
<1>5. CASE ~(e.final_update_id <= s.book.last_update_id)
           /\ e.previous_final_update_id = s.book.last_update_id
  <2>1. ApplyContiguousEvent(s, e) = ApplyEvent(s, e, TRUE)
    <3>1. s.first_event_applied = TRUE
      BY <1>1 DEF Synchronizer
    <3> QED
      BY <1>5, <3>1 DEF ApplyContiguousEvent
  <2>2. /\ e.previous_final_update_id <= s.book.last_update_id
        /\ s.book.last_update_id <= e.final_update_id
    BY <1>1, <1>2, <1>5
  <2> QED
    BY <2>1, <2>2, ApplyOp
<1> QED
  BY <1>3, <1>4, <1>5
\* Turning a gap met while aligning into a resync keeps the invariant; so does
\* any other outcome of a call that was not inside the loop of on_snapshot.
LEMMA OutcomeSettles ==
    ASSUME NEW s, NEW r, Outcome(s, r), ~s.draining, s.buffer = <<>>, SyncInv(s)
    PROVE  SyncInv(r) /\ SyncInv(NeedSnapshotOnGap(r))
<1>1. r \in Synchronizer /\ ~r.draining
  BY DEF Outcome
<1>2. CASE r.result = "Applied"
  BY <1>1, <1>2 DEF Outcome, SyncInv, NeedSnapshotOnGap
<1>3. CASE r.result = "Stale"
  BY <1>1, <1>3 DEF Outcome, SyncInv, NeedSnapshotOnGap, Synchronizer
<1>4. CASE r.result = "GapDetected"
  <2>1. SyncInv(BeginResync(r))
    BY <1>1, ResyncOp DEF Outcome
  <2>2. SyncInv([BeginResync(r) EXCEPT !.result = "NeedSnapshot"])
    BY <2>1 DEF SyncInv, Synchronizer, SyncResult
  <2> QED
    BY <1>1, <1>4, <2>2 DEF Outcome, SyncInv, NeedSnapshotOnGap
<1>5. CASE r.result = "InvalidBook"
  BY <1>1, <1>5 DEF Outcome, SyncInv, NeedSnapshotOnGap
<1> QED
  BY <1>2, <1>3, <1>4, <1>5 DEF Outcome

\* on_depth, in every state.
LEMMA OnDepthOp ==
    ASSUME NEW s, SyncInv(s), ~s.draining, NEW e \in DepthEvents
    PROVE  SyncInv(OnDepth(s, e))
<1>1. s \in Synchronizer
  BY DEF SyncInv
<1>2. CASE s.state = "Disconnected"
  BY <1>1, <1>2 DEF SyncInv, OnDepth, Synchronizer, SyncResult
<1>3. CASE s.state \in {"Buffering", "SnapshotPending", "Resyncing", "GapDetected"}
  <2>1. OnDepth(s, e) = BufferEvent(s, e)
    BY <1>3 DEF OnDepth
  <2> QED
    BY <1>3, <2>1, BufferOp
<1>4. CASE s.state = "Invalid"
  BY <1>1, <1>4 DEF SyncInv, OnDepth, Synchronizer, SyncResult
<1>5. CASE s.state = "Syncing"
  <2>1. /\ OnDepth(s, e) = NeedSnapshotOnGap(ApplyFirstEvent(s, e))
        /\ Aligning(s) /\ s.buffer = <<>>
        /\ s.book.last_update_id = s.snapshot_update_id
    BY <1>1, <1>5 DEF OnDepth, SyncInv, Aligning
  <2> QED
    BY <2>1, FirstEventOp, OutcomeSettles
<1>6. CASE s.state = "Live"
  <2>1. /\ OnDepth(s, e) = ApplyContiguousEvent(s, e)
        /\ Aligning(s) /\ s.buffer = <<>> /\ s.first_event_applied
    BY <1>1, <1>6 DEF OnDepth, SyncInv, Aligning
  <2> QED
    BY <2>1, ContiguousEventOp, OutcomeSettles
<1> QED
  BY <1>1, <1>2, <1>3, <1>4, <1>5, <1>6 DEF Synchronizer, SyncState

\* on_snapshot up to its loops: the loaded book mirrors the exchange at the
\* snapshot's id.
LEMMA OnSnapshotOp ==
    ASSUME NEW s, SyncInv(s), ~s.draining, NEW id \in Ids
    PROVE  SyncInv(OnSnapshot(s, Snapshot(id)))
<1> DEFINE loaded == LoadSnapshot(Snapshot(id))
<1>1. s \in Synchronizer
  BY DEF SyncInv
<1>2. /\ loaded \in Book /\ loaded.last_update_id = id
      /\ Mirrors(loaded, id) /\ Snapshot(id).last_update_id = id
  BY BookOps, GenuineSnapshot DEF LoadSnapshot, Mirrors, MirrorsAt
<1>3. CASE s.state = "Disconnected"
  BY <1>1, <1>3 DEF SyncInv, OnSnapshot, Synchronizer, SyncResult
<1>4. CASE s.state # "Disconnected" /\ loaded.valid
  <2>1. OnSnapshot(s, Snapshot(id))
          = [s EXCEPT !.book = loaded, !.first_event_applied = FALSE,
                      !.snapshot_update_id = id, !.state = "Syncing",
                      !.result = "None", !.draining = TRUE]
    BY <1>1, <1>2, <1>4 DEF OnSnapshot, Synchronizer
  <2> HIDE DEF loaded
  <2> QED
    <3> DEFINE r == OnSnapshot(s, Snapshot(id))
    <3>1. /\ r \in Synchronizer /\ r.book = loaded /\ r.draining
          /\ r.state = "Syncing" /\ ~r.first_event_applied
          /\ r.snapshot_update_id = id /\ r.buffer = s.buffer
      BY <1>1, <1>2, <2>1 DEF Synchronizer, SyncState, SyncResult
    <3> HIDE DEF r
    <3>2. SyncInv(r)
      BY <1>2, <3>1 DEF SyncInv
    <3> QED
      BY <3>2 DEF r
<1>5. CASE s.state # "Disconnected" /\ ~loaded.valid
  <2>1. OnSnapshot(s, Snapshot(id))
          = [s EXCEPT !.book = loaded, !.first_event_applied = FALSE,
                      !.snapshot_update_id = id, !.state = "Invalid",
                      !.result = "InvalidBook"]
    BY <1>1, <1>2, <1>5 DEF OnSnapshot, Synchronizer
  <2> HIDE DEF loaded
  <2> QED
    BY <1>1, <1>2, <2>1 DEF SyncInv, Synchronizer, SyncState, SyncResult
<1> QED
  BY <1>3, <1>4, <1>5

\* How a turn of the loops of on_snapshot ends: the loop goes on after some results.
Settled(r, goesOn) ==
    [NeedSnapshotOnGap(r) EXCEPT !.draining = NeedSnapshotOnGap(r).result \in goesOn]

\* The loop goes on, or it stops, in a synchronizer that satisfies the invariant.
LEMMA DrainSettles ==
    ASSUME NEW p, NEW r, SyncInv(p), p.draining, Outcome(p, r),
           NEW goesOn \in SUBSET {"Applied", "Stale"}, "Applied" \in goesOn,
           r.result = "Stale" => "Stale" \in goesOn
    PROVE  SyncInv(Settled(r, goesOn))
<1> SUFFICES SyncInv([NeedSnapshotOnGap(r) EXCEPT
                        !.draining = NeedSnapshotOnGap(r).result \in goesOn])
  BY DEF Settled
<1>1. p \in Synchronizer /\ r \in Synchronizer /\ r.draining
  BY DEF Outcome, SyncInv
<1>2. CASE r.result = "Applied"
  <2>1. NeedSnapshotOnGap(r) = r
    BY <1>2 DEF NeedSnapshotOnGap
  <2> QED
    BY <1>1, <1>2, <2>1 DEF Outcome, SyncInv, Synchronizer
<1>3. CASE r.result = "Stale"
  <2>1. NeedSnapshotOnGap(r) = r
    BY <1>3 DEF NeedSnapshotOnGap
  <2>2. SyncInv(r)
    BY <1>1, <1>3 DEF Outcome, SyncInv, Synchronizer
  <2>3. r.result \in goesOn
    BY <1>3
  <2>4. [r EXCEPT !.draining = r.result \in goesOn] = r
    BY <1>1, <2>3 DEF Synchronizer
  <2> QED
    BY <2>1, <2>2, <2>4
<1>4. CASE r.result = "GapDetected"
  <2>1. NeedSnapshotOnGap(r) = [BeginResync(r) EXCEPT !.result = "NeedSnapshot"]
    BY <1>4 DEF NeedSnapshotOnGap
  <2>2. (NeedSnapshotOnGap(r).result \in goesOn) = FALSE
    <3>1. BeginResync(r) = [r EXCEPT !.book = Invalidate(@), !.first_event_applied = FALSE,
                                     !.snapshot_update_id = 0, !.state = "Resyncing",
                                     !.result = "None"]
      BY DEF BeginResync
    <3>2. NeedSnapshotOnGap(r).result = "NeedSnapshot"
      BY <1>1, <2>1, <3>1 DEF Synchronizer
    <3> QED
      BY <3>2
  <2>3. [NeedSnapshotOnGap(r) EXCEPT
            !.draining = NeedSnapshotOnGap(r).result \in goesOn]
          = [BeginResync([r EXCEPT !.draining = FALSE]) EXCEPT !.result = "NeedSnapshot"]
    BY <1>1, <2>1, <2>2 DEF BeginResync, Synchronizer
  <2>4. SyncInv(BeginResync([r EXCEPT !.draining = FALSE]))
    <3> DEFINE q == [r EXCEPT !.draining = FALSE]
    <3>1. /\ q \in Synchronizer /\ q.book.last_update_id \in Ids /\ ~q.draining
          /\ Len(q.buffer) <= MaxBufferedEvents
      BY <1>1 DEF Outcome, Synchronizer
    <3> HIDE DEF q
    <3>2. SyncInv(BeginResync(q))
      BY <3>1, ResyncOp
    <3> QED
      BY <3>2 DEF q
  <2> QED
    BY <2>3, <2>4 DEF SyncInv, Synchronizer, SyncResult
<1>5. CASE r.result = "InvalidBook"
  <2>1. NeedSnapshotOnGap(r) = r
    BY <1>5 DEF NeedSnapshotOnGap
  <2>2. (r.result \in goesOn) = FALSE
    BY <1>5
  <2>3. SyncInv([r EXCEPT !.draining = FALSE])
    BY <1>1, <1>5 DEF Outcome, SyncInv, Synchronizer
  <2> QED
    BY <2>1, <2>2, <2>3
<1> QED
  BY <1>2, <1>3, <1>4, <1>5 DEF Outcome

\* One turn of the loops of on_snapshot.
LEMMA DrainStepOp ==
    ASSUME NEW s, SyncInv(s), s.draining
    PROVE  SyncInv(DrainStep(s))
<1> DEFINE e == Head(s.buffer)
           popped == [s EXCEPT !.buffer = Tail(@)]
           first == ApplyFirstEvent(popped, e)
           next == ApplyContiguousEvent(popped, e)
<1>1. s \in Synchronizer /\ s.state \in {"Syncing", "Live"}
  BY DEF SyncInv
<1>2. CASE s.buffer = <<>>
  BY <1>1, <1>2 DEF SyncInv, DrainStep, Synchronizer, SyncResult
<1>3. ASSUME s.buffer # <<>>
      PROVE  /\ e \in DepthEvents
             /\ Aligning(popped) /\ SyncInv(popped) /\ popped.draining
             /\ popped.first_event_applied = s.first_event_applied
             /\ popped.state = s.state
             /\ popped.snapshot_update_id = s.snapshot_update_id
             /\ popped.book = s.book
  <2>1. /\ e \in DepthEvents /\ Tail(s.buffer) \in Seq(DepthEvents)
        /\ Len(Tail(s.buffer)) <= MaxBufferedEvents
    BY <1>1, <1>3, BufferAssumption DEF SyncInv, Synchronizer
  <2> QED
    BY <1>1, <2>1 DEF SyncInv, Aligning, Synchronizer
<1>4. CASE s.buffer # <<>> /\ ~s.first_event_applied
           /\ e.final_update_id < s.snapshot_update_id
  <2>1. DrainStep(s) = popped
    BY <1>4 DEF DrainStep
  <2> QED
    BY <1>3, <1>4, <2>1
<1>5. CASE s.buffer # <<>> /\ ~s.first_event_applied
           /\ ~(e.final_update_id < s.snapshot_update_id)
  <2>1. DrainStep(s) = Settled(first, {"Applied"})
    BY <1>5 DEF DrainStep, Settled
  <2>2. s.state = "Syncing"
    BY <1>1, <1>5 DEF SyncInv
  <2> HIDE DEF popped, e
  <2>3. Outcome(popped, first)
    BY <1>3, <1>5, <2>2, FirstEventOp DEF SyncInv
  <2>4. first.result # "Stale"
    <3>1. \/ first = DetectGap(popped, e)
          \/ first = ApplyEvent(popped, e, TRUE)
      BY <1>3, <1>5 DEF ApplyFirstEvent
    <3>2. DetectGap(popped, e).result # "Stale"
      BY <1>3, <1>5, GapOp DEF SyncInv
    <3>3. ApplyEvent(popped, e, TRUE).result # "Stale"
      BY <1>3, <1>5 DEF ApplyEvent, SyncInv, Synchronizer
    <3> QED
      BY <3>1, <3>2, <3>3
  <2> HIDE DEF first
  <2> QED
    <3>1. SyncInv(popped) /\ popped.draining
      BY <1>3, <1>5
    <3>2. SyncInv(Settled(first, {"Applied"}))
      BY <2>3, <2>4, <3>1, DrainSettles
    <3> QED
      BY <2>1, <3>2
<1>6. CASE s.buffer # <<>> /\ s.first_event_applied
  <2>1. DrainStep(s) = Settled(next, {"Applied", "Stale"})
    BY <1>6 DEF DrainStep, Settled
  <2> HIDE DEF popped, e
  <2>2. Outcome(popped, next)
    BY <1>3, <1>6, ContiguousEventOp
  <2> HIDE DEF next
  <2> QED
    <3>1. SyncInv(popped) /\ popped.draining
      BY <1>3, <1>6
    <3>2. SyncInv(Settled(next, {"Applied", "Stale"}))
      BY <2>2, <3>1, DrainSettles
    <3> QED
      BY <2>1, <3>2
<1> QED
  BY <1>2, <1>4, <1>5, <1>6
-------------------------------------------------------------------------------
(* on_snapshot, run to its end. *)

\* A gap, turned into a resync, leaves a synchronizer.
LEMMA OutcomeTypes ==
    ASSUME NEW s, NEW r, Outcome(s, r)
    PROVE  /\ NeedSnapshotOnGap(r) \in Synchronizer
           /\ NeedSnapshotOnGap(r).buffer = r.buffer
<1>1. r \in Synchronizer
  BY DEF Outcome
<1>2. Invalidate(r.book) \in Book /\ 0 \in Ids
  BY <1>1, BookOps, ExchangeAssumption DEF Synchronizer, Ids
<1> QED
  BY <1>1, <1>2 DEF NeedSnapshotOnGap, BeginResync, Synchronizer, SyncState, SyncResult

\* A turn of the loops that is not the last one takes an event off the buffer.
LEMMA DrainStepShrinks ==
    ASSUME NEW s, SyncInv(s), s.draining, DrainStep(s).draining
    PROVE  s.buffer # <<>> /\ DrainStep(s).buffer = Tail(s.buffer)
<1> DEFINE e == Head(s.buffer)
           popped == [s EXCEPT !.buffer = Tail(@)]
           first == ApplyFirstEvent(popped, e)
           next == ApplyContiguousEvent(popped, e)
<1>1. s \in Synchronizer /\ s.state \in {"Syncing", "Live"}
  BY DEF SyncInv
<1>2. s.buffer # <<>>
  BY <1>1 DEF DrainStep, Synchronizer
<1>3. /\ e \in DepthEvents /\ Aligning(popped) /\ popped.buffer = Tail(s.buffer)
      /\ popped.first_event_applied = s.first_event_applied
      /\ popped.snapshot_update_id = s.snapshot_update_id /\ popped.book = s.book
  <2>1. /\ e \in DepthEvents /\ Tail(s.buffer) \in Seq(DepthEvents)
        /\ Len(Tail(s.buffer)) <= MaxBufferedEvents
    BY <1>1, <1>2, BufferAssumption DEF SyncInv, Synchronizer
  <2> QED
    BY <1>1, <2>1 DEF SyncInv, Aligning, Synchronizer
<1>4. ASSUME NEW r, NEW goesOn \in SUBSET {"Applied", "Stale"}, Outcome(popped, r),
             DrainStep(s) = Settled(r, goesOn)
      PROVE  DrainStep(s).buffer = Tail(s.buffer)
  <2> DEFINE n == NeedSnapshotOnGap(r)
  <2>1. n \in Synchronizer
    BY <1>4, OutcomeTypes
  <2>2. n.result \in goesOn /\ DrainStep(s).buffer = n.buffer
    <3> HIDE DEF n
    <3> QED
      BY <1>4, <2>1 DEF Settled, Synchronizer, n
  <2>3. r.result \in {"Applied", "Stale"} /\ n = r
    BY <1>4, <2>2 DEF NeedSnapshotOnGap, BeginResync, Outcome, Synchronizer
  <2>4. r.buffer = popped.buffer
    BY <1>1, <1>4, <2>3 DEF Outcome, Synchronizer
  <2> QED
    BY <1>3, <2>2, <2>3, <2>4
<1>5. CASE ~s.first_event_applied /\ e.final_update_id < s.snapshot_update_id
  <2>1. DrainStep(s) = popped
    BY <1>2, <1>5 DEF DrainStep
  <2> QED
    BY <1>2, <1>3, <2>1
<1>6. CASE ~s.first_event_applied /\ ~(e.final_update_id < s.snapshot_update_id)
  <2>1. DrainStep(s) = Settled(first, {"Applied"})
    BY <1>2, <1>6 DEF DrainStep, Settled
  <2> HIDE DEF popped, e
  <2>2. Outcome(popped, first)
    BY <1>1, <1>3, <1>6, FirstEventOp DEF SyncInv
  <2> QED
    BY <1>2, <1>4, <2>1, <2>2
<1>7. CASE s.first_event_applied
  <2>1. DrainStep(s) = Settled(next, {"Applied", "Stale"})
    BY <1>2, <1>7 DEF DrainStep, Settled
  <2> HIDE DEF popped, e
  <2>2. Outcome(popped, next)
    BY <1>3, <1>7, ContiguousEventOp
  <2> QED
    BY <1>2, <1>4, <2>1, <2>2
<1> QED
  BY <1>5, <1>6, <1>7

\* A turn, or nothing once the function has returned.
Turn(v) == IF v.draining THEN DrainStep(v) ELSE v

\* What is computed of a loop is what its turns do one after the other.
LEMMA Turns ==
    ASSUME NEW s, SyncInv(s)
    PROVE  \E turn : /\ RunLoops(s) = turn[Len(s.buffer) + 1]
                     /\ turn[0] = s
                     /\ \A n \in Nat : turn[n + 1] = Turn(turn[n])
<1> DEFINE V == {v \in Synchronizer : SyncInv(v)}
           step == [v \in V |-> Turn(v)]
           Computes(f) == f = [n \in Nat |->
                                  IF n = 0 THEN s
                                  ELSE IF f[n - 1].draining THEN DrainStep(f[n - 1]) ELSE f[n - 1]]
           turn == CHOOSE f : Computes(f)
<1>1. s \in V /\ \A v \in V : Turn(v) \in V
  BY DrainStepOp DEF Turn, SyncInv
<1> HIDE DEF V
<1>2. step \in [V -> V]
  BY <1>1
<1>3. PICK f \in [Nat -> V] : f[0] = s /\ \A n \in Nat : f[n + 1] = step[f[n]]
  <2> HIDE DEF step
  <2> QED
    BY <1>1, <1>2, Iterate
<1>4. Computes(f)
  <2>1. ASSUME NEW n \in Nat
        PROVE  f[n] = IF n = 0 THEN s
                      ELSE IF f[n - 1].draining THEN DrainStep(f[n - 1]) ELSE f[n - 1]
    <3>1. CASE n = 0
      BY <1>3, <3>1
    <3>2. CASE n # 0
      <4>1. n - 1 \in Nat /\ (n - 1) + 1 = n
        BY <3>2
      <4>2. f[n] = step[f[n - 1]] /\ f[n - 1] \in V
        BY <1>3, <4>1
      <4> QED
        BY <3>2, <4>2 DEF Turn
    <3> QED
      BY <3>1, <3>2
  <2> QED
    BY <2>1
<1>5. Computes(turn)
  <2> HIDE DEF Computes
  <2> QED
    BY <1>4
<1>6. RunLoops(s) = turn[Len(s.buffer) + 1]
  BY DEF RunLoops
<1> HIDE DEF turn
<1>7. turn[0] = s
  BY <1>5
<1>8. ASSUME NEW n \in Nat
      PROVE  turn[n + 1] = Turn(turn[n])
  <2>1. n + 1 \in Nat /\ n + 1 # 0 /\ (n + 1) - 1 = n
    OBVIOUS
  <2> QED
    BY <1>5, <2>1 DEF Turn
<1> QED
  BY <1>6, <1>7, <1>8

\* The loops end, and whatever every turn of them keeps holds in the end.
LEMMA LoopsEnd ==
    ASSUME NEW s, SyncInv(s), NEW T, s \in T,
           \A v \in T : SyncInv(v) /\ v.draining => DrainStep(v) \in T
    PROVE  SyncInv(RunLoops(s)) /\ ~RunLoops(s).draining /\ RunLoops(s) \in T
<1>1. PICK turn : /\ RunLoops(s) = turn[Len(s.buffer) + 1]
                  /\ turn[0] = s
                  /\ \A n \in Nat : turn[n + 1] = Turn(turn[n])
  BY Turns
<1>2. Len(s.buffer) \in Nat
  BY DEF SyncInv, Synchronizer
<1> DEFINE Good(n) == /\ SyncInv(turn[n]) /\ turn[n] \in T
                      /\ turn[n].draining => Len(turn[n].buffer) = Len(s.buffer) - n
           N == {n \in Nat : Good(n)}
<1>3. 0 \in N
  BY <1>1, <1>2
<1>4. ASSUME NEW n \in Nat, n \in N
      PROVE  n + 1 \in N
  <2>1. /\ turn[n] \in T /\ SyncInv(turn[n])
        /\ turn[n].draining => Len(turn[n].buffer) = Len(s.buffer) - n
    BY <1>4
  <2>2. turn[n + 1] = Turn(turn[n])
    BY <1>1
  <2>3. SyncInv(turn[n + 1]) /\ turn[n + 1] \in T
    BY <2>1, <2>2, DrainStepOp DEF Turn
  <2>4. ASSUME turn[n + 1].draining
        PROVE  Len(turn[n + 1].buffer) = Len(s.buffer) - (n + 1)
    <3>1. turn[n].draining /\ turn[n + 1] = DrainStep(turn[n])
      BY <2>2, <2>4 DEF Turn
    <3>2. turn[n].buffer # <<>> /\ turn[n + 1].buffer = Tail(turn[n].buffer)
      BY <2>1, <2>4, <3>1, DrainStepShrinks
    <3>3. turn[n].buffer \in Seq(DepthEvents)
      BY <2>1 DEF SyncInv, Synchronizer
    <3> QED
      BY <1>2, <2>1, <3>1, <3>2, <3>3
  <2> QED
    BY <2>3, <2>4
<1>5. Nat \subseteq N
  <2> HIDE DEF N
  <2> QED
    BY <1>3, <1>4, NumbersInduct
<1> DEFINE last == Len(s.buffer) + 1
<1>6. last \in Nat /\ Good(last)
  BY <1>2, <1>5
<1>7. ~turn[last].draining
  <2>1. turn[last].buffer \in Seq(DepthEvents)
    BY <1>6 DEF SyncInv, Synchronizer
  <2>2. Len(turn[last].buffer) \in Nat /\ Len(s.buffer) - last = -1
    BY <1>2, <2>1
  <2> QED
    BY <1>6, <2>2
<1> QED
  BY <1>1, <1>6, <1>7

\* Nothing is left to do once the function has returned, and a turn is one of
\* the turns.
LEMMA LoopsFromHere ==
    ASSUME NEW s, SyncInv(s)
    PROVE  /\ ~s.draining => RunLoops(s) = s
           /\ s.draining => RunLoops(DrainStep(s)) = RunLoops(s)
<1>1. PICK turn : /\ RunLoops(s) = turn[Len(s.buffer) + 1]
                  /\ turn[0] = s
                  /\ \A n \in Nat : turn[n + 1] = Turn(turn[n])
  BY Turns
<1>2. Len(s.buffer) \in Nat
  BY DEF SyncInv, Synchronizer
\* From a turn on after which nothing is left to do, nothing is done.
<1>3. ASSUME NEW m \in Nat, ~turn[m].draining, NEW n \in Nat, m <= n
      PROVE  turn[n] = turn[m]
  <2> DEFINE N == {k \in Nat : turn[m + k] = turn[m]}
  <2>1. 0 \in N
    OBVIOUS
  <2>2. ASSUME NEW k \in Nat, k \in N PROVE k + 1 \in N
    <3>1. m + k \in Nat /\ (m + k) + 1 = m + (k + 1)
      OBVIOUS
    <3>2. turn[m + (k + 1)] = Turn(turn[m + k])
      BY <1>1, <3>1
    <3> QED
      BY <1>3, <2>2, <3>2 DEF Turn
  <2>3. Nat \subseteq N
    <3> HIDE DEF N
    <3> QED
      BY <2>1, <2>2, NumbersInduct
  <2>4. n - m \in Nat /\ m + (n - m) = n
    BY <1>3
  <2> QED
    BY <2>3, <2>4
<1>4. ~s.draining => RunLoops(s) = s
  BY <1>1, <1>2, <1>3
<1>5. ASSUME s.draining
      PROVE  RunLoops(DrainStep(s)) = RunLoops(s)
  <2> DEFINE t == DrainStep(s)
  <2>1. SyncInv(t) /\ turn[1] = t
    <3>1. turn[0 + 1] = Turn(turn[0])
      BY <1>1
    <3> QED
      BY <1>1, <1>5, <3>1, DrainStepOp DEF Turn
  <2>2. CASE ~t.draining
    <3>1. RunLoops(t) = t
      <4> HIDE DEF t
      <4>0. SyncInv(t)
        BY <2>1
      <4>1. PICK later : /\ RunLoops(t) = later[Len(t.buffer) + 1]
                         /\ later[0] = t
                         /\ \A n \in Nat : later[n + 1] = Turn(later[n])
        BY <4>0, Turns
      <4>2. Len(t.buffer) \in Nat
        BY <2>1 DEF SyncInv, Synchronizer
      <4> DEFINE N == {n \in Nat : later[n] = t}
      <4>3. 0 \in N
        BY <4>1
      <4>4. ASSUME NEW n \in Nat, n \in N PROVE n + 1 \in N
        <5>1. later[n + 1] = Turn(later[n]) /\ later[n] = t
          BY <4>1, <4>4
        <5>2. Turn(t) = t
          BY <2>2 DEF Turn, t
        <5> QED
          BY <5>1, <5>2
      <4>5. Nat \subseteq N
        <5> HIDE DEF N
        <5> QED
          BY <4>3, <4>4, NumbersInduct
      <4> QED
        BY <4>1, <4>2, <4>5
    <3>2. turn[Len(s.buffer) + 1] = turn[1]
      BY <1>2, <1>3, <2>1, <2>2
    <3> QED
      BY <1>1, <2>1, <3>1, <3>2
  <2>3. CASE t.draining
    <3>1. s.buffer # <<>> /\ t.buffer = Tail(s.buffer)
      BY <1>5, <2>3, DrainStepShrinks
    <3>2. Len(t.buffer) = Len(s.buffer) - 1
      <4>1. s.buffer \in Seq(DepthEvents)
        BY DEF SyncInv, Synchronizer
      <4> HIDE DEF t
      <4> QED
        BY <3>1, <4>1
    <3> HIDE DEF t
    <3>0. SyncInv(t)
      BY <2>1
    <3>3. PICK later : /\ RunLoops(t) = later[Len(t.buffer) + 1]
                       /\ later[0] = t
                       /\ \A n \in Nat : later[n + 1] = Turn(later[n])
      BY <3>0, Turns
    <3> DEFINE N == {n \in Nat : later[n] = turn[n + 1]}
    <3>4. 0 \in N
      BY <2>1, <3>3
    <3>5. ASSUME NEW n \in Nat, n \in N PROVE n + 1 \in N
      <4>1. n + 1 \in Nat
        OBVIOUS
      <4> QED
        BY <1>1, <3>3, <3>5, <4>1
    <3>6. Nat \subseteq N
      <4> HIDE DEF N
      <4> QED
        BY <3>4, <3>5, NumbersInduct
    <3>7. s.buffer \in Seq(DepthEvents)
      BY DEF SyncInv, Synchronizer
    <3>8. Len(s.buffer) \in N
      BY <1>2, <3>6
    <3>9. later[Len(s.buffer)] = turn[Len(s.buffer) + 1] /\ Len(t.buffer) + 1 = Len(s.buffer)
      BY <1>2, <3>2, <3>8
    <3> QED
      BY <1>1, <3>3, <3>9 DEF t
  <2> QED
    BY <2>2, <2>3
<1> QED
  BY <1>4, <1>5

-------------------------------------------------------------------------------
(* The theorems about the component. *)

\* A new synchronizer satisfies the invariant.
LEMMA InitEstablishes == Init => SyncInv(ds)
<1>1. ClearedBook \in Book /\ ClearedBook.last_update_id \in Ids /\ 0 \in Ids
  BY BookOps, ExchangeAssumption DEF ClearedBook, Ids
<1> QED
  BY <1>1, NoBuffer DEF Init, NewSynchronizer, SyncInv, Synchronizer, SyncState, SyncResult

\* Every call preserves the invariant.
LEMMA NextPreserves == SyncInv(ds) /\ [Next]_ds => SyncInv(ds')
<1> SUFFICES ASSUME SyncInv(ds), [Next]_ds
             PROVE  SyncInv(ds')
  OBVIOUS
<1>1. CASE Connect
  BY <1>1, DroppingOps DEF Connect
<1>2. CASE Disconnect
  BY <1>2, DroppingOps DEF Disconnect
<1>3. CASE Request
  BY <1>3, DroppingOps DEF Request
<1>4. CASE Resync
  BY <1>4, ResyncOp DEF Resync, SyncInv
<1>5. CASE \E event \in DepthEvents : Depth(event)
  BY <1>5, OnDepthOp DEF Depth
<1>6. CASE \E id \in Ids : TakeSnapshot(id)
  BY <1>6, OnSnapshotOp DEF TakeSnapshot
<1>7. CASE Drain
  BY <1>7, DrainStepOp DEF Drain
<1>8. CASE UNCHANGED ds
  BY <1>8
<1> QED
  BY <1>1, <1>2, <1>3, <1>4, <1>5, <1>6, <1>7, <1>8 DEF Next

\* The invariant holds of every behaviour of the synchronizer.
THEOREM SyncInvariant == Spec => []SyncInv(ds)
<1>1. Init => SyncInv(ds)
  BY InitEstablishes
<1>2. SyncInv(ds) /\ [Next]_ds => SyncInv(ds)'
  BY NextPreserves
<1> QED
  BY <1>1, <1>2, PTL DEF Spec

\* The synchronizer of depth_sync.cpp always holds values of its types.
THEOREM TypeCorrect == Spec => []TypeOK
<1>1. SyncInv(ds) => TypeOK
  BY DEF SyncInv, TypeOK
<1> QED
  BY <1>1, SyncInvariant, PTL

\* is_live() implies that the local book is the exchange's book at
\* last_update_id, for every exchange, every order of genuine messages and
\* snapshots, and every loss or repetition.
THEOREM LiveBookCorrect == Spec => []LiveBookIsExchangeBook
<1>1. SyncInv(ds) => LiveBookIsExchangeBook
  BY DEF SyncInv, LiveBookIsExchangeBook, IsLive
<1> QED
  BY <1>1, SyncInvariant, PTL

\* Once a call has returned, an aligned synchronizer has consumed its buffer,
\* the alignment flag agrees with the state, and the buffer is within its bound.
THEOREM BufferCorrect == Spec => []BufferDiscipline
<1>1. SyncInv(ds) => BufferDiscipline
  BY DEF SyncInv, BufferDiscipline, NoEventLeftBehind, AlignmentFlag, BufferBounded
<1> QED
  BY <1>1, SyncInvariant, PTL

-------------------------------------------------------------------------------
(* DepthSync implements MirroredBook. *)

\* An event applied to a live book keeps its base and moves its id forward.
LEMMA ContiguousAdvances ==
    ASSUME NEW s, Aligning(s), NEW e \in DepthEvents, s.first_event_applied,
           IsLive(s), IsLive(ApplyContiguousEvent(s, e))
    PROVE  LET r == ApplyContiguousEvent(s, e)
           IN  /\ r.snapshot_update_id = s.snapshot_update_id
               /\ r.book = s.book \/ r.book.last_update_id > s.book.last_update_id
<1> DEFINE r == ApplyContiguousEvent(s, e)
           after == ApplyDepthEvent(s.book, e)
<1>1. /\ s \in Synchronizer /\ s.book.last_update_id \in Int /\ e.final_update_id \in Int
  BY GenuineEvent, ExchangeAssumption DEF Aligning, Ids
<1>2. CASE e.final_update_id <= s.book.last_update_id
  BY <1>1, <1>2 DEF ApplyContiguousEvent, Synchronizer
<1>3. CASE ~(e.final_update_id <= s.book.last_update_id)
           /\ e.previous_final_update_id # s.book.last_update_id
  <2>1. r = DetectGap(s, e)
    BY <1>3 DEF ApplyContiguousEvent
  <2> QED
    BY <1>1, <2>1, GapOp DEF IsLive, Aligning
<1>4. CASE ~(e.final_update_id <= s.book.last_update_id)
           /\ e.previous_final_update_id = s.book.last_update_id
  <2>1. r = ApplyEvent(s, e, s.first_event_applied)
    BY <1>4 DEF ApplyContiguousEvent
  <2>2. after.last_update_id = e.final_update_id
    BY DEF ApplyDepthEvent, IsLive
  <2>3. after.valid
    <3> HIDE DEF after
    <3>1. ~after.valid => r = [s EXCEPT !.book = after, !.state = "Invalid", !.result = "InvalidBook"]
      BY <2>1 DEF ApplyEvent, after
    <3> QED
      BY <1>1, <3>1 DEF IsLive, Synchronizer
  <2>4. r = [s EXCEPT !.book = after, !.first_event_applied = s.first_event_applied,
                      !.state = "Live", !.result = "Applied"]
    BY <2>1, <2>3 DEF ApplyEvent
  <2> HIDE DEF after, r
  <2>5. r.book = after /\ r.snapshot_update_id = s.snapshot_update_id
    BY <1>1, <2>4 DEF Synchronizer
  <2> QED
    BY <1>1, <1>4, <2>2, <2>5 DEF r
<1> QED
  BY <1>2, <1>3, <1>4
\* A book that is in sight before and after a step keeps the snapshot it was
\* built from, and is unchanged or has a greater id.
LEMMA LiveStep ==
    ASSUME SyncInv(ds), Next, IsLive(ds), IsLive(ds')
    PROVE  /\ ds'.snapshot_update_id = ds.snapshot_update_id
           /\ ds'.book = ds.book \/ ds'.book.last_update_id > ds.book.last_update_id
<1>1. ds \in Synchronizer /\ Aligning(ds) /\ ds.first_event_applied /\ ds.state = "Live"
  BY DEF SyncInv, IsLive, Aligning
<1>2. CASE Connect
  BY <1>1, <1>2 DEF Connect, OnConnected, IsLive, Synchronizer
<1>3. CASE Disconnect
  BY <1>1, <1>3 DEF Disconnect, OnDisconnected, IsLive, Synchronizer
<1>4. CASE Request
  BY <1>1, <1>4 DEF Request, RequestSnapshot, IsLive, Synchronizer
<1>5. CASE Resync
  BY <1>1, <1>5 DEF Resync, BeginResync, IsLive, Synchronizer
<1>6. CASE \E event \in DepthEvents : Depth(event)
  <2>1. PICK e \in DepthEvents : Depth(e)
    BY <1>6
  <2>2. ds' = ApplyContiguousEvent(ds, e)
    BY <1>1, <2>1 DEF Depth, OnDepth
  <2> QED
    BY <1>1, <2>2, ContiguousAdvances
<1>7. CASE \E id \in Ids : TakeSnapshot(id)
  <2>1. PICK id \in Ids : TakeSnapshot(id)
    BY <1>7
  <2>2. OnSnapshot(ds, Snapshot(id)).state \in {"Syncing", "Invalid"}
    BY <1>1 DEF OnSnapshot, Synchronizer
  <2> QED
    BY <2>1, <2>2 DEF TakeSnapshot, IsLive
<1>8. CASE Drain
  <2>1. CASE ds.buffer = <<>>
    BY <1>1, <1>8, <2>1 DEF Drain, DrainStep, Synchronizer
  <2>2. CASE ds.buffer # <<>>
    <3> DEFINE e == Head(ds.buffer)
               popped == [ds EXCEPT !.buffer = Tail(@)]
               r == ApplyContiguousEvent(popped, e)
               n == NeedSnapshotOnGap(r)
    <3>1. e \in DepthEvents /\ Tail(ds.buffer) \in Seq(DepthEvents)
          /\ Len(Tail(ds.buffer)) <= MaxBufferedEvents
      BY <1>1, <2>2, BufferAssumption DEF SyncInv, Synchronizer
    <3>2. /\ Aligning(popped) /\ popped.first_event_applied /\ IsLive(popped)
          /\ popped.book = ds.book /\ popped.snapshot_update_id = ds.snapshot_update_id
      BY <1>1, <3>1 DEF Aligning, IsLive, Synchronizer
    <3>3. ds' = [n EXCEPT !.draining = n.result \in {"Applied", "Stale"}]
      BY <1>1, <1>8, <2>2 DEF Drain, DrainStep
    <3> HIDE DEF popped, e
    <3>4. Outcome(popped, r)
      BY <3>1, <3>2, ContiguousEventOp DEF e
    <3> HIDE DEF r
    <3>5. r.result # "GapDetected"
      <4>1. r.result = "GapDetected" => n.state = "Resyncing" /\ ds'.state = n.state
        BY <3>3, <3>4 DEF NeedSnapshotOnGap, BeginResync, Outcome, Synchronizer
      <4> QED
        BY <4>1 DEF IsLive
    <3>6. n = r
      BY <3>5 DEF NeedSnapshotOnGap
    <3>7. /\ ds'.book = r.book /\ ds'.state = r.state
          /\ ds'.snapshot_update_id = r.snapshot_update_id
      BY <3>3, <3>4, <3>6 DEF Outcome, Synchronizer
    <3>8. IsLive(r)
      BY <3>7 DEF IsLive
    <3> QED
      BY <3>1, <3>2, <3>7, <3>8, ContiguousAdvances DEF r, e
  <2> QED
    BY <2>1, <2>2
<1> QED
  BY <1>2, <1>3, <1>4, <1>5, <1>6, <1>7, <1>8 DEF Next

\* DepthSynchronizer implements MirroredBook: what is_live() lets a reader see
\* appears and disappears, and in between only advances over one snapshot.
THEOREM Refinement == Spec => KeepsPromise
<1>1. Init => Promise!Init
  BY DEF Init, NewSynchronizer, Promise!Init, Promise!Nothing, DisplayedView, IsLive
<1>2. SyncInv(ds) /\ SyncInv(ds)' /\ [Next]_ds => [Promise!Next]_DisplayedView
  <2> SUFFICES ASSUME SyncInv(ds), SyncInv(ds'), [Next]_ds
               PROVE  [Promise!Next]_DisplayedView
    OBVIOUS
  <2>1. CASE UNCHANGED ds
    BY <2>1 DEF DisplayedView, IsLive
  <2>2. CASE Next /\ ~IsLive(ds')
    BY <2>2 DEF Promise!Next, Promise!Lose, Promise!Nothing, DisplayedView
  <2>3. ASSUME IsLive(ds')
        PROVE  FaithfulView(DisplayedView')
    <3>1. /\ ds'.book.last_update_id \in Ids /\ ds'.snapshot_update_id \in Ids
          /\ Mirrors(ds'.book, ds'.snapshot_update_id)
      BY <2>3 DEF SyncInv, IsLive, Synchronizer
    <3> QED
      BY <2>3, <3>1 DEF FaithfulView, DisplayedView, Mirrors
  <2>4. CASE Next /\ IsLive(ds') /\ ~IsLive(ds)
    BY <2>3, <2>4 DEF Promise!Next, Promise!Acquire, DisplayedView
  <2>5. CASE Next /\ IsLive(ds') /\ IsLive(ds)
    <3>1. /\ ds'.snapshot_update_id = ds.snapshot_update_id
          /\ ds'.book = ds.book \/ ds'.book.last_update_id > ds.book.last_update_id
      BY <2>5, LiveStep
    <3> QED
      BY <2>3, <2>5, <3>1 DEF Promise!Next, Promise!Advance, DisplayedView
  <2> QED
    BY <2>1, <2>2, <2>4, <2>5
<1> QED
  BY <1>1, <1>2, SyncInvariant, PTL DEF Spec, KeepsPromise, Promise!Spec
===============================================================================
