--------------------------- MODULE CollectorProofs ----------------------------
(***************************************************************************)
(* Proofs about Collector for every exchange, every feed, every kind and   *)
(* number of faults and every buffer size.  What the threads do to the     *)
(* synchronizer is a behaviour of DepthSync, so the theorems of            *)
(* DepthSyncProofs hold in the collector; the sessions and the snapshot    *)
(* requests follow from one inductive invariant about the threads.         *)
(***************************************************************************)
EXTENDS Collector, DepthSyncProofs

Aligned == {"Syncing", "Live"}

\* Who is in which function: `draining' is main's loop, and the two threads
\* are never in their critical sections together.
Control ==
    /\ ds.draining <=> mpc = "drain"
    /\ dpc = "resync" => mpc \notin {"drain", "resync"}
    /\ dpc = "on_depth" => message # Malformed
    /\ dpc = "ended" => stop

\* current_depth_session is set exactly while the synchronizer is connected,
\* and tells where the depth thread can be.
Sessions ==
    /\ session # NoSession <=> ds.state # "Disconnected"
    /\ dpc \in {"down", "connecting", "on_open", "open_lock"} => session = NoSession
    /\ dpc \in {"open_request", "read", "parse_failed", "on_depth", "resync", "closing"} =>
          session # NoSession
    /\ dpc \in DepthPc \ {"down", "ended"} => connection # NoSession
    /\ dpc = "open_request" => ds.buffer = <<>> /\ ds.state # "Live"
    /\ mpc \in {"drain", "resync"} => session # NoSession

\* A snapshot in hand for the connection that is open is not older than it; an
\* attempt that is still connecting has no snapshot requested for it.
Bases ==
    /\ opened_at <= FinalId(published)
    /\ session_at_request \in 0 .. connection
    /\ dpc = "connecting" => session_at_request # connection
    /\ session_at_request = connection /\ mpc \in {"store", "install"} => snapshot >= opened_at

\* The inductive invariant.
CollInv ==
    /\ SyncInv(ds) /\ CTypeOK
    /\ Control /\ Sessions /\ Bases
    /\ SnapshotRequestNotLost /\ SnapshotOfThisConnection

-------------------------------------------------------------------------------
(* The feed and the venue. *)

\* The feed's final ids are ids of the exchange and grow.
LEMMA FeedIds ==
    ASSUME NEW n \in 0 .. Len(Feed)
    PROVE  /\ FinalId(n) \in Ids
           /\ n < Len(Feed) => FinalId(n) < FinalId(n + 1)
<1> USE CollectorAssumption
<1>1. \A k \in 1 .. Len(Feed) : Feed[k] \in DepthEvents
  OBVIOUS
<1>2. \A k \in 1 .. Len(Feed) :
         /\ Feed[k].final_update_id \in Ids
         /\ Feed[k].previous_final_update_id \in Ids
         /\ Feed[k].previous_final_update_id < Feed[k].final_update_id
  <2> TAKE k \in 1 .. Len(Feed)
  <2> DEFINE e == Feed[k]
  <2>1. /\ e.first_update_id \in Ids /\ e.final_update_id \in Ids
        /\ e.previous_final_update_id \in Ids
        /\ e.previous_final_update_id < e.first_update_id
        /\ e.first_update_id <= e.final_update_id
    BY <1>1, GenuineEvent
  <2>2. \A i \in Ids : i \in Int
    BY ExchangeAssumption DEF Ids
  <2> HIDE DEF e
  <2>3. e.previous_final_update_id < e.final_update_id
    BY <2>1, <2>2
  <2> QED
    BY <2>1, <2>3 DEF e
<1>3. 0 \in Ids
  BY ExchangeAssumption DEF Ids
<1>4. Feed = <<>> <=> Len(Feed) = 0
  OBVIOUS
<1>5. CASE n = 0
  BY <1>2, <1>3, <1>4, <1>5 DEF FinalId
<1>6. CASE n # 0
  <2>1. n \in 1 .. Len(Feed)
    BY <1>6
  <2>2. ASSUME n < Len(Feed) PROVE FinalId(n) < FinalId(n + 1)
    <3>1. n + 1 \in 2 .. Len(Feed) /\ n + 1 \in 1 .. Len(Feed) /\ (n + 1) - 1 = n /\ n + 1 # 0
      BY <2>1, <2>2
    <3>2. Feed[n + 1].previous_final_update_id = Feed[n].final_update_id
      BY <3>1
    <3> QED
      BY <1>2, <1>6, <3>1, <3>2 DEF FinalId
  <2> QED
    BY <1>2, <1>6, <2>1, <2>2 DEF FinalId
<1> QED
  BY <1>5, <1>6

\* A snapshot served now is at an id of the exchange, not before the last
\* message.
LEMMA VenueSnapshot ==
    ASSUME published \in 0 .. Len(Feed), NEW id \in VenueIds
    PROVE  id \in Ids /\ id >= FinalId(published)
<1>0. Len(Feed) \in Nat
  BY CollectorAssumption
<1>1. FinalId(published) \in Ids
  BY FeedIds
<1>2. published < Len(Feed) => FinalId(published + 1) \in Ids
  BY <1>0, FeedIds
<1> QED
  BY <1>0, <1>1, <1>2, ExchangeAssumption DEF VenueIds, Ids

-------------------------------------------------------------------------------
(* What a call does to the fields the threads depend on. *)

Waiting == {"Buffering", "SnapshotPending", "GapDetected", "Invalid", "Resyncing"}

\* s is aligned or being aligned, and r is what a call made of it: it is still
\* connected, on the same snapshot if it is still aligned, and the result says
\* so if it is not.
Keeps(s, r) ==
    /\ DOMAIN r = DOMAIN s
    /\ r.draining = s.draining
    /\ r.state # "Disconnected"
    /\ r.state \in Aligned => r.snapshot_update_id = s.snapshot_update_id
    /\ r.state \in Waiting => r.result \in NeedsResync
    /\ r.result \in {"Applied", "Stale"} => r.state \in Aligned

LEMMA ApplyKeeps ==
    ASSUME NEW s \in Synchronizer, s.state \in Aligned, NEW e
    PROVE  /\ Keeps(s, ApplyFirstEvent(s, e))
           /\ Keeps(s, ApplyContiguousEvent(s, e))
<1>1. Keeps(s, DetectGap(s, e))
  BY DEF Keeps, DetectGap, Synchronizer, Aligned, Waiting, NeedsResync
<1>2. Keeps(s, [s EXCEPT !.result = "Stale"])
  BY DEF Keeps, Synchronizer, Aligned, Waiting, NeedsResync
<1>3. \A aligned : Keeps(s, ApplyEvent(s, e, aligned))
  BY DEF Keeps, ApplyEvent, Synchronizer, Aligned, Waiting, NeedsResync
<1> QED
  BY <1>1, <1>2, <1>3 DEF ApplyFirstEvent, ApplyContiguousEvent

LEMMA NeedSnapshotKeeps ==
    ASSUME NEW s \in Synchronizer, NEW r, Keeps(s, r)
    PROVE  Keeps(s, NeedSnapshotOnGap(r))
<1>1. {"state", "result", "snapshot_update_id", "draining"} \subseteq DOMAIN r
  BY DEF Keeps, Synchronizer
<1>2. CASE r.result = "GapDetected"
  BY <1>1, <1>2 DEF Keeps, NeedSnapshotOnGap, BeginResync, Aligned, Waiting, NeedsResync
<1>3. CASE r.result # "GapDetected"
  BY <1>3 DEF NeedSnapshotOnGap
<1> QED
  BY <1>2, <1>3

\* on_depth never changes whether the synchronizer is connected, and whenever
\* it ends an alignment its result asks for a resync.
LEMMA OnDepthEffect ==
    ASSUME NEW s \in Synchronizer, NEW e
    PROVE  LET r == OnDepth(s, e)
           IN  /\ r.draining = s.draining
               /\ r.state = "Disconnected" <=> s.state = "Disconnected"
               /\ r.state \in Aligned => /\ s.state \in Aligned
                                         /\ r.snapshot_update_id = s.snapshot_update_id
               /\ s.state \in Aligned /\ r.state \in Waiting => r.result \in NeedsResync
<1>1. CASE s.state \in Aligned
  <2>1. \/ OnDepth(s, e) = NeedSnapshotOnGap(ApplyContiguousEvent(s, e))
        \/ OnDepth(s, e) = NeedSnapshotOnGap(ApplyFirstEvent(s, e))
        \/ OnDepth(s, e) = ApplyContiguousEvent(s, e)
    BY <1>1 DEF OnDepth, Aligned
  <2>2. Keeps(s, OnDepth(s, e))
    BY <1>1, <2>1, ApplyKeeps, NeedSnapshotKeeps
  <2> QED
    BY <1>1, <2>2 DEF Keeps, Aligned
<1>2. CASE s.state \in {"Buffering", "SnapshotPending", "Resyncing", "GapDetected"}
  BY <1>2 DEF OnDepth, BufferEvent, Synchronizer, Aligned, Waiting
<1>3. CASE s.state \in {"Disconnected", "Invalid"}
  BY <1>3 DEF OnDepth, Synchronizer, Aligned, Waiting
<1> QED
  BY <1>1, <1>2, <1>3 DEF Synchronizer, SyncState, Aligned

\* on_snapshot up to its loops.
LEMMA OnSnapshotEffect ==
    ASSUME NEW s \in Synchronizer, NEW id \in Ids, ~s.draining
    PROVE  LET r == OnSnapshot(s, Snapshot(id))
           IN  /\ r.buffer = s.buffer
               /\ r.state = "Disconnected" <=> s.state = "Disconnected"
               /\ r.state # "Disconnected" => r.state \in {"Syncing", "Invalid"}
               /\ r.draining <=> r.state = "Syncing"
               /\ r.draining => r.snapshot_update_id = id
               /\ r.result = "InvalidBook" <=> r.state = "Invalid"
<1>1. Snapshot(id).last_update_id = id
  BY GenuineSnapshot
<1>2. CASE s.state = "Disconnected"
  BY <1>2 DEF OnSnapshot, Synchronizer
<1>3. CASE s.state # "Disconnected"
  BY <1>1, <1>3 DEF OnSnapshot, Synchronizer
<1> QED
  BY <1>2, <1>3

\* One turn of the loops: as long as they run the alignment stands, and if they
\* end it the result asks for a resync.
LEMMA DrainStepEffect ==
    ASSUME NEW s \in Synchronizer, s.state \in Aligned, s.draining
    PROVE  LET r == DrainStep(s)
           IN  /\ r.state # "Disconnected"
               /\ r.state \in Aligned => r.snapshot_update_id = s.snapshot_update_id
               /\ r.draining \in BOOLEAN
               /\ r.draining => r.state \in Aligned
               /\ r.state \in Waiting => r.result \in {"NeedSnapshot", "InvalidBook"}
               /\ s.buffer = <<>> => r.buffer = <<>> /\ r.state = s.state
<1> DEFINE e == Head(s.buffer)
           popped == [s EXCEPT !.buffer = Tail(@)]
<1>1. CASE s.buffer = <<>>
  BY <1>1 DEF DrainStep, Synchronizer, Aligned, Waiting
<1>2. ASSUME s.buffer # <<>>
      PROVE  /\ popped \in Synchronizer /\ popped.state = s.state /\ popped.draining
             /\ popped.snapshot_update_id = s.snapshot_update_id
  <2>1. Tail(s.buffer) \in Seq(DepthEvents)
    BY <1>2 DEF Synchronizer
  <2> QED
    BY <2>1 DEF Synchronizer
<1>3. CASE s.buffer # <<>> /\ DrainStep(s) = popped
  BY <1>2, <1>3 DEF Synchronizer, Aligned, Waiting
<1>4. ASSUME NEW r, NEW goesOn, Keeps(popped, r), s.buffer # <<>>, goesOn \subseteq {"Applied", "Stale"},
             DrainStep(s) = [NeedSnapshotOnGap(r) EXCEPT
                               !.draining = NeedSnapshotOnGap(r).result \in goesOn]
      PROVE  LET q == DrainStep(s)
             IN  /\ q.state # "Disconnected"
                 /\ q.state \in Aligned => q.snapshot_update_id = s.snapshot_update_id
                 /\ q.draining \in BOOLEAN
                 /\ q.draining => q.state \in Aligned
                 /\ q.state \in Waiting => q.result \in {"NeedSnapshot", "InvalidBook"}
  <2> DEFINE n == NeedSnapshotOnGap(r)
  <2>1. Keeps(popped, n)
    BY <1>2, <1>4, NeedSnapshotKeeps
  <2>2. n.result # "GapDetected"
    <3>1. {"state", "result", "snapshot_update_id", "draining"} \subseteq DOMAIN r
      BY <1>2, <1>4 DEF Keeps, Synchronizer
    <3> QED
      BY <3>1 DEF NeedSnapshotOnGap, BeginResync
  <2>3. {"state", "result", "snapshot_update_id", "draining"} \subseteq DOMAIN n
    BY <1>2, <2>1 DEF Keeps, Synchronizer
  <2>4. /\ DrainStep(s).state = n.state
        /\ DrainStep(s).snapshot_update_id = n.snapshot_update_id
        /\ DrainStep(s).result = n.result
        /\ DrainStep(s).draining = (n.result \in goesOn)
    BY <1>4, <2>3
  <2> HIDE DEF n, popped
  <2> QED
    <3>1. popped.snapshot_update_id = s.snapshot_update_id
      BY <1>2, <1>4
    <3>2. /\ n.state # "Disconnected"
          /\ n.state \in Aligned => n.snapshot_update_id = s.snapshot_update_id
          /\ n.state \in Waiting => n.result \in {"NeedSnapshot", "InvalidBook"}
          /\ n.result \in goesOn => n.state \in Aligned
      BY <1>4, <2>1, <2>2, <3>1 DEF Keeps, NeedsResync
    <3>3. (n.result \in goesOn) \in BOOLEAN
      OBVIOUS
    <3> QED
      BY <2>4, <3>2, <3>3
<1>5. CASE s.buffer # <<>> /\ DrainStep(s) # popped
  <2> DEFINE first == ApplyFirstEvent(popped, e)
             next == ApplyContiguousEvent(popped, e)
  <2>1. Keeps(popped, first) /\ Keeps(popped, next)
    BY <1>2, <1>5, ApplyKeeps
  <2>2. \/ DrainStep(s) = [NeedSnapshotOnGap(next) EXCEPT
                !.draining = NeedSnapshotOnGap(next).result \in {"Applied", "Stale"}]
        \/ DrainStep(s) = [NeedSnapshotOnGap(first) EXCEPT
                !.draining = NeedSnapshotOnGap(first).result \in {"Applied"}]
    BY <1>5 DEF DrainStep
  <2> HIDE DEF first, next, popped
  <2> QED
    BY <1>4, <1>5, <2>1, <2>2
<1> QED
  BY <1>1, <1>3, <1>5

-------------------------------------------------------------------------------
(* Every step of the collector is a legal call, or none. *)

LEMMA DepthLegal == CollInv /\ DepthThread => [Next]_ds
<1> SUFFICES ASSUME CollInv, DepthThread, ~UNCHANGED ds
             PROVE  Next
  OBVIOUS
<1>1. mutex = "free" => ~ds.draining
  BY DEF CollInv, CTypeOK, Control
<1>2. CASE DepthOpenLock
  BY <1>1, <1>2 DEF DepthOpenLock, Next, Connect
<1>3. CASE DepthParseFailed
  BY <1>1, <1>3 DEF DepthParseFailed, DepthGoes, CollInv, Sessions, Next, Resync
<1>4. CASE DepthApply
  <2>1. Feed[message] \in DepthEvents
    BY <1>4, CollectorAssumption DEF DepthApply, CollInv, Control, CTypeOK, Malformed
  <2> QED
    BY <1>1, <1>4, <2>1 DEF DepthApply, Next, Depth
<1>5. CASE DepthResync
  BY <1>5 DEF DepthResync, DepthGoes, CollInv, Control, Sessions, Next, Resync
<1>6. CASE DepthCloseLock
  BY <1>1, <1>6 DEF DepthCloseLock, Next, Disconnect
<1> QED
  BY <1>2, <1>3, <1>4, <1>5, <1>6
  DEF DepthThread, DepthConnect, DepthConnected, DepthConnectFails, DepthEnds, DepthOpenWrite,
      DepthOpenRequest, DepthReceive, DepthReceiveSkipping, DepthReceiveMalformed,
      DepthReceiveWriteThrows, Reads, DepthLeavesRead, DepthClosed, DepthCloseWrite

LEMMA MainLegal == CollInv /\ MainThread => [Next]_ds
<1> SUFFICES ASSUME CollInv, MainThread, ~UNCHANGED ds
             PROVE  Next
  OBVIOUS
<1>1. mpc # "drain" => ~ds.draining
  BY DEF CollInv, Control
<1>2. CASE MainTake
  BY <1>1, <1>2 DEF MainTake, Next, Request
<1>3. CASE MainInstall
  <2>1. snapshot \in Ids
    BY DEF CollInv, CTypeOK
  <2> QED
    BY <1>1, <1>3, <2>1 DEF MainInstall, Next, TakeSnapshot
<1>4. CASE MainDrain
  BY <1>4 DEF MainDrain, CollInv, Control, Next, Drain
<1>5. CASE MainResync
  BY <1>1, <1>5 DEF MainResync, MainGoes, CollInv, Sessions, Next, Resync
<1> QED
  BY <1>2, <1>3, <1>4, <1>5
  DEF MainThread, MainPoll, MainFetch, MainStore, MainStops, MainJoin

LEMMA LegalStep == CollInv /\ [CNext]_cvars => [Next]_ds
  BY DepthLegal, MainLegal
  DEF CNext, Publish, TradeThread, Signal, Exited, cvars

-------------------------------------------------------------------------------
(* The invariant. *)

LEMMA CollInit == CInit => CollInv
<1> SUFFICES ASSUME CInit
             PROVE  CollInv
  OBVIOUS
<1>1. SyncInv(ds)
  BY InitEstablishes DEF CInit
<1>2. 0 \in 0 .. Len(Feed) /\ 0 \in Ids
  BY CollectorAssumption, ExchangeAssumption DEF Ids
<1>3. FinalId(0) \in Ids /\ FinalId(0) >= 0
  <2>1. FinalId(0) \in Ids
    BY <1>2, FeedIds
  <2>2. \A i \in Ids : i >= 0
    BY ExchangeAssumption DEF Ids
  <2> QED
    BY <2>1, <2>2
<1>4. CTypeOK
  BY <1>1, <1>2 DEF CInit, CTypeOK, TypeOK, SyncInv, NoSession, Malformed, DepthPc, MainPc
<1> QED
  BY <1>1, <1>3, <1>4
  DEF CInit, Init, NewSynchronizer, CollInv, Control, Sessions, Bases, NoSession,
      SnapshotRequestNotLost, AwaitsSnapshot, SnapshotOfThisConnection

LEMMA DepthPreserves == CollInv /\ DepthThread /\ SyncInv(ds') => CollInv'
<1> SUFFICES ASSUME CollInv, DepthThread, SyncInv(ds')
             PROVE  CollInv'
  OBVIOUS
<1> USE DEF CollInv, CTypeOK, TypeOK, Control, Sessions, Bases, SnapshotRequestNotLost,
      AwaitsSnapshot, SnapshotOfThisConnection, DepthPc, MainPc, NoSession, Malformed,
      DepthGoes, MainGoes, depth, main, venue, shared
<1>1. /\ ds \in Synchronizer /\ ds' \in Synchronizer
      /\ ds.state = "Live" => ds.book.last_update_id \in Ids
  BY DEF SyncInv
<1>2. FinalId(published) \in Ids /\ Len(Feed) \in Nat
  BY FeedIds, CollectorAssumption
<1>3. CASE DepthConnect \/ DepthConnected \/ DepthConnectFails
  <2>1. \A i \in Ids : i <= i
    BY ExchangeAssumption DEF Ids
  <2>2. CASE DepthConnect
    BY <1>1, <1>2, <2>2 DEF DepthConnect
  <2>3. CASE DepthConnected
    <3>1. session_at_request # connection /\ session = NoSession /\ ds.state = "Disconnected"
      BY <2>3 DEF DepthConnected
    <3> QED
      BY <1>1, <1>2, <2>1, <2>3, <3>1 DEF DepthConnected
  <2>4. CASE DepthConnectFails
    BY <1>1, <2>4 DEF DepthConnectFails
  <2> QED
    BY <1>3, <2>2, <2>3, <2>4
<1>4. CASE DepthEnds
  BY <1>1, <1>4 DEF DepthEnds
<1>5. CASE DepthOpenWrite
  BY <1>1, <1>5 DEF DepthOpenWrite
<1>6. CASE DepthOpenLock
  <2>1. /\ ds'.state = "Buffering" /\ ds'.buffer = <<>> /\ ds'.draining = ds.draining
    BY <1>1, <1>6 DEF DepthOpenLock, OnConnected, Synchronizer
  <2> QED
    BY <1>1, <1>6, <2>1 DEF DepthOpenLock
<1>7. CASE DepthOpenRequest
  BY <1>1, <1>7 DEF DepthOpenRequest, LoopHead
<1>8. CASE DepthReceive \/ DepthReceiveSkipping \/ DepthReceiveMalformed
             \/ DepthReceiveWriteThrows
  <2>1. CASE DepthReceive
    BY <1>1, <1>2, <2>1 DEF DepthReceive, Reads
  <2>2. CASE DepthReceiveSkipping
    BY <1>1, <1>2, <2>2 DEF DepthReceiveSkipping, Reads
  <2>3. CASE DepthReceiveMalformed
    BY <1>1, <1>2, <2>3 DEF DepthReceiveMalformed, Reads
  <2>4. CASE DepthReceiveWriteThrows
    BY <1>1, <1>2, <2>4 DEF DepthReceiveWriteThrows, Reads
  <2> QED
    BY <1>8, <2>1, <2>2, <2>3, <2>4
<1>9. CASE DepthLeavesRead \/ DepthClosed
  <2>1. CASE DepthLeavesRead
    BY <1>1, <2>1 DEF DepthLeavesRead
  <2>2. CASE DepthClosed
    BY <1>1, <2>2 DEF DepthClosed
  <2> QED
    BY <1>9, <2>1, <2>2
<1>10. CASE DepthParseFailed
  <2>1. ds'.state = "Resyncing" /\ ds'.draining = ds.draining
    BY <1>1, <1>10 DEF DepthParseFailed, BeginResync, Synchronizer
  <2> QED
    BY <1>1, <1>10, <2>1 DEF DepthParseFailed, LoopHead
<1>11. CASE DepthApply
  <2>1. ds' = OnDepth(ds, Feed[message])
    BY <1>11 DEF DepthApply
  <2>2. /\ ds'.draining = ds.draining
        /\ ds'.state = "Disconnected" <=> ds.state = "Disconnected"
        /\ ds'.state \in Aligned => /\ ds.state \in Aligned
                                    /\ ds'.snapshot_update_id = ds.snapshot_update_id
        /\ ds.state \in Aligned /\ ds'.state \in Waiting => ds'.result \in NeedsResync
    BY <1>1, <2>1, OnDepthEffect
  <2>3. ds.state \in {"Disconnected"} \cup Aligned \cup Waiting
    BY <1>1 DEF Synchronizer, SyncState, Aligned, Waiting
  <2>4. /\ UNCHANGED <<session, requested, stop, connection, position, message, main, tpc, venue>>
        /\ dpc = "on_depth" /\ mutex = "free"
        /\ \/ ds'.result \in NeedsResync /\ dpc' = "resync" /\ mutex' = "depth"
           \/ ds'.result \notin NeedsResync /\ dpc' \in {"read", "closing"} /\ mutex' = "free"
    BY <1>11 DEF DepthApply, LoopHead
  <2>5. SnapshotRequestNotLost' /\ SnapshotOfThisConnection'
    BY <2>2, <2>3, <2>4 DEF Aligned, Waiting
  <2> QED
    BY <1>1, <1>2, <2>2, <2>4, <2>5
<1>12. CASE DepthResync
  <2>1. ds'.state = "Resyncing" /\ ds'.draining = ds.draining
    BY <1>1, <1>12 DEF DepthResync, BeginResync, Synchronizer
  <2> QED
    BY <1>1, <1>12, <2>1 DEF DepthResync, LoopHead
<1>13. CASE DepthCloseWrite
  <2>1. CASE dpc' = "close_lock" /\ UNCHANGED stop
    BY <1>1, <1>13, <2>1 DEF DepthCloseWrite
  <2>2. CASE dpc' = "ended" /\ stop' = TRUE
    BY <1>1, <1>13, <2>2 DEF DepthCloseWrite
  <2> QED
    BY <1>13, <2>1, <2>2 DEF DepthCloseWrite
<1>14. CASE DepthCloseLock
  <2>1. CASE session = connection
    <3>1. ds'.state = "Disconnected" /\ ds'.draining = ds.draining
      BY <1>1, <1>14, <2>1 DEF DepthCloseLock, OnDisconnected, Synchronizer
    <3> QED
      BY <1>1, <1>14, <2>1, <3>1 DEF DepthCloseLock
  <2>2. CASE session # connection
    BY <1>1, <1>14, <2>2 DEF DepthCloseLock
  <2> QED
    BY <2>1, <2>2
<1> QED
  BY <1>3, <1>4, <1>5, <1>6, <1>7, <1>8, <1>9, <1>10, <1>11, <1>12, <1>13, <1>14 DEF DepthThread

LEMMA MainPreserves == CollInv /\ MainThread /\ SyncInv(ds') => CollInv'
<1> SUFFICES ASSUME CollInv, MainThread, SyncInv(ds')
             PROVE  CollInv'
  OBVIOUS
<1> USE DEF CollInv, CTypeOK, TypeOK, Control, Sessions, Bases, SnapshotRequestNotLost,
      AwaitsSnapshot, SnapshotOfThisConnection, DepthPc, MainPc, NoSession,
      MainGoes, MainUnchanged, depth, main, venue, shared
<1>1. /\ ds \in Synchronizer /\ ds' \in Synchronizer
      /\ UNCHANGED FinalId(published)
  BY DEF SyncInv, MainThread, MainPoll, MainTake, MainFetch, MainStore, MainInstall,
         MainDrain, MainResync, MainStops, MainJoin, FinalId
<1>2. CASE MainPoll
  BY <1>1, <1>2 DEF MainPoll
<1>3. CASE MainTake
  <2>1. CASE session # NoSession
    <3>1. /\ ds'.state = "SnapshotPending" /\ ds'.draining = ds.draining
          /\ ds'.buffer = ds.buffer
      BY <1>1, <1>3, <2>1 DEF MainTake, RequestSnapshot, Synchronizer
    <3> QED
      BY <1>1, <1>3, <2>1, <3>1 DEF MainTake
  <2>2. CASE session = NoSession
    BY <1>1, <1>3, <2>2 DEF MainTake
  <2> QED
    BY <2>1, <2>2
<1>4. CASE MainFetch
  <2>1. ASSUME snapshot' \in VenueIds
        PROVE  snapshot' \in Ids /\ snapshot' >= FinalId(published)
    BY <2>1, VenueSnapshot
  <2>2. opened_at \in Int /\ FinalId(published) \in Int /\ \A i \in Ids : i \in Int
    BY FeedIds, ExchangeAssumption DEF Ids
  <2>3. CASE mpc' = "store" /\ snapshot' \in VenueIds /\ UNCHANGED requested
    <3>1. snapshot' \in Ids /\ snapshot' >= FinalId(published)
      BY <2>1, <2>3
    <3>2. snapshot' \in Int
      BY <2>2, <3>1
    <3>3. snapshot' >= opened_at
      BY <2>2, <3>1, <3>2
    <3> QED
      BY <1>1, <1>4, <2>3, <3>1, <3>3 DEF MainFetch
  <2>4. CASE mpc' = "poll" /\ requested' = TRUE /\ UNCHANGED snapshot
    BY <1>1, <1>4, <2>4 DEF MainFetch
  <2> QED
    BY <1>4, <2>3, <2>4 DEF MainFetch
<1>5. CASE MainStore
  <2>1. CASE mpc' = "install" /\ UNCHANGED requested
    BY <1>1, <1>5, <2>1 DEF MainStore
  <2>2. CASE mpc' = "poll" /\ requested' = TRUE
    BY <1>1, <1>5, <2>2 DEF MainStore
  <2> QED
    BY <1>5, <2>1, <2>2 DEF MainStore
<1>6. CASE MainInstall
  <2>1. CASE session # session_at_request
    BY <1>1, <1>6, <2>1 DEF MainInstall
  <2>2. CASE session = session_at_request
    <3>1. ds' = OnSnapshot(ds, Snapshot(snapshot)) /\ ~ds.draining
      BY <1>6, <2>2 DEF MainInstall
    <3>2. /\ ds'.buffer = ds.buffer
          /\ ds'.state = "Disconnected" <=> ds.state = "Disconnected"
          /\ ds'.state # "Disconnected" => ds'.state \in {"Syncing", "Invalid"}
          /\ ds'.draining <=> ds'.state = "Syncing"
          /\ ds'.draining => ds'.snapshot_update_id = snapshot
          /\ ds'.result = "InvalidBook" <=> ds'.state = "Invalid"
      BY <1>1, <3>1, OnSnapshotEffect
    <3>3. /\ UNCHANGED <<session, requested, stop, session_at_request, snapshot, depth, tpc, venue>>
          /\ mpc = "install" /\ mutex = "free"
          /\ mpc' = CASE ds'.draining -> "drain"
                       [] ds'.result = "InvalidBook" -> "resync"
                       [] OTHER -> "poll"
          /\ mutex' = IF mpc' = "poll" THEN "free" ELSE "main"
      BY <1>6, <2>2 DEF MainInstall
    <3>4. \/ ds'.state = "Syncing" /\ mpc' = "drain"
          \/ ds'.state = "Invalid" /\ mpc' = "resync"
          \/ ds'.state = "Disconnected" /\ mpc' = "poll"
      BY <3>2, <3>3
    <3>5. ds'.state = "Syncing" => snapshot >= opened_at
      BY <2>2, <3>2, <3>3
    <3> QED
      BY <1>1, <2>2, <3>2, <3>3, <3>4, <3>5
  <2> QED
    BY <2>1, <2>2
<1>7. CASE MainDrain
  <2>1. /\ ds' = DrainStep(ds) /\ ds.draining /\ ds.state \in Aligned
    BY <1>7 DEF MainDrain, SyncInv, Aligned
  <2>2. /\ ds'.state # "Disconnected"
        /\ ds'.state \in Aligned => ds'.snapshot_update_id = ds.snapshot_update_id
        /\ ds'.draining \in BOOLEAN
        /\ ds'.draining => ds'.state \in Aligned
        /\ ds'.state \in Waiting => ds'.result \in {"NeedSnapshot", "InvalidBook"}
        /\ ds.buffer = <<>> => ds'.buffer = <<>> /\ ds'.state = ds.state
    BY <1>1, <2>1, DrainStepEffect
  <2>3. /\ UNCHANGED <<session, requested, stop, session_at_request, snapshot, depth, tpc, venue>>
        /\ mpc = "drain"
        /\ mpc' = CASE ds'.draining -> "drain"
                     [] ~ds'.draining /\ ds'.result \in {"NeedSnapshot", "InvalidBook"} -> "resync"
                     [] OTHER -> "poll"
        /\ mutex' = IF mpc' = "poll" THEN "free" ELSE "main"
    BY <1>7 DEF MainDrain
  <2>4. /\ mpc' \in {"drain", "resync", "poll"}
        /\ ds'.draining <=> mpc' = "drain"
        /\ ds'.state \in Waiting => mpc' # "poll"
    BY <2>2, <2>3
  <2> QED
    BY <1>1, <2>1, <2>2, <2>3, <2>4 DEF Aligned, Waiting
<1>8. CASE MainResync
  <2>1. ds'.state = "Resyncing" /\ ds'.draining = ds.draining /\ ds'.buffer = ds.buffer
    BY <1>1, <1>8 DEF MainResync, BeginResync, Synchronizer
  <2> QED
    BY <1>1, <1>8, <2>1 DEF MainResync
<1>9. CASE MainStops
  <2>1. CASE mpc' = "join" /\ stop /\ UNCHANGED stop
    BY <1>1, <1>9, <2>1 DEF MainStops
  <2>2. CASE mpc' \in {"join", "poll"} /\ stop' = TRUE
    BY <1>1, <1>9, <2>2 DEF MainStops
  <2> QED
    BY <1>9, <2>1, <2>2 DEF MainStops
<1>10. CASE MainJoin
  BY <1>1, <1>10 DEF MainJoin
<1> QED
  BY <1>2, <1>3, <1>4, <1>5, <1>6, <1>7, <1>8, <1>9, <1>10 DEF MainThread

\* The steps of the venue, the trade thread and the signal handler.
LEMMA OthersPreserve ==
    CollInv /\ (Publish \/ TradeThread \/ Signal \/ Exited \/ UNCHANGED cvars) => CollInv'
<1> SUFFICES ASSUME CollInv, Publish \/ TradeThread \/ Signal \/ Exited \/ UNCHANGED cvars
             PROVE  CollInv'
  OBVIOUS
<1> USE DEF CollInv, CTypeOK, TypeOK, Control, Sessions, Bases, SnapshotRequestNotLost,
        AwaitsSnapshot, SnapshotOfThisConnection, depth, main, venue, shared
<1>1. CASE Publish
  <2>1. /\ published' = published + 1 /\ published \in 0 .. Len(Feed)
        /\ published' \in 0 .. Len(Feed)
    BY <1>1, CollectorAssumption DEF Publish
  <2>2. FinalId(published) \in Int /\ FinalId(published') \in Int /\ opened_at \in Int
    BY <2>1, FeedIds, ExchangeAssumption DEF Ids
  <2>3. FinalId(published) < FinalId(published')
    BY <1>1, <2>1, FeedIds DEF Publish
  <2>4. opened_at <= FinalId(published')
    BY <2>2, <2>3
  <2> QED
    BY <1>1, <2>1, <2>4 DEF Publish
<1>2. CASE TradeThread
  <2>1. CASE UNCHANGED stop
    BY <1>2, <2>1 DEF TradeThread
  <2>2. CASE stop' = TRUE
    BY <1>2, <2>2 DEF TradeThread
  <2> QED
    BY <1>2, <2>1, <2>2 DEF TradeThread
<1>3. CASE Signal
  BY <1>3 DEF Signal
<1>4. CASE Exited \/ UNCHANGED cvars
  BY <1>4 DEF Exited, cvars
<1> QED
  BY <1>1, <1>2, <1>3, <1>4

LEMMA CollStep == CollInv /\ [CNext]_cvars => CollInv'
<1> SUFFICES ASSUME CollInv, [CNext]_cvars
             PROVE  CollInv'
  OBVIOUS
<1>1. SyncInv(ds')
  BY LegalStep, NextPreserves DEF CollInv
<1> QED
  BY <1>1, DepthPreserves, MainPreserves, OthersPreserve DEF CNext

-------------------------------------------------------------------------------
(* The theorems about the collector. *)

\* The invariant holds of every behaviour of the three threads.
THEOREM CollectorInvariant == CSpec => []CollInv
<1>1. CollInv /\ [CNext]_cvars => CollInv'
  BY CollStep
<1> QED
  BY <1>1, CollInit, PTL DEF CSpec

\* Whatever the threads do to the synchronizer is a behaviour of DepthSync: no
\* call while on_snapshot runs, no resync of a closed connection.
THEOREM CallsAreLegal == CSpec => OnlyLegalCalls
<1>1. CInit => Init
  BY DEF CInit
<1>2. CollInv /\ [CNext]_cvars => [Next]_ds
  BY LegalStep
<1> QED
  BY <1>1, <1>2, CollectorInvariant, PTL DEF CSpec, OnlyLegalCalls, Spec

\* The collector's variables keep their types, and sync_mutex is held exactly
\* by the thread that is inside a critical section.
THEOREM CollectorTypes == CSpec => []CTypeOK
<1>1. CollInv => CTypeOK
  BY DEF CollInv
<1> QED
  BY <1>1, CollectorInvariant, PTL

\* In the collector, with its threads, races and failures, a live book is the
\* exchange's book.
THEOREM CollectorLiveBook == CSpec => []LiveBookIsExchangeBook
  BY CallsAreLegal, LiveBookCorrect, PTL DEF OnlyLegalCalls

\* The collector implements MirroredBook.
THEOREM CollectorRefinement == CSpec => KeepsPromise
  BY CallsAreLegal, Refinement, PTL DEF OnlyLegalCalls

\* No interleaving of the flag outside the mutex with connects, gaps, failures
\* and REST calls loses the request for a snapshot that is needed.
THEOREM RequestsAreKept == CSpec => []SnapshotRequestNotLost
<1>1. CollInv => SnapshotRequestNotLost
  BY DEF CollInv
<1> QED
  BY <1>1, CollectorInvariant, PTL

\* A snapshot is only used for the connection it was requested for.
THEOREM SnapshotsAreFresh == CSpec => []SnapshotOfThisConnection
<1>1. CollInv => SnapshotOfThisConnection
  BY DEF CollInv
<1> QED
  BY <1>1, CollectorInvariant, PTL

\* A live book belongs to the open connection.
THEOREM LiveBooksAreConnected == CSpec => []LiveBookHasConnection
<1>1. CollInv => LiveBookHasConnection
  BY DEF CollInv, CTypeOK, Control, Sessions, DepthPc, LiveBookHasConnection, IsLive
<1> QED
  BY <1>1, CollectorInvariant, PTL
===============================================================================
