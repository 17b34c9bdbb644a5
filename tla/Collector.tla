------------------------------- MODULE Collector ------------------------------
(***************************************************************************)
(* crypto_capture (cpp/app/capture_main.cpp): the depth thread with its    *)
(* WebSocketClient loop and callbacks, the main thread with its snapshot   *)
(* loop, the trade thread as far as it can stop the process, the mutex,    *)
(* the snapshot_requested flag and the raw event log they share.           *)
(*                                                                         *)
(* A step is what a thread does between two points at which another thread *)
(* can see a difference: one write to the log, one critical section of     *)
(* sync_mutex, one access to the flag.  A critical section that calls the  *)
(* synchronizer more than once is one step per call, with the mutex held   *)
(* in between, so that every step is at most one call of DepthSync.        *)
(*                                                                         *)
(* Bounds: the venue publishes the messages of Feed and then falls silent; *)
(* MaxFaults counts the things that go wrong (FaultKinds names which may). *)
(* The log is an output: `record' is what the last step appended to it, or *)
(* NoRecord, and Replay reads it.                                          *)
(***************************************************************************)
EXTENDS DepthSync

CONSTANTS
    Feed,         \* the depth stream: consecutive diff-depth messages
    FaultKinds,   \* which faults may happen
    MaxFaults     \* how many of them

Fault == {"connect", "disconnect", "skip", "malformed", "rest", "write", "flush", "trade"}

ASSUME CollectorAssumption ==
    /\ Feed \in Seq(DepthEvents)
    /\ \A n \in 2 .. Len(Feed) :
          Feed[n].previous_final_update_id = Feed[n - 1].final_update_id
    /\ FaultKinds \subseteq Fault
    /\ MaxFaults \in Nat

NoSession == 0   \* current_depth_session.empty()
Malformed == 0   \* a message parse_depth_event rejects

NoRecord == [type |-> "none"]

VARIABLES
    \* shared
    mutex,        \* who holds sync_mutex between two steps
    session,      \* current_depth_session
    requested,    \* snapshot_requested
    stop,
    record,       \* the record this step has put into the raw event log
    \* depth thread
    dpc, connection, position, message,
    \* main thread
    mpc, session_at_request, snapshot,
    \* trade thread
    tpc,
    \* the venue and the network
    published, opened_at, faults

depth == <<dpc, connection, position, message>>
main == <<mpc, session_at_request, snapshot>>
venue == <<published, opened_at>>
shared == <<mutex, session, requested, stop>>
cvars == <<ds, shared, record, depth, main, tpc, venue, faults>>

CInit ==
    /\ Init
    /\ mutex = "free" /\ session = NoSession /\ requested = FALSE /\ stop = FALSE
    /\ record = NoRecord
    /\ dpc = "down" /\ connection = NoSession /\ position = 0 /\ message = Malformed
    /\ mpc = "poll" /\ session_at_request = NoSession /\ snapshot = 0
    /\ tpc = "running"
    /\ published = 0 /\ opened_at = 0 /\ faults = 0

NoFault == UNCHANGED faults

Silent == record' = NoRecord   \* the step writes nothing to the log

Goes(kind) == kind \in FaultKinds /\ faults < MaxFaults /\ faults' = faults + 1

(***************************************************************************)
(* The venue.  Its book is at some id between the last published message   *)
(* and the next one; a snapshot is taken from it when the request is       *)
(* served.                                                                 *)
(***************************************************************************)
FinalId(n) ==
    IF n = 0
    THEN IF Feed = <<>> THEN 0 ELSE Feed[1].previous_final_update_id
    ELSE Feed[n].final_update_id

VenueIds ==
    FinalId(published) ..
        (IF published < Len(Feed) THEN FinalId(published + 1) - 1 ELSE FinalId(published))

Publish ==
    /\ published < Len(Feed)
    /\ published' = published + 1
    /\ Silent
    /\ UNCHANGED <<ds, shared, depth, main, tpc, opened_at, faults>>

(***************************************************************************)
(* RawEventWriter::write as its callers see it: the record is appended, or *)
(* the call throws, and then the record may or may not have stayed in the  *)
(* block that is written later.                                            *)
(***************************************************************************)
Written(r) == record' = r /\ NoFault

WriteThrows(r) == record' \in {NoRecord, r} /\ Goes("write")

(***************************************************************************)
(* Depth thread: WebSocketClient::run and the depth callbacks.             *)
(***************************************************************************)
DepthGoes(from, to) == dpc = from /\ dpc' = to

\* The head of the reconnect loop: stop is looked at, and an attempt gets a
\* fresh session id.
DepthConnect ==
    /\ DepthGoes("down", "connecting") /\ ~stop
    /\ connection' = connection + 1
    /\ Silent
    /\ UNCHANGED <<ds, shared, position, message, main, tpc, venue, faults>>

\* resolve, connect and the two handshakes return, or throw, which still ends
\* in on_disconnect.
DepthConnected ==
    /\ DepthGoes("connecting", "on_open")
    /\ position' = published
    /\ opened_at' = FinalId(published)
    /\ Silent
    /\ UNCHANGED <<ds, shared, connection, message, main, tpc, published, faults>>

DepthConnectFails ==
    /\ DepthGoes("connecting", "on_disconnect") /\ Goes("connect")
    /\ Silent
    /\ UNCHANGED <<ds, shared, connection, position, message, main, tpc, venue>>

DepthEnds ==
    /\ DepthGoes("down", "ended") /\ stop
    /\ Silent
    /\ UNCHANGED <<ds, shared, connection, position, message, main, tpc, venue, faults>>

DepthOpenWrite ==
    /\ dpc = "on_open"
    /\ \/ dpc' = "open_lock" /\ Written([type |-> "ConnectionOpen"])
       \/ dpc' = "on_disconnect" /\ WriteThrows([type |-> "ConnectionOpen"])
    /\ UNCHANGED <<ds, shared, connection, position, message, main, tpc, venue>>

DepthOpenLock ==
    /\ DepthGoes("open_lock", "open_request") /\ mutex = "free"
    /\ session' = connection
    /\ ds' = OnConnected(ds)
    /\ Silent
    /\ UNCHANGED <<mutex, requested, stop, connection, position, message, main, tpc, venue, faults>>

\* Where the thread goes from a callback: the head of the read loop looks at
\* stop, and either reads or closes the socket.
LoopHead == IF stop THEN "closing" ELSE "read"

DepthOpenRequest ==
    /\ DepthGoes("open_request", LoopHead)
    /\ requested' = TRUE
    /\ Silent
    /\ UNCHANGED <<ds, mutex, session, stop, connection, position, message, main, tpc, venue, faults>>

\* socket.read returns message n of the stream, which on_message knows as m;
\* it writes the record before it takes the mutex.  A thread in socket.read
\* does not see a stop before that message.
Reads(n, m) ==
    /\ dpc = "read" /\ n <= published
    /\ position' = n /\ message' = m
    /\ UNCHANGED <<ds, shared, connection, main, tpc, venue>>

DepthRecord(m) == [type |-> "DepthUpdate", message |-> m]

DepthReceive ==
    /\ Reads(position + 1, position + 1) /\ dpc' = "on_depth"
    /\ Written(DepthRecord(position + 1))

\* The stream has lost a message: pu of the next one will not match.
DepthReceiveSkipping ==
    /\ Reads(position + 2, position + 2) /\ dpc' = "on_depth"
    /\ record' = DepthRecord(position + 2) /\ Goes("skip")

\* parse_depth_event throws; the payload is logged all the same.
DepthReceiveMalformed ==
    /\ Reads(position + 1, Malformed) /\ dpc' = "parse_failed"
    /\ record' = DepthRecord(Malformed) /\ Goes("malformed")

\* The exception leaves on_message and run() treats it as a lost connection.
DepthReceiveWriteThrows ==
    /\ Reads(position + 1, position + 1) /\ dpc' = "on_disconnect"
    /\ WriteThrows(DepthRecord(position + 1))

\* The connection is lost, or closed by the server; or, after a message, the
\* 23 h limit is over, or stop was set just before the head of the loop.
DepthLeavesRead ==
    /\ dpc = "read"
    /\ \/ dpc' \in {"on_disconnect", "closing"} /\ Goes("disconnect")
       \/ dpc' = "closing" /\ stop /\ NoFault
    /\ Silent
    /\ UNCHANGED <<ds, shared, connection, position, message, main, tpc, venue>>

\* socket.close: the peer has answered the close frame, or the socket fails.
DepthClosed ==
    /\ DepthGoes("closing", "on_disconnect")
    /\ Silent
    /\ UNCHANGED <<ds, shared, connection, position, message, main, tpc, venue, faults>>

DepthParseFailed ==
    /\ DepthGoes("parse_failed", LoopHead) /\ mutex = "free"
    /\ ds' = BeginResync(ds)
    /\ requested' = TRUE
    /\ Silent
    /\ UNCHANGED <<mutex, session, stop, connection, position, message, main, tpc, venue, faults>>

NeedsResync == {"GapDetected", "NeedSnapshot", "InvalidBook"}

DepthApply ==
    /\ dpc = "on_depth" /\ mutex = "free"
    /\ ds' = OnDepth(ds, Feed[message])
    /\ IF ds'.result \in NeedsResync
       THEN dpc' = "resync" /\ mutex' = "depth"
       ELSE dpc' = LoopHead /\ UNCHANGED mutex
    /\ Silent
    /\ UNCHANGED <<session, requested, stop, connection, position, message, main, tpc, venue, faults>>

DepthResync ==
    /\ DepthGoes("resync", LoopHead)
    /\ ds' = BeginResync(ds)
    /\ requested' = TRUE
    /\ mutex' = "free"
    /\ Silent
    /\ UNCHANGED <<session, stop, connection, position, message, main, tpc, venue, faults>>

\* on_disconnect; if its write throws, the exception leaves run() and the
\* thread ends with stop set, the mutex untouched.
DepthCloseWrite ==
    /\ dpc = "on_disconnect"
    /\ \/ /\ dpc' = "close_lock" /\ UNCHANGED stop
          /\ Written([type |-> "ConnectionClose"])
       \/ /\ dpc' = "ended" /\ stop' = TRUE
          /\ WriteThrows([type |-> "ConnectionClose"])
    /\ UNCHANGED <<ds, mutex, session, requested, connection, position, message, main, tpc, venue>>

\* Mutant of DepthCloseLock: the session is closed, the synchronizer not told.
DepthCloseLockSilently ==
    /\ DepthGoes("close_lock", "down") /\ mutex = "free"
    /\ session' = IF session = connection THEN NoSession ELSE session
    /\ Silent
    /\ UNCHANGED <<ds, mutex, requested, stop, connection, position, message, main, tpc,
                   venue, faults>>

DepthCloseLock ==
    /\ DepthGoes("close_lock", "down") /\ mutex = "free"
    /\ IF session = connection
       THEN session' = NoSession /\ ds' = OnDisconnected(ds)
       ELSE UNCHANGED <<session, ds>>
    /\ Silent
    /\ UNCHANGED <<mutex, requested, stop, connection, position, message, main, tpc, venue, faults>>

DepthThread ==
    \/ DepthConnect \/ DepthConnected \/ DepthConnectFails \/ DepthEnds
    \/ DepthOpenWrite \/ DepthOpenLock \/ DepthOpenRequest
    \/ DepthReceive \/ DepthReceiveSkipping \/ DepthReceiveMalformed
    \/ DepthReceiveWriteThrows \/ DepthLeavesRead \/ DepthClosed \/ DepthParseFailed
    \/ DepthApply \/ DepthResync
    \/ DepthCloseWrite \/ DepthCloseLock

(***************************************************************************)
(* Main thread: the snapshot loop.                                         *)
(***************************************************************************)
MainGoes(from, to) == mpc = from /\ mpc' = to

MainUnchanged == UNCHANGED <<depth, tpc, venue>>

\* snapshot_requested.exchange(false)
MainPoll ==
    /\ MainGoes("poll", "take") /\ ~stop /\ requested
    /\ requested' = FALSE
    /\ Silent
    /\ UNCHANGED <<ds, mutex, session, stop, session_at_request, snapshot, faults>>
    /\ MainUnchanged

\* A request that finds no session is dropped: the next on_open repeats it.
MainTake ==
    /\ mpc = "take" /\ mutex = "free"
    /\ IF session # NoSession
       THEN mpc' = "fetch" /\ session_at_request' = session
            /\ ds' = RequestSnapshot(ds)
       ELSE mpc' = "poll" /\ UNCHANGED <<session_at_request, ds>>
    /\ Silent
    /\ UNCHANGED <<shared, snapshot, faults>>
    /\ MainUnchanged

\* Mutant of MainFetch: a failed request is not repeated.
MainFetchGivesUp ==
    /\ mpc = "fetch"
    /\ \/ mpc' = "store" /\ snapshot' \in VenueIds /\ NoFault
       \/ mpc' = "poll" /\ UNCHANGED snapshot /\ Goes("rest")
    /\ Silent
    /\ UNCHANGED <<ds, shared, session_at_request>>
    /\ MainUnchanged

\* rest.depth_snapshot and parse_snapshot, without the mutex.
MainFetch ==
    /\ mpc = "fetch"
    /\ \/ /\ mpc' = "store" /\ snapshot' \in VenueIds
          /\ UNCHANGED requested /\ NoFault
       \/ /\ mpc' = "poll" /\ requested' = TRUE
          /\ UNCHANGED snapshot /\ Goes("rest")
    /\ Silent
    /\ UNCHANGED <<ds, mutex, session, stop, session_at_request>>
    /\ MainUnchanged

\* The record is in the log before anyone knows whether it will be used.
MainStore ==
    LET r == [type |-> "DepthSnapshot", id |-> snapshot]
    IN  /\ mpc = "store"
        /\ \/ mpc' = "install" /\ Written(r) /\ UNCHANGED requested
           \/ mpc' = "poll" /\ WriteThrows(r) /\ requested' = TRUE
        /\ UNCHANGED <<ds, mutex, session, stop, session_at_request, snapshot>>
        /\ MainUnchanged

\* Mutant of MainInstall: the sessions are not compared.
MainInstallAnySession ==
    /\ mpc = "install" /\ mutex = "free"
    /\ ds' = OnSnapshot(ds, Snapshot(snapshot))
    /\ mpc' = CASE ds'.draining -> "drain"
                [] ds'.result = "InvalidBook" -> "resync"
                [] OTHER -> "poll"
    /\ mutex' = IF mpc' = "poll" THEN "free" ELSE "main"
    /\ Silent
    /\ UNCHANGED <<session, requested, stop, session_at_request, snapshot, faults>>
    /\ MainUnchanged

\* Mutant of MainInstall: the flag is reset here, once the request is served,
\* and with it a request made since.
MainInstallResetsFlag ==
    /\ mpc = "install" /\ mutex = "free"
    /\ IF session # session_at_request
       THEN mpc' = "poll" /\ UNCHANGED <<ds, mutex>>
       ELSE /\ ds' = OnSnapshot(ds, Snapshot(snapshot))
            /\ mpc' = CASE ds'.draining -> "drain"
                        [] ds'.result = "InvalidBook" -> "resync"
                        [] OTHER -> "poll"
            /\ mutex' = IF mpc' = "poll" THEN "free" ELSE "main"
    /\ requested' = FALSE
    /\ Silent
    /\ UNCHANGED <<session, stop, session_at_request, snapshot, faults>>
    /\ MainUnchanged

\* Mutant of MainInstall: on_snapshot outside the critical section.
MainInstallUnlocked ==
    /\ mpc = "install"
    /\ IF session # session_at_request
       THEN mpc' = "poll" /\ requested' = TRUE /\ UNCHANGED ds
       ELSE /\ ds' = OnSnapshot(ds, Snapshot(snapshot))
            /\ mpc' = CASE ds'.draining -> "drain"
                        [] ds'.result = "InvalidBook" -> "resync"
                        [] OTHER -> "poll"
            /\ UNCHANGED requested
    /\ Silent
    /\ UNCHANGED <<mutex, session, stop, session_at_request, snapshot, faults>>
    /\ MainUnchanged

\* A snapshot fetched for another session is not used.
MainInstall ==
    /\ mpc = "install" /\ mutex = "free"
    /\ IF session # session_at_request
       THEN mpc' = "poll" /\ requested' = TRUE /\ UNCHANGED <<ds, mutex>>
       ELSE /\ ds' = OnSnapshot(ds, Snapshot(snapshot))
            /\ mpc' = CASE ds'.draining -> "drain"
                        [] ds'.result = "InvalidBook" -> "resync"
                        [] OTHER -> "poll"
            /\ mutex' = IF mpc' = "poll" THEN "free" ELSE "main"
            /\ UNCHANGED requested
    /\ Silent
    /\ UNCHANGED <<session, stop, session_at_request, snapshot, faults>>
    /\ MainUnchanged

\* The loops of on_snapshot, with the mutex held throughout.
MainDrain ==
    /\ mpc = "drain"
    /\ ds' = DrainStep(ds)
    /\ mpc' = CASE ds'.draining -> "drain"
                [] ~ds'.draining /\ ds'.result \in {"NeedSnapshot", "InvalidBook"} -> "resync"
                [] OTHER -> "poll"
    /\ mutex' = IF mpc' = "poll" THEN "free" ELSE "main"
    /\ Silent
    /\ UNCHANGED <<session, requested, stop, session_at_request, snapshot, faults>>
    /\ MainUnchanged

MainResync ==
    /\ MainGoes("resync", "poll")
    /\ ds' = BeginResync(ds)
    /\ requested' = TRUE
    /\ mutex' = "free"
    /\ Silent
    /\ UNCHANGED <<session, stop, session_at_request, snapshot, faults>>
    /\ MainUnchanged

\* Mutant of MainStops: the loop does not look at stop.
MainStopsNever ==
    /\ mpc = "poll"
    /\ \/ mpc' = "poll" /\ stop /\ UNCHANGED stop /\ NoFault
       \/ mpc' = "join" /\ stop' = TRUE /\ Goes("flush")
       \/ mpc' = "poll" /\ ~stop /\ stop' = TRUE /\ NoFault
    /\ Silent
    /\ UNCHANGED <<ds, mutex, session, requested, session_at_request, snapshot>>
    /\ MainUnchanged

\* The duration is over, or the periodic flush of the log throws.
MainStops ==
    /\ mpc = "poll"
    /\ \/ mpc' = "join" /\ stop /\ UNCHANGED stop /\ NoFault
       \/ mpc' = "join" /\ stop' = TRUE /\ Goes("flush")
       \/ mpc' = "poll" /\ ~stop /\ stop' = TRUE /\ NoFault
    /\ Silent
    /\ UNCHANGED <<ds, mutex, session, requested, session_at_request, snapshot>>
    /\ MainUnchanged

\* Both threads joined: flush, statistics, close.
MainJoin ==
    /\ MainGoes("join", "done") /\ dpc = "ended" /\ tpc = "ended"
    /\ Silent
    /\ UNCHANGED <<ds, shared, session_at_request, snapshot, faults>>
    /\ MainUnchanged

MainThread ==
    \/ MainPoll \/ MainTake \/ MainFetch \/ MainStore \/ MainInstall
    \/ MainDrain \/ MainResync \/ MainStops \/ MainJoin

(***************************************************************************)
(* Trade thread: its records do not touch the book.  A write that throws   *)
(* in its on_disconnect ends it and stops the process.                     *)
(***************************************************************************)
TradeThread ==
    /\ tpc = "running" /\ tpc' = "ended"
    /\ (stop /\ UNCHANGED stop /\ NoFault) \/ (stop' = TRUE /\ Goes("trade"))
    /\ Silent
    /\ UNCHANGED <<ds, mutex, session, requested, depth, main, venue>>

\* SIGINT or SIGTERM
Signal ==
    /\ ~stop /\ mpc # "done" /\ stop' = TRUE
    /\ Silent
    /\ UNCHANGED <<ds, mutex, session, requested, depth, main, tpc, venue, faults>>

Exited == mpc = "done" /\ UNCHANGED cvars

CNext == Publish \/ DepthThread \/ MainThread \/ TradeThread \/ Signal \/ Exited

CSpec == CInit /\ [][CNext]_cvars

(***************************************************************************)
(* Fairness.  A thread that can run does run (the scheduler), and the REST *)
(* call returns or throws (curl has a timeout of 15 s).  Nothing is said   *)
(* of the calls of the depth and trade threads on their sockets: they are  *)
(* synchronous, the timeouts and pings of websocket_client.cpp:99 and      *)
(* 103-108 serve asynchronous operations only, and no one closes the       *)
(* socket of a thread that is in one, so on a connection whose other end   *)
(* has gone silent they need not return.  Nor are publishing, signals, the *)
(* loss of a connection or the end of the duration ever forced; the faults *)
(* run out.                                                                *)
(***************************************************************************)
DepthProgress ==
    \/ DepthConnect \/ DepthEnds
    \/ DepthOpenWrite \/ DepthOpenLock \/ DepthOpenRequest
    \/ DepthParseFailed \/ DepthApply \/ DepthResync
    \/ DepthCloseWrite \/ DepthCloseLock

MainProgress ==
    \/ MainPoll \/ MainTake \/ MainFetch \/ MainStore \/ MainInstall
    \/ MainDrain \/ MainResync \/ (stop /\ MainStops) \/ MainJoin

Fairness ==
    /\ WF_cvars(DepthProgress)
    /\ WF_cvars(MainProgress)

FairCSpec == CSpec /\ Fairness

(***************************************************************************)
(* Properties                                                              *)
(***************************************************************************)
DepthPc == {"down", "connecting", "on_open", "open_lock", "open_request", "read", "parse_failed",
            "on_depth", "resync", "closing", "on_disconnect", "close_lock", "ended"}

MainPc == {"poll", "take", "fetch", "store", "install", "drain", "resync", "join", "done"}

\* Types, and who holds the mutex between two steps of one critical section.
CTypeOK ==
    /\ TypeOK
    /\ mutex = (IF dpc = "resync" THEN "depth"
                ELSE IF mpc \in {"drain", "resync"} THEN "main" ELSE "free")
    /\ dpc \in DepthPc /\ mpc \in MainPc /\ tpc \in {"running", "ended"}
    /\ session \in {NoSession, connection} /\ connection \in Nat
    /\ requested \in BOOLEAN /\ stop \in BOOLEAN
    /\ position \in 0 .. Len(Feed) /\ published \in 0 .. Len(Feed)
    /\ message \in 0 .. Len(Feed)
    /\ snapshot \in Ids /\ opened_at \in Ids

\* Whatever the threads do to the synchronizer is a sequence of calls that
\* DepthSync allows: no call while on_snapshot runs, no resync of a closed
\* connection, only genuine messages.  So its theorems hold in the collector.
OnlyLegalCalls == Spec

\* The states in which the book waits for a snapshot.
AwaitsSnapshot == ds.state \in {"Buffering", "SnapshotPending", "GapDetected",
                                "Invalid", "Resyncing"}

\* A book that waits for a snapshot always has one coming: the flag is set, or
\* the main thread is between consuming it and installing, or the depth thread
\* is about to set it.  No interleaving of the flag (outside the mutex in
\* on_open and in the main loop) with connects, gaps and failures loses it.
SnapshotRequestNotLost ==
    AwaitsSnapshot =>
        \/ requested
        \/ mpc \in {"take", "fetch", "store", "install", "drain", "resync"}
        \/ dpc \in {"open_request", "resync"}
        \/ stop

\* A live book belongs to the open connection, never to one that was closed
\* or replaced (a thread killed by its own log aside: then stop is set).
LiveBookHasConnection ==
    IsLive(ds) =>
        /\ session = connection /\ session # NoSession
        /\ \/ dpc \in {"read", "parse_failed", "on_depth", "resync", "closing",
                       "on_disconnect", "close_lock"}
           \/ dpc = "ended" /\ stop

\* A snapshot is only used for the connection it was requested for: what is
\* installed is never older than the moment the connection was opened, however
\* long the REST call took and however often the stream reconnected meanwhile.
SnapshotOfThisConnection ==
    ds.state \in {"Syncing", "Live"} => ds.snapshot_update_id >= opened_at

\* Every wait for a snapshot ends: in alignment, in a disconnect or at the
\* end of the process.
SnapshotServed ==
    AwaitsSnapshot ~> (ds.state \in {"Syncing", "Live", "Disconnected"} \/ stop)

\* The depth thread is in a call on its socket.
InSocketCall == dpc \in {"connecting", "read", "closing"}

\* Once stop is set, no thread stays for ever in a call on its socket: the
\* other end delivers one more message, closes, or the operating system gives
\* the connection up.  (The trade thread "runs" until such a call returns.)
SocketsReturn ==
    /\ []<>~(stop /\ InSocketCall)
    /\ []<>~(stop /\ tpc = "running")

\* Once stop is set (signal, duration, storage or transport failure) all three
\* threads end and the process closes its log, provided that the calls the
\* two threads are in on their sockets return.  Nothing else can keep it: not
\* the mutex, a snapshot under way, a drain, a resync, a callback that throws
\* or a reconnect; and a thread that comes back from its socket leaves.
StopEnds == SocketsReturn => (stop ~> mpc = "done")
===============================================================================
