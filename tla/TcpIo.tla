-------------------------------- MODULE TcpIo --------------------------------
(***************************************************************************)
(* detail/tcp_io.hpp: the IO handler of one TCP connection, shared by the  *)
(* run thread (which executes every completion handler) and application    *)
(* threads, which may call start_io, stop_io and send at any time.  None   *)
(* of these holds a lock across its calls: each call of io_common is       *)
(* atomic (module IoCommon), and any other thread may run between two.     *)
(*                                                                         *)
(* A thread's program counter names the next step of the method it is in:  *)
(*   start_io   endpoint (remote_endpoint) -> read (start_read)            *)
(*   stop_io    mark (the set_io_started of the degenerate case) -> close  *)
(*   close      close (set_io_stopped) -> clear -> shut (socket) -> notify *)
(* The run thread is at "msg_hdlr" while the application's message handler *)
(* runs, and returns there from a method the handler called.               *)
(*                                                                         *)
(* Outside the class: the socket, the operations outstanding on it, and    *)
(* the shared_ptr of the acceptor or connector, released when it is        *)
(* notified.  An operation started on an open socket may still succeed     *)
(* after the close (its result was already queued); one started on a       *)
(* closed socket can only fail.                                            *)
(***************************************************************************)
EXTENDS Naturals, FiniteSets

CONSTANTS
    MaxSends, BufSize, ByteModulus,     \* as in OutputQueue
    AppThreads,     \* the application's threads
    Run,            \* the thread of the io_context
    MaxStarts,      \* bound: calls of start_io that find IO not started
    MaxStops,       \* bound: calls of stop_io
    MaxMsgs         \* bound: messages the peer sends

ASSUME TcpIoAssumption ==
    /\ Run \notin AppThreads
    /\ {MaxSends, MaxStarts, MaxStops, MaxMsgs} \subseteq Nat
    /\ ByteModulus \in Nat \ {0}
    /\ BufSize \in [1..MaxSends -> Nat]

VARIABLES
    outq, num_bytes, io_started, write_in_progress, writing, nsent, handed,
    socket,         \* "open" or "closed"
    peer,           \* "up", or "gone" once the connection has failed
    reads,          \* outstanding reads that were started on the open socket
    deadReads,      \* outstanding reads that were started on the closed socket
    deadWrites,     \* the members of writing started on the closed socket
    posted,         \* closes posted after the message handler returned false
    pc,             \* thread -> step
    ret,            \* where the run thread continues: "idle" or "msg_hdlr"
    notified,       \* how often m_notifier_cb was called
    late,           \* messages given to the message handler after the first
    starts, stops, msgs     \* counts for the bounds

IC == INSTANCE IoCommon

io == <<outq, num_bytes, io_started, write_in_progress, writing, nsent, handed>>
net == <<socket, peer, reads, deadReads, deadWrites, posted>>
control == <<pc, ret>>
seen == <<notified, late>>
counts == <<starts, stops, msgs>>
vars == <<io, net, control, seen, counts>>

Threads == AppThreads \cup {Run}

Init ==
    /\ IC!Init
    /\ socket = "open" /\ peer = "up"
    /\ reads = 0 /\ deadReads = 0 /\ deadWrites = {} /\ posted = 0
    /\ pc = [t \in Threads |-> "idle"] /\ ret = "idle"
    /\ notified = 0 /\ late = 0
    /\ starts = 0 /\ stops = 0 /\ msgs = 0

-----------------------------------------------------------------------------
(* Control.                                                                *)

Goto(t, step) == pc' = [pc EXCEPT ![t] = step]

\* return from a method: to the message handler if that called it
Return(t) == Goto(t, IF t = Run THEN ret ELSE "idle")

\* application code runs in t and may call the handler
InAppCode(t) == pc[t] \in {"idle", "msg_hdlr"}

\* The object exists while its owner, an operation outstanding on it, a
\* posted function or a thread inside a method holds a shared_ptr to it;
\* basic_io_interface and basic_io_output lock a weak_ptr first.
Alive ==
    \/ notified = 0
    \/ reads + deadReads + posted > 0
    \/ writing # {}
    \/ \E t \in Threads : pc[t] # "idle"

StartRead ==
    IF socket = "open" THEN reads' = reads + 1 /\ UNCHANGED deadReads
                       ELSE deadReads' = deadReads + 1 /\ UNCHANGED reads

\* the writes that the current step starts or finishes
TrackWrites ==
    deadWrites' = (deadWrites \cap writing')
                    \cup (IF socket = "closed" THEN writing' \ writing ELSE {})

-----------------------------------------------------------------------------
(* start_io, stop_io and send, called by any thread.                       *)

\* a start_io_setup that ignores the result of set_io_started
StartIoFault(t) ==
    /\ InAppCode(t) /\ Alive
    /\ io_started \/ starts < MaxStarts
    /\ starts' = IF io_started THEN starts ELSE starts + 1
    /\ IC!SetIoStarted
    /\ Goto(t, "endpoint")
    /\ UNCHANGED <<net, ret, seen, stops, msgs>>

\* start_io: set_io_started succeeds; when it does not, start_io returns
\* false and nothing changes
StartIo(t) ==
    /\ InAppCode(t) /\ Alive
    /\ starts < MaxStarts
    /\ starts' = starts + 1
    /\ ~io_started
    /\ IC!SetIoStarted
    /\ Goto(t, "endpoint")
    /\ UNCHANGED <<net, ret, seen, stops, msgs>>

\* start_io_setup: remote_endpoint of a closed socket fails, of a connection
\* that the peer has dropped it may
RemoteEndpoint(t) ==
    /\ pc[t] = "endpoint"
    /\ \/ socket = "open" /\ Goto(t, "read")
       \/ (socket = "closed" \/ peer = "gone") /\ Goto(t, "close")
    /\ UNCHANGED <<io, net, ret, seen, counts>>

StartIoRead(t) ==
    /\ pc[t] = "read"
    /\ StartRead
    /\ Return(t)
    /\ UNCHANGED <<io, socket, peer, deadWrites, posted, ret, seen, counts>>

\* stop_io: is_io_started is read here and acted upon later
StopIo(t) ==
    /\ InAppCode(t) /\ Alive
    /\ stops < MaxStops
    /\ stops' = stops + 1
    /\ Goto(t, IF io_started THEN "close" ELSE "mark")
    /\ UNCHANGED <<io, net, ret, seen, starts, msgs>>

\* a stop_io without the degenerate case
StopIoMarkFault(t) ==
    /\ pc[t] = "mark"
    /\ Goto(t, "close")
    /\ UNCHANGED <<io, net, ret, seen, counts>>

\* stop_io before start_io: pretend to be started so that close goes on
StopIoMark(t) ==
    /\ pc[t] = "mark"
    /\ IC!SetIoStarted
    /\ Goto(t, "close")
    /\ UNCHANGED <<net, ret, seen, counts>>

Send(t) ==
    /\ InAppCode(t) /\ Alive
    /\ IC!StartWrite
    /\ TrackWrites
    /\ UNCHANGED <<socket, peer, reads, deadReads, posted, control, seen, counts>>

-----------------------------------------------------------------------------
(* close, in whatever thread calls it.                                     *)

CloseStop(t) ==
    /\ pc[t] = "close"
    /\ IC!SetIoStopped
    /\ IF io_started THEN Goto(t, "clear") ELSE Return(t)
    /\ UNCHANGED <<net, ret, seen, counts>>

\* a close that does not clear the output queue
CloseClearFault(t) ==
    /\ pc[t] = "clear"
    /\ Goto(t, "shut")
    /\ UNCHANGED <<io, net, ret, seen, counts>>

CloseClear(t) ==
    /\ pc[t] = "clear"
    /\ IC!Clear
    /\ Goto(t, "shut")
    /\ UNCHANGED <<net, ret, seen, counts>>

\* a close that notifies without closing the socket
CloseSocketFault(t) ==
    /\ pc[t] = "shut"
    /\ Goto(t, "notify")
    /\ UNCHANGED <<io, net, ret, seen, counts>>

CloseSocket(t) ==
    /\ pc[t] = "shut"
    /\ socket' = "closed"
    /\ Goto(t, "notify")
    /\ UNCHANGED <<io, peer, reads, deadReads, deadWrites, posted, ret, seen, counts>>

CloseNotify(t) ==
    /\ pc[t] = "notify"
    /\ notified' = notified + 1
    /\ Return(t)
    /\ UNCHANGED <<io, net, ret, late, counts>>

-----------------------------------------------------------------------------
(* The run thread executes completion handlers, one at a time.             *)

\* handle_read, handle_read_until: a complete message reaches the handler
HandleMessage ==
    /\ pc[Run] = "idle"
    /\ reads > 0
    /\ msgs < MaxMsgs
    /\ msgs' = msgs + 1
    /\ reads' = reads - 1
    /\ late' = IF notified > 0 THEN late + 1 ELSE late
    /\ ret' = "msg_hdlr"
    /\ Goto(Run, "msg_hdlr")
    /\ UNCHANGED <<io, socket, peer, deadReads, deadWrites, posted, notified, starts, stops>>

\* the message handler returns true: read on
MessageTrue ==
    /\ pc[Run] = "msg_hdlr"
    /\ StartRead
    /\ ret' = "idle"
    /\ Goto(Run, "idle")
    /\ UNCHANGED <<io, socket, peer, deadWrites, posted, seen, counts>>

\* the message handler returns false: post a close, and do not read on
MessageFalse ==
    /\ pc[Run] = "msg_hdlr"
    /\ posted' = posted + 1
    /\ ret' = "idle"
    /\ Goto(Run, "idle")
    /\ UNCHANGED <<io, socket, peer, reads, deadReads, deadWrites, seen, counts>>

\* message framing: part of a message has arrived, handle_read reads more;
\* with the socket open nothing changes, with it closed the new read is dead
HandlePart ==
    /\ pc[Run] = "idle"
    /\ reads > 0
    /\ socket = "closed"
    /\ reads' = reads - 1
    /\ deadReads' = deadReads + 1
    /\ UNCHANGED <<io, socket, peer, deadWrites, posted, control, seen, counts>>

PostedClose ==
    /\ pc[Run] = "idle"
    /\ posted > 0
    /\ posted' = posted - 1
    /\ Goto(Run, "close")
    /\ UNCHANGED <<io, socket, peer, reads, deadReads, deadWrites, ret, seen, counts>>

Broken == socket = "closed" \/ peer = "gone"

\* handle_read with an error: close
ReadFails ==
    /\ pc[Run] = "idle"
    /\ \/ Broken /\ reads > 0 /\ reads' = reads - 1 /\ UNCHANGED deadReads
       \/ deadReads > 0 /\ deadReads' = deadReads - 1 /\ UNCHANGED reads
    /\ Goto(Run, "close")
    /\ UNCHANGED <<io, socket, peer, deadWrites, posted, ret, seen, counts>>

\* handle_write with no error
WriteDone ==
    /\ pc[Run] = "idle"
    /\ \E w \in writing \ deadWrites : IC!WriteNextElem(w)
    /\ TrackWrites
    /\ UNCHANGED <<socket, peer, reads, deadReads, posted, control, seen, counts>>

\* handle_write with an error: close
WriteFails ==
    /\ pc[Run] = "idle"
    /\ \E w \in writing : (Broken \/ w \in deadWrites) /\ IC!WriteFailed(w)
    /\ TrackWrites
    /\ Goto(Run, "close")
    /\ UNCHANGED <<socket, peer, reads, deadReads, posted, ret, seen, counts>>

PeerGone ==
    /\ peer = "up"
    /\ peer' = "gone"
    /\ UNCHANGED <<io, socket, reads, deadReads, deadWrites, posted, control, seen, counts>>

-----------------------------------------------------------------------------
\* a thread goes on with the method it is in
Step(t) ==
    \/ RemoteEndpoint(t) \/ StartIoRead(t)
    \/ StopIoMark(t)
    \/ CloseStop(t) \/ CloseClear(t) \/ CloseSocket(t) \/ CloseNotify(t)

\* the application calls a method from t
Call(t) == StartIo(t) \/ StopIo(t) \/ Send(t)

Dispatch == HandleMessage \/ HandlePart \/ PostedClose \/ ReadFails \/ WriteDone \/ WriteFails

Next ==
    \/ \E t \in Threads : Step(t) \/ Call(t)
    \/ Dispatch \/ MessageTrue \/ MessageFalse
    \/ PeerGone

Spec == Init /\ [][Next]_vars

\* Threads that are inside a method go on, the message handler returns, and
\* the run thread executes what a closed socket or a post makes ready.
\* Nothing is assumed of the network or of the application's calls.
Fairness ==
    /\ \A t \in Threads : WF_vars(Step(t))
    /\ WF_vars(MessageTrue \/ MessageFalse)
    /\ WF_vars(socket = "closed" /\ Dispatch)
    /\ WF_vars(PostedClose)

FairSpec == Spec /\ Fairness

-----------------------------------------------------------------------------
TypeOK ==
    /\ IC!TypeOK
    /\ socket \in {"open", "closed"}
    /\ peer \in {"up", "gone"}
    /\ {reads, deadReads, posted, notified, late} \subseteq Nat
    /\ deadWrites \subseteq writing
    /\ pc \in [Threads -> {"idle", "msg_hdlr", "endpoint", "read", "mark",
                           "close", "clear", "shut", "notify"}]
    /\ ret \in {"idle", "msg_hdlr"}

Closing == \E t \in Threads : pc[t] \in {"close", "clear", "shut"}

\* Two asynchronous writes of one stream are never outstanding together
\* while the connection is in use (Asio forbids it: their bytes would mix).
\* clear resets m_write_in_progress with a write still outstanding, so this
\* rests on no start_io or stop_io getting in between before the close.
OneWriteAtATime == socket = "open" /\ ~Closing => Cardinality(writing) <= 1

\* The send method of a connection keeps the promise of SendStream, although
\* start_io, stop_io and close come in between from several threads.
SendOrder == IC!SendOrder

\* There is one reader at a time: m_byte_vec is never the target of two reads.
OneReadAtATime == reads + deadReads <= 1

\* After the application has been told that the connection is closed, its
\* message handler is called at most once more (for a message whose read had
\* already succeeded).
AtMostOneLateMessage == late <= 1

\* The state change callback "is invoked when a TCP connection is created ...,
\* and then invoked when the TCP connection is destroyed" (net_entity.hpp:267):
\* the owner is notified of a handler's end once, whatever the threads that
\* stop it and the errors that close it do.
NotifiedOnce == notified <= 1

\* stop_io leads to the notification of the owner, whether or not start_io
\* was called before and whatever else closes the handler meanwhile.
StopLeadsToNotify ==
    \A t \in Threads : pc[t] \in {"mark", "close"} ~> notified > 0

\* Once the socket is closed everything drains: no buffer stays queued and
\* no operation outstanding, so that the handler can be destroyed.
ClosedDrains ==
    socket = "closed" ~> /\ outq = <<>>
                         /\ writing = {}
                         /\ reads + deadReads + posted = 0

=============================================================================
