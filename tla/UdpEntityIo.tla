----------------------------- MODULE UdpEntityIo -----------------------------
(***************************************************************************)
(* detail/udp_entity_io.hpp: a UDP socket that is net entity and IO        *)
(* handler at once.  start and stop (NetEntityCommon) post do_start and    *)
(* close to the run thread; start_io, stop_io and send (IoCommon) run in   *)
(* the thread that calls them, and so does the close that stop_io makes.   *)
(* close takes no lock: m_shutting_down is tested in one step and set in   *)
(* another, and any other thread may run in between.                       *)
(*                                                                         *)
(* A thread's program counter names the next step of the method it is in;  *)
(* from close it returns to ret.  The run thread is at "callback" while    *)
(* the state change callback for the opened socket runs and at "msg_hdlr"  *)
(* in the message handler.  The callbacks that close makes call nothing:   *)
(* net_entity.hpp:302 forbids it.                                          *)
(*                                                                         *)
(* Outside the class: the socket and the operations outstanding on it, as  *)
(* in TcpIo.  A send without a destination and a start_io that finds IO    *)
(* started return false and change nothing; they are not actions.          *)
(***************************************************************************)
EXTENDS NetEntityCommon, IoOutputDelivery, FiniteSets

CONSTANTS
    MaxSends, BufSize, ByteModulus,     \* as in OutputQueue
    Run, Users,     \* the run thread, the application's threads
    HasLocal,       \* a local endpoint was given: the entity can receive
    StartMayFail,   \* resolving, opening or binding may fail
    AnyStartIo,     \* start_io may be called at any time, and not just
                    \* before the entity is stopped or closes
    MaxStarts,      \* bound: calls of start_io that find IO not started
    MaxStops,       \* bound: calls of stop_io
    MaxMsgs         \* bound: datagrams received

ASSUME UdpAssumption ==
    /\ Run \notin Users
    /\ {HasLocal, StartMayFail, AnyStartIo} \subseteq BOOLEAN
    /\ {MaxSends, MaxStarts, MaxStops, MaxMsgs} \subseteq Nat
    /\ ByteModulus \in Nat \ {0}
    /\ BufSize \in [1..MaxSends -> Nat]

VARIABLES
    outq, num_bytes, io_started, write_in_progress, writing, nsent, handed,
    m_shutting_down,
    socket,             \* "none", "open", "closed"
    reads, deadReads,   \* outstanding reads, started on the open, closed socket
    deadWrites,         \* the members of writing started on the closed socket
    pc, ret,
    ups, downs,         \* history: state change callbacks
    starts, stops, msgs,    \* counts for the bounds
    start_told          \* start has returned to io_output_delivery

IC == INSTANCE IoCommon

io == <<outq, num_bytes, io_started, write_in_progress, writing, nsent, handed>>
net == <<socket, reads, deadReads, deadWrites>>
control == <<pc, ret>>
seen == <<ups, downs>>
counts == <<starts, stops, msgs>>
told == <<deliveryVars, start_told>>
vars == <<entityVars, io, m_shutting_down, net, control, seen, counts, told>>

Threads == Users \cup {Run}

Init ==
    /\ EntityInit /\ IC!Init
    /\ m_shutting_down = FALSE
    /\ socket = "none" /\ reads = 0 /\ deadReads = 0 /\ deadWrites = {}
    /\ pc = [t \in Threads |-> "idle"] /\ ret = [t \in Threads |-> "idle"]
    /\ ups = 0 /\ downs = 0
    /\ starts = 0 /\ stops = 0 /\ msgs = 0
    /\ DeliveryInit /\ start_told = FALSE

Goto(t, step) == pc' = [pc EXCEPT ![t] = step]

\* t calls close and then goes on at step
CallClose(t, step) == Goto(t, "close") /\ ret' = [ret EXCEPT ![t] = step]

\* application code runs in t and holds the basic_io_interface it was given
InAppCode(t) == ups > 0 /\ pc[t] \in {"idle", "callback", "msg_hdlr"}

StartRead ==
    IF socket = "open" THEN reads' = reads + 1 /\ UNCHANGED deadReads
                       ELSE deadReads' = deadReads + 1 /\ UNCHANGED reads

TrackWrites ==
    deadWrites' = (deadWrites \cap writing')
                    \cup (IF socket = "open" THEN {} ELSE writing' \ writing)

-----------------------------------------------------------------------------
(* start and stop.                                                         *)

CallerBegins(t) ==
    /\ StartCas(t) \/ (StopCas(t) /\ \E u \in Callers : call[u] = "returned")
    /\ UNCHANGED <<io, m_shutting_down, net, control, seen, counts, told>>

CallerGoesOn(t) ==
    /\ CallStep(t)
    /\ UNCHANGED <<io, m_shutting_down, net, control, seen, counts, told>>

\* do_start: the socket is opened and bound, the application told
DoStart ==
    /\ pc[Run] = "idle" /\ Posted("start")
    /\ socket' = "open"
    /\ ups' = ups + 1
    /\ Goto(Run, "callback")
    /\ UNCHANGED <<entityVars, io, m_shutting_down, reads, deadReads, deadWrites, ret,
                   downs, counts, told>>

\* do_start: no endpoint, or the socket cannot be opened or bound
DoStartFails ==
    /\ StartMayFail
    /\ pc[Run] = "idle" /\ Posted("start")
    /\ socket' \in {"none", "open"}
    /\ CallClose(Run, "posted_done")
    /\ UNCHANGED <<entityVars, io, m_shutting_down, reads, deadReads, deadWrites,
                   seen, counts, told>>

CallbackReturns ==
    /\ pc[Run] = "callback"
    /\ Deliver(TRUE)
    /\ Goto(Run, "posted_done")
    /\ UNCHANGED <<entityVars, io, m_shutting_down, net, ret, seen, counts, start_told>>

DoStop ==
    /\ pc[Run] = "idle" /\ Posted("stop")
    /\ CallClose(Run, "posted_done")
    /\ UNCHANGED <<entityVars, io, m_shutting_down, net, seen, counts, told>>

EndOfPosted ==
    /\ pc[Run] = "posted_done"
    /\ PostedDone
    /\ Goto(Run, "idle")
    /\ UNCHANGED <<io, m_shutting_down, net, ret, seen, counts, told>>

\* the function of io_output_delivery.hpp that called start goes on when
\* start has returned: with an error when do_start had one
StartReturns ==
    /\ ~start_told /\ \E t \in Callers : call[t] = "returned"
    /\ start_told' = TRUE
    /\ IF ups = 0 THEN StartFailed ELSE UNCHANGED deliveryVars
    /\ UNCHANGED <<entityVars, io, m_shutting_down, net, control, seen, counts>>

-----------------------------------------------------------------------------
(* start_io, stop_io and send, called by any thread.                       *)

\* start_io: IO is started, even when receiving was asked of an entity
\* without a local endpoint and start_io then returns false
StartIo(t) ==
    /\ InAppCode(t)
    /\ ~io_started
    /\ AnyStartIo \/ (stops = 0 /\ is_started /\ ~m_shutting_down)
    /\ starts < MaxStarts
    /\ starts' = starts + 1
    /\ IC!SetIoStarted
    /\ \E receive \in BOOLEAN :
         IF receive /\ HasLocal
           THEN Goto(t, "read") /\ ret' = [ret EXCEPT ![t] = pc[t]]
           ELSE UNCHANGED control
    /\ UNCHANGED <<entityVars, m_shutting_down, net, seen, stops, msgs, told>>

StartIoRead(t) ==
    /\ pc[t] = "read"
    /\ StartRead
    /\ Goto(t, ret[t])
    /\ UNCHANGED <<entityVars, io, m_shutting_down, socket, deadWrites, ret, seen, counts, told>>

\* stop_io: close; its answer (the negated flag) changes nothing
StopIo(t) ==
    /\ InAppCode(t)
    /\ stops < MaxStops
    /\ stops' = stops + 1
    /\ CallClose(t, pc[t])
    /\ UNCHANGED <<entityVars, io, m_shutting_down, net, seen, starts, msgs, told>>

Send(t) ==
    /\ InAppCode(t)
    /\ IC!StartWrite
    /\ TrackWrites
    /\ UNCHANGED <<entityVars, m_shutting_down, socket, reads, deadReads, control,
                   seen, counts, told>>

-----------------------------------------------------------------------------
(* close, in whatever thread calls it.                                     *)

\* close: the error callback; "already been through close once"
CloseTest(t) ==
    /\ pc[t] = "close"
    /\ Goto(t, IF m_shutting_down THEN ret[t] ELSE "mark")
    /\ UNCHANGED <<entityVars, io, m_shutting_down, net, ret, seen, counts, told>>

\* a close that leaves IO started
CloseMarkFault(t) ==
    /\ pc[t] = "mark"
    /\ m_shutting_down' = TRUE
    /\ Goto(t, "clear")
    /\ UNCHANGED <<entityVars, io, net, ret, seen, counts, told>>

CloseMark(t) ==
    /\ pc[t] = "mark"
    /\ m_shutting_down' = TRUE
    /\ IC!SetIoStopped
    /\ Goto(t, "clear")
    /\ UNCHANGED <<entityVars, net, ret, seen, counts, told>>

\* set_stopped, and the output queue is cleared
CloseClear(t) ==
    /\ pc[t] = "clear"
    /\ m_started' = 2
    /\ IC!Clear
    /\ Goto(t, "shut")
    /\ UNCHANGED <<have_cbs, call, execq, m_shutting_down, net, ret, seen, counts, told>>

\* a close that tells the application without closing the socket
CloseSocketFault(t) ==
    /\ pc[t] = "shut"
    /\ Goto(t, "tell")
    /\ UNCHANGED <<entityVars, io, m_shutting_down, net, ret, seen, counts, told>>

CloseSocket(t) ==
    /\ pc[t] = "shut"
    /\ socket' = "closed"
    /\ Goto(t, "tell")
    /\ UNCHANGED <<entityVars, io, m_shutting_down, reads, deadReads, deadWrites, ret,
                   seen, counts, told>>

\* the error callback with udp_entity_closed, the state change callback
CloseTell(t) ==
    /\ pc[t] = "tell"
    /\ downs' = downs + 1
    /\ Deliver(FALSE)
    /\ Goto(t, ret[t])
    /\ UNCHANGED <<entityVars, io, m_shutting_down, net, ret, ups, counts, start_told>>

-----------------------------------------------------------------------------
(* The run thread executes completion handlers, one at a time.             *)

\* handle_read: a datagram is given to the message handler
HandleMessage ==
    /\ pc[Run] = "idle"
    /\ reads > 0
    /\ msgs < MaxMsgs
    /\ msgs' = msgs + 1
    /\ reads' = reads - 1
    /\ Goto(Run, "msg_hdlr")
    /\ UNCHANGED <<entityVars, io, m_shutting_down, socket, deadReads, deadWrites, ret,
                   ups, downs, starts, stops, told>>

MessageTrue ==
    /\ pc[Run] = "msg_hdlr"
    /\ StartRead
    /\ Goto(Run, "idle")
    /\ UNCHANGED <<entityVars, io, m_shutting_down, socket, deadWrites, ret, seen, counts, told>>

MessageFalse ==
    /\ pc[Run] = "msg_hdlr"
    /\ CallClose(Run, "idle")
    /\ UNCHANGED <<entityVars, io, m_shutting_down, net, seen, counts, told>>

\* handle_read with an error
ReadFails ==
    /\ pc[Run] = "idle"
    /\ \/ reads > 0 /\ reads' = reads - 1 /\ UNCHANGED deadReads
       \/ deadReads > 0 /\ deadReads' = deadReads - 1 /\ UNCHANGED reads
    /\ CallClose(Run, "idle")
    /\ UNCHANGED <<entityVars, io, m_shutting_down, socket, deadWrites, seen, counts, told>>

\* handle_write
WriteDone ==
    /\ pc[Run] = "idle"
    /\ \E w \in writing \ deadWrites : IC!WriteNextElem(w)
    /\ TrackWrites
    /\ UNCHANGED <<entityVars, m_shutting_down, socket, reads, deadReads, control,
                   seen, counts, told>>

\* handle_write with an error
WriteFails ==
    /\ pc[Run] = "idle"
    /\ \E w \in writing : IC!WriteFailed(w)
    /\ TrackWrites
    /\ CallClose(Run, "idle")
    /\ UNCHANGED <<entityVars, m_shutting_down, socket, reads, deadReads, seen, counts, told>>

-----------------------------------------------------------------------------
\* a thread goes on with the method it is in
Step(t) ==
    \/ StartIoRead(t)
    \/ CloseTest(t) \/ CloseMark(t) \/ CloseClear(t) \/ CloseSocket(t) \/ CloseTell(t)

Call(t) == StartIo(t) \/ StopIo(t) \/ Send(t)

PostedStep == DoStart \/ DoStartFails \/ CallbackReturns \/ DoStop \/ EndOfPosted

Dispatch == HandleMessage \/ ReadFails \/ WriteDone \/ WriteFails

Next ==
    \/ \E t \in Threads : Step(t) \/ Call(t)
    \/ \E t \in Callers : CallerBegins(t) \/ CallerGoesOn(t)
    \/ PostedStep \/ StartReturns
    \/ Dispatch \/ MessageTrue \/ MessageFalse

Spec == Init /\ [][Next]_vars

\* Threads that are inside a method go on, callbacks return, and the run
\* thread executes what was posted and what a closed socket makes ready.
\* Nothing is assumed of the network or of the application's calls.
FairSpec ==
    /\ Spec
    /\ \A t \in Threads : WF_vars(Step(t))
    /\ \A t \in Callers : WF_vars(CallerGoesOn(t))
    /\ WF_vars(PostedStep) /\ WF_vars(StartReturns)
    /\ WF_vars(MessageTrue \/ MessageFalse)
    /\ WF_vars(socket = "closed" /\ Dispatch)

-----------------------------------------------------------------------------
TypeOK ==
    /\ EntityTypeOK
    /\ execq \in Seq({"start", "stop"} \X Callers)
    /\ IC!TypeOK
    /\ DeliveryTypeOK
    /\ {m_shutting_down, start_told} \subseteq BOOLEAN
    /\ socket \in {"none", "open", "closed"}
    /\ {reads, deadReads, ups, downs, starts, stops, msgs} \subseteq Nat
    /\ deadWrites \subseteq writing
    /\ pc \in [Threads -> {"idle", "callback", "msg_hdlr", "read", "posted_done",
                           "close", "mark", "clear", "shut", "tell"}]
    /\ ret \in [Threads -> {"idle", "callback", "msg_hdlr", "posted_done"}]

\* Once the socket is closed everything drains, so that the entity can be
\* destroyed.
ClosedDrains ==
    socket = "closed" ~> outq = <<>> /\ writing = {} /\ reads + deadReads = 0

\* "For UDP entities stop_io is equivalent to calling stop on the net_entity"
\* (basic_io_interface.hpp:528): either ends the entity, whatever else runs.
StopLeadsToClosed ==
    (stops > 0 \/ \E t \in Callers : call[t] = "post_stop") ~>
        m_started = 2 /\ socket = "closed" /\ downs > 0

\* Whoever waits for what io_output_delivery.hpp hands out gets it: for the
\* start when start was called (a wait_queue gets nothing from a start that
\* fails), for the end when the entity is stopped, by a stop or by itself.
Delivered ==
    /\ (\E t \in Callers : call[t] = "post_start")
         ~> StartDelivered \/ (start_told /\ ups = 0 /\ ~HasStart)
    /\ m_started = 2 ~> StopDelivered

\* "Return a pair of std::future objects" (io_output_delivery.hpp:206): no
\* promise is set twice, which would throw out of the function instead.
NothingThrown == ~thrown

=============================================================================
