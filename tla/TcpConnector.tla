----------------------------- MODULE TcpConnector -----------------------------
(***************************************************************************)
(* detail/tcp_connector.hpp: resolve, connect, hand the connection to a    *)
(* tcp_io, wait and retry when connecting fails, reconnect when the        *)
(* connection is lost, close when stopped.                                 *)
(*                                                                         *)
(* Every handler runs on the run thread, Run, without interruption except  *)
(* where it calls into the application: the state change callback for a    *)
(* new connection may call start_io or stop_io, and a failing start_io or  *)
(* a stop_io re-enters the connector through notify_me.  A thread of Users *)
(* may call them too, and then executes notify_me itself.  The program     *)
(* counter of a thread names the part of the connector, or of a tcp_io, it *)
(* runs next; when it has finished it returns to ret (idle, the callback,  *)
(* or the end of a posted function).                                       *)
(*                                                                         *)
(* Of a tcp_io its started flag, its socket and its read remain, and of    *)
(* start_io, stop_io and close the steps of module TcpIo (clearing the     *)
(* output queue is left out).  Asynchronous operations are counted: live   *)
(* ones, which complete either way, and cancelled ones, whose handlers     *)
(* have still to run.                                                      *)
(***************************************************************************)
EXTENDS NetEntityCommon, ConnectorTimeouts, FiniteSets

CONSTANTS
    Run,                    \* the run thread
    Users,                  \* application threads that may call start_io
                            \* and stop_io
    MaxTries,               \* bound: attempts to connect; the last one does
                            \* not fail, nor its connection end by itself
    MaxAgain,               \* bound: no calls of stop_io on a tcp_io that
                            \* close has stopped once so many of them have
                            \* set it started again
    KnownEndpoints,         \* endpoints were given, no resolve is needed
    TimeoutFuncs,           \* the timeout functions it may be made with
    ResolveMayFail,         \* the name may not resolve
    Overlap                 \* calls may overlap that net_ip.hpp:116 rules out:
                            \* stop with start, or with a user's stop_io

ASSUME TcpConnectorAssumption ==
    /\ Run \notin Users
    /\ MaxTries \in Nat \ {0} /\ MaxAgain \in Nat
    /\ {KnownEndpoints, ResolveMayFail, Overlap} \subseteq BOOLEAN
    /\ TimeoutFuncs \subseteq FuncObjects

Threads == Users \cup {Run}
Handlers == 1..MaxTries         \* tcp_io objects, in the order of creation
None == 0                       \* the null tcp_io_shared_ptr

VARIABLES
    m_state, m_io_handler, m_conn_attempts,
    m_timeout_func, m_reconn_on_err,
    resolves, connects, timers,     \* outstanding: [live, cancelled] counts
    io_started,     \* the tcp_io objects whose IO is started
    open,           \* those whose socket is open
    reading,        \* those with a read, or a posted close, outstanding
    pc, ret, arg,   \* per thread: step, continuation, the tcp_io it is about
    io_closed,      \* history: the tcp_io objects close has stopped
    again,          \* history: how often stop_io set one of them started again
    tries,          \* history: calls of start_connect
    failures,       \* history: failed attempts since the last connection
    asked,          \* history: the argument of the last m_timeout_func call
    answer,         \* history: what it answered
    ups, downs,     \* history: state change callbacks made
    report,         \* history: the last error code reported
    closed_told     \* history: reports of tcp_connector_closed

ops == <<resolves, connects, timers>>
control == <<pc, ret, arg>>
history == <<tries, failures, asked, answer, ups, downs, report, closed_told>>
made == <<m_timeout_func, m_reconn_on_err>>
entity == <<m_state, m_io_handler, m_conn_attempts, made>>
ios == <<io_started, open, reading, io_closed, again>>
vars == <<entityVars, entity, ops, ios, control, history>>

NoOps == [live |-> 0, cancelled |-> 0]
Started(op) == [op EXCEPT !.live = @ + 1]
Cancelled(op) == [live |-> 0, cancelled |-> op.live + op.cancelled]
Completed(op, kind) == [op EXCEPT ![kind] = @ - 1]

Init ==
    /\ EntityInit
    /\ m_state = "stopped" /\ m_io_handler = None /\ m_conn_attempts = 0
    /\ resolves = NoOps /\ connects = NoOps /\ timers = NoOps
    /\ io_started = {} /\ open = {} /\ reading = {}
    /\ io_closed = {} /\ again = 0
    /\ pc = [t \in Threads |-> "idle"]
    /\ ret = [t \in Threads |-> "idle"]
    /\ arg = [t \in Threads |-> None]
    /\ tries = 0 /\ failures = 0 /\ asked = 0 /\ answer = NoValue
    /\ m_timeout_func \in TimeoutFuncs /\ m_reconn_on_err \in BOOLEAN
    /\ report = "none" /\ ups = 0 /\ downs = 0 /\ closed_told = 0

Goto(t, step) == pc' = [pc EXCEPT ![t] = step]

\* t leaves the connector and the tcp_io whose method it was in; the callback
\* keeps the one it was called for
Return(t) ==
    /\ Goto(t, ret[t])
    /\ arg' = IF ret[t] = "state_chg" THEN arg ELSE [arg EXCEPT ![t] = None]

\* call_error_cb: an error function pushes the code into its wait queue
Report(err) == report' = err

\* endpoints_resolver: make_endpoints with a callback, cancel
MakeEndpoints == resolves' = Started(resolves)
CancelResolve == resolves' = Cancelled(resolves)

-----------------------------------------------------------------------------
(* start_connect and finish_close, which many paths end in.                *)

StartConnect(t) ==
    /\ pc[t] = "start_connect"
    /\ tries < MaxTries
    /\ tries' = tries + 1
    /\ Report("tcp_connector_connecting")
    /\ m_state' = "connecting"
    /\ m_conn_attempts' = m_conn_attempts + 1
    /\ connects' = Started(connects)
    /\ Return(t)
    /\ UNCHANGED <<made, entityVars, m_io_handler, resolves, timers, ios, ret,
                   failures, asked, answer, ups, downs, closed_told>>

FinishClose(t) ==
    /\ pc[t] = "finish_close"
    /\ m_state' = "stopped"
    /\ Report("tcp_connector_closed")
    /\ closed_told' = closed_told + 1
    /\ Return(t)
    /\ UNCHANGED <<made, entityVars, m_io_handler, m_conn_attempts, ops, ios, ret,
                   tries, failures, asked, answer, ups, downs>>

-----------------------------------------------------------------------------
(* start and stop, posted by NetEntityCommon.                              *)

CallerStep(t) ==
    /\ \/ StartCas(t)
       \/ /\ StopCas(t)
          /\ Overlap \/ /\ \E u \in Callers : call[u] = "returned"
                        /\ \A u \in Users : pc[u] = "idle"
    /\ UNCHANGED <<entity, ops, ios, control, history>>

CallerGoesOn(t) ==
    /\ CallStep(t)
    /\ UNCHANGED <<entity, ops, ios, control, history>>

\* do_start
DoStart ==
    /\ pc[Run] = "idle"
    /\ Posted("start")
    /\ ret' = [ret EXCEPT ![Run] = "posted_done"]
    /\ IF KnownEndpoints
         THEN Goto(Run, "start_connect") /\ UNCHANGED <<m_state, resolves, report>>
         ELSE /\ m_state' = "resolving"
              /\ Report("tcp_connector_resolving_addresses")
              /\ MakeEndpoints
              /\ Goto(Run, "posted_done")
    /\ UNCHANGED <<made, entityVars, m_io_handler, m_conn_attempts, connects, timers,
                   ios, arg, tries, failures, asked, answer, ups, downs, closed_told>>

\* the function posted by stop: close
DoStop ==
    /\ pc[Run] = "idle"
    /\ Posted("stop")
    /\ ret' = [ret EXCEPT ![Run] = "posted_done"]
    /\ Goto(Run, "close")
    /\ UNCHANGED <<entityVars, entity, ops, ios, arg, history>>

\* either function has returned
EndOfPosted ==
    /\ pc[Run] = "posted_done"
    /\ PostedDone
    /\ ret' = [ret EXCEPT ![Run] = "idle"]
    /\ Goto(Run, "idle")
    /\ UNCHANGED <<entity, ops, ios, arg, history>>

\* stop_io reads the flag here and acts on it later
StopIoBegins(t, h) ==
    /\ arg' = [arg EXCEPT ![t] = h]
    /\ Goto(t, IF h \in io_started THEN "io_close" ELSE "mark")

-----------------------------------------------------------------------------
(* close.                                                                  *)

\* a close that does not cancel the reconnect timer
CloseFault ==
    /\ pc[Run] = "close"
    /\ m_state \notin {"closing", "stopped"}
    /\ m_state' = "closing"
    /\ m_started' = 2
    /\ connects' = Cancelled(connects)
    /\ CancelResolve
    /\ IF m_state = "connected"
         THEN Report("error") /\ Goto(Run, "close_io")
         ELSE Goto(Run, "finish_close") /\ UNCHANGED report
    /\ UNCHANGED <<made, have_cbs, call, execq, m_io_handler, m_conn_attempts,
                   timers, ios, ret, arg, tries, failures, asked, answer,
                   ups, downs, closed_told>>

\* close: set_stopped, then whatever is outstanding in this state is
\* cancelled; closing the socket cancels a connect
Close ==
    /\ pc[Run] = "close"
    /\ m_state \notin {"closing", "stopped"}
    /\ m_state' = "closing"
    /\ m_started' = 2
    /\ connects' = Cancelled(connects)
    /\ IF m_state = "resolving" THEN CancelResolve ELSE UNCHANGED resolves
    /\ timers' = IF m_state = "timeout" THEN Cancelled(timers) ELSE timers
    /\ IF m_state = "connected"
         THEN Report("error") /\ Goto(Run, "close_io")
         ELSE Goto(Run, "finish_close") /\ UNCHANGED report
    /\ UNCHANGED <<made, have_cbs, call, execq, m_io_handler, m_conn_attempts, ios,
                   ret, arg, tries, failures, asked, answer,
                   ups, downs, closed_told>>

\* close: already shutting down or stopped
CloseAgain ==
    /\ pc[Run] = "close"
    /\ m_state \in {"closing", "stopped"}
    /\ Return(Run)
    /\ UNCHANGED <<entityVars, entity, ops, ios, ret, history>>

\* close of a connected connector: the tcp_io's stop_io, whose close calls
\* notify_me; finish_close is then left to notify_me
CloseIo ==
    /\ pc[Run] = "close_io"
    /\ IF m_io_handler # None
         THEN StopIoBegins(Run, m_io_handler)
         ELSE Goto(Run, "finish_close") /\ UNCHANGED arg
    /\ UNCHANGED <<entityVars, entity, ops, ios, ret, history>>

-----------------------------------------------------------------------------
(* Completion handlers.                                                    *)

\* the resolver has found endpoints
ResolveDone ==
    /\ pc[Run] = "idle"
    /\ m_state = "resolving"
    /\ resolves.live > 0
    /\ resolves' = Completed(resolves, "live")
    /\ Goto(Run, "start_connect")
    /\ UNCHANGED <<entityVars, entity, connects, timers, ios, ret, arg, history>>

\* the resolver reports an error, or close has cancelled it: m_state is set
\* to stopped before close tests it
ResolveFails ==
    /\ pc[Run] = "idle"
    /\ \/ ResolveMayFail /\ resolves.live > 0 /\ resolves' = Completed(resolves, "live")
       \/ resolves.cancelled > 0 /\ resolves' = Completed(resolves, "cancelled")
    /\ m_state' = "stopped"
    /\ Goto(Run, "close")
    /\ UNCHANGED <<made, entityVars, m_io_handler, m_conn_attempts, connects, timers,
                   ios, ret, arg, history>>

\* handle_connect in any other state: dropped
LateConnect ==
    /\ pc[Run] = "idle"
    /\ m_state # "connecting"
    /\ \E kind \in {k \in {"live", "cancelled"} : connects[k] > 0} :
         connects' = Completed(connects, kind)
    /\ UNCHANGED <<entityVars, entity, resolves, timers, ios, control, history>>

\* handle_connect: connected, the tcp_io is made and the application told
ConnectDone ==
    /\ pc[Run] = "idle"
    /\ m_state = "connecting"
    /\ connects.live > 0
    /\ connects' = Completed(connects, "live")
    /\ open' = open \cup {tries}
    /\ m_io_handler' = tries
    /\ m_state' = "connected"
    /\ Report("tcp_connector_connected")
    /\ ups' = ups + 1
    /\ failures' = 0
    /\ Goto(Run, "state_chg")
    /\ ret' = [ret EXCEPT ![Run] = "state_chg"]
    /\ arg' = [arg EXCEPT ![Run] = tries]
    /\ UNCHANGED <<made, entityVars, m_conn_attempts, resolves, timers, io_started,
                   reading, io_closed, again, tries, asked, answer, downs, closed_told>>

\* handle_connect with an error: ask m_timeout_func whether to try again;
\* when it says no, or the timer cannot be set, close
ConnectFails ==
    /\ pc[Run] = "idle"
    /\ m_state = "connecting"
    /\ tries < MaxTries
    /\ \E kind \in {k \in {"live", "cancelled"} : connects[k] > 0} :
         connects' = Completed(connects, kind)
    /\ failures' = failures + 1
    /\ asked' = m_conn_attempts
    /\ answer' \in Timeout(m_timeout_func, m_conn_attempts)
    /\ \/ Report("error") /\ Goto(Run, "close") /\ UNCHANGED <<m_state, timers>>
       \/ /\ answer' # NoValue
          /\ m_state' = "timeout"
          /\ timers' = Started(Cancelled(timers))
          /\ Report("tcp_connector_timeout")
          /\ UNCHANGED pc
    /\ UNCHANGED <<made, entityVars, m_io_handler, m_conn_attempts, resolves, ios, ret,
                   arg, tries, ups, downs, closed_told>>

\* a timer handler that looks only at the error
TimerDoneFault ==
    /\ pc[Run] = "idle"
    /\ \E kind \in {"live", "cancelled"}, err \in BOOLEAN :
         /\ timers[kind] > 0
         /\ err => kind = "cancelled"
         /\ timers' = Completed(timers, kind)
         /\ Goto(Run, IF err THEN "close" ELSE "start_connect")
    /\ UNCHANGED <<entityVars, entity, resolves, connects, ios, ret, arg, history>>

\* the timer expires; the wait that close has cancelled ends with an error,
\* or without one when the timer had already expired
TimerDone ==
    /\ pc[Run] = "idle"
    /\ \E kind \in {"live", "cancelled"}, err \in BOOLEAN :
         /\ timers[kind] > 0
         /\ err => kind = "cancelled"
         /\ timers' = Completed(timers, kind)
         /\ Goto(Run, IF err \/ m_state # "timeout" THEN "close" ELSE "start_connect")
    /\ UNCHANGED <<entityVars, entity, resolves, connects, ios, ret, arg, history>>

-----------------------------------------------------------------------------
(* The tcp_io: start_io, stop_io and close.                                *)

\* a shared_ptr to h is held: by the connector, by an outstanding operation,
\* by a thread
Alive(h) == h = m_io_handler \/ h \in reading \/ \E t \in Threads : arg[t] = h

\* the application calls a method of h: from the callback for it, another
\* function on the run thread, or a thread of its own
MayCall(t, h) ==
    /\ h < MaxTries /\ Alive(h)
    /\ h \in io_closed => again < MaxAgain
    /\ pc[t] = "idle" \/ (pc[t] = "state_chg" /\ arg[t] = h)
    /\ t \in Users => Overlap \/ m_started = 1

\* start_io: set_io_started succeeds (when it does not, nothing changes); not
\* called after stop_io, which is not supported (basic_io_interface.hpp:524)
StartIo(t, h) ==
    /\ MayCall(t, h)
    /\ h \notin io_started \cup io_closed
    /\ io_started' = io_started \cup {h}
    /\ arg' = [arg EXCEPT ![t] = h]
    /\ Goto(t, "endpoint")
    /\ UNCHANGED <<entityVars, entity, ops, open, reading, io_closed, again, ret, history>>

\* start_io: remote_endpoint and the first read; a closed socket has no remote
\* endpoint, nor has one whose peer is gone
RemoteEndpoint(t) ==
    /\ pc[t] = "endpoint"
    /\ \/ arg[t] \in open /\ reading' = reading \cup {arg[t]} /\ Return(t)
       \/ Goto(t, "io_close") /\ UNCHANGED <<reading, arg>>
    /\ UNCHANGED <<entityVars, entity, ops, io_started, open, io_closed, again, ret, history>>

StopIo(t, h) ==
    /\ MayCall(t, h)
    /\ StopIoBegins(t, h)
    /\ UNCHANGED <<entityVars, entity, ops, ios, ret, history>>

\* stop_io before start_io: pretend to be started
StopIoMark(t) ==
    /\ pc[t] = "mark"
    /\ io_started' = io_started \cup {arg[t]}
    /\ again' = IF arg[t] \in io_closed \ io_started THEN again + 1 ELSE again
    /\ Goto(t, "io_close")
    /\ UNCHANGED <<entityVars, entity, ops, open, reading, io_closed, ret, arg, history>>

\* the read fails, or the close that the message handler's false posted runs
IoFails(h) ==
    /\ pc[Run] = "idle"
    /\ h \in reading
    /\ reading' = reading \ {h}
    /\ arg' = [arg EXCEPT ![Run] = h]
    /\ Goto(Run, "io_close")
    /\ UNCHANGED <<entityVars, entity, ops, io_started, open, io_closed, again, ret, history>>

\* a close that does not look whether IO is stopped already
IoCloseFault(t) ==
    /\ pc[t] = "io_close"
    /\ io_started' = io_started \ {arg[t]}
    /\ io_closed' = io_closed \cup {arg[t]}
    /\ Goto(t, "shut")
    /\ UNCHANGED <<entityVars, entity, ops, open, reading, again, ret, arg, history>>

\* tcp_io::close: set_io_stopped, and return if IO was stopped already
IoClose(t) ==
    /\ pc[t] = "io_close"
    /\ IF arg[t] \in io_started
         THEN /\ io_started' = io_started \ {arg[t]}
              /\ io_closed' = io_closed \cup {arg[t]}
              /\ Goto(t, "shut")
              /\ UNCHANGED arg
         ELSE Return(t) /\ UNCHANGED <<io_started, io_closed>>
    /\ UNCHANGED <<entityVars, entity, ops, open, reading, again, ret, history>>

\* tcp_io::close: the socket
IoShut(t) ==
    /\ pc[t] = "shut"
    /\ open' = open \ {arg[t]}
    /\ Goto(t, "notify")
    /\ UNCHANGED <<entityVars, entity, ops, io_started, reading, io_closed, again, ret, arg,
                   history>>

\* the callback for a new connection returns to handle_connect
CallbackReturns ==
    /\ pc[Run] = "state_chg"
    /\ m_conn_attempts' = 0
    /\ Goto(Run, "idle")
    /\ ret' = [ret EXCEPT ![Run] = "idle"]
    /\ arg' = [arg EXCEPT ![Run] = None]
    /\ UNCHANGED <<made, entityVars, m_state, m_io_handler, ops, ios, history>>

-----------------------------------------------------------------------------
(* notify_me, called by the thread that has closed the tcp_io.             *)

\* notify_me: release the tcp_io and tell the application
Notify(t) ==
    /\ pc[t] = "notify"
    /\ m_io_handler' = None
    /\ Report("error")
    /\ downs' = downs + 1
    /\ Goto(t, "decide")
    /\ UNCHANGED <<made, entityVars, m_state, m_conn_attempts, ops, ios, ret, arg, tries,
                   failures, asked, answer, ups, closed_told>>

\* a notify_me that reconnects whatever the state
DecideFault(t) ==
    /\ pc[t] = "decide"
    /\ Goto(t, IF m_reconn_on_err THEN "start_connect" ELSE "finish_close")
    /\ UNCHANGED <<entityVars, entity, ops, ios, ret, arg, history>>

\* a notify_me that never reconnects
DecideEndsFault(t) ==
    /\ pc[t] = "decide"
    /\ Goto(t, "finish_close")
    /\ UNCHANGED <<entityVars, entity, ops, ios, ret, arg, history>>

\* notify_me: reconnect, or this is the end
Decide(t) ==
    /\ pc[t] = "decide"
    /\ Goto(t, IF m_state = "connected" /\ m_reconn_on_err THEN "start_connect"
                                                      ELSE "finish_close")
    /\ UNCHANGED <<entityVars, entity, ops, ios, ret, arg, history>>

-----------------------------------------------------------------------------
\* the parts of a method that any thread may be in
MethodStep(t) ==
    \/ RemoteEndpoint(t) \/ StopIoMark(t) \/ IoClose(t) \/ IoShut(t)
    \/ Notify(t) \/ Decide(t) \/ StartConnect(t) \/ FinishClose(t)

RunStep ==
    \/ MethodStep(Run)
    \/ Close \/ CloseAgain \/ CloseIo
    \/ CallbackReturns
    \/ DoStart \/ DoStop \/ EndOfPosted
    \/ ResolveDone \/ ResolveFails
    \/ LateConnect \/ ConnectDone \/ ConnectFails
    \/ TimerDone

Next ==
    \/ RunStep
    \/ \E t \in Users : MethodStep(t)
    \/ \E t \in Threads, h \in Handlers : StartIo(t, h) \/ StopIo(t, h)
    \/ \E h \in Handlers : IoFails(h)
    \/ \E t \in Callers : CallerStep(t) \/ CallerGoesOn(t)

Spec == Init /\ [][Next]_vars

\* The run thread runs and every resolve, connect and timer ends (the
\* operating system bounds each of them); threads inside a method go on.
\* Nothing makes a connection fail or the application call anything.
FairSpec ==
    /\ Spec
    /\ WF_vars(RunStep)
    /\ \A t \in Users : WF_vars(MethodStep(t))
    /\ \A t \in Callers : WF_vars(CallerGoesOn(t))

-----------------------------------------------------------------------------
TypeOK ==
    /\ EntityTypeOK
    /\ execq \in Seq({"start", "stop"} \X Callers)
    /\ m_state \in {"stopped", "resolving", "connecting", "connected", "timeout", "closing"}
    /\ m_io_handler \in Handlers \cup {None}
    /\ m_conn_attempts \in Nat
    /\ {resolves, connects, timers} \subseteq [live : Nat, cancelled : Nat]
    /\ io_started \cup open \cup reading \cup io_closed \subseteq Handlers
    /\ pc \in [Threads -> {"idle", "endpoint", "mark", "io_close", "shut", "close",
                           "close_io", "finish_close", "notify", "decide",
                           "start_connect", "state_chg", "posted_done"}]
    /\ answer \subseteq Ticks
    /\ ret \in [Threads -> {"idle", "state_chg", "posted_done"}]
    /\ arg \in [Threads -> Handlers \cup {None}]
    /\ {again, tries, failures, asked, ups, downs, closed_told} \subseteq Nat

\* no thread is inside a method of the connector or of a tcp_io
Resting == \A t \in Threads : pc[t] = "idle"

\* No tcp_io that close had stopped was set started again, so none has called
\* notify_me twice.  stop_io does it when it finds IO stopped by a close under
\* way (NotifiedOnce of module TcpIo); the second notify_me may then reach the
\* connector in any state, reconnect twice or end it while it connects.
ClosedOnce == again = 0

\* As long as that is so: whenever no code of the connector is running,
\* exactly the operation that will take it out of its state is outstanding,
\* and no other.  It never waits for something that is not coming, and no
\* forgotten resolve, connect or timer can come back into a later state.
StateHasItsOperation ==
    ClosedOnce /\ Resting =>
      /\ resolves.live = (IF m_state = "resolving" THEN 1 ELSE 0)
      /\ connects.live = (IF m_state = "connecting" THEN 1 ELSE 0)
      /\ timers.live = (IF m_state = "timeout" THEN 1 ELSE 0)
      /\ open = (IF m_state = "connected" THEN {m_io_handler} ELSE {})

\* A started connector whose do_start has run is doing something: it is
\* never left in state stopped while is_started() still says true.  (Without
\* m_reconn_on_err a lost connection ends it through finish_close, which does
\* not call set_stopped.)
StartedIsActive ==
    /\ m_reconn_on_err /\ Resting /\ is_started
    /\ \E t \in Callers : call[t] = "returned"
    => m_state # "stopped"

\* The application sees the connections one after the other: a state change
\* true, then its false, and no other connection's true in between, as long
\* as every tcp_io was closed once.
ConnectionsInTurn ==
    ClosedOnce =>
        /\ downs \in {ups - 1, ups}
        /\ Resting /\ m_state # "connected" => downs = ups

\* tcp_connector_closed is the last thing the connector reports, once, and
\* no callback of a connection follows it, although close, notify_me and
\* the handlers of cancelled operations all end in finish_close, as long as
\* every tcp_io was closed once.
ClosedIsLast ==
    [][closed_told > 0 /\ ClosedOnce' =>
         UNCHANGED <<report, closed_told, ups, downs, tries>>]_vars

\* "Increase the timeout value ... up to a maximum value"
\* (tcp_connector_timeout.hpp:124, 166): a delay is never below the first
\* one nor above the maximum, whichever attempt it follows, unless the
\* function was asked about attempt zero.
DelayInRange ==
    asked > 0 => \A n \in answer :
        m_timeout_func.initial_ticks <= n /\ n <= m_timeout_func.max_ticks

\* A connector with a counted_timeout gives up after as many failures in a
\* row as its maximum allows: never earlier, whatever happened before the
\* last connection, and at most two later (attempts are compared with >, and
\* the attempt that follows a connection closed in its callback counts zero),
\* as long as every tcp_io was closed once.
GivesUp ==
    m_timeout_func.type = "counted_timeout" /\ ClosedOnce =>
        /\ failures <= m_timeout_func.max_attempts + 2
        /\ asked > 0 /\ answer = NoValue => failures > m_timeout_func.max_attempts

\* A stop is not lost: whatever the connector is doing, it ends stopped, has
\* reported it, and every cancelled operation's handler has run, unless a
\* tcp_io was closed twice.
StopCloses ==
    (\E t \in Callers : call[t] = "post_stop") ~>
        []\/ ~ClosedOnce
          \/ /\ m_state = "stopped"
             /\ {resolves, connects, timers} = {NoOps}
             /\ open = {}

\* With m_reconn_on_err a started connector that never gives up always gets
\* to a connection again, until it is stopped or a tcp_io is closed twice.
KeepsConnecting ==
    []<>(\/ m_started # 1 \/ ~ClosedOnce
         \/ m_state = "connected" \/ (downs > 0 /\ ~m_reconn_on_err))

=============================================================================
