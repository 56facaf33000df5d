------------------------- MODULE TcpConnector_proofs -------------------------
(***************************************************************************)
(* Proofs about tcp_connector, for any number of threads and attempts and  *)
(* any timeout functions.  Its types and delays hold however calls overlap.*)
(* The rest is proved when calls do not overlap where net_ip.hpp:116 rules *)
(* it out (NoOverlap), and says nothing once a tcp_io that close had       *)
(* stopped was set started again (ClosedOnce).                             *)
(*                                                                         *)
(* Types is inductive on its own.  Inv, which is kept while ClosedOnce     *)
(* lasts, says what a thread at each step of the connector, or of a        *)
(* tcp_io, finds.  Its centre is Alone: start, stop, the handlers and      *)
(* notify_me on an application's thread take no common lock, and yet at    *)
(* most one thread is between two steps of them.                           *)
(***************************************************************************)
EXTENDS TcpConnector, TLAPS

NoOverlap == ~Overlap

-----------------------------------------------------------------------------
(* The invariants.                                                         *)

OpCounts == [live : Nat, cancelled : Nat]

Functions == {"start", "stop"} \X Callers

Steps == {"idle", "endpoint", "mark", "io_close", "shut", "close", "close_io",
          "finish_close", "notify", "decide", "start_connect", "state_chg", "posted_done"}

InIo == {"endpoint", "mark", "io_close"}

\* TypeOK, the answer apart, with what its own induction needs
Types ==
    /\ EntityTypeOK
    /\ execq \in Seq(Functions)
    /\ m_state \in {"stopped", "resolving", "connecting", "connected", "timeout", "closing"}
    /\ m_io_handler \in Handlers \cup {None}
    /\ m_conn_attempts \in Nat
    /\ resolves \in OpCounts /\ connects \in OpCounts /\ timers \in OpCounts
    /\ io_started \subseteq Handlers /\ open \subseteq Handlers
    /\ reading \subseteq Handlers /\ io_closed \subseteq Handlers
    /\ pc \in [Threads -> Steps]
    /\ ret \in [Threads -> {"idle", "state_chg", "posted_done"}]
    /\ arg \in [Threads -> Handlers \cup {None}]
    /\ \A t \in Threads : pc[t] \in InIo => arg[t] \in Handlers
    /\ pc[Run] = "posted_done" \/ ret[Run] = "posted_done" => execq # <<>>
    /\ tries \in 0..MaxTries /\ (connects.live > 0 => tries > 0)
    /\ again \in Nat /\ failures \in Nat /\ asked \in Nat
    /\ ups \in Nat /\ downs \in Nat /\ closed_told \in Nat
    /\ m_timeout_func \in TimeoutFuncs

\* one start, and no stop before it has returned
Calls ==
    /\ m_started = 0 => execq = <<>> /\ \A t \in Callers : call[t] = "idle"
    /\ \A t \in Callers : call[t] \in {"assign", "post_start"} =>
         /\ m_started = 1 /\ execq = <<>>
         /\ \A u \in Callers : u # t => call[u] = "idle"
    /\ \A t \in Callers : call[t] = "post_stop" =>
         /\ m_started = 2 /\ execq = <<>>
         /\ \A u \in Callers : u # t => call[u] \in {"idle", "returned"}
    /\ \/ execq = <<>> /\ \A t \in Callers : call[t] # "wait"
       \/ \E t \in Callers :
            /\ execq = <<<<"start", t>>>> /\ m_started = 1
            /\ call[t] = "wait" /\ \A u \in Callers : u # t => call[u] = "idle"
       \/ \E t \in Callers :
            /\ execq = <<<<"stop", t>>>> /\ m_started = 2
            /\ call[t] = "wait"
            /\ \A u \in Callers : u # t => call[u] \in {"idle", "returned"}

\* where a thread is in which call
Places ==
    /\ \A u \in Users : /\ ret[u] = "idle"
                        /\ pc[u] \notin {"state_chg", "posted_done", "close", "close_io"}
    /\ ret[Run] = "idle" => pc[Run] \notin {"state_chg", "posted_done"}
    /\ ret[Run] = "state_chg" => pc[Run] \notin {"idle", "posted_done", "close", "close_io"}
    /\ ret[Run] = "posted_done" =>
         /\ pc[Run] \notin {"idle", "state_chg", "endpoint"}
         /\ execq # <<>>
         /\ Head(execq)[1] = "start" => pc[Run] \in {"start_connect", "posted_done"}

\* the steps between which the state is not the one a handler expects; a
\* thread in a tcp_io's method is at one of them when it has stopped IO, and
\* the run thread when close called stop_io
StopsIo == m_state = "closing" /\ pc[Run] \in {"mark", "io_close"}

Midway(t) ==
    \/ pc[t] \in {"close", "close_io", "shut", "notify", "decide", "start_connect",
                  "finish_close"}
    \/ t = Run /\ StopsIo

\* do_start has not been executed
NotBegun ==
    \/ m_started = 0
    \/ \E t \in Callers : call[t] \in {"assign", "post_start"}
    \/ execq # <<>> /\ Head(execq)[1] = "start" /\ ret[Run] # "posted_done"

\* nothing has happened before do_start
Fresh ==
    NotBegun =>
      /\ \A t \in Threads : pc[t] = "idle"
      /\ m_state = "stopped" /\ tries = 0 /\ asked = 0 /\ failures = 0
      /\ m_conn_attempts = 0 /\ closed_told = 0

\* one thread at a time is between two steps, and an application's thread
\* only when the connection is its to end
Alone ==
    /\ \A t \in Threads : Midway(t) => \A u \in Threads : Midway(u) => u = t
    /\ \A u \in Users : Midway(u) => m_state = "connected" /\ m_started = 1

\* once stopped, an application's thread can be left in a method only of a
\* tcp_io that is closed
Quiet ==
    m_started = 2 =>
      \/ \A u \in Users : pc[u] = "idle"
      \/ m_state \in {"closing", "stopped"} /\ open = {}

\* the tcp_io objects made so far
Known == open \cup io_closed

Ios ==
    /\ io_started \subseteq open \ io_closed
    /\ reading \subseteq Known /\ m_io_handler \in Known \cup {None}
    /\ \A t \in Threads : arg[t] \in Known \cup {None}
    /\ \A h \in Known : h <= tries /\ (connects.live > 0 => h < tries)

\* an operation is outstanding only in its state, and once; cancelled
\* handlers are still to run only when the connector has been closed
Operations ==
    /\ resolves.live <= 1 /\ (resolves.live > 0 => m_state = "resolving")
    /\ connects.live <= 1 /\ (connects.live > 0 => m_state = "connecting")
    /\ timers.live <= 1 /\ (timers.live > 0 => m_state = "timeout")
    /\ open \subseteq {m_io_handler}
    /\ open # {} => \/ m_state = "connected"
                    \/ m_state = "closing" /\ pc[Run] \in {"close_io", "mark", "io_close", "shut"}
    /\ resolves.cancelled > 0 \/ connects.cancelled > 0 \/ timers.cancelled > 0 =>
         m_started = 2 /\ m_state \in {"closing", "stopped"}

NoLiveOps == resolves.live = 0 /\ connects.live = 0 /\ timers.live = 0

\* the tcp_io of the connection, which no thread has stopped yet
Connection == m_io_handler \in open \ io_closed

\* what a thread finds at each step
AtSteps ==
    /\ \A t \in Threads : pc[t] \in {"shut", "notify", "decide", "start_connect",
                                     "finish_close"} => NoLiveOps
    /\ \A t \in Threads : pc[t] \in {"notify", "decide", "start_connect", "finish_close"} =>
         open = {}
    /\ \A t \in Threads : pc[t] = "start_connect" =>
         /\ downs = ups
         /\ \/ m_state \in {"resolving", "timeout", "connected"}
            \/ m_state = "stopped" /\ tries = 0 /\ execq # <<>> /\ Head(execq)[1] = "start"
    /\ \A t \in Threads : pc[t] \in {"shut", "notify", "decide"} =>
         /\ m_state \in {"connected", "closing"}
         /\ ups = downs + (IF pc[t] = "decide" THEN 0 ELSE 1)
    /\ \A t \in Threads : pc[t] = "shut" => open = {arg[t]} /\ arg[t] \in io_closed
    /\ \A t \in Threads : pc[t] = "finish_close" =>
         downs = ups /\ m_state \in {"connected", "closing"}
    /\ pc[Run] = "close" =>
         /\ m_state # "closing"
         /\ m_state = "connected" => m_started = 2 /\ Connection
         /\ ups = downs + (IF m_state = "connected" THEN 1 ELSE 0)
    /\ pc[Run] = "close_io" => m_state = "closing"
    /\ pc[Run] = "close_io" \/ StopsIo =>
         m_started = 2 /\ Connection /\ ups = downs + 1 /\ NoLiveOps
    /\ StopsIo => arg[Run] = m_io_handler /\ (pc[Run] = "io_close" => m_io_handler \in io_started)

\* when no thread is between two steps, the operation that belongs to the
\* state is outstanding
Waiting ==
    (\A t \in Threads : ~Midway(t)) =>
      /\ m_state # "closing"
      /\ m_state = "resolving" => resolves.live = 1
      /\ m_state = "connecting" => connects.live = 1
      /\ m_state = "timeout" => timers.live = 1
      /\ m_state = "connected" => Connection
      /\ ups = downs + (IF m_state = "connected" THEN 1 ELSE 0)

\* when the end has been reported
Ended ==
    closed_told > 0 =>
      /\ m_state = "stopped"
      /\ \A t \in Threads :
           pc[t] \in {"idle", "state_chg", "posted_done", "close"} \cup InIo

Inv ==
    /\ Calls
    /\ Places
    /\ Fresh
    /\ Alone
    /\ Quiet
    /\ Ios
    /\ Operations
    /\ AtSteps
    /\ Waiting
    /\ Ended
    /\ m_state = "resolving" => tries = 0
    /\ m_state = "connecting" => tries > 0

\* the attempts that m_timeout_func is asked about are the failures in a row,
\* or one less when the connection before them was closed in its callback
Counting ==
    /\ tries = 0 => m_conn_attempts = 0 /\ failures = 0 /\ asked = 0
    /\ m_state = "connected" \/ ret[Run] = "state_chg" => failures = 0
    /\ ret[Run] # "state_chg" =>
         /\ m_state = "connected" => m_conn_attempts = 0
         /\ m_state = "timeout" => failures \in {m_conn_attempts, m_conn_attempts + 1}
         /\ connects.live > 0 => m_conn_attempts \in {failures, failures + 1}

Ending == m_state \in {"closing", "stopped"} \/ pc[Run] = "close"

\* with a counted_timeout, before and after it has given up
GivingUp ==
    m_timeout_func.type = "counted_timeout" =>
      /\ failures <= m_timeout_func.max_attempts + 2
      /\ ~Ending => failures <= m_timeout_func.max_attempts + 1
      /\ asked > 0 /\ answer = NoValue => failures > m_timeout_func.max_attempts /\ Ending

-----------------------------------------------------------------------------
(* Counting outstanding operations.                                        *)

LEMMA CountStarted ==
    ASSUME NEW op \in OpCounts
    PROVE  /\ Started(op) \in OpCounts
           /\ Started(op).live = op.live + 1 /\ Started(op).cancelled = op.cancelled
BY DEF OpCounts, Started

LEMMA CountCancelled ==
    ASSUME NEW op \in OpCounts
    PROVE  /\ Cancelled(op) \in OpCounts
           /\ Cancelled(op).live = 0
           /\ Cancelled(op).cancelled = op.live + op.cancelled
BY DEF OpCounts, Cancelled

LEMMA CountCompleted ==
    ASSUME NEW op \in OpCounts
    PROVE  /\ op.live > 0 =>
                /\ Completed(op, "live") \in OpCounts
                /\ Completed(op, "live").live = op.live - 1
                /\ Completed(op, "live").cancelled = op.cancelled
           /\ op.cancelled > 0 =>
                /\ Completed(op, "cancelled") \in OpCounts
                /\ Completed(op, "cancelled").live = op.live
                /\ Completed(op, "cancelled").cancelled = op.cancelled - 1
           /\ op["live"] = op.live /\ op["cancelled"] = op.cancelled
<1>1. op["live"] = op.live /\ op["cancelled"] = op.cancelled
  BY DEF OpCounts
<1>2. op.live > 0 => /\ Completed(op, "live") \in OpCounts
                     /\ Completed(op, "live").live = op.live - 1
                     /\ Completed(op, "live").cancelled = op.cancelled
  BY DEF OpCounts, Completed
<1>3. op.cancelled > 0 => /\ Completed(op, "cancelled") \in OpCounts
                          /\ Completed(op, "cancelled").live = op.live
                          /\ Completed(op, "cancelled").cancelled = op.cancelled - 1
  BY DEF OpCounts, Completed
<1> QED
  BY <1>1, <1>2, <1>3

-----------------------------------------------------------------------------
(* The types.                                                              *)

LEMMA SomeThreads == Run \in Threads /\ Users \subseteq Threads /\ Run \notin Users
BY TcpConnectorAssumption DEF Threads

LEMMA TypeInit ==
    ASSUME Init
    PROVE  Types
<1>1. NoOps \in OpCounts /\ NoOps.live = 0
  BY DEF NoOps, OpCounts
<1>2. /\ m_started = 0 /\ have_cbs = FALSE /\ execq = <<>> /\ call = [t \in Callers |-> "idle"]
  BY DEF Init, EntityInit
<1>3. have_cbs \in BOOLEAN
  BY <1>2
<1>4. EntityTypeOK
  BY <1>2, <1>3 DEF EntityTypeOK
<1>5. execq \in Seq(Functions)
  BY <1>2
<1>6. \A t \in Threads : pc[t] = "idle" /\ ret[t] = "idle" /\ arg[t] = None
  BY DEF Init
<1> QED
  BY <1>1, <1>4, <1>5, <1>6, SomeThreads, TcpConnectorAssumption
     DEF Init, Types, Steps, InIo, None

\* a thread goes to a step outside the tcp_io methods
LEMMA TypeOfPc ==
    ASSUME Types, NEW t \in Threads, NEW s \in Steps \ (InIo \cup {"posted_done"}),
           Goto(t, s), UNCHANGED <<execq, arg>>, UNCHANGED ret \/ execq # <<>>,
           ret' \in [Threads -> {"idle", "state_chg", "posted_done"}]
    PROVE  /\ pc' \in [Threads -> Steps]
           /\ \A u \in Threads : pc'[u] \in InIo => arg'[u] \in Handlers
           /\ pc'[Run] = "posted_done" \/ ret'[Run] = "posted_done" => execq' # <<>>
BY SomeThreads DEF Types, Goto, InIo

LEMMA TypeOfReturn ==
    ASSUME Types, NEW t \in Threads, Return(t), UNCHANGED <<execq, ret>>
    PROVE  /\ pc' \in [Threads -> Steps]
           /\ arg' \in [Threads -> Handlers \cup {None}]
           /\ \A u \in Threads : pc'[u] \in InIo => arg'[u] \in Handlers
           /\ pc'[Run] = "posted_done" \/ ret'[Run] = "posted_done" => execq' # <<>>
<1>1. ret[t] \in {"idle", "state_chg", "posted_done"}
  BY DEF Types
<1>2. pc' = [pc EXCEPT ![t] = ret[t]]
  BY DEF Return, Goto
<1>3. pc' \in [Threads -> Steps]
  BY <1>1, <1>2 DEF Types, Steps
<1>4. arg' \in [Threads -> Handlers \cup {None}]
  BY DEF Types, Return
<1>5. ASSUME NEW u \in Threads, pc'[u] \in InIo PROVE arg'[u] \in Handlers
  <2>1. u # t /\ pc[u] \in InIo
    BY <1>1, <1>2, <1>5 DEF Types, InIo
  <2> QED
    BY <2>1 DEF Types, Return
<1>6. pc'[Run] = "posted_done" \/ ret'[Run] = "posted_done" => execq' # <<>>
  BY <1>2, SomeThreads DEF Types
<1> QED
  BY <1>3, <1>4, <1>5, <1>6

\* a thread goes to a step of a tcp_io's method
LEMMA TypeOfIoPc ==
    ASSUME Types, NEW t \in Threads, NEW s \in InIo, NEW h \in Handlers,
           Goto(t, s), arg' = [arg EXCEPT ![t] = h], UNCHANGED <<execq, ret>>
    PROVE  /\ pc' \in [Threads -> Steps]
           /\ arg' \in [Threads -> Handlers \cup {None}]
           /\ \A u \in Threads : pc'[u] \in InIo => arg'[u] \in Handlers
           /\ pc'[Run] = "posted_done" \/ ret'[Run] = "posted_done" => execq' # <<>>
BY SomeThreads DEF Types, Goto, InIo, Steps

LEMMA TypesOfMethodStep ==
    ASSUME Types, NEW t \in Threads, MethodStep(t)
    PROVE  Types'
<1> USE SomeThreads
<1>1. CASE RemoteEndpoint(t)
  <2>1. arg[t] \in Handlers
    BY <1>1 DEF RemoteEndpoint, Types, InIo
  <2>2. CASE reading' = reading \cup {arg[t]} /\ Return(t)
    BY <1>1, <2>1, <2>2, TypeOfReturn
       DEF RemoteEndpoint, Types, EntityTypeOK, entityVars, entity, made, ops, history
  <2>3. CASE Goto(t, "io_close") /\ UNCHANGED <<reading, arg>>
    <3>1. arg' = [arg EXCEPT ![t] = arg[t]] /\ "io_close" \in InIo
      BY <2>3 DEF Types, InIo
    <3> QED
      BY <1>1, <2>1, <2>3, <3>1, TypeOfIoPc
         DEF RemoteEndpoint, Types, EntityTypeOK, entityVars, entity, made, ops, history
  <2> QED
    BY <1>1, <2>2, <2>3 DEF RemoteEndpoint
<1>2. CASE StopIoMark(t)
  <2>1. arg[t] \in Handlers
    BY <1>2 DEF StopIoMark, Types, InIo
  <2>2. arg' = [arg EXCEPT ![t] = arg[t]] /\ "io_close" \in InIo /\ Goto(t, "io_close")
    BY <1>2 DEF StopIoMark, Types, InIo
  <2>3. again' \in Nat /\ io_started' \subseteq Handlers
    BY <1>2, <2>1 DEF StopIoMark, Types
  <2>4. UNCHANGED <<entityVars, entity, ops, open, reading, io_closed, ret, history>>
    BY <1>2 DEF StopIoMark
  <2>5. UNCHANGED execq
    BY <2>4 DEF entityVars
  <2>6. /\ pc' \in [Threads -> Steps]
        /\ arg' \in [Threads -> Handlers \cup {None}]
        /\ \A u \in Threads : pc'[u] \in InIo => arg'[u] \in Handlers
        /\ pc'[Run] = "posted_done" \/ ret'[Run] = "posted_done" => execq' # <<>>
    BY <2>1, <2>2, <2>4, <2>5, TypeOfIoPc
  <2> QED
    BY <2>3, <2>4, <2>5, <2>6 DEF Types, EntityTypeOK, entityVars, entity, made, ops, history
<1>3. CASE IoClose(t)
  <2>1. arg[t] \in Handlers
    BY <1>3 DEF IoClose, Types, InIo
  <2>2. CASE Return(t) /\ UNCHANGED <<io_started, io_closed>>
    BY <1>3, <2>2, TypeOfReturn
       DEF IoClose, Types, EntityTypeOK, entityVars, entity, made, ops, history
  <2>3. CASE /\ io_started' = io_started \ {arg[t]} /\ io_closed' = io_closed \cup {arg[t]}
             /\ Goto(t, "shut") /\ UNCHANGED arg
    BY <1>3, <2>1, <2>3, TypeOfPc
       DEF IoClose, Types, EntityTypeOK, entityVars, entity, made, ops, history, Steps, InIo
  <2> QED
    BY <1>3, <2>2, <2>3 DEF IoClose
<1>4. CASE IoShut(t)
  BY <1>4, TypeOfPc
     DEF IoShut, Types, EntityTypeOK, entityVars, entity, made, ops, history, Steps, InIo
<1>5. CASE Notify(t)
  BY <1>5, TypeOfPc
     DEF Notify, Types, EntityTypeOK, entityVars, made, ops, ios, Steps, InIo
<1>6. CASE Decide(t)
  BY <1>6, TypeOfPc
     DEF Decide, Types, EntityTypeOK, entityVars, entity, made, ops, ios, history, Steps, InIo
<1>7. CASE StartConnect(t)
  <2>1. connects' \in OpCounts
    BY <1>7, CountStarted DEF StartConnect, Types
  <2> QED
    BY <1>7, <2>1, TypeOfReturn, TcpConnectorAssumption
       DEF StartConnect, Types, EntityTypeOK, entityVars, made, ios
<1>8. CASE FinishClose(t)
  BY <1>8, TypeOfReturn
     DEF FinishClose, Types, EntityTypeOK, entityVars, made, ops, ios
<1> QED
  BY <1>1, <1>2, <1>3, <1>4, <1>5, <1>6, <1>7, <1>8 DEF MethodStep

LEMMA TypesOfPosted ==
    ASSUME Types, DoStart \/ DoStop \/ EndOfPosted
    PROVE  Types'
<1> USE SomeThreads
<1>1. ret' \in [Threads -> {"idle", "state_chg", "posted_done"}]
  BY DEF Types, DoStart, DoStop, EndOfPosted
<1>2. CASE DoStart
  <2>1. execq # <<>>
    BY <1>2 DEF DoStart, Posted
  <2>2. CASE Goto(Run, "start_connect") /\ UNCHANGED <<m_state, resolves, report>>
    BY <1>1, <1>2, <2>1, <2>2, TypeOfPc
       DEF DoStart, Types, EntityTypeOK, entityVars, made, ios, Steps, InIo
  <2>3. CASE m_state' = "resolving" /\ MakeEndpoints /\ Goto(Run, "posted_done")
    <3>1. resolves' \in OpCounts
      BY <2>3, CountStarted DEF MakeEndpoints, Types
    <3>2. pc' = [pc EXCEPT ![Run] = "posted_done"]
      BY <2>3 DEF Goto
    <3>3. pc' \in [Threads -> Steps] /\ \A u \in Threads : pc'[u] \in InIo => arg'[u] \in Handlers
      BY <1>2, <3>2 DEF DoStart, Types, Steps, InIo
    <3> QED
      BY <1>1, <1>2, <2>1, <2>3, <3>1, <3>3
         DEF DoStart, Types, EntityTypeOK, entityVars, made, ios
  <2> QED
    BY <1>2, <2>2, <2>3 DEF DoStart
<1>3. CASE DoStop
  BY <1>1, <1>3, TypeOfPc
     DEF DoStop, Posted, Types, EntityTypeOK, entityVars, entity, made, ops, ios, history, Steps, InIo
<1>4. CASE EndOfPosted
  <2>1. execq # <<>> /\ execq \in Seq(Functions)
    BY <1>4 DEF EndOfPosted, Types
  <2>2. Tail(execq) \in Seq(Functions) /\ execq[1] \in Functions
    BY <2>1
  <2>3. execq' \in Seq(Functions) /\ EntityTypeOK'
    BY <1>4, <2>2 DEF EndOfPosted, PostedDone, CallGoto, Functions, Types, EntityTypeOK
  <2>4. /\ pc' = [pc EXCEPT ![Run] = "idle"] /\ ret' = [ret EXCEPT ![Run] = "idle"]
        /\ UNCHANGED arg
    BY <1>4 DEF EndOfPosted, Goto
  <2>5. /\ pc' \in [Threads -> Steps] /\ pc'[Run] = "idle" /\ ret'[Run] = "idle"
        /\ \A u \in Threads : pc'[u] \in InIo => arg'[u] \in Handlers
    BY <2>4 DEF Types, Steps, InIo
  <2> QED
    BY <1>1, <1>4, <2>3, <2>5 DEF EndOfPosted, Types, entity, made, ops, ios, history
<1> QED
  BY <1>2, <1>3, <1>4

LEMMA TypesOfRun ==
    ASSUME Types, Close \/ CloseAgain \/ CloseIo \/ CallbackReturns
    PROVE  Types'
<1> USE SomeThreads
<1>1. CASE Close
  <2>1. connects' \in OpCounts /\ connects'.live = 0
    BY <1>1, CountCancelled DEF Close, Types
  <2>2. resolves' \in OpCounts /\ timers' \in OpCounts
    BY <1>1, CountCancelled DEF Close, CancelResolve, Types
  <2>3. EntityTypeOK' /\ execq' = execq
    BY <1>1 DEF Close, Types, EntityTypeOK
  <2>4. CASE Goto(Run, "close_io")
    BY <1>1, <2>1, <2>2, <2>3, <2>4, TypeOfPc DEF Close, Types, made, ios, Steps, InIo
  <2>5. CASE Goto(Run, "finish_close")
    BY <1>1, <2>1, <2>2, <2>3, <2>5, TypeOfPc DEF Close, Types, made, ios, Steps, InIo
  <2> QED
    BY <1>1, <2>4, <2>5 DEF Close
<1>2. CASE CloseAgain
  BY <1>2, TypeOfReturn
     DEF CloseAgain, Types, EntityTypeOK, entityVars, entity, made, ops, ios, history
<1>3. CASE CloseIo
  <2>1. CASE m_io_handler # None
    <3>1. m_io_handler \in Handlers
      BY <2>1 DEF Types
    <3>2. PICK s \in InIo : Goto(Run, s) /\ arg' = [arg EXCEPT ![Run] = m_io_handler]
      BY <1>3, <2>1 DEF CloseIo, StopIoBegins, InIo
    <3> QED
      BY <1>3, <3>1, <3>2, TypeOfIoPc
         DEF CloseIo, Types, EntityTypeOK, entityVars, entity, made, ops, ios, history
  <2>2. CASE m_io_handler = None
    BY <1>3, <2>2, TypeOfPc
       DEF CloseIo, Types, EntityTypeOK, entityVars, entity, made, ops, ios, history, Steps, InIo
  <2> QED
    BY <2>1, <2>2
<1>4. CASE CallbackReturns
  <2>1. /\ pc' = [pc EXCEPT ![Run] = "idle"] /\ ret' = [ret EXCEPT ![Run] = "idle"]
        /\ arg' = [arg EXCEPT ![Run] = None]
    BY <1>4 DEF CallbackReturns, Goto
  <2>2. /\ pc' \in [Threads -> Steps] /\ pc'[Run] = "idle" /\ ret'[Run] = "idle"
        /\ ret' \in [Threads -> {"idle", "state_chg", "posted_done"}]
        /\ arg' \in [Threads -> Handlers \cup {None}]
        /\ \A u \in Threads : pc'[u] \in InIo => arg'[u] \in Handlers
    BY <2>1 DEF Types, Steps, InIo
  <2> QED
    BY <1>4, <2>2 DEF CallbackReturns, Types, EntityTypeOK, entityVars, made, ops, ios, history
<1> QED
  BY <1>1, <1>2, <1>3, <1>4

LEMMA TypesOfHandlers ==
    ASSUME Types, ResolveDone \/ ResolveFails \/ LateConnect \/ ConnectDone \/ ConnectFails
                  \/ TimerDone
    PROVE  Types'
<1> USE SomeThreads
<1>1. CASE ResolveDone
  BY <1>1, CountCompleted, TypeOfPc
     DEF ResolveDone, Types, EntityTypeOK, entityVars, entity, made, ios, history, Steps, InIo
<1>2. CASE ResolveFails
  <2>1. resolves' \in OpCounts
    BY <1>2, CountCompleted DEF ResolveFails, Types
  <2> QED
    BY <1>2, <2>1, TypeOfPc
       DEF ResolveFails, Types, EntityTypeOK, entityVars, made, ios, history, Steps, InIo
<1>3. CASE LateConnect
  <2>1. PICK kind \in {"live", "cancelled"} :
          connects[kind] > 0 /\ connects' = Completed(connects, kind)
    BY <1>3 DEF LateConnect
  <2>2. connects' \in OpCounts /\ connects'.live <= connects.live
    BY <2>1, CountCompleted DEF Types, OpCounts
  <2>3. connects'.live > 0 => connects.live > 0
    BY <2>2 DEF Types, OpCounts
  <2> QED
    BY <1>3, <2>2, <2>3
       DEF LateConnect, Types, EntityTypeOK, entityVars, entity, made, ios, control, history
<1>4. CASE ConnectDone
  <2>1. /\ connects' \in OpCounts /\ connects'.live = connects.live - 1 /\ connects.live > 0
        /\ tries \in Handlers
    BY <1>4, CountCompleted DEF ConnectDone, Types, Handlers
  <2>2. /\ pc' = [pc EXCEPT ![Run] = "state_chg"] /\ ret' = [ret EXCEPT ![Run] = "state_chg"]
        /\ arg' = [arg EXCEPT ![Run] = tries]
    BY <1>4 DEF ConnectDone, Goto
  <2>3. /\ pc' \in [Threads -> Steps] /\ pc'[Run] = "state_chg" /\ ret'[Run] = "state_chg"
        /\ ret' \in [Threads -> {"idle", "state_chg", "posted_done"}]
        /\ arg' \in [Threads -> Handlers \cup {None}]
        /\ \A u \in Threads : pc'[u] \in InIo => arg'[u] \in Handlers
    BY <2>1, <2>2 DEF Types, Steps, InIo
  <2> QED
    BY <1>4, <2>1, <2>3 DEF ConnectDone, Types, EntityTypeOK, entityVars, made
<1>5. CASE ConnectFails
  <2>1. PICK kind \in {"live", "cancelled"} :
          connects[kind] > 0 /\ connects' = Completed(connects, kind)
    BY <1>5 DEF ConnectFails
  <2>2. connects' \in OpCounts /\ connects'.live <= connects.live
    BY <2>1, CountCompleted DEF Types, OpCounts
  <2>3. connects'.live > 0 => connects.live > 0
    BY <2>2 DEF Types, OpCounts
  <2>4. CASE Goto(Run, "close") /\ UNCHANGED <<m_state, timers>>
    BY <1>5, <2>2, <2>3, <2>4, TypeOfPc
       DEF ConnectFails, Types, EntityTypeOK, entityVars, made, ios, Steps, InIo
  <2>5. CASE m_state' = "timeout" /\ timers' = Started(Cancelled(timers)) /\ UNCHANGED pc
    <3>1. timers' \in OpCounts
      BY <2>5, CountCancelled, CountStarted DEF Types
    <3> QED
      BY <1>5, <2>2, <2>3, <2>5, <3>1
         DEF ConnectFails, Types, EntityTypeOK, entityVars, made, ios
  <2> QED
    BY <1>5, <2>4, <2>5 DEF ConnectFails
<1>6. CASE TimerDone
  <2>1. PICK kind \in {"live", "cancelled"}, err \in BOOLEAN :
          /\ timers[kind] > 0
          /\ timers' = Completed(timers, kind)
          /\ Goto(Run, IF err \/ m_state # "timeout" THEN "close" ELSE "start_connect")
    BY <1>6 DEF TimerDone
  <2>2. timers' \in OpCounts
    BY <2>1, CountCompleted DEF Types
  <2>3. PICK s \in {"close", "start_connect"} : Goto(Run, s)
    BY <2>1
  <2>4. UNCHANGED <<entityVars, entity, resolves, connects, ios, ret, arg, history>>
    BY <1>6 DEF TimerDone
  <2> QED
    BY <2>2, <2>3, <2>4, TypeOfPc
       DEF Types, EntityTypeOK, entityVars, entity, made, ios, history, Steps, InIo
<1> QED
  BY <1>1, <1>2, <1>3, <1>4, <1>5, <1>6

LEMMA TypesOfCalls ==
    ASSUME Types, NEW t \in Callers, CallerStep(t) \/ CallerGoesOn(t)
    PROVE  Types'
<1>1. UNCHANGED <<entity, ops, ios, control, history>>
  BY DEF CallerStep, CallerGoesOn
<1>2. EntityTypeOK'
  <2>1. PICK s \in {"assign", "post_start", "post_stop", "wait"} :
          call' = [call EXCEPT ![t] = s]
    BY DEF CallerStep, CallerGoesOn, CallStep, StartCas, StopCas, StartAssign, StartPost,
       StopPost, CallGoto
  <2>2. m_started' \in {m_started, 1, 2}
    BY DEF CallerStep, CallerGoesOn, CallStep, StartCas, StopCas, StartAssign, StartPost, StopPost
  <2>3. have_cbs' = have_cbs \/ have_cbs' = TRUE
    BY DEF CallerStep, CallerGoesOn, CallStep, StartCas, StopCas, StartAssign, StartPost, StopPost
  <2>4. have_cbs' \in BOOLEAN
    BY <2>3 DEF Types, EntityTypeOK
  <2>5. m_started' \in 0..2
    BY <2>2 DEF Types, EntityTypeOK
  <2>6. call' \in [Callers -> {"idle", "assign", "post_start", "post_stop",
                              "wait", "returned"}]
    BY <2>1 DEF Types, EntityTypeOK
  <2> QED
    BY <2>4, <2>5, <2>6 DEF EntityTypeOK
<1>3. execq' = execq \/ \E fn \in {"start", "stop"} : execq' = Append(execq, <<fn, t>>)
  BY DEF CallerStep, CallerGoesOn, CallStep, StartCas, StopCas, StartAssign, StartPost, StopPost
<1>4. execq' \in Seq(Functions) /\ (execq # <<>> => execq' # <<>>)
  <2>1. execq \in Seq(Functions)
    BY DEF Types
  <2>2. ASSUME NEW fn \in {"start", "stop"}, execq' = Append(execq, <<fn, t>>)
        PROVE  execq' \in Seq(Functions) /\ execq' # <<>>
    <3>1. <<fn, t>> \in Functions
      BY DEF Functions
    <3> QED
      BY <2>1, <2>2, <3>1
  <2> QED
    BY <1>3, <2>1, <2>2
<1> QED
  BY <1>1, <1>2, <1>4 DEF Types, entity, made, ops, ios, control, history

LEMMA TypesOfUse ==
    ASSUME Types, NEW t \in Threads, NEW h \in Handlers, StartIo(t, h) \/ StopIo(t, h)
    PROVE  Types'
<1>1. PICK s \in InIo : Goto(t, s) /\ arg' = [arg EXCEPT ![t] = h]
  BY DEF StartIo, StopIo, StopIoBegins, InIo
<1>2. /\ io_started' \subseteq Handlers
      /\ UNCHANGED <<entityVars, entity, ops, open, reading, io_closed, again, ret, history>>
  BY DEF StartIo, StopIo, ios, Types
<1> QED
  BY <1>1, <1>2, TypeOfIoPc DEF Types, EntityTypeOK, entityVars, entity, made, ops, history

LEMMA TypesOfIoFails ==
    ASSUME Types, NEW h \in Handlers, IoFails(h)
    PROVE  Types'
BY SomeThreads, TypeOfIoPc
   DEF IoFails, Types, EntityTypeOK, entityVars, entity, made, ops, history, InIo

LEMMA TypesStep ==
    ASSUME Types, [Next]_vars
    PROVE  Types'
<1>1. CASE RunStep
  BY <1>1, SomeThreads, TypesOfMethodStep, TypesOfRun, TypesOfPosted, TypesOfHandlers DEF RunStep
<1>2. CASE \E t \in Users : MethodStep(t)
  BY <1>2, SomeThreads, TypesOfMethodStep
<1>3. CASE \E t \in Threads, h \in Handlers : StartIo(t, h) \/ StopIo(t, h)
  BY <1>3, TypesOfUse
<1>4. CASE \E h \in Handlers : IoFails(h)
  BY <1>4, TypesOfIoFails
<1>5. CASE \E t \in Callers : CallerStep(t) \/ CallerGoesOn(t)
  BY <1>5, TypesOfCalls
<1>6. CASE UNCHANGED vars
  BY <1>6 DEF vars, entityVars, entity, made, ops, ios, control, history, Types, EntityTypeOK
<1> QED
  BY <1>1, <1>2, <1>3, <1>4, <1>5, <1>6 DEF Next

LEMMA TimeoutInTicks ==
    ASSUME NEW f \in FuncObjects, NEW n \in Nat, NEW a \in Timeout(f, n)
    PROVE  a \subseteq Ticks
<1> DEFINE p == (n - 1) * f.scale_factor * f.initial_ticks
<1>1. /\ f.initial_ticks \in Ticks /\ f.max_ticks \in Ticks /\ f.scale_factor \in Nat
      /\ f.initial_ticks \in Nat
      /\ f.type \in {"simple_timeout", "counted_timeout", "backoff_timeout",
                     "exponential_backoff_timeout", "application"}
  BY DEF FuncObjects
<1>2. Millis(f.initial_ticks) \subseteq Ticks /\ NoValue \subseteq Ticks
  BY <1>1 DEF Millis, NoValue
<1>3. ASSUME NEW m \in Ticks PROVE Capped(f, m) \in Ticks
  BY <1>1, <1>3 DEF Capped
<1>4. CASE f.type = "simple_timeout"
  BY <1>2, <1>4 DEF Timeout, Simple
<1>5. CASE f.type = "counted_timeout"
  BY <1>2, <1>5 DEF Timeout, Counted
<1>6. CASE f.type = "backoff_timeout"
  <2>1. p \in Int
    BY <1>1
  <2>2. ASSUME NEW q \in Int PROVE Signed(q) \in Ticks
    <3>1. q % (2 * TickLimit) \in 0 .. 2 * TickLimit - 1
      BY TickAssumption
    <3> QED
      BY <3>1, TickAssumption DEF Signed, Ticks
  <2>3. Signed(p) \in Ticks
    BY <2>1, <2>2
  <2>4. Backoff(f, n) \subseteq Ticks
    BY <1>1, <1>2, <1>3, <2>3 DEF Backoff, Millis
  <2> QED
    BY <1>6, <2>4 DEF Timeout
<1>7. CASE f.type = "exponential_backoff_timeout"
  <2>1. ASSUME NEW d, NEW m \in Truncated(d) PROVE m \in Ticks
    BY <2>1, TickAssumption DEF Truncated, Ticks
  <2>2. a \in Exponential(f, n)
    BY <1>7 DEF Timeout
  <2>3. PICK m \in Truncated(f.initial_ticks ^ n) : a = Millis(Capped(f, m))
    BY <2>2 DEF Exponential
  <2> QED
    BY <1>3, <2>1, <2>3 DEF Millis
<1>8. CASE f.type = "application"
  BY <1>2, <1>8 DEF Timeout
<1> QED
  BY <1>1, <1>4, <1>5, <1>6, <1>7, <1>8

\* only a failed attempt asks the timeout function
LEMMA AnswerKept ==
    ASSUME [Next]_vars, ~ConnectFails
    PROVE  UNCHANGED <<m_timeout_func, asked, answer>>
<1>1. ASSUME NEW t, MethodStep(t)
      PROVE  UNCHANGED <<m_timeout_func, asked, answer>>
  BY <1>1 DEF MethodStep, RemoteEndpoint, StopIoMark, IoClose, IoShut, Notify, Decide,
     StartConnect, FinishClose, history, entity, made
<1>2. CASE RunStep
  BY <1>1, <1>2 DEF RunStep, Close, CloseAgain, CloseIo, CallbackReturns, DoStart, DoStop,
     EndOfPosted, ResolveDone, ResolveFails, LateConnect, ConnectDone, TimerDone,
     control, history, entity, made
<1>3. CASE \E t \in Users : MethodStep(t)
  BY <1>1, <1>3
<1>4. CASE \E t \in Threads, h \in Handlers : StartIo(t, h) \/ StopIo(t, h)
  BY <1>4 DEF StartIo, StopIo, history, entity, made
<1>5. CASE \E h \in Handlers : IoFails(h)
  BY <1>5 DEF IoFails, history, entity, made
<1>6. CASE \E t \in Callers : CallerStep(t) \/ CallerGoesOn(t)
  BY <1>6 DEF CallerStep, CallerGoesOn, history, entity, made
<1>7. CASE UNCHANGED vars
  BY <1>7 DEF vars, history, entity, made
<1> QED
  BY <1>2, <1>3, <1>4, <1>5, <1>6, <1>7 DEF Next

LEMMA AnswerStep ==
    ASSUME Types, answer \subseteq Ticks, [Next]_vars
    PROVE  answer' \subseteq Ticks
<1>1. CASE ConnectFails
  <2>1. answer' \in Timeout(m_timeout_func, m_conn_attempts)
    BY <1>1 DEF ConnectFails
  <2>2. m_timeout_func \in FuncObjects /\ m_conn_attempts \in Nat
    BY TcpConnectorAssumption DEF Types
  <2> QED
    BY <2>1, <2>2, TimeoutInTicks
<1>2. CASE ~ConnectFails
  <2>1. UNCHANGED answer
    BY <1>2, AnswerKept
  <2> QED
    BY <2>1
<1> QED
  BY <1>1, <1>2

\* The fields of a connector, its outstanding operations and the threads'
\* places keep their types, however calls overlap and however often a tcp_io
\* is closed; a delay fits the ticks it is given in.
THEOREM TypeCorrect == Spec => []TypeOK
<1>1. Init => Types /\ answer \subseteq Ticks
  BY TypeInit DEF Init, NoValue
<1>2. Types /\ answer \subseteq Ticks => TypeOK
  <2> SUFFICES ASSUME Types, answer \subseteq Ticks PROVE TypeOK
    OBVIOUS
  <2>1. pc \in [Threads -> {"idle", "endpoint", "mark", "io_close", "shut", "close",
                           "close_io", "finish_close", "notify", "decide",
                           "start_connect", "state_chg", "posted_done"}]
    BY DEF Types, Steps
  <2>2. tries \in Nat
    BY TcpConnectorAssumption DEF Types
  <2> QED
    BY <2>1, <2>2 DEF Types, TypeOK, OpCounts, Functions
<1>3. Types /\ answer \subseteq Ticks /\ [Next]_vars => (Types /\ answer \subseteq Ticks)'
  BY TypesStep, AnswerStep
<1> QED
  BY <1>1, <1>2, <1>3, PTL DEF Spec

-----------------------------------------------------------------------------
(* The steps.                                                              *)

LEMMA Going ==
    ASSUME Types, NEW t \in Threads, NEW s, Goto(t, s)
    PROVE  pc'[t] = s /\ \A u \in Threads : u # t => pc'[u] = pc[u]
BY DEF Types, Goto

LEMMA Returning ==
    ASSUME Types, NEW t \in Threads, Return(t)
    PROVE  /\ pc'[t] = ret[t] /\ \A u \in Threads : u # t => pc'[u] = pc[u]
           /\ ret[t] \in {"idle", "state_chg", "posted_done"}
           /\ \A u \in Threads : arg'[u] \in {arg[u], None} /\ (u # t => arg'[u] = arg[u])
BY DEF Types, Return, Goto

LEMMA OpNumbers ==
    ASSUME Types
    PROVE  /\ resolves.live \in Nat /\ connects.live \in Nat /\ timers.live \in Nat
           /\ resolves.cancelled \in Nat /\ connects.cancelled \in Nat
           /\ timers.cancelled \in Nat
BY DEF Types, OpCounts

LEMMA StartConnectStep ==
    ASSUME Types, Inv, Types', NEW t \in Threads, StartConnect(t)
    PROVE  Inv'
<1> USE SomeThreads
<1>1. /\ pc[t] = "start_connect" /\ tries' = tries + 1 /\ m_state' = "connecting"
      /\ m_conn_attempts' = m_conn_attempts + 1 /\ connects' = Started(connects)
      /\ UNCHANGED <<m_timeout_func, m_reconn_on_err, m_io_handler, resolves, timers,
                     io_started, open, reading, io_closed, again,
                     ret, failures, asked, answer, ups, downs, closed_told>>
      /\ UNCHANGED entityVars
  BY DEF StartConnect, made, ios
<1>2. /\ pc'[t] = ret[t] /\ \A u \in Threads : u # t => pc'[u] = pc[u]
      /\ ret[t] \in {"idle", "state_chg", "posted_done"}
      /\ \A u \in Threads : arg'[u] \in {arg[u], None} /\ (u # t => arg'[u] = arg[u])
  BY Returning DEF StartConnect
<1>3. /\ \A u \in Threads : Midway(u) => u = t
      /\ NoLiveOps /\ open = {} /\ downs = ups
      /\ t \in Users => m_started = 1
  BY <1>1 DEF Inv, Alone, Midway, AtSteps
<1>4. /\ connects'.live = 1 /\ connects'.cancelled = connects.cancelled
  BY <1>1, <1>3, CountStarted DEF Types, NoLiveOps
<1>7. resolves.cancelled = 0 /\ connects.cancelled = 0 /\ timers.cancelled = 0
  <2>1. m_state \in {"closing", "stopped"} => execq # <<>> /\ Head(execq)[1] = "start"
    BY <1>1 DEF Inv, AtSteps
  <2>2. execq # <<>> /\ Head(execq)[1] = "start" => m_started = 1
    BY DEF Inv, Calls
  <2>3. ~(resolves.cancelled > 0 \/ connects.cancelled > 0 \/ timers.cancelled > 0)
    BY <2>1, <2>2 DEF Inv, Operations
  <2> QED
    BY <2>3, OpNumbers
<1>5. UNCHANGED <<m_started, have_cbs, call, execq>>
  BY <1>1 DEF entityVars
<1>6. \A u \in Threads : ~Midway(u)'
  BY <1>1, <1>2, <1>3 DEF Types, Midway, StopsIo
<1>11. Calls'
  BY <1>5 DEF Inv, Calls
<1>12. Places'
  BY <1>1, <1>2, <1>5 DEF Inv, Places
<1>13. Fresh'
  BY <1>1, <1>5 DEF Inv, Fresh, NotBegun
<1>14. Alone'
  BY <1>6 DEF Alone
<1>20. Quiet'
  <2>1. m_started = 2 => \A u \in Users : pc[u] = "idle"
    BY <1>1, <1>3, <1>7 DEF Inv, Quiet, AtSteps, Calls
  <2> QED
    BY <1>2, <1>3, <1>5, <2>1 DEF Quiet
<1>21. Ios'
  <2>1. \A h \in Known : h <= tries /\ h \in Nat
    BY DEF Inv, Ios, Types, Known, Handlers
  <2>2. \A h \in Known : h < tries + 1
    BY <2>1 DEF Types
  <2> QED
    BY <1>1, <1>2, <2>1, <2>2 DEF Inv, Ios, Known, Types
<1>15. Operations'
  BY <1>1, <1>3, <1>4, <1>7 DEF Operations, NoLiveOps
<1>16. AtSteps'
  <2>1. ~StopsIo' /\ \A u \in Threads : pc'[u] \notin {"close", "close_io", "shut", "notify", "decide",
                                       "start_connect", "finish_close"}
    BY <1>1, <1>6 DEF Midway, StopsIo
  <2> QED
    BY <2>1 DEF AtSteps
<1>17. Waiting'
  BY <1>1, <1>3, <1>4 DEF Waiting, Types
<1>19. Ended'
  BY <1>1, <1>2, <1>3 DEF Inv, Ended, InIo
<1>18. tries' > 0
  BY <1>1 DEF Types
<1> QED
  BY <1>1, <1>11, <1>12, <1>13, <1>14, <1>15, <1>16, <1>17, <1>18, <1>19, <1>20, <1>21 DEF Inv

LEMMA FinishCloseStep ==
    ASSUME Types, Inv, Types', NEW t \in Threads, FinishClose(t)
    PROVE  Inv'
<1> USE SomeThreads
<1>1. /\ pc[t] = "finish_close" /\ m_state' = "stopped" /\ closed_told' = closed_told + 1
      /\ UNCHANGED <<m_timeout_func, m_reconn_on_err, m_io_handler, m_conn_attempts,
                     resolves, connects, timers, io_started, open, reading, io_closed, again,
                     ret, tries, failures, asked, answer, ups, downs>>
      /\ UNCHANGED entityVars
  BY DEF FinishClose, made, ops, ios
<1>2. /\ pc'[t] = ret[t] /\ \A u \in Threads : u # t => pc'[u] = pc[u]
      /\ ret[t] \in {"idle", "state_chg", "posted_done"}
      /\ \A u \in Threads : arg'[u] \in {arg[u], None} /\ (u # t => arg'[u] = arg[u])
  BY Returning DEF FinishClose
<1>3. (\A u \in Threads : Midway(u) => u = t) /\ NoLiveOps /\ open = {} /\ downs = ups
  BY <1>1 DEF Inv, Alone, Midway, AtSteps
<1>5. UNCHANGED <<m_started, have_cbs, call, execq>>
  BY <1>1 DEF entityVars
<1>6. \A u \in Threads : ~Midway(u)'
  BY <1>1, <1>2, <1>3 DEF Midway, StopsIo
<1>7. resolves.cancelled > 0 \/ connects.cancelled > 0 \/ timers.cancelled > 0 => m_started = 2
  BY DEF Inv, Operations
<1>11. Calls'
  BY <1>5 DEF Inv, Calls
<1>12. Places'
  BY <1>1, <1>2, <1>5 DEF Inv, Places
<1>13. Fresh'
  BY <1>1, <1>5 DEF Inv, Fresh, NotBegun
<1>14. Alone'
  BY <1>6 DEF Alone
<1>20. Quiet'
  BY <1>1, <1>3 DEF Quiet
<1>21. Ios'
  BY <1>1, <1>2 DEF Inv, Ios, Known
<1>15. Operations'
  BY <1>1, <1>3, <1>5, <1>7 DEF Operations, NoLiveOps
<1>16. AtSteps'
  <2>1. ~StopsIo' /\ \A u \in Threads : pc'[u] \notin {"close", "close_io", "shut", "notify", "decide",
                                       "start_connect", "finish_close"}
    BY <1>1, <1>6 DEF Midway, StopsIo
  <2> QED
    BY <2>1 DEF AtSteps
<1>17. Waiting'
  BY <1>1, <1>3 DEF Inv, Waiting, Types
<1>19. Ended'
  BY <1>1, <1>6 DEF Ended, Midway, Types, Steps, InIo
<1> QED
  BY <1>1, <1>11, <1>12, <1>13, <1>14, <1>15, <1>16, <1>17, <1>19, <1>20, <1>21 DEF Inv

LEMMA CloseStep ==
    ASSUME Types, Inv, Types', Close
    PROVE  Inv'
<1> USE SomeThreads
<1> DEFINE next == IF m_state = "connected" THEN "close_io" ELSE "finish_close"
<1>1. /\ pc[Run] = "close" /\ m_state \notin {"closing", "stopped"}
      /\ m_state' = "closing" /\ m_started' = 2 /\ connects' = Cancelled(connects)
      /\ UNCHANGED <<m_timeout_func, m_reconn_on_err, have_cbs, call, execq,
                     m_io_handler, m_conn_attempts, io_started, open, reading, io_closed,
                     again, ret, arg, tries, failures, asked, answer, ups, downs, closed_told>>
  BY DEF Close, made, ios
<1>2. pc'[Run] = next /\ \A u \in Threads : u # Run => pc'[u] = pc[u]
  BY Going DEF Close
<1>3. /\ \A u \in Threads : Midway(u) => u = Run
      /\ m_state = "connected" => /\ Connection /\ ups = downs + 1 /\ m_started = 2
      /\ m_state # "connected" => downs = ups /\ open = {}
  BY <1>1 DEF Inv, Alone, Midway, AtSteps, Operations, Types
<1>4. connects'.live = 0 /\ resolves'.live = 0 /\ timers'.live = 0
  <2>1. connects'.live = 0
    BY <1>1, CountCancelled DEF Types
  <2>2. resolves'.live = 0
    BY CountCancelled DEF Close, CancelResolve, Inv, Types, Operations, OpCounts
  <2>3. timers'.live = 0
    BY CountCancelled DEF Close, Inv, Types, Operations, OpCounts
  <2> QED
    BY <2>1, <2>2, <2>3
<1>6. /\ \A u \in Users : ~Midway(u)'
      /\ m_state = "connected" => \A u \in Users : pc'[u] = "idle"
  <2>1. \A u \in Users : ~Midway(u)'
    BY <1>2, <1>3 DEF Midway
  <2>2. m_state = "connected" => \A u \in Users : pc[u] = "idle"
    BY <1>3 DEF Inv, Quiet, Connection
  <2> QED
    BY <1>2, <2>1, <2>2
<1>7. ~NotBegun /\ (ret[Run] = "posted_done" => Head(execq)[1] # "start")
  BY <1>1 DEF Inv, Fresh, Places
<1>8. \A t \in Callers : call[t] \notin {"assign", "post_start"}
  BY <1>7 DEF NotBegun
<1>9. execq = <<>> \/ Head(execq)[1] # "start"
  BY <1>1, <1>7 DEF Inv, NotBegun, Places, Types
<1>11. Calls'
  BY <1>1, <1>8, <1>9 DEF Inv, Calls
<1>12. Places'
  BY <1>1, <1>2, <1>7, <1>9 DEF Inv, Places, Types, Operations
<1>13. Fresh'
  BY <1>1, <1>8, <1>9 DEF Fresh, NotBegun
<1>14. Alone'
  BY <1>6 DEF Alone, Threads
<1>20. Quiet'
  BY <1>1, <1>3, <1>6 DEF Quiet
<1>21. Ios'
  BY <1>1, <1>4 DEF Inv, Ios, Known
<1>15. Operations'
  BY <1>1, <1>2, <1>3, <1>4 DEF Inv, Operations
<1>16. AtSteps'
  <2>1. ~StopsIo' /\ \A u \in Users : pc'[u] \notin {"close", "close_io", "shut", "notify", "decide",
                                       "start_connect", "finish_close"}
    BY <1>2, <1>6 DEF StopsIo, Midway, Inv, Places
  <2>2. \A u \in Threads : u = Run \/ u \in Users
    BY DEF Threads
  <2>3. CASE m_state = "connected"
    BY <1>1, <1>2, <1>3, <1>4, <2>1, <2>2, <2>3 DEF AtSteps, NoLiveOps, Connection
  <2>4. CASE m_state # "connected"
    BY <1>1, <1>2, <1>3, <1>4, <2>1, <2>2, <2>4 DEF AtSteps, NoLiveOps
  <2> QED
    BY <2>3, <2>4
<1>17. Waiting'
  <2>1. Midway(Run)' \/ pc'[Run] = "close_io"
    BY <1>2 DEF Midway
  <2> QED
    BY <2>1 DEF Waiting, Midway
<1>19. Ended'
  BY <1>1 DEF Inv, Ended
<1> QED
  BY <1>1, <1>11, <1>12, <1>13, <1>14, <1>15, <1>16, <1>17, <1>19, <1>20, <1>21 DEF Inv

LEMMA CloseAgainStep ==
    ASSUME Types, Inv, Types', CloseAgain
    PROVE  Inv'
<1> USE SomeThreads
<1>1. /\ pc[Run] = "close" /\ m_state \in {"closing", "stopped"}
      /\ UNCHANGED <<m_timeout_func, m_reconn_on_err, m_state, m_io_handler,
                     m_conn_attempts, resolves, connects, timers,
                     io_started, open, reading, io_closed, again, ret,
                     tries, failures, asked, answer, ups, downs, closed_told>>
      /\ UNCHANGED entityVars
  BY DEF CloseAgain, made, entity, ops, ios, history
<1>2. /\ pc'[Run] = ret[Run] /\ \A u \in Threads : u # Run => pc'[u] = pc[u]
      /\ ret[Run] \in {"idle", "state_chg", "posted_done"}
      /\ \A u \in Threads : arg'[u] \in {arg[u], None} /\ (u # Run => arg'[u] = arg[u])
  BY Returning DEF CloseAgain
<1>3. /\ \A u \in Threads : Midway(u) => u = Run
      /\ m_state = "stopped" /\ ups = downs + 0
  BY <1>1 DEF Inv, Alone, Midway, AtSteps
<1>5. UNCHANGED <<m_started, have_cbs, call, execq>>
  BY <1>1 DEF entityVars
<1>6. \A u \in Threads : ~Midway(u)'
  BY <1>1, <1>2, <1>3 DEF Midway, StopsIo
<1>11. Calls'
  BY <1>5 DEF Inv, Calls
<1>12. Places'
  BY <1>1, <1>2, <1>5 DEF Inv, Places
<1>13. Fresh'
  BY <1>1, <1>5 DEF Inv, Fresh, NotBegun
<1>14. Alone'
  BY <1>6 DEF Alone
<1>20. Quiet'
  BY <1>1, <1>2, <1>3 DEF Inv, Quiet, Operations
<1>21. Ios'
  BY <1>1, <1>2 DEF Inv, Ios, Known
<1>15. Operations'
  BY <1>1, <1>3, <1>5 DEF Inv, Operations
<1>16. AtSteps'
  <2>1. ~StopsIo' /\ \A u \in Threads : pc'[u] \notin {"close", "close_io", "shut", "notify", "decide",
                                       "start_connect", "finish_close"}
    BY <1>1, <1>3, <1>6 DEF Midway, StopsIo
  <2> QED
    BY <2>1 DEF AtSteps
<1>17. Waiting'
  BY <1>1, <1>3 DEF Waiting
<1>19. Ended'
  BY <1>1, <1>2, <1>3, <1>6 DEF Inv, Ended
<1> QED
  BY <1>1, <1>11, <1>12, <1>13, <1>14, <1>15, <1>16, <1>17, <1>19, <1>20, <1>21 DEF Inv

LEMMA CloseIoStep ==
    ASSUME Types, Inv, Types', CloseIo
    PROVE  Inv'
<1> USE SomeThreads
<1>1. /\ pc[Run] = "close_io"
      /\ UNCHANGED <<m_timeout_func, m_reconn_on_err, m_state, m_io_handler,
                     m_conn_attempts, resolves, connects, timers,
                     io_started, open, reading, io_closed, again, ret,
                     tries, failures, asked, answer, ups, downs, closed_told>>
      /\ UNCHANGED entityVars
  BY DEF CloseIo, made, entity, ops, ios, history
<1>2. /\ \A u \in Threads : Midway(u) => u = Run
      /\ m_state = "closing" /\ Connection /\ ups = downs + 1 /\ m_started = 2 /\ NoLiveOps
  BY <1>1 DEF Inv, Alone, Midway, AtSteps
<1>3. m_io_handler # None
  BY <1>2 DEF Connection, Types, Handlers, None
<1>4. /\ arg' = [arg EXCEPT ![Run] = m_io_handler]
      /\ Goto(Run, IF m_io_handler \in io_started THEN "io_close" ELSE "mark")
  BY <1>3 DEF CloseIo, StopIoBegins
<1>5. /\ pc'[Run] = (IF m_io_handler \in io_started THEN "io_close" ELSE "mark")
      /\ \A u \in Threads : u # Run => pc'[u] = pc[u]
      /\ arg'[Run] = m_io_handler /\ \A u \in Threads : u # Run => arg'[u] = arg[u]
  BY <1>4, Going DEF Types
<1>6. UNCHANGED <<m_started, have_cbs, call, execq>>
  BY <1>1 DEF entityVars
<1>7. StopsIo' /\ \A u \in Threads : Midway(u)' => u = Run
  BY <1>1, <1>2, <1>5 DEF Midway, StopsIo
<1>8. \A u \in Users : pc[u] = "idle" /\ pc'[u] = "idle"
  BY <1>2, <1>5 DEF Inv, Quiet, Connection
<1>11. Calls'
  BY <1>6 DEF Inv, Calls
<1>12. Places'
  BY <1>1, <1>5, <1>6 DEF Inv, Places
<1>13. Fresh'
  BY <1>1, <1>6 DEF Inv, Fresh, NotBegun
<1>14. Alone'
  BY <1>7 DEF Alone
<1>20. Quiet'
  BY <1>8 DEF Quiet
<1>21. Ios'
  BY <1>1, <1>2, <1>5 DEF Inv, Ios, Known, Connection
<1>15. Operations'
  BY <1>1, <1>2, <1>5, <1>6 DEF Inv, Operations
<1>16. AtSteps'
  <2>1. \A u \in Threads : u = Run \/ u \in Users
    BY DEF Threads
  <2> QED
    BY <1>1, <1>2, <1>5, <1>6, <1>8, <2>1 DEF AtSteps, NoLiveOps, Connection, StopsIo
<1>17. Waiting'
  BY <1>7 DEF Waiting, Midway
<1>19. Ended'
  BY <1>1, <1>2 DEF Inv, Ended
<1> QED
  BY <1>1, <1>2, <1>11, <1>12, <1>13, <1>14, <1>15, <1>16, <1>17, <1>19, <1>20, <1>21 DEF Inv

LEMMA DoStartStep ==
    ASSUME Types, Inv, Types', DoStart
    PROVE  Inv'
<1> USE SomeThreads
<1>1. /\ pc[Run] = "idle" /\ Posted("start") /\ ret' = [ret EXCEPT ![Run] = "posted_done"]
      /\ UNCHANGED <<m_timeout_func, m_reconn_on_err, m_io_handler, m_conn_attempts,
                     connects, timers, io_started, open, reading, io_closed, again, arg,
                     tries, failures, asked, answer, ups, downs, closed_told>>
      /\ UNCHANGED entityVars
  BY DEF DoStart, made, ios
<1>2. ret[Run] = "idle"
  BY <1>1 DEF Inv, Places, Types
<1>3. /\ execq # <<>> /\ Head(execq)[1] = "start" /\ NotBegun
  BY <1>1, <1>2 DEF Posted, NotBegun
<1>4. /\ \A t \in Threads : pc[t] = "idle"
      /\ m_state = "stopped" /\ tries = 0 /\ closed_told = 0
  BY <1>3 DEF Inv, Fresh
<1>5. UNCHANGED <<m_started, have_cbs, call, execq>>
  BY <1>1 DEF entityVars
<1>6. /\ ret'[Run] = "posted_done" /\ \A u \in Users : ret'[u] = ret[u]
  BY <1>1 DEF Types, Threads
<1>7. m_started = 1 /\ \A t \in Callers : call[t] \notin {"assign", "post_start"}
  BY <1>3 DEF Inv, Calls
<1>8. /\ NoLiveOps /\ open = {} /\ downs = ups
      /\ resolves.cancelled = 0 /\ connects.cancelled = 0 /\ timers.cancelled = 0
  <2>1. \A t \in Threads : ~Midway(t)
    BY <1>4 DEF Midway, StopsIo
  <2>2. open = {} /\ downs = ups
    BY <1>4, <2>1 DEF Inv, Operations, Waiting, Types
  <2>3. NoLiveOps
    BY <1>4, OpNumbers DEF Inv, Operations, NoLiveOps
  <2>4. resolves.cancelled = 0 /\ connects.cancelled = 0 /\ timers.cancelled = 0
    BY <1>7, OpNumbers DEF Inv, Operations
  <2> QED
    BY <2>2, <2>3, <2>4
<1>9. \/ /\ KnownEndpoints /\ Goto(Run, "start_connect") /\ UNCHANGED <<m_state, resolves>>
      \/ /\ m_state' = "resolving" /\ resolves' = Started(resolves)
         /\ Goto(Run, "posted_done")
  BY DEF DoStart, MakeEndpoints
<1>10. CASE Goto(Run, "start_connect") /\ UNCHANGED <<m_state, resolves>>
  <2>1. /\ pc'[Run] = "start_connect" /\ \A u \in Users : pc'[u] = "idle"
        /\ \A u \in Threads : u = Run \/ u \in Users
    BY <1>10, <1>4, Going DEF Threads
  <2>11. Calls'
    BY <1>5 DEF Inv, Calls
  <2>12. Places'
    BY <1>3, <1>5, <1>6, <2>1 DEF Inv, Places
  <2>13. Fresh'
    BY <1>5, <1>6, <1>7 DEF Fresh, NotBegun
  <2>14. Alone'
    BY <2>1 DEF Alone, Midway
  <2>20. Quiet'
    BY <2>1 DEF Quiet
  <2>21. Ios'
    BY <1>1 DEF Inv, Ios, Known
  <2>15. Operations'
    BY <1>1, <1>8, <1>10 DEF Operations, NoLiveOps
  <2>16. AtSteps'
    BY <1>1, <1>3, <1>4, <1>5, <1>8, <1>10, <2>1 DEF AtSteps, NoLiveOps, StopsIo
  <2>17. Waiting'
    BY <2>1 DEF Waiting, Midway
  <2>19. Ended'
    BY <1>1, <1>4 DEF Ended
  <2> QED
    BY <1>4, <1>10, <2>11, <2>12, <2>13, <2>14, <2>15, <2>16, <2>17, <2>19, <2>20, <2>21 DEF Inv
<1>11. CASE m_state' = "resolving" /\ resolves' = Started(resolves) /\ Goto(Run, "posted_done")
  <2>1. /\ pc'[Run] = "posted_done" /\ \A u \in Users : pc'[u] = "idle"
        /\ \A u \in Threads : u = Run \/ u \in Users
    BY <1>11, <1>4, Going DEF Threads
  <2>2. resolves'.live = 1 /\ resolves'.cancelled = 0
    BY <1>11, <1>8, CountStarted DEF Types, NoLiveOps
  <2>3. \A t \in Threads : ~Midway(t)'
    BY <2>1 DEF Midway, StopsIo
  <2>11. Calls'
    BY <1>5 DEF Inv, Calls
  <2>12. Places'
    BY <1>3, <1>5, <1>6, <2>1 DEF Inv, Places
  <2>13. Fresh'
    BY <1>5, <1>6, <1>7 DEF Fresh, NotBegun
  <2>14. Alone'
    BY <2>3 DEF Alone
  <2>20. Quiet'
    BY <2>1 DEF Quiet
  <2>21. Ios'
    BY <1>1 DEF Inv, Ios, Known
  <2>15. Operations'
    BY <1>1, <1>8, <1>11, <2>2 DEF Operations, NoLiveOps
  <2>16. AtSteps'
    BY <2>1 DEF AtSteps, StopsIo
  <2>17. Waiting'
    BY <1>1, <1>8, <1>11, <2>2 DEF Types, Waiting
  <2>19. Ended'
    BY <1>1, <1>4 DEF Ended
  <2> QED
    BY <1>1, <1>4, <1>11, <2>11, <2>12, <2>13, <2>14, <2>15, <2>16, <2>17, <2>19, <2>20, <2>21
       DEF Inv
<1> QED
  BY <1>9, <1>10, <1>11

LEMMA DoStopStep ==
    ASSUME Types, Inv, Types', DoStop
    PROVE  Inv'
<1> USE SomeThreads
<1>1. /\ pc[Run] = "idle" /\ Posted("stop") /\ ret' = [ret EXCEPT ![Run] = "posted_done"]
      /\ UNCHANGED <<m_timeout_func, m_reconn_on_err, m_state, m_io_handler,
                     m_conn_attempts, resolves, connects, timers,
                     io_started, open, reading, io_closed, again, arg, tries,
                     failures, asked, answer, ups, downs, closed_told>>
      /\ UNCHANGED entityVars
  BY DEF DoStop, made, entity, ops, ios, history
<1>2. pc'[Run] = "close" /\ \A u \in Threads : u # Run => pc'[u] = pc[u]
  BY Going DEF DoStop
<1>3. execq # <<>> /\ Head(execq)[1] = "stop"
  BY <1>1 DEF Posted
<1>4. m_started = 2 /\ \A t \in Callers : call[t] \notin {"assign", "post_start"}
  BY <1>3 DEF Inv, Calls
<1>5. UNCHANGED <<m_started, have_cbs, call, execq>>
  BY <1>1 DEF entityVars
<1>6. ret'[Run] = "posted_done" /\ \A u \in Users : ret'[u] = ret[u]
  BY <1>1 DEF Types, Threads
<1>7. /\ \A u \in Users : ~Midway(u)
      /\ \A u \in Threads : u = Run \/ u \in Users
  BY <1>4 DEF Inv, Alone, Threads
<1>8. \A t \in Threads : ~Midway(t)
  BY <1>1, <1>7 DEF Midway, StopsIo
<1>9. ~StopsIo' /\ \A u \in Users : ~Midway(u)'
  BY <1>2, <1>7 DEF Midway, StopsIo
<1>11. Calls'
  BY <1>5 DEF Inv, Calls
<1>12. Places'
  BY <1>2, <1>3, <1>5, <1>6, <1>7 DEF Inv, Places
<1>13. Fresh'
  BY <1>3, <1>4, <1>5 DEF Fresh, NotBegun
<1>14. Alone'
  BY <1>7, <1>9 DEF Alone
<1>20. Quiet'
  BY <1>1, <1>2, <1>5 DEF Inv, Quiet
<1>21. Ios'
  BY <1>1 DEF Inv, Ios, Known
<1>15. Operations'
  BY <1>1, <1>5 DEF Inv, Operations
<1>16. AtSteps'
  <2>1. /\ m_state # "closing" /\ (m_state = "connected" => Connection)
        /\ ups = downs + (IF m_state = "connected" THEN 1 ELSE 0)
    BY <1>8 DEF Inv, Waiting
  <2>2. \A u \in Users : pc'[u] \notin {"close", "close_io", "shut", "notify", "decide",
                                       "start_connect", "finish_close"}
    BY <1>9 DEF Midway
  <2> QED
    BY <1>1, <1>2, <1>4, <1>5, <1>7, <1>9, <2>1, <2>2 DEF AtSteps, Connection
<1>17. Waiting'
  BY <1>2 DEF Waiting, Midway
<1>19. Ended'
  BY <1>1, <1>2 DEF Inv, Ended
<1> QED
  BY <1>1, <1>11, <1>12, <1>13, <1>14, <1>15, <1>16, <1>17, <1>19, <1>20, <1>21 DEF Inv

LEMMA EndOfPostedStep ==
    ASSUME Types, Inv, Types', EndOfPosted
    PROVE  Inv'
<1> USE SomeThreads
<1>1. /\ pc[Run] = "posted_done" /\ ret' = [ret EXCEPT ![Run] = "idle"]
      /\ execq' = Tail(execq) /\ call' = [call EXCEPT ![Head(execq)[2]] = "returned"]
      /\ UNCHANGED <<m_started, have_cbs, m_timeout_func, m_reconn_on_err, m_state,
                     m_io_handler, m_conn_attempts, resolves, connects, timers,
                     io_started, open, reading, io_closed, again, arg,
                     tries, failures, asked, answer, ups, downs, closed_told>>
  BY DEF EndOfPosted, PostedDone, CallGoto, made, entity, ops, ios, history
<1>2. pc'[Run] = "idle" /\ \A u \in Threads : u # Run => pc'[u] = pc[u]
  BY Going DEF EndOfPosted
<1>3. ret[Run] = "posted_done" /\ execq # <<>>
  BY <1>1 DEF Inv, Places, Types
<1>4. PICK c \in Callers :
        /\ call[c] = "wait" /\ \A u \in Callers : u # c => call[u] \in {"idle", "returned"}
        /\ \/ execq = <<<<"start", c>>>> /\ m_started = 1
           \/ execq = <<<<"stop", c>>>> /\ m_started = 2
  BY <1>3 DEF Inv, Calls
<1>5. /\ execq' = <<>> /\ call'[c] = "returned"
      /\ \A u \in Callers : call'[u] \in {"idle", "returned"}
  <2>1. execq = <<<<"start", c>>>> => execq' = <<>> /\ Head(execq)[2] = c
    <3>1. Tail(<<<<"start", c>>>>) = <<>> /\ Head(<<<<"start", c>>>>)[2] = c
      OBVIOUS
    <3> QED
      BY <1>1, <3>1
  <2>4. execq = <<<<"stop", c>>>> => execq' = <<>> /\ Head(execq)[2] = c
    <3>1. Tail(<<<<"stop", c>>>>) = <<>> /\ Head(<<<<"stop", c>>>>)[2] = c
      OBVIOUS
    <3> QED
      BY <1>1, <3>1
  <2>2. execq' = <<>> /\ Head(execq)[2] = c
    BY <1>1, <1>4, <2>1, <2>4
  <2>3. call \in [Callers -> {"idle", "assign", "post_start", "post_stop",
                              "wait", "returned"}]
    BY DEF Types, EntityTypeOK
  <2> QED
    BY <1>1, <1>4, <2>2, <2>3
<1>6. ret'[Run] = "idle" /\ \A u \in Users : ret'[u] = ret[u]
  BY <1>1 DEF Types, Threads
<1>7. /\ \A t \in Threads : Midway(t)' <=> Midway(t)
      /\ ~StopsIo /\ ~StopsIo'
  BY <1>1, <1>2 DEF Midway, StopsIo
<1>11. Calls'
  BY <1>1, <1>4, <1>5 DEF Inv, Calls
<1>12. Places'
  BY <1>2, <1>6 DEF Inv, Places
<1>13. Fresh'
  BY <1>1, <1>4, <1>5 DEF Fresh, NotBegun
<1>14. Alone'
  BY <1>1, <1>7 DEF Inv, Alone
<1>20. Quiet'
  BY <1>1, <1>2 DEF Inv, Quiet
<1>21. Ios'
  BY <1>1 DEF Inv, Ios, Known
<1>15. Operations'
  BY <1>1, <1>2 DEF Inv, Operations
<1>16. AtSteps'
  <2>1. \A t \in Threads : pc[t] = "start_connect" => m_state # "stopped"
    BY <1>1 DEF Inv, AtSteps, Alone, Midway, Threads
  <2> QED
    BY <1>1, <1>2, <1>7, <2>1 DEF Inv, AtSteps, NoLiveOps
<1>17. Waiting'
  BY <1>1, <1>7 DEF Inv, Waiting, Connection
<1>19. Ended'
  BY <1>1, <1>2 DEF Inv, Ended
<1> QED
  BY <1>1, <1>11, <1>12, <1>13, <1>14, <1>15, <1>16, <1>17, <1>19, <1>20, <1>21 DEF Inv

\* Between the steps of the application's threads: when the run thread is idle
\* and the state is not connected, no thread is between two steps.
LEMMA AllRest ==
    ASSUME Types, Inv, pc[Run] = "idle" \/ pc[Run] = "state_chg", m_state # "connected"
    PROVE  /\ \A t \in Threads : ~Midway(t)
           /\ ~StopsIo /\ m_state # "closing" /\ open = {} /\ downs = ups
<1>1. \A t \in Threads : ~Midway(t)
  <2>1. \A u \in Users : ~Midway(u)
    BY DEF Inv, Alone
  <2>2. ~Midway(Run)
    BY DEF Midway, StopsIo
  <2> QED
    BY <2>1, <2>2 DEF Threads
<1>2. m_state # "closing" /\ downs = ups
  BY <1>1 DEF Inv, Waiting, Types
<1> QED
  BY <1>1, <1>2 DEF Inv, Operations, StopsIo

LEMMA ResolveDoneStep ==
    ASSUME Types, Inv, Types', ResolveDone
    PROVE  Inv'
<1> USE SomeThreads
<1>1. /\ pc[Run] = "idle" /\ m_state = "resolving" /\ resolves.live > 0
      /\ resolves' = Completed(resolves, "live")
      /\ UNCHANGED <<m_timeout_func, m_reconn_on_err, m_state, m_io_handler,
                     m_conn_attempts, connects, timers,
                     io_started, open, reading, io_closed, again, ret, arg, tries,
                     failures, asked, answer, ups, downs, closed_told>>
      /\ UNCHANGED entityVars
  BY DEF ResolveDone, made, entity, ios, history
<1>2. pc'[Run] = "start_connect" /\ \A u \in Threads : u # Run => pc'[u] = pc[u]
  BY Going DEF ResolveDone
<1>3. UNCHANGED <<m_started, have_cbs, call, execq>>
  BY <1>1 DEF entityVars
<1>4. /\ \A t \in Threads : ~Midway(t)
      /\ open = {} /\ downs = ups /\ tries = 0
      /\ \A u \in Threads : u = Run \/ u \in Users
  BY <1>1, AllRest DEF Inv, Threads
<1>5. ~StopsIo' /\ \A u \in Users : ~Midway(u)'
  BY <1>1, <1>2, <1>4 DEF Midway, StopsIo
<1>7. resolves'.live = 0 /\ resolves'.cancelled = resolves.cancelled
  BY <1>1, CountCompleted, OpNumbers DEF Inv, Types, Operations
<1>8. NoLiveOps'
  BY <1>1, <1>7, OpNumbers DEF Inv, NoLiveOps, Operations
<1>11. Calls'
  BY <1>3 DEF Inv, Calls
<1>12. Places'
  BY <1>1, <1>2, <1>3, <1>4 DEF Inv, Places
<1>13. Fresh'
  BY <1>1, <1>3 DEF Inv, Fresh, NotBegun
<1>14. Alone'
  BY <1>4, <1>5 DEF Alone
<1>20. Quiet'
  BY <1>1, <1>2, <1>3 DEF Inv, Quiet
<1>21. Ios'
  BY <1>1 DEF Inv, Ios, Known
<1>15. Operations'
  BY <1>1, <1>3, <1>4, <1>7, <1>8 DEF Inv, Operations, NoLiveOps
<1>16. AtSteps'
  <2>1. \A u \in Users : pc'[u] \notin {"close", "close_io", "shut", "notify", "decide",
                                       "start_connect", "finish_close"}
    BY <1>5 DEF Midway
  <2> QED
    BY <1>1, <1>2, <1>4, <1>5, <1>8, <2>1 DEF AtSteps
<1>17. Waiting'
  BY <1>2 DEF Waiting, Midway
<1>19. Ended'
  BY <1>1 DEF Inv, Ended
<1> QED
  BY <1>1, <1>4, <1>11, <1>12, <1>13, <1>14, <1>15, <1>16, <1>17, <1>19, <1>20, <1>21 DEF Inv

LEMMA ResolveFailsStep ==
    ASSUME Types, Inv, Types', ResolveFails
    PROVE  Inv'
<1> USE SomeThreads
<1>1. /\ pc[Run] = "idle" /\ m_state' = "stopped"
      /\ UNCHANGED <<m_timeout_func, m_reconn_on_err, m_io_handler,
                     m_conn_attempts, connects, timers,
                     io_started, open, reading, io_closed, again, ret, arg, tries,
                     failures, asked, answer, ups, downs, closed_told>>
      /\ UNCHANGED entityVars
  BY DEF ResolveFails, made, ios, history
<1>2. pc'[Run] = "close" /\ \A u \in Threads : u # Run => pc'[u] = pc[u]
  BY Going DEF ResolveFails
<1>3. UNCHANGED <<m_started, have_cbs, call, execq>>
  BY <1>1 DEF entityVars
<1>4. /\ resolves'.live = 0
      /\ \/ m_state = "resolving"
         \/ m_state \in {"closing", "stopped"} /\ m_started = 2
      /\ resolves'.cancelled > 0 => resolves.cancelled > 0
  <2>1. CASE resolves.live > 0 /\ resolves' = Completed(resolves, "live")
    <3>1. resolves'.live = resolves.live - 1 /\ resolves'.cancelled = resolves.cancelled
      BY <2>1, CountCompleted DEF Types
    <3> QED
      BY <2>1, <3>1, OpNumbers DEF Inv, Operations
  <2>2. CASE resolves.cancelled > 0 /\ resolves' = Completed(resolves, "cancelled")
    <3>1. /\ resolves'.live = resolves.live
          /\ resolves'.cancelled = resolves.cancelled - 1
      BY <2>2, CountCompleted DEF Types
    <3>2. m_started = 2 /\ m_state \in {"closing", "stopped"}
      BY <2>2 DEF Inv, Operations
    <3>3. resolves.live = 0
      BY <3>2, OpNumbers DEF Inv, Operations
    <3> QED
      BY <2>2, <3>1, <3>2, <3>3
  <2> QED
    BY <2>1, <2>2 DEF ResolveFails
<1>5. /\ \A t \in Threads : ~Midway(t)
      /\ open = {} /\ downs = ups
      /\ \A u \in Threads : u = Run \/ u \in Users
  BY <1>1, <1>4, AllRest DEF Threads
<1>6. ~StopsIo' /\ \A u \in Users : ~Midway(u)'
  BY <1>1, <1>2, <1>5 DEF Midway, StopsIo
<1>8. connects.live = 0 /\ timers.live = 0
  BY <1>4, OpNumbers DEF Inv, Operations
<1>9. resolves'.cancelled > 0 \/ connects.cancelled > 0 \/ timers.cancelled > 0 => m_started = 2
  BY <1>4 DEF Inv, Operations
<1>11. Calls'
  BY <1>3 DEF Inv, Calls
<1>12. Places'
  BY <1>1, <1>2, <1>3, <1>5 DEF Inv, Places
<1>13. Fresh'
  <2>1. ~NotBegun
    BY <1>4 DEF Inv, NotBegun, Fresh, Calls
  <2> QED
    BY <1>1, <1>3, <2>1 DEF Fresh, NotBegun
<1>14. Alone'
  BY <1>5, <1>6 DEF Alone
<1>20. Quiet'
  BY <1>1, <1>2, <1>3, <1>5 DEF Inv, Quiet
<1>21. Ios'
  BY <1>1 DEF Inv, Ios, Known
<1>15. Operations'
  BY <1>1, <1>3, <1>4, <1>5, <1>8, <1>9 DEF Operations
<1>16. AtSteps'
  <2>1. \A u \in Users : pc'[u] \notin {"close", "close_io", "shut", "notify", "decide",
                                       "start_connect", "finish_close"}
    BY <1>6 DEF Midway
  <2> QED
    BY <1>1, <1>2, <1>5, <1>6, <2>1 DEF Types, AtSteps
<1>17. Waiting'
  BY <1>2 DEF Waiting, Midway
<1>19. Ended'
  BY <1>1, <1>2 DEF Inv, Ended
<1> QED
  BY <1>1, <1>11, <1>12, <1>13, <1>14, <1>15, <1>16, <1>17, <1>19, <1>20, <1>21 DEF Inv

LEMMA LateConnectStep ==
    ASSUME Types, Inv, Types', LateConnect
    PROVE  Inv'
<1> USE SomeThreads
<1>1. /\ m_state # "connecting"
      /\ UNCHANGED <<m_timeout_func, m_reconn_on_err, m_state, m_io_handler,
                     m_conn_attempts, resolves, timers,
                     io_started, open, reading, io_closed, again, pc, ret, arg, tries,
                     failures, asked, answer, ups, downs, closed_told>>
      /\ UNCHANGED <<m_started, have_cbs, call, execq>>
  BY DEF LateConnect, entity, made, control, ios, history, entityVars
<1>2. connects'.live = 0 /\ connects.live = 0 /\ connects.cancelled > 0
  <2>1. connects.live = 0
    BY <1>1, OpNumbers DEF Inv, Operations
  <2>2. connects["live"] = connects.live /\ connects["cancelled"] = connects.cancelled
    BY CountCompleted DEF Types
  <2>3. connects.cancelled > 0 /\ connects' = Completed(connects, "cancelled")
    BY <2>1, <2>2 DEF LateConnect
  <2> QED
    BY <2>1, <2>3, CountCompleted DEF Types
<1>11. Calls'
  BY <1>1 DEF Inv, Calls
<1>12. Places'
  BY <1>1 DEF Inv, Places
<1>13. Fresh'
  BY <1>1 DEF Inv, Fresh, NotBegun
<1>14. Alone'
  BY <1>1 DEF Inv, Alone, Midway, StopsIo
<1>20. Quiet'
  BY <1>1 DEF Inv, Quiet
<1>21. Ios'
  BY <1>1, <1>2 DEF Inv, Ios, Known
<1>15. Operations'
  BY <1>1, <1>2 DEF Inv, Operations
<1>16. AtSteps'
  BY <1>1, <1>2 DEF Inv, AtSteps, NoLiveOps, StopsIo, Connection
<1>17. Waiting'
  BY <1>1, <1>2 DEF Inv, Waiting, Midway, StopsIo, Connection
<1>19. Ended'
  BY <1>1 DEF Inv, Ended
<1> QED
  BY <1>1, <1>11, <1>12, <1>13, <1>14, <1>15, <1>16, <1>17, <1>19, <1>20, <1>21 DEF Inv

LEMMA ConnectDoneStep ==
    ASSUME Types, Inv, Types', ConnectDone
    PROVE  Inv'
<1> USE SomeThreads
<1>1. /\ pc[Run] = "idle" /\ m_state = "connecting" /\ connects.live > 0
      /\ connects' = Completed(connects, "live")
      /\ open' = open \cup {tries} /\ m_io_handler' = tries
      /\ m_state' = "connected" /\ ups' = ups + 1 /\ failures' = 0
      /\ ret' = [ret EXCEPT ![Run] = "state_chg"] /\ arg' = [arg EXCEPT ![Run] = tries]
      /\ UNCHANGED <<m_timeout_func, m_reconn_on_err, m_conn_attempts, resolves, timers,
                     io_started, reading, io_closed, again,
                     tries, asked, answer, downs, closed_told>>
      /\ UNCHANGED entityVars
  BY DEF ConnectDone, made
<1>2. pc'[Run] = "state_chg" /\ \A u \in Threads : u # Run => pc'[u] = pc[u]
  BY Going DEF ConnectDone
<1>3. UNCHANGED <<m_started, have_cbs, call, execq>>
  BY <1>1 DEF entityVars
<1>4. (\A t \in Threads : ~Midway(t)) /\ open = {} /\ downs = ups
  BY <1>1, AllRest
<1>5. ~StopsIo' /\ \A t \in Threads : ~Midway(t)'
  BY <1>1, <1>2, <1>4 DEF Midway, StopsIo
<1>6. tries \notin io_closed /\ tries \in Nat /\ open' = {tries}
  BY <1>1, <1>4, TcpConnectorAssumption DEF Inv, Ios, Known, Types
<1>7. connects'.live = 0 /\ connects'.cancelled = connects.cancelled
  BY <1>1, CountCompleted, OpNumbers DEF Inv, Types, Operations
<1>8. /\ resolves.live = 0 /\ timers.live = 0
      /\ connects.cancelled = 0 /\ resolves.cancelled = 0 /\ timers.cancelled = 0
  BY <1>1, OpNumbers DEF Inv, Operations
<1>9. /\ ret'[Run] = "state_chg" /\ \A u \in Users : ret'[u] = ret[u]
      /\ \A u \in Threads : arg'[u] \in {arg[u], tries}
  BY <1>1 DEF Types, Threads
<1>11. Calls'
  BY <1>3 DEF Inv, Calls
<1>12. Places'
  BY <1>2, <1>9 DEF Inv, Places
<1>13. Fresh'
  <2>1. ~NotBegun
    BY <1>1 DEF Inv, Fresh
  <2> QED
    BY <1>1, <1>3, <1>9, <2>1 DEF Inv, Places, Types, Fresh, NotBegun
<1>14. Alone'
  BY <1>5 DEF Alone
<1>20. Quiet'
  BY <1>1, <1>2, <1>3 DEF Inv, Quiet
<1>21. Ios'
  BY <1>1, <1>4, <1>6, <1>7, <1>9 DEF Inv, Ios, Known
<1>15. Operations'
  BY <1>1, <1>6, <1>7, <1>8 DEF Operations
<1>16. AtSteps'
  <2>1. \A u \in Threads : pc'[u] \notin {"close", "close_io", "shut", "notify", "decide",
                                       "start_connect", "finish_close"}
    BY <1>2, <1>5 DEF Midway
  <2> QED
    BY <1>5, <2>1 DEF AtSteps
<1>17. Waiting'
  BY <1>1, <1>4, <1>6 DEF Waiting, Connection, Types
<1>19. Ended'
  BY <1>1 DEF Inv, Ended
<1> QED
  BY <1>1, <1>11, <1>12, <1>13, <1>14, <1>15, <1>16, <1>17, <1>19, <1>20, <1>21 DEF Inv

LEMMA ConnectFailsStep ==
    ASSUME Types, Inv, Types', ConnectFails
    PROVE  Inv'
<1> USE SomeThreads
<1>1. /\ pc[Run] = "idle" /\ m_state = "connecting"
      /\ failures' = failures + 1 /\ asked' = m_conn_attempts
      /\ UNCHANGED <<m_timeout_func, m_reconn_on_err, m_io_handler, m_conn_attempts,
                     resolves, io_started, open, reading, io_closed, again,
                     ret, arg, tries, ups, downs, closed_told>>
      /\ UNCHANGED entityVars
  BY DEF ConnectFails, made, ios
<1>2. \/ Goto(Run, "close") /\ UNCHANGED <<m_state, timers>>
      \/ m_state' = "timeout" /\ timers' = Started(Cancelled(timers)) /\ pc' = pc
  BY DEF ConnectFails
<1>3. UNCHANGED <<m_started, have_cbs, call, execq>>
  BY <1>1 DEF entityVars
<1>4. /\ \A t \in Threads : ~Midway(t)
      /\ open = {} /\ downs = ups
      /\ \A u \in Threads : u = Run \/ u \in Users
  BY <1>1, AllRest DEF Threads
<1>6. /\ connects.cancelled = 0 /\ resolves.cancelled = 0 /\ timers.cancelled = 0
      /\ resolves.live = 0 /\ timers.live = 0 /\ connects.live <= 1
  BY <1>1, OpNumbers DEF Inv, Operations
<1>7. connects'.live = 0 /\ connects'.cancelled = 0
  <2>1. connects["live"] = connects.live /\ connects["cancelled"] = connects.cancelled
    BY CountCompleted DEF Types
  <2>2. connects.live > 0 /\ connects' = Completed(connects, "live")
    BY <1>6, <2>1 DEF ConnectFails
  <2>3. connects'.live = connects.live - 1 /\ connects'.cancelled = connects.cancelled
    BY <2>2, CountCompleted DEF Types
  <2> QED
    BY <1>6, <2>2, <2>3, OpNumbers
<1>8. ~NotBegun
  BY <1>1 DEF Inv, Fresh
<1>21. Ios'
  BY <1>1, <1>7 DEF Inv, Ios, Known
<1>11. Calls'
  BY <1>3 DEF Inv, Calls
<1>13. Fresh'
  BY <1>1, <1>3, <1>8 DEF Fresh, NotBegun
<1>19. Ended'
  BY <1>1 DEF Inv, Ended
<1>9. CASE Goto(Run, "close") /\ UNCHANGED <<m_state, timers>>
  <2>1. pc'[Run] = "close" /\ \A u \in Threads : u # Run => pc'[u] = pc[u]
    BY <1>9, Going
  <2>2. ~StopsIo' /\ \A u \in Users : ~Midway(u)'
    BY <1>1, <1>4, <1>9, <2>1 DEF Midway, StopsIo
  <2>12. Places'
    BY <1>1, <1>3, <2>1 DEF Inv, Places
  <2>14. Alone'
    BY <1>4, <2>2 DEF Alone
  <2>20. Quiet'
    BY <1>1, <1>3, <1>9, <2>1 DEF Inv, Quiet
  <2>15. Operations'
    BY <1>1, <1>4, <1>6, <1>7, <1>9 DEF Operations
  <2>16. AtSteps'
    <3>1. \A u \in Users : pc'[u] \notin {"close", "close_io", "shut", "notify", "decide",
                                         "start_connect", "finish_close"}
      BY <2>2 DEF Midway
    <3> QED
      BY <1>1, <1>4, <1>9, <2>1, <2>2, <3>1 DEF Types, AtSteps
  <2>17. Waiting'
    BY <2>1 DEF Waiting, Midway
  <2> QED
    BY <1>1, <1>9, <1>11, <1>13, <1>19, <1>21, <2>12, <2>14, <2>15, <2>16, <2>17, <2>20 DEF Inv
<1>10. CASE m_state' = "timeout" /\ timers' = Started(Cancelled(timers)) /\ pc' = pc
  <2>1. timers'.live = 1 /\ timers'.cancelled = 0
    <3>1. /\ Cancelled(timers) \in OpCounts /\ Cancelled(timers).live = 0
          /\ Cancelled(timers).cancelled = 0
      BY <1>6, CountCancelled DEF Types
    <3> QED
      BY <1>10, <3>1, CountStarted
  <2>2. ~StopsIo' /\ \A u \in Threads : ~Midway(u)'
    BY <1>1, <1>4, <1>10 DEF Midway, StopsIo
  <2>12. Places'
    BY <1>1, <1>3, <1>10 DEF Inv, Places
  <2>14. Alone'
    BY <2>2 DEF Alone
  <2>20. Quiet'
    BY <1>1, <1>3, <1>10 DEF Inv, Quiet
  <2>15. Operations'
    BY <1>1, <1>4, <1>6, <1>7, <2>1, <1>10 DEF Operations
  <2>16. AtSteps'
    <3>1. \A u \in Threads : pc'[u] \notin {"close", "close_io", "shut", "notify", "decide",
                                           "start_connect", "finish_close"}
      BY <2>2 DEF Midway
    <3> QED
      BY <2>2, <3>1 DEF AtSteps
  <2>17. Waiting'
    BY <1>1, <1>4, <1>10, <2>1 DEF Types, Waiting
  <2> QED
    BY <1>1, <1>10, <1>11, <1>13, <1>19, <1>21, <2>12, <2>14, <2>15, <2>16, <2>17, <2>20 DEF Inv
<1> QED
  BY <1>2, <1>9, <1>10

LEMMA TimerDoneStep ==
    ASSUME Types, Inv, Types', TimerDone
    PROVE  Inv'
<1> USE SomeThreads
<1>1. /\ pc[Run] = "idle"
      /\ UNCHANGED <<m_timeout_func, m_reconn_on_err, m_state, m_io_handler,
                     m_conn_attempts, resolves, connects,
                     io_started, open, reading, io_closed, again, ret, arg, tries,
                     failures, asked, answer, ups, downs, closed_told>>
      /\ UNCHANGED entityVars
  BY DEF TimerDone, made, entity, ios, history
<1>2. UNCHANGED <<m_started, have_cbs, call, execq>>
  BY <1>1 DEF entityVars
<1>3. /\ timers'.live = 0
      /\ timers'.cancelled > 0 => timers.cancelled > 0
      /\ \/ m_state = "timeout" /\ Goto(Run, "start_connect")
         \/ m_state \in {"closing", "stopped"} /\ m_started = 2 /\ Goto(Run, "close")
  <2>1. timers["live"] = timers.live /\ timers["cancelled"] = timers.cancelled
    BY CountCompleted DEF Types
  <2>2. PICK kind \in {"live", "cancelled"}, err \in BOOLEAN :
          /\ timers[kind] > 0 /\ (err => kind = "cancelled")
          /\ timers' = Completed(timers, kind)
          /\ Goto(Run, IF err \/ m_state # "timeout" THEN "close" ELSE "start_connect")
    BY DEF TimerDone
  <2>3. CASE kind = "live"
    <3>1. /\ timers.live > 0 /\ timers'.live = timers.live - 1
          /\ timers'.cancelled = timers.cancelled /\ ~err
      BY <2>1, <2>2, <2>3, CountCompleted DEF Types
    <3>2. m_state = "timeout" /\ timers.live <= 1
      BY <3>1 DEF Inv, Operations
    <3>3. Goto(Run, "start_connect")
      BY <2>2, <3>1, <3>2
    <3> QED
      BY <3>1, <3>2, <3>3, OpNumbers
  <2>4. CASE kind = "cancelled"
    <3>1. /\ timers.cancelled > 0 /\ timers'.live = timers.live
          /\ timers'.cancelled = timers.cancelled - 1
      BY <2>1, <2>2, <2>4, CountCompleted DEF Types
    <3>2. m_started = 2 /\ m_state \in {"closing", "stopped"}
      BY <3>1 DEF Inv, Operations
    <3>3. Goto(Run, "close")
      BY <2>2, <3>2
    <3>4. timers.live = 0
      BY <3>2, OpNumbers DEF Inv, Operations
    <3> QED
      BY <3>1, <3>2, <3>3, <3>4
  <2> QED
    BY <2>3, <2>4
<1>4. /\ \A t \in Threads : ~Midway(t)
      /\ open = {} /\ downs = ups /\ m_state # "closing"
      /\ \A u \in Threads : u = Run \/ u \in Users
  BY <1>1, <1>3, AllRest DEF Threads
<1>6. /\ resolves.live = 0 /\ connects.live = 0
      /\ resolves.cancelled > 0 \/ connects.cancelled > 0 \/ timers'.cancelled > 0 =>
           m_started = 2 /\ m_state = "stopped"
  BY <1>3, <1>4, OpNumbers DEF Inv, Operations
<1>7. PICK to : Goto(Run, to)
        /\ \/ m_state = "timeout" /\ to = "start_connect"
           \/ m_state = "stopped" /\ to = "close"
  BY <1>3, <1>4
<1>8. pc'[Run] = to /\ \A u \in Threads : u # Run => pc'[u] = pc[u]
  BY <1>7, Going
<1>9. ~StopsIo' /\ \A u \in Users : ~Midway(u)'
  BY <1>1, <1>4, <1>7, <1>8 DEF Midway, StopsIo
<1>11. Calls'
  BY <1>2 DEF Inv, Calls
<1>12. Places'
  <2>1. \A u \in Users : ret'[u] = "idle" /\ pc'[u] = pc[u]
    BY <1>1, <1>8 DEF Inv, Places
  <2>2. ret[Run] = "idle" /\ ret'[Run] = "idle"
    BY <1>1 DEF Inv, Places, Types
  <2> QED
    BY <1>7, <1>8, <2>1, <2>2 DEF Inv, Places
<1>13. Fresh'
  <2>1. ~NotBegun
    BY <1>3 DEF Inv, NotBegun, Fresh, Calls
  <2> QED
    BY <1>1, <1>2, <2>1 DEF Fresh, NotBegun
<1>14. Alone'
  BY <1>4, <1>9 DEF Alone
<1>20. Quiet'
  BY <1>1, <1>2, <1>8 DEF Inv, Quiet
<1>21. Ios'
  BY <1>1 DEF Inv, Ios, Known
<1>15. Operations'
  BY <1>1, <1>2, <1>3, <1>4, <1>6 DEF Operations
<1>16. AtSteps'
  <2>1. \A u \in Users : pc'[u] \notin {"close", "close_io", "shut", "notify", "decide",
                                       "start_connect", "finish_close"}
    BY <1>9 DEF Midway
  <2> QED
    BY <1>1, <1>3, <1>4, <1>6, <1>7, <1>8, <1>9, <2>1 DEF Types, AtSteps, NoLiveOps
<1>17. Waiting'
  BY <1>7, <1>8 DEF Waiting, Midway
<1>19. Ended'
  BY <1>1, <1>7, <1>8 DEF Inv, Ended
<1> QED
  BY <1>1, <1>11, <1>12, <1>13, <1>14, <1>15, <1>16, <1>17, <1>19, <1>20, <1>21 DEF Inv

\* A tcp_io that exists was made by this connector, after do_start.
LEMMA Begun ==
    ASSUME Types, Inv, NEW h \in Handlers, h \in Known
    PROVE  ~NotBegun
<1>1. h <= tries /\ h > 0
  BY DEF Inv, Ios, Handlers
<1>2. tries # 0
  BY <1>1 DEF Handlers
<1> QED
  BY <1>2 DEF Inv, Fresh

\* A thread goes on in, into or out of a method of a tcp_io, and stops no IO.
IoStep(t) ==
    /\ UNCHANGED <<entityVars, entity, ops, open, io_closed, again, ret, history>>
    /\ pc[t] \in {"idle", "state_chg"} \cup InIo
    /\ pc'[t] \in {"idle", "state_chg", "posted_done"} \cup InIo
    /\ \A u \in Threads : u # t => pc'[u] = pc[u] /\ arg'[u] = arg[u]
    /\ t = Run /\ StopsIo =>
         pc'[Run] = "io_close" /\ arg'[Run] = arg[Run] /\ m_io_handler \in io_started'
    /\ t \in Users /\ m_started = 2 /\ pc[t] = "idle" => pc'[t] = "idle"
    /\ io_started \subseteq io_started' /\ io_started' \subseteq open \ io_closed
    /\ reading' \subseteq Known /\ arg'[t] \in Known \cup {None}

LEMMA IoStepKeeps ==
    ASSUME Types, Inv, Types', NEW t \in Threads, IoStep(t), ~NotBegun, Places'
    PROVE  Inv'
<1> USE SomeThreads
<1>1. /\ UNCHANGED <<m_state, m_io_handler, m_conn_attempts, m_timeout_func, m_reconn_on_err,
                     resolves, connects, timers, open, io_closed, again, ret,
                     tries, failures, asked, answer, ups, downs, closed_told>>
      /\ UNCHANGED <<m_started, have_cbs, call, execq>>
  BY DEF IoStep, entityVars, entity, made, ops, history
<1>2. /\ pc[t] \in {"idle", "state_chg", "endpoint", "mark", "io_close"}
      /\ pc'[t] \in {"idle", "state_chg", "posted_done", "endpoint", "mark", "io_close"}
      /\ \A u \in Threads : u # t => pc'[u] = pc[u] /\ arg'[u] = arg[u]
  BY DEF IoStep, InIo
<1>3. t = Run /\ m_state = "closing" => StopsIo
  <2>1. SUFFICES ASSUME t = Run, m_state = "closing", ~StopsIo PROVE FALSE
    OBVIOUS
  <2>2. ~Midway(Run)
    BY <1>2, <2>1 DEF Midway
  <2>3. \A u \in Users : ~Midway(u)
    BY <2>1 DEF Inv, Alone
  <2> QED
    BY <2>1, <2>2, <2>3 DEF Inv, Waiting, Threads
<1>4. /\ StopsIo' <=> StopsIo
      /\ StopsIo => /\ arg'[Run] = arg[Run]
                    /\ pc'[Run] = "io_close" => m_io_handler \in io_started'
  <2>1. CASE t = Run
    BY <1>1, <1>3, <2>1 DEF StopsIo, IoStep
  <2>2. CASE t # Run
    <3>1. pc'[Run] = pc[Run] /\ arg'[Run] = arg[Run]
      BY <1>2, <2>2
    <3>2. StopsIo /\ pc[Run] = "io_close" => m_io_handler \in io_started
      BY DEF Inv, AtSteps
    <3>3. io_started \subseteq io_started'
      BY DEF IoStep
    <3> QED
      BY <1>1, <3>1, <3>2, <3>3 DEF StopsIo
  <2> QED
    BY <2>1, <2>2
<1>5. \A u \in Threads : Midway(u)' <=> Midway(u)
  BY <1>2, <1>4 DEF Midway
<1>11. Calls'
  BY <1>1 DEF Inv, Calls
<1>13. Fresh'
  BY <1>1 DEF Fresh, NotBegun
<1>14. Alone'
  BY <1>1, <1>5 DEF Inv, Alone
<1>20. Quiet'
  <2>1. m_started = 2 => \A u \in Users : pc[u] = "idle" => pc'[u] = "idle"
    BY <1>2 DEF IoStep
  <2> QED
    BY <1>1, <2>1 DEF Inv, Quiet
<1>21. Ios'
  <2>1. /\ io_started' \subseteq open \ io_closed /\ reading' \subseteq Known
        /\ arg'[t] \in Known \cup {None} /\ \A u \in Threads : u # t => arg'[u] = arg[u]
    BY DEF IoStep
  <2> QED
    BY <1>1, <2>1 DEF Inv, Ios, Known
<1>15. Operations'
  <2>1. m_state = "closing" /\ pc[Run] \in {"close_io", "mark", "io_close", "shut"} =>
          pc'[Run] \in {"close_io", "mark", "io_close", "shut"}
    BY <1>1, <1>2, <1>4 DEF StopsIo
  <2> QED
    BY <1>1, <2>1 DEF Inv, Operations
<1>16. AtSteps'
  <2>1. \A u \in Threads : \/ pc'[u] = pc[u] /\ arg'[u] = arg[u]
                           \/ pc'[u] \notin {"close", "close_io", "shut", "notify", "decide",
                                             "start_connect", "finish_close"}
    BY <1>2
  <2>2. StopsIo' => arg'[Run] = m_io_handler
                    /\ (pc'[Run] = "io_close" => m_io_handler \in io_started')
    BY <1>4 DEF Inv, AtSteps
  <2>3. Connection' <=> Connection
    BY <1>1 DEF Connection
  <2>4. pc'[Run] = "close_io" => pc[Run] = "close_io"
    BY <1>2
  <2>5. pc'[Run] = "close" => pc[Run] = "close"
    BY <1>2
  <2>6. \A u \in Threads : \A s \in {"shut", "notify", "decide", "start_connect", "finish_close"} :
          pc'[u] = s => pc[u] = s /\ arg'[u] = arg[u]
    BY <2>1
  <2>7. NoLiveOps' <=> NoLiveOps
    BY <1>1 DEF NoLiveOps
  <2> QED
    BY <1>1, <1>4, <2>2, <2>3, <2>4, <2>5, <2>6, <2>7 DEF Inv, AtSteps
<1>17. Waiting'
  BY <1>1, <1>5 DEF Inv, Waiting, Connection
<1>19. Ended'
  BY <1>1, <1>2 DEF Inv, Ended, InIo
<1> QED
  BY <1>1, <1>11, <1>13, <1>14, <1>15, <1>16, <1>17, <1>19, <1>20, <1>21 DEF Inv

LEMMA CallIsKnown ==
    ASSUME NoOverlap, Types, Inv, NEW t \in Threads, NEW h \in Handlers, MayCall(t, h)
    PROVE  /\ h \in Known /\ ~NotBegun
           /\ pc[t] \in {"idle", "state_chg"} /\ (t \in Users => m_started = 1)
<1>1. h # None
  BY DEF Handlers, None
<1>2. h \in Known
  BY <1>1 DEF MayCall, Alive, Inv, Ios
<1> QED
  BY <1>2, Begun DEF MayCall, NoOverlap

\* Where the places of a thread allow it, it may enter or leave a tcp_io's
\* method.
LEMMA PlacesKept ==
    ASSUME Types, Inv, NEW t \in Threads, UNCHANGED <<ret, execq>>,
           \A u \in Threads : u # t => pc'[u] = pc[u],
           pc'[t] \notin {"close", "close_io"},
           \/ pc'[t] = ret[t]
           \/ pc'[t] \in {"endpoint", "mark", "io_close", "shut"} /\ ret[t] # "posted_done"
           \/ /\ pc'[t] \in {"mark", "io_close", "shut"}
              /\ pc[t] \notin {"start_connect", "posted_done"}
    PROVE  Places'
<1> USE SomeThreads
<1>1. ret[t] \in {"idle", "state_chg", "posted_done"}
  BY DEF Types
<1>2. CASE t = Run
  BY <1>1, <1>2 DEF Inv, Places
<1>3. CASE t # Run
  <2>1. t \in Users
    BY <1>3 DEF Threads
  <2>2. ret[t] = "idle"
    BY <2>1 DEF Inv, Places
  <2> QED
    BY <1>3, <2>1, <2>2 DEF Inv, Places
<1> QED
  BY <1>2, <1>3

LEMMA StartIoStep ==
    ASSUME NoOverlap, Types, Inv, Types', NEW t \in Threads, NEW h \in Handlers, StartIo(t, h)
    PROVE  Inv'
<1> USE SomeThreads
<1>1. /\ h \in Known /\ ~NotBegun
      /\ pc[t] \in {"idle", "state_chg"} /\ (t \in Users => m_started = 1)
  BY CallIsKnown DEF StartIo
<1>2. /\ pc'[t] = "endpoint" /\ \A u \in Threads : u # t => pc'[u] = pc[u]
  BY Going DEF StartIo
<1>3. /\ h \notin io_closed /\ io_started' = io_started \cup {h}
      /\ arg' = [arg EXCEPT ![t] = h]
      /\ UNCHANGED <<entityVars, entity, ops, open, reading, io_closed, again, ret, history>>
  BY DEF StartIo
<1>4. arg'[t] = h /\ \A u \in Threads : u # t => arg'[u] = arg[u]
  BY <1>3 DEF Types
<1>5. IoStep(t)
  <2>1. io_started' \subseteq open \ io_closed
    BY <1>1, <1>3 DEF Inv, Ios, Known
  <2>2. reading' \subseteq Known
    BY <1>3 DEF Inv, Ios
  <2>3. ~(t = Run /\ StopsIo)
    BY <1>1 DEF StopsIo
  <2> QED
    BY <1>1, <1>2, <1>3, <1>4, <2>1, <2>2, <2>3 DEF IoStep, InIo
<1>6. Places'
  <2>1. ret[t] # "posted_done"
    BY <1>1 DEF Inv, Places, Threads
  <2>2. UNCHANGED <<ret, execq>>
    BY <1>3 DEF entityVars
  <2> QED
    BY <1>2, <2>1, <2>2, PlacesKept
<1> QED
  BY <1>1, <1>5, <1>6, IoStepKeeps

LEMMA StopIoStep ==
    ASSUME NoOverlap, Types, Inv, Types', NEW t \in Threads, NEW h \in Handlers, StopIo(t, h)
    PROVE  Inv'
<1> USE SomeThreads
<1>1. /\ h \in Known /\ ~NotBegun
      /\ pc[t] \in {"idle", "state_chg"} /\ (t \in Users => m_started = 1)
  BY CallIsKnown DEF StopIo
<1>2. PICK s \in {"io_close", "mark"} : Goto(t, s)
  BY DEF StopIo, StopIoBegins
<1>3. pc'[t] = s /\ \A u \in Threads : u # t => pc'[u] = pc[u]
  BY <1>2, Going
<1>4. /\ arg' = [arg EXCEPT ![t] = h]
      /\ UNCHANGED <<entityVars, entity, ops, ios, ret, history>>
  BY DEF StopIo, StopIoBegins
<1>5. arg'[t] = h /\ \A u \in Threads : u # t => arg'[u] = arg[u]
  BY <1>4 DEF Types
<1>6. IoStep(t)
  <2>1. UNCHANGED <<io_started, open, reading, io_closed, again>>
    BY <1>4 DEF ios
  <2>2. io_started' \subseteq open \ io_closed /\ reading' \subseteq Known
    BY <2>1 DEF Inv, Ios
  <2>3. ~(t = Run /\ StopsIo)
    BY <1>1 DEF StopsIo
  <2> QED
    BY <1>1, <1>3, <1>4, <1>5, <2>1, <2>2, <2>3 DEF IoStep, InIo
<1>7. Places'
  <2>1. ret[t] # "posted_done"
    BY <1>1 DEF Inv, Places, Threads
  <2>2. UNCHANGED <<ret, execq>>
    BY <1>4 DEF entityVars
  <2> QED
    BY <1>3, <2>1, <2>2, PlacesKept
<1> QED
  BY <1>1, <1>6, <1>7, IoStepKeeps

LEMMA IoFailsStep ==
    ASSUME Types, Inv, Types', NEW h \in Handlers, IoFails(h)
    PROVE  Inv'
<1> USE SomeThreads
<1>1. /\ pc[Run] = "idle" /\ h \in reading /\ reading' = reading \ {h}
      /\ arg' = [arg EXCEPT ![Run] = h]
      /\ UNCHANGED <<entityVars, entity, ops, io_started, open, io_closed, again, ret, history>>
  BY DEF IoFails
<1>2. pc'[Run] = "io_close" /\ \A u \in Threads : u # Run => pc'[u] = pc[u]
  BY Going DEF IoFails
<1>3. h \in Known /\ ~NotBegun
  BY <1>1, Begun DEF Inv, Ios
<1>4. arg'[Run] = h /\ \A u \in Threads : u # Run => arg'[u] = arg[u]
  BY <1>1 DEF Types
<1>5. IoStep(Run)
  <2>1. io_started' \subseteq open \ io_closed /\ reading' \subseteq Known
    BY <1>1 DEF Inv, Ios
  <2>2. ~StopsIo
    BY <1>1 DEF StopsIo
  <2> QED
    BY <1>1, <1>2, <1>3, <1>4, <2>1, <2>2 DEF IoStep, InIo
<1>6. Places'
  <2>1. ret[Run] # "posted_done"
    BY <1>1 DEF Inv, Places
  <2>2. UNCHANGED <<ret, execq>>
    BY <1>1 DEF entityVars
  <2> QED
    BY <1>2, <2>1, <2>2, PlacesKept
<1> QED
  BY <1>3, <1>5, <1>6, IoStepKeeps

LEMMA RemoteEndpointStep ==
    ASSUME Types, Inv, Types', NEW t \in Threads, RemoteEndpoint(t)
    PROVE  Inv'
<1> USE SomeThreads
<1>1. /\ pc[t] = "endpoint"
      /\ UNCHANGED <<entityVars, entity, ops, io_started, open, io_closed, again, ret, history>>
  BY DEF RemoteEndpoint
<1>2. arg[t] \in Handlers /\ arg[t] \in Known
  <2>1. arg[t] \in Handlers
    BY <1>1 DEF Types, InIo
  <2> QED
    BY <2>1 DEF Inv, Ios, Handlers, None
<1>3. ~NotBegun
  BY <1>2, Begun
<1>4. UNCHANGED <<ret, execq>>
  BY <1>1 DEF entityVars
<1>5. ret[t] # "posted_done"
  BY <1>1 DEF Inv, Places, Threads
<1>6. io_started' \subseteq open \ io_closed /\ ~(t = Run /\ StopsIo)
  BY <1>1 DEF Inv, Ios, StopsIo
<1>7. CASE reading' = reading \cup {arg[t]} /\ Return(t)
  <2>1. /\ pc'[t] = ret[t] /\ \A u \in Threads : u # t => pc'[u] = pc[u]
        /\ ret[t] \in {"idle", "state_chg", "posted_done"}
        /\ \A u \in Threads : arg'[u] \in {arg[u], None} /\ (u # t => arg'[u] = arg[u])
    BY <1>7, Returning
  <2>2. arg'[t] \in Known \cup {None} /\ reading' \subseteq Known
    BY <1>2, <1>7, <2>1 DEF Inv, Ios
  <2>3. IoStep(t)
    BY <1>1, <1>6, <2>1, <2>2 DEF IoStep, InIo
  <2>4. Places'
    BY <1>4, <2>1, PlacesKept
  <2> QED
    BY <1>3, <2>3, <2>4, IoStepKeeps
<1>8. CASE Goto(t, "io_close") /\ UNCHANGED <<reading, arg>>
  <2>1. pc'[t] = "io_close" /\ \A u \in Threads : u # t => pc'[u] = pc[u]
    BY <1>8, Going
  <2>2. arg'[t] \in Known \cup {None} /\ reading' \subseteq Known
    BY <1>8 DEF Inv, Ios
  <2>3. IoStep(t)
    BY <1>1, <1>6, <1>8, <2>1, <2>2 DEF IoStep, InIo
  <2>4. Places'
    BY <1>4, <1>5, <2>1, PlacesKept
  <2> QED
    BY <1>3, <2>3, <2>4, IoStepKeeps
<1> QED
  BY <1>7, <1>8 DEF RemoteEndpoint

LEMMA StopIoMarkStep ==
    ASSUME Types, Inv, Types', NEW t \in Threads, StopIoMark(t), again' = again
    PROVE  Inv'
<1> USE SomeThreads
<1>1. /\ pc[t] = "mark" /\ io_started' = io_started \cup {arg[t]}
      /\ again' = (IF arg[t] \in io_closed \ io_started THEN again + 1 ELSE again)
      /\ UNCHANGED <<entityVars, entity, ops, open, reading, io_closed, ret, arg, history>>
  BY DEF StopIoMark
<1>2. pc'[t] = "io_close" /\ \A u \in Threads : u # t => pc'[u] = pc[u]
  BY Going DEF StopIoMark
<1>3. arg[t] \in Handlers /\ arg[t] \in Known
  <2>1. arg[t] \in Handlers
    BY <1>1 DEF Types, InIo
  <2> QED
    BY <2>1 DEF Inv, Ios, Handlers, None
<1>4. ~NotBegun
  BY <1>3, Begun
<1>5. arg[t] \in open \ io_closed
  <2>1. again + 1 # again
    BY DEF Types
  <2>2. arg[t] \notin io_closed \ io_started
    BY <1>1, <2>1
  <2> QED
    BY <1>3, <2>2 DEF Inv, Ios, Known
<1>6. IoStep(t)
  <2>1. io_started' \subseteq open \ io_closed
    BY <1>1, <1>5 DEF Inv, Ios
  <2>2. reading' \subseteq Known /\ arg'[t] \in Known \cup {None}
    BY <1>1 DEF Inv, Ios
  <2>3. t = Run /\ StopsIo => m_io_handler \in io_started'
    BY <1>1 DEF Inv, AtSteps
  <2> QED
    BY <1>1, <1>2, <2>1, <2>2, <2>3 DEF IoStep, InIo
<1>7. Places'
  <2>1. UNCHANGED <<ret, execq>>
    BY <1>1 DEF entityVars
  <2> QED
    BY <1>1, <1>2, <2>1, PlacesKept
<1> QED
  BY <1>4, <1>6, <1>7, IoStepKeeps

LEMMA IoCloseStep ==
    ASSUME Types, Inv, Types', NEW t \in Threads, IoClose(t)
    PROVE  Inv'
<1> USE SomeThreads
<1>1. /\ pc[t] = "io_close"
      /\ UNCHANGED <<entityVars, entity, ops, open, reading, again, ret, history>>
  BY DEF IoClose
<1>2. UNCHANGED <<m_started, have_cbs, call, execq>>
  BY <1>1 DEF entityVars
<1>3. arg[t] \in Handlers /\ arg[t] \in Known /\ ~NotBegun
  <2>1. arg[t] \in Handlers
    BY <1>1 DEF Types, InIo
  <2>2. arg[t] \in Known
    BY <2>1 DEF Inv, Ios, Handlers, None
  <2> QED
    BY <2>1, <2>2, Begun
<1>4. CASE arg[t] \notin io_started
  <2>1. Return(t) /\ UNCHANGED <<io_started, io_closed>>
    BY <1>4 DEF IoClose
  <2>2. /\ pc'[t] = ret[t] /\ \A u \in Threads : u # t => pc'[u] = pc[u]
        /\ ret[t] \in {"idle", "state_chg", "posted_done"}
        /\ \A u \in Threads : arg'[u] \in {arg[u], None} /\ (u # t => arg'[u] = arg[u])
    BY <2>1, Returning
  <2>3. ~(t = Run /\ StopsIo)
    BY <1>1, <1>4 DEF Inv, AtSteps
  <2>4. /\ io_started' \subseteq open \ io_closed /\ reading' \subseteq Known
        /\ arg'[t] \in Known \cup {None}
    BY <1>1, <1>3, <2>1, <2>2 DEF Inv, Ios
  <2>5. IoStep(t)
    BY <1>1, <2>1, <2>2, <2>3, <2>4 DEF IoStep, InIo
  <2>6. Places'
    BY <1>1, <1>2, <2>2, PlacesKept
  <2> QED
    BY <1>3, <2>5, <2>6, IoStepKeeps
<1>5. CASE arg[t] \in io_started
  <2>1. /\ io_started' = io_started \ {arg[t]} /\ io_closed' = io_closed \cup {arg[t]}
        /\ Goto(t, "shut") /\ UNCHANGED arg
    BY <1>5 DEF IoClose
  <2>2. pc'[t] = "shut" /\ \A u \in Threads : u # t => pc'[u] = pc[u]
    BY <2>1, Going
  <2>3. /\ arg[t] \in open \ io_closed /\ open = {arg[t]} /\ m_io_handler = arg[t]
        /\ m_state = "connected" \/ m_state = "closing"
    BY <1>5 DEF Inv, Ios, Operations
  <2>4. m_started = 2 => t = Run
    BY <1>1, <2>3 DEF Inv, Quiet, Threads
  <2>5. ASSUME NEW u \in Threads, Midway(u) PROVE u = t /\ t = Run /\ StopsIo
    <3>1. pc[u] \notin {"notify", "decide", "start_connect", "finish_close"}
      BY <2>3 DEF Inv, AtSteps
    <3>2. pc[u] # "shut"
      BY <2>3 DEF Inv, AtSteps
    <3>3. pc[u] \in {"close", "close_io"} => u = Run
      BY DEF Inv, Places, Threads
    <3>4. ~(u = Run /\ pc[Run] = "close")
      <4>1. pc[Run] = "close" => m_started = 2
        BY <2>3 DEF Inv, AtSteps
      <4> QED
        BY <1>1, <2>4, <4>1
    <3>5. ~(u = Run /\ pc[Run] = "close_io")
      <4>1. pc[Run] = "close_io" => m_started = 2
        BY DEF Inv, AtSteps
      <4> QED
        BY <1>1, <2>4, <4>1
    <3>6. u = Run /\ StopsIo
      BY <2>5, <3>1, <3>2, <3>3, <3>4, <3>5 DEF Midway
    <3>7. m_started = 2
      BY <3>6 DEF Inv, AtSteps
    <3> QED
      BY <2>4, <3>6, <3>7
  <2>6. \/ m_state = "connected" /\ ~StopsIo
        \/ t = Run /\ StopsIo
    <3>1. CASE \A u \in Threads : ~Midway(u)
      <4>1. m_state # "closing"
        BY <3>1 DEF Inv, Waiting
      <4> QED
        BY <2>3, <4>1 DEF StopsIo
    <3> QED
      BY <2>5, <3>1
  <2>7. NoLiveOps /\ ups = downs + 1
    <3>1. CASE t = Run /\ StopsIo
      BY <3>1 DEF Inv, AtSteps
    <3>2. CASE m_state = "connected" /\ ~StopsIo
      <4>1. ups = downs + 1
        BY <2>5, <3>2 DEF Inv, Waiting
      <4>2. NoLiveOps
        BY <3>2, OpNumbers DEF Inv, Operations, NoLiveOps
      <4> QED
        BY <4>1, <4>2
    <3> QED
      BY <2>6, <3>1, <3>2
  <2>8. UNCHANGED <<m_state, m_io_handler, m_conn_attempts, m_timeout_func, m_reconn_on_err,
                    resolves, connects, timers, open, reading, again, ret, tries, failures,
                    asked, answer, ups, downs, closed_told>>
    BY <1>1 DEF entity, made, ops, history
  <2>9. ~StopsIo' /\ \A u \in Threads : Midway(u)' => u = t
    <3>1. ~StopsIo'
      BY <2>2, <2>6, <2>8 DEF StopsIo
    <3>2. ASSUME NEW u \in Threads, u # t PROVE ~Midway(u)'
      <4>1. pc'[u] = pc[u]
        BY <2>2, <3>2
      <4>2. ~Midway(u)
        BY <2>5, <3>2
      <4> QED
        BY <3>1, <4>1, <4>2 DEF Midway
    <3> QED
      BY <3>1, <3>2
  <2>11. Calls'
    BY <1>2 DEF Inv, Calls
  <2>12. Places'
    BY <1>1, <1>2, <2>2, PlacesKept
  <2>13. Fresh'
    BY <1>2, <1>3, <2>8 DEF Fresh, NotBegun
  <2>14. Alone'
    <3>1. t \in Users => m_state = "connected" /\ m_started = 1
      <4>1. m_started # 0
        BY <1>3 DEF NotBegun
      <4>2. m_started \in 0..2
        BY DEF Types, EntityTypeOK
      <4> QED
        BY <2>4, <2>6, <4>1, <4>2
    <3> QED
      BY <1>2, <2>8, <2>9, <3>1 DEF Alone
  <2>20. Quiet'
    BY <1>1, <1>2, <2>2, <2>3, <2>8 DEF Inv, Quiet
  <2>21. Ios'
    <3>1. Known' = Known
      BY <2>1, <2>3, <2>8 DEF Known
    <3>2. io_started' \subseteq open \ (io_closed \cup {arg[t]})
      BY <2>1 DEF Inv, Ios
    <3>3. io_started' \subseteq open' \ io_closed'
      BY <2>1, <2>8, <3>2
    <3> QED
      BY <2>1, <2>8, <3>1, <3>3 DEF Inv, Ios
  <2>15. Operations'
    BY <1>2, <2>2, <2>6, <2>8 DEF Inv, Operations, StopsIo
  <2>16. AtSteps'
    <3>1. \A u \in Threads : u # t => pc'[u] \notin {"close", "close_io", "shut", "notify",
                                                     "decide", "start_connect", "finish_close"}
      BY <2>9 DEF Midway
    <3>2. arg'[t] \in io_closed' /\ open' = {arg'[t]} /\ NoLiveOps'
      BY <2>1, <2>3, <2>7, <2>8 DEF NoLiveOps
    <3> QED
      BY <2>2, <2>3, <2>7, <2>8, <2>9, <3>1, <3>2 DEF AtSteps
  <2>17. Waiting'
    BY <2>2 DEF Waiting, Midway
  <2>19. Ended'
    BY <2>3, <2>8 DEF Inv, Ended
  <2> QED
    BY <2>8, <2>11, <2>12, <2>13, <2>14, <2>15, <2>16, <2>17, <2>19, <2>20, <2>21 DEF Inv
<1> QED
  BY <1>4, <1>5

LEMMA IoShutStep ==
    ASSUME Types, Inv, Types', NEW t \in Threads, IoShut(t)
    PROVE  Inv'
<1> USE SomeThreads
<1>1. /\ pc[t] = "shut" /\ open' = open \ {arg[t]}
      /\ UNCHANGED <<m_state, m_io_handler, m_conn_attempts, m_timeout_func, m_reconn_on_err,
                     resolves, connects, timers, io_started, reading, io_closed, again,
                     ret, arg, tries, failures, asked, answer, ups, downs, closed_told>>
      /\ UNCHANGED <<m_started, have_cbs, call, execq>>
  BY DEF IoShut, entity, made, ops, history, entityVars
<1>2. pc'[t] = "notify" /\ \A u \in Threads : u # t => pc'[u] = pc[u]
  BY Going DEF IoShut
<1>3. /\ open = {arg[t]} /\ arg[t] \in io_closed /\ NoLiveOps /\ ups = downs + 1
      /\ m_state \in {"connected", "closing"}
      /\ \A u \in Threads : Midway(u) => u = t
      /\ t \in Users => m_state = "connected" /\ m_started = 1
  BY <1>1 DEF Inv, AtSteps, Alone, Midway
<1>4. open' = {} /\ io_started = {}
  BY <1>1, <1>3 DEF Inv, Ios
<1>5. ~StopsIo' /\ \A u \in Threads : Midway(u)' => u = t
  <2>1. ~StopsIo'
    <3>1. ~StopsIo
      BY <1>1, <1>3 DEF Midway, StopsIo
    <3> QED
      BY <1>1, <1>2, <3>1 DEF StopsIo
  <2> QED
    BY <1>2, <1>3, <2>1 DEF Midway
<1>11. Calls'
  BY <1>1 DEF Inv, Calls
<1>12. Places'
  BY <1>1, <1>2 DEF Inv, Places
<1>13. Fresh'
  BY <1>1 DEF Inv, Fresh, NotBegun
<1>14. Alone'
  BY <1>1, <1>3, <1>5 DEF Alone
<1>20. Quiet'
  BY <1>1, <1>2, <1>4 DEF Inv, Quiet
<1>21. Ios'
  <2>1. Known' = Known
    BY <1>1, <1>3 DEF Known
  <2> QED
    BY <1>1, <1>4, <2>1 DEF Inv, Ios
<1>15. Operations'
  BY <1>1, <1>4 DEF Inv, Operations
<1>16. AtSteps'
  <2>1. \A u \in Threads : u # t => pc'[u] \notin {"close", "close_io", "shut", "notify",
                                                   "decide", "start_connect", "finish_close"}
    BY <1>5 DEF Midway
  <2>2. NoLiveOps'
    BY <1>1, <1>3 DEF NoLiveOps
  <2> QED
    BY <1>1, <1>2, <1>3, <1>4, <1>5, <2>1, <2>2 DEF AtSteps
<1>17. Waiting'
  BY <1>2 DEF Waiting, Midway
<1>19. Ended'
  BY <1>1, <1>3 DEF Inv, Ended
<1> QED
  BY <1>1, <1>11, <1>12, <1>13, <1>14, <1>15, <1>16, <1>17, <1>19, <1>20, <1>21 DEF Inv

LEMMA NotifyStep ==
    ASSUME Types, Inv, Types', NEW t \in Threads, Notify(t)
    PROVE  Inv'
<1> USE SomeThreads
<1>1. /\ pc[t] = "notify" /\ m_io_handler' = None /\ downs' = downs + 1
      /\ UNCHANGED <<m_state, m_conn_attempts, m_timeout_func, m_reconn_on_err,
                     resolves, connects, timers, io_started, open, reading, io_closed, again,
                     ret, arg, tries, failures, asked, answer, ups, closed_told>>
      /\ UNCHANGED <<m_started, have_cbs, call, execq>>
  BY DEF Notify, made, ops, ios, entityVars
<1>2. pc'[t] = "decide" /\ \A u \in Threads : u # t => pc'[u] = pc[u]
  BY Going DEF Notify
<1>3. /\ open = {} /\ NoLiveOps /\ ups = downs + 1 /\ m_state \in {"connected", "closing"}
      /\ \A u \in Threads : Midway(u) => u = t
      /\ t \in Users => m_state = "connected" /\ m_started = 1
  BY <1>1 DEF Inv, AtSteps, Alone, Midway
<1>5. ~StopsIo' /\ \A u \in Threads : Midway(u)' => u = t
  <2>1. ~StopsIo'
    <3>1. ~StopsIo
      BY <1>1, <1>3 DEF Midway, StopsIo
    <3> QED
      BY <1>1, <1>2, <3>1 DEF StopsIo
  <2> QED
    BY <1>2, <1>3, <2>1 DEF Midway
<1>11. Calls'
  BY <1>1 DEF Inv, Calls
<1>12. Places'
  BY <1>1, <1>2 DEF Inv, Places
<1>13. Fresh'
  BY <1>1 DEF Inv, Fresh, NotBegun
<1>14. Alone'
  BY <1>1, <1>3, <1>5 DEF Alone
<1>20. Quiet'
  BY <1>1, <1>2 DEF Inv, Quiet
<1>21. Ios'
  BY <1>1 DEF Inv, Ios, Known
<1>15. Operations'
  BY <1>1, <1>3 DEF Inv, Operations
<1>16. AtSteps'
  <2>1. \A u \in Threads : u # t => pc'[u] \notin {"close", "close_io", "shut", "notify",
                                                   "decide", "start_connect", "finish_close"}
    BY <1>5 DEF Midway
  <2>2. NoLiveOps' /\ ups' = downs'
    BY <1>1, <1>3 DEF NoLiveOps, Types
  <2> QED
    BY <1>1, <1>2, <1>3, <1>5, <2>1, <2>2 DEF Types, AtSteps
<1>17. Waiting'
  BY <1>2 DEF Waiting, Midway
<1>19. Ended'
  BY <1>1, <1>3 DEF Inv, Ended
<1> QED
  BY <1>1, <1>11, <1>12, <1>13, <1>14, <1>15, <1>16, <1>17, <1>19, <1>20, <1>21 DEF Inv

LEMMA DecideStep ==
    ASSUME Types, Inv, Types', NEW t \in Threads, Decide(t)
    PROVE  Inv'
<1> USE SomeThreads
<1>1. /\ pc[t] = "decide"
      /\ UNCHANGED <<m_state, m_io_handler, m_conn_attempts, m_timeout_func, m_reconn_on_err,
                     resolves, connects, timers, io_started, open, reading, io_closed, again,
                     ret, arg, tries, failures, asked, answer, ups, downs, closed_told>>
      /\ UNCHANGED <<m_started, have_cbs, call, execq>>
  BY DEF Decide, entity, made, ops, ios, history, entityVars
<1>2. PICK s \in {"start_connect", "finish_close"} :
        Goto(t, s) /\ (s = "start_connect" => m_state = "connected")
  BY DEF Decide
<1>4. pc'[t] = s /\ \A u \in Threads : u # t => pc'[u] = pc[u]
  BY <1>2, Going
<1>3. /\ open = {} /\ NoLiveOps /\ ups = downs /\ m_state \in {"connected", "closing"}
      /\ \A u \in Threads : Midway(u) => u = t
      /\ t \in Users => m_state = "connected" /\ m_started = 1
  <2>1. ups = downs + 0
    BY <1>1 DEF Inv, AtSteps
  <2> QED
    BY <1>1, <2>1 DEF Types, Inv, AtSteps, Alone, Midway
<1>5. ~StopsIo' /\ \A u \in Threads : Midway(u)' => u = t
  <2>1. ~StopsIo'
    <3>1. ~StopsIo
      BY <1>1, <1>3 DEF Midway, StopsIo
    <3> QED
      BY <1>1, <1>4, <3>1 DEF StopsIo
  <2> QED
    BY <1>3, <1>4, <2>1 DEF Midway
<1>11. Calls'
  BY <1>1 DEF Inv, Calls
<1>12. Places'
  BY <1>1, <1>4 DEF Inv, Places
<1>13. Fresh'
  BY <1>1 DEF Inv, Fresh, NotBegun
<1>14. Alone'
  BY <1>1, <1>3, <1>5 DEF Alone
<1>20. Quiet'
  BY <1>1, <1>4 DEF Inv, Quiet
<1>21. Ios'
  BY <1>1 DEF Inv, Ios, Known
<1>15. Operations'
  BY <1>1, <1>3 DEF Inv, Operations
<1>16. AtSteps'
  <2>1. \A u \in Threads : u # t => pc'[u] \notin {"close", "close_io", "shut", "notify",
                                                   "decide", "start_connect", "finish_close"}
    BY <1>5 DEF Midway
  <2>2. NoLiveOps'
    BY <1>1, <1>3 DEF NoLiveOps
  <2> QED
    BY <1>1, <1>2, <1>3, <1>4, <1>5, <2>1, <2>2 DEF AtSteps
<1>17. Waiting'
  BY <1>4 DEF Waiting, Midway
<1>19. Ended'
  BY <1>1, <1>3 DEF Inv, Ended
<1> QED
  BY <1>1, <1>11, <1>12, <1>13, <1>14, <1>15, <1>16, <1>17, <1>19, <1>20, <1>21 DEF Inv

LEMMA CallbackReturnsStep ==
    ASSUME Types, Inv, Types', CallbackReturns
    PROVE  Inv'
<1> USE SomeThreads
<1>1. /\ pc[Run] = "state_chg" /\ ret' = [ret EXCEPT ![Run] = "idle"]
      /\ arg' = [arg EXCEPT ![Run] = None]
      /\ UNCHANGED <<m_state, m_io_handler, m_timeout_func, m_reconn_on_err,
                     resolves, connects, timers, io_started, open, reading, io_closed, again,
                     tries, failures, asked, answer, ups, downs, closed_told>>
      /\ UNCHANGED <<m_started, have_cbs, call, execq>>
  BY DEF CallbackReturns, made, ops, ios, history, entityVars
<1>2. pc'[Run] = "idle" /\ \A u \in Threads : u # Run => pc'[u] = pc[u]
  BY Going DEF CallbackReturns
<1>3. /\ ret[Run] = "state_chg" /\ ret'[Run] = "idle" /\ \A u \in Users : ret'[u] = ret[u]
      /\ \A u \in Threads : arg'[u] \in {arg[u], None} /\ (u # Run => arg'[u] = arg[u])
  BY <1>1 DEF Inv, Places, Types, Threads
<1>4. ~NotBegun /\ ~NotBegun'
  BY <1>1, <1>3 DEF Inv, Fresh, NotBegun
<1>5. /\ ~StopsIo /\ ~StopsIo'
      /\ \A u \in Threads : Midway(u)' <=> Midway(u)
  <2>1. ~StopsIo /\ ~StopsIo'
    BY <1>1, <1>2 DEF StopsIo
  <2> QED
    BY <1>1, <1>2, <2>1 DEF Midway
<1>11. Calls'
  BY <1>1 DEF Inv, Calls
<1>12. Places'
  BY <1>2, <1>3 DEF Inv, Places
<1>13. Fresh'
  BY <1>4 DEF Fresh
<1>14. Alone'
  BY <1>1, <1>5 DEF Inv, Alone
<1>20. Quiet'
  BY <1>1, <1>2 DEF Inv, Quiet
<1>21. Ios'
  BY <1>1, <1>3 DEF Inv, Ios, Known
<1>15. Operations'
  BY <1>1, <1>2 DEF Inv, Operations
<1>16. AtSteps'
  <2>1. NoLiveOps' <=> NoLiveOps
    BY <1>1 DEF NoLiveOps
  <2>2. \A u \in Threads : pc'[u] # "idle" => u # Run /\ pc'[u] = pc[u] /\ arg'[u] = arg[u]
    BY <1>2, <1>3
  <2> QED
    BY <1>1, <1>2, <1>5, <2>1, <2>2 DEF Inv, AtSteps, Connection
<1>17. Waiting'
  BY <1>1, <1>5 DEF Inv, Waiting, Connection
<1>19. Ended'
  BY <1>1, <1>2 DEF Inv, Ended
<1> QED
  BY <1>1, <1>11, <1>12, <1>13, <1>14, <1>15, <1>16, <1>17, <1>19, <1>20, <1>21 DEF Inv

\* start and stop before they post: nothing of the connector but m_started
\* and the queue.
LEMMA CallsStep ==
    ASSUME NoOverlap, Types, Inv, Types', NEW t \in Callers, CallerStep(t) \/ CallerGoesOn(t)
    PROVE  Inv'
<1> USE SomeThreads
<1>1. UNCHANGED <<m_state, m_io_handler, m_conn_attempts, m_timeout_func, m_reconn_on_err,
                  resolves, connects, timers, io_started, open, reading, io_closed, again,
                  pc, ret, arg, tries, failures, asked, answer, ups, downs, closed_told>>
  BY DEF CallerStep, CallerGoesOn, entity, made, ops, ios, control, history
<1>2. /\ m_started \in 0..2
      /\ call \in [Callers -> {"idle", "assign", "post_start", "post_stop",
                               "wait", "returned"}]
  BY DEF Types, EntityTypeOK
<1>3. /\ Calls' /\ Fresh'
      /\ \/ m_started' = m_started
         \/ m_started = 0 /\ m_started' = 1
         \/ m_started = 1 /\ m_started' = 2 /\ \A u \in Users : pc[u] = "idle"
      /\ execq # <<>> => execq' # <<>> /\ Head(execq')[1] = Head(execq)[1]
  <2>1. CASE StartCas(t)
    <3>1. m_started = 0 /\ m_started' = 1 /\ execq = <<>> /\ execq' = <<>>
      BY <2>1 DEF StartCas, Inv, Calls
    <3>2. call' = [call EXCEPT ![t] = "assign"] /\ \A u \in Callers : call[u] = "idle"
      BY <2>1, <3>1 DEF StartCas, CallGoto, Inv, Calls
    <3>3. Calls'
      BY <1>2, <3>1, <3>2 DEF Calls
    <3>4. Fresh'
      BY <1>1, <3>1 DEF Inv, Fresh, NotBegun
    <3> QED
      BY <3>1, <3>3, <3>4
  <2>2. CASE StopCas(t) /\ CallerStep(t)
    <3>1. /\ m_started = 1 /\ m_started' = 2 /\ execq' = execq
          /\ call' = [call EXCEPT ![t] = "post_stop"]
          /\ \A u \in Users : pc[u] = "idle"
      BY <2>2 DEF StopCas, CallGoto, CallerStep, StartCas, NoOverlap
    <3>2. PICK c \in Callers : call[c] = "returned"
      BY <2>2 DEF StopCas, CallerStep, StartCas, NoOverlap
    <3>3. execq = <<>> /\ \A u \in Callers : call[u] \in {"idle", "returned"}
      BY <1>2, <3>1, <3>2 DEF Inv, Calls
    <3>4. Calls'
      BY <1>2, <3>1, <3>3 DEF Calls
    <3>5. Fresh'
      BY <1>2, <3>1, <3>3 DEF Fresh, NotBegun
    <3> QED
      BY <3>1, <3>3, <3>4, <3>5
  <2>3. CASE StartAssign(t)
    <3>1. /\ call[t] = "assign" /\ call' = [call EXCEPT ![t] = "post_start"]
          /\ UNCHANGED <<m_started, execq>>
      BY <2>3 DEF StartAssign, CallGoto
    <3>2. m_started = 1 /\ execq = <<>> /\ \A u \in Callers : u # t => call[u] = "idle"
      BY <3>1 DEF Inv, Calls
    <3>3. Calls'
      BY <1>2, <3>1, <3>2 DEF Calls
    <3>4. Fresh'
      BY <1>1, <3>1 DEF Inv, Fresh, NotBegun
    <3> QED
      BY <3>1, <3>3, <3>4
  <2>4. CASE StartPost(t)
    <3>1. /\ call[t] = "post_start" /\ call' = [call EXCEPT ![t] = "wait"]
          /\ execq' = Append(execq, <<"start", t>>) /\ UNCHANGED m_started
      BY <2>4 DEF StartPost, CallGoto
    <3>2. m_started = 1 /\ execq = <<>> /\ \A u \in Callers : u # t => call[u] = "idle"
      BY <3>1 DEF Inv, Calls
    <3>3. execq' = <<<<"start", t>>>>
      BY <3>1, <3>2
    <3>4. Calls'
      BY <1>2, <3>1, <3>2, <3>3 DEF Calls
    <3>5. Fresh'
      BY <1>1, <3>1 DEF Inv, Fresh, NotBegun
    <3> QED
      BY <3>1, <3>2, <3>4, <3>5
  <2>5. CASE StopPost(t)
    <3>1. /\ call[t] = "post_stop" /\ call' = [call EXCEPT ![t] = "wait"]
          /\ execq' = Append(execq, <<"stop", t>>) /\ UNCHANGED m_started
      BY <2>5 DEF StopPost, CallGoto
    <3>2. m_started = 2 /\ execq = <<>> /\ \A u \in Callers : u # t => call[u] \in {"idle", "returned"}
      BY <3>1 DEF Inv, Calls
    <3>3. execq' = <<<<"stop", t>>>> /\ execq' # <<>> /\ Head(execq')[1] = "stop"
      BY <3>1, <3>2
    <3>4. Calls'
      BY <1>2, <3>1, <3>2, <3>3 DEF Calls
    <3>5. Fresh'
      BY <1>2, <3>1, <3>2, <3>3 DEF Fresh, NotBegun
    <3> QED
      BY <3>1, <3>2, <3>4, <3>5
  <2> QED
    BY <2>1, <2>2, <2>3, <2>4, <2>5 DEF CallerStep, CallerGoesOn, CallStep
<1>5. /\ StopsIo' <=> StopsIo
      /\ \A u \in Threads : Midway(u)' <=> Midway(u)
      /\ \A u \in Users : pc[u] = "idle" => ~Midway(u)
  BY <1>1 DEF Midway, StopsIo
<1>12. Places'
  BY <1>1, <1>3 DEF Inv, Places
<1>14. Alone'
  BY <1>1, <1>2, <1>3, <1>5 DEF Inv, Alone
<1>20. Quiet'
  BY <1>1, <1>2, <1>3 DEF Inv, Quiet
<1>21. Ios'
  BY <1>1 DEF Inv, Ios, Known
<1>15. Operations'
  BY <1>1, <1>2, <1>3 DEF Inv, Operations
<1>16. AtSteps'
  <2>1. NoLiveOps' <=> NoLiveOps
    BY <1>1 DEF NoLiveOps
  <2> QED
    BY <1>1, <1>2, <1>3, <1>5, <2>1 DEF Inv, AtSteps, Connection
<1>17. Waiting'
  BY <1>1, <1>5 DEF Inv, Waiting, Connection
<1>19. Ended'
  BY <1>1 DEF Inv, Ended
<1> QED
  BY <1>1, <1>3, <1>12, <1>14, <1>15, <1>16, <1>17, <1>19, <1>20, <1>21 DEF Inv

\* A step that stutters.
LEMMA StutterStep ==
    ASSUME Inv, UNCHANGED vars
    PROVE  Inv'
BY DEF vars, entityVars, entity, made, ops, ios, control, history, Inv, Calls, Places, Fresh,
   NotBegun, Alone, Midway, StopsIo, Quiet, Known, Ios, Operations, NoLiveOps, Connection,
   AtSteps, Waiting, Ended

\* only stop_io sets a stopped tcp_io started again
LEMMA AgainStep ==
    ASSUME Types, [Next]_vars, ClosedOnce'
    PROVE  ClosedOnce /\ again' = again
<1>1. CASE \E t \in Threads : StopIoMark(t)
  <2>1. again' \in {again, again + 1} /\ again \in Nat
    BY <1>1 DEF StopIoMark, Types
  <2> QED
    BY <2>1 DEF ClosedOnce
<1>2. CASE ~\E t \in Threads : StopIoMark(t)
  <2>1. UNCHANGED again
    <3>1. ASSUME NEW t \in Threads, MethodStep(t) PROVE UNCHANGED again
      BY <1>2, <3>1 DEF MethodStep, RemoteEndpoint, IoClose, IoShut, Notify, Decide,
         StartConnect, FinishClose, ios
    <3>2. CASE RunStep
      BY <3>1, <3>2, SomeThreads DEF RunStep, Close, CloseAgain, CloseIo, CallbackReturns,
         DoStart, DoStop, EndOfPosted, ResolveDone, ResolveFails, LateConnect, ConnectDone,
         ConnectFails, TimerDone, ios
    <3>3. CASE \E t \in Users : MethodStep(t)
      BY <3>1, <3>3, SomeThreads
    <3>4. CASE \E t \in Threads, h \in Handlers : StartIo(t, h) \/ StopIo(t, h)
      BY <3>4 DEF StartIo, StopIo, ios
    <3>5. CASE \E h \in Handlers : IoFails(h)
      BY <3>5 DEF IoFails
    <3>6. CASE \E t \in Callers : CallerStep(t) \/ CallerGoesOn(t)
      BY <3>6 DEF CallerStep, CallerGoesOn, ios
    <3>7. CASE UNCHANGED vars
      BY <3>7 DEF vars, ios
    <3> QED
      BY <3>2, <3>3, <3>4, <3>5, <3>6, <3>7 DEF Next
  <2> QED
    BY <2>1 DEF ClosedOnce
<1> QED
  BY <1>1, <1>2

LEMMA MethodStepKeeps ==
    ASSUME Types, Inv, Types', again' = again, NEW t \in Threads, MethodStep(t)
    PROVE  Inv'
BY RemoteEndpointStep, StopIoMarkStep, IoCloseStep, IoShutStep, NotifyStep, DecideStep,
   StartConnectStep, FinishCloseStep DEF MethodStep

LEMMA InvStep ==
    ASSUME NoOverlap, Types, Types', Inv, again' = again, [Next]_vars
    PROVE  Inv'
<1>1. CASE RunStep
  BY <1>1, SomeThreads, MethodStepKeeps, CloseStep, CloseAgainStep, CloseIoStep,
     CallbackReturnsStep, DoStartStep, DoStopStep, EndOfPostedStep, ResolveDoneStep,
     ResolveFailsStep, LateConnectStep, ConnectDoneStep, ConnectFailsStep, TimerDoneStep
     DEF RunStep
<1>2. CASE \E t \in Users : MethodStep(t)
  BY <1>2, SomeThreads, MethodStepKeeps
<1>3. CASE \E t \in Threads, h \in Handlers : StartIo(t, h) \/ StopIo(t, h)
  BY <1>3, StartIoStep, StopIoStep
<1>4. CASE \E h \in Handlers : IoFails(h)
  BY <1>4, IoFailsStep
<1>5. CASE \E t \in Callers : CallerStep(t) \/ CallerGoesOn(t)
  BY <1>5, CallsStep
<1>6. CASE UNCHANGED vars
  BY <1>6, StutterStep
<1> QED
  BY <1>1, <1>2, <1>3, <1>4, <1>5, <1>6 DEF Next

LEMMA InvInit ==
    ASSUME Init
    PROVE  Inv
<1> USE SomeThreads
<1>1. NoOps.live = 0 /\ NoOps.cancelled = 0
  BY DEF NoOps
<1>2. m_started = 0 /\ execq = <<>> /\ \A t \in Callers : call[t] = "idle"
  BY DEF Init, EntityInit
<1>3. /\ \A t \in Threads : pc[t] = "idle" /\ ret[t] = "idle" /\ arg[t] = None /\ ~Midway(t)
      /\ ~StopsIo
  BY DEF Init, Midway, StopsIo
<1>4. Calls
  BY <1>2 DEF Calls
<1>5. Places
  BY <1>3 DEF Places
<1>6. Fresh /\ Alone /\ Quiet /\ Ended
  BY <1>2, <1>3 DEF Init, Fresh, Alone, Quiet, Ended
<1>7. Ios
  BY <1>3 DEF Init, Ios, Known
<1>8. Operations /\ Waiting
  BY <1>1, <1>3 DEF Init, Operations, Waiting
<1>9. AtSteps
  BY <1>3 DEF AtSteps
<1> QED
  BY <1>4, <1>5, <1>6, <1>7, <1>8, <1>9 DEF Init, Inv

\* Inv for as long as no tcp_io that close had stopped was set started again
InvOnce == ClosedOnce => Inv

LEMMA Invariant == ASSUME NoOverlap PROVE Spec => [](Types /\ InvOnce)
<1>1. Init => Types /\ InvOnce
  BY TypeInit, InvInit DEF InvOnce
<1>2. Types /\ InvOnce /\ [Next]_vars => (Types /\ InvOnce)'
  <2> SUFFICES ASSUME Types, InvOnce, [Next]_vars
               PROVE  Types' /\ InvOnce'
    OBVIOUS
  <2>1. Types'
    BY TypesStep
  <2>2. ASSUME ClosedOnce' PROVE Inv'
    BY <2>1, <2>2, AgainStep, InvStep DEF InvOnce
  <2> QED
    BY <2>1, <2>2 DEF InvOnce
<1> QED
  BY <1>1, <1>2, PTL DEF Spec

-----------------------------------------------------------------------------
(* What the invariant implies.                                             *)

\* Whenever no code of a connector runs, the one operation that belongs to its
\* state is outstanding and nothing else, as long as close stopped every
\* tcp_io once: resolve, connect, timer and tcp_io never outlive the state
\* that started them.
THEOREM NothingForgotten == ASSUME NoOverlap PROVE Spec => []StateHasItsOperation
<1>1. ASSUME Types, Inv, Resting PROVE StateHasItsOperation
  <2>1. /\ \A t \in Threads : ~Midway(t)
        /\ pc[Run] = "idle"
    BY <1>1, SomeThreads DEF Resting, Midway, StopsIo
  <2>2. /\ resolves.live \in Nat /\ connects.live \in Nat /\ timers.live \in Nat
    BY <1>1, OpNumbers
  <2>3. /\ resolves.live = (IF m_state = "resolving" THEN 1 ELSE 0)
        /\ connects.live = (IF m_state = "connecting" THEN 1 ELSE 0)
        /\ timers.live = (IF m_state = "timeout" THEN 1 ELSE 0)
    BY <1>1, <2>1, <2>2 DEF Inv, Operations, Waiting
  <2>4. open = (IF m_state = "connected" THEN {m_io_handler} ELSE {})
    BY <1>1, <2>1 DEF Inv, Operations, Waiting, Connection
  <2> QED
    BY <2>3, <2>4 DEF StateHasItsOperation
<1>2. Types /\ InvOnce => StateHasItsOperation
  BY <1>1 DEF InvOnce, StateHasItsOperation
<1> QED
  BY <1>2, Invariant, PTL

\* The application is told of the connections one after the other, whatever
\* thread ends them, as long as close stopped every tcp_io once: after
\* handle_connect's true comes notify_me's false.
THEOREM ConnectionsOneByOne == ASSUME NoOverlap PROVE Spec => []ConnectionsInTurn
<1>1. ASSUME Types, Inv PROVE ConnectionsInTurn
  <2>1. ups \in Nat /\ downs \in Nat
    BY <1>1 DEF Types
  <2>2. CASE \A t \in Threads : ~Midway(t)
    BY <1>1, <2>1, <2>2 DEF Inv, Waiting, ConnectionsInTurn
  <2>3. ASSUME NEW t \in Threads, Midway(t) PROVE ConnectionsInTurn
    <3>1. ~Resting
      BY <2>3, SomeThreads DEF Resting, Midway, StopsIo
    <3>2. t # Run => pc[t] \notin {"close", "close_io"}
      BY <1>1 DEF Inv, Places, Threads
    <3>3. ups = downs \/ ups = downs + 1
      <4>1. CASE t = Run /\ StopsIo
        BY <1>1, <4>1 DEF Inv, AtSteps
      <4>2. CASE pc[t] \in {"shut", "notify", "decide"}
        BY <1>1, <2>1, <4>2 DEF Inv, AtSteps
      <4>3. CASE pc[t] \in {"start_connect", "finish_close"}
        BY <1>1, <4>3 DEF Inv, AtSteps
      <4>4. CASE t = Run /\ pc[t] \in {"close", "close_io"}
        BY <1>1, <2>1, <4>4 DEF Inv, AtSteps
      <4> QED
        BY <2>3, <3>2, <4>1, <4>2, <4>3, <4>4 DEF Midway
    <3> QED
      BY <2>1, <3>1, <3>3 DEF ConnectionsInTurn
  <2> QED
    BY <2>2, <2>3
<1>2. Types /\ InvOnce => ConnectionsInTurn
  BY <1>1 DEF InvOnce, ConnectionsInTurn
<1> QED
  BY <1>2, Invariant, PTL

\* tcp_connector_closed is the last report, as long as close stopped every
\* tcp_io once: neither a cancelled handler nor a notify_me that comes after it
\* makes the connector report or connect again.
THEOREM NothingAfterClosed == ASSUME NoOverlap PROVE Spec => ClosedIsLast
<1>1. ASSUME Types, InvOnce, [Next]_vars, closed_told > 0, ClosedOnce'
      PROVE  UNCHANGED <<report, closed_told, ups, downs, tries>>
  <2>1. Inv
    BY <1>1, AgainStep DEF InvOnce
  <2>2. /\ m_state = "stopped"
        /\ \A t \in Threads :
             pc[t] \in {"idle", "state_chg", "posted_done", "close"} \cup InIo
    BY <1>1, <2>1 DEF Inv, Ended
  <2>3. ~DoStart
    <3>1. DoStart => NotBegun
      BY <2>1, SomeThreads DEF DoStart, Posted, NotBegun, Inv, Places
    <3>2. closed_told \in Nat
      BY <1>1 DEF Types
    <3> QED
      BY <1>1, <2>1, <3>1, <3>2 DEF Inv, Fresh
  <2>4. ASSUME NEW t \in Threads, MethodStep(t)
        PROVE  UNCHANGED <<report, closed_told, ups, downs, tries>>
    BY <2>2, <2>4 DEF MethodStep, RemoteEndpoint, StopIoMark, IoClose, IoShut, Notify, Decide,
       StartConnect, FinishClose, history, InIo
  <2>5. CASE RunStep
    BY <2>2, <2>3, <2>4, <2>5, SomeThreads DEF RunStep, Close, CloseAgain, CloseIo,
       CallbackReturns, DoStop, EndOfPosted, ResolveDone, ResolveFails, LateConnect,
       ConnectDone, ConnectFails, TimerDone, control, history, InIo
  <2>6. CASE \E t \in Users : MethodStep(t)
    BY <2>4, <2>6, SomeThreads
  <2>7. CASE \E t \in Threads, h \in Handlers : StartIo(t, h) \/ StopIo(t, h)
    BY <2>7 DEF StartIo, StopIo, history
  <2>8. CASE \E h \in Handlers : IoFails(h)
    BY <2>8 DEF IoFails, history
  <2>9. CASE \E t \in Callers : CallerStep(t) \/ CallerGoesOn(t)
    BY <2>9 DEF CallerStep, CallerGoesOn, history
  <2>10. CASE UNCHANGED vars
    BY <2>10 DEF vars, history
  <2> QED
    BY <1>1, <2>5, <2>6, <2>7, <2>8, <2>9, <2>10 DEF Next
<1>2. Types /\ InvOnce /\ [Next]_vars
        => [closed_told > 0 /\ ClosedOnce'
              => UNCHANGED <<report, closed_told, ups, downs, tries>>]_vars
  BY <1>1
<1> QED
  BY <1>2, Invariant, PTL DEF Spec, ClosedIsLast

-----------------------------------------------------------------------------
(* Giving up.                                                              *)

\* A step that counts nothing.
LEMMA CountsKept ==
    ASSUME Counting, GivingUp,
           UNCHANGED <<tries, failures, m_conn_attempts, asked, answer, m_timeout_func>>,
           m_state' = m_state \/ m_state' \in {"closing", "stopped"},
           connects'.live > 0 => connects.live > 0,
           ret'[Run] = "state_chg" <=> ret[Run] = "state_chg",
           pc[Run] = "close" => pc'[Run] = "close" \/ m_state' \in {"closing", "stopped"}
    PROVE  Counting' /\ GivingUp'
<1>1. Counting'
  BY DEF Counting
<1>2. Ending => Ending'
  BY DEF Ending
<1>3. GivingUp'
  BY <1>2 DEF GivingUp
<1> QED
  BY <1>1, <1>3

LEMMA AttemptsAreNumbers ==
    ASSUME Types
    PROVE  /\ m_timeout_func \in FuncObjects /\ m_timeout_func.max_attempts \in Nat
           /\ m_conn_attempts \in Nat /\ failures \in Nat /\ asked \in Nat /\ tries \in Nat
           /\ connects \in OpCounts /\ connects.live \in Nat /\ connects.cancelled \in Nat
           /\ Run \in Threads
<1>1. m_timeout_func \in FuncObjects
  BY TcpConnectorAssumption DEF Types
<1>2. m_timeout_func.max_attempts \in Nat
  BY <1>1 DEF FuncObjects
<1>3. tries \in Nat
  BY TcpConnectorAssumption DEF Types
<1> QED
  BY <1>1, <1>2, <1>3, OpNumbers, SomeThreads DEF Types

LEMMA StartConnectCounts ==
    ASSUME Types, Inv, Counting, GivingUp, NEW t \in Threads, StartConnect(t)
    PROVE  Counting' /\ GivingUp'
<1> USE AttemptsAreNumbers
<1>1. /\ pc[t] = "start_connect" /\ tries' = tries + 1 /\ m_state' = "connecting"
      /\ m_conn_attempts' = m_conn_attempts + 1
      /\ UNCHANGED <<m_timeout_func, ret, failures, asked, answer>>
  BY DEF StartConnect, made
<1>2. pc[Run] # "close"
  BY <1>1 DEF Inv, Alone, Midway
<1>3. /\ m_state \in {"resolving", "timeout", "connected"} \/ (m_state = "stopped" /\ tries = 0)
      /\ m_state = "resolving" => tries = 0
  BY <1>1 DEF Inv, AtSteps
<1>4. ret[Run] # "state_chg" => m_conn_attempts' \in {failures, failures + 1}
  BY <1>1, <1>3 DEF Counting
<1>5. Counting'
  BY <1>1, <1>4 DEF Counting
<1>6. ~(asked > 0 /\ answer = NoValue) \/ m_timeout_func.type # "counted_timeout"
  BY <1>2, <1>3 DEF Counting, GivingUp, Ending
<1>7. m_timeout_func.type = "counted_timeout" => failures <= m_timeout_func.max_attempts + 1
  BY <1>2, <1>3 DEF Counting, GivingUp, Ending
<1> QED
  BY <1>1, <1>5, <1>6, <1>7 DEF GivingUp

LEMMA ConnectDoneCounts ==
    ASSUME Types, Inv, Counting, GivingUp, ConnectDone
    PROVE  Counting' /\ GivingUp'
<1> USE AttemptsAreNumbers
<1>1. /\ pc[Run] = "idle" /\ m_state = "connecting" /\ m_state' = "connected" /\ failures' = 0
      /\ ret' = [ret EXCEPT ![Run] = "state_chg"]
      /\ UNCHANGED <<m_timeout_func, m_conn_attempts, tries, asked, answer>>
  BY DEF ConnectDone, made
<1>2. ret'[Run] = "state_chg"
  BY <1>1 DEF Types
<1>3. tries > 0
  BY <1>1 DEF Inv
<1>4. Counting'
  BY <1>1, <1>2, <1>3 DEF Counting
<1> QED
  BY <1>1, <1>4 DEF GivingUp, Ending

LEMMA ConnectFailsCounts ==
    ASSUME Types, Inv, Counting, GivingUp, ConnectFails
    PROVE  Counting' /\ GivingUp'
<1> USE AttemptsAreNumbers
<1>1. /\ pc[Run] = "idle" /\ m_state = "connecting"
      /\ failures' = failures + 1 /\ asked' = m_conn_attempts
      /\ answer' \in Timeout(m_timeout_func, m_conn_attempts)
      /\ UNCHANGED <<m_timeout_func, m_conn_attempts, ret, tries>>
      /\ \/ Goto(Run, "close") /\ m_state' = m_state
         \/ answer' # NoValue /\ m_state' = "timeout"
  BY DEF ConnectFails, made
<1>2. pc'[Run] = "close" \/ (answer' # NoValue /\ m_state' = "timeout")
  BY <1>1, Going
<1>3. ret[Run] = "idle" /\ tries > 0
  BY <1>1 DEF Inv, Places, Types
<1>4. connects.live > 0 /\ connects'.live = 0
  <2>1. connects.cancelled = 0 /\ connects.live <= 1
    BY <1>1 DEF Inv, Operations
  <2>2. connects["live"] = connects.live /\ connects["cancelled"] = connects.cancelled
    BY CountCompleted
  <2>3. connects.live > 0 /\ connects' = Completed(connects, "live")
    BY <2>1, <2>2 DEF ConnectFails
  <2> QED
    BY <2>1, <2>3, CountCompleted
<1>5. m_conn_attempts \in {failures, failures + 1}
  BY <1>3, <1>4 DEF Counting
<1>6. Counting'
  BY <1>1, <1>3, <1>4, <1>5 DEF Counting
<1>7. ASSUME m_timeout_func.type = "counted_timeout"
      PROVE  answer' = NoValue <=> m_conn_attempts > m_timeout_func.max_attempts
  BY <1>1, <1>7 DEF Timeout, Counted, NoValue, Millis
<1>8. m_timeout_func.type = "counted_timeout" => failures <= m_timeout_func.max_attempts + 1
  BY <1>1 DEF GivingUp, Ending
<1>9. GivingUp'
  BY <1>1, <1>2, <1>5, <1>7, <1>8 DEF GivingUp, Ending
<1> QED
  BY <1>6, <1>9

LEMMA CallbackReturnsCounts ==
    ASSUME Types, Inv, Counting, GivingUp, CallbackReturns
    PROVE  Counting' /\ GivingUp'
<1> USE AttemptsAreNumbers
<1>1. /\ pc[Run] = "state_chg" /\ m_conn_attempts' = 0
      /\ ret' = [ret EXCEPT ![Run] = "idle"] /\ Goto(Run, "idle")
      /\ UNCHANGED <<m_timeout_func, m_state, connects, tries, failures, asked, answer>>
  BY DEF CallbackReturns, made, ops, history
<1>2. ret[Run] = "state_chg" /\ failures = 0
  BY <1>1 DEF Inv, Places, Types, Counting
<1>3. Counting'
  BY <1>1, <1>2 DEF Counting
<1>4. Ending' <=> Ending
  BY <1>1, Going DEF Ending
<1> QED
  BY <1>1, <1>3, <1>4 DEF GivingUp

LEMMA DoStartCounts ==
    ASSUME Types, Inv, Counting, GivingUp, DoStart
    PROVE  Counting' /\ GivingUp'
<1> USE AttemptsAreNumbers
<1>1. /\ pc[Run] = "idle" /\ ret' = [ret EXCEPT ![Run] = "posted_done"]
      /\ UNCHANGED <<m_timeout_func, m_conn_attempts, connects, tries, failures, asked, answer>>
      /\ m_state' \in {m_state, "resolving"}
  BY DEF DoStart, made
<1>2. tries = 0 /\ failures = 0 /\ asked = 0 /\ m_state = "stopped" /\ m_conn_attempts = 0
  <2>1. NotBegun
    BY <1>1 DEF DoStart, Posted, NotBegun, Inv, Places
  <2> QED
    BY <2>1 DEF Inv, Fresh
<1>3. ret'[Run] = "posted_done"
  BY <1>1 DEF Types
<1>4. connects.live = 0
  BY <1>2 DEF Types
<1>5. Counting'
  BY <1>1, <1>2, <1>3, <1>4 DEF Counting
<1> QED
  BY <1>1, <1>2, <1>5 DEF GivingUp

\* The steps of a method but start_connect count nothing.
LEMMA MethodCounts ==
    ASSUME Types, Counting, GivingUp, NEW t \in Threads, MethodStep(t), ~StartConnect(t)
    PROVE  Counting' /\ GivingUp'
<1> USE SomeThreads
<1>1. /\ UNCHANGED <<tries, failures, m_conn_attempts, asked, answer, m_timeout_func>>
      /\ UNCHANGED <<connects, ret>>
      /\ m_state' \in {m_state, "stopped"} /\ pc[t] # "close"
  BY DEF MethodStep, RemoteEndpoint, StopIoMark, IoClose, IoShut, Notify, Decide, FinishClose,
     made, entity, ops, history
<1>2. \A u \in Threads : u # t => pc'[u] = pc[u]
  BY Going, Returning DEF MethodStep, RemoteEndpoint, StopIoMark, IoClose, IoShut, Notify,
     Decide, FinishClose
<1>3. pc[Run] = "close" => pc'[Run] = "close"
  BY <1>1, <1>2
<1> QED
  BY <1>1, <1>3, CountsKept

\* The other steps count nothing.
LEMMA OtherCounts ==
    ASSUME Types, Inv, Counting, GivingUp, [Next]_vars,
           \A t \in Threads : ~StartConnect(t),
           ~ConnectDone, ~ConnectFails, ~CallbackReturns, ~DoStart
    PROVE  Counting' /\ GivingUp'
<1> USE AttemptsAreNumbers, SomeThreads
<1> DEFINE Counts == <<tries, failures, m_conn_attempts, asked, answer, m_timeout_func>>
<1>1. CASE \E t \in Threads : MethodStep(t)
  BY <1>1, MethodCounts
<1>2. CASE Close
  <2>1. connects'.live = 0
    BY <1>2, CountCancelled DEF Close
  <2> QED
    BY <1>2, <2>1, CountsKept DEF Close, made
<1>3. CASE CloseAgain
  BY <1>3, CountsKept DEF CloseAgain, made, entity, ops, history
<1>4. CASE CloseIo
  BY <1>4, CountsKept DEF CloseIo, made, entity, ops, history
<1>5. CASE DoStop \/ EndOfPosted
  <2>1. /\ UNCHANGED Counts /\ UNCHANGED <<m_state, connects>>
        /\ pc[Run] # "close" /\ ret[Run] # "state_chg"
        /\ ret' = [ret EXCEPT ![Run] = "posted_done"] \/ ret' = [ret EXCEPT ![Run] = "idle"]
    BY <1>5 DEF DoStop, EndOfPosted, entity, made, ops, history, Inv, Places, Types
  <2>2. ret'[Run] # "state_chg"
    BY <2>1 DEF Types
  <2> QED
    BY <2>1, <2>2, CountsKept
<1>6. CASE ResolveDone \/ ResolveFails
  BY <1>6, CountsKept DEF ResolveDone, ResolveFails, made, entity, history
<1>7. CASE LateConnect
  <2>1. connects.live = 0 /\ connects.cancelled > 0 /\ connects' = Completed(connects, "cancelled")
    <3>1. connects["live"] = connects.live /\ connects["cancelled"] = connects.cancelled
      BY CountCompleted
    <3>2. connects.live = 0
      BY <1>7 DEF LateConnect, Inv, Operations
    <3> QED
      BY <1>7, <3>1, <3>2 DEF LateConnect
  <2>2. connects'.live = 0
    BY <2>1, CountCompleted
  <2> QED
    BY <1>7, <2>2, CountsKept DEF LateConnect, made, entity, control, history
<1>8. CASE TimerDone
  BY <1>8, CountsKept DEF TimerDone, made, entity, history
<1>9. ASSUME NEW t \in Threads, NEW h \in Handlers, StartIo(t, h) \/ StopIo(t, h)
      PROVE  Counting' /\ GivingUp'
  <2>1. UNCHANGED Counts /\ UNCHANGED <<m_state, connects, ret>> /\ pc[t] # "close"
    BY <1>9 DEF StartIo, StopIo, MayCall, made, entity, ops, history
  <2>2. \A u \in Threads : u # t => pc'[u] = pc[u]
    BY <1>9, Going DEF StartIo, StopIo, StopIoBegins
  <2> QED
    BY <2>1, <2>2, CountsKept
<1>10. CASE \E h \in Handlers : IoFails(h)
  BY <1>10, CountsKept DEF IoFails, made, entity, ops, history
<1>11. CASE \E t \in Callers : CallerStep(t) \/ CallerGoesOn(t)
  BY <1>11, CountsKept DEF CallerStep, CallerGoesOn, made, entity, ops, control, history
<1>12. CASE UNCHANGED vars
  BY <1>12, CountsKept DEF vars, made, entity, ops, control, history
<1> QED
  BY <1>1, <1>2, <1>3, <1>4, <1>5, <1>6, <1>7, <1>8, <1>9, <1>10, <1>11, <1>12
     DEF Next, RunStep

CountedOnce == ClosedOnce => Counting /\ GivingUp

\* With a counted_timeout the connector gives up when it should, for every
\* maximum and every order of failures, connections and lost connections, as
\* long as close stopped every tcp_io once.
THEOREM GivesUpInTime == ASSUME NoOverlap PROVE Spec => []GivesUp
<1>1. Init => CountedOnce
  <2>1. ASSUME Init PROVE Counting /\ GivingUp
    <3>1. tries = 0 /\ m_conn_attempts = 0 /\ failures = 0 /\ asked = 0 /\ connects.live = 0
          /\ m_state = "stopped"
      BY <2>1 DEF Init, NoOps
    <3> QED
      BY <2>1, <3>1, TypeInit, AttemptsAreNumbers DEF Counting, GivingUp
  <2> QED
    BY <2>1 DEF CountedOnce
<1>2. Types /\ InvOnce /\ CountedOnce /\ [Next]_vars => CountedOnce'
  <2> SUFFICES ASSUME Types, InvOnce, CountedOnce, [Next]_vars, ClosedOnce'
               PROVE  Counting' /\ GivingUp'
    BY DEF CountedOnce
  <2>1. Inv /\ Counting /\ GivingUp
    BY AgainStep DEF InvOnce, CountedOnce
  <2> QED
    BY <2>1, StartConnectCounts, ConnectDoneCounts, ConnectFailsCounts,
       CallbackReturnsCounts, DoStartCounts, OtherCounts
<1>3. CountedOnce => GivesUp
  BY DEF CountedOnce, GivingUp, GivesUp
<1> QED
  BY <1>1, <1>2, <1>3, Invariant, PTL DEF Spec

-----------------------------------------------------------------------------
(* Delays.                                                                 *)

\* The delays of MaxTries attempts can be computed without overflow.  (That a
\* power is not below its base is said because the provers know nothing of ^.)
Fits(f) ==
    /\ f.initial_ticks <= f.max_ticks
    /\ f.type = "backoff_timeout" =>
         f.scale_factor > 0 /\ MaxTries * (f.scale_factor * f.initial_ticks) < TickLimit
    /\ f.type = "exponential_backoff_timeout" =>
         \A n \in 1..MaxTries : LET power == f.initial_ticks ^ n
                                IN  power \in f.initial_ticks .. TickLimit - 1

\* what the timeout function was asked and has answered
Asked ==
    /\ m_conn_attempts <= tries /\ asked <= tries
    /\ asked > 0 => answer \in Timeout(m_timeout_func, asked)

InRange(f, n) == f.initial_ticks <= n /\ n <= f.max_ticks

LEMMA Products ==
    ASSUME NEW k \in Nat, NEW m \in Nat, NEW x \in Nat, k <= m
    PROVE  k * x \in Nat /\ k * x <= m * x /\ (k > 0 => x <= k * x)
<1>1. m * x = k * x + (m - k) * x /\ m - k \in Nat
  OBVIOUS
<1>2. \A a \in Nat : a * x \in Nat
  OBVIOUS
<1>3. ASSUME k > 0 PROVE x <= k * x
  <2>1. k * x = x + (k - 1) * x /\ k - 1 \in Nat
    BY <1>3
  <2> QED
    BY <1>2, <2>1
<1> QED
  BY <1>1, <1>2, <1>3

LEMMA BackoffInRange ==
    ASSUME NEW f \in FuncObjects, NEW n \in 1..MaxTries, f.type = "backoff_timeout", Fits(f)
    PROVE  \A d \in Backoff(f, n) : InRange(f, d)
<1> DEFINE x == f.scale_factor * f.initial_ticks
           p == (n - 1) * f.scale_factor * f.initial_ticks
<1> USE TcpConnectorAssumption, TickAssumption
<1>1. /\ f.initial_ticks \in Nat /\ f.max_ticks \in Nat /\ f.scale_factor \in Nat \ {0}
      /\ f.initial_ticks <= f.max_ticks /\ f.max_ticks < TickLimit /\ MaxTries * x < TickLimit
  BY DEF Fits, FuncObjects, Ticks
<1>2. x \in Nat /\ f.initial_ticks <= x
  BY <1>1, Products
<1>3. p = (n - 1) * x
  BY <1>1
<1>4. p \in Nat /\ p <= MaxTries * x /\ (n - 1 > 0 => x <= p)
  <2>1. n - 1 \in Nat /\ n - 1 <= MaxTries /\ MaxTries \in Nat
    OBVIOUS
  <2> QED
    BY <1>2, <1>3, <2>1, Products
<1>5. p < TickLimit
  <2>1. MaxTries * x \in Nat
    BY <1>2, Products
  <2> HIDE DEF x, p
  <2> QED
    BY <1>1, <1>4, <2>1
<1>6. n = 1 => p = 0
  BY <1>2, <1>3
<1> HIDE DEF p, x
<1>7. p % (2 * TickLimit) = p /\ p \in Ticks
  BY <1>4, <1>5 DEF Ticks
<1>8. Signed(p) = p
  BY <1>7 DEF Signed
<1>9. Backoff(f, n) = Millis(IF p = 0 THEN f.initial_ticks ELSE Capped(f, p))
  BY <1>8 DEF Backoff, p
<1>10. p # 0 => f.initial_ticks <= p
  BY <1>1, <1>2, <1>4, <1>6
<1> QED
  BY <1>1, <1>4, <1>9, <1>10 DEF Millis, Capped, InRange

LEMMA FittingInRange ==
    ASSUME NEW f \in FuncObjects, NEW n \in 1..MaxTries, Fits(f), NEW a \in Timeout(f, n)
    PROVE  \A d \in a : InRange(f, d)
<1>1. /\ f.initial_ticks \in Nat /\ f.max_ticks \in Nat /\ f.initial_ticks <= f.max_ticks
      /\ f.type \in {"simple_timeout", "counted_timeout", "backoff_timeout",
                     "exponential_backoff_timeout", "application"}
  BY DEF FuncObjects, Fits
<1>2. InRange(f, f.initial_ticks)
  BY <1>1 DEF InRange
<1>3. CASE f.type \in {"simple_timeout", "counted_timeout", "application"}
  BY <1>2, <1>3 DEF Timeout, Simple, Counted, NoValue, Millis
<1>4. CASE f.type = "backoff_timeout"
  BY <1>4, BackoffInRange DEF Timeout
<1>5. CASE f.type = "exponential_backoff_timeout"
  <2> DEFINE power == f.initial_ticks ^ n
  <2>1. power \in f.initial_ticks .. TickLimit - 1
    BY <1>5 DEF Fits
  <2> HIDE DEF power
  <2>2. power \in Ticks /\ InRange(f, Capped(f, power))
    BY <1>1, <2>1, TickAssumption DEF Ticks, Capped, InRange
  <2>3. a = Millis(Capped(f, power))
    BY <1>5, <2>2 DEF Timeout, Exponential, Truncated, power
  <2> QED
    BY <2>2, <2>3 DEF Millis
<1> QED
  BY <1>1, <1>3, <1>4, <1>5

LEMMA AskedStep ==
    ASSUME Types, Asked, [Next]_vars
    PROVE  Asked'
<1> USE AttemptsAreNumbers, SomeThreads
<1>1. CASE ConnectFails
  BY <1>1 DEF Asked, ConnectFails, made
<1>2. CASE ~ConnectFails
  <2>1. UNCHANGED <<m_timeout_func, asked, answer>>
    BY <1>2, AnswerKept
  <2>2. m_conn_attempts' <= tries' /\ tries <= tries'
    <3>1. ASSUME NEW t \in Threads, MethodStep(t)
          PROVE  m_conn_attempts' <= tries' /\ tries <= tries'
      BY <3>1 DEF Asked, MethodStep, RemoteEndpoint, StopIoMark, IoClose, IoShut, Notify,
         Decide, StartConnect, FinishClose, entity, made, history
    <3>2. CASE RunStep
      BY <1>2, <3>1, <3>2 DEF Asked, RunStep, Close, CloseAgain, CloseIo, CallbackReturns,
         DoStart, DoStop, EndOfPosted, ResolveDone, ResolveFails, LateConnect, ConnectDone,
         TimerDone, entity, made, history
    <3>3. CASE \E t \in Users : MethodStep(t)
      BY <3>1, <3>3
    <3>4. CASE \E t \in Threads, h \in Handlers : StartIo(t, h) \/ StopIo(t, h)
      BY <3>4 DEF Asked, StartIo, StopIo, entity, made, history
    <3>5. CASE \E h \in Handlers : IoFails(h)
      BY <3>5 DEF Asked, IoFails, entity, made, history
    <3>6. CASE \E t \in Callers : CallerStep(t) \/ CallerGoesOn(t)
      BY <3>6 DEF Asked, CallerStep, CallerGoesOn, entity, made, history
    <3>7. CASE UNCHANGED vars
      BY <3>7 DEF Asked, vars, entity, made, history
    <3> QED
      BY <3>2, <3>3, <3>4, <3>5, <3>6, <3>7 DEF Next
  <2>3. tries' \in Nat
    BY TypesStep, TcpConnectorAssumption DEF Types
  <2> QED
    BY <2>1, <2>2, <2>3 DEF Asked
<1> QED
  BY <1>1, <1>2

\* No delay is shorter than the first or longer than the maximum, whichever
\* function computes it, as long as it computes without overflow.
THEOREM DelaysInRange == Spec => [](Fits(m_timeout_func) => DelayInRange)
<1>1. Init => Types /\ Asked
  BY TypeInit DEF Init, Asked
<1>2. Types /\ Asked /\ [Next]_vars => (Types /\ Asked)'
  BY TypesStep, AskedStep
<1>3. ASSUME Types, Asked, Fits(m_timeout_func) PROVE DelayInRange
  <2>1. tries <= MaxTries
    BY <1>3, TcpConnectorAssumption DEF Types
  <2>2. asked > 0 => asked \in 1..MaxTries /\ answer \in Timeout(m_timeout_func, asked)
    BY <1>3, <2>1, AttemptsAreNumbers, TcpConnectorAssumption DEF Asked
  <2> QED
    BY <1>3, <2>2, AttemptsAreNumbers, FittingInRange DEF DelayInRange, InRange
<1>4. Types /\ Asked => (Fits(m_timeout_func) => DelayInRange)
  BY <1>3
<1> QED
  BY <1>1, <1>2, <1>4, PTL DEF Spec

=============================================================================
