----------------------------- MODULE TcpIo_proofs -----------------------------
(***************************************************************************)
(* What tcp_io does with its io_common, in all its threads together, is    *)
(* what IoCommon allows: every step of TcpIo is a step of IoCommon or one  *)
(* that it does not see.  The theorems of IoCommon_proofs then hold in     *)
(* TcpIo.                                                                  *)
(***************************************************************************)
EXTENDS TcpIo, FiniteSetTheorems, TLAPS

IP == INSTANCE IoCommon_proofs

\* start_io, stop_io and close use io_common only through its methods.
LEMMA MethodStep ==
    ASSUME NEW t \in Threads, Step(t) \/ Call(t)
    PROVE  [IC!Next]_(IC!ioVars)
<1>1. CASE StartIo(t)
  BY <1>1 DEF StartIo, IC!Next
<1>2. CASE Send(t)
  BY <1>2 DEF Send, IC!Next
<1>3. CASE StopIoMark(t) \/ CloseStop(t) \/ CloseClear(t)
  BY <1>3 DEF StopIoMark, CloseStop, CloseClear, IC!Next
<1>4. CASE RemoteEndpoint(t) \/ StartIoRead(t) \/ StopIo(t) \/ CloseSocket(t) \/ CloseNotify(t)
  BY <1>4 DEF RemoteEndpoint, StartIoRead, StopIo, CloseSocket, CloseNotify, io, IC!ioVars
<1> QED
  BY <1>1, <1>2, <1>3, <1>4 DEF Step, Call

\* So do the completion handlers.
LEMMA HandlerStep ==
    ASSUME Dispatch \/ MessageTrue \/ MessageFalse \/ PeerGone
    PROVE  [IC!Next]_(IC!ioVars)
<1>1. CASE WriteDone \/ WriteFails
  BY <1>1 DEF WriteDone, WriteFails, IC!Next
<1>2. CASE HandleMessage \/ HandlePart \/ PostedClose \/ ReadFails
           \/ MessageTrue \/ MessageFalse \/ PeerGone
  BY <1>2 DEF HandleMessage, HandlePart, PostedClose, ReadFails, MessageTrue,
     MessageFalse, PeerGone, io, IC!ioVars
<1> QED
  BY <1>1, <1>2 DEF Dispatch

\* tcp_io uses io_common as IoCommon says it may be used: any interleaving of
\* start_io, stop_io, send, close and the handlers is a behaviour of IoCommon.
THEOREM UsesIoCommon == Spec => IC!Spec
<1>1. Init => IC!Init
  BY DEF Init
<1>2. [Next]_vars => [IC!Next]_(IC!ioVars)
  <2>1. CASE UNCHANGED vars
    BY <2>1 DEF vars, io, IC!ioVars
  <2> QED
    BY <2>1, MethodStep, HandlerStep DEF Next
<1> QED
  BY <1>1, <1>2, PTL DEF Spec, IC!Spec

\* IC and IP are two instances of the same definitions.
LEMMA SameIoCommon == IC!Spec => IP!Spec
<1>1. IC!Init => IP!Init
  BY DEF IC!Init, IP!Init, IC!QueueInit, IP!QueueInit
<1>2. IC!Next => IP!Next
  BY DEF IC!Next, IP!Next, IC!SetIoStarted, IP!SetIoStarted, IC!SetIoStopped,
     IP!SetIoStopped, IC!Clear, IP!Clear, IC!DoClear, IP!DoClear, IC!QueueClear,
     IP!QueueClear, IC!StartWrite, IP!StartWrite, IC!StartWriteStopped,
     IP!StartWriteStopped, IC!StartWriteQueued, IP!StartWriteQueued,
     IC!StartWriteStarted, IP!StartWriteStarted, IC!AddElement, IP!AddElement,
     IC!HandOver, IP!HandOver, IC!WriteNextElem, IP!WriteNextElem,
     IC!WriteNextStopped, IP!WriteNextStopped, IC!WriteNextIdle, IP!WriteNextIdle,
     IC!WriteNextQueued, IP!WriteNextQueued, IC!GetNextElement, IP!GetNextElement,
     IC!WriteFailed, IP!WriteFailed
<1>3. IC!ioVars = IP!ioVars
  BY DEF IC!ioVars, IP!ioVars
<1>4. [IC!Next]_(IC!ioVars) => [IP!Next]_(IP!ioVars)
  BY <1>2, <1>3 DEF IC!ioVars, IP!ioVars
<1> QED
  BY <1>1, <1>4, PTL DEF IC!Spec, IP!Spec

\* Whatever threads send, stop and fail, what waits in the queue of a
\* connection is the latest buffers in their order, and waits behind a write.
THEOREM QueueIsSound == Spec => [](IC!QueueWaitsForWrite /\ IC!QueueIsBacklog)
<1>1. IP!QueueAssumption
  BY TcpIoAssumption DEF IP!QueueAssumption
<1>2. IP!Spec => [](IP!QueueWaitsForWrite /\ IP!QueueIsBacklog)
  BY <1>1, IP!NothingOvertakes, IP!BacklogKept, PTL
<1>3. IP!QueueWaitsForWrite /\ IP!QueueIsBacklog
      => IC!QueueWaitsForWrite /\ IC!QueueIsBacklog
  BY DEF IC!QueueWaitsForWrite, IP!QueueWaitsForWrite, IC!QueueIsBacklog,
     IP!QueueIsBacklog
<1> QED
  BY <1>2, <1>3, UsesIoCommon, SameIoCommon, PTL

\* send of a connection keeps the promise of SendStream: buffers are handed to
\* the socket in the order of the send calls, each at most once, until the
\* handler is stopped.
THEOREM SendsInOrder == Spec => SendOrder
<1>1. IP!QueueAssumption
  BY TcpIoAssumption DEF IP!QueueAssumption
<1>2. IP!Spec => IP!SendOrder
  BY <1>1, IP!ImplementsSendOrder, PTL
<1>3. IP!SendOrder => IC!SendOrder
  <2>1. IP!Stream!Init => IC!Stream!Init
    BY DEF IP!Stream!Init, IC!Stream!Init
  <2>2. [IP!Stream!Next]_(IP!Stream!streamVars) => [IC!Stream!Next]_(IC!Stream!streamVars)
    BY DEF IP!Stream!Next, IC!Stream!Next, IP!Stream!Accept, IC!Stream!Accept,
       IP!Stream!AcceptAndHand, IC!Stream!AcceptAndHand, IP!Stream!HandNext,
       IC!Stream!HandNext, IP!Stream!GiveUp, IC!Stream!GiveUp, IP!Stream!Pending,
       IC!Stream!Pending, IP!Stream!streamVars, IC!Stream!streamVars
  <2> QED
    BY <2>1, <2>2, PTL DEF IP!SendOrder, IC!SendOrder, IP!Stream!Spec, IC!Stream!Spec
<1> QED
  BY <1>2, <1>3, UsesIoCommon, SameIoCommon, PTL DEF SendOrder

-----------------------------------------------------------------------------
(* Types.                                                                  *)

Steps == {"idle", "msg_hdlr", "endpoint", "read", "mark", "close", "clear", "shut", "notify"}

\* what TypeOK says of tcp_io's own state
LocalType ==
    /\ socket \in {"open", "closed"}
    /\ peer \in {"up", "gone"}
    /\ reads \in Nat /\ deadReads \in Nat /\ posted \in Nat
    /\ notified \in Nat /\ late \in Nat
    /\ deadWrites \subseteq writing
    /\ pc \in [Threads -> Steps]
    /\ ret \in {"idle", "msg_hdlr"}

-----------------------------------------------------------------------------
(* The asynchronous writes.                                                *)

\* a close is past set_io_stopped and has not closed the socket yet
Shutting == \E t \in Threads : pc[t] \in {"clear", "shut"}

\* Until a close is that far nothing has cleared the flag under a write.
WriteInv ==
    socket = "open" /\ ~Shutting =>
      /\ ~io_started => writing = {}
      /\ ~write_in_progress => writing = {}
      /\ \A v, w \in writing : v = w

-----------------------------------------------------------------------------
(* The reads.                                                              *)

\* Either the one start_io under way, an outstanding read or the message
\* handler holds the right to start the next read.
ReadChain ==
    /\ starts \in Nat /\ starts <= MaxStarts
    /\ reads + deadReads <= 1
    /\ starts = 0 => reads + deadReads = 0 /\ ret = "idle"
    /\ ret = "msg_hdlr" => reads + deadReads = 0
    /\ \A t \in Threads :
         /\ pc[t] = "msg_hdlr" => t = Run /\ ret = "msg_hdlr"
         /\ pc[t] \in {"endpoint", "read"} =>
              /\ starts # 0 /\ reads + deadReads = 0 /\ ret = "idle"
              /\ \A u \in Threads : pc[u] \in {"endpoint", "read"} => u = t

\* A late message was read before the socket was closed; no read that can
\* succeed is started after that.
LateInv ==
    /\ late <= 1
    /\ late = 1 => reads = 0 /\ socket = "closed"
    /\ notified > 0 => socket = "closed"
    /\ \A t \in Threads : pc[t] = "notify" => socket = "closed"

-----------------------------------------------------------------------------
(* The steps.                                                              *)

\* where a method returns to
LEMMA Returning ==
    ASSUME pc \in [Threads -> Steps], ret \in {"idle", "msg_hdlr"}, NEW t \in Threads, Return(t)
    PROVE  /\ pc' \in [Threads -> Steps]
           /\ pc'[t] = IF t = Run THEN ret ELSE "idle"
           /\ \A u \in Threads : u # t => pc'[u] = pc[u]
  BY DEF Return, Goto, Steps

LEMMA Going ==
    ASSUME pc \in [Threads -> Steps], NEW t \in Threads, NEW s \in Steps, Goto(t, s)
    PROVE  /\ pc' \in [Threads -> Steps] /\ pc'[t] = s
           /\ \A u \in Threads : u # t => pc'[u] = pc[u]
  BY DEF Goto, Steps

LEMMA LocalTypeStep ==
    ASSUME LocalType, [Next]_vars
    PROVE  LocalType'
<1> USE TcpIoAssumption
<1>0. Run \in Threads /\ {"close", "msg_hdlr", "idle", "clear", "shut", "notify", "endpoint",
                          "read", "mark"} = Steps
  BY DEF Threads, Steps
<1>1. ASSUME NEW t \in Threads, Step(t) \/ Call(t) PROVE LocalType'
  <2>1. CASE StartIo(t) \/ StopIoMark(t) \/ CloseClear(t)
    <3>1. /\ UNCHANGED <<socket, peer, reads, deadReads, deadWrites, posted, ret, notified, late>>
          /\ writing' = writing /\ \E s \in Steps : Goto(t, s)
      BY <1>0, <2>1 DEF StartIo, StopIoMark, CloseClear, net, seen, IC!SetIoStarted, IC!Clear
    <3> QED
      BY <3>1, Going DEF LocalType
  <2>2. CASE StopIo(t)
    <3>1. /\ UNCHANGED <<socket, peer, reads, deadReads, deadWrites, posted, ret, notified, late>>
          /\ writing' = writing /\ (Goto(t, "close") \/ Goto(t, "mark"))
      BY <2>2 DEF StopIo, net, seen, io
    <3> QED
      BY <1>0, <3>1, Going DEF LocalType
  <2>3. CASE RemoteEndpoint(t)
    <3>1. /\ UNCHANGED <<socket, peer, reads, deadReads, deadWrites, posted, ret, notified, late>>
          /\ writing' = writing /\ (Goto(t, "close") \/ Goto(t, "read"))
      BY <2>3 DEF RemoteEndpoint, net, seen, io
    <3> QED
      BY <1>0, <3>1, Going DEF LocalType
  <2>4. CASE StartIoRead(t)
    <3>1. /\ UNCHANGED <<socket, peer, deadWrites, posted, ret, notified, late, writing>>
          /\ Return(t) /\ StartRead
      BY <2>4 DEF StartIoRead, seen, io
    <3> QED
      BY <3>1, Returning DEF LocalType, StartRead
  <2>5. CASE Send(t)
    <3>1. /\ UNCHANGED <<socket, peer, reads, deadReads, posted, pc, ret, notified, late>>
          /\ TrackWrites
      BY <2>5 DEF Send, control, seen
    <3> QED
      BY <3>1 DEF LocalType, TrackWrites
  <2>6. CASE CloseStop(t)
    <3>1. /\ UNCHANGED <<socket, peer, reads, deadReads, deadWrites, posted, ret, notified, late>>
          /\ writing' = writing /\ (Goto(t, "clear") \/ Return(t))
      BY <2>6 DEF CloseStop, net, seen, IC!SetIoStopped
    <3> QED
      BY <1>0, <3>1, Going, Returning DEF LocalType
  <2>7. CASE CloseSocket(t)
    <3>1. /\ UNCHANGED <<peer, reads, deadReads, deadWrites, posted, ret, notified, late, writing>>
          /\ socket' = "closed" /\ Goto(t, "notify")
      BY <2>7 DEF CloseSocket, seen, io
    <3> QED
      BY <1>0, <3>1, Going DEF LocalType
  <2>8. CASE CloseNotify(t)
    <3>1. /\ UNCHANGED <<socket, peer, reads, deadReads, deadWrites, posted, ret, late, writing>>
          /\ notified' = notified + 1 /\ Return(t)
      BY <2>8 DEF CloseNotify, net, io
    <3> QED
      BY <3>1, Returning DEF LocalType
  <2> QED
    BY <1>1, <2>1, <2>2, <2>3, <2>4, <2>5, <2>6, <2>7, <2>8 DEF Step, Call
<1>2. CASE HandleMessage
  <2>1. /\ UNCHANGED <<socket, peer, deadReads, deadWrites, posted, notified, writing>>
        /\ reads > 0 /\ reads' = reads - 1 /\ late' = (IF notified > 0 THEN late + 1 ELSE late)
        /\ ret' = "msg_hdlr" /\ Goto(Run, "msg_hdlr")
    BY <1>2 DEF HandleMessage, io
  <2> QED
    BY <1>0, <2>1, Going DEF LocalType
<1>3. CASE MessageTrue \/ MessageFalse
  <2>1. /\ UNCHANGED <<socket, peer, deadWrites, notified, late, writing>>
        /\ \/ StartRead /\ posted' = posted
           \/ posted' = posted + 1 /\ UNCHANGED <<reads, deadReads>>
        /\ ret' = "idle" /\ Goto(Run, "idle")
    BY <1>3 DEF MessageTrue, MessageFalse, io, seen
  <2> QED
    BY <1>0, <2>1, Going DEF LocalType, StartRead
<1>4. CASE HandlePart \/ PeerGone
  <2>1. /\ UNCHANGED <<socket, deadWrites, posted, notified, late, writing, pc, ret>>
        /\ reads' = reads \/ (reads > 0 /\ reads' = reads - 1)
        /\ deadReads' = deadReads \/ deadReads' = deadReads + 1
        /\ peer' = peer \/ peer' = "gone"
    BY <1>4 DEF HandlePart, PeerGone, io, seen, control
  <2> QED
    BY <2>1 DEF LocalType
<1>5. CASE PostedClose \/ ReadFails
  <2>1. /\ UNCHANGED <<socket, peer, deadWrites, notified, late, writing, ret>>
        /\ posted' = posted \/ (posted > 0 /\ posted' = posted - 1)
        /\ reads' = reads \/ (reads > 0 /\ reads' = reads - 1)
        /\ deadReads' = deadReads \/ (deadReads > 0 /\ deadReads' = deadReads - 1)
        /\ Goto(Run, "close")
    BY <1>5 DEF PostedClose, ReadFails, io, seen
  <2> QED
    BY <1>0, <2>1, Going DEF LocalType
<1>6. CASE WriteDone \/ WriteFails
  <2>1. /\ UNCHANGED <<socket, peer, reads, deadReads, posted, ret, notified, late>>
        /\ TrackWrites /\ (pc' = pc \/ Goto(Run, "close"))
    BY <1>6 DEF WriteDone, WriteFails, control, seen
  <2> QED
    BY <1>0, <2>1, Going DEF LocalType, TrackWrites
<1>7. CASE UNCHANGED vars
  BY <1>7 DEF vars, io, net, control, seen, LocalType
<1> QED
  BY <1>1, <1>2, <1>3, <1>4, <1>5, <1>6, <1>7 DEF Next, Dispatch

LEMMA LocalTypeInv == Spec => []LocalType
<1>1. Init => LocalType
  BY DEF Init, IC!Init, LocalType, Steps
<1>2. LocalType /\ [Next]_vars => LocalType'
  BY LocalTypeStep
<1> QED
  BY <1>1, <1>2, PTL DEF Spec

\* tcp_io and its io_common keep every field in its type, and the writes that
\* are bound to fail are among those outstanding.
THEOREM TypeCorrect == Spec => []TypeOK
<1>1. IP!QueueAssumption
  BY TcpIoAssumption DEF IP!QueueAssumption
<1>2. IP!Spec => []IP!TypeOK
  BY <1>1, IP!TypeCorrect, PTL
<1>3. IP!TypeOK => IC!TypeOK
  BY DEF IP!TypeOK, IC!TypeOK
<1>4. IC!TypeOK /\ LocalType => TypeOK
  BY DEF TypeOK, LocalType, Steps
<1> QED
  BY <1>2, <1>3, <1>4, UsesIoCommon, SameIoCommon, LocalTypeInv, PTL

-----------------------------------------------------------------------------
(* One write at a time.                                                    *)

\* A thread that shuts the connection down goes on doing so until the socket
\* is closed.
LEMMA ShuttingStays ==
    ASSUME LocalType, [Next]_vars, Shutting \/ socket = "closed"
    PROVE  Shutting' \/ socket' = "closed"
<1> USE TcpIoAssumption
<1>0. pc \in [Threads -> Steps] /\ ret \in {"idle", "msg_hdlr"} /\ Run \in Threads
  BY DEF LocalType, Threads
<1>1. ASSUME UNCHANGED socket, NEW t \in Threads, pc[t] \notin {"clear", "shut"},
             \A u \in Threads : u # t => pc'[u] = pc[u]
      PROVE  Shutting' \/ socket' = "closed"
  BY <1>1 DEF Shutting
<1>2. ASSUME NEW t \in Threads, Step(t) \/ Call(t) PROVE Shutting' \/ socket' = "closed"
  <2>1. CASE CloseSocket(t)
    BY <2>1 DEF CloseSocket
  <2>2. CASE CloseClear(t)
    <3>1. pc' = [pc EXCEPT ![t] = "shut"]
      BY <2>2 DEF CloseClear, Goto
    <3> QED
      BY <1>0, <3>1 DEF Shutting
  <2>3. CASE StartIo(t) \/ StopIo(t) \/ Send(t) \/ RemoteEndpoint(t) \/ StartIoRead(t)
             \/ StopIoMark(t) \/ CloseStop(t) \/ CloseNotify(t)
    <3>1. UNCHANGED socket /\ pc[t] \notin {"clear", "shut"}
      BY <2>3 DEF StartIo, StopIo, Send, RemoteEndpoint, StartIoRead, StopIoMark, CloseStop,
         CloseNotify, InAppCode, net
    <3>2. pc' = pc \/ \E s : pc' = [pc EXCEPT ![t] = s]
      BY <2>3 DEF StartIo, StopIo, Send, RemoteEndpoint, StartIoRead, StopIoMark, CloseStop,
         CloseNotify, Return, Goto, control
    <3> QED
      BY <1>0, <1>1, <3>1, <3>2
  <2> QED
    BY <1>2, <2>1, <2>2, <2>3 DEF Step, Call
<1>3. CASE Dispatch \/ MessageTrue \/ MessageFalse
  <2>1. UNCHANGED socket /\ pc[Run] \in {"idle", "msg_hdlr"}
    BY <1>3 DEF Dispatch, HandleMessage, HandlePart, PostedClose, ReadFails, WriteDone,
       WriteFails, MessageTrue, MessageFalse
  <2>2. pc' = pc \/ \E s : pc' = [pc EXCEPT ![Run] = s]
    BY <1>3 DEF Dispatch, HandleMessage, HandlePart, PostedClose, ReadFails, WriteDone,
       WriteFails, MessageTrue, MessageFalse, Goto, control
  <2> QED
    BY <1>0, <1>1, <2>1, <2>2
<1>4. CASE PeerGone \/ UNCHANGED vars
  BY <1>4 DEF PeerGone, vars, net, control, Shutting
<1> QED
  BY <1>2, <1>3, <1>4 DEF Next

\* what WriteInv says while nothing is being shut down
Writes ==
    /\ ~io_started => writing = {}
    /\ ~write_in_progress => writing = {}
    /\ \A v, w \in writing : v = w

\* io_common keeps to one write unless it is cleared or stopped.
LEMMA OneMoreWrite ==
    ASSUME Writes, IC!StartWrite
    PROVE  Writes'
<1>1. CASE IC!StartWriteStopped
  <2>1. ~io_started /\ UNCHANGED <<io_started, writing>>
    BY <1>1, Zenon DEF IC!StartWriteStopped
  <2>2. writing = {} /\ writing' = {}
    BY <2>1, Zenon DEF Writes
  <2> QED
    BY <2>2 DEF Writes
<1>2. CASE IC!StartWriteQueued
  <2>1. io_started' = io_started /\ write_in_progress' = write_in_progress /\ writing' = writing
    BY <1>2, Zenon DEF IC!StartWriteQueued
  <2> QED
    BY <2>1, Zenon DEF Writes
<1>3. CASE IC!StartWriteStarted
  <2>1. io_started' /\ write_in_progress'
    BY <1>3, Zenon DEF IC!StartWriteStarted
  <2>2. writing = {} /\ writing' = writing \cup {nsent + 1}
    BY <1>3 DEF IC!StartWriteStarted, IC!HandOver, Writes
  <2>3. writing' = {nsent + 1}
    BY <2>2
  <2> QED
    BY <2>1, <2>3 DEF Writes
<1> QED
  BY <1>1, <1>2, <1>3 DEF IC!StartWrite

LEMMA OneWriteLess ==
    ASSUME Writes, NEW w \in writing, IC!WriteNextElem(w) \/ IC!WriteFailed(w)
    PROVE  Writes'
<1>1. io_started /\ write_in_progress /\ writing = {w}
  BY DEF Writes
<1>2. CASE IC!WriteNextStopped(w)
  BY <1>1, <1>2, Zenon DEF IC!WriteNextStopped
<1>3. CASE IC!WriteNextIdle(w) \/ IC!WriteFailed(w)
  <2>1. writing' = writing \ {w}
    BY <1>3 DEF IC!WriteNextIdle, IC!WriteFailed
  <2>2. writing' = {}
    BY <1>1, <2>1
  <2> QED
    BY <2>2 DEF Writes
<1>4. CASE IC!WriteNextQueued(w)
  <2>1. io_started' /\ write_in_progress'
    BY <1>1, <1>4, Zenon DEF IC!WriteNextQueued
  <2>2. \E v : writing' = (writing \ {w}) \cup {v}
    BY <1>4 DEF IC!WriteNextQueued, IC!HandOver
  <2>3. \E v : writing' = {v}
    BY <1>1, <2>2
  <2> QED
    BY <2>1, <2>3 DEF Writes
<1> QED
  BY <1>2, <1>3, <1>4 DEF IC!WriteNextElem

LEMMA WriteStep ==
    ASSUME LocalType, WriteInv, [Next]_vars
    PROVE  WriteInv'
<1> USE TcpIoAssumption
<1>0. pc \in [Threads -> Steps] /\ ret \in {"idle", "msg_hdlr"} /\ Run \in Threads
  BY DEF LocalType, Threads
<1>1. SUFFICES ASSUME socket' = "open", ~Shutting' PROVE Writes'
  BY DEF WriteInv, Writes
<1>2. Writes
  <2>1. socket = "open" /\ ~Shutting
    BY <1>1, ShuttingStays DEF LocalType
  <2> QED
    BY <2>1 DEF WriteInv, Writes
<1>3. CASE io_started' = io_started /\ write_in_progress' = write_in_progress /\ writing' = writing
  BY <1>2, <1>3, Zenon DEF Writes
<1>4. ASSUME NEW t \in Threads, Step(t) \/ Call(t) PROVE Writes'
  <2>1. CASE StartIo(t) \/ StopIoMark(t)
    <3>1. io_started' /\ write_in_progress' = write_in_progress /\ writing' = writing
      BY <2>1, Zenon DEF StartIo, StopIoMark, IC!SetIoStarted
    <3> QED
      BY <1>2, <3>1, Zenon DEF Writes
  <2>2. CASE Send(t)
    BY <1>2, <2>2, OneMoreWrite DEF Send
  <2>3. CASE CloseStop(t)
    <3>1. io_started => pc' = [pc EXCEPT ![t] = "clear"]
      BY <2>3 DEF CloseStop, Goto
    <3>2. ~io_started
      BY <1>0, <1>1, <3>1 DEF Shutting
    <3>3. writing' = writing
      BY <2>3 DEF CloseStop, IC!SetIoStopped
    <3>4. writing' = {}
      BY <1>2, <3>2, <3>3, Zenon DEF Writes
    <3> QED
      BY <3>4 DEF Writes
  <2>4. CASE CloseClear(t)
    <3>1. pc' = [pc EXCEPT ![t] = "shut"]
      BY <2>4 DEF CloseClear, Goto
    <3> QED
      BY <1>0, <1>1, <3>1 DEF Shutting
  <2>5. CASE StopIo(t) \/ RemoteEndpoint(t) \/ StartIoRead(t) \/ CloseSocket(t) \/ CloseNotify(t)
    <3>1. io_started' = io_started /\ write_in_progress' = write_in_progress /\ writing' = writing
      BY <2>5, Zenon DEF StopIo, RemoteEndpoint, StartIoRead, CloseSocket, CloseNotify, io
    <3> QED
      BY <1>3, <3>1
  <2> QED
    BY <1>4, <2>1, <2>2, <2>3, <2>4, <2>5 DEF Step, Call
<1>5. CASE WriteDone \/ WriteFails
  BY <1>2, <1>5, OneWriteLess DEF WriteDone, WriteFails
<1>6. CASE HandleMessage \/ HandlePart \/ PostedClose \/ ReadFails \/ MessageTrue \/ MessageFalse
           \/ PeerGone \/ UNCHANGED vars
  <2>1. io_started' = io_started /\ write_in_progress' = write_in_progress /\ writing' = writing
    BY <1>6, Zenon DEF HandleMessage, HandlePart, PostedClose, ReadFails, MessageTrue,
       MessageFalse, PeerGone, vars, io
  <2> QED
    BY <1>3, <2>1
<1> QED
  BY <1>4, <1>5, <1>6 DEF Next, Dispatch

\* tcp_io and io_common never have two asynchronous writes outstanding while
\* the connection is in use: close clears m_write_in_progress under a write,
\* but it has stopped IO before and closes the socket after.
THEOREM WritesDoNotMix == Spec => []OneWriteAtATime
<1>1. Init => WriteInv
  BY DEF Init, IC!Init, WriteInv
<1>2. LocalType /\ WriteInv /\ [Next]_vars => WriteInv'
  BY WriteStep
<1>3. ASSUME WriteInv PROVE OneWriteAtATime
  <2>1. SUFFICES ASSUME socket = "open", ~Closing PROVE Cardinality(writing) <= 1
    BY DEF OneWriteAtATime
  <2>2. \A v, w \in writing : v = w
    BY <1>3, <2>1 DEF WriteInv, Closing, Shutting
  <2>3. CASE writing = {}
    BY <2>3, FS_EmptySet
  <2>4. ASSUME NEW w \in writing PROVE Cardinality(writing) <= 1
    <3>1. writing = {w}
      BY <2>2, <2>4
    <3>2. Cardinality(writing) = 1
      BY <3>1, FS_Singleton
    <3> QED
      BY <3>2
  <2> QED
    BY <2>3, <2>4
<1> QED
  BY <1>1, <1>2, <1>3, LocalTypeInv, PTL DEF Spec

-----------------------------------------------------------------------------
(* One read at a time.                                                     *)

\* The application calls start_io once.
StartsOnce == MaxStarts <= 1

\* No more reads than before.
LEMMA NoMore ==
    ASSUME NEW a \in Nat, NEW b \in Nat, NEW c \in Nat, NEW d \in Nat, c + d <= a + b
    PROVE  (a + b = 0 => c + d = 0) /\ (a + b <= 1 => c + d <= 1)
OBVIOUS

\* A thread gets on to a step that has nothing to do with reading.
LEMMA ChainKept ==
    ASSUME LocalType, ReadChain, NEW t \in Threads,
           pc'[t] \notin {"endpoint", "read"}, pc'[t] = "msg_hdlr" => t = Run /\ ret = "msg_hdlr",
           \A u \in Threads : u # t => pc'[u] = pc[u],
           UNCHANGED <<starts, ret>>,
           reads' \in Nat, deadReads' \in Nat, reads' + deadReads' <= reads + deadReads
    PROVE  ReadChain'
<1> USE TcpIoAssumption
<1>0. /\ reads + deadReads = 0 => reads' + deadReads' = 0
      /\ reads + deadReads <= 1 => reads' + deadReads' <= 1
  <2>1. reads \in Nat /\ deadReads \in Nat
    BY DEF LocalType
  <2>2. reads' \in Nat /\ deadReads' \in Nat /\ reads' + deadReads' <= reads + deadReads
    OBVIOUS
  <2> QED
    BY <2>1, <2>2, NoMore
<1>1. ASSUME NEW u \in Threads
      PROVE  /\ pc'[u] = "msg_hdlr" => u = Run /\ ret' = "msg_hdlr"
             /\ pc'[u] \in {"endpoint", "read"} =>
                  /\ starts' # 0 /\ reads' + deadReads' = 0 /\ ret' = "idle"
                  /\ \A v \in Threads : pc'[v] \in {"endpoint", "read"} => v = u
  <2>1. CASE u = t
    BY <2>1
  <2>2. CASE u # t
    <3>1. pc'[u] = pc[u] /\ \A v \in Threads : pc'[v] \in {"endpoint", "read"} => pc'[v] = pc[v]
      BY <2>2
    <3> QED
      BY <1>0, <3>1 DEF ReadChain
  <2> QED
    BY <2>1, <2>2
<1>2. /\ starts' \in Nat /\ starts' <= MaxStarts /\ reads' + deadReads' <= 1
      /\ starts' = 0 => reads' + deadReads' = 0 /\ ret' = "idle"
      /\ ret' = "msg_hdlr" => reads' + deadReads' = 0
  BY <1>0 DEF ReadChain
<1> QED
  BY <1>1, <1>2 DEF ReadChain

LEMMA ReadStep ==
    ASSUME StartsOnce, LocalType, ReadChain, [Next]_vars
    PROVE  ReadChain'
<1> USE TcpIoAssumption
<1>0. /\ pc \in [Threads -> Steps] /\ ret \in {"idle", "msg_hdlr"} /\ Run \in Threads
      /\ reads \in Nat /\ deadReads \in Nat /\ MaxStarts \in Nat
  BY DEF LocalType, Threads
<1>1. ASSUME NEW t \in Threads, Step(t) \/ Call(t) PROVE ReadChain'
  <2>1. CASE StartIo(t)
    <3>1. /\ pc' = [pc EXCEPT ![t] = "endpoint"] /\ starts' = starts + 1 /\ starts < MaxStarts
          /\ UNCHANGED <<reads, deadReads, ret>>
      BY <2>1 DEF StartIo, net, Goto
    <3>2. starts = 0
      BY <1>0, <3>1 DEF StartsOnce, ReadChain
    <3>3. pc'[t] = "endpoint" /\ \A u \in Threads : u # t => pc'[u] = pc[u]
      BY <1>0, <3>1
    <3> QED
      BY <1>0, <3>1, <3>2, <3>3 DEF ReadChain
  <2>2. CASE RemoteEndpoint(t)
    <3>1. /\ pc[t] = "endpoint" /\ UNCHANGED <<reads, deadReads, ret, starts>>
          /\ pc' = [pc EXCEPT ![t] = "read"] \/ pc' = [pc EXCEPT ![t] = "close"]
      BY <2>2 DEF RemoteEndpoint, net, counts, Goto
    <3>2. pc'[t] \in {"read", "close"} /\ \A u \in Threads : u # t => pc'[u] = pc[u]
      BY <1>0, <3>1
    <3>3. ASSUME NEW u \in Threads
          PROVE  /\ pc'[u] = "msg_hdlr" => u = Run /\ ret' = "msg_hdlr"
                 /\ pc'[u] \in {"endpoint", "read"} => u = t
                 /\ starts' # 0 /\ reads' + deadReads' = 0 /\ ret' = "idle"
      BY <3>1, <3>2 DEF ReadChain
    <3>4. /\ starts' \in Nat /\ starts' <= MaxStarts /\ reads' + deadReads' <= 1
          /\ starts' = 0 => reads' + deadReads' = 0 /\ ret' = "idle"
          /\ ret' = "msg_hdlr" => reads' + deadReads' = 0
      BY <3>1 DEF ReadChain
    <3> QED
      BY <3>3, <3>4 DEF ReadChain
  <2>3. CASE StartIoRead(t)
    <3>1. /\ pc[t] = "read" /\ StartRead /\ Return(t) /\ UNCHANGED <<starts, ret>>
      BY <2>3 DEF StartIoRead, counts
    <3>2. /\ reads + deadReads = 0 /\ ret = "idle" /\ starts # 0
          /\ \A u \in Threads : pc[u] \in {"endpoint", "read"} => u = t
      BY <3>1 DEF ReadChain
    <3>3. reads' + deadReads' = 1
      BY <1>0, <3>1, <3>2 DEF StartRead
    <3>4. pc'[t] = "idle" /\ \A u \in Threads : u # t => pc'[u] = pc[u]
      BY <1>0, <3>1, <3>2, Returning
    <3>5. ASSUME NEW u \in Threads
          PROVE  /\ pc'[u] \notin {"endpoint", "read"}
                 /\ pc'[u] = "msg_hdlr" => u = Run /\ ret' = "msg_hdlr"
      BY <3>1, <3>2, <3>4 DEF ReadChain
    <3> QED
      BY <3>1, <3>2, <3>3, <3>5 DEF ReadChain
  <2>4. CASE StopIo(t) \/ StopIoMark(t) \/ CloseClear(t) \/ CloseSocket(t)
    <3>1. UNCHANGED <<reads, deadReads, ret, starts>>
      BY <2>4 DEF StopIo, StopIoMark, CloseClear, CloseSocket, net, counts
    <3>2. \E s \in {"close", "mark", "shut", "notify"} : pc' = [pc EXCEPT ![t] = s]
      BY <2>4 DEF StopIo, StopIoMark, CloseClear, CloseSocket, Goto
    <3>3. /\ pc'[t] \in {"close", "mark", "shut", "notify"}
          /\ \A u \in Threads : u # t => pc'[u] = pc[u]
      BY <1>0, <3>2
    <3> QED
      BY <1>0, <3>1, <3>3, ChainKept
  <2>5. CASE CloseStop(t) \/ CloseNotify(t)
    <3>1. /\ UNCHANGED <<reads, deadReads, ret, starts>>
          /\ Return(t) \/ pc' = [pc EXCEPT ![t] = "clear"]
      BY <2>5 DEF CloseStop, CloseNotify, net, counts, Goto
    <3>2. /\ pc'[t] = "clear" \/ pc'[t] = (IF t = Run THEN ret ELSE "idle")
          /\ \A u \in Threads : u # t => pc'[u] = pc[u]
      BY <1>0, <3>1, Returning
    <3> QED
      BY <1>0, <3>1, <3>2, ChainKept
  <2>6. CASE Send(t)
    <3>1. UNCHANGED <<reads, deadReads, ret, starts, pc>>
      BY <2>6 DEF Send, control, counts
    <3> QED
      BY <3>1 DEF ReadChain
  <2> QED
    BY <1>1, <2>1, <2>2, <2>3, <2>4, <2>5, <2>6 DEF Step, Call
<1>2. CASE HandleMessage
  <2>1. /\ reads > 0 /\ reads' = reads - 1 /\ ret' = "msg_hdlr"
        /\ pc' = [pc EXCEPT ![Run] = "msg_hdlr"] /\ UNCHANGED <<deadReads, starts>>
    BY <1>2 DEF HandleMessage, Goto
  <2>2. reads + deadReads = 1 /\ starts # 0 /\ reads' + deadReads' = 0
    BY <1>0, <2>1 DEF ReadChain
  <2>3. pc'[Run] = "msg_hdlr" /\ \A u \in Threads : u # Run => pc'[u] = pc[u]
    BY <1>0, <2>1
  <2>4. ASSUME NEW u \in Threads
        PROVE  /\ pc'[u] \notin {"endpoint", "read"} /\ pc'[u] = "msg_hdlr" => u = Run
    BY <2>2, <2>3 DEF ReadChain
  <2> QED
    BY <1>0, <2>1, <2>2, <2>4 DEF ReadChain
<1>3. CASE MessageTrue \/ MessageFalse
  <2>1. /\ pc[Run] = "msg_hdlr" /\ ret' = "idle" /\ starts' = starts
        /\ pc' = [pc EXCEPT ![Run] = "idle"]
        /\ StartRead \/ UNCHANGED <<reads, deadReads>>
    BY <1>3 DEF MessageTrue, MessageFalse, counts, Goto
  <2>2. ret = "msg_hdlr" /\ reads + deadReads = 0 /\ starts # 0
    BY <1>0, <2>1 DEF ReadChain
  <2>3. reads' + deadReads' <= 1
    BY <1>0, <2>1, <2>2 DEF StartRead
  <2>4. pc'[Run] = "idle" /\ \A u \in Threads : u # Run => pc'[u] = pc[u]
    BY <1>0, <2>1
  <2>5. ASSUME NEW u \in Threads
        PROVE  /\ pc'[u] \notin {"endpoint", "read"} /\ pc'[u] # "msg_hdlr"
    BY <2>2, <2>4 DEF ReadChain
  <2> QED
    BY <2>1, <2>2, <2>3, <2>5 DEF ReadChain
<1>4. CASE HandlePart \/ PostedClose \/ ReadFails \/ WriteDone \/ WriteFails
  <2>1. /\ UNCHANGED <<ret, starts>> /\ pc[Run] = "idle"
        /\ pc' = pc \/ pc' = [pc EXCEPT ![Run] = "close"]
    BY <1>4 DEF HandlePart, PostedClose, ReadFails, WriteDone, WriteFails, Goto, counts, control
  <2>2. \/ UNCHANGED <<reads, deadReads>>
        \/ reads > 0 /\ reads' = reads - 1 /\ deadReads' = deadReads + 1
        \/ reads > 0 /\ reads' = reads - 1 /\ deadReads' = deadReads
        \/ deadReads > 0 /\ deadReads' = deadReads - 1 /\ reads' = reads
    BY <1>4 DEF HandlePart, PostedClose, ReadFails, WriteDone, WriteFails
  <2>3. reads' \in Nat /\ deadReads' \in Nat /\ reads' + deadReads' <= reads + deadReads
    BY <1>0, <2>2
  <2>4. pc'[Run] \in {"idle", "close"} /\ \A u \in Threads : u # Run => pc'[u] = pc[u]
    BY <1>0, <2>1
  <2> QED
    BY <1>0, <2>1, <2>3, <2>4, ChainKept
<1>5. CASE PeerGone \/ UNCHANGED vars
  BY <1>5 DEF PeerGone, vars, net, control, counts, ReadChain
<1> QED
  BY <1>1, <1>2, <1>3, <1>4, <1>5 DEF Next, Dispatch

LEMMA ReadInvariant ==
    ASSUME StartsOnce
    PROVE  Spec => []ReadChain
<1>1. Init => ReadChain
  BY TcpIoAssumption DEF Init, ReadChain
<1>2. LocalType /\ ReadChain /\ [Next]_vars => ReadChain'
  BY ReadStep
<1> QED
  BY <1>1, <1>2, LocalTypeInv, PTL DEF Spec

\* start_io of tcp_io starts the first read and every completion handler at
\* most one more, so m_byte_vec is read into once at a time, if the
\* application calls start_io once.
THEOREM ReadsDoNotOverlap ==
    ASSUME StartsOnce
    PROVE  Spec => []OneReadAtATime
<1>1. ReadChain => OneReadAtATime
  BY DEF ReadChain, OneReadAtATime
<1> QED
  BY <1>1, ReadInvariant, PTL

-----------------------------------------------------------------------------
(* Messages after the notification.                                        *)

LEMMA LateStep ==
    ASSUME LocalType, ReadChain, LateInv, [Next]_vars
    PROVE  LateInv'
<1> USE TcpIoAssumption
<1>0. /\ pc \in [Threads -> Steps] /\ ret \in {"idle", "msg_hdlr"} /\ Run \in Threads
      /\ reads \in Nat /\ deadReads \in Nat /\ late \in Nat /\ notified \in Nat
  BY DEF LocalType, Threads
<1>1. ASSUME NEW t \in Threads, pc'[t] = "notify" => socket' = "closed",
             \A u \in Threads : u # t => pc'[u] = pc[u],
             socket' = socket \/ socket' = "closed", late' = late,
             reads' = reads \/ (socket = "open" /\ reads' \in Nat) \/ (reads' < reads),
             reads' \in Nat,
             notified' = notified \/ socket' = "closed"
      PROVE  LateInv'
  <2>1. late' = 1 => reads' = 0
    BY <1>0, <1>1 DEF LateInv
  <2>2. \A u \in Threads : pc'[u] = "notify" => socket' = "closed"
    BY <1>0, <1>1 DEF LateInv
  <2> QED
    BY <1>0, <1>1, <2>1, <2>2 DEF LateInv
<1>2. ASSUME NEW t \in Threads, Step(t) \/ Call(t) PROVE LateInv'
  <2>1. CASE CloseSocket(t)
    <3>1. /\ pc' = [pc EXCEPT ![t] = "notify"] /\ socket' = "closed"
          /\ UNCHANGED <<late, reads, notified>>
      BY <2>1 DEF CloseSocket, Goto, seen
    <3>2. \A u \in Threads : u # t => pc'[u] = pc[u]
      BY <1>0, <3>1
    <3> QED
      BY <1>0, <1>1, <3>1, <3>2
  <2>2. CASE CloseNotify(t)
    <3>1. /\ pc[t] = "notify" /\ Return(t) /\ UNCHANGED <<late, reads, socket>>
      BY <2>2 DEF CloseNotify, net
    <3>2. socket = "closed"
      BY <3>1 DEF LateInv
    <3>3. \A u \in Threads : u # t => pc'[u] = pc[u]
      BY <1>0, <3>1, Returning
    <3> QED
      BY <1>0, <1>1, <3>1, <3>2, <3>3
  <2>3. CASE StartIoRead(t)
    <3>1. /\ StartRead /\ Return(t) /\ UNCHANGED <<late, notified, socket>>
      BY <2>3 DEF StartIoRead, seen
    <3>2. /\ pc'[t] = (IF t = Run THEN ret ELSE "idle")
          /\ \A u \in Threads : u # t => pc'[u] = pc[u]
      BY <1>0, <3>1, Returning
    <3>3. reads' \in Nat /\ (reads' = reads \/ socket = "open")
      BY <1>0, <3>1 DEF StartRead
    <3>4. pc'[t] # "notify"
      BY <1>0, <3>2
    <3> QED
      BY <1>1, <3>1, <3>2, <3>3, <3>4
  <2>4. CASE Send(t)
    <3>1. UNCHANGED <<late, notified, socket, pc, reads>>
      BY <2>4 DEF Send, seen, control
    <3> QED
      BY <3>1 DEF LateInv
  <2>5. CASE StartIo(t) \/ StopIo(t) \/ RemoteEndpoint(t) \/ StopIoMark(t) \/ CloseStop(t)
             \/ CloseClear(t)
    <3>1. UNCHANGED <<late, notified, socket, reads, ret>>
      BY <2>5 DEF StartIo, StopIo, RemoteEndpoint, StopIoMark, CloseStop, CloseClear, net, seen
    <3>2. \/ Return(t)
          \/ \E s \in {"endpoint", "close", "mark", "read", "clear", "shut"} : Goto(t, s)
      BY <2>5 DEF StartIo, StopIo, RemoteEndpoint, StopIoMark, CloseStop, CloseClear
    <3>3. pc'[t] # "notify" /\ \A u \in Threads : u # t => pc'[u] = pc[u]
      <4>1. CASE Return(t)
        BY <1>0, <4>1, Returning
      <4>2. CASE \E s \in {"endpoint", "close", "mark", "read", "clear", "shut"} : Goto(t, s)
        BY <1>0, <4>2 DEF Goto
      <4> QED
        BY <3>2, <4>1, <4>2
    <3> QED
      BY <1>0, <1>1, <3>1, <3>3
  <2> QED
    BY <1>2, <2>1, <2>2, <2>3, <2>4, <2>5 DEF Step, Call
<1>3. CASE HandleMessage
  <2>1. /\ reads > 0 /\ reads' = reads - 1 /\ late' = (IF notified > 0 THEN late + 1 ELSE late)
        /\ pc' = [pc EXCEPT ![Run] = "msg_hdlr"] /\ UNCHANGED <<socket, notified>>
    BY <1>3 DEF HandleMessage, Goto
  <2>2. late = 0 /\ reads' = 0
    BY <1>0, <2>1 DEF LateInv, ReadChain
  <2>3. pc'[Run] = "msg_hdlr" /\ \A u \in Threads : u # Run => pc'[u] = pc[u]
    BY <1>0, <2>1
  <2> QED
    BY <1>0, <2>1, <2>2, <2>3 DEF LateInv
<1>4. CASE MessageTrue \/ MessageFalse \/ HandlePart \/ PostedClose \/ ReadFails \/ WriteDone
           \/ WriteFails
  <2>1. /\ UNCHANGED <<late, notified, socket>>
        /\ pc' = pc \/ pc' = [pc EXCEPT ![Run] = "close"] \/ pc' = [pc EXCEPT ![Run] = "idle"]
    BY <1>4 DEF MessageTrue, MessageFalse, HandlePart, PostedClose, ReadFails, WriteDone,
       WriteFails, Goto, seen, control
  <2>2. reads' = reads \/ (reads > 0 /\ reads' = reads - 1) \/ StartRead
    BY <1>4 DEF MessageTrue, MessageFalse, HandlePart, PostedClose, ReadFails, WriteDone,
       WriteFails
  <2>3. /\ reads' \in Nat
        /\ reads' = reads \/ (socket = "open" /\ reads' \in Nat) \/ reads' < reads
    BY <1>0, <2>2 DEF StartRead
  <2>4. /\ pc'[Run] = "notify" => socket' = "closed"
        /\ \A u \in Threads : u # Run => pc'[u] = pc[u]
    BY <1>0, <2>1 DEF LateInv
  <2> QED
    BY <1>0, <1>1, <2>1, <2>3, <2>4
<1>5. CASE PeerGone \/ UNCHANGED vars
  BY <1>5 DEF PeerGone, vars, net, control, seen, LateInv
<1> QED
  BY <1>2, <1>3, <1>4, <1>5 DEF Next, Dispatch

\* tcp_io's close closes the socket before it notifies the owner, and one read
\* is outstanding then at most: a single message can still come after the
\* application has been told that the connection is gone.
THEOREM OneLateMessage ==
    ASSUME StartsOnce
    PROVE  Spec => []AtMostOneLateMessage
<1>1. Init => LateInv
  BY DEF Init, LateInv
<1>2. LocalType /\ ReadChain /\ LateInv /\ [Next]_vars => LateInv'
  BY LateStep
<1>3. LateInv => AtMostOneLateMessage
  BY DEF LateInv, AtMostOneLateMessage
<1> QED
  BY <1>1, <1>2, <1>3, LocalTypeInv, ReadInvariant, PTL DEF Spec

=============================================================================
