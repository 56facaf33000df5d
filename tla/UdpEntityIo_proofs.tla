-------------------------- MODULE UdpEntityIo_proofs --------------------------
(***************************************************************************)
(* As TcpIo_proofs, for udp_entity_io: whatever start, stop, start_io,     *)
(* stop_io, send, close and the handlers do in all threads together is a   *)
(* use of io_common that IoCommon allows, so that its theorems hold here.  *)
(***************************************************************************)
EXTENDS UdpEntityIo, TLAPS

IP == INSTANCE IoCommon_proofs

\* start_io, stop_io, send and close use io_common only through its methods.
LEMMA MethodStep ==
    ASSUME NEW t \in Threads, Step(t) \/ Call(t)
    PROVE  [IC!Next]_(IC!ioVars)
<1>1. CASE StartIo(t)
  BY <1>1 DEF StartIo, IC!Next
<1>2. CASE Send(t)
  BY <1>2 DEF Send, IC!Next
<1>3. CASE CloseMark(t) \/ CloseClear(t)
  BY <1>3 DEF CloseMark, CloseClear, IC!Next
<1>4. CASE StartIoRead(t) \/ StopIo(t) \/ CloseTest(t) \/ CloseSocket(t) \/ CloseTell(t)
  BY <1>4 DEF StartIoRead, StopIo, CloseTest, CloseSocket, CloseTell, io, IC!ioVars
<1> QED
  BY <1>1, <1>2, <1>3, <1>4 DEF Step, Call

\* start and stop do not touch io_common before close does.
LEMMA EntityStep ==
    ASSUME PostedStep \/ StartReturns
             \/ \E t \in Callers : CallerBegins(t) \/ CallerGoesOn(t)
    PROVE  UNCHANGED IC!ioVars
<1>1. CASE \E t \in Callers : CallerBegins(t) \/ CallerGoesOn(t)
  BY <1>1 DEF CallerBegins, CallerGoesOn, io, IC!ioVars
<1>2. CASE PostedStep \/ StartReturns
  BY <1>2 DEF PostedStep, DoStart, DoStartFails, CallbackReturns, DoStop, EndOfPosted,
     StartReturns, io, IC!ioVars
<1> QED
  BY <1>1, <1>2

\* Completion handlers use it only through its methods, too.
LEMMA HandlerStep ==
    ASSUME Dispatch \/ MessageTrue \/ MessageFalse
    PROVE  [IC!Next]_(IC!ioVars)
<1>1. CASE WriteDone \/ WriteFails
  BY <1>1 DEF WriteDone, WriteFails, IC!Next
<1>2. CASE HandleMessage \/ ReadFails \/ MessageTrue \/ MessageFalse
  BY <1>2 DEF HandleMessage, ReadFails, MessageTrue, MessageFalse, io, IC!ioVars
<1> QED
  BY <1>1, <1>2 DEF Dispatch

\* udp_entity_io uses io_common as IoCommon says it may be used.
THEOREM UsesIoCommon == Spec => IC!Spec
<1>1. Init => IC!Init
  BY DEF Init
<1>2. [Next]_vars => [IC!Next]_(IC!ioVars)
  <2>1. CASE UNCHANGED vars
    BY <2>1 DEF vars, io, IC!ioVars
  <2> QED
    BY <2>1, MethodStep, EntityStep, HandlerStep DEF Next
<1> QED
  BY <1>1, <1>2, PTL DEF Spec, IC!Spec

\* IC and IP are two instances of the same definitions.
LEMMA SameIoCommon == IC!Spec => IP!Spec
<1>1. IC!Init => IP!Init
  BY DEF IC!Init, IP!Init, IC!QueueInit, IP!QueueInit
<1>2. IC!Next => IP!Next
  BY DEF IC!Next, IP!Next, IC!SetIoStarted, IP!SetIoStarted, IC!SetIoStopped,
     IP!SetIoStopped, IC!Clear, IP!Clear, IC!DoClear, IP!DoClear, IC!QueueClear,
     IP!QueueClear, IC!StartWrite, IP!StartWrite, IC!StartWriteStopped,
     IP!StartWriteStopped, IC!StartWriteQueued, IP!StartWriteQueued,
     IC!StartWriteStarted, IP!StartWriteStarted, IC!AddElement, IP!AddElement,
     IC!HandOver, IP!HandOver, IC!WriteNextElem, IP!WriteNextElem,
     IC!WriteNextStopped, IP!WriteNextStopped, IC!WriteNextIdle, IP!WriteNextIdle,
     IC!WriteNextQueued, IP!WriteNextQueued, IC!GetNextElement, IP!GetNextElement,
     IC!WriteFailed, IP!WriteFailed
<1>3. IC!ioVars = IP!ioVars
  BY DEF IC!ioVars, IP!ioVars
<1>4. [IC!Next]_(IC!ioVars) => [IP!Next]_(IP!ioVars)
  BY <1>2, <1>3 DEF IC!ioVars, IP!ioVars
<1> QED
  BY <1>1, <1>4, PTL DEF IC!Spec, IP!Spec

\* Whatever threads send, stop and fail, what waits in the queue of a
\* UDP entity is the latest buffers in their order, and waits behind a write.
THEOREM QueueIsSound == Spec => [](IC!QueueWaitsForWrite /\ IC!QueueIsBacklog)
<1>1. IP!QueueAssumption
  BY UdpAssumption DEF IP!QueueAssumption
<1>2. IP!Spec => [](IP!QueueWaitsForWrite /\ IP!QueueIsBacklog)
  BY <1>1, IP!NothingOvertakes, IP!BacklogKept, PTL
<1>3. IP!QueueWaitsForWrite /\ IP!QueueIsBacklog
      => IC!QueueWaitsForWrite /\ IC!QueueIsBacklog
  BY DEF IC!QueueWaitsForWrite, IP!QueueWaitsForWrite, IC!QueueIsBacklog,
     IP!QueueIsBacklog
<1> QED
  BY <1>2, <1>3, UsesIoCommon, SameIoCommon, PTL

\* send of a UDP entity keeps the promise of SendStream: buffers are handed to
\* the socket in the order of the send calls, each at most once, until the
\* entity is closed.
THEOREM SendsInOrder == Spec => IC!SendOrder
<1>1. IP!QueueAssumption
  BY UdpAssumption DEF IP!QueueAssumption
<1>2. IP!Spec => IP!SendOrder
  BY <1>1, IP!ImplementsSendOrder, PTL
<1>3. IP!SendOrder => IC!SendOrder
  <2>1. IP!Stream!Init => IC!Stream!Init
    BY DEF IP!Stream!Init, IC!Stream!Init
  <2>2. [IP!Stream!Next]_(IP!Stream!streamVars) => [IC!Stream!Next]_(IC!Stream!streamVars)
    BY DEF IP!Stream!Next, IC!Stream!Next, IP!Stream!Accept, IC!Stream!Accept,
       IP!Stream!AcceptAndHand, IC!Stream!AcceptAndHand, IP!Stream!HandNext,
       IC!Stream!HandNext, IP!Stream!GiveUp, IC!Stream!GiveUp, IP!Stream!Pending,
       IC!Stream!Pending, IP!Stream!streamVars, IC!Stream!streamVars
  <2> QED
    BY <2>1, <2>2, PTL DEF IP!SendOrder, IC!SendOrder, IP!Stream!Spec, IC!Stream!Spec
<1> QED
  BY <1>2, <1>3, UsesIoCommon, SameIoCommon, PTL

-----------------------------------------------------------------------------
(* Types.                                                                  *)

Steps == {"idle", "callback", "msg_hdlr", "read", "posted_done",
          "close", "mark", "clear", "shut", "tell"}
Returns == {"idle", "callback", "msg_hdlr", "posted_done"}

\* the run thread executes a posted function: one is at the head of its queue
InPosted ==
    \/ pc[Run] \in {"callback", "posted_done"}
    \/ /\ pc[Run] \in {"read", "close", "mark", "clear", "shut", "tell"}
       /\ ret[Run] \in {"callback", "posted_done"}

\* the part of TypeOK that is not io_common's
LocalType ==
    /\ EntityTypeOK
    /\ execq \in Seq({"start", "stop"} \X Callers)
    /\ InPosted => execq # <<>>
    /\ m_shutting_down \in BOOLEAN /\ start_told \in BOOLEAN
    /\ socket \in {"none", "open", "closed"}
    /\ reads \in Nat /\ deadReads \in Nat /\ ups \in Nat /\ downs \in Nat
    /\ starts \in Nat /\ stops \in Nat /\ msgs \in Nat
    /\ deadWrites \subseteq writing
    /\ pc \in [Threads -> Steps] /\ ret \in [Threads -> Returns]

LEMMA FrontAndRest ==
    ASSUME NEW S, NEW q \in Seq(S), q # <<>>
    PROVE  Head(q) \in S /\ Tail(q) \in Seq(S)
  OBVIOUS

\* A promise or wait queue keeps its type; a flag's value is a state of its own.
LEMMA DeliveryTypeStep ==
    ASSUME DeliveryTypeOK, [Next]_vars
    PROVE  DeliveryTypeOK'
<1>1. ASSUME NEW b \in BOOLEAN, Deliver(b) PROVE DeliveryTypeOK'
  <2>1. {start_prom', stop_prom'} \subseteq {"unset", "value", "exception"}
    BY <1>1 DEF DeliveryTypeOK, Deliver, Set
  <2>2. wq' \in Seq(BOOLEAN)
    <3>1. wq' = wq \/ wq' = Append(wq, b)
      BY <1>1 DEF Deliver
    <3> QED
      BY <3>1 DEF DeliveryTypeOK
  <2>3. thrown' \in BOOLEAN
    BY <1>1, Zenon DEF Deliver
  <2> QED
    BY <2>1, <2>2, <2>3 DEF DeliveryTypeOK
<1>2. ASSUME StartFailed PROVE DeliveryTypeOK'
  <2>1. {start_prom', stop_prom'} \subseteq {"unset", "value", "exception"}
    BY <1>2 DEF DeliveryTypeOK, StartFailed, Set
  <2>2. wq' \in Seq(BOOLEAN)
    BY <1>2 DEF DeliveryTypeOK, StartFailed
  <2>3. thrown' \in BOOLEAN
    BY <1>2, Zenon DEF StartFailed
  <2> QED
    BY <2>1, <2>2, <2>3 DEF DeliveryTypeOK
<1>3. CASE UNCHANGED deliveryVars
  BY <1>3 DEF deliveryVars, DeliveryTypeOK
<1>4. Deliver(TRUE) \/ Deliver(FALSE) \/ StartFailed \/ UNCHANGED deliveryVars
  BY DEF Next, Step, Call, PostedStep, Dispatch, StartIoRead, CloseTest, CloseMark, CloseClear,
     CloseSocket, CloseTell, StartIo, StopIo, Send, CallerBegins, CallerGoesOn, DoStart,
     DoStartFails, CallbackReturns, DoStop, EndOfPosted, StartReturns, HandleMessage, ReadFails,
     WriteDone, WriteFails, MessageTrue, MessageFalse, vars, told
<1> QED
  BY <1>1, <1>2, <1>3, <1>4

\* A thread gets on to a step of its method, of the callback or of nothing.
LEMMA Going ==
    ASSUME LocalType, NEW t \in Threads, NEW s \in Steps, Goto(t, s)
    PROVE  /\ pc' \in [Threads -> Steps] /\ pc'[t] = s
           /\ \A u \in Threads : u # t => pc'[u] = pc[u]
  BY DEF Goto, LocalType

LEMMA Closing ==
    ASSUME LocalType, NEW t \in Threads, NEW s \in Returns, CallClose(t, s)
    PROVE  /\ pc' \in [Threads -> Steps] /\ pc'[t] = "close"
           /\ ret' \in [Threads -> Returns] /\ ret'[t] = s
           /\ \A u \in Threads : u # t => pc'[u] = pc[u] /\ ret'[u] = ret[u]
  BY DEF CallClose, Goto, LocalType, Steps

\* Writes that fail are outstanding; counts are numbers.
LEMMA CountsStep ==
    ASSUME LocalType, [Next]_vars
    PROVE  /\ m_shutting_down' \in BOOLEAN /\ start_told' \in BOOLEAN
           /\ socket' \in {"none", "open", "closed"}
           /\ reads' \in Nat /\ deadReads' \in Nat /\ ups' \in Nat /\ downs' \in Nat
           /\ starts' \in Nat /\ stops' \in Nat /\ msgs' \in Nat
           /\ deadWrites' \subseteq writing'
<1> DEFINE Same == UNCHANGED <<socket, reads, deadReads, ups, downs, starts, stops, msgs>>
           Goal == /\ socket' \in {"none", "open", "closed"}
                   /\ reads' \in Nat /\ deadReads' \in Nat /\ ups' \in Nat /\ downs' \in Nat
                   /\ starts' \in Nat /\ stops' \in Nat /\ msgs' \in Nat
<1>1. m_shutting_down' = m_shutting_down \/ m_shutting_down' = TRUE
  BY DEF Next, Step, Call, PostedStep, Dispatch, StartIoRead, CloseTest, CloseMark, CloseClear,
     CloseSocket, CloseTell, StartIo, StopIo, Send, CallerBegins, CallerGoesOn, DoStart,
     DoStartFails, CallbackReturns, DoStop, EndOfPosted, StartReturns, HandleMessage, ReadFails,
     WriteDone, WriteFails, MessageTrue, MessageFalse, vars
<1>2. start_told' = start_told \/ start_told' = TRUE
  BY DEF Next, Step, Call, PostedStep, Dispatch, StartIoRead, CloseTest, CloseMark, CloseClear,
     CloseSocket, CloseTell, StartIo, StopIo, Send, CallerBegins, CallerGoesOn, DoStart,
     DoStartFails, CallbackReturns, DoStop, EndOfPosted, StartReturns, HandleMessage, ReadFails,
     WriteDone, WriteFails, MessageTrue, MessageFalse, vars, told
<1>3. m_shutting_down' \in BOOLEAN /\ start_told' \in BOOLEAN
  BY <1>1, <1>2, Zenon DEF LocalType
<1>4. TrackWrites \/ UNCHANGED <<writing, deadWrites>>
  BY DEF Next, Step, Call, PostedStep, Dispatch, StartIoRead, CloseTest, CloseMark, CloseClear,
     CloseSocket, CloseTell, StartIo, StopIo, Send, CallerBegins, CallerGoesOn, DoStart,
     DoStartFails, CallbackReturns, DoStop, EndOfPosted, StartReturns, HandleMessage, ReadFails,
     WriteDone, WriteFails, MessageTrue, MessageFalse, vars, io, net, IC!SetIoStarted,
     IC!SetIoStopped, IC!Clear
<1>5. deadWrites' \subseteq writing'
  BY <1>4 DEF LocalType, TrackWrites
<1>6. /\ socket \in {"none", "open", "closed"}
      /\ reads \in Nat /\ deadReads \in Nat /\ ups \in Nat /\ downs \in Nat
      /\ starts \in Nat /\ stops \in Nat /\ msgs \in Nat
  BY DEF LocalType
<1>7. ASSUME NEW t \in Threads, Step(t) \/ Call(t) PROVE Goal
  <2>1. CASE StartIoRead(t)
    <3>1. /\ UNCHANGED <<socket, ups, downs, starts, stops, msgs>>
          /\ \/ reads' = reads + 1 /\ deadReads' = deadReads
             \/ deadReads' = deadReads + 1 /\ reads' = reads
      BY <2>1 DEF StartIoRead, StartRead, seen, counts
    <3> QED
      BY <1>6, <3>1
  <2>2. CASE CloseTest(t) \/ CloseMark(t) \/ CloseClear(t) \/ Send(t)
    <3>1. Same
      BY <2>2 DEF CloseTest, CloseMark, CloseClear, Send, net, seen, counts
    <3> QED
      BY <1>6, <3>1
  <2>3. CASE CloseSocket(t) \/ CloseTell(t)
    <3>1. /\ UNCHANGED <<reads, deadReads, ups, starts, stops, msgs>>
          /\ socket' = socket \/ socket' = "closed"
          /\ downs' = downs \/ downs' = downs + 1
      BY <2>3 DEF CloseSocket, CloseTell, net, seen, counts
    <3> QED
      BY <1>6, <3>1
  <2>4. CASE StartIo(t) \/ StopIo(t)
    <3>1. /\ UNCHANGED <<socket, reads, deadReads, ups, downs, msgs>>
          /\ starts' = starts \/ starts' = starts + 1
          /\ stops' = stops \/ stops' = stops + 1
      BY <2>4 DEF StartIo, StopIo, net, seen
    <3> QED
      BY <1>6, <3>1
  <2> QED
    BY <1>7, <2>1, <2>2, <2>3, <2>4 DEF Step, Call
<1>8. ASSUME \E t \in Callers : CallerBegins(t) \/ CallerGoesOn(t) PROVE Goal
  <2>1. Same
    BY <1>8 DEF CallerBegins, CallerGoesOn, net, seen, counts
  <2> QED
    BY <1>6, <2>1
<1>9. ASSUME PostedStep \/ StartReturns PROVE Goal
  <2>1. /\ UNCHANGED <<reads, deadReads, downs, starts, stops, msgs>>
        /\ socket' = socket \/ socket' \in {"none", "open"}
        /\ ups' = ups \/ ups' = ups + 1
    BY <1>9 DEF PostedStep, StartReturns, DoStart, DoStartFails, CallbackReturns, DoStop,
       EndOfPosted, net, seen, counts
  <2> QED
    BY <1>6, <2>1
<1>10. ASSUME WriteDone \/ WriteFails PROVE Goal
  <2>1. Same
    BY <1>10 DEF WriteDone, WriteFails, seen, counts
  <2> QED
    BY <1>6, <2>1
<1>11. ASSUME HandleMessage \/ ReadFails \/ MessageTrue \/ MessageFalse PROVE Goal
  <2>1. UNCHANGED <<socket, ups, downs, starts, stops>> /\ (msgs' = msgs \/ msgs' = msgs + 1)
    BY <1>11 DEF HandleMessage, ReadFails, MessageTrue, MessageFalse, net, seen, counts
  <2>2. /\ \/ reads' = reads \/ reads' = reads + 1
           \/ reads > 0 /\ reads' = reads - 1
        /\ \/ deadReads' = deadReads \/ deadReads' = deadReads + 1
           \/ deadReads > 0 /\ deadReads' = deadReads - 1
    BY <1>11 DEF HandleMessage, ReadFails, MessageTrue, MessageFalse, StartRead, net
  <2> QED
    BY <1>6, <2>1, <2>2
<1>12. ASSUME UNCHANGED vars PROVE Goal
  <2>1. Same
    BY <1>12 DEF vars, net, seen, counts
  <2> QED
    BY <1>6, <2>1
<1>13. Goal
  BY <1>7, <1>8, <1>9, <1>10, <1>11, <1>12 DEF Next, Dispatch
<1> QED
  BY <1>3, <1>5, <1>13

\* While a posted function is executed it stays at the head of the queue.
LEMMA ControlStep ==
    ASSUME LocalType, [Next]_vars
    PROVE  /\ EntityTypeOK' /\ execq' \in Seq({"start", "stop"} \X Callers)
           /\ InPosted' => execq' # <<>>
           /\ pc' \in [Threads -> Steps] /\ ret' \in [Threads -> Returns]
<1> DEFINE Calls == {"idle", "assign", "post_start", "post_stop", "wait", "returned"}
           Entries == {"start", "stop"} \X Callers
           Goal == /\ EntityTypeOK' /\ execq' \in Seq(Entries)
                   /\ InPosted' => execq' # <<>>
                   /\ pc' \in [Threads -> Steps] /\ ret' \in [Threads -> Returns]
<1>1. /\ m_started \in 0..2 /\ have_cbs \in BOOLEAN /\ call \in [Callers -> Calls]
      /\ execq \in Seq(Entries) /\ (InPosted => execq # <<>>)
      /\ pc \in [Threads -> Steps] /\ ret \in [Threads -> Returns] /\ Run \in Threads
  BY DEF LocalType, EntityTypeOK, Threads
<1>2. ASSUME m_started' \in {m_started, 2}, UNCHANGED <<have_cbs, call, execq>>,
             NEW t \in Threads, NEW s \in Steps, Goto(t, s),
             \/ ret' = ret
             \/ s \in {"read", "close"} /\ \E r \in Returns : ret' = [ret EXCEPT ![t] = r],
             InPosted' => InPosted
      PROVE  Goal
  <2>1. EntityTypeOK'
    BY <1>1, <1>2 DEF EntityTypeOK
  <2> QED
    BY <1>1, <1>2, <2>1, Going
<1>3. ASSUME NEW t \in Threads, t = Run => (InPosted' => InPosted),
             \A u \in Threads : u # t => pc'[u] = pc[u] /\ ret'[u] = ret[u]
      PROVE  InPosted' => InPosted
  BY <1>1, <1>3 DEF InPosted
<1>4. ASSUME NEW t \in Threads, Step(t) \/ Call(t) PROVE Goal
  <2>1. CASE Send(t)
    BY <1>1, <2>1 DEF Send, control, entityVars, EntityTypeOK, InPosted
  <2>2. CASE StartIo(t) /\ UNCHANGED control
    BY <1>1, <2>2 DEF StartIo, control, entityVars, EntityTypeOK, InPosted
  <2>3. CASE (StartIo(t) /\ Goto(t, "read") /\ ret' = [ret EXCEPT ![t] = pc[t]]) \/ StopIo(t)
    <3>1. /\ UNCHANGED <<m_started, have_cbs, call, execq>>
          /\ pc[t] \in {"idle", "callback", "msg_hdlr"}
          /\ ret' = [ret EXCEPT ![t] = pc[t]]
          /\ Goto(t, "read") \/ Goto(t, "close")
      BY <2>3 DEF StartIo, StopIo, CallClose, InAppCode, entityVars
    <3>2. pc'[t] \in {"read", "close"} /\ ret'[t] = pc[t]
          /\ \A u \in Threads : u # t => pc'[u] = pc[u] /\ ret'[u] = ret[u]
      BY <1>1, <3>1 DEF Goto
    <3>3. InPosted' => InPosted
      BY <1>3, <3>1, <3>2 DEF InPosted
    <3> QED
      BY <1>1, <1>2, <3>1, <3>3 DEF Steps, Returns
  <2>4. CASE StartIoRead(t) \/ CloseTest(t) \/ CloseMark(t) \/ CloseClear(t) \/ CloseSocket(t)
               \/ CloseTell(t)
    <3>1. /\ m_started' \in {m_started, 2} /\ UNCHANGED <<have_cbs, call, execq, ret>>
          /\ pc[t] \in {"read", "close", "mark", "clear", "shut", "tell"}
          /\ \/ Goto(t, ret[t])
             \/ \E s \in {"mark", "clear", "shut", "tell"} : Goto(t, s)
      BY <2>4 DEF StartIoRead, CloseTest, CloseMark, CloseClear, CloseSocket, CloseTell,
         entityVars
    <3>2. ret[t] \in Steps /\ ret[t] \in Returns
      BY <1>1 DEF Steps, Returns
    <3>3. PICK s \in Steps : Goto(t, s) /\ s \in {ret[t], "mark", "clear", "shut", "tell"}
      BY <3>1, <3>2 DEF Steps
    <3>4. pc'[t] = s /\ \A u \in Threads : u # t => pc'[u] = pc[u]
      BY <3>3, Going
    <3>5. InPosted' => InPosted
      BY <1>3, <3>1, <3>2, <3>3, <3>4 DEF InPosted, Returns
    <3> QED
      BY <1>2, <3>1, <3>3, <3>5
  <2> QED
    BY <1>4, <2>1, <2>2, <2>3, <2>4 DEF Step, Call, StartIo
<1>5. ASSUME NEW t \in Callers, CallerBegins(t) \/ CallerGoesOn(t) PROVE Goal
  <2>1. UNCHANGED <<pc, ret>>
    BY <1>5 DEF CallerBegins, CallerGoesOn, control
  <2>2. StartCas(t) \/ StopCas(t) \/ StartAssign(t) \/ StartPost(t) \/ StopPost(t)
    BY <1>5 DEF CallerBegins, CallerGoesOn, CallStep
  <2>3. PICK c \in Calls : call' = [call EXCEPT ![t] = c]
    BY <2>2 DEF StartCas, StopCas, StartAssign, StartPost, StopPost, CallGoto
  <2>4. m_started' \in 0..2 /\ (have_cbs' = have_cbs \/ have_cbs' = TRUE)
    BY <1>1, <2>2 DEF StartCas, StopCas, StartAssign, StartPost, StopPost
  <2>5. have_cbs' \in BOOLEAN
    BY <1>1, <2>4, Zenon
  <2>6. execq' = execq \/ \E e \in Entries : execq' = Append(execq, e)
    BY <2>2 DEF StartCas, StopCas, StartAssign, StartPost, StopPost
  <2>7. execq' \in Seq(Entries) /\ (execq # <<>> => execq' # <<>>)
    <3>1. ASSUME NEW S, NEW q \in Seq(S), NEW e \in S
          PROVE  Append(q, e) \in Seq(S) /\ Append(q, e) # <<>>
      <4>1. Append(q, e) \in Seq(S) /\ Len(Append(q, e)) = Len(q) + 1 /\ Len(q) \in Nat
        BY <3>1
      <4> QED
        BY <4>1
    <3> HIDE DEF Entries
    <3> QED
      BY <1>1, <2>6, <3>1
  <2> QED
    BY <1>1, <2>1, <2>3, <2>4, <2>5, <2>7 DEF EntityTypeOK, InPosted
<1>6. CASE EndOfPosted
  <2>1. /\ pc[Run] = "posted_done" /\ Goto(Run, "idle") /\ ret' = ret
        /\ execq' = Tail(execq) /\ call' = [call EXCEPT ![Head(execq)[2]] = "returned"]
        /\ UNCHANGED <<m_started, have_cbs>>
    BY <1>6 DEF EndOfPosted, PostedDone, CallGoto
  <2>2. Tail(execq) \in Seq(Entries)
    BY <1>1, <2>1, FrontAndRest DEF InPosted
  <2>3. pc' \in [Threads -> Steps] /\ pc'[Run] = "idle"
    BY <1>1, <2>1, Going DEF Steps
  <2>4. ~InPosted'
    BY <2>3 DEF InPosted
  <2> QED
    BY <1>1, <2>1, <2>2, <2>3, <2>4 DEF EntityTypeOK
<1>7. CASE DoStart \/ DoStartFails \/ DoStop \/ CallbackReturns
  <2>1. /\ UNCHANGED <<m_started, have_cbs, call, execq>>
        /\ execq # <<>> \/ (pc[Run] = "callback")
        /\ \/ Goto(Run, "callback") /\ ret' = ret
           \/ Goto(Run, "posted_done") /\ ret' = ret
           \/ CallClose(Run, "posted_done")
    BY <1>7 DEF DoStart, DoStartFails, DoStop, CallbackReturns, Posted, entityVars
  <2>2. execq # <<>>
    BY <1>1, <2>1 DEF InPosted
  <2>3. pc' \in [Threads -> Steps] /\ ret' \in [Threads -> Returns]
    BY <1>1, <2>1, Going, Closing DEF Steps, Returns
  <2> QED
    BY <1>1, <2>1, <2>2, <2>3 DEF EntityTypeOK
<1>8. CASE StartReturns \/ UNCHANGED vars
  BY <1>1, <1>8 DEF StartReturns, vars, control, entityVars, EntityTypeOK, InPosted
<1>9. CASE Dispatch \/ MessageTrue \/ MessageFalse
  <2>1. /\ UNCHANGED <<m_started, have_cbs, call, execq>>
        /\ \/ pc' = pc /\ ret' = ret
           \/ Goto(Run, "msg_hdlr") /\ ret' = ret
           \/ Goto(Run, "idle") /\ ret' = ret
           \/ CallClose(Run, "idle")
    BY <1>9 DEF Dispatch, HandleMessage, ReadFails, WriteDone, WriteFails, MessageTrue,
       MessageFalse, control, entityVars
  <2>2. /\ pc' \in [Threads -> Steps] /\ ret' \in [Threads -> Returns]
        /\ InPosted' => InPosted
    BY <1>1, <2>1, Going, Closing DEF Steps, Returns, InPosted
  <2> QED
    BY <1>1, <2>1, <2>2 DEF EntityTypeOK
<1> QED
  BY <1>4, <1>5, <1>6, <1>7, <1>8, <1>9 DEF Next, PostedStep

LEMMA LocalTypeInv == Spec => []LocalType
<1>1. Init => LocalType
  <2> SUFFICES ASSUME Init PROVE LocalType
    OBVIOUS
  <2>1. EntityTypeOK /\ execq \in Seq({"start", "stop"} \X Callers)
    <3>1. m_started = 0 /\ have_cbs = FALSE /\ execq = <<>> /\ call = [t \in Callers |-> "idle"]
      BY DEF Init, EntityInit
    <3>2. have_cbs \in BOOLEAN
      BY <3>1
    <3>3. call \in [Callers -> {"idle", "assign", "post_start", "post_stop",
                                "wait", "returned"}]
      BY <3>1
    <3> QED
      BY <3>1, <3>2, <3>3 DEF EntityTypeOK
  <2>2. pc \in [Threads -> Steps] /\ ret \in [Threads -> Returns] /\ pc[Run] = "idle"
    BY DEF Init, Threads, Steps, Returns
  <2>3. m_shutting_down \in BOOLEAN /\ start_told \in BOOLEAN
    BY DEF Init
  <2> QED
    BY <2>1, <2>2, <2>3 DEF Init, LocalType, InPosted
<1>2. LocalType /\ [Next]_vars => LocalType'
  BY CountsStep, ControlStep DEF LocalType
<1> QED
  BY <1>1, <1>2, PTL DEF Spec

\* udp_entity_io, its io_common and what io_output_delivery.hpp hands out keep
\* every field in its type, and a posted function stays queued until it returns.
THEOREM TypeCorrect == Spec => []TypeOK
<1>1. IP!QueueAssumption
  BY UdpAssumption DEF IP!QueueAssumption
<1>2. IP!Spec => []IP!TypeOK
  BY <1>1, IP!TypeCorrect, PTL
<1>3. IP!TypeOK => IC!TypeOK
  BY DEF IP!TypeOK, IC!TypeOK
<1>4. Init => DeliveryTypeOK
  <2> SUFFICES ASSUME Init PROVE DeliveryTypeOK
    OBVIOUS
  <2>1. thrown \in BOOLEAN
    BY DEF Init, DeliveryInit
  <2>2. wq \in Seq(BOOLEAN)
    BY DEF Init, DeliveryInit
  <2> QED
    BY <2>1, <2>2 DEF Init, DeliveryInit, DeliveryTypeOK
<1>5. DeliveryTypeOK /\ [Next]_vars => DeliveryTypeOK'
  BY DeliveryTypeStep
<1>6. IC!TypeOK /\ LocalType /\ DeliveryTypeOK => TypeOK
  <2> SUFFICES ASSUME IC!TypeOK, LocalType, DeliveryTypeOK PROVE TypeOK
    OBVIOUS
  <2>1. {m_shutting_down, start_told} \subseteq BOOLEAN
    BY DEF LocalType
  <2>2. /\ EntityTypeOK /\ execq \in Seq({"start", "stop"} \X Callers)
        /\ socket \in {"none", "open", "closed"}
        /\ {reads, deadReads, ups, downs, starts, stops, msgs} \subseteq Nat
        /\ deadWrites \subseteq writing
    BY DEF LocalType
  <2>3. /\ pc \in [Threads -> {"idle", "callback", "msg_hdlr", "read", "posted_done",
                               "close", "mark", "clear", "shut", "tell"}]
        /\ ret \in [Threads -> {"idle", "callback", "msg_hdlr", "posted_done"}]
    BY DEF LocalType, Steps, Returns
  <2> QED
    BY <2>1, <2>2, <2>3 DEF TypeOK
<1> QED
  BY <1>2, <1>3, <1>4, <1>5, <1>6, UsesIoCommon, SameIoCommon, LocalTypeInv, PTL DEF Spec

=============================================================================
