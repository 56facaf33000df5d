-------------------------- MODULE TcpAcceptor_proofs --------------------------
(***************************************************************************)
(* Proofs about tcp_acceptor and the send_to_all that it reports to, for   *)
(* any number of connections, senders and calls, for every choice of what  *)
(* may fail, and even when stop overlaps start.                            *)
(*                                                                         *)
(* QueueInv is about the run thread and its queue alone; from it follow    *)
(* ToldBeforeNextAccept and HandlersAreLive.  SendInv adds the lock of     *)
(* send_to_all and its outputs, from which the rest follows.               *)
(***************************************************************************)
EXTENDS TcpAcceptor, FiniteSetTheorems, TLAPS

-----------------------------------------------------------------------------
(* The run thread and its queue.                                           *)

\* the function at the head of execq is being executed, and which kind it is
InPosted == step \in {"posted_done", "close", "stop_ios", "notify_in_close",
                      "close_acceptor"}
InCallback == step = "callback" \/ (step = "notify" /\ back = "callback")

IsEntry(i, fn) == execq[i][1] = fn
Places == 1..Len(execq)

\* what the run thread is in the middle of, and where it returns to
Control ==
    /\ InPosted => /\ execq # <<>>
                   /\ IsEntry(1, "start") \/ IsEntry(1, "stop")
                   /\ step # "posted_done" => back = "posted_done"
    /\ InCallback => /\ execq # <<>>
                     /\ IsEntry(1, "state_chg") /\ execq[1][2] = current
                     /\ back = "callback" /\ ups[current] > 0
    /\ step = "idle" => back = "idle"
    /\ step = "notify" => back \in {"idle", "callback"}
    /\ step \in {"callback", "notify", "notify_in_close"} =>
         current \in Handlers /\ ioh[current] # "none"
    /\ step \in {"notify", "notify_in_close"} => ioh[current] = "closed"
    /\ step \in {"stop_ios", "notify_in_close", "close_acceptor"} => m_shutting_down

\* tcp_io objects are made in order
InOrder ==
    /\ \E n \in 0..MaxConns : \A h \in Handlers : ioh[h] = "none" <=> h > n
    /\ \A h \in iohs : ioh[h] # "none"

\* start is won once, and posted once; until it is executed there is no accept
StartOnce ==
    /\ \A t \in Callers : call[t] \in {"assign", "post_start"} =>
         /\ m_started # 0 /\ ~accepting
         /\ \A u \in Callers : call[u] \in {"assign", "post_start"} => u = t
         /\ \A i \in Places : ~IsEntry(i, "start") /\ ~IsEntry(i, "accepted")
    /\ \A i \in Places : IsEntry(i, "start") =>
         /\ m_started # 0
         /\ \A j \in Places : IsEntry(j, "start") => j = i
         /\ \/ i = 1 /\ InPosted
            \/ ~accepting /\ \A j \in Places : ~IsEntry(j, "accepted")
    /\ m_started = 0 => ~accepting /\ \A i \in Places : ~IsEntry(i, "accepted")

\* one accept is outstanding, or completed and not handled; there is then a
\* tcp_io left to make
OneAccept ==
    \A i \in Places : IsEntry(i, "accepted") =>
        /\ ~accepting
        /\ \A j \in Places : IsEntry(j, "accepted") => j = i
        /\ \E h \in Handlers : ioh[h] = "none"

\* a new connection waits for its report, which is ahead of the next accept
Reports ==
    /\ \A h \in Handlers : ioh[h] = "none" => ups[h] = 0
    /\ \A h \in Handlers : ioh[h] = "started" => ups[h] > 0
    /\ \A h \in Untold : \E i \in Places : execq[i] = <<"state_chg", h>>
    /\ \A i \in Places : IsEntry(i, "state_chg") =>
         /\ execq[i][2] \in Handlers
         /\ ioh[execq[i][2]] # "none"
         /\ \A j \in Places : IsEntry(j, "state_chg") => j = i
         /\ \A j \in Places : IsEntry(j, "accepted") => i < j
         /\ \/ i = 1 /\ InCallback
            \/ /\ ups[execq[i][2]] = 0
               /\ m_shutting_down \/ ioh[execq[i][2]] = "new"

Containers ==
    /\ step \notin {"notify", "notify_in_close"} => m_io_handlers = Live
    /\ step \in {"notify", "notify_in_close"} => m_io_handlers \ {current} = Live
    /\ counted

\* the part of TypeOK that is about the acceptor
QueueTypeOK ==
    /\ EntityTypeOK
    /\ execq \in Seq({"start", "stop", "accepted", "accept_error", "state_chg"}
                        \X (Callers \cup Handlers \cup {0}))
    /\ m_io_handlers \subseteq Handlers
    /\ iohs \subseteq Handlers
    /\ {m_shutting_down, listening, accepting, counted} \subseteq BOOLEAN
    /\ ioh \in [Handlers -> {"none", "new", "started", "closed"}]
    /\ {step, back} \subseteq {"idle", "posted_done", "close", "stop_ios", "close_acceptor",
                               "callback", "notify", "notify_in_close"}
    /\ current \in Handlers \cup {0}
    /\ ups \in [Handlers -> Nat] /\ downs \in [Handlers -> Nat]

QueueInv ==
    /\ QueueTypeOK
    /\ Control
    /\ InOrder
    /\ StartOnce
    /\ OneAccept
    /\ Reports
    /\ Containers

-----------------------------------------------------------------------------
(* Lemmas about the queue.                                                 *)

Entries == {"start", "stop", "accepted", "accept_error", "state_chg"}
              \X (Callers \cup Handlers \cup {0})

\* Posting a function leaves the places of the others alone.
LEMMA Posting ==
    ASSUME NEW q \in Seq(Entries), NEW e \in Entries
    PROVE  /\ Append(q, e) \in Seq(Entries)
           /\ Len(Append(q, e)) = Len(q) + 1
           /\ \A i \in 1..Len(q) : Append(q, e)[i] = q[i]
           /\ Append(q, e)[Len(q) + 1] = e
           /\ \A i \in 1..Len(Append(q, e)) :
                \/ i \in 1..Len(q) /\ Append(q, e)[i] = q[i]
                \/ i = Len(q) + 1 /\ Append(q, e)[i] = e
  OBVIOUS

\* Taking the function at the head moves the others one place up.
LEMMA Taking ==
    ASSUME NEW q \in Seq(Entries), q # <<>>
    PROVE  /\ Tail(q) \in Seq(Entries)
           /\ Len(q) \in Nat \ {0}
           /\ Len(Tail(q)) = Len(q) - 1
           /\ \A i \in 1..(Len(q) - 1) : Tail(q)[i] = q[i + 1]
           /\ Head(q) = q[1] /\ Head(q) \in Entries
  OBVIOUS

\* The function at the head is the one at place 1.
LEMMA HeadIs ==
    ASSUME QueueTypeOK, NEW fn, Posted(fn)
    PROVE  /\ execq # <<>> /\ 1 \in Places /\ IsEntry(1, fn)
           /\ Head(execq) = execq[1]
<1>1. execq \in Seq(Entries)
  BY DEF QueueTypeOK, Entries
<1> QED
  BY <1>1, Taking DEF Posted, Places, IsEntry

\* There is a tcp_io left to make when not all were made, and NewHandler is
\* the first of them.
LEMMA NewHandlerIsNext ==
    ASSUME InOrder, ioh \in [Handlers -> {"none", "new", "started", "closed"}],
           \E h \in Handlers : ioh[h] = "none"
    PROVE  /\ NewHandler \in Handlers /\ ioh[NewHandler] = "none"
           /\ \A h \in Handlers : ioh[h] = "none" <=> h >= NewHandler
<1> USE SendToAllAssumption DEF Handlers, Outputs
<1>1. PICK n \in 0..MaxConns : \A h \in Handlers : ioh[h] = "none" <=> h > n
  BY DEF InOrder
<1>2. n + 1 \in Handlers /\ ioh[n + 1] = "none" /\ \A g \in 1..n : ioh[g] # "none"
  BY <1>1
<1>3. /\ NewHandler \in Handlers /\ ioh[NewHandler] = "none"
      /\ \A g \in 1..(NewHandler - 1) : ioh[g] # "none"
  BY <1>2 DEF NewHandler
<1> QED
  BY <1>1, <1>3

\* async_accept succeeds only when there is.
LEMMA HandlerLeft ==
    ASSUME Cardinality({h \in Handlers : ioh[h] # "none"}) < MaxConns
    PROVE  \E h \in Handlers : ioh[h] = "none"
<1>1. Cardinality(Handlers) = MaxConns
  BY FS_Interval, SendToAllAssumption DEF Handlers, Outputs
<1>2. {h \in Handlers : ioh[h] # "none"} # Handlers
  BY <1>1, SendToAllAssumption
<1> QED
  BY <1>2

-----------------------------------------------------------------------------
(* QueueInv is inductive: one lemma for each of its conjuncts.             *)

\* Senders and writes do not touch what QueueInv is about.
SendStep ==
    \/ \E t \in Senders : SenderCalls(t) \/ SenderGoesOn(t)
    \/ \E h \in Handlers : Writes(h)

LEMMA SendStepUnseen ==
    ASSUME SendStep \/ UNCHANGED vars
    PROVE  UNCHANGED <<entityVars, run, acceptor, history>>
  BY DEF SendStep, SenderCalls, SenderGoesOn, Writes, vars

LEMMA UnseenKeeps ==
    ASSUME QueueInv, UNCHANGED <<entityVars, run, acceptor, history>>
    PROVE  QueueInv'
<1>1. /\ UNCHANGED <<m_started, have_cbs, call, execq, step, back, current, iohs>>
      /\ UNCHANGED <<m_io_handlers, m_shutting_down, listening, accepting, ioh>>
      /\ UNCHANGED <<ups, downs, counted>>
  BY DEF entityVars, run, acceptor, history
<1>2. QueueTypeOK'
  BY <1>1 DEF QueueInv, QueueTypeOK, EntityTypeOK
<1>3. Control' /\ InOrder'
  BY <1>1 DEF QueueInv, Control, InOrder, InPosted, InCallback, IsEntry
<1>4. StartOnce' /\ OneAccept'
  BY <1>1 DEF QueueInv, StartOnce, OneAccept, InPosted, IsEntry, Places
<1>5. Reports' /\ Containers'
  BY <1>1 DEF QueueInv, Reports, Containers, InCallback, IsEntry, Places, Untold, Live
<1> QED
  BY <1>2, <1>3, <1>4, <1>5 DEF QueueInv

LEMMA TypeStep ==
    ASSUME QueueInv, Next
    PROVE  QueueTypeOK'
<1> USE SendToAllAssumption DEF Handlers, Outputs
<1>0. QueueTypeOK /\ EntityTypeOK /\ execq \in Seq(Entries)
  BY DEF QueueInv, QueueTypeOK, Entries
<1>1. ASSUME NEW t \in Callers, CallerBegins(t) PROVE QueueTypeOK'
  <2>1. UNCHANGED <<execq, run, acceptor, history>>
    BY <1>1 DEF CallerBegins, StartCas, StopCas
  <2>2. EntityTypeOK'
    BY <1>0, <1>1 DEF CallerBegins, StartCas, StopCas, CallGoto, EntityTypeOK
  <2> QED
    BY <1>0, <2>1, <2>2 DEF QueueTypeOK, run, acceptor, history
<1>2. ASSUME NEW t \in Callers, CallerGoesOn(t) PROVE QueueTypeOK'
  <2>1. UNCHANGED <<run, acceptor, history>> /\ CallStep(t)
    BY <1>2 DEF CallerGoesOn
  <2>2. EntityTypeOK'
    BY <1>0, <2>1 DEF CallStep, StartAssign, StartPost, StopPost, CallGoto, EntityTypeOK
  <2>3. execq' \in Seq(Entries)
    <3>1. <<"start", t>> \in Entries /\ <<"stop", t>> \in Entries
      BY DEF Entries
    <3> QED
      BY <1>0, <2>1, <3>1, Posting DEF CallStep, StartAssign, StartPost, StopPost
  <2> QED
    BY <1>0, <2>1, <2>2, <2>3 DEF QueueTypeOK, run, acceptor, history, Entries
<1>3. CASE DoStart \/ DoStop
  BY <1>0, <1>3 DEF DoStart, DoStop, entityVars, acceptor, history, QueueTypeOK, EntityTypeOK
<1>4. CASE EndOfPosted \/ AcceptDropped \/ CallbackReturns
  <2>1. execq # <<>>
    BY <1>4 DEF EndOfPosted, AcceptDropped, CallbackReturns, Posted, Control, InPosted,
       InCallback, QueueInv
  <2>2. execq' = Tail(execq) /\ EntityTypeOK'
    BY <1>0, <1>4 DEF EndOfPosted, AcceptDropped, CallbackReturns, PostedDone,
       CallGoto, Taken, EntityTypeOK
  <2>3. UNCHANGED <<current, iohs, acceptor, history>> /\ {step', back'} \subseteq {"idle", step, back}
    BY <1>4 DEF EndOfPosted, AcceptDropped, CallbackReturns, run
  <2> QED
    BY <1>0, <2>1, <2>2, <2>3, Taking DEF acceptor, history, Entries, QueueTypeOK
<1>5. CASE Close \/ StopNextIo \/ StoppedIos
  <2>1. CASE Close
    <3>1. /\ m_started' \in {m_started, 2} /\ iohs' \in {iohs, m_io_handlers}
          /\ step' \in {back, "stop_ios"}
      BY <2>1, Zenon DEF Close
    <3>3. m_shutting_down' \in BOOLEAN
      BY <1>0, <2>1, Zenon DEF Close, QueueTypeOK
    <3>2. /\ UNCHANGED <<have_cbs, call, execq, back, current, m_io_handlers>>
          /\ UNCHANGED <<listening, accepting, ioh, ups, downs, counted>>
      BY <2>1 DEF Close, history
    <3> QED
      BY <1>0, <3>1, <3>2, <3>3 DEF QueueTypeOK, EntityTypeOK
  <2>2. CASE StopNextIo \/ StoppedIos
    BY <1>0, <2>2 DEF StopNextIo, StoppedIos, entityVars, acceptor, history, QueueTypeOK,
       EntityTypeOK
  <2> QED
    BY <1>5, <2>1, <2>2
<1>6. CASE CloseAcceptor \/ AcceptCompletes
  <2>1. <<"accepted", 0>> \in Entries /\ <<"accept_error", 0>> \in Entries
    BY DEF Entries
  <2>2. execq' \in Seq(Entries)
    BY <1>0, <1>6, <2>1, Posting DEF CloseAcceptor, AcceptCompletes
  <2> QED
    BY <1>0, <1>6, <2>2 DEF CloseAcceptor, AcceptCompletes, run, history, Entries, QueueTypeOK,
       EntityTypeOK
<1>7. CASE Accepted
  <2>1. NewHandler \in Handlers
    BY <1>7, HeadIs, NewHandlerIsNext DEF Accepted, OneAccept, QueueInv, QueueTypeOK
  <2>2. <<"state_chg", NewHandler>> \in Entries
    BY <2>1 DEF Entries
  <2>3. execq' \in Seq(Entries)
    BY <1>0, <1>7, <2>2, Taking, Posting DEF Accepted, Posted
  <2> QED
    BY <1>0, <1>7, <2>1, <2>3 DEF Accepted, run, history, Entries, QueueTypeOK, EntityTypeOK
<1>8. CASE TellNew
  <2>1. current' \in Handlers
    BY <1>0, <1>8, HeadIs DEF TellNew, Reports, QueueInv
  <2>2. /\ ups' \in [Handlers -> Nat]
        /\ UNCHANGED <<downs, iohs, m_io_handlers, m_shutting_down, listening, accepting, ioh>>
        /\ UNCHANGED <<m_started, have_cbs, call, execq>>
        /\ step' = "callback" /\ back' = "callback"
    BY <1>0, <1>8 DEF TellNew, Tell, entityVars, acceptor, QueueTypeOK
  <2>3. counted' \in BOOLEAN
    BY <1>8, Zenon DEF TellNew, Tell
  <2> QED
    BY <1>0, <2>1, <2>2, <2>3 DEF QueueTypeOK, EntityTypeOK
<1>9. CASE CallbackStartIo \/ CallbackCloses
  BY <1>0, <1>9 DEF CallbackStartIo, CallbackCloses, entityVars, run, history, QueueTypeOK,
     EntityTypeOK
<1>10. ASSUME NEW h \in Handlers, IoCloses(h) PROVE QueueTypeOK'
  BY <1>0, <1>10 DEF IoCloses, entityVars, history, QueueTypeOK, EntityTypeOK
<1>11. CASE Notify
  <2>1. /\ downs' \in [Handlers -> Nat] /\ m_io_handlers' \subseteq Handlers
        /\ UNCHANGED <<ups, iohs, current, back, m_shutting_down, listening, accepting, ioh>>
        /\ UNCHANGED <<m_started, have_cbs, call, execq>>
        /\ step' \in {back, "stop_ios"}
    BY <1>0, <1>11 DEF Notify, Tell, entityVars, QueueTypeOK
  <2>2. counted' \in BOOLEAN
    BY <1>11, Zenon DEF Notify, Tell
  <2> QED
    BY <1>0, <2>1, <2>2 DEF QueueTypeOK, EntityTypeOK
<1>12. CASE SendStep
  BY <1>12, SendStepUnseen, UnseenKeeps DEF QueueInv
<1> QED
  BY <1>1, <1>2, <1>3, <1>4, <1>5, <1>6, <1>7, <1>8, <1>9, <1>10, <1>11, <1>12
     DEF Next, RunStep, SendStep

LEMMA ControlStep ==
    ASSUME QueueInv, Next
    PROVE  Control'
<1>0. QueueTypeOK /\ Control /\ execq \in Seq(Entries)
  BY DEF QueueInv, QueueTypeOK, Entries
<1>1. ASSUME NEW t \in Callers, CallerBegins(t) PROVE Control'
  BY <1>0, <1>1 DEF CallerBegins, StartCas, StopCas, run, acceptor, history, Control,
     InPosted, InCallback, IsEntry
<1>2. ASSUME NEW t \in Callers, CallerGoesOn(t) PROVE Control'
  <2>1. UNCHANGED <<run, acceptor, history>> /\ CallStep(t)
    BY <1>2 DEF CallerGoesOn
  <2>2. <<"start", t>> \in Entries /\ <<"stop", t>> \in Entries
    BY DEF Entries
  <2>3. execq # <<>> => execq' # <<>> /\ execq'[1] = execq[1]
    <3>1. \/ UNCHANGED execq
          \/ execq' = Append(execq, <<"start", t>>)
          \/ execq' = Append(execq, <<"stop", t>>)
      BY <2>1 DEF CallStep, StartAssign, StartPost, StopPost
    <3> QED
      BY <1>0, <2>2, <3>1, Posting
  <2> QED
    BY <1>0, <2>1, <2>3 DEF run, acceptor, history, Control, InPosted, InCallback, IsEntry
<1>3. CASE DoStart \/ DoStop
  BY <1>0, <1>3, HeadIs DEF DoStart, DoStop, entityVars, acceptor, history, Control,
     InPosted, InCallback, IsEntry
<1>4. CASE EndOfPosted \/ AcceptDropped \/ CallbackReturns
  BY <1>0, <1>4 DEF EndOfPosted, AcceptDropped, CallbackReturns, run, acceptor, history,
     Control, InPosted, InCallback
<1>5. CASE Close \/ StopNextIo \/ StoppedIos
  <2>1. CASE Close
    BY <1>0, <2>1 DEF Close, history, Control, InPosted, InCallback, IsEntry
  <2>2. CASE StopNextIo
    BY <1>0, <2>2 DEF StopNextIo, entityVars, history, Control, InPosted, InCallback,
       IsEntry, QueueTypeOK
  <2>3. CASE StoppedIos
    BY <1>0, <2>3 DEF StoppedIos, entityVars, acceptor, history, Control, InPosted,
       InCallback, IsEntry
  <2> QED
    BY <1>5, <2>1, <2>2, <2>3
<1>6. CASE CloseAcceptor \/ AcceptCompletes
  <2>1. <<"accepted", 0>> \in Entries /\ <<"accept_error", 0>> \in Entries
    BY DEF Entries
  <2>2. execq # <<>> => execq' # <<>> /\ execq'[1] = execq[1]
    BY <1>0, <1>6, <2>1, Posting DEF CloseAcceptor, AcceptCompletes
  <2> QED
    BY <1>0, <1>6, <2>2 DEF CloseAcceptor, AcceptCompletes, run, history, Control, InPosted,
       InCallback, IsEntry
<1>7. CASE Accepted
  BY <1>0, <1>7 DEF Accepted, run, history, Control, InPosted, InCallback
<1>8. CASE TellNew
  <2>1. /\ current \in Handlers \cup {0} /\ ups[current'] \in Nat /\ current' \in Handlers
        /\ ioh[current'] # "none" /\ IsEntry(1, "state_chg") /\ execq[1][2] = current'
    BY <1>0, <1>8, HeadIs DEF TellNew, Reports, QueueInv, QueueTypeOK
  <2>2. /\ ups'[current'] > 0 /\ step' = "callback" /\ back' = "callback"
        /\ UNCHANGED <<execq, ioh>> /\ execq # <<>>
    BY <1>0, <1>8, <2>1, HeadIs DEF TellNew, Tell, entityVars, acceptor, QueueTypeOK
  <2> QED
    BY <2>1, <2>2 DEF Control, InPosted, InCallback, IsEntry
<1>9. CASE CallbackStartIo \/ CallbackCloses
  BY <1>0, <1>9 DEF CallbackStartIo, CallbackCloses, entityVars, run, history, Control,
     InPosted, InCallback, IsEntry, QueueTypeOK
<1>10. ASSUME NEW h \in Handlers, IoCloses(h) PROVE Control'
  BY <1>0, <1>10 DEF IoCloses, entityVars, history, Control, InPosted, InCallback, IsEntry,
     QueueTypeOK
<1>11. CASE Notify
  BY <1>0, <1>11 DEF Notify, Tell, entityVars, Control, InPosted, InCallback, IsEntry
<1>12. CASE SendStep
  BY <1>12, SendStepUnseen, UnseenKeeps DEF QueueInv
<1> QED
  BY <1>1, <1>2, <1>3, <1>4, <1>5, <1>6, <1>7, <1>8, <1>9, <1>10, <1>11, <1>12
     DEF Next, RunStep, SendStep

\* Only an accept makes a tcp_io, and none is unmade.
LEMMA MadeStep ==
    ASSUME QueueInv, Next, ~Accepted
    PROVE  \A h \in Handlers : ioh'[h] = "none" <=> ioh[h] = "none"
<1>0. QueueTypeOK /\ Control /\ InOrder
  BY DEF QueueInv
<1>1. UNCHANGED ioh \/ StopNextIo \/ CallbackStartIo \/ CallbackCloses
        \/ \E h \in Handlers : IoCloses(h)
  <2>1. CASE SendStep
    BY <2>1, SendStepUnseen DEF acceptor
  <2>2. CASE \E t \in Callers : CallerBegins(t) \/ CallerGoesOn(t)
    BY <2>2 DEF CallerBegins, CallerGoesOn, acceptor
  <2> QED
    BY <2>1, <2>2 DEF Next, RunStep, SendStep, DoStart, DoStop, EndOfPosted, Close, StoppedIos,
       CloseAcceptor, AcceptDropped, AcceptCompletes, TellNew, CallbackReturns, Notify, acceptor
<1>2. CASE StopNextIo
  BY <1>0, <1>2 DEF StopNextIo, InOrder, QueueTypeOK
<1>3. CASE CallbackStartIo \/ CallbackCloses
  BY <1>0, <1>3 DEF CallbackStartIo, CallbackCloses, Control, QueueTypeOK
<1>4. CASE \E h \in Handlers : IoCloses(h)
  BY <1>0, <1>4 DEF IoCloses, QueueTypeOK
<1> QED
  BY <1>1, <1>2, <1>3, <1>4

LEMMA InOrderStep ==
    ASSUME QueueInv, Next
    PROVE  InOrder'
<1> USE SendToAllAssumption DEF Handlers, Outputs
<1>0. QueueTypeOK /\ InOrder
  BY DEF QueueInv
<1>1. CASE Accepted
  <2>1. /\ NewHandler \in Handlers /\ ioh[NewHandler] = "none"
        /\ \A h \in Handlers : ioh[h] = "none" <=> h >= NewHandler
    BY <1>0, <1>1, HeadIs, NewHandlerIsNext DEF Accepted, OneAccept, QueueInv, QueueTypeOK
  <2>2. ioh' = [ioh EXCEPT ![NewHandler] = "new"] /\ UNCHANGED iohs
    BY <1>1 DEF Accepted, run
  <2>3. \A h \in Handlers : ioh'[h] = "none" <=> h > NewHandler
    BY <1>0, <2>1, <2>2 DEF QueueTypeOK
  <2> QED
    BY <1>0, <2>1, <2>2, <2>3 DEF InOrder, QueueTypeOK
<1>2. CASE ~Accepted
  <2>1. \A h \in Handlers : ioh'[h] = "none" <=> ioh[h] = "none"
    BY <1>2, MadeStep
  <2>2. \A h \in iohs' : h \in Handlers /\ ioh[h] # "none"
    <3>1. iohs' \subseteq iohs \/ Close
      <4>1. CASE SendStep
        BY <4>1, SendStepUnseen DEF run
      <4>2. CASE \E t \in Callers : CallerBegins(t) \/ CallerGoesOn(t)
        BY <4>2 DEF CallerBegins, CallerGoesOn, run
      <4> QED
        BY <1>2, <4>1, <4>2 DEF Next, RunStep, SendStep, DoStart, DoStop, EndOfPosted,
           StopNextIo, StoppedIos, CloseAcceptor, AcceptDropped, AcceptCompletes, TellNew,
           CallbackStartIo, CallbackCloses, CallbackReturns, IoCloses, Notify, run
    <3>2. CASE Close
      BY <1>0, <3>2 DEF Close, Containers, QueueInv, Live, InOrder, QueueTypeOK
    <3> QED
      BY <1>0, <3>1, <3>2 DEF InOrder, QueueTypeOK
  <2> QED
    BY <1>0, <2>1, <2>2 DEF InOrder
<1> QED
  BY <1>1, <1>2

\* What happens to the queue: nothing, a function is posted, or the one at
\* the head is done (and, for an accept, the report is posted).
LEMMA QueueStep ==
    ASSUME QueueInv, Next
    PROVE  \/ UNCHANGED execq
           \/ \E t \in Callers :
                \/ StartPost(t) /\ execq' = Append(execq, <<"start", t>>)
                \/ StopPost(t) /\ execq' = Append(execq, <<"stop", t>>)
           \/ CloseAcceptor /\ execq' = Append(execq, <<"accept_error", 0>>)
           \/ AcceptCompletes /\ execq' = Append(execq, <<"accept_error", 0>>)
           \/ /\ AcceptCompletes /\ \E h \in Handlers : ioh[h] = "none"
              /\ execq' = Append(execq, <<"accepted", 0>>)
           \/ /\ EndOfPosted \/ AcceptDropped \/ CallbackReturns
              /\ execq # <<>> /\ execq' = Tail(execq)
           \/ Accepted /\ execq' = Append(Tail(execq), <<"state_chg", NewHandler>>)
<1>1. CASE SendStep
  BY <1>1, SendStepUnseen DEF entityVars
<1>2. CASE \E t \in Callers : CallerBegins(t) \/ CallerGoesOn(t)
  BY <1>2 DEF CallerBegins, CallerGoesOn, StartCas, StopCas, CallStep, StartAssign,
     StartPost, StopPost
<1>3. CASE EndOfPosted \/ AcceptDropped \/ CallbackReturns
  <2>1. execq # <<>>
    BY <1>3 DEF EndOfPosted, AcceptDropped, CallbackReturns, Posted, Control, InPosted,
       InCallback, QueueInv
  <2> QED
    BY <1>3, <2>1 DEF EndOfPosted, AcceptDropped, CallbackReturns, PostedDone, Taken
<1>4. CASE CloseAcceptor \/ AcceptCompletes \/ Accepted
  BY <1>4, HandlerLeft DEF CloseAcceptor, AcceptCompletes, Accepted
<1> QED
  BY <1>1, <1>2, <1>3, <1>4 DEF Next, RunStep, SendStep, DoStart, DoStop, Close, StopNextIo,
     StoppedIos, TellNew, CallbackStartIo, CallbackCloses, IoCloses, Notify, entityVars

LEMMA StartOnceStep ==
    ASSUME QueueInv, Next
    PROVE  StartOnce'
<1>0. QueueTypeOK /\ EntityTypeOK /\ Control /\ StartOnce /\ execq \in Seq(Entries)
  BY DEF QueueInv, QueueTypeOK, Entries
<1>1. ASSUME NEW t \in Callers, CallerBegins(t) PROVE StartOnce'
  <2>1. UNCHANGED <<execq, step, accepting>>
    BY <1>1 DEF CallerBegins, StartCas, StopCas, run, acceptor
  <2>2. CASE StartCas(t)
    BY <1>0, <2>1, <2>2 DEF StartCas, CallGoto, StartOnce, InPosted, IsEntry, Places,
       EntityTypeOK
  <2>3. CASE StopCas(t)
    BY <1>0, <2>1, <2>3 DEF StopCas, CallGoto, StartOnce, InPosted, IsEntry, Places,
       EntityTypeOK
  <2> QED
    BY <1>1, <2>2, <2>3 DEF CallerBegins
<1>2. ASSUME NEW t \in Callers, CallerGoesOn(t) PROVE StartOnce'
  <2>1. UNCHANGED <<step, accepting, m_started>>
    BY <1>2 DEF CallerGoesOn, CallStep, StartAssign, StartPost, StopPost, run, acceptor
  <2>2. CASE StartAssign(t)
    BY <1>0, <2>1, <2>2 DEF StartAssign, CallGoto, StartOnce, InPosted, IsEntry, Places,
       EntityTypeOK
  <2>3. CASE StartPost(t)
    <3>1. <<"start", t>> \in Entries
      BY DEF Entries
    <3>2. /\ Len(execq') = Len(execq) + 1 /\ execq'[Len(execq) + 1] = <<"start", t>>
          /\ \A i \in Places : execq'[i] = execq[i]
      BY <1>0, <2>3, <3>1, Posting DEF StartPost, Places
    <3>3. \A u \in Callers : call'[u] \notin {"assign", "post_start"}
      BY <1>0, <2>3 DEF StartPost, CallGoto, StartOnce, EntityTypeOK
    <3>4. /\ m_started # 0 /\ ~accepting
          /\ \A i \in Places : ~IsEntry(i, "start") /\ ~IsEntry(i, "accepted")
      BY <1>0, <2>3 DEF StartPost, StartOnce
    <3>5. \A i \in Places' : i \in Places \/ i = Len(execq) + 1
      BY <1>0, <3>2 DEF Places
    <3> QED
      BY <2>1, <3>2, <3>3, <3>4, <3>5 DEF StartOnce, InPosted, IsEntry
  <2>4. CASE StopPost(t)
    <3>1. <<"stop", t>> \in Entries
      BY DEF Entries
    <3>2. /\ Len(execq') = Len(execq) + 1 /\ execq'[Len(execq) + 1] = <<"stop", t>>
          /\ \A i \in Places : execq'[i] = execq[i]
      BY <1>0, <2>4, <3>1, Posting DEF StopPost, Places
    <3>3. \A u \in Callers : call'[u] \in {"assign", "post_start"}
                               => call[u] \in {"assign", "post_start"}
      BY <1>0, <2>4 DEF StopPost, CallGoto, EntityTypeOK
    <3>5. \A i \in Places' : i \in Places \/ i = Len(execq) + 1
      BY <1>0, <3>2 DEF Places
    <3> QED
      BY <1>0, <2>1, <3>2, <3>3, <3>5 DEF StartOnce, InPosted, IsEntry
  <2> QED
    BY <1>2, <2>2, <2>3, <2>4 DEF CallerGoesOn, CallStep
<1>3. CASE DoStart
  <2>1. /\ 1 \in Places /\ IsEntry(1, "start") /\ InPosted'
        /\ UNCHANGED <<m_started, call, execq>>
    BY <1>0, <1>3, HeadIs DEF DoStart, entityVars, InPosted
  <2> QED
    BY <1>0, <2>1 DEF StartOnce, IsEntry, Places
<1>4. CASE DoStop
  BY <1>0, <1>4 DEF DoStop, entityVars, acceptor, StartOnce, InPosted, IsEntry, Places
<1>5. CASE EndOfPosted \/ AcceptDropped \/ CallbackReturns
  <2>1. execq # <<>> /\ execq' = Tail(execq)
    BY <1>5 DEF EndOfPosted, AcceptDropped, CallbackReturns, Posted, Control, InPosted,
       InCallback, QueueInv, PostedDone, Taken
  <2>2. UNCHANGED <<accepting, m_started>>
        /\ \A u \in Callers : call'[u] \in {"assign", "post_start"}
                               => call[u] \in {"assign", "post_start"}
    BY <1>0, <1>5 DEF EndOfPosted, AcceptDropped, CallbackReturns, PostedDone, CallGoto, Taken,
       acceptor, EntityTypeOK
  <2>3. \A i \in Places' : /\ i \in Nat /\ i + 1 \in Places /\ i + 1 # 1
                           /\ execq'[i] = execq[i + 1]
    BY <1>0, <2>1, Taking DEF Places
  <2>4. ASSUME NEW i \in Places', IsEntry(i, "start")'
        PROVE  /\ m_started' # 0
               /\ \A j \in Places' : IsEntry(j, "start")' => j = i
               /\ ~accepting' /\ \A j \in Places' : ~IsEntry(j, "accepted")'
    BY <1>0, <2>2, <2>3, <2>4 DEF StartOnce, IsEntry
  <2>5. \A j \in Places' : \A fn : IsEntry(j, fn)' => j + 1 \in Places /\ IsEntry(j + 1, fn)
    BY <2>3 DEF IsEntry
  <2> QED
    BY <1>0, <2>2, <2>4, <2>5 DEF StartOnce
<1>6. CASE Close \/ StopNextIo \/ StoppedIos
  <2>1. UNCHANGED <<call, execq, accepting>> /\ (m_started = 0 \/ m_started' # 0)
    BY <1>6 DEF Close, StopNextIo, StoppedIos, entityVars, acceptor
  <2>2. m_started' = m_started \/ m_started' = 2
    BY <1>6 DEF Close, StopNextIo, StoppedIos, entityVars
  <2>3. InPosted' /\ InPosted
    BY <1>0, <1>6 DEF Close, StopNextIo, StoppedIos, InPosted, Control
  <2> QED
    BY <1>0, <2>1, <2>2, <2>3 DEF StartOnce, IsEntry, Places
<1>7. CASE CloseAcceptor
  <2>1. <<"accept_error", 0>> \in Entries
    BY DEF Entries
  <2>2. accepting' = FALSE /\ UNCHANGED <<m_started, call>> /\ InPosted' /\ InPosted
    BY <1>0, <1>7 DEF CloseAcceptor, InPosted, Control
  <2>3. \A i \in Places' : \/ i \in Places /\ execq'[i] = execq[i]
                           \/ execq'[i] = <<"accept_error", 0>>
    BY <1>0, <1>7, <2>1, Posting DEF CloseAcceptor, Places
  <2>4. \A i \in Places' : \A fn \in {"start", "accepted"} :
            IsEntry(i, fn)' => i \in Places /\ IsEntry(i, fn)
    BY <2>3 DEF IsEntry
  <2> QED
    BY <1>0, <2>2, <2>4 DEF StartOnce
<1>8. CASE AcceptCompletes
  <2>1. <<"accepted", 0>> \in Entries /\ <<"accept_error", 0>> \in Entries
    BY DEF Entries
  <2>2. accepting /\ accepting' = FALSE /\ UNCHANGED <<m_started, call, step>>
    BY <1>8 DEF AcceptCompletes, run
  <2>3. \A i \in Places' : \/ i \in Places /\ execq'[i] = execq[i]
                           \/ execq'[i] = <<"accept_error", 0>>
                           \/ execq'[i] = <<"accepted", 0>>
    <3>1. \/ execq' = Append(execq, <<"accept_error", 0>>)
          \/ execq' = Append(execq, <<"accepted", 0>>)
      BY <1>8 DEF AcceptCompletes
    <3>2. CASE execq' = Append(execq, <<"accept_error", 0>>)
      BY <1>0, <2>1, <3>2, Posting DEF Places
    <3>3. CASE execq' = Append(execq, <<"accepted", 0>>)
      BY <1>0, <2>1, <3>3, Posting DEF Places
    <3> QED
      BY <3>1, <3>2, <3>3
  <2> QED
    BY <1>0, <2>2, <2>3 DEF StartOnce, IsEntry, InPosted
<1>9. CASE Accepted
  <2>1. /\ 1 \in Places /\ IsEntry(1, "accepted") /\ ~InPosted
        /\ UNCHANGED <<m_started, call>> /\ execq # <<>>
    BY <1>0, <1>9, HeadIs DEF Accepted, InPosted
  <2>2. \A i \in Places : ~IsEntry(i, "start")
    BY <1>0, <2>1 DEF StartOnce
  <2>3. <<"state_chg", NewHandler>> \in Entries
    BY <1>9, HeadIs, NewHandlerIsNext DEF Accepted, OneAccept, QueueInv, QueueTypeOK, Entries
  <2>4. \A i \in Places' : \/ i + 1 \in Places /\ execq'[i] = execq[i + 1]
                           \/ execq'[i] = <<"state_chg", NewHandler>>
    BY <1>0, <1>9, <2>1, <2>3, Taking, Posting DEF Accepted, Places
  <2>5. \A i \in Places' : ~IsEntry(i, "start")'
    BY <2>2, <2>4 DEF IsEntry
  <2> QED
    BY <1>0, <2>1, <2>5 DEF StartOnce
<1>10. CASE TellNew \/ CallbackStartIo \/ CallbackCloses \/ Notify
            \/ \E h \in Handlers : IoCloses(h)
  <2>1. UNCHANGED <<m_started, call, execq, accepting>>
    BY <1>10 DEF TellNew, CallbackStartIo, CallbackCloses, Notify, IoCloses, entityVars, acceptor
  <2>2. InPosted => InPosted'
    BY <1>10 DEF TellNew, CallbackStartIo, CallbackCloses, Notify, IoCloses, run, InPosted
  <2> QED
    BY <1>0, <2>1, <2>2 DEF StartOnce, IsEntry, Places
<1>11. CASE SendStep
  BY <1>11, SendStepUnseen, UnseenKeeps DEF QueueInv
<1>12. CASE \E t \in Callers : CallerBegins(t) \/ CallerGoesOn(t)
  BY <1>1, <1>2, <1>12
<1> QED
  BY <1>3, <1>4, <1>5, <1>6, <1>7, <1>8, <1>9, <1>10, <1>11, <1>12
     DEF Next, RunStep, SendStep

\* The queue after a step of each kind, place by place.
LEMMA QueuePosted ==
    ASSUME QueueInv, NEW e \in Entries, execq' = Append(execq, e)
    PROVE  /\ \A i \in Places : i \in Places' /\ execq'[i] = execq[i]
           /\ \A i \in Places' : \/ i \in Places /\ execq'[i] = execq[i]
                                 \/ i = Len(execq) + 1 /\ execq'[i] = e
           /\ Len(execq) + 1 \in Places' /\ execq'[Len(execq) + 1] = e
           /\ Len(execq) \in Nat
           /\ \A i \in Places : i \in Nat /\ i < Len(execq) + 1
<1>1. execq \in Seq(Entries)
  BY DEF QueueInv, QueueTypeOK, Entries
<1> QED
  BY <1>1, Posting DEF Places

LEMMA QueueTaken ==
    ASSUME QueueInv, execq # <<>>, execq' = Tail(execq)
    PROVE  /\ 1 \in Places
           /\ \A i \in Places' : /\ i \in Nat /\ i >= 1
                                 /\ i + 1 \in Places /\ execq'[i] = execq[i + 1]
           /\ \A i \in Places : i = 1 \/ (i - 1 \in Places' /\ execq'[i - 1] = execq[i])
<1>1. execq \in Seq(Entries)
  BY DEF QueueInv, QueueTypeOK, Entries
<1>2. /\ Len(execq) \in Nat \ {0} /\ Len(execq') = Len(execq) - 1
      /\ \A i \in 1..(Len(execq) - 1) : execq'[i] = execq[i + 1]
  BY <1>1, Taking
<1>3. 1 \in Places /\ \A i \in Places' : i \in 1..(Len(execq) - 1) /\ i + 1 \in Places
  BY <1>2 DEF Places
<1>4. \A i \in Places : i = 1 \/ (i - 1 \in 1..(Len(execq) - 1) /\ i = (i - 1) + 1)
  BY <1>2 DEF Places
<1>5. \A i \in 1..(Len(execq) - 1) : i \in Places'
  BY <1>2 DEF Places
<1> QED
  BY <1>2, <1>3, <1>4, <1>5

LEMMA QueueAccepted ==
    ASSUME QueueInv, Accepted
    PROVE  /\ NewHandler \in Handlers /\ ioh[NewHandler] = "none"
           /\ 1 \in Places /\ IsEntry(1, "accepted") /\ execq # <<>>
           /\ \A i \in Places' : \/ i + 1 \in Places /\ i + 1 # 1 /\ execq'[i] = execq[i + 1]
                                 \/ i = Len(execq) /\ execq'[i] = <<"state_chg", NewHandler>>
           /\ Len(execq) \in Nat /\ \A i \in Places' : i \in Nat /\ i <= Len(execq)
           /\ \A i \in Places : i = 1 \/ (i - 1 \in Places' /\ execq'[i - 1] = execq[i])
           /\ Len(execq) \in Places' /\ execq'[Len(execq)] = <<"state_chg", NewHandler>>
<1>1. execq \in Seq(Entries)
  BY DEF QueueInv, QueueTypeOK, Entries
<1>2. NewHandler \in Handlers /\ ioh[NewHandler] = "none" /\ <<"state_chg", NewHandler>> \in Entries
  BY HeadIs, NewHandlerIsNext DEF Accepted, OneAccept, QueueInv, QueueTypeOK, Entries
<1>3. 1 \in Places /\ IsEntry(1, "accepted") /\ execq # <<>>
  BY HeadIs DEF Accepted, QueueInv
<1>4. /\ Tail(execq) \in Seq(Entries) /\ Len(Tail(execq)) = Len(execq) - 1
      /\ Len(execq) \in Nat \ {0}
      /\ \A i \in 1..(Len(execq) - 1) : Tail(execq)[i] = execq[i + 1]
  BY <1>1, <1>3, Taking
<1>5. execq' = Append(Tail(execq), <<"state_chg", NewHandler>>)
  BY DEF Accepted
<1>6. /\ Len(execq') = Len(execq) /\ execq'[Len(execq)] = <<"state_chg", NewHandler>>
      /\ \A i \in 1..(Len(execq) - 1) : execq'[i] = execq[i + 1]
  BY <1>2, <1>4, <1>5, Posting
<1>7. DEFINE n == Len(execq)
<1>8. n \in Nat \ {0} /\ Places = 1..n /\ Places' = 1..n
  BY <1>4, <1>6 DEF Places
<1>9. /\ execq'[n] = <<"state_chg", NewHandler>>
      /\ \A i \in 1..(n - 1) : execq'[i] = execq[i + 1]
  BY <1>6
<1>10. QED
  <2> HIDE DEF n
  <2>1. \A i \in 1..n : (i + 1 \in 1..n /\ i + 1 # 1 /\ i \in 1..(n - 1)) \/ i = n
    BY <1>8
  <2>2. \A i \in 1..n : i = 1 \/ (i - 1 \in 1..n /\ i - 1 \in 1..(n - 1) /\ i = (i - 1) + 1)
    BY <1>8
  <2>3. \A i \in Places' : \/ i + 1 \in Places /\ i + 1 # 1 /\ execq'[i] = execq[i + 1]
                           \/ i = n /\ execq'[i] = <<"state_chg", NewHandler>>
    BY <1>8, <1>9, <2>1
  <2>4. \A i \in Places : i = 1 \/ (i - 1 \in Places' /\ execq'[i - 1] = execq[i])
    BY <1>8, <1>9, <2>2
  <2>5. n \in Places' /\ \A i \in Places' : i \in Nat /\ i <= n
    BY <1>8
  <2> QED
    BY <1>2, <1>3, <1>8, <1>9, <2>3, <2>4, <2>5 DEF n

LEMMA OneAcceptStep ==
    ASSUME QueueInv, Next
    PROVE  OneAccept'
<1>0. OneAccept /\ StartOnce /\ QueueTypeOK /\ Control
  BY DEF QueueInv
<1>1. CASE Accepted
  <2>1. ASSUME NEW i \in Places', IsEntry(i, "accepted")' PROVE FALSE
    <3>1. i + 1 \in Places /\ i + 1 # 1 /\ IsEntry(i + 1, "accepted")
      BY <1>1, <2>1, QueueAccepted DEF IsEntry
    <3>2. 1 \in Places /\ IsEntry(1, "accepted")
      BY <1>1, QueueAccepted
    <3> QED
      BY <1>0, <3>1, <3>2 DEF OneAccept
  <2> QED
    BY <2>1 DEF OneAccept
<1>2. CASE /\ AcceptCompletes /\ \E h \in Handlers : ioh[h] = "none"
           /\ execq' = Append(execq, <<"accepted", 0>>)
  <2>1. <<"accepted", 0>> \in Entries
    BY DEF Entries
  <2>2. accepting /\ ~accepting' /\ UNCHANGED ioh
    BY <1>2 DEF AcceptCompletes
  <2>3. \A i \in Places' : IsEntry(i, "accepted")' => i = Len(execq) + 1
    BY <1>0, <1>2, <2>1, <2>2, QueuePosted DEF OneAccept, IsEntry
  <2> QED
    BY <1>2, <2>2, <2>3 DEF OneAccept
<1>3. CASE /\ ~Accepted
           /\ \/ UNCHANGED execq
              \/ \E e \in Entries : e[1] # "accepted" /\ execq' = Append(execq, e)
              \/ execq # <<>> /\ execq' = Tail(execq)
  <2>1. (\E h \in Handlers : ioh[h] = "none") => \E h \in Handlers : ioh'[h] = "none"
    BY <1>3, MadeStep
  <2>2. accepting' => accepting \/ DoStart
    <3>1. CASE SendStep
      BY <3>1, SendStepUnseen DEF acceptor
    <3>2. CASE \E t \in Callers : CallerBegins(t) \/ CallerGoesOn(t)
      BY <3>2 DEF CallerBegins, CallerGoesOn, acceptor
    <3> QED
      BY <1>3, <3>1, <3>2 DEF Next, RunStep, SendStep, DoStop, EndOfPosted, Close, StopNextIo,
         StoppedIos, CloseAcceptor, AcceptDropped, AcceptCompletes, TellNew, CallbackStartIo,
         CallbackCloses, CallbackReturns, IoCloses, Notify, acceptor
  <2>3. DoStart => \A i \in Places : ~IsEntry(i, "accepted")
    BY <1>0, HeadIs DEF DoStart, StartOnce, InPosted
  <2>4. CASE UNCHANGED execq
    BY <1>0, <2>1, <2>2, <2>3, <2>4 DEF OneAccept, IsEntry, Places
  <2>5. CASE \E e \in Entries : e[1] # "accepted" /\ execq' = Append(execq, e) /\ ~DoStart
    BY <1>0, <2>1, <2>2, <2>5, QueuePosted DEF OneAccept, IsEntry
  <2>6. CASE execq # <<>> /\ execq' = Tail(execq) /\ ~DoStart
    <3>1. \A i \in Places' : /\ i \in Nat
                             /\ IsEntry(i, "accepted")' => i + 1 \in Places /\ IsEntry(i + 1, "accepted")
      BY <2>6, QueueTaken DEF IsEntry
    <3> QED
      BY <1>0, <2>1, <2>2, <2>6, <3>1 DEF OneAccept
  <2>7. DoStart => UNCHANGED execq
    BY DEF DoStart, entityVars
  <2> QED
    BY <1>3, <2>4, <2>5, <2>6, <2>7
<1> QED
  <2>1. \A t \in Callers : <<"start", t>> \in Entries /\ <<"stop", t>> \in Entries
    BY DEF Entries
  <2>2. <<"accept_error", 0>> \in Entries
    BY DEF Entries
  <2> QED
    BY <1>1, <1>2, <1>3, <2>1, <2>2, QueueStep

LEMMA ReportsStep ==
    ASSUME QueueInv, Next
    PROVE  Reports'
<1>0. QueueTypeOK /\ Control /\ InOrder /\ StartOnce /\ OneAccept /\ Reports
  BY DEF QueueInv
<1>1. ASSUME UNCHANGED <<ioh, ups, m_shutting_down>>, InCallback => InCallback',
             \E e \in Entries : e[1] # "state_chg" /\ execq' = Append(execq, e)
      PROVE  Reports'
  <2>1. PICK e \in Entries : e[1] # "state_chg" /\ execq' = Append(execq, e)
    BY <1>1
  <2>2. /\ \A i \in Places : i \in Places' /\ execq'[i] = execq[i]
        /\ \A i \in Places' : i \in Places \/ ~IsEntry(i, "state_chg")'
        /\ \A i \in Places : \A j \in Places' : j \in Places \/ i < j
    BY <2>1, QueuePosted DEF IsEntry
  <2>3. \A h \in Untold' : \E i \in Places' : execq'[i] = <<"state_chg", h>>
    BY <1>0, <1>1, <2>2 DEF Reports, Untold
  <2>4. ASSUME NEW i \in Places', IsEntry(i, "state_chg")'
        PROVE  i \in Places /\ IsEntry(i, "state_chg") /\ execq'[i] = execq[i]
    BY <2>2, <2>4 DEF IsEntry
  <2>5. ASSUME NEW i \in Places, IsEntry(i, "state_chg"), NEW j \in Places'
        PROVE  /\ IsEntry(j, "state_chg")' => j = i
               /\ IsEntry(j, "accepted")' => i < j
    BY <1>0, <2>2, <2>4, <2>5 DEF Reports, IsEntry
  <2>6. ASSUME NEW i \in Places, IsEntry(i, "state_chg")
        PROVE  /\ execq[i][2] \in Handlers /\ ioh[execq[i][2]] # "none"
               /\ \/ i = 1 /\ InCallback
                  \/ /\ ups[execq[i][2]] = 0
                     /\ m_shutting_down \/ ioh[execq[i][2]] = "new"
    BY <1>0, <2>6 DEF Reports
  <2>7. /\ \A h \in Handlers : ioh[h] = "none" => ups[h] = 0
        /\ \A h \in Handlers : ioh[h] = "started" => ups[h] > 0
    BY <1>0 DEF Reports
  <2> QED
    BY <1>1, <2>3, <2>4, <2>5, <2>6, <2>7 DEF Reports
<1>2. ASSUME UNCHANGED <<ioh, ups, m_shutting_down>>, execq # <<>>, execq' = Tail(execq),
             ~InCallback, ~IsEntry(1, "state_chg")
      PROVE  Reports'
  <2>1. /\ 1 \in Places
        /\ \A i \in Places' : /\ i \in Nat /\ i >= 1
                              /\ i + 1 \in Places /\ execq'[i] = execq[i + 1]
        /\ \A i \in Places : i = 1 \/ (i - 1 \in Places' /\ execq'[i - 1] = execq[i])
    BY <1>2, QueueTaken
  <2>2. \A h \in Untold' : \E i \in Places' : execq'[i] = <<"state_chg", h>>
    <3>1. Untold' = Untold
      BY <1>2 DEF Untold
    <3>2. ASSUME NEW h \in Untold PROVE \E i \in Places' : execq'[i] = <<"state_chg", h>>
      <4>1. PICK i \in Places : execq[i] = <<"state_chg", h>>
        BY <1>0 DEF Reports
      <4>2. i # 1
        BY <1>2, <4>1 DEF IsEntry
      <4> QED
        BY <2>1, <4>1, <4>2
    <3> QED
      BY <3>1, <3>2
  <2>3. ASSUME NEW i \in Places', IsEntry(i, "state_chg")'
        PROVE  /\ execq'[i][2] \in Handlers
               /\ ioh'[execq'[i][2]] # "none"
               /\ \A j \in Places' : IsEntry(j, "state_chg")' => j = i
               /\ \A j \in Places' : IsEntry(j, "accepted")' => i < j
               /\ ups'[execq'[i][2]] = 0
               /\ m_shutting_down' \/ ioh'[execq'[i][2]] = "new"
    <3>1. i + 1 \in Places /\ IsEntry(i + 1, "state_chg") /\ execq'[i] = execq[i + 1]
      BY <2>1, <2>3 DEF IsEntry
    <3>2. \A j \in Places' : /\ IsEntry(j, "state_chg")' => j + 1 = i + 1
                             /\ IsEntry(j, "accepted")' => i + 1 < j + 1
      BY <1>0, <2>1, <3>1 DEF Reports, IsEntry
    <3>3. \A j \in Places' : (j + 1 = i + 1 => j = i) /\ (i + 1 < j + 1 => i < j)
      BY <2>1
    <3>4. i + 1 # 1
      BY <2>1
    <3>5. /\ execq[i + 1][2] \in Handlers /\ ioh[execq[i + 1][2]] # "none"
          /\ ups[execq[i + 1][2]] = 0
          /\ m_shutting_down \/ ioh[execq[i + 1][2]] = "new"
      BY <1>0, <1>2, <3>1, <3>4 DEF Reports
    <3> QED
      BY <1>2, <3>1, <3>2, <3>3, <3>5
  <2> QED
    BY <1>0, <1>2, <2>2, <2>3 DEF Reports
<1>3. ASSUME NEW t \in Callers, CallerBegins(t) PROVE Reports'
  BY <1>0, <1>3 DEF CallerBegins, StartCas, StopCas, run, acceptor, history, Reports, Untold,
     Places, IsEntry, InCallback
<1>4. ASSUME NEW t \in Callers, CallerGoesOn(t) PROVE Reports'
  <2>1. UNCHANGED <<ioh, ups, m_shutting_down, step, back>>
    BY <1>4 DEF CallerGoesOn, run, acceptor, history
  <2>2. <<"start", t>> \in Entries /\ <<"stop", t>> \in Entries
    BY DEF Entries
  <2>3. \/ UNCHANGED execq \/ execq' = Append(execq, <<"start", t>>)
        \/ execq' = Append(execq, <<"stop", t>>)
    BY <1>4 DEF CallerGoesOn, CallStep, StartAssign, StartPost, StopPost
  <2>4. CASE UNCHANGED execq
    BY <1>0, <2>1, <2>4 DEF Reports, Untold, Places, IsEntry, InCallback
  <2> QED
    BY <1>1, <2>1, <2>2, <2>3, <2>4 DEF InCallback
<1>5. CASE CloseAcceptor \/ AcceptCompletes
  <2>1. <<"accepted", 0>> \in Entries /\ <<"accept_error", 0>> \in Entries
    BY DEF Entries
  <2>2. UNCHANGED <<ioh, ups, m_shutting_down>> /\ (InCallback => InCallback')
    BY <1>5 DEF CloseAcceptor, AcceptCompletes, run, history, InCallback
  <2>3. \/ UNCHANGED execq \/ execq' = Append(execq, <<"accepted", 0>>)
        \/ execq' = Append(execq, <<"accept_error", 0>>)
    BY <1>5 DEF CloseAcceptor, AcceptCompletes
  <2>4. CASE UNCHANGED execq
    BY <1>0, <2>2, <2>4 DEF Reports, Untold, Places, IsEntry
  <2> QED
    BY <1>1, <2>1, <2>2, <2>3, <2>4
<1>6. CASE EndOfPosted \/ AcceptDropped
  <2>1. UNCHANGED <<ioh, ups, m_shutting_down>>
    BY <1>6 DEF EndOfPosted, AcceptDropped, acceptor, history
  <2>2. ~InCallback /\ execq # <<>> /\ ~IsEntry(1, "state_chg") /\ execq' = Tail(execq)
    BY <1>0, <1>6, HeadIs DEF EndOfPosted, AcceptDropped, InCallback, Control, InPosted,
       PostedDone, Taken, IsEntry
  <2> QED
    BY <1>2, <2>1, <2>2
<1>7. CASE CallbackReturns
  <2>1. UNCHANGED <<ioh, ups, m_shutting_down>> /\ execq' = Tail(execq) /\ InCallback
    BY <1>7 DEF CallbackReturns, Taken, acceptor, history, InCallback
  <2>2. /\ execq # <<>> /\ IsEntry(1, "state_chg") /\ execq[1][2] = current
        /\ ups[current] > 0 /\ current \in Handlers /\ 1 \in Places
    BY <1>0, <1>7, <2>1, QueueTaken DEF Control, CallbackReturns
  <2>3. \A i \in Places : IsEntry(i, "state_chg") => i = 1
    BY <1>0, <2>2 DEF Reports
  <2>4. Untold = {}
    BY <1>0, <2>2, <2>3 DEF Reports, Untold, IsEntry
  <2>5. \A i \in Places' : i \in Nat /\ i >= 1 /\ i + 1 \in Places /\ execq'[i] = execq[i + 1]
    BY <2>1, <2>2, QueueTaken
  <2>6. \A i \in Places' : ~IsEntry(i, "state_chg")'
    BY <2>3, <2>5 DEF IsEntry
  <2> QED
    BY <1>0, <2>1, <2>4, <2>6 DEF Reports, Untold
<1>8. CASE Accepted
  <2>1. /\ NewHandler \in Handlers /\ ioh[NewHandler] = "none"
        /\ 1 \in Places /\ IsEntry(1, "accepted") /\ execq # <<>>
        /\ Len(execq) \in Places' /\ execq'[Len(execq)] = <<"state_chg", NewHandler>>
    BY <1>8, QueueAccepted
  <2>2. \A i \in Places : ~IsEntry(i, "state_chg") /\ (IsEntry(i, "accepted") => i = 1)
    <3>1. \A i \in Places : i \in Nat /\ ~(i < 1)
      BY DEF Places
    <3> QED
      BY <1>0, <2>1, <3>1 DEF Reports, OneAccept
  <2>3. \A i \in Places' : /\ IsEntry(i, "state_chg")' => i = Len(execq)
                           /\ ~IsEntry(i, "accepted")'
    <3>1. \A i \in Places' : \/ i + 1 \in Places /\ i + 1 # 1 /\ execq'[i] = execq[i + 1]
                             \/ i = Len(execq) /\ execq'[i] = <<"state_chg", NewHandler>>
      BY <1>8, QueueAccepted
    <3> QED
      BY <2>2, <3>1 DEF IsEntry
  <2>4. UNCHANGED <<ups, m_shutting_down>> /\ ioh' = [ioh EXCEPT ![NewHandler] = "new"]
    BY <1>8 DEF Accepted, history
  <2>5. Untold = {} /\ Untold' \subseteq {NewHandler}
    <3>1. Untold = {}
      <4>1. \A h \in Untold : \E i \in Places : execq[i] = <<"state_chg", h>>
        BY <1>0 DEF Reports
      <4> QED
        BY <2>2, <4>1 DEF IsEntry
    <3> QED
      BY <1>0, <2>1, <2>4, <3>1 DEF Untold, QueueTypeOK
  <2>6. ups[NewHandler] = 0 /\ ioh'[NewHandler] = "new"
    BY <1>0, <2>1, <2>4 DEF Reports, QueueTypeOK
  <2>7. \A h \in Handlers : /\ ioh'[h] = "none" => ups'[h] = 0
                            /\ ioh'[h] = "started" => ups'[h] > 0
    BY <1>0, <2>4 DEF Reports, QueueTypeOK
  <2> QED
    BY <2>1, <2>3, <2>4, <2>5, <2>6, <2>7 DEF Reports
<1>9. CASE TellNew
  <2>1. /\ 1 \in Places /\ IsEntry(1, "state_chg") /\ execq[1] = Head(execq)
    BY <1>0, <1>9, HeadIs DEF TellNew
  <2>2. /\ UNCHANGED <<execq, ioh, m_shutting_down>> /\ InCallback'
        /\ ups' = [ups EXCEPT ![execq[1][2]] = @ + 1]
    BY <1>9, <2>1 DEF TellNew, Tell, entityVars, acceptor, InCallback
  <2>3. execq[1][2] \in Handlers /\ ioh[execq[1][2]] # "none"
    BY <1>0, <2>1 DEF Reports
  <2>4. /\ \A h \in Handlers : ioh'[h] = "none" => ups'[h] = 0
        /\ \A h \in Handlers : ioh'[h] = "started" => ups'[h] > 0
        /\ Untold' \subseteq Untold
    BY <1>0, <2>2, <2>3 DEF Reports, Untold, QueueTypeOK
  <2> QED
    BY <1>0, <2>1, <2>2, <2>4 DEF Reports, Places, IsEntry
<1>10. CASE CallbackStartIo \/ CallbackCloses
  <2>1. /\ InCallback /\ InCallback' /\ UNCHANGED <<execq, ups, m_shutting_down>>
        /\ ioh' \in {[ioh EXCEPT ![current] = "started"], [ioh EXCEPT ![current] = "closed"]}
    BY <1>0, <1>10 DEF CallbackStartIo, CallbackCloses, Control, InCallback, entityVars, run,
       history
  <2>2. /\ execq # <<>> /\ IsEntry(1, "state_chg") /\ execq[1][2] = current
        /\ ups[current] > 0 /\ current \in Handlers /\ 1 \in Places /\ ioh[current] # "none"
    <3>1. execq \in Seq(Entries)
      BY <1>0 DEF QueueTypeOK, Entries
    <3>2. execq # <<>>
      BY <1>0, <2>1 DEF Control
    <3> QED
      BY <1>0, <1>10, <2>1, <3>1, <3>2, Taking
         DEF Control, CallbackStartIo, CallbackCloses, Places
  <2>3. \A i \in Places : IsEntry(i, "state_chg") => i = 1
    BY <1>0, <2>2 DEF Reports
  <2>4. /\ \A h \in Handlers : ioh'[h] = "none" => ups'[h] = 0
        /\ \A h \in Handlers : ioh'[h] = "started" => ups'[h] > 0
        /\ Untold' = Untold /\ ioh'[current] # "none"
    BY <1>0, <2>1, <2>2 DEF Reports, Untold, QueueTypeOK
  <2> QED
    BY <1>0, <2>1, <2>2, <2>3, <2>4 DEF Reports, Places, IsEntry
<1>11. CASE Close \/ StopNextIo \/ StoppedIos \/ DoStart \/ DoStop
  <2>1. /\ UNCHANGED <<execq, ups>> /\ ~InCallback
        /\ m_shutting_down => m_shutting_down'
    BY <1>11 DEF Close, StopNextIo, StoppedIos, DoStart, DoStop, InCallback, entityVars,
       acceptor, history
  <2>2. UNCHANGED ioh \/ StopNextIo
    BY <1>11 DEF Close, StoppedIos, DoStart, DoStop, acceptor
  <2>3. CASE UNCHANGED ioh
    BY <1>0, <2>1, <2>3 DEF Reports, Untold, Places, IsEntry
  <2>4. CASE StopNextIo
    <3>1. PICK h \in iohs : ioh' = [ioh EXCEPT ![h] = "closed"]
      BY <2>4 DEF StopNextIo
    <3>2. m_shutting_down /\ m_shutting_down' /\ h \in Handlers /\ ioh[h] # "none"
      BY <1>0, <2>1, <2>4 DEF StopNextIo, Control, InOrder, QueueTypeOK
    <3>3. /\ \A g \in Handlers : ioh'[g] = "none" => ups'[g] = 0
          /\ \A g \in Handlers : ioh'[g] = "started" => ups'[g] > 0
          /\ \A g \in Handlers : ioh'[g] = "none" <=> ioh[g] = "none"
          /\ Untold' = Untold
      BY <1>0, <2>1, <3>1, <3>2 DEF Reports, Untold, QueueTypeOK
    <3> QED
      BY <1>0, <2>1, <3>2, <3>3 DEF Reports, Places, IsEntry
  <2> QED
    BY <2>2, <2>3, <2>4
<1>12. ASSUME NEW h \in Handlers, IoCloses(h) PROVE Reports'
  <2>1. /\ UNCHANGED <<execq, ups, m_shutting_down>> /\ ~InCallback
        /\ ioh' = [ioh EXCEPT ![h] = "closed"] /\ ups[h] > 0 /\ ioh[h] # "none"
    BY <1>12 DEF IoCloses, InCallback, entityVars, history
  <2>2. /\ \A g \in Handlers : ioh'[g] = "none" => ups'[g] = 0
        /\ \A g \in Handlers : ioh'[g] = "started" => ups'[g] > 0
        /\ \A g \in Handlers : g # h => ioh'[g] = ioh[g]
        /\ ioh'[h] # "none" /\ Untold' = Untold
    BY <1>0, <2>1 DEF Reports, Untold, QueueTypeOK
  <2>3. \A i \in Places : IsEntry(i, "state_chg") =>
          /\ execq[i][2] \in Handlers /\ ioh'[execq[i][2]] = ioh[execq[i][2]]
    BY <1>0, <2>1, <2>2 DEF Reports
  <2>4. \A g \in Untold' : \E i \in Places' : execq'[i] = <<"state_chg", g>>
    BY <1>0, <2>1, <2>2 DEF Reports, Places
  <2>5. ASSUME NEW i \in Places, IsEntry(i, "state_chg")
        PROVE  /\ execq[i][2] \in Handlers /\ ioh'[execq[i][2]] # "none"
               /\ \A j \in Places : IsEntry(j, "state_chg") => j = i
               /\ \A j \in Places : IsEntry(j, "accepted") => i < j
               /\ ups[execq[i][2]] = 0
               /\ m_shutting_down \/ ioh'[execq[i][2]] = "new"
    BY <1>0, <2>1, <2>3, <2>5 DEF Reports
  <2> QED
    BY <2>1, <2>2, <2>4, <2>5 DEF Reports, Places, IsEntry
<1>13. CASE Notify
  <2>1. UNCHANGED <<execq, ups, m_shutting_down, ioh>> /\ (InCallback => InCallback')
    BY <1>0, <1>13 DEF Notify, Tell, InCallback, entityVars
  <2> QED
    BY <1>0, <2>1 DEF Reports, Untold, Places, IsEntry
<1>14. CASE SendStep
  BY <1>14, SendStepUnseen, UnseenKeeps DEF QueueInv
<1>15. CASE \E t \in Callers : CallerBegins(t) \/ CallerGoesOn(t)
  BY <1>3, <1>4, <1>15
<1> QED
  BY <1>5, <1>6, <1>7, <1>8, <1>9, <1>10, <1>11, <1>12, <1>13, <1>14, <1>15
     DEF Next, RunStep, SendStep

LEMMA ContainersStep ==
    ASSUME QueueInv, Next
    PROVE  Containers'
<1>0. QueueTypeOK /\ Control /\ Containers
  BY DEF QueueInv
<1> DEFINE Notifying == step \in {"notify", "notify_in_close"}
<1>1. ASSUME UNCHANGED <<m_io_handlers, ioh, counted>>, ~Notifying, ~Notifying'
      PROVE  Containers'
  BY <1>0, <1>1 DEF Containers, Live
<1>2. CASE DoStart \/ DoStop \/ EndOfPosted \/ StoppedIos
  BY <1>1, <1>2 DEF DoStart, DoStop, EndOfPosted, StoppedIos, acceptor, history
<1>3. CASE Close \/ CloseAcceptor
  <2>1. UNCHANGED <<m_io_handlers, ioh, counted>> /\ ~Notifying
    BY <1>3 DEF Close, CloseAcceptor, history
  <2>2. ~Notifying'
    BY <1>0, <1>3 DEF Close, CloseAcceptor, Control, InPosted
  <2> QED
    BY <1>1, <2>1, <2>2
<1>4. CASE AcceptCompletes
  BY <1>0, <1>4 DEF AcceptCompletes, run, history, Containers, Live
<1>5. CASE AcceptDropped \/ CallbackReturns
  BY <1>1, <1>5 DEF AcceptDropped, CallbackReturns, run, acceptor, history
<1>6. CASE StopNextIo
  <2>1. PICK h \in iohs : ioh' = [ioh EXCEPT ![h] = "closed"] /\ current' = h
    BY <1>6 DEF StopNextIo
  <2>2. /\ UNCHANGED <<m_io_handlers, counted>> /\ ~Notifying /\ step' = "notify_in_close"
    BY <1>6 DEF StopNextIo, history
  <2> QED
    BY <1>0, <2>1, <2>2 DEF Containers, Live, QueueTypeOK
<1>7. CASE Accepted
  <2>1. /\ UNCHANGED counted /\ step = "idle" /\ step' = "idle"
        /\ ioh' = [ioh EXCEPT ![NewHandler] = "new"]
        /\ m_io_handlers' = m_io_handlers \cup {NewHandler}
    BY <1>7 DEF Accepted, run, history
  <2>2. NewHandler \in Handlers
    BY <1>7, QueueAccepted
  <2>3. Live' = Live \cup {NewHandler}
    BY <1>0, <2>1, <2>2 DEF Live, QueueTypeOK
  <2> QED
    BY <1>0, <2>1, <2>3 DEF Containers
<1>8. CASE TellNew
  <2>1. /\ UNCHANGED <<m_io_handlers, ioh>> /\ step = "idle" /\ step' = "callback"
        /\ counted' = (Cardinality(m_io_handlers) = Cardinality(Live))
    BY <1>8, Zenon DEF TellNew, Tell, acceptor
  <2>2. m_io_handlers = Live
    BY <1>0, <2>1 DEF Containers
  <2>3. counted'
    BY <2>1, <2>2, Zenon
  <2> QED
    BY <2>1, <2>2, <2>3 DEF Containers, Live
<1>9. CASE CallbackStartIo
  <2>1. /\ UNCHANGED <<m_io_handlers, counted>> /\ step = "callback" /\ step' = "callback"
        /\ ioh[current] = "new" /\ ioh' = [ioh EXCEPT ![current] = "started"]
    BY <1>9 DEF CallbackStartIo, run, history
  <2>2. Live' = Live
    BY <1>0, <2>1 DEF Live, QueueTypeOK
  <2> QED
    BY <1>0, <2>1, <2>2 DEF Containers
<1>10. CASE CallbackCloses
  <2>1. /\ UNCHANGED <<m_io_handlers, counted, current>>
        /\ step = "callback" /\ step' = "notify" /\ ioh' = [ioh EXCEPT ![current] = "closed"]
    BY <1>10 DEF CallbackCloses, history
  <2>2. Live' = Live \ {current}
    BY <1>0, <2>1 DEF Live, Control, QueueTypeOK
  <2> QED
    BY <1>0, <2>1, <2>2 DEF Containers
<1>11. ASSUME NEW h \in Handlers, IoCloses(h) PROVE Containers'
  <2>1. /\ UNCHANGED <<m_io_handlers, counted>> /\ current' = h
        /\ step = "idle" /\ step' = "notify" /\ ioh' = [ioh EXCEPT ![h] = "closed"]
    BY <1>11 DEF IoCloses, history
  <2>2. Live' = Live \ {h}
    BY <1>0, <2>1 DEF Live, QueueTypeOK
  <2> QED
    BY <1>0, <2>1, <2>2 DEF Containers
<1>12. CASE Notify
  <2>1. /\ UNCHANGED <<ioh, current>> /\ m_io_handlers' = m_io_handlers \ {current}
        /\ counted' = (Cardinality(m_io_handlers') = Cardinality(Live)) /\ Notifying
    BY <1>12, Zenon DEF Notify, Tell
  <2>2. ~Notifying'
    BY <1>0, <1>12 DEF Notify, Control
  <2>3. m_io_handlers' = Live /\ Live' = Live
    BY <1>0, <2>1 DEF Containers, Live
  <2>4. counted'
    BY <2>1, <2>3, Zenon
  <2> QED
    BY <2>2, <2>3, <2>4 DEF Containers
<1>13. CASE \E t \in Callers : CallerBegins(t) \/ CallerGoesOn(t)
  BY <1>0, <1>13 DEF CallerBegins, CallerGoesOn, run, acceptor, history, Containers, Live
<1>14. CASE SendStep
  BY <1>14, SendStepUnseen, UnseenKeeps DEF QueueInv
<1> QED
  BY <1>2, <1>3, <1>4, <1>5, <1>6, <1>7, <1>8, <1>9, <1>10, <1>11, <1>12, <1>13, <1>14
     DEF Next, RunStep, SendStep

\* QueueInv holds at first.
LEMMA QueueInit ==
    ASSUME Init
    PROVE  QueueInv
<1> USE SendToAllAssumption DEF Handlers, Outputs
<1>1. /\ m_started = 0 /\ have_cbs = FALSE /\ call = [t \in Callers |-> "idle"]
      /\ execq = <<>> /\ m_io_handlers = {} /\ iohs = {} /\ step = "idle" /\ back = "idle"
      /\ current = 0 /\ ioh = [h \in Handlers |-> "none"]
      /\ ups = [h \in Handlers |-> 0] /\ downs = [h \in Handlers |-> 0]
  BY DEF Init, EntityInit
<1>2. m_shutting_down = FALSE /\ listening = FALSE /\ accepting = FALSE /\ counted = TRUE
  BY DEF Init
<1>3. QueueTypeOK
  <2>1. {m_shutting_down, listening, accepting, counted} \subseteq BOOLEAN
    BY <1>2, Zenon
  <2>2. EntityTypeOK
    <3>1. have_cbs \in BOOLEAN
      BY <1>1, Zenon
    <3> QED
      BY <1>1, <3>1 DEF EntityTypeOK
  <2> QED
    BY <1>1, <2>1, <2>2 DEF QueueTypeOK
<1>4. Control /\ OneAccept
  BY <1>1 DEF Control, InPosted, InCallback, OneAccept, Places
<1>5. InOrder
  <2>1. \A h \in Handlers : ioh[h] = "none" <=> h > 0
    BY <1>1
  <2> QED
    BY <1>1, <2>1 DEF InOrder
<1>6. StartOnce
  BY <1>1, <1>2 DEF StartOnce, Places
<1>7. Reports /\ Containers
  BY <1>1, <1>2 DEF Reports, Containers, Places, Untold, Live
<1> QED
  BY <1>3, <1>4, <1>5, <1>6, <1>7 DEF QueueInv

LEMMA QueueInvariant == Spec => []QueueInv
<1>1. Init => QueueInv
  BY QueueInit
<1>2. QueueInv /\ [Next]_vars => QueueInv'
  <2>1. ASSUME QueueInv, UNCHANGED vars PROVE QueueInv'
    BY <2>1, SendStepUnseen, UnseenKeeps
  <2>2. ASSUME QueueInv, Next PROVE QueueInv'
    BY <2>2, TypeStep, ControlStep, InOrderStep, StartOnceStep, OneAcceptStep, ReportsStep,
       ContainersStep DEF QueueInv
  <2> QED
    BY <2>1, <2>2
<1> QED
  BY <1>1, <1>2, PTL DEF Spec

\* start_accept posts the state change callback of a new connection before
\* it accepts again, and the queue of the run thread keeps the order: there
\* is never a second new connection that the application has not been told
\* of, however start, stop and the ends of connections come in between
\* (tcp_acceptor.hpp:218).
THEOREM NewConnectionsToldInTurn == Spec => []ToldBeforeNextAccept
<1>1. ASSUME QueueInv PROVE ToldBeforeNextAccept
  <2>1. \A g, h \in Untold : g = h
    <3>1. SUFFICES ASSUME NEW g \in Untold, NEW h \in Untold PROVE g = h
      OBVIOUS
    <3>2. PICK i \in Places : execq[i] = <<"state_chg", g>>
      BY <1>1 DEF QueueInv, Reports
    <3>3. PICK j \in Places : execq[j] = <<"state_chg", h>>
      BY <1>1 DEF QueueInv, Reports
    <3>4. IsEntry(i, "state_chg") /\ IsEntry(j, "state_chg")
      BY <3>2, <3>3 DEF IsEntry
    <3>5. i = j
      BY <1>1, <3>4 DEF QueueInv, Reports
    <3> QED
      BY <3>2, <3>3, <3>5
  <2>2. CASE Untold = {}
    BY <2>2, FS_EmptySet DEF ToldBeforeNextAccept
  <2>3. CASE \E h \in Untold : Untold = {h}
    BY <2>3, FS_Singleton DEF ToldBeforeNextAccept
  <2> QED
    BY <2>1, <2>2, <2>3
<1> QED
  BY <1>1, QueueInvariant, PTL

\* m_io_handlers holds exactly the connections that are alive, while close
\* walks over a copy of it and notify_me erases from it, and the count given
\* with each state change is the number of connections then open.
THEOREM ContainerIsLive == Spec => []HandlersAreLive
<1>1. ASSUME QueueInv PROVE HandlersAreLive
  BY <1>1 DEF QueueInv, Containers, HandlersAreLive
<1> QED
  BY <1>1, QueueInvariant, PTL

-----------------------------------------------------------------------------
(* send_to_all.                                                            *)

\* one thread at a time, which holds m_mutex, and its buffer is the last one
Locking ==
    \A t \in Senders :
        /\ m_mutex # t => visit[t] = NoVisit
        /\ visit[t].buf \in {0, Len(skips)}

Bounds ==
    /\ Len(skips) <= calls
    /\ \A h \in Outputs :
         /\ queued[h] <= Len(taken[h])
         /\ Len(taken[h]) <= Len(skips)
         /\ \A t \in Senders : visit[t].buf > 0 /\ h \in visit[t].left
                                 => Len(taken[h]) < Len(skips)

\* only a connection that was started took or queued anything, and those
\* that were reported and are open are members
Members ==
    /\ \A h \in Handlers : ioh[h] \notin {"started", "closed"} => taken[h] = <<>>
    /\ \A h \in Handlers : ioh[h] \in {"new", "started"} /\ ups[h] > 0 => h \in io_outs
    /\ ~m_shutting_down =>
         /\ step \notin {"notify", "notify_in_close"} => io_outs = Live \ Untold
         /\ step \in {"notify", "notify_in_close"} => io_outs \ {current} = Live \ Untold

Increasing ==
    \A h \in Handlers :
        /\ \A i \in 1..Len(taken[h]) :
             /\ taken[h][i] \in 1..Len(skips)
             /\ \A t \in Senders : visit[t].buf > 0 /\ h \in visit[t].left
                                     => taken[h][i] < Len(skips)
        /\ \A i, j \in 1..Len(taken[h]) : i < j => taken[h][i] < taken[h][j]

\* the buffer being sent is taken by, still to be offered to, or withheld from
\* each connection that takes part, and no other one is missing
NoneMissed ==
    \A h \in Started : \A n \in 1..Len(skips) :
        taken[h] # <<>> /\ taken[h][1] <= n =>
            \/ Took(h, n)
            \/ skips[n] = h
            \/ \E t \in Senders : visit[t].buf = n /\ h \in visit[t].left

\* a total that is zero so far has found every queue it looked at empty
SumSoFar ==
    \A t \in Senders :
        m_mutex = t /\ visit[t].buf = 0 /\ visit[t].sum = 0 =>
            \A h \in (io_outs \cap Started) \ visit[t].left : queued[h] = 0

SendInv == SendToAllTypeOK /\ Locking /\ Bounds /\ Members /\ Increasing /\ NoneMissed /\ SumSoFar

-----------------------------------------------------------------------------
(* SendInv is inductive, given QueueInv.                                   *)

\* What a step does to the collection: nothing but a state change, which
\* waits for the lock, a step of one sender, or a write.
MutexVars == <<m_mutex, visit, writing, queued, calls, skips, taken>>

LEMMA CollectionStep ==
    ASSUME Next
    PROVE  \/ UNCHANGED MutexVars /\ UNCHANGED io_outs
           \/ /\ UNCHANGED MutexVars /\ m_mutex = NoThread
              /\ TellNew /\ io_outs' = io_outs \cup {current'}
           \/ /\ UNCHANGED MutexVars /\ m_mutex = NoThread
              /\ Notify /\ io_outs' = io_outs \ {current}
           \/ /\ UNCHANGED <<entityVars, run, acceptor, history>>
              /\ \E t \in Senders :
                   \/ Send(t) \/ Total(t) \/ Done(t)
                   \/ \E io \in Outputs : SendNext(t, io, Started) \/ CountNext(t, io, Started)
           \/ /\ UNCHANGED <<entityVars, run, acceptor, history>>
              /\ \E io \in Outputs : Written(io, Started)
<1>1. CASE SendStep
  <2>1. UNCHANGED <<entityVars, run, acceptor, history>>
    BY <1>1, SendStepUnseen
  <2>2. CASE \E t \in Senders : SenderCalls(t) \/ SenderGoesOn(t)
    BY <2>1, <2>2 DEF SenderCalls, SenderGoesOn, SenderStep
  <2>3. CASE \E h \in Handlers : Writes(h)
    BY <2>1, <2>3 DEF Writes, Handlers
  <2> QED
    BY <1>1, <2>2, <2>3 DEF SendStep
<1>2. CASE \E t \in Callers : CallerBegins(t) \/ CallerGoesOn(t)
  BY <1>2 DEF CallerBegins, CallerGoesOn, sendVars, MutexVars
<1>3. CASE TellNew
  BY <1>3 DEF TellNew, Tell, StateChange, MutexVars
<1>4. CASE Notify
  BY <1>4 DEF Notify, Tell, StateChange, MutexVars
<1> QED
  BY <1>1, <1>2, <1>3, <1>4 DEF Next, RunStep, SendStep, DoStart, DoStop, EndOfPosted, Close,
     StopNextIo, StoppedIos, CloseAcceptor, Accepted, AcceptDropped, AcceptCompletes,
     CallbackStartIo, CallbackCloses, CallbackReturns, IoCloses, sendVars, MutexVars

\* Nobody is inside a method when the mutex is free, and only its owner is
\* when it is not.
LEMMA OneVisitor ==
    ASSUME SendInv
    PROVE  /\ m_mutex = NoThread => \A t \in Senders : visit[t] = NoVisit
           /\ \A t \in Senders : visit[t].left # {} \/ visit[t].buf > 0
                 => m_mutex = t /\ \A u \in Senders : u # t => visit[u] = NoVisit
  BY SendToAllAssumption DEF SendInv, Locking, NoVisit

\* What each method does to the thread's visit.
LEMMA SendVisit ==
    ASSUME SendInv, NEW t \in Senders, Send(t)
    PROVE  /\ m_mutex = NoThread /\ m_mutex' = t /\ \A u \in Senders : visit[u] = NoVisit
           /\ \A u \in Senders : u # t => visit'[u] = NoVisit
           /\ visit'[t].buf = Len(skips) + 1 /\ visit'[t].sum = 0
           /\ \E cur_io \in io_outs \cup {NoOutput} :
                /\ visit'[t].left = io_outs \ {cur_io}
                /\ skips' = Append(skips, cur_io)
           /\ visit' \in [Senders -> [left : SUBSET Outputs, buf : Nat, sum : Nat]]
           /\ calls' = calls + 1 /\ calls < MaxCalls
           /\ UNCHANGED <<io_outs, writing, queued, taken>>
<1>1. m_mutex = NoThread /\ \A u \in Senders : visit[u] = NoVisit
  BY OneVisitor DEF Send
<1>2. visit \in [Senders -> [left : SUBSET Outputs, buf : 0..MaxCalls, sum : Nat]]
        /\ Len(skips) \in Nat /\ io_outs \subseteq Outputs
  BY DEF SendInv, SendToAllTypeOK
<1>3. PICK cur_io \in io_outs \cup {NoOutput} :
        /\ visit' = [visit EXCEPT ![t].left = io_outs \ {cur_io}, ![t].buf = Len(skips) + 1]
        /\ skips' = Append(skips, cur_io)
  BY DEF Send
<1>4. /\ visit'[t].left = io_outs \ {cur_io} /\ visit'[t].buf = Len(skips) + 1
      /\ visit'[t].sum = 0
      /\ \A u \in Senders : u # t => visit'[u] = NoVisit
      /\ visit' \in [Senders -> [left : SUBSET Outputs, buf : Nat, sum : Nat]]
  BY <1>1, <1>2, <1>3 DEF NoVisit
<1> QED
  BY <1>1, <1>3, <1>4 DEF Send

LEMMA TotalVisit ==
    ASSUME SendInv, NEW t \in Senders, Total(t)
    PROVE  /\ m_mutex = NoThread /\ m_mutex' = t /\ \A u \in Senders : visit[u] = NoVisit
           /\ \A u \in Senders : u # t => visit'[u] = NoVisit
           /\ visit'[t] = [left |-> io_outs, buf |-> 0, sum |-> 0]
           /\ visit' \in [Senders -> [left : SUBSET Outputs, buf : 0..MaxCalls, sum : Nat]]
           /\ calls' = calls + 1 /\ calls < MaxCalls
           /\ UNCHANGED <<io_outs, writing, queued, skips, taken>>
<1>1. m_mutex = NoThread /\ \A u \in Senders : visit[u] = NoVisit
  BY OneVisitor DEF Total
<1>2. /\ visit \in [Senders -> [left : SUBSET Outputs, buf : 0..MaxCalls, sum : Nat]]
      /\ io_outs \subseteq Outputs /\ MaxCalls \in Nat
  BY SendToAllAssumption DEF SendInv, SendToAllTypeOK
<1>3. visit' = [visit EXCEPT ![t].left = io_outs]
  BY DEF Total
<1>4. /\ visit'[t] = [left |-> io_outs, buf |-> 0, sum |-> 0]
      /\ \A u \in Senders : u # t => visit'[u] = NoVisit
      /\ visit' \in [Senders -> [left : SUBSET Outputs, buf : 0..MaxCalls, sum : Nat]]
  BY <1>1, <1>2, <1>3 DEF NoVisit
<1> QED
  BY <1>1, <1>4 DEF Total

LEMMA NextVisit ==
    ASSUME SendInv, NEW t \in Senders, NEW io \in Outputs,
           SendNext(t, io, Started) \/ CountNext(t, io, Started)
    PROVE  /\ m_mutex = t /\ m_mutex' = t /\ io \in visit[t].left
           /\ \A u \in Senders : u # t => visit[u] = NoVisit /\ visit'[u] = NoVisit
           /\ visit'[t].left = visit[t].left \ {io} /\ visit'[t].buf = visit[t].buf
           /\ SendNext(t, io, Started) => visit[t].buf > 0 /\ visit[t].buf = Len(skips)
           /\ CountNext(t, io, Started) =>
                /\ visit[t].buf = 0
                /\ visit'[t].sum = visit[t].sum + (IF io \in Started THEN queued[io] ELSE 0)
           /\ visit' \in [Senders -> [left : SUBSET Outputs, buf : 0..MaxCalls, sum : Nat]]
           /\ UNCHANGED <<io_outs, calls, skips>>
<1>1. io \in visit[t].left /\ UNCHANGED <<m_mutex, io_outs, calls, skips>>
  BY DEF SendNext, CountNext
<1>2. m_mutex = t /\ \A u \in Senders : u # t => visit[u] = NoVisit
  BY <1>1, OneVisitor
<1>3. /\ visit \in [Senders -> [left : SUBSET Outputs, buf : 0..MaxCalls, sum : Nat]]
      /\ queued \in [Outputs -> 0..MaxCalls]
  BY DEF SendInv, SendToAllTypeOK
<1>4. CASE SendNext(t, io, Started)
  <2>1. visit' = [visit EXCEPT ![t].left = @ \ {io}] /\ visit[t].buf > 0
    BY <1>4 DEF SendNext
  <2>2. visit[t].buf = Len(skips)
    BY <2>1 DEF SendInv, Locking
  <2>3. ~CountNext(t, io, Started)
    BY <1>3, <2>1 DEF CountNext
  <2> QED
    BY <1>1, <1>2, <1>3, <2>1, <2>2, <2>3
<1>5. CASE CountNext(t, io, Started)
  <2>1. /\ visit' = [visit EXCEPT ![t].left = @ \ {io},
                            ![t].sum = @ + (IF io \in Started THEN queued[io] ELSE 0)]
        /\ visit[t].buf = 0
    BY <1>5 DEF CountNext
  <2>2. ~SendNext(t, io, Started)
    BY <1>3, <2>1 DEF SendNext
  <2> DEFINE q == IF io \in Started THEN queued[io] ELSE 0
  <2>3. q \in Nat
    BY <1>3
  <2>4. visit' = [visit EXCEPT ![t].left = visit[t].left \ {io}, ![t].sum = visit[t].sum + q]
    BY <1>3, <2>1
  <2> HIDE DEF q
  <2>5. /\ visit'[t].left = visit[t].left \ {io} /\ visit'[t].buf = visit[t].buf
        /\ visit'[t].sum = visit[t].sum + q
        /\ \A u \in Senders : u # t => visit'[u] = visit[u]
        /\ visit' \in [Senders -> [left : SUBSET Outputs, buf : 0..MaxCalls, sum : Nat]]
    <3>1. /\ visit[t].left \ {io} \in SUBSET Outputs /\ visit[t].buf \in 0..MaxCalls
          /\ visit[t].sum + q \in Nat
      BY <1>3, <2>3
    <3> DEFINE l == visit[t].left \ {io}
               s == visit[t].sum + q
    <3>2. visit' = [visit EXCEPT ![t].left = l, ![t].sum = s]
      BY <2>4
    <3>3. l \in SUBSET Outputs /\ s \in Nat
      BY <3>1
    <3> HIDE DEF l, s
    <3>4. /\ visit'[t].left = l /\ visit'[t].buf = visit[t].buf /\ visit'[t].sum = s
          /\ \A u \in Senders : u # t => visit'[u] = visit[u]
          /\ visit' \in [Senders -> [left : SUBSET Outputs, buf : 0..MaxCalls, sum : Nat]]
      BY <1>3, <3>2, <3>3
    <3> QED
      BY <3>4 DEF l, s
  <2> QED
    BY <1>1, <1>2, <2>1, <2>2, <2>5 DEF q
<1> QED
  BY <1>4, <1>5

\* What send_to_all's own variables must satisfy.
OwnInv == SendToAllTypeOK /\ Locking /\ Bounds /\ Increasing

LEMMA OwnSend ==
    ASSUME SendInv, NEW t \in Senders, Send(t)
    PROVE  OwnInv'
<1>0. /\ SendToAllTypeOK /\ Locking /\ Bounds /\ Increasing
      /\ MaxCalls \in Nat /\ calls \in Nat /\ Len(skips) \in Nat
      /\ \A h \in Outputs : Len(taken[h]) \in Nat /\ queued[h] \in Nat
  BY SendToAllAssumption DEF SendInv, SendToAllTypeOK
<1>1. /\ m_mutex = NoThread /\ m_mutex' = t /\ \A u \in Senders : visit[u] = NoVisit
      /\ \A u \in Senders : u # t => visit'[u] = NoVisit
      /\ visit'[t].buf = Len(skips) + 1
      /\ visit' \in [Senders -> [left : SUBSET Outputs, buf : Nat, sum : Nat]]
      /\ calls' = calls + 1 /\ calls < MaxCalls
      /\ UNCHANGED <<io_outs, writing, queued, taken>>
  BY SendVisit
<1>2. PICK cur_io \in io_outs \cup {NoOutput} :
        visit'[t].left = io_outs \ {cur_io} /\ skips' = Append(skips, cur_io)
  BY SendVisit
<1>3. skips' \in Seq(Outputs \cup {NoOutput}) /\ Len(skips') = Len(skips) + 1
  BY <1>0, <1>2 DEF SendToAllTypeOK
<1>4. visit' \in [Senders -> [left : SUBSET Outputs, buf : 0..MaxCalls, sum : Nat]]
  <2>1. \A u \in Senders : visit'[u].buf \in 0..MaxCalls
    BY <1>0, <1>1 DEF NoVisit, Bounds
  <2> QED
    BY <1>1, <2>1
<1>5. SendToAllTypeOK'
  BY <1>0, <1>1, <1>3, <1>4 DEF SendToAllTypeOK
<1>6. Locking'
  BY <1>0, <1>1, <1>3 DEF Locking, NoVisit
<1>7. Bounds'
  BY <1>0, <1>1, <1>3 DEF Bounds, NoVisit
<1>8. Increasing'
  <2>1. \A h \in Handlers : \A i \in 1..Len(taken[h]) :
           taken[h][i] \in 1..Len(skips') /\ taken[h][i] < Len(skips')
    BY <1>0, <1>3 DEF Increasing
  <2> QED
    BY <1>0, <1>1, <2>1 DEF Increasing
<1> QED
  BY <1>5, <1>6, <1>7, <1>8 DEF OwnInv

LEMMA OwnSendNext ==
    ASSUME SendInv, NEW t \in Senders, NEW io \in Outputs, SendNext(t, io, Started)
    PROVE  OwnInv'
<1>0. /\ SendToAllTypeOK /\ Locking /\ Bounds /\ Increasing
      /\ MaxCalls \in Nat /\ calls \in 0..MaxCalls /\ Len(skips) \in Nat
      /\ \A h \in Outputs : Len(taken[h]) \in Nat /\ queued[h] \in Nat
      /\ taken \in [Outputs -> Seq(1..MaxCalls)] /\ queued \in [Outputs -> 0..MaxCalls]
  BY SendToAllAssumption DEF SendInv, SendToAllTypeOK
<1>1. /\ m_mutex = t /\ m_mutex' = t /\ io \in visit[t].left
      /\ \A u \in Senders : u # t => visit[u] = NoVisit /\ visit'[u] = NoVisit
      /\ visit'[t].left = visit[t].left \ {io} /\ visit'[t].buf = visit[t].buf
      /\ visit[t].buf > 0 /\ visit[t].buf = Len(skips)
      /\ visit' \in [Senders -> [left : SUBSET Outputs, buf : 0..MaxCalls, sum : Nat]]
      /\ UNCHANGED <<io_outs, calls, skips>>
  BY NextVisit
<1>2. Locking'
  BY <1>0, <1>1 DEF Locking
<1>3. CASE io \notin Started
  <2>1. UNCHANGED <<taken, writing, queued>>
    BY <1>3 DEF SendNext
  <2>2. SendToAllTypeOK'
    BY <1>0, <1>1, <2>1 DEF SendToAllTypeOK
  <2>3. \A u \in Senders : visit'[u].buf > 0 => u = t
    BY <1>1 DEF NoVisit
  <2>4. Bounds'
    BY <1>0, <1>1, <2>1, <2>3 DEF Bounds
  <2>5. Increasing'
    BY <1>0, <1>1, <2>1, <2>3 DEF Increasing
  <2> QED
    BY <1>2, <2>2, <2>4, <2>5 DEF OwnInv
<1>4. CASE io \in Started
  <2> DEFINE n == Len(skips)
  <2>1. /\ taken' = [taken EXCEPT ![io] = Append(@, n)]
        /\ writing' = writing \cup {io}
        /\ queued' = [queued EXCEPT ![io] = @ + 1] \/ queued' = queued
    BY <1>1, <1>4 DEF SendNext
  <2>2. n \in 1..MaxCalls /\ n <= calls
    BY <1>0, <1>1 DEF Bounds
  <2>3. /\ Len(taken'[io]) = Len(taken[io]) + 1 /\ taken'[io][Len(taken[io]) + 1] = n
        /\ \A i \in 1..Len(taken[io]) : taken'[io][i] = taken[io][i]
        /\ taken' \in [Outputs -> Seq(1..MaxCalls)]
        /\ \A h \in Outputs : h # io => taken'[h] = taken[h]
    BY <1>0, <2>1, <2>2
  <2>4. /\ queued'[io] \in {queued[io], queued[io] + 1}
        /\ \A h \in Outputs : h # io => queued'[h] = queued[h]
        /\ queued' \in [Outputs -> Nat]
    BY <1>0, <2>1
  <2>5. Len(taken[io]) < n
    BY <1>0, <1>1 DEF Bounds
  <2>6. \A u \in Senders : \A h \in Outputs :
           visit'[u].buf > 0 /\ h \in visit'[u].left
             => u = t /\ h # io /\ h \in visit[t].left
    BY <1>1 DEF NoVisit
  <2>7. Bounds'
    <3>1. queued'[io] <= Len(taken'[io]) /\ Len(taken'[io]) <= n
      BY <1>0, <2>3, <2>4, <2>5 DEF Bounds
    <3>2. ASSUME NEW h \in Outputs, h # io
          PROVE  queued'[h] <= Len(taken'[h]) /\ Len(taken'[h]) <= n
      BY <1>0, <2>3, <2>4, <3>2 DEF Bounds
    <3>3. ASSUME NEW h \in Outputs, NEW u \in Senders, visit'[u].buf > 0, h \in visit'[u].left
          PROVE  Len(taken'[h]) < n
      <4>1. u = t /\ h # io /\ h \in visit[t].left
        BY <2>6, <3>3
      <4> QED
        BY <1>0, <1>1, <2>3, <4>1 DEF Bounds
    <3> QED
      BY <1>1, <2>2, <3>1, <3>2, <3>3 DEF Bounds
  <2>8. SendToAllTypeOK'
    <3>1. queued' \in [Outputs -> 0..MaxCalls]
      <4>1. queued[io] \in 0..MaxCalls /\ queued[io] + 1 \in 0..MaxCalls
        BY <1>0, <2>2, <2>5 DEF Bounds
      <4> QED
        BY <1>0, <2>4, <4>1
    <3>2. writing' \subseteq Outputs
      BY <1>0, <2>1 DEF SendToAllTypeOK
    <3> QED
      BY <1>0, <1>1, <2>3, <3>1, <3>2 DEF SendToAllTypeOK
  <2>9. Increasing'
    <3>1. ASSUME NEW h \in Handlers, h # io
          PROVE  /\ \A i \in 1..Len(taken'[h]) :
                      /\ taken'[h][i] \in 1..Len(skips')
                      /\ \A u \in Senders : visit'[u].buf > 0 /\ h \in visit'[u].left
                                              => taken'[h][i] < Len(skips')
                 /\ \A i, j \in 1..Len(taken'[h]) : i < j => taken'[h][i] < taken'[h][j]
      BY <1>0, <1>1, <2>3, <2>6, <3>1 DEF Increasing, Handlers
    <3>2. \A i \in 1..Len(taken[io]) : taken[io][i] \in 1..n /\ taken[io][i] < n
      BY <1>0, <1>1 DEF Increasing, Handlers
    <3>3. \A i \in 1..Len(taken'[io]) : i \in 1..Len(taken[io]) \/ i = Len(taken[io]) + 1
      BY <1>0, <2>3
    <3>4. \A i \in 1..Len(taken'[io]) : taken'[io][i] \in 1..n
      BY <2>2, <2>3, <3>2, <3>3
    <3>5. ASSUME NEW i \in 1..Len(taken'[io]), NEW j \in 1..Len(taken'[io]), i < j
          PROVE  taken'[io][i] < taken'[io][j]
      <4>1. i \in 1..Len(taken[io])
        BY <1>0, <2>3, <3>5
      <4>2. CASE j \in 1..Len(taken[io])
        BY <1>0, <2>3, <3>5, <4>1, <4>2 DEF Increasing, Handlers
      <4>3. CASE j = Len(taken[io]) + 1
        BY <2>3, <3>2, <4>1, <4>3
      <4> QED
        BY <3>3, <4>2, <4>3
    <3> QED
      BY <1>1, <2>6, <3>1, <3>4, <3>5 DEF Increasing, Handlers
  <2> QED
    BY <1>2, <2>7, <2>8, <2>9 DEF OwnInv
<1> QED
  BY <1>3, <1>4

LEMMA OwnStep ==
    ASSUME QueueInv, SendInv, Next
    PROVE  OwnInv'
<1>0. /\ SendToAllTypeOK /\ Locking /\ Bounds /\ Increasing
      /\ MaxCalls \in Nat /\ calls \in 0..MaxCalls /\ Len(skips) \in Nat
      /\ \A h \in Outputs : Len(taken[h]) \in Nat /\ queued[h] \in Nat
  BY SendToAllAssumption DEF SendInv, SendToAllTypeOK
<1>1. ASSUME UNCHANGED MutexVars, io_outs' \subseteq Outputs PROVE OwnInv'
  <2>1. UNCHANGED <<m_mutex, visit, writing, queued, calls, skips, taken>>
    BY <1>1 DEF MutexVars
  <2> QED
    BY <1>0, <1>1, <2>1 DEF OwnInv, SendToAllTypeOK, Locking, Bounds, Increasing
<1>2. io_outs \subseteq Outputs /\ io_outs \cup {current'} \subseteq Outputs \cup {current'}
  BY <1>0 DEF SendToAllTypeOK
<1>3. TellNew => current' \in Outputs
  BY HeadIs DEF TellNew, QueueInv, Reports, Handlers
<1>4. ASSUME NEW t \in Senders, Total(t) PROVE OwnInv'
  <2>1. /\ m_mutex' = t
        /\ \A u \in Senders : u # t => visit'[u] = NoVisit
        /\ visit'[t] = [left |-> io_outs, buf |-> 0, sum |-> 0]
        /\ visit' \in [Senders -> [left : SUBSET Outputs, buf : 0..MaxCalls, sum : Nat]]
        /\ calls' = calls + 1 /\ calls < MaxCalls
        /\ UNCHANGED <<io_outs, writing, queued, skips, taken>>
    BY <1>4, TotalVisit
  <2>2. \A u \in Senders : visit'[u].buf = 0
    BY <2>1 DEF NoVisit
  <2>3. SendToAllTypeOK' /\ Locking'
    BY <1>0, <2>1, <2>2 DEF SendToAllTypeOK, Locking
  <2>4. Bounds' /\ Increasing'
    BY <1>0, <2>1, <2>2 DEF Bounds, Increasing
  <2> QED
    BY <2>3, <2>4 DEF OwnInv
<1>5. ASSUME NEW t \in Senders, NEW io \in Outputs, CountNext(t, io, Started) PROVE OwnInv'
  <2>1. /\ m_mutex = t /\ m_mutex' = t
        /\ \A u \in Senders : u # t => visit[u] = NoVisit /\ visit'[u] = NoVisit
        /\ visit'[t].buf = 0
        /\ visit' \in [Senders -> [left : SUBSET Outputs, buf : 0..MaxCalls, sum : Nat]]
        /\ UNCHANGED <<io_outs, calls, skips>>
    BY <1>5, NextVisit
  <2>2. UNCHANGED <<writing, queued, taken>> /\ \A u \in Senders : visit'[u].buf = 0
    BY <1>5, <2>1 DEF NoVisit, CountNext
  <2>3. SendToAllTypeOK' /\ Locking'
    BY <1>0, <2>1, <2>2 DEF SendToAllTypeOK, Locking
  <2>4. Bounds' /\ Increasing'
    BY <1>0, <2>1, <2>2 DEF Bounds, Increasing
  <2> QED
    BY <2>3, <2>4 DEF OwnInv
<1>6. ASSUME NEW t \in Senders, Done(t) PROVE OwnInv'
  <2>1. /\ m_mutex = t /\ m_mutex' = NoThread /\ visit' = [visit EXCEPT ![t] = NoVisit]
        /\ UNCHANGED <<io_outs, writing, queued, calls, skips, taken>>
    BY <1>6 DEF Done
  <2>2. \A u \in Senders : visit'[u] = NoVisit
    BY <1>0, <2>1 DEF Locking, SendToAllTypeOK
  <2>3. visit' \in [Senders -> [left : SUBSET Outputs, buf : 0..MaxCalls, sum : Nat]]
    BY <1>0, <2>1 DEF SendToAllTypeOK, NoVisit
  <2>4. SendToAllTypeOK' /\ Locking'
    BY <1>0, <2>1, <2>2, <2>3 DEF SendToAllTypeOK, Locking, NoVisit
  <2>5. Bounds'
    BY <1>0, <2>1, <2>2 DEF Bounds, NoVisit
  <2>6. Increasing'
    BY <1>0, <2>1, <2>2 DEF Increasing, NoVisit
  <2> QED
    BY <2>4, <2>5, <2>6 DEF OwnInv
<1>7. ASSUME NEW io \in Outputs, Written(io, Started) PROVE OwnInv'
  <2>1. /\ \/ queued' = [queued EXCEPT ![io] = @ - 1] /\ queued[io] > 0
           \/ queued' = queued
        /\ writing' \subseteq writing
        /\ UNCHANGED <<io_outs, m_mutex, visit, calls, skips, taken>>
    BY <1>7 DEF Written
  <2>2. /\ queued' \in [Outputs -> 0..MaxCalls]
        /\ \A h \in Outputs : queued'[h] <= queued[h]
    <3>1. queued \in [Outputs -> 0..MaxCalls]
      BY <1>0 DEF SendToAllTypeOK
    <3>2. CASE queued' = [queued EXCEPT ![io] = @ - 1] /\ queued[io] > 0
      BY <1>0, <3>1, <3>2
    <3>3. CASE queued' = queued
      BY <1>0, <3>1, <3>3
    <3> QED
      BY <2>1, <3>2, <3>3
  <2>5. writing' \subseteq Outputs
    BY <1>0, <2>1 DEF SendToAllTypeOK
  <2>3. \A h \in Outputs : queued'[h] \in Nat /\ queued'[h] <= Len(taken[h])
    BY <1>0, <2>2 DEF Bounds
  <2>4. SendToAllTypeOK' /\ Locking' /\ Increasing'
    BY <1>0, <2>1, <2>2, <2>5 DEF SendToAllTypeOK, Locking, Increasing
  <2> QED
    BY <1>0, <2>1, <2>3, <2>4 DEF OwnInv, Bounds
<1> QED
  BY <1>1, <1>2, <1>3, <1>4, <1>5, <1>6, <1>7, OwnSend, OwnSendNext, CollectionStep

LEMMA MembersStep ==
    ASSUME QueueInv, SendInv, Next
    PROVE  Members'
<1>0. /\ QueueTypeOK /\ Control /\ InOrder /\ Reports /\ Containers /\ Members
      /\ taken \in [Outputs -> Seq(1..MaxCalls)] /\ io_outs \subseteq Outputs
      /\ ioh \in [Handlers -> {"none", "new", "started", "closed"}]
      /\ ups \in [Handlers -> Nat] /\ iohs \subseteq Handlers
  BY DEF QueueInv, SendInv, SendToAllTypeOK, QueueTypeOK
<1> DEFINE Notifying == step \in {"notify", "notify_in_close"}
\* nothing about the connections changes
<1>1. ASSUME UNCHANGED <<ioh, ups, io_outs>>, ~Notifying, ~Notifying',
             m_shutting_down => m_shutting_down',
             \A h \in Handlers : taken'[h] = taken[h] \/ ioh[h] = "started"
      PROVE  Members'
  BY <1>0, <1>1 DEF Members, Live, Untold
<1>2. CASE SendStep
  <2>1. UNCHANGED <<ioh, ups, step, current, m_shutting_down>>
    BY <1>2, SendStepUnseen DEF run, acceptor, history
  <2>2. /\ UNCHANGED io_outs
        /\ \A h \in Handlers : taken'[h] = taken[h] \/ ioh[h] = "started"
    BY <1>0, <1>2 DEF SendStep, SenderCalls, SenderGoesOn, SenderStep, Writes, Send, Total,
       SendNext, CountNext, Done, Written, Started, Handlers
  <2> QED
    BY <1>0, <2>1, <2>2 DEF Members, Live, Untold
<1>3. CASE \E t \in Callers : CallerBegins(t) \/ CallerGoesOn(t)
  <2>1. UNCHANGED <<ioh, ups, step, current, m_shutting_down, io_outs, taken>>
    BY <1>3 DEF CallerBegins, CallerGoesOn, run, acceptor, history, sendVars
  <2> QED
    BY <1>0, <2>1 DEF Members, Live, Untold
<1>4. CASE DoStart \/ DoStop \/ EndOfPosted \/ StoppedIos \/ AcceptDropped \/ CallbackReturns
  BY <1>1, <1>4 DEF DoStart, DoStop, EndOfPosted, StoppedIos, AcceptDropped, CallbackReturns,
     acceptor, history, sendVars, run
<1>5. CASE Close \/ CloseAcceptor
  <2>1. /\ UNCHANGED <<ioh, ups, io_outs, taken>> /\ ~Notifying
        /\ m_shutting_down => m_shutting_down'
    BY <1>5 DEF Close, CloseAcceptor, history, sendVars
  <2>2. ~Notifying'
    BY <1>0, <1>5 DEF Close, CloseAcceptor, Control, InPosted
  <2> QED
    BY <1>1, <2>1, <2>2
<1>6. CASE AcceptCompletes
  <2>1. UNCHANGED <<ioh, ups, step, current, m_shutting_down, io_outs, taken>>
    BY <1>6 DEF AcceptCompletes, run, history, sendVars
  <2> QED
    BY <1>0, <2>1 DEF Members, Live, Untold
<1>7. CASE StopNextIo
  <2>1. PICK h \in iohs : ioh' = [ioh EXCEPT ![h] = "closed"]
    BY <1>7 DEF StopNextIo
  <2>2. UNCHANGED <<ups, io_outs, taken>> /\ m_shutting_down'
    BY <1>0, <1>7 DEF StopNextIo, Control, history, sendVars
  <2> QED
    BY <1>0, <2>1, <2>2 DEF Members
<1>8. CASE Accepted
  <2>1. /\ UNCHANGED <<ups, step, io_outs, taken, m_shutting_down>> /\ step = "idle"
        /\ ioh' = [ioh EXCEPT ![NewHandler] = "new"]
    BY <1>8 DEF Accepted, run, history, sendVars
  <2>2. NewHandler \in Handlers /\ ioh[NewHandler] = "none" /\ ups[NewHandler] = 0
    BY <1>0, <1>8, QueueAccepted DEF Reports
  <2>3. Live' \ Untold' = Live \ Untold
    BY <1>0, <2>1, <2>2 DEF Live, Untold
  <2> QED
    BY <1>0, <2>1, <2>2, <2>3 DEF Members
<1>9. CASE TellNew
  <2> DEFINE h == execq[1][2]
  <2>1. /\ h \in Handlers /\ ioh[h] # "none" /\ ups[h] = 0
        /\ m_shutting_down \/ ioh[h] = "new"
    <3>1. 1 \in Places /\ IsEntry(1, "state_chg") /\ ~InCallback
      BY <1>0, <1>9, HeadIs DEF TellNew, InCallback
    <3> QED
      BY <1>0, <3>1 DEF Reports
  <2>2. /\ ups' = [ups EXCEPT ![h] = @ + 1] /\ io_outs' = io_outs \cup {h}
        /\ UNCHANGED <<ioh, taken, m_shutting_down>> /\ step = "idle" /\ step' = "callback"
    BY <1>0, <1>9, HeadIs DEF TellNew, Tell, StateChange, acceptor
  <2>3. Live' = Live /\ Untold' = Untold \ {h}
    BY <1>0, <2>1, <2>2 DEF Live, Untold
  <2>4. ~m_shutting_down => h \in Live
    BY <2>1 DEF Live
  <2>5. ~m_shutting_down => io_outs' = Live' \ Untold'
    BY <1>0, <2>2, <2>3, <2>4 DEF Members
  <2>6. \A g \in Handlers : ioh'[g] \in {"new", "started"} /\ ups'[g] > 0 => g \in io_outs'
    BY <1>0, <2>1, <2>2 DEF Members
  <2> QED
    BY <1>0, <2>2, <2>5, <2>6 DEF Members
<1>10. CASE CallbackStartIo
  <2>1. /\ UNCHANGED <<ups, step, io_outs, taken, m_shutting_down>> /\ step = "callback"
        /\ ioh[current] = "new" /\ ioh' = [ioh EXCEPT ![current] = "started"]
    BY <1>10 DEF CallbackStartIo, run, history, sendVars
  <2>2. Live' = Live /\ Untold' = Untold
    BY <1>0, <2>1 DEF Live, Untold
  <2> QED
    BY <1>0, <2>1, <2>2 DEF Members
<1>11. CASE CallbackCloses
  <2>1. /\ UNCHANGED <<ups, current, io_outs, taken, m_shutting_down>> /\ step = "callback"
        /\ step' = "notify" /\ ioh' = [ioh EXCEPT ![current] = "closed"]
    BY <1>11 DEF CallbackCloses, history, sendVars
  <2>2. current \in Handlers /\ ioh[current] # "none"
    BY <1>0, <1>11 DEF Control, CallbackCloses
  <2>3. Live' = Live \ {current} /\ Untold' = Untold
    BY <1>0, <2>1, <2>2 DEF Live, Untold
  <2> QED
    BY <1>0, <2>1, <2>2, <2>3 DEF Members
<1>12. ASSUME NEW h \in Handlers, IoCloses(h) PROVE Members'
  <2>1. /\ UNCHANGED <<ups, io_outs, taken, m_shutting_down>> /\ step = "idle"
        /\ step' = "notify" /\ ioh' = [ioh EXCEPT ![h] = "closed"] /\ current' = h
        /\ ioh[h] # "none"
    BY <1>12 DEF IoCloses, history, sendVars
  <2>2. Live' = Live \ {h} /\ Untold' = Untold
    BY <1>0, <2>1 DEF Live, Untold
  <2> QED
    BY <1>0, <2>1, <2>2 DEF Members
<1>13. CASE Notify
  <2>1. /\ UNCHANGED <<ups, current, taken, ioh, m_shutting_down>> /\ Notifying
        /\ io_outs' = io_outs \ {current}
    BY <1>13 DEF Notify, Tell, StateChange
  <2>2. ~Notifying' /\ ioh[current] = "closed"
    BY <1>0, <1>13 DEF Notify, Control
  <2> QED
    BY <1>0, <2>1, <2>2 DEF Members, Live, Untold
<1> QED
  BY <1>2, <1>3, <1>4, <1>5, <1>6, <1>7, <1>8, <1>9, <1>10, <1>11, <1>12, <1>13
     DEF Next, RunStep, SendStep

\* A connection that is started in this step has taken nothing yet.
LEMMA StartedStep ==
    ASSUME QueueInv, SendInv, Next
    PROVE  \/ Started' \subseteq Started
           \/ /\ UNCHANGED sendVars
              /\ \A h \in Started' : h \in Started \/ (taken[h] = <<>> /\ queued[h] = 0)
<1>0. /\ ioh \in [Handlers -> {"none", "new", "started", "closed"}] /\ iohs \subseteq Handlers
      /\ current \in Handlers \cup {0} /\ Members /\ Bounds
      /\ \A h \in Handlers : queued[h] \in Nat
      /\ Control
  BY DEF QueueInv, QueueTypeOK, SendInv, SendToAllTypeOK, Handlers
<1>1. CASE UNCHANGED ioh
  BY <1>1 DEF Started
<1>2. CASE Accepted
  <2>1. ioh' = [ioh EXCEPT ![NewHandler] = "new"]
    BY <1>2 DEF Accepted
  <2> QED
    BY <1>0, <2>1 DEF Started
<1>3. CASE StopNextIo \/ CallbackCloses \/ \E h \in Handlers : IoCloses(h)
  <2>1. \E h \in Handlers \cup {0} : ioh' = [ioh EXCEPT ![h] = "closed"]
    BY <1>0, <1>3 DEF StopNextIo, CallbackCloses, IoCloses
  <2> QED
    BY <1>0, <2>1 DEF Started
<1>4. CASE CallbackStartIo
  <2>1. /\ UNCHANGED sendVars /\ ioh[current] = "new"
        /\ ioh' = [ioh EXCEPT ![current] = "started"]
    BY <1>4 DEF CallbackStartIo
  <2>2. current \in Handlers
    BY <1>0, <1>4 DEF CallbackStartIo, Control
  <2>3. taken[current] = <<>>
    BY <1>0, <2>1, <2>2 DEF Members
  <2>4. queued[current] = 0
    BY <1>0, <2>2, <2>3 DEF Bounds, Handlers
  <2> QED
    BY <1>0, <2>1, <2>2, <2>3, <2>4 DEF Started
<1>5. CASE SendStep
  BY <1>5, <1>1, SendStepUnseen DEF acceptor
<1>6. CASE \E t \in Callers : CallerBegins(t) \/ CallerGoesOn(t)
  BY <1>6, <1>1 DEF CallerBegins, CallerGoesOn, acceptor
<1> QED
  BY <1>1, <1>2, <1>3, <1>4, <1>5, <1>6 DEF Next, RunStep, SendStep, DoStart, DoStop,
     EndOfPosted, Close, StoppedIos, CloseAcceptor, AcceptDropped, AcceptCompletes, TellNew,
     CallbackReturns, Notify, acceptor

LEMMA NoneMissedStep ==
    ASSUME QueueInv, SendInv, Next
    PROVE  NoneMissed'
<1>0. /\ NoneMissed /\ Members /\ Reports /\ Locking
      /\ taken \in [Outputs -> Seq(1..MaxCalls)] /\ Len(skips) \in Nat
      /\ skips \in Seq(Outputs \cup {NoOutput}) /\ Started \subseteq Outputs
  BY DEF QueueInv, SendInv, SendToAllTypeOK, Started, Handlers
<1>1. ASSUME UNCHANGED <<taken, skips, visit>> PROVE NoneMissed'
  <2>1. \A h \in Started' : h \in Started \/ taken[h] = <<>>
    BY StartedStep
  <2> QED
    BY <1>0, <1>1, <2>1 DEF NoneMissed, Took
<1>2. CASE UNCHANGED <<entityVars, run, acceptor, history>>
  <2>0. Started' = Started
    BY <1>2 DEF acceptor, Started
  <2>1. ASSUME NEW t \in Senders, Send(t) PROVE NoneMissed'
    <3>1. /\ \A u \in Senders : visit[u] = NoVisit
          /\ visit'[t].buf = Len(skips) + 1 /\ UNCHANGED taken
      BY <2>1, SendVisit
    <3>2. PICK cur_io \in io_outs \cup {NoOutput} :
            visit'[t].left = io_outs \ {cur_io} /\ skips' = Append(skips, cur_io)
      BY <2>1, SendVisit
    <3>3. /\ Len(skips') = Len(skips) + 1 /\ skips'[Len(skips) + 1] = cur_io
          /\ \A n \in 1..Len(skips) : skips'[n] = skips[n]
      <4>1. io_outs \subseteq Outputs
        BY DEF SendInv, SendToAllTypeOK
      <4> QED
        BY <1>0, <3>2, <4>1
    <3>4. ASSUME NEW h \in Started, NEW n \in 1..Len(skips'),
                 taken[h] # <<>>, taken[h][1] <= n
          PROVE  \/ Took(h, n)
                 \/ skips'[n] = h
                 \/ \E u \in Senders : visit'[u].buf = n /\ h \in visit'[u].left
      <4>1. CASE n \in 1..Len(skips)
        BY <1>0, <3>1, <3>3, <3>4, <4>1 DEF NoneMissed, NoVisit
      <4>2. CASE n = Len(skips) + 1
        <5>1. h \in io_outs
          BY <1>0 DEF Members, Reports, Started
        <5> QED
          BY <3>1, <3>2, <3>3, <4>2, <5>1
      <4> QED
        BY <1>0, <3>3, <4>1, <4>2
    <3> QED
      BY <2>0, <3>1, <3>4 DEF NoneMissed, Took
  <2>2. ASSUME NEW t \in Senders, Total(t) PROVE NoneMissed'
    <3>1. UNCHANGED <<skips, taken>> /\ \A u \in Senders : visit[u] = NoVisit
      BY <2>2, TotalVisit
    <3> QED
      BY <1>0, <2>0, <3>1 DEF NoneMissed, Took, NoVisit
  <2>3. ASSUME NEW t \in Senders, NEW io \in Outputs, SendNext(t, io, Started)
        PROVE  NoneMissed'
    <3>1. /\ visit'[t].left = visit[t].left \ {io} /\ visit'[t].buf = visit[t].buf
          /\ visit[t].buf = Len(skips) /\ UNCHANGED skips
          /\ \A u \in Senders : u # t => visit[u] = NoVisit
      BY <2>3, NextVisit
    <3>2. ASSUME NEW h \in Started, h # io, NEW n \in 1..Len(skips),
                 taken[h] # <<>>, taken[h][1] <= n
          PROVE  \/ Took(h, n)
                 \/ skips[n] = h
                 \/ \E u \in Senders : visit'[u].buf = n /\ h \in visit'[u].left
      BY <1>0, <3>1, <3>2 DEF NoneMissed, NoVisit
    <3>3. \A h \in Outputs : h # io => taken'[h] = taken[h]
      BY <1>0, <2>3 DEF SendNext
    <3>4. ASSUME io \in Started, NEW n \in 1..Len(skips),
                 taken'[io] # <<>>, taken'[io][1] <= n
          PROVE  Took(io, n)' \/ skips[n] = io
      <4>1. taken' = [taken EXCEPT ![io] = Append(@, Len(skips))] /\ Len(skips) \in 1..MaxCalls
        BY <2>3, <3>1, <3>4 DEF SendNext, SendInv, SendToAllTypeOK
      <4>2. /\ Len(taken'[io]) = Len(taken[io]) + 1
            /\ taken'[io][Len(taken[io]) + 1] = Len(skips)
            /\ \A i \in 1..Len(taken[io]) : taken'[io][i] = taken[io][i]
            /\ Len(taken[io]) \in Nat
        BY <1>0, <4>1
      <4>3. Len(taken[io]) + 1 \in 1..Len(taken'[io])
        BY <4>2
      <4>4. CASE n = Len(skips)
        BY <4>2, <4>3, <4>4 DEF Took
      <4>5. CASE n # Len(skips)
        <5>1. taken[io] # <<>> /\ taken[io][1] <= n
          <6>1. CASE taken[io] = <<>>
            BY <1>0, <3>4, <4>2, <4>5, <6>1
          <6>2. CASE taken[io] # <<>>
            <7>1. Len(taken[io]) >= 1
              BY <1>0, <6>2
            <7> QED
              BY <3>4, <4>2, <6>2, <7>1
          <6> QED
            BY <6>1, <6>2
        <5>2. Took(io, n) \/ skips[n] = io
          BY <1>0, <3>1, <3>4, <4>5, <5>1 DEF NoneMissed, NoVisit
        <5>3. Took(io, n) => Took(io, n)'
          BY <4>2 DEF Took
        <5> QED
          BY <5>2, <5>3
      <4> QED
        BY <4>4, <4>5
    <3>5. \A h \in Outputs : \A n : h # io /\ Took(h, n) => Took(h, n)'
      BY <3>3 DEF Took
    <3> QED
      BY <1>0, <2>0, <3>1, <3>2, <3>3, <3>4, <3>5 DEF NoneMissed
  <2>4. ASSUME NEW t \in Senders, NEW io \in Outputs, CountNext(t, io, Started)
        PROVE  NoneMissed'
    <3>1. /\ \A u \in Senders : visit[u].buf = 0
          /\ UNCHANGED <<taken, skips>>
      <4>1. visit[t].buf = 0 /\ \A u \in Senders : u # t => visit[u] = NoVisit
        BY <2>4, NextVisit
      <4> QED
        BY <2>4, <4>1 DEF CountNext, NoVisit
    <3> QED
      BY <1>0, <2>0, <3>1 DEF NoneMissed, Took
  <2>5. ASSUME NEW t \in Senders, Done(t) PROVE NoneMissed'
    <3>1. /\ visit' = [visit EXCEPT ![t] = NoVisit] /\ visit[t].left = {}
          /\ UNCHANGED <<taken, skips>>
      BY <2>5 DEF Done
    <3>2. visit \in [Senders -> [left : SUBSET Outputs, buf : 0..MaxCalls, sum : Nat]]
      BY DEF SendInv, SendToAllTypeOK
    <3>3. \A u \in Senders : u # t => visit'[u] = visit[u]
      BY <3>1, <3>2
    <3>4. \A n, h : (\E u \in Senders : visit[u].buf = n /\ h \in visit[u].left)
                      => \E u \in Senders : visit'[u].buf = n /\ h \in visit'[u].left
      BY <3>1, <3>3
    <3>5. \A n, h : Took(h, n) => Took(h, n)'
      BY <3>1 DEF Took
    <3> QED
      BY <1>0, <2>0, <3>1, <3>4, <3>5 DEF NoneMissed
  <2>6. ASSUME NEW io \in Outputs, Written(io, Started) PROVE NoneMissed'
    BY <1>1, <2>6 DEF Written
  <2>7. CASE UNCHANGED MutexVars
    BY <1>1, <2>7 DEF MutexVars
  <2> QED
    BY <2>1, <2>2, <2>3, <2>4, <2>5, <2>6, <2>7, CollectionStep
<1>3. CASE UNCHANGED MutexVars
  BY <1>1, <1>3 DEF MutexVars
<1> QED
  BY <1>2, <1>3, CollectionStep

LEMMA SumStep ==
    ASSUME QueueInv, SendInv, Next
    PROVE  SumSoFar'
<1>0. /\ SumSoFar /\ queued \in [Outputs -> 0..MaxCalls] /\ MaxCalls \in Nat
      /\ Started \subseteq Outputs /\ io_outs \subseteq Outputs
      /\ visit \in [Senders -> [left : SUBSET Outputs, buf : 0..MaxCalls, sum : Nat]]
  BY SendToAllAssumption DEF SendInv, SendToAllTypeOK, Started, Handlers
<1>1. CASE UNCHANGED MutexVars /\ UNCHANGED io_outs
  <2>1. \A h \in Started' : h \in Started \/ queued[h] = 0
    BY StartedStep
  <2> QED
    BY <1>0, <1>1, <2>1 DEF SumSoFar, MutexVars
<1>2. CASE UNCHANGED MutexVars /\ m_mutex = NoThread
  BY <1>2, SendToAllAssumption DEF SumSoFar, MutexVars
<1>3. CASE UNCHANGED <<entityVars, run, acceptor, history>>
  <2>0. Started' = Started
    BY <1>3 DEF acceptor, Started
  <2>1. ASSUME NEW t \in Senders, Send(t) PROVE SumSoFar'
    <3>1. m_mutex' = t /\ visit'[t].buf = Len(skips) + 1 /\ Len(skips) \in Nat
      BY <2>1, SendVisit DEF SendInv, SendToAllTypeOK
    <3> QED
      BY <3>1 DEF SumSoFar
  <2>2. ASSUME NEW t \in Senders, Total(t) PROVE SumSoFar'
    <3>1. m_mutex' = t /\ visit'[t].left = io_outs /\ UNCHANGED io_outs
      BY <2>2, TotalVisit
    <3> QED
      BY <3>1 DEF SumSoFar
  <2>3. ASSUME NEW t \in Senders, NEW io \in Outputs, SendNext(t, io, Started)
        PROVE  SumSoFar'
    <3>1. m_mutex' = t /\ visit'[t].buf > 0
      BY <2>3, NextVisit
    <3> QED
      BY <1>0, <3>1 DEF SumSoFar
  <2>4. ASSUME NEW t \in Senders, NEW io \in Outputs, CountNext(t, io, Started)
        PROVE  SumSoFar'
    <3>1. /\ m_mutex = t /\ m_mutex' = t /\ visit[t].buf = 0
          /\ visit'[t].left = visit[t].left \ {io}
          /\ visit'[t].sum = visit[t].sum + (IF io \in Started THEN queued[io] ELSE 0)
          /\ UNCHANGED io_outs
      BY <2>4, NextVisit
    <3>2. UNCHANGED queued
      BY <2>4 DEF CountNext
    <3>3. visit'[t].sum = 0 => visit[t].sum = 0 /\ (io \in Started => queued[io] = 0)
      BY <1>0, <3>1
    <3> QED
      BY <1>0, <2>0, <3>1, <3>2, <3>3 DEF SumSoFar
  <2>5. ASSUME NEW t \in Senders, Done(t) PROVE SumSoFar'
    BY <2>5, SendToAllAssumption DEF Done, SumSoFar
  <2>6. ASSUME NEW io \in Outputs, Written(io, Started) PROVE SumSoFar'
    <3>1. /\ UNCHANGED <<io_outs, m_mutex, visit>>
          /\ \/ queued[io] > 0 /\ queued' = [queued EXCEPT ![io] = @ - 1]
             \/ queued' = queued
      BY <2>6 DEF Written
    <3>2. \A h \in Outputs : queued[h] = 0 => queued'[h] = 0
      BY <1>0, <3>1
    <3> QED
      BY <1>0, <2>0, <3>1, <3>2 DEF SumSoFar
  <2> QED
    BY <1>1, <1>2, <2>1, <2>2, <2>3, <2>4, <2>5, <2>6, CollectionStep
<1> QED
  BY <1>1, <1>2, <1>3, CollectionStep

LEMMA SendInit ==
    ASSUME Init
    PROVE  SendInv
<1> USE SendToAllAssumption
<1>1. /\ io_outs = {} /\ m_mutex = NoThread /\ visit = [t \in Senders |-> NoVisit]
      /\ writing = {} /\ queued = [h \in Outputs |-> 0] /\ calls = 0 /\ skips = <<>>
      /\ taken = [h \in Outputs |-> <<>>]
      /\ ioh = [h \in Handlers |-> "none"] /\ ups = [h \in Handlers |-> 0]
  BY DEF Init, SendToAllInit
<1>2. visit \in [Senders -> [left : SUBSET Outputs, buf : 0..MaxCalls, sum : Nat]]
  BY <1>1 DEF NoVisit
<1>3. taken \in [Outputs -> Seq(1..MaxCalls)] /\ skips \in Seq(Outputs \cup {NoOutput})
  BY <1>1
<1>4. SendToAllTypeOK
  BY <1>1, <1>2, <1>3 DEF SendToAllTypeOK
<1>5. Locking /\ Bounds
  BY <1>1 DEF Locking, Bounds, NoVisit
<1>6. Members
  BY <1>1 DEF Members, Live, Untold, Handlers
<1>7. Increasing /\ NoneMissed /\ SumSoFar
  BY <1>1 DEF Increasing, NoneMissed, SumSoFar, Handlers
<1> QED
  BY <1>4, <1>5, <1>6, <1>7 DEF SendInv

LEMMA SendInvariant == Spec => []SendInv
<1>1. Init => SendInv
  BY SendInit
<1>2. QueueInv /\ SendInv /\ [Next]_vars => SendInv'
  <2>1. ASSUME QueueInv, SendInv, UNCHANGED vars PROVE SendInv'
    <3>1. /\ UNCHANGED <<io_outs, m_mutex, visit, writing, queued, calls, skips, taken>>
          /\ UNCHANGED <<ioh, ups, m_shutting_down, step, current>>
      BY <2>1 DEF vars, sendVars, acceptor, history, run
    <3>2. SendToAllTypeOK' /\ Locking' /\ Bounds' /\ Increasing'
      BY <2>1, <3>1 DEF SendInv, SendToAllTypeOK, Locking, Bounds, Increasing
    <3>3. Members'
      BY <2>1, <3>1 DEF SendInv, Members, Live, Untold
    <3>4. NoneMissed' /\ SumSoFar'
      BY <2>1, <3>1 DEF SendInv, NoneMissed, SumSoFar, Started, Took
    <3> QED
      BY <3>2, <3>3, <3>4 DEF SendInv
  <2>2. ASSUME QueueInv, SendInv, Next PROVE SendInv'
    BY <2>2, OwnStep, MembersStep, NoneMissedStep, SumStep DEF SendInv, OwnInv
  <2> QED
    BY <2>1, <2>2
<1> QED
  BY <1>1, <1>2, QueueInvariant, PTL DEF Spec

\* Every variable keeps its type; in particular a queue never holds more
\* buffers than were sent, and the numbers of buffers stay in their range.
THEOREM TypeCorrect == Spec => []TypeOK
<1>1. QueueInv /\ SendInv => TypeOK
  BY DEF QueueInv, QueueTypeOK, SendInv, TypeOK
<1> QED
  BY <1>1, QueueInvariant, SendInvariant, PTL

\* operator() of send_to_all adds each connection when it is reported and
\* removes it in notify_me's report, so between two functions of the run
\* thread the collection is the connections that are reported and open: no
\* basic_io_output outlives its connection while the acceptor runs.
THEOREM NoOutputOutlives == Spec => []OutputsAreLive
<1>1. SendInv => OutputsAreLive
  BY DEF SendInv, Members, OutputsAreLive
<1> QED
  BY <1>1, SendInvariant, PTL

\* send holds m_mutex while it visits the outputs, and the state changes
\* wait for it: every connection takes the buffers in one order, and misses
\* none from its first to its last, whoever joins and leaves meanwhile.
THEOREM SameOrderForAll == Spec => []SameForAll
<1>1. ASSUME QueueInv, SendInv PROVE SameForAll
  <2>1. taken \in [Outputs -> Seq(1..MaxCalls)] /\ Len(skips) \in Nat
    BY <1>1 DEF SendInv, SendToAllTypeOK
  <2>2. ASSUME NEW h \in Handlers, NEW i \in 1..(Len(taken[h]) - 1)
        PROVE  taken[h][i] < taken[h][i + 1]
    <3>1. i \in 1..Len(taken[h]) /\ i + 1 \in 1..Len(taken[h]) /\ i < i + 1
      BY <2>1 DEF Handlers
    <3> QED
      BY <1>1, <3>1 DEF SendInv, Increasing
  <2>3. ASSUME NEW h \in Started, taken[h] # <<>>, NEW n \in taken[h][1]..Len(skips)
        PROVE  Took(h, n) \/ skips[n] = h \/ \E t \in Senders : visit[t].buf = n
    <3>1. 1 \in 1..Len(taken[h])
      BY <2>1, <2>3 DEF Started, Handlers
    <3>2. taken[h][1] \in 1..Len(skips)
      BY <1>1, <3>1 DEF SendInv, Increasing, Started
    <3>3. n \in 1..Len(skips) /\ taken[h][1] <= n
      BY <2>1, <3>2
    <3> QED
      BY <1>1, <2>3, <3>3 DEF SendInv, NoneMissed
  <2> QED
    BY <2>2, <2>3 DEF SameForAll
<1> QED
  BY <1>1, QueueInvariant, SendInvariant, PTL

\* get_total_output_queue_stats holds m_mutex while it adds up the queues
\* one after the other: when it returns zero no output has more than the
\* buffer being written left, although writes complete and connections start
\* and end meanwhile.
THEOREM TotalZeroLeavesOne == Spec => []ZeroLeavesOne
<1>1. SendInv => ZeroLeavesOne
  BY DEF SendInv, SumSoFar, ZeroLeavesOne, Unwritten, NoVisit
<1> QED
  BY <1>1, SendInvariant, PTL

=============================================================================
