----------------------------- MODULE TcpAcceptor -----------------------------
(***************************************************************************)
(* detail/tcp_acceptor.hpp: listen, accept, make a tcp_io for every        *)
(* connection, keep them until they close, close them all when stopped.    *)
(*                                                                         *)
(* Everything but the calls of start and stop (NetEntityCommon) runs on    *)
(* the one run thread, which takes functions from execq in their order:    *)
(* posted functions, and the completion handlers of async_accept.  It is   *)
(* interrupted only by what the code calls on the way: the application's   *)
(* state change callback, which may call start_io or stop_io for a new     *)
(* connection, and the tcp_io, whose close comes back into notify_me.      *)
(* step names what the run thread does next, back where it then returns.   *)
(*                                                                         *)
(* The application's callback is a send_to_all (module SendToAll) that     *)
(* also starts IO.  A tcp_io is reduced to what module TcpIo shows of it:  *)
(* stop_io of one that is not started, be it new or already closed, still  *)
(* ends in notify_me, and so does a start_io that fails.                   *)
(***************************************************************************)
EXTENDS NetEntityCommon, SendToAll, FiniteSets

CONSTANTS
    MaxTold,        \* bound: no calls on a closed tcp_io after so many reports
    StartMayFail,   \* resolving, opening, binding or listening may fail
    AcceptMayFail,  \* async_accept may complete with an error
    OverlapStop     \* stop may be called before start has returned

ASSUME TcpAcceptorAssumption ==
    /\ MaxTold \in Nat
    /\ {StartMayFail, AcceptMayFail, OverlapStop} \subseteq BOOLEAN

Handlers == Outputs         \* tcp_io objects in the order of creation

VARIABLES
    m_io_handlers,      \* a set: the order in the vector is not used
    m_shutting_down,
    listening,          \* the acceptor socket is open and listens
    accepting,          \* an async_accept is outstanding
    ioh,                \* tcp_io -> "none", "new", "started", "closed"
    iohs,               \* close: the copy of m_io_handlers still to stop
    step, back,         \* the run thread: what next, where to after that
    current,            \* the tcp_io that step is about, 0 when none
    ups, downs,         \* history: state change callbacks, per tcp_io
    counted             \* history: the count given to the last one was right

run == <<step, back, current, iohs>>
acceptor == <<m_io_handlers, m_shutting_down, listening, accepting, ioh>>
history == <<ups, downs, counted>>
vars == <<entityVars, sendVars, run, acceptor, history>>

Init ==
    /\ EntityInit /\ SendToAllInit
    /\ m_io_handlers = {} /\ m_shutting_down = FALSE
    /\ listening = FALSE /\ accepting = FALSE
    /\ ioh = [h \in Handlers |-> "none"]
    /\ iohs = {} /\ step = "idle" /\ back = "idle" /\ current = 0
    /\ ups = [h \in Handlers |-> 0] /\ downs = ups /\ counted = TRUE

Live == {h \in Handlers : ioh[h] \in {"new", "started"}}
Untold == {h \in Handlers : ioh[h] # "none" /\ ups[h] = 0}
Started == {h \in Handlers : ioh[h] = "started"}

\* the function at the head of execq has returned; it was not posted by a
\* call of start or stop
Taken == execq' = Tail(execq) /\ UNCHANGED <<m_started, have_cbs, call>>

-----------------------------------------------------------------------------
(* start and stop.                                                         *)

CallerBegins(t) ==
    /\ \/ StartCas(t)
       \/ /\ StopCas(t)
          /\ OverlapStop \/ \E u \in Callers : call[u] = "returned"
    /\ UNCHANGED <<sendVars, run, acceptor, history>>

CallerGoesOn(t) ==
    /\ CallStep(t)
    /\ UNCHANGED <<sendVars, run, acceptor, history>>

\* do_start: any failure closes; success listens and accepts
DoStart ==
    /\ step = "idle" /\ Posted("start")
    /\ \/ /\ StartMayFail
          /\ step' = "close" /\ back' = "posted_done"
          /\ UNCHANGED <<listening, accepting>>
       \/ /\ listening' = TRUE
          /\ accepting' = ~m_shutting_down
          /\ step' = "posted_done" /\ UNCHANGED back
    /\ UNCHANGED <<entityVars, sendVars, current, iohs, m_io_handlers, m_shutting_down,
                   ioh, history>>

\* the function posted by stop: close
DoStop ==
    /\ step = "idle" /\ Posted("stop")
    /\ step' = "close" /\ back' = "posted_done"
    /\ UNCHANGED <<entityVars, sendVars, current, iohs, acceptor, history>>

EndOfPosted ==
    /\ step = "posted_done"
    /\ PostedDone
    /\ step' = "idle" /\ back' = "idle"
    /\ UNCHANGED <<sendVars, current, iohs, acceptor, history>>

-----------------------------------------------------------------------------
(* close.                                                                  *)

\* close: the error callback, then, the first time, stop every tcp_io
Close ==
    /\ step = "close"
    /\ IF m_shutting_down
         THEN step' = back /\ UNCHANGED <<m_started, m_shutting_down, iohs>>
         ELSE /\ m_shutting_down' = TRUE
              /\ m_started' = 2
              /\ iohs' = m_io_handlers
              /\ step' = "stop_ios"
    /\ UNCHANGED <<have_cbs, call, execq, sendVars, back, current, m_io_handlers,
                   listening, accepting, ioh, history>>

\* close: the next tcp_io's stop_io, which calls notify_me
StopNextIo ==
    /\ step = "stop_ios"
    /\ \E h \in iohs :
         /\ iohs' = iohs \ {h}
         /\ ioh' = [ioh EXCEPT ![h] = "closed"]
         /\ current' = h
    /\ step' = "notify_in_close"
    /\ UNCHANGED <<entityVars, sendVars, back, m_io_handlers, m_shutting_down, listening,
                   accepting, history>>

StoppedIos ==
    /\ step = "stop_ios" /\ iohs = {}
    /\ step' = "close_acceptor"
    /\ UNCHANGED <<entityVars, sendVars, back, current, iohs, acceptor, history>>

\* close: closing the acceptor aborts an async_accept
CloseAcceptor ==
    /\ step = "close_acceptor"
    /\ listening' = FALSE
    /\ accepting' = FALSE
    /\ execq' = IF accepting THEN Append(execq, <<"accept_error", 0>>) ELSE execq
    /\ step' = back
    /\ UNCHANGED <<m_started, have_cbs, call, sendVars, back, current, iohs,
                   m_io_handlers, m_shutting_down, ioh, history>>

-----------------------------------------------------------------------------
(* Accepting.                                                              *)

\* Asio: async_accept completes
AcceptCompletes ==
    /\ accepting
    /\ accepting' = FALSE
    /\ \/ Cardinality({h \in Handlers : ioh[h] # "none"}) < MaxConns
          /\ execq' = Append(execq, <<"accepted", 0>>)
       \/ AcceptMayFail /\ execq' = Append(execq, <<"accept_error", 0>>)
    /\ UNCHANGED <<m_started, have_cbs, call, sendVars, run, m_io_handlers, m_shutting_down,
                   listening, ioh, history>>

NewHandler == CHOOSE h \in Handlers : ioh[h] = "none" /\ \A g \in 1..(h - 1) : ioh[g] # "none"

\* an accept handler that forgets to post the state change
AcceptedFault ==
    /\ step = "idle" /\ Posted("accepted") /\ ~m_shutting_down
    /\ m_io_handlers' = m_io_handlers \cup {NewHandler}
    /\ ioh' = [ioh EXCEPT ![NewHandler] = "new"]
    /\ accepting' = TRUE
    /\ execq' = Tail(execq)
    /\ UNCHANGED <<m_started, have_cbs, call, sendVars, run, m_shutting_down, listening, history>>

\* start_accept's handler: make a tcp_io, post the state change, accept on
Accepted ==
    /\ step = "idle" /\ Posted("accepted") /\ ~m_shutting_down
    /\ m_io_handlers' = m_io_handlers \cup {NewHandler}
    /\ ioh' = [ioh EXCEPT ![NewHandler] = "new"]
    /\ accepting' = TRUE
    /\ execq' = Append(Tail(execq), <<"state_chg", NewHandler>>)
    /\ UNCHANGED <<m_started, have_cbs, call, sendVars, run, m_shutting_down, listening, history>>

\* start_accept's handler with an error, or while shutting down: nothing
AcceptDropped ==
    /\ step = "idle"
    /\ Posted("accept_error") \/ (Posted("accepted") /\ m_shutting_down)
    /\ Taken
    /\ UNCHANGED <<sendVars, run, acceptor, history>>

-----------------------------------------------------------------------------
(* The application's callback, and the end of a tcp_io.                    *)

\* the application is told of h; n is the count it is given
Tell(h, n, starting) ==
    /\ StateChange(h, starting)
    /\ IF starting THEN ups' = [ups EXCEPT ![h] = @ + 1] /\ UNCHANGED downs
                   ELSE downs' = [downs EXCEPT ![h] = @ + 1] /\ UNCHANGED ups
    /\ counted' = (n = Cardinality(Live))

\* the posted state change callback of a new connection
TellNew ==
    /\ step = "idle" /\ Posted("state_chg")
    /\ current' = Head(execq)[2]
    /\ Tell(Head(execq)[2], Cardinality(m_io_handlers), TRUE)
    /\ step' = "callback" /\ back' = "callback"
    /\ UNCHANGED <<entityVars, iohs, acceptor>>

\* in the callback: start_io succeeds
CallbackStartIo ==
    /\ step = "callback"
    /\ ioh[current] = "new"
    /\ ioh' = [ioh EXCEPT ![current] = "started"]
    /\ UNCHANGED <<entityVars, sendVars, run, m_io_handlers, m_shutting_down, listening,
                   accepting, history>>

\* in the callback: start_io fails because the peer is gone or the tcp_io is
\* closed, or stop_io is called; each ends in notify_me
CallbackCloses ==
    /\ step = "callback"
    /\ ioh[current] \in {"new", "started"} \/ downs[current] < MaxTold
    /\ ioh' = [ioh EXCEPT ![current] = "closed"]
    /\ step' = "notify"
    /\ UNCHANGED <<entityVars, sendVars, back, current, iohs, m_io_handlers,
                   m_shutting_down, listening, accepting, history>>

CallbackReturns ==
    /\ step = "callback"
    /\ Taken
    /\ step' = "idle" /\ back' = "idle"
    /\ UNCHANGED <<sendVars, current, iohs, acceptor, history>>

\* a tcp_io closes by itself, or stop_io is called elsewhere
IoCloses(h) ==
    /\ step = "idle"
    /\ ioh[h] \in {"new", "started"} /\ ups[h] > 0
    /\ ioh' = [ioh EXCEPT ![h] = "closed"]
    /\ current' = h
    /\ step' = "notify"
    /\ UNCHANGED <<entityVars, sendVars, back, iohs, m_io_handlers, m_shutting_down,
                   listening, accepting, history>>

\* a notify_me that forgets to erase
NotifyKeepsFault ==
    /\ step \in {"notify", "notify_in_close"}
    /\ Tell(current, Cardinality(m_io_handlers), FALSE)
    /\ step' = IF step = "notify" THEN back ELSE "stop_ios"
    /\ UNCHANGED <<entityVars, back, current, iohs, m_io_handlers, m_shutting_down,
                   listening, accepting, ioh>>

\* notify_me: forget the tcp_io, then tell the application
Notify ==
    /\ step \in {"notify", "notify_in_close"}
    /\ m_io_handlers' = m_io_handlers \ {current}
    /\ Tell(current, Cardinality(m_io_handlers'), FALSE)
    /\ step' = IF step = "notify" THEN back ELSE "stop_ios"
    /\ UNCHANGED <<entityVars, back, current, iohs, m_shutting_down, listening,
                   accepting, ioh>>

-----------------------------------------------------------------------------
(* The send_to_all, used by any thread.                                    *)

SenderCalls(t) ==
    /\ Send(t) \/ Total(t)
    /\ UNCHANGED <<entityVars, run, acceptor, history>>

SenderGoesOn(t) ==
    /\ SenderStep(t, Started)
    /\ UNCHANGED <<entityVars, run, acceptor, history>>

\* on the run thread: a write of h has completed
Writes(h) ==
    /\ step = "idle"
    /\ Written(h, Started)
    /\ UNCHANGED <<entityVars, run, acceptor, history>>

-----------------------------------------------------------------------------
RunStep ==
    \/ DoStart \/ DoStop \/ EndOfPosted
    \/ Close \/ StopNextIo \/ StoppedIos \/ CloseAcceptor
    \/ Accepted \/ AcceptDropped
    \/ TellNew \/ CallbackReturns \/ Notify

Next ==
    \/ RunStep
    \/ AcceptCompletes
    \/ CallbackStartIo \/ CallbackCloses
    \/ \E h \in Handlers : IoCloses(h)
    \/ \E t \in Callers : CallerBegins(t) \/ CallerGoesOn(t)
    \/ \E t \in Senders : SenderCalls(t) \/ SenderGoesOn(t)
    \/ \E h \in Handlers : Writes(h)

Spec == Init /\ [][Next]_vars

\* The run thread runs, the callback returns, and a thread inside start or
\* stop goes on.  Nobody need connect, and no connection need end.
FairSpec ==
    /\ Spec
    /\ WF_vars(RunStep)
    /\ \A t \in Callers : WF_vars(CallerGoesOn(t))
    /\ \A t \in Senders : WF_vars(SenderGoesOn(t))

-----------------------------------------------------------------------------
TypeOK ==
    /\ EntityTypeOK
    /\ execq \in Seq({"start", "stop", "accepted", "accept_error", "state_chg"}
                        \X (Callers \cup Handlers \cup {0}))
    /\ m_io_handlers \subseteq Handlers
    /\ iohs \subseteq Handlers
    /\ SendToAllTypeOK
    /\ {m_shutting_down, listening, accepting, counted} \subseteq BOOLEAN
    /\ ioh \in [Handlers -> {"none", "new", "started", "closed"}]
    /\ {step, back} \subseteq {"idle", "posted_done", "close", "stop_ios", "close_acceptor",
                               "callback", "notify", "notify_in_close"}
    /\ current \in Handlers \cup {0}
    /\ ups \in [Handlers -> Nat] /\ downs \in [Handlers -> Nat]

\* The container holds exactly the connections that are alive (notify_me
\* changes it while close walks over a copy): none is forgotten, none is
\* kept after its end, and the count a state change callback is given is the
\* number of connections open at that moment (net_entity.hpp:294).
HandlersAreLive ==
    /\ step \notin {"notify", "notify_in_close"} => m_io_handlers = Live
    /\ counted

\* "post order should invoke callback before next accept handler is invoked"
\* (tcp_acceptor.hpp:218): there is never a second new connection that the
\* application has not been told of.
ToldBeforeNextAccept == Cardinality(Untold) <= 1

\* send_to_all sends to connections that are open, and to every one that was
\* reported: until the acceptor is stopped no entry outlives its connection.
OutputsAreLive == step = "idle" /\ ~m_shutting_down => io_outs = Live \ Untold

\* Every connection takes what is sent to all in one order, and from the
\* first buffer it takes until it ends it misses none but those sent to all
\* except it, whoever sends and joins and leaves meanwhile.
SameForAll ==
    \A h \in Handlers :
        /\ \A i \in 1..(Len(taken[h]) - 1) : taken[h][i] < taken[h][i + 1]
        /\ h \in Started /\ taken[h] # <<>> =>
             \A n \in taken[h][1]..Len(skips) :
                 \/ Took(h, n)
                 \/ skips[n] = h
                 \/ \E t \in Senders : visit[t].buf = n

\* A total of nothing (get_total_output_queue_stats), which callers wait for
\* before they stop the connections, leaves of everything sent to all at most
\* one buffer for each connection to be written, although the queues are
\* looked at one after the other.  (That one may be left: the statistics do
\* not count the buffer being written.)
ZeroLeavesOne ==
    \A t \in Senders :
        m_mutex = t /\ visit[t] = NoVisit
            => \A h \in io_outs \cap Started : Unwritten(h) <= 1

\* Every connection accepted is reported, even when the acceptor is stopped
\* meanwhile, and every one that closes is reported closed.
EveryConnectionTold ==
    \A h \in Handlers : /\ ioh[h] # "none" ~> ups[h] > 0
                        /\ ioh[h] = "closed" ~> downs[h] > 0

=============================================================================
