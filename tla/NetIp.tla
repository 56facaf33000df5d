-------------------------------- MODULE NetIp --------------------------------
(***************************************************************************)
(* net_ip.hpp and net_entity.hpp, the public facade, with worker.hpp, the  *)
(* run thread behind it.  Application threads, and callbacks on the run    *)
(* thread, make, start, stop, visit and remove net entities.  make, remove *)
(* and stop_all hold m_mutex; start, stop and visit_io_output post a       *)
(* function and block until the run thread has executed it, and stop_all   *)
(* does so while it holds m_mutex.                                         *)
(*                                                                         *)
(* An entity is reduced to what modules TcpConnector, TcpAcceptor and      *)
(* UdpEntityIo show of it: it opens (or fails to) when its start function  *)
(* runs, closes when its stop function runs or by itself after an error,   *)
(* and calls the application meanwhile.  An entity lives as long as one of *)
(* net_ip's containers, an outstanding operation or a call refers to it.   *)
(***************************************************************************)
EXTENDS Naturals, Sequences, FiniteSets, Functions

CONSTANTS
    Udps, Connectors, Acceptors,    \* the entities the application may make
    AppThreads,                     \* application threads
    Main,                           \* the one of them that owns the worker
    Run,                            \* the worker's thread
    MaxEnts,                        \* bound: how many of them it makes
    Programs                        \* application programs: what each thread
                                    \* may call

Fns == {"make", "remove", "remove_all", "stop_all", "start", "stop", "visit"}

NoOne == "no thread"
NoEnt == 0

ASSUME NetIpAssumption ==
    /\ Main \in AppThreads /\ Run \notin AppThreads
    /\ NoOne \notin AppThreads \cup {Run}
    /\ MaxEnts \in Nat
    /\ Udps \cap Connectors = {} /\ Udps \cap Acceptors = {} /\ Connectors \cap Acceptors = {}
    /\ Udps \cup Connectors \cup Acceptors \subseteq Nat \ {0}
    /\ Programs \subseteq [AppThreads \cup {Run} -> SUBSET Fns]

Ents == Udps \cup Connectors \cup Acceptors
Threads == AppThreads \cup {Run}

VARIABLES
    m_mutex,                                    \* its holder
    m_udp_entities, m_connectors, m_acceptors,  \* the containers
    m_started,  \* Ents -> 0 not started, 1 started, 2 stopped
    state,      \* Ents -> "none", "new", "open", "closing", "closed"
    execq,      \* posted functions: [fn, ent, by]
    in_posted,  \* the run thread is executing the head of execq
    pc, op,     \* per thread: step, and what was called: [fn, ent]
    todo,       \* stop_all: the entities its loops have still to stop
    worker,     \* "new", "running", "reset" (no work guard), "stopped", "exited"
    program,    \* the program under way, one of Programs
    stopping    \* history: the entities that were open when stop_all began

containers == <<m_udp_entities, m_connectors, m_acceptors>>
ents == <<m_started, state>>
vars == <<m_mutex, containers, ents, execq, in_posted, pc, op, todo, worker,
          program, stopping>>

NoCall == [fn |-> "none", ent |-> NoEnt]
Goto(t, step) == pc' = [pc EXCEPT ![t] = step]

Init ==
    /\ m_mutex = NoOne
    /\ m_udp_entities = <<>> /\ m_connectors = <<>> /\ m_acceptors = <<>>
    /\ m_started = [e \in Ents |-> 0]
    /\ state = [e \in Ents |-> "none"]
    /\ execq = <<>> /\ in_posted = FALSE
    /\ pc = [t \in Threads |-> "idle"]
    /\ op = [t \in Threads |-> NoCall]
    /\ todo = <<>>
    /\ worker = "new"
    /\ program \in Programs
    /\ stopping = {}

-----------------------------------------------------------------------------
(* net_entity: a weak pointer.                                             *)

Contained == Range(m_udp_entities) \cup Range(m_connectors) \cup Range(m_acceptors)

\* the weak pointer's lock() succeeds
Alive(e) ==
    \/ e \in Contained
    \/ state[e] \in {"open", "closing"}
    \/ \E t \in Threads : op[t].ent = e /\ op[t].fn \in {"make", "start", "stop", "visit"}

\* wp_access and wp_access_void: the expected answer, or none and the error
\* weak_ptr_expired
Access(e, answer) == IF Alive(e) THEN {answer} ELSE {}

IsStarted(e) == Access(e, m_started[e] = 1)

-----------------------------------------------------------------------------
(* Calls.  A callback makes at most one call.                              *)

MayCall(t, fn) ==
    fn \in program[t] /\ pc[t] = (IF t = Run THEN "callback" ELSE "idle")

\* a call that returns at once or ends: back to the callback or the idle thread
Returned(t) == IF t = Run THEN "callback_done" ELSE "idle"

Made == {e \in Ents : state[e] # "none"}

CallLocked(t) ==
    \E fn \in {"make", "remove", "remove_all", "stop_all"}, e \in Ents \cup {NoEnt} :
        /\ MayCall(t, fn)
        /\ fn \in {"make", "remove"} <=> e # NoEnt
        /\ CASE fn = "make" -> /\ state[e] = "none" /\ Cardinality(Made) < MaxEnts
                               /\ state' = [state EXCEPT ![e] = "new"]
             [] fn = "remove" -> state[e] # "none" /\ UNCHANGED state
             [] OTHER -> UNCHANGED state
        /\ op' = [op EXCEPT ![t] = [fn |-> fn, ent |-> e]]
        /\ Goto(t, "lock")
        /\ UNCHANGED <<m_mutex, containers, m_started, execq, in_posted, todo, worker,
                       program, stopping>>

\* t is at the lock_guard of fn and gets the mutex
Locks(t, fn) == pc[t] = "lock" /\ op[t].fn = fn /\ m_mutex = NoOne

EndLocked(t) ==
    /\ op' = [op EXCEPT ![t] = NoCall]
    /\ Goto(t, Returned(t))
    /\ UNCHANGED <<m_mutex, ents, execq, in_posted, todo, worker, program, stopping>>

MakeUdp(t) ==
    /\ Locks(t, "make") /\ op[t].ent \in Udps
    /\ m_udp_entities' = Append(m_udp_entities, op[t].ent)
    /\ UNCHANGED <<m_connectors, m_acceptors>>
    /\ EndLocked(t)

MakeConnector(t) ==
    /\ Locks(t, "make") /\ op[t].ent \in Connectors
    /\ m_connectors' = Append(m_connectors, op[t].ent)
    /\ UNCHANGED <<m_udp_entities, m_acceptors>>
    /\ EndLocked(t)

MakeAcceptor(t) ==
    /\ Locks(t, "make") /\ op[t].ent \in Acceptors
    /\ m_acceptors' = Append(m_acceptors, op[t].ent)
    /\ UNCHANGED <<m_udp_entities, m_connectors>>
    /\ EndLocked(t)

\* erase_if: an entity is made once, and is in a container at most once
Erased(s, e) ==
    IF e \in Range(s)
      THEN LET i == CHOOSE i \in 1..Len(s) : s[i] = e
           IN  SubSeq(s, 1, i - 1) \o SubSeq(s, i + 1, Len(s))
      ELSE s

\* erases the element that lock() points to; an expired handle matches none
Remove(t) ==
    /\ Locks(t, "remove")
    /\ m_udp_entities' = Erased(m_udp_entities, op[t].ent)
    /\ m_connectors' = Erased(m_connectors, op[t].ent)
    /\ m_acceptors' = Erased(m_acceptors, op[t].ent)
    /\ EndLocked(t)

RemoveAll(t) ==
    /\ Locks(t, "remove_all")
    /\ m_udp_entities' = <<>> /\ m_connectors' = <<>> /\ m_acceptors' = <<>>
    /\ EndLocked(t)

-----------------------------------------------------------------------------
(* start, stop and visit_io_output through a net_entity.                   *)

\* the compare and exchange of a start on e has been won, do_start is not posted
Starting(e) == \E t \in Threads : pc[t] = "post" /\ op[t] = [fn |-> "start", ent |-> e]

\* a call through a handle that has not expired gets to its post
CallEntity(t, fn, e) ==
    /\ MayCall(t, fn)
    /\ state[e] # "none"
    /\ Alive(e)
    /\ op' = [op EXCEPT ![t] = [fn |-> fn, ent |-> e]]
    /\ Goto(t, "post")
    /\ UNCHANGED <<m_mutex, containers, state, execq, in_posted, todo, worker, program,
                   stopping>>

\* start: the exchange 0 -> 1; when it is lost start returns an error
CallStart(t, e) ==
    /\ m_started[e] = 0
    /\ m_started' = [m_started EXCEPT ![e] = 1]
    /\ CallEntity(t, "start", e)

\* a stop that counts m_started up without comparing
CallStopFault(t, e) ==
    /\ m_started[e] # 0 /\ ~Starting(e)
    /\ m_started' = [m_started EXCEPT ![e] = @ + 1]
    /\ CallEntity(t, "stop", e)

\* stop: the exchange 1 -> 2.  While a start is between its exchange and its
\* post it is excluded: the entity would start after its stop, a race that
\* net_ip.hpp leaves to the caller
CallStop(t, e) ==
    /\ m_started[e] = 1 /\ ~Starting(e)
    /\ m_started' = [m_started EXCEPT ![e] = 2]
    /\ CallEntity(t, "stop", e)

\* visit_io_output
CallVisit(t, e) == CallEntity(t, "visit", e) /\ UNCHANGED m_started

\* post the function and wait for its promise
Post(t) ==
    /\ pc[t] = "post"
    /\ execq' = Append(execq, [fn |-> IF op[t].fn = "stop_all" THEN "stop" ELSE op[t].fn,
                               ent |-> IF op[t].fn = "stop_all" THEN Head(todo) ELSE op[t].ent,
                               by |-> t])
    /\ Goto(t, "wait")
    /\ UNCHANGED <<m_mutex, containers, ents, in_posted, op, todo, worker, program, stopping>>

-----------------------------------------------------------------------------
(* stop_all.                                                               *)

\* a stop_all that forgets the connectors
StopAllFault(t) ==
    /\ Locks(t, "stop_all")
    /\ \A e \in Ents : ~Starting(e)
    /\ m_mutex' = t
    /\ todo' = m_udp_entities \o m_acceptors
    /\ stopping' = {e \in Contained : state[e] = "open"}
    /\ Goto(t, "next")
    /\ UNCHANGED <<containers, ents, execq, in_posted, op, worker, program>>

StopAll(t) ==
    /\ Locks(t, "stop_all")
    /\ \A e \in Ents : ~Starting(e)
    /\ m_mutex' = t
    /\ todo' = m_udp_entities \o m_connectors \o m_acceptors
    /\ stopping' = {e \in Contained : state[e] = "open"}
    /\ Goto(t, "next")
    /\ UNCHANGED <<containers, ents, execq, in_posted, op, worker, program>>

\* stop of the next entity: its compare and exchange, and if that is lost
\* the one after it
StopAllNext(t) ==
    /\ pc[t] = "next" /\ todo # <<>>
    /\ ~Starting(Head(todo))
    /\ IF m_started[Head(todo)] = 1
         THEN /\ m_started' = [m_started EXCEPT ![Head(todo)] = 2]
              /\ Goto(t, "post")
              /\ UNCHANGED todo
         ELSE todo' = Tail(todo) /\ UNCHANGED <<m_started, pc>>
    /\ UNCHANGED <<m_mutex, containers, state, execq, in_posted, op, worker, program,
                   stopping>>

StopAllEnds(t) ==
    /\ pc[t] = "next" /\ todo = <<>>
    /\ m_mutex' = NoOne
    /\ stopping' = {}
    /\ op' = [op EXCEPT ![t] = NoCall]
    /\ Goto(t, Returned(t))
    /\ UNCHANGED <<containers, ents, execq, in_posted, todo, worker, program>>

-----------------------------------------------------------------------------
(* The run thread.                                                         *)

RunReady == pc[Run] = "idle" /\ worker \in {"running", "reset"}

\* the head of execq: do_start opens the entity, or fails and closes it (a
\* connector's always succeeds); the stop function closes it; a visit calls
\* the application's function
Execute ==
    /\ RunReady /\ execq # <<>>
    /\ in_posted' = TRUE
    /\ LET e == Head(execq).ent IN
         CASE Head(execq).fn = "start" ->
                \/ state' = [state EXCEPT ![e] = "open"] /\ UNCHANGED m_started
                \/ /\ e \notin Connectors
                   /\ state' = [state EXCEPT ![e] = "closed"]
                   /\ m_started' = [m_started EXCEPT ![e] = 2]
           [] Head(execq).fn = "stop" ->
                /\ state' = [state EXCEPT ![e] = IF @ = "open" THEN "closing" ELSE @]
                /\ UNCHANGED m_started
           [] OTHER -> UNCHANGED ents
    /\ Goto(Run, "callback")
    /\ UNCHANGED <<m_mutex, containers, execq, op, todo, worker, program, stopping>>

\* a UDP entity's close after an error that does not call set_stopped
HandlerFault(e) ==
    /\ RunReady
    /\ state[e] = "open" /\ e \notin Acceptors
    /\ state' = [state EXCEPT ![e] = "closing"]
    /\ Goto(Run, "callback")
    /\ UNCHANGED <<m_mutex, containers, m_started, execq, in_posted, op, todo, worker, program,
                   stopping>>

\* A completion handler of an open entity: it calls the message handler or
\* state change function, and after an error may close the entity.  A UDP
\* entity closes with set_stopped.  A connector does when a connect fails,
\* but not when a resolve fails (m_state is stopped before close looks at it)
\* or a connection ends (notify_me calls finish_close).  An acceptor does not
\* close by itself
Handler(e) ==
    /\ RunReady
    /\ state[e] = "open"
    /\ \/ UNCHANGED ents
       \/ /\ e \notin Acceptors
          /\ state' = [state EXCEPT ![e] = "closing"]
          /\ \/ m_started' = [m_started EXCEPT ![e] = 2]
             \/ e \in Connectors /\ UNCHANGED m_started
    /\ Goto(Run, "callback")
    /\ UNCHANGED <<m_mutex, containers, execq, in_posted, op, todo, worker, program, stopping>>

\* the last cancelled operation's handler has run and released the entity
Drained(e) ==
    /\ RunReady
    /\ state[e] = "closing"
    /\ state' = [state EXCEPT ![e] = "closed"]
    /\ UNCHANGED <<m_mutex, containers, m_started, execq, in_posted, pc, op, todo,
                   worker, program, stopping>>

\* a posted function that sets its promise only when it found the entity open
EndHandlerFault ==
    /\ pc[Run] \in {"callback", "callback_done"}
    /\ in_posted' = FALSE
    /\ IF in_posted /\ state[Head(execq).ent] # "closed"
         THEN LET t == Head(execq).by IN
              /\ execq' = Tail(execq)
              /\ pc' = [pc EXCEPT ![Run] = "idle",
                                  ![t] = IF op[t].fn = "stop_all" THEN "next" ELSE "idle"]
              /\ op' = IF op[t].fn = "stop_all" THEN op ELSE [op EXCEPT ![t] = NoCall]
         ELSE /\ execq' = IF in_posted THEN Tail(execq) ELSE execq
              /\ Goto(Run, "idle")
              /\ UNCHANGED op
    /\ UNCHANGED <<m_mutex, containers, ents, todo, worker, program, stopping>>

\* the callback returns and the handler ends; a posted function sets its
\* promise and the caller goes on
EndHandler ==
    /\ pc[Run] \in {"callback", "callback_done"}
    /\ in_posted' = FALSE
    /\ IF in_posted
         THEN LET t == Head(execq).by IN
              /\ execq' = Tail(execq)
              /\ pc' = [pc EXCEPT ![Run] = "idle",
                                  ![t] = IF op[t].fn = "stop_all" THEN "next" ELSE "idle"]
              /\ op' = IF op[t].fn = "stop_all" THEN op ELSE [op EXCEPT ![t] = NoCall]
         ELSE Goto(Run, "idle") /\ UNCHANGED <<execq, op>>
    /\ UNCHANGED <<m_mutex, containers, ents, todo, worker, program, stopping>>

-----------------------------------------------------------------------------
(* worker.                                                                 *)

WorkerStep(from, to) ==
    /\ worker \in from /\ worker' = to
    /\ UNCHANGED <<m_mutex, containers, ents, execq, in_posted, op, todo, program, stopping>>

WorkerStart == WorkerStep({"new"}, "running") /\ UNCHANGED pc

\* io_context::stop, join
WorkerStop == pc[Main] = "idle" /\ WorkerStep({"running"}, "stopped") /\ Goto(Main, "join")

\* a reset that joins without releasing the work guard
WorkerResetFault ==
    /\ pc[Main] = "idle" /\ worker = "running"
    /\ Goto(Main, "join")
    /\ UNCHANGED <<m_mutex, containers, ents, execq, in_posted, op, todo, worker, program,
                   stopping>>

\* the work guard is released, join
WorkerReset == pc[Main] = "idle" /\ WorkerStep({"running"}, "reset") /\ Goto(Main, "join")

\* io_context::run returns: stopped, or nothing left to do
RunReturns ==
    /\ pc[Run] = "idle"
    /\ worker = "reset" => execq = <<>> /\ \A e \in Ents : state[e] \notin {"open", "closing"}
    /\ WorkerStep({"stopped", "reset"}, "exited")
    /\ UNCHANGED pc

Joined == pc[Main] = "join" /\ WorkerStep({"exited"}, "exited") /\ Goto(Main, "idle")

-----------------------------------------------------------------------------
Call(t) ==
    \/ CallLocked(t)
    \/ \E e \in Ents : CallStart(t, e) \/ CallStop(t, e) \/ CallVisit(t, e)

LockedStep(t) ==
    \/ MakeUdp(t) \/ MakeConnector(t) \/ MakeAcceptor(t)
    \/ Remove(t) \/ RemoveAll(t)

StopAllStep(t) == StopAll(t) \/ StopAllNext(t) \/ StopAllEnds(t)

RunStep ==
    \/ Execute \/ EndHandler \/ RunReturns
    \/ LockedStep(Run) \/ Post(Run)
    \/ \E e \in Ents : Drained(e)

Next ==
    \/ \E t \in Threads : Call(t)
    \/ \E t \in AppThreads : LockedStep(t) \/ StopAllStep(t) \/ Post(t)
    \/ WorkerStart \/ WorkerStop \/ WorkerReset \/ Joined
    \/ RunStep
    \/ \E e \in Ents : Handler(e)

Spec == Init /\ [][Next]_vars

\* The run thread runs while the worker does, what it posted comes before
\* more input of the same entity (Asio's queue of ready handlers is a FIFO);
\* threads inside a call go on.  Nothing makes the application call, or a
\* message arrive.
FairSpec ==
    /\ Spec
    /\ WF_vars(WorkerStart) /\ WF_vars(Joined)
    /\ SF_vars(Execute) /\ WF_vars(EndHandler) /\ WF_vars(RunReturns)
    /\ WF_vars(LockedStep(Run))
    /\ \A e \in Ents : SF_vars(Drained(e))
    /\ \A t \in AppThreads : WF_vars(LockedStep(t) \/ StopAllStep(t) \/ Post(t))

-----------------------------------------------------------------------------
TypeOK ==
    /\ m_mutex \in Threads \cup {NoOne}
    /\ m_udp_entities \in Seq(Udps) /\ m_connectors \in Seq(Connectors)
    /\ m_acceptors \in Seq(Acceptors) /\ todo \in Seq(Ents)
    /\ m_started \in [Ents -> 0..2]
    /\ state \in [Ents -> {"none", "new", "open", "closing", "closed"}]
    /\ execq \in Seq([fn : {"start", "stop", "visit"}, ent : Ents, by : Threads])
    /\ pc \in [Threads -> {"idle", "lock", "post", "wait", "next", "join",
                           "callback", "callback_done"}]
    /\ op \in [Threads -> [fn : Fns \cup {"none"}, ent : Ents \cup {NoEnt}]]
    /\ in_posted \in BOOLEAN
    /\ worker \in {"new", "running", "reset", "stopped", "exited"}
    /\ stopping \subseteq Ents

\* Nobody waits in a circle: the run thread never waits for a mutex whose
\* holder waits for the run thread, nor for itself.
NoCyclicWait ==
    /\ ~(pc[Run] = "lock" /\ m_mutex # NoOne /\ pc[m_mutex] \in {"post", "wait"})
    /\ pc[Run] # "wait"

\* When stop_all is past an entity that was open when it took the mutex, the
\* entity is closed, unless another thread was stopping it already: then
\* stop_all goes on without waiting for it.
StopAllStops ==
    \A e \in stopping \ Range(todo) :
        \/ state[e] # "open"
        \/ \E t \in Threads : op[t] = [fn |-> "stop", ent |-> e]

\* is_started(), when no call on the entity is under way: an open entity is
\* started, and an acceptor or UDP entity that has closed, by itself or not,
\* is not, nor is one whose handle has expired.  A connector that has ended by
\* itself may still say that it is started, but none that never ran does.
IsStartedAgrees ==
    \A e \in Ents :
        (\A t \in Threads : op[t].ent # e /\ (op[t].fn = "stop_all" => e \notin Range(todo)))
          => /\ state[e] = "open" => IsStarted(e) = {TRUE}
             /\ IsStarted(e) = {TRUE} =>
                  IF e \in Connectors THEN state[e] \notin {"none", "new"}
                                      ELSE state[e] = "open"

\* A start, stop, visit or stop_all is answered, unless the worker has been
\* stopped or has run out of work: worker::stop abandons what was posted.
CallsReturn ==
    \A t \in AppThreads :
        pc[t] = "wait" ~> pc[t] # "wait" \/ worker \in {"stopped", "exited"}

\* worker::reset returns once nothing is open and nobody posts any more: no
\* closing entity, answered call or released handle keeps the run thread.
ResetReturns ==
    []<>~(pc[Main] = "join" /\ execq = <<>> /\ \A e \in Ents : state[e] # "open")

=============================================================================
