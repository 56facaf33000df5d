--------------------------- MODULE NetEntityCommon ---------------------------
(***************************************************************************)
(* detail/net_entity_common.hpp: start and stop of a net entity (TCP       *)
(* acceptor, TCP connector, UDP entity), called from application threads.  *)
(* Each wins or loses a compare and exchange of m_started, posts the       *)
(* entity's function to the executor and blocks on a future until the run  *)
(* thread has executed it.  The exchange, the assignment of the callbacks  *)
(* and the post are separate steps.  A call that loses the exchange        *)
(* returns an error and changes nothing; it is not an action.              *)
(*                                                                         *)
(* The executor's queue of posted functions is part of Asio; it is a FIFO, *)
(* and an element stays at its head until the function has returned.       *)
(***************************************************************************)
EXTENDS Naturals, Sequences

CONSTANT Callers        \* the threads that call start or stop, once each

VARIABLES
    m_started,          \* 0 never started, 1 started, 2 stopped
    have_cbs,           \* the callbacks have been assigned
    call,               \* Callers -> where the thread is in start or stop
    execq               \* the run thread's queue: <<function, argument>>

entityVars == <<m_started, have_cbs, call, execq>>

EntityInit ==
    /\ m_started = 0
    /\ have_cbs = FALSE
    /\ call = [t \in Callers |-> "idle"]
    /\ execq = <<>>

is_started == m_started = 1

EntityTypeOK ==
    /\ m_started \in 0..2
    /\ have_cbs \in BOOLEAN
    /\ call \in [Callers -> {"idle", "assign", "post_start", "post_stop",
                             "wait", "returned"}]

CallGoto(t, step) == call' = [call EXCEPT ![t] = step]

\* start: compare_exchange 0 -> 1
StartCas(t) ==
    /\ call[t] = "idle"
    /\ m_started = 0
    /\ m_started' = 1
    /\ CallGoto(t, "assign")
    /\ UNCHANGED <<have_cbs, execq>>

\* start: the two callbacks are assigned
StartAssign(t) ==
    /\ call[t] = "assign"
    /\ have_cbs' = TRUE
    /\ CallGoto(t, "post_start")
    /\ UNCHANGED <<m_started, execq>>

\* start: post the entity's do_start and wait
StartPost(t) ==
    /\ call[t] = "post_start"
    /\ execq' = Append(execq, <<"start", t>>)
    /\ CallGoto(t, "wait")
    /\ UNCHANGED <<m_started, have_cbs>>

\* a stop that counts m_started up without comparing
StopCasFault(t) ==
    /\ call[t] = "idle"
    /\ m_started' = m_started + 1
    /\ CallGoto(t, "post_stop")
    /\ UNCHANGED <<have_cbs, execq>>

\* stop: compare_exchange 1 -> 2
StopCas(t) ==
    /\ call[t] = "idle"
    /\ m_started = 1
    /\ m_started' = 2
    /\ CallGoto(t, "post_stop")
    /\ UNCHANGED <<have_cbs, execq>>

\* stop: post the entity's close and wait
StopPost(t) ==
    /\ call[t] = "post_stop"
    /\ execq' = Append(execq, <<"stop", t>>)
    /\ CallGoto(t, "wait")
    /\ UNCHANGED <<m_started, have_cbs>>

CallStep(t) == StartAssign(t) \/ StartPost(t) \/ StopPost(t)

\* the run thread's next posted function is fn
Posted(fn) == execq # <<>> /\ Head(execq)[1] = fn

\* the posted function has returned: the future its caller waits for is ready
PostedDone ==
    /\ execq' = Tail(execq)
    /\ CallGoto(Head(execq)[2], "returned")
    /\ UNCHANGED <<m_started, have_cbs>>

=============================================================================
