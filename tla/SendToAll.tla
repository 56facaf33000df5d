------------------------------ MODULE SendToAll ------------------------------
(***************************************************************************)
(* net_ip_component/send_to_all.hpp: a collection of basic_io_output       *)
(* objects, one for each connection to which every buffer is sent.  It is  *)
(* used as a state change callback, which adds a new connection's output   *)
(* and removes a closed one's.  Any thread may send or ask for the total   *)
(* of the queue statistics; both visit the outputs one after the other,    *)
(* holding m_mutex throughout, and the state change callback waits for it. *)
(*                                                                         *)
(* Of an IO handler there is only what basic_io_output sees through its    *)
(* weak pointer: Open says which of them are started, and take a buffer:   *)
(* to write it at once, past the queue, when no write is in progress       *)
(* (io_common.hpp:106).  The others refuse it, and count as nothing        *)
(* (expired) or have an empty queue.                                       *)
(*                                                                         *)
(* A connection is reported once as new, so that the collection is         *)
(* modelled as a set.  Each buffer sent is known by its number.            *)
(***************************************************************************)
EXTENDS Naturals, Sequences

CONSTANTS
    MaxConns,       \* bound: IO handlers there may be
    Senders,        \* the threads that call the methods
    MaxCalls,       \* bound: calls of these methods
    MaxSends        \* bound: calls of send among them; the total is asked for
                    \* when all of these have begun

Outputs == 1..MaxConns
NoOutput == 0       \* no cur_io to skip
NoThread == 0       \* m_mutex is free

ASSUME SendToAllAssumption ==
    /\ {MaxConns, MaxCalls} \subseteq Nat
    /\ NoThread \notin Senders

ASSUME MaxSendsAssumption == MaxSends \in Nat

VARIABLES
    io_outs,
    m_mutex,        \* the thread that holds it
    visit,          \* per thread: the outputs still to visit, the buffer's
                    \* number (0: a request for statistics), the sum
    writing,        \* the outputs with a write in progress
    queued,         \* per output: the buffers in its queue
    calls,          \* calls made, up to MaxCalls
    skips,          \* history: cur_io of each call of send, in order
    taken           \* history, per output: the buffers it took, in order

sendVars == <<io_outs, m_mutex, visit, writing, queued, calls, skips, taken>>

NoVisit == [left |-> {}, buf |-> 0, sum |-> 0]

SendToAllInit ==
    /\ io_outs = {} /\ m_mutex = NoThread
    /\ visit = [t \in Senders |-> NoVisit]
    /\ writing = {} /\ queued = [h \in Outputs |-> 0]
    /\ calls = 0 /\ skips = <<>>
    /\ taken = [h \in Outputs |-> <<>>]

-----------------------------------------------------------------------------
\* an operator() that never removes
StateChangeFault(io, starting) ==
    /\ m_mutex = NoThread
    /\ io_outs' = IF starting THEN io_outs \cup {io} ELSE io_outs
    /\ UNCHANGED <<m_mutex, visit, writing, queued, calls, skips, taken>>

\* operator(): io is valid when it is called, so make_io_output succeeds;
\* add_io_output and remove_io_output take the lock
StateChange(io, starting) ==
    /\ m_mutex = NoThread
    /\ io_outs' = IF starting THEN io_outs \cup {io} ELSE io_outs \ {io}
    /\ UNCHANGED <<m_mutex, visit, writing, queued, calls, skips, taken>>

\* send without a lock
SendFault(t) ==
    /\ visit[t] = NoVisit /\ calls < MaxCalls /\ Len(skips) < MaxSends
    /\ calls' = calls + 1
    /\ \E cur_io \in io_outs \cup {NoOutput} :
         /\ visit' = [visit EXCEPT ![t].left = io_outs \ {cur_io},
                                   ![t].buf = Len(skips) + 1]
         /\ skips' = Append(skips, cur_io)
    /\ m_mutex' = t
    /\ UNCHANGED <<io_outs, writing, queued, taken>>

\* send, to all or to all except cur_io: takes the lock
Send(t) ==
    /\ m_mutex = NoThread /\ calls < MaxCalls /\ Len(skips) < MaxSends
    /\ calls' = calls + 1
    /\ \E cur_io \in io_outs \cup {NoOutput} :
         /\ visit' = [visit EXCEPT ![t].left = io_outs \ {cur_io},
                                   ![t].buf = Len(skips) + 1]
         /\ skips' = Append(skips, cur_io)
    /\ m_mutex' = t
    /\ UNCHANGED <<io_outs, writing, queued, taken>>

\* get_total_output_queue_stats without a lock
TotalFault(t) ==
    /\ visit[t] = NoVisit /\ Len(skips) = MaxSends /\ calls < MaxCalls
    /\ calls' = calls + 1
    /\ visit' = [visit EXCEPT ![t].left = io_outs]
    /\ m_mutex' = t
    /\ UNCHANGED <<io_outs, writing, queued, skips, taken>>

\* get_total_output_queue_stats takes the lock
Total(t) ==
    /\ m_mutex = NoThread /\ Len(skips) = MaxSends /\ calls < MaxCalls
    /\ calls' = calls + 1
    /\ visit' = [visit EXCEPT ![t].left = io_outs]
    /\ m_mutex' = t
    /\ UNCHANGED <<io_outs, writing, queued, skips, taken>>

\* basic_io_output::send to the next output
SendNext(t, io, Open) ==
    /\ visit[t].buf > 0 /\ io \in visit[t].left
    /\ visit' = [visit EXCEPT ![t].left = @ \ {io}]
    /\ IF io \in Open
         THEN /\ taken' = [taken EXCEPT ![io] = Append(@, visit[t].buf)]
              /\ writing' = writing \cup {io}
              /\ queued' = IF io \in writing THEN [queued EXCEPT ![io] = @ + 1] ELSE queued
         ELSE UNCHANGED <<taken, writing, queued>>
    /\ UNCHANGED <<io_outs, m_mutex, calls, skips>>

\* accumulate_output_queue_stats: basic_io_output::get_output_queue_stats
\* of the next output: of its queue, without the buffer being written
CountNext(t, io, Open) ==
    /\ visit[t].buf = 0 /\ io \in visit[t].left
    /\ visit' = [visit EXCEPT ![t].left = @ \ {io},
                              ![t].sum = @ + (IF io \in Open THEN queued[io] ELSE 0)]
    /\ UNCHANGED <<io_outs, m_mutex, writing, queued, calls, skips, taken>>

\* the method returns and gives the lock back
Done(t) ==
    /\ m_mutex = t /\ visit[t].left = {}
    /\ visit' = [visit EXCEPT ![t] = NoVisit]
    /\ m_mutex' = NoThread
    /\ UNCHANGED <<io_outs, writing, queued, calls, skips, taken>>

\* the output's write completes, and the next begins if one is queued
Written(io, Open) ==
    /\ io \in Open \cap writing
    /\ IF queued[io] > 0
         THEN queued' = [queued EXCEPT ![io] = @ - 1] /\ UNCHANGED writing
         ELSE writing' = writing \ {io} /\ UNCHANGED queued
    /\ UNCHANGED <<io_outs, m_mutex, visit, calls, skips, taken>>

SenderStep(t, Open) ==
    \/ \E io \in Outputs : SendNext(t, io, Open) \/ CountNext(t, io, Open)
    \/ Done(t)

-----------------------------------------------------------------------------
\* the buffers io took and has not written
Unwritten(io) == queued[io] + (IF io \in writing THEN 1 ELSE 0)

\* io has taken buffer n
Took(io, n) == \E i \in 1..Len(taken[io]) : taken[io][i] = n

SendToAllTypeOK ==
    /\ io_outs \subseteq Outputs
    /\ m_mutex \in Senders \cup {NoThread}
    /\ visit \in [Senders -> [left : SUBSET Outputs, buf : 0..MaxCalls, sum : Nat]]
    /\ calls \in 0..MaxCalls
    /\ writing \subseteq Outputs
    /\ queued \in [Outputs -> 0..MaxCalls]
    /\ skips \in Seq(Outputs \cup {NoOutput})
    /\ taken \in [Outputs -> Seq(1..MaxCalls)]

=============================================================================
