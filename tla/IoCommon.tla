------------------------------- MODULE IoCommon -------------------------------
(***************************************************************************)
(* detail/io_common.hpp: what the TCP and UDP IO handlers share.  It       *)
(* decides whether a buffer given to send is refused, queued, or written   *)
(* at once, and what is written when a write completes.                    *)
(*                                                                         *)
(* Every method holds m_mutex from its first line to its last, the         *)
(* function object that starts the asynchronous write included, so every   *)
(* method is one action whatever thread calls it.  This module puts no     *)
(* order on the calls: they may come from any thread at any time, which is *)
(* how the IO handlers use the class (send from every thread, stop_io from *)
(* an application thread while the run thread completes a write).          *)
(*                                                                         *)
(* Outside the class: `writing' is the set of asynchronous writes started  *)
(* on the socket whose handler has not run.  History: `nsent' counts the   *)
(* buffers accepted, `handed' is the set of buffers ever given to a write. *)
(***************************************************************************)
EXTENDS OutputQueue, FiniteSets, SequencesExt

VARIABLES
    io_started,         \* m_io_started
    write_in_progress,  \* m_write_in_progress
    writing,
    nsent,
    handed

ioVars == <<outq, num_bytes, io_started, write_in_progress, writing, nsent, handed>>

Init ==
    /\ QueueInit
    /\ io_started = FALSE
    /\ write_in_progress = FALSE
    /\ writing = {}
    /\ nsent = 0
    /\ handed = {}

-----------------------------------------------------------------------------
(* The state changing methods.  set_io_started and set_io_stopped return   *)
(* whether they changed the flag, that is the value it did not have.       *)

SetIoStarted ==
    /\ io_started' = TRUE
    /\ UNCHANGED <<outq, num_bytes, write_in_progress, writing, nsent, handed>>

SetIoStopped ==
    /\ io_started' = FALSE
    /\ UNCHANGED <<outq, num_bytes, write_in_progress, writing, nsent, handed>>

\* a do_clear that leaves the byte count alone
DoClearFault == ClearKeepingBytes /\ write_in_progress' = FALSE

\* do_clear, called with the mutex held
DoClear == QueueClear /\ write_in_progress' = FALSE

Clear == DoClear /\ UNCHANGED <<io_started, writing, nsent, handed>>

\* func(elem): an asynchronous write of e is started
HandOver(e, outstanding) ==
    /\ writing' = outstanding \cup {e}
    /\ handed' = handed \cup {e}

\* start_write of the next buffer: io_stopped
StartWriteStopped ==
    /\ ~io_started
    /\ DoClear
    /\ UNCHANGED <<io_started, writing, nsent, handed>>

\* start_write: queued
StartWriteQueued ==
    /\ io_started
    /\ write_in_progress
    /\ nsent < MaxSends
    /\ nsent' = nsent + 1
    /\ AddElement(nsent + 1)
    /\ UNCHANGED <<io_started, write_in_progress, writing, handed>>

\* a start_write that does not look at m_write_in_progress
StartWriteFault ==
    /\ io_started
    /\ nsent < MaxSends
    /\ nsent' = nsent + 1
    /\ write_in_progress' = TRUE
    /\ HandOver(nsent + 1, writing)
    /\ UNCHANGED <<outq, num_bytes, io_started>>

\* start_write: write_started
StartWriteStarted ==
    /\ io_started
    /\ ~write_in_progress
    /\ nsent < MaxSends
    /\ nsent' = nsent + 1
    /\ write_in_progress' = TRUE
    /\ HandOver(nsent + 1, writing)
    /\ UNCHANGED <<outq, num_bytes, io_started>>

StartWrite == StartWriteStopped \/ StartWriteQueued \/ StartWriteStarted

\* write_next_elem in the handler of the write of w: shutting down
WriteNextStopped(w) ==
    /\ ~io_started
    /\ DoClear
    /\ writing' = writing \ {w}
    /\ UNCHANGED <<io_started, nsent, handed>>

\* write_next_elem: nothing is queued
WriteNextIdle(w) ==
    /\ io_started
    /\ outq = <<>>
    /\ write_in_progress' = FALSE
    /\ writing' = writing \ {w}
    /\ UNCHANGED <<outq, num_bytes, io_started, nsent, handed>>

\* a write_next_elem that declares the writer idle once the queue runs empty
WriteNextQueuedFault(w) ==
    /\ io_started
    /\ GetNextElement
    /\ write_in_progress' = FALSE
    /\ HandOver(Head(outq), writing \ {w})
    /\ UNCHANGED <<io_started, nsent>>

\* write_next_elem: the front of the queue is written
WriteNextQueued(w) ==
    /\ io_started
    /\ GetNextElement
    /\ write_in_progress' = TRUE
    /\ HandOver(Head(outq), writing \ {w})
    /\ UNCHANGED <<io_started, nsent>>

WriteNextElem(w) == WriteNextStopped(w) \/ WriteNextIdle(w) \/ WriteNextQueued(w)

\* a write fails: its handler does not come back to io_common
WriteFailed(w) ==
    /\ writing' = writing \ {w}
    /\ UNCHANGED <<outq, num_bytes, io_started, write_in_progress, nsent, handed>>

Next ==
    \/ SetIoStarted
    \/ SetIoStopped
    \/ Clear
    \/ StartWrite
    \/ \E w \in writing : WriteNextElem(w) \/ WriteFailed(w)

Spec == Init /\ [][Next]_ioVars

-----------------------------------------------------------------------------
TypeOK ==
    /\ outq \in Seq(1..MaxSends)
    /\ num_bytes \in 0..(ByteModulus - 1)
    /\ io_started \in BOOLEAN
    /\ write_in_progress \in BOOLEAN
    /\ nsent \in 0..MaxSends
    /\ handed \subseteq 1..MaxSends
    /\ writing \subseteq handed

\* A buffer only waits in the queue behind a write: were m_write_in_progress
\* false with the queue not empty, the next send would overtake what waits
\* there (io_common start_write tests only the flag).
QueueWaitsForWrite == outq # <<>> => write_in_progress

\* The queue is exactly the most recently accepted buffers, in the order in
\* which send accepted them, and none of them has been handed over:
\* start_write, write_next_elem and do_clear never lose one from the middle,
\* reorder two or write one twice.
QueueIsBacklog ==
    /\ Len(outq) <= nsent
    /\ \A i \in 1..Len(outq) : outq[i] = nsent - Len(outq) + i
    /\ \A e \in handed : e <= nsent - Len(outq)

\* get_output_queue_stats reports the bytes that are in the queue, even when
\* the counter has wrapped in between (the overflow add_element's comment
\* speaks of): additions and subtractions are in the same modular arithmetic.
BytesMatchQueue ==
    num_bytes = FoldLeft(LAMBDA sum, e : sum + BufSize[e], 0, outq) % ByteModulus

\* The send order promised by basic_io_output: what io_common's queue and
\* flag implement.  A buffer is lost when it was accepted, is not queued any
\* more and was never handed over.
Stream == INSTANCE SendStream
    WITH lost <- (1..(nsent - Len(outq))) \ handed

\* io_common hands buffers over in the order of the send calls, each at most
\* once, and drops only at do_clear.
SendOrder == Stream!Spec

=============================================================================
