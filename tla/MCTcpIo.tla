------------------------------ MODULE MCTcpIo ------------------------------
(* Instances of TcpIo: the run thread and one or two application threads.  *)
EXTENDS TcpIo

MCBufSize == [n \in 1..MaxSends |-> n]

\* The handler as the state change callback usually leaves it: start_io has
\* been called, the first read is outstanding.
StartedInit ==
    /\ IC!QueueInit
    /\ io_started = TRUE
    /\ write_in_progress = FALSE /\ writing = {} /\ nsent = 0 /\ handed = {}
    /\ socket = "open" /\ peer = "up"
    /\ reads = 1 /\ deadReads = 0 /\ deadWrites = {} /\ posted = 0
    /\ pc = [t \in Threads |-> "idle"] /\ ret = "idle"
    /\ notified = 0 /\ late = 0
    /\ starts = 1 /\ stops = 0 /\ msgs = 0

StartedSpec == StartedInit /\ [][Next]_vars

=============================================================================
