----------------------------- MODULE MCUdpEntityIo -----------------------------
(* Instances of UdpEntityIo: one thread calls start, one stop, the run     *)
(* thread and perhaps a further one call the IO methods.                   *)
EXTENDS UdpEntityIo

MCBufSize == [n \in 1..MaxSends |-> n]

=============================================================================
