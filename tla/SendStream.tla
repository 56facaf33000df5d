------------------------------ MODULE SendStream ------------------------------
(***************************************************************************)
(* What the send methods of a basic_io_output promise, with no queue, no   *)
(* lock and no flag.  Buffers are numbered in the order in which send      *)
(* accepted them.  Each is handed to the socket at most once and in that   *)
(* order; the only reason for one not to be handed over is that the IO     *)
(* handler gave up everything it still held (it was stopped).              *)
(***************************************************************************)
EXTENDS Naturals

VARIABLES
    nsent,          \* how many buffers send has accepted
    handed,         \* the buffers handed to the socket
    lost            \* the buffers given up

streamVars == <<nsent, handed, lost>>

Pending == (1..nsent) \ (handed \cup lost)

Init == nsent = 0 /\ handed = {} /\ lost = {}

\* send keeps the buffer for later
Accept ==
    /\ nsent' = nsent + 1
    /\ UNCHANGED <<handed, lost>>

\* send hands the buffer over at once: nothing it could overtake is pending
AcceptAndHand ==
    /\ Pending = {}
    /\ nsent' = nsent + 1
    /\ handed' = handed \cup {nsent + 1}
    /\ UNCHANGED lost

\* the oldest pending buffer is handed over
HandNext ==
    \E k \in Pending :
        /\ \A j \in Pending : k <= j
        /\ handed' = handed \cup {k}
        /\ UNCHANGED <<nsent, lost>>

GiveUp ==
    /\ lost' = lost \cup Pending
    /\ UNCHANGED <<nsent, handed>>

Next == Accept \/ AcceptAndHand \/ HandNext \/ GiveUp

Spec == Init /\ [][Next]_streamVars

=============================================================================
