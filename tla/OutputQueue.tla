------------------------------ MODULE OutputQueue ------------------------------
(***************************************************************************)
(* detail/output_queue.hpp: the FIFO of buffers that an IO handler could   *)
(* not write at once, with a running count of the bytes it holds.  The     *)
(* methods are not synchronised themselves: io_common calls every one of   *)
(* them with its mutex held, so each is one step.                          *)
(*                                                                         *)
(* A buffer is the number of the send call that it came from; BufSize      *)
(* gives its length.  m_current_num_bytes is a std::size_t: it is counted  *)
(* modulo ByteModulus.                                                     *)
(***************************************************************************)
EXTENDS Integers, Sequences

CONSTANTS
    MaxSends,       \* bound: how many buffers are accepted in a behaviour
    BufSize,        \* the size in bytes of each buffer
    ByteModulus     \* 2^w for the width w of std::size_t

ASSUME QueueAssumption ==
    /\ MaxSends \in Nat
    /\ ByteModulus \in Nat \ {0}
    /\ BufSize \in [1..MaxSends -> Nat]

VARIABLES
    outq,           \* m_output_queue
    num_bytes       \* m_current_num_bytes

queueVars == <<outq, num_bytes>>

QueueInit == outq = <<>> /\ num_bytes = 0

\* get_next_element when the queue holds something; the front is Head(outq)
GetNextElement ==
    /\ outq # <<>>
    /\ outq' = Tail(outq)
    /\ num_bytes' = (num_bytes - BufSize[Head(outq)]) % ByteModulus

\* an add_element whose counter is wider than std::size_t
AddElementFault(e) == outq' = Append(outq, e) /\ num_bytes' = num_bytes + BufSize[e]

AddElement(e) ==
    /\ outq' = Append(outq, e)
    /\ num_bytes' = (num_bytes + BufSize[e]) % ByteModulus

\* a clear that forgets the byte count
ClearKeepingBytes == outq' = <<>> /\ UNCHANGED num_bytes

QueueClear == outq' = <<>> /\ num_bytes' = 0

=============================================================================
