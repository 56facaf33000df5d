----------------------------- MODULE ReadFraming -----------------------------
(***************************************************************************)
(* The bytes behind TcpIo's "message": how tcp_io.hpp cuts what the peer   *)
(* sends into the messages it gives to the message handler, as the call of *)
(* start_io asked (io_state_change.hpp, basic_io_interface.hpp): of fixed  *)
(* size, of a size that a message frame tells, or up to a delimiter.  The  *)
(* network delivers the stream in pieces of any size, asio::async_read     *)
(* fills the buffer it was given, asio::async_read_until appends what it   *)
(* gets to m_byte_vec, beyond the delimiter too.                           *)
(*                                                                         *)
(* The message handler may return false; stop_io may be called by any      *)
(* thread at any time, and the connection may fail.  Of what module TcpIo  *)
(* shows of start_io, stop_io and close there is only the outcome.         *)
(***************************************************************************)
EXTENDS Naturals, SequencesExt

CONSTANTS
    Streams,        \* what a peer may send: sequences of bytes
    StateChanges,   \* the state change callbacks the application may use
    HeaderValue(_)  \* hdr_decoder_func: the body's size, from the header

Frames == {"null_msg_frame", "simple_variable_len_msg_frame", "chained", "delimiter"}

\* a state change callback is known by the start_io it makes
ASSUME ReadFramingAssumption ==
    /\ \A s \in StateChanges :
         s.frame \in Frames /\ s.size \in Nat \ {0} /\ s.delim \in Seq(Nat) \ {<<>>}
    /\ Streams \subseteq Seq(Nat)
    /\ \A s \in Streams : \A i \in 1..Len(s) : \A j \in i..Len(s) :
         HeaderValue(SubSeq(s, i, j)) \in Nat

VARIABLES
    stream,         \* what the peer sends, and then closes or stays silent
    received,       \* how much of it the socket has given
    io_state_chg,   \* the application's state change callback
    socket,         \* "open" or "closed"
    io_started,
    m_byte_vec,
    mbuf,           \* the part of m_byte_vec that is read into: [first, size]
    filled,         \* how much of it has been read
    m_hdr_processed,
    reading,        \* a read is outstanding
    posted,         \* a close is posted
    delivered       \* the messages given to the message handler

vars == <<stream, received, io_state_chg, socket, io_started, m_byte_vec, mbuf, filled,
          m_hdr_processed, reading, posted, delivered>>

Init ==
    /\ stream \in Streams
    /\ received = 0
    /\ io_state_chg \in StateChanges
    /\ socket = "open" /\ io_started = FALSE
    /\ m_byte_vec = <<>> /\ mbuf = [first |-> 1, size |-> 0] /\ filled = 0
    /\ m_hdr_processed = FALSE
    /\ reading = FALSE /\ posted = FALSE
    /\ delivered = <<>>

ByDelimiter == io_state_chg.frame = "delimiter"

Resize(v, n) == [i \in 1..n |-> IF i <= Len(v) THEN v[i] ELSE 0]

\* start_read into the last n bytes of v
StartRead(v, n) ==
    /\ m_byte_vec' = v
    /\ mbuf' = [first |-> Len(v) - n + 1, size |-> n]
    /\ filled' = 0
    /\ reading' = (socket = "open")

-----------------------------------------------------------------------------
\* the state change callback calls start_io for a new connection
StartIo ==
    /\ socket = "open" /\ ~io_started
    /\ io_started' = TRUE
    /\ IF ByDelimiter
         THEN reading' = TRUE /\ UNCHANGED <<m_byte_vec, mbuf, filled>>
         ELSE StartRead(Resize(m_byte_vec, io_state_chg.size), io_state_chg.size)
    /\ UNCHANGED <<stream, received, io_state_chg, socket, m_hdr_processed, posted, delivered>>

\* close
Close ==
    /\ socket' = "closed"
    /\ io_started' = FALSE

\* stop_io, by any thread; a read that has its bytes still completes
StopIo ==
    /\ socket = "open"
    /\ Close
    /\ UNCHANGED <<stream, received, io_state_chg, m_byte_vec, mbuf, filled, m_hdr_processed,
                   reading, posted, delivered>>

\* the posted close
PostedClose ==
    /\ posted
    /\ posted' = FALSE
    /\ Close
    /\ UNCHANGED <<stream, received, io_state_chg, m_byte_vec, mbuf, filled, m_hdr_processed,
                   reading, delivered>>

-----------------------------------------------------------------------------
(* Asio.                                                                   *)

\* where the delimiter d first ends in v, 0 when it is not there
DelimiterEnd(v, d) ==
    LET ends == {i \in Len(d)..Len(v) : SubSeq(v, i - Len(d) + 1, i) = d}
    IN  IF ends = {} THEN 0 ELSE CHOOSE i \in ends : \A j \in ends : i <= j

ReadComplete == IF ByDelimiter THEN DelimiterEnd(m_byte_vec, io_state_chg.delim) > 0
                               ELSE filled = mbuf.size

\* the next n bytes arrive
Receive(n) ==
    /\ reading /\ socket = "open" /\ ~ReadComplete
    /\ received' = received + n
    /\ IF ByDelimiter
         THEN /\ m_byte_vec' = m_byte_vec \o SubSeq(stream, received + 1, received + n)
              /\ UNCHANGED filled
         ELSE /\ filled + n <= mbuf.size
              /\ filled' = filled + n
              /\ LET start == mbuf.first + filled
                 IN  m_byte_vec' = SubSeq(m_byte_vec, 1, start - 1)
                                     \o SubSeq(stream, received + 1, received + n)
                                     \o SubSeq(m_byte_vec, start + n, Len(m_byte_vec))
    /\ UNCHANGED <<stream, io_state_chg, socket, io_started, mbuf, m_hdr_processed, reading,
                   posted, delivered>>

\* the connection fails, or the socket was closed: handle_read with an error
ReadFails ==
    /\ reading /\ ~ReadComplete
    /\ reading' = FALSE
    /\ Close
    /\ UNCHANGED <<stream, received, io_state_chg, m_byte_vec, mbuf, filled, m_hdr_processed,
                   posted, delivered>>

-----------------------------------------------------------------------------
(* The handlers.                                                           *)

\* a simple_variable_len_msg_frame that remembers an empty body as one to come
MsgFrameFault(chunk) ==
    CASE io_state_chg.frame = "null_msg_frame" -> [next |-> 0, hdr |-> FALSE]
      [] io_state_chg.frame = "simple_variable_len_msg_frame" ->
           IF m_hdr_processed THEN [next |-> 0, hdr |-> FALSE]
                              ELSE [next |-> HeaderValue(chunk), hdr |-> TRUE]
      [] io_state_chg.frame = "chained" -> [next |-> Last(chunk), hdr |-> FALSE]

\* msg_frame(mbuf): how much to read next, 0 for a whole message; "chained"
\* stands for an application's: the last byte read says how many follow
MsgFrame(chunk) ==
    CASE io_state_chg.frame = "null_msg_frame" -> [next |-> 0, hdr |-> FALSE]
      [] io_state_chg.frame = "simple_variable_len_msg_frame" ->
           IF m_hdr_processed THEN [next |-> 0, hdr |-> FALSE]
           ELSE [next |-> HeaderValue(chunk), hdr |-> HeaderValue(chunk) # 0]
      [] io_state_chg.frame = "chained" -> [next |-> Last(chunk), hdr |-> FALSE]

\* the message handler is called, and answers ok
Handle(message, ok) ==
    /\ delivered' = Append(delivered, message)
    /\ posted' = (posted \/ ~ok)

\* handle_read
HandleRead(ok) ==
    /\ reading /\ ~ByDelimiter /\ ReadComplete
    /\ LET frame == MsgFrame(SubSeq(m_byte_vec, mbuf.first, Len(m_byte_vec)))
       IN  /\ m_hdr_processed' = frame.hdr
           /\ IF frame.next = 0
                THEN /\ Handle(m_byte_vec, ok)
                     /\ IF ok THEN StartRead(Resize(m_byte_vec, io_state_chg.size),
                                             io_state_chg.size)
                              ELSE reading' = FALSE /\ UNCHANGED <<m_byte_vec, mbuf, filled>>
                ELSE /\ StartRead(Resize(m_byte_vec, Len(m_byte_vec) + frame.next), frame.next)
                     /\ UNCHANGED <<posted, delivered>>
    /\ UNCHANGED <<stream, received, io_state_chg, socket, io_started>>

\* a handle_read_until that drops what was read beyond the delimiter
HandleReadUntilFault(ok) ==
    /\ reading /\ ByDelimiter /\ ReadComplete
    /\ Handle(SubSeq(m_byte_vec, 1, DelimiterEnd(m_byte_vec, io_state_chg.delim)), ok)
    /\ m_byte_vec' = IF ok THEN <<>> ELSE m_byte_vec
    /\ reading' = (ok /\ socket = "open")
    /\ UNCHANGED <<stream, received, io_state_chg, socket, io_started, mbuf, filled,
                   m_hdr_processed>>

\* handle_read_until
HandleReadUntil(ok) ==
    /\ reading /\ ByDelimiter /\ ReadComplete
    /\ LET num_bytes == DelimiterEnd(m_byte_vec, io_state_chg.delim)
       IN  /\ Handle(SubSeq(m_byte_vec, 1, num_bytes), ok)
           /\ m_byte_vec' = IF ok THEN SubSeq(m_byte_vec, num_bytes + 1, Len(m_byte_vec))
                                  ELSE m_byte_vec
    /\ reading' = (ok /\ socket = "open")
    /\ UNCHANGED <<stream, received, io_state_chg, socket, io_started, mbuf, filled,
                   m_hdr_processed>>

-----------------------------------------------------------------------------
RunStep == PostedClose \/ \E ok \in BOOLEAN : HandleRead(ok) \/ HandleReadUntil(ok)

Arrives == \E n \in 1..(Len(stream) - received) : Receive(n)

Next == StartIo \/ StopIo \/ ReadFails \/ Arrives \/ RunStep

Spec == Init /\ [][Next]_vars

\* The callback calls start_io, the run thread runs, and what was sent
\* arrives.
FairSpec == Spec /\ WF_vars(StartIo) /\ WF_vars(Arrives) /\ WF_vars(RunStep)

-----------------------------------------------------------------------------
\* chunk by chunk, the last byte of each says how many bytes follow; the first
\* one has n bytes
ChainEnds(m, n) ==
    LET end[i \in 1..Len(m)] == IF m[i] = 0 THEN i
                                ELSE IF i + m[i] > Len(m) THEN 0 ELSE end[i + m[i]]
    IN  n <= Len(m) /\ end[n] = Len(m)

\* what a message is, whatever way start_io asked for
IsMessage(m, start_io) ==
    LET n == start_io.size
    IN CASE start_io.frame = "null_msg_frame" -> Len(m) = n
         [] start_io.frame = "simple_variable_len_msg_frame" ->
              Len(m) >= n /\ Len(m) = n + HeaderValue(SubSeq(m, 1, n))
         [] start_io.frame = "chained" -> ChainEnds(m, n)
         [] start_io.frame = "delimiter" ->
              Len(m) > 0 /\ DelimiterEnd(m, start_io.delim) = Len(m)

Delivered == FlattenSeq(delivered)

\* However the stream arrives, the message handler is given the messages it
\* consists of: whole, in order, without a byte lost or repeated between
\* them ("incoming message framing", basic_io_interface.hpp:198).
CutsStream ==
    /\ IsPrefix(Delivered, SubSeq(stream, 1, received))
    /\ \A i \in 1..Len(delivered) : IsMessage(delivered[i], io_state_chg)

\* No message waits for bytes of the next one: while the connection is up
\* and the handler content, each is delivered once its last byte is there.
AllDelivered ==
    <>[](\/ socket = "closed" \/ posted
         \/ \A i \in (Len(Delivered) + 1)..Len(stream) :
              ~IsMessage(SubSeq(stream, Len(Delivered) + 1, i), io_state_chg))

=============================================================================
