---------------------------- MODULE MCReadFraming ----------------------------
(* Every stream of up to six bytes, in every segmentation; headers of one *)
(* byte, whose value is the size of the body.                              *)
EXTENDS ReadFraming

MCStreams == UNION {[1..n -> 0..2] : n \in 0..6}

MCHeaderValue(header) == header[1]

StateChange(frame, size) == [frame |-> frame, size |-> size, delim |-> <<1, 2>>]

MCStateChanges == {
    StateChange("null_msg_frame", 1),
    StateChange("null_msg_frame", 2),
    StateChange("simple_variable_len_msg_frame", 1),
    StateChange("chained", 1),
    StateChange("chained", 2),
    StateChange("delimiter", 1)}

=============================================================================
