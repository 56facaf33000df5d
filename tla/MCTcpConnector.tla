--------------------------- MODULE MCTcpConnector ---------------------------
(* Instances of TcpConnector: one thread calls start, one stop.  Ticks are *)
(* scaled to bytes.                                                        *)
EXTENDS TcpConnector

TimeoutFunc(type, initial, max, scale, attempts) ==
    [type |-> type, initial_ticks |-> initial, max_ticks |-> max,
     scale_factor |-> scale, max_attempts |-> attempts]

\* functions that stay in range for MaxTries attempts; a counted one that
\* forgives no failure, and one that forgives one
MCTimeoutFuncs == {
    TimeoutFunc("simple_timeout", 1, 1, 1, 0),
    TimeoutFunc("counted_timeout", 1, 1, 1, 0),
    TimeoutFunc("counted_timeout", 1, 1, 1, 1),
    TimeoutFunc("backoff_timeout", 2, 9, 3, 0),
    TimeoutFunc("exponential_backoff_timeout", 2, 9, 1, 0),
    TimeoutFunc("application", 1, 1, 1, 0)}

\* 5^4 does not fit
MCOverflowing == {TimeoutFunc("exponential_backoff_timeout", 5, 20, 1, 0)}

=============================================================================
