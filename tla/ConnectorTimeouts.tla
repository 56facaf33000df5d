--------------------------- MODULE ConnectorTimeouts ---------------------------
(***************************************************************************)
(* tcp_connector_timeout.hpp: the function objects that say how long a TCP *)
(* connector waits after a failed attempt, or that it gives up.  Each is a *)
(* record of its members.  Ticks are milliseconds in a signed integer of   *)
(* w bits (TickLimit is 2^(w-1)), converted from an unsigned one of the    *)
(* same width, or from a double.                                           *)
(***************************************************************************)
EXTENDS Integers

CONSTANT TickLimit      \* 2^(w-1) for the width w of std::size_t and of
                        \* milliseconds::rep

ASSUME TickAssumption == TickLimit \in Nat \ {0}

Ticks == -TickLimit .. TickLimit - 1

\* An optional_millis is a set of at most one number of ticks.
NoValue == {}
Millis(n) == {n}

\* the function objects; one of the application's own answers at will
FuncObjects ==
    [type : {"simple_timeout", "counted_timeout", "backoff_timeout",
             "exponential_backoff_timeout", "application"},
     initial_ticks : Ticks \cap Nat, max_ticks : Ticks \cap Nat,
     scale_factor : Nat, max_attempts : Nat]

\* static_cast to tick_type of an unsigned value
Signed(n) == LET u == n % (2 * TickLimit) IN
             IF u \in Ticks THEN u ELSE u - 2 * TickLimit

\* static_cast to tick_type of a double: undefined where it does not fit,
\* in practice the least value, or a saturated one
Truncated(d) == IF d \in Ticks THEN {d} ELSE {-TickLimit, TickLimit - 1}

Capped(f, n) == IF n > f.max_ticks THEN f.max_ticks ELSE n

Simple(f) == Millis(f.initial_ticks)

\* a counted_timeout that never gives up
CountedFault(f, attempts) == Millis(f.initial_ticks)

Counted(f, attempts) ==
    IF attempts > f.max_attempts THEN NoValue ELSE Millis(f.initial_ticks)

\* a backoff_timeout that does not return the first timeout for no product
BackoffFault(f, attempts) ==
    Millis(Capped(f, Signed((attempts - 1) * f.scale_factor * f.initial_ticks)))

Backoff(f, attempts) ==
    LET n == Signed((attempts - 1) * f.scale_factor * f.initial_ticks)
    IN  Millis(IF n = 0 THEN f.initial_ticks ELSE Capped(f, n))

\* undefined behaviour: a set of optional_millis
Exponential(f, attempts) ==
    {Millis(Capped(f, n)) : n \in Truncated(f.initial_ticks ^ attempts)}

\* m_timeout_func(attempts): what it may answer
Timeout(f, attempts) ==
    CASE f.type = "simple_timeout" -> {Simple(f)}
      [] f.type = "counted_timeout" -> {Counted(f, attempts)}
      [] f.type = "backoff_timeout" -> {Backoff(f, attempts)}
      [] f.type = "exponential_backoff_timeout" -> Exponential(f, attempts)
      [] f.type = "application" -> {NoValue, Millis(f.initial_ticks)}

=============================================================================
