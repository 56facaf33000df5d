--------------------------- MODULE IoOutputDelivery ---------------------------
(***************************************************************************)
(* net_ip_component/io_output_delivery.hpp: the state change callback      *)
(* hands each new IO output, and its end, to threads that wait for them:   *)
(* through a wait_queue, or through one or two std::promises, which can    *)
(* be set only once.  The callback first calls io_start (a factory of      *)
(* io_state_change.hpp), which the module that composes this one models.   *)
(***************************************************************************)
EXTENDS Naturals, Sequences

VARIABLES
    delivery,       \* which function the application called
    start_prom, stop_prom,      \* "unset", "value" or "exception"
    wq,             \* the wait_queue: the starting flags pushed
    thrown          \* a promise was set again: std::future_error

deliveryVars == <<delivery, start_prom, stop_prom, wq, thrown>>

DeliveryInit ==
    /\ delivery \in {"start_with_io_wait_queue", "make_io_output_future",
                     "make_io_output_future_pair"}
    /\ start_prom = "unset" /\ stop_prom = "unset"
    /\ wq = <<>> /\ thrown = FALSE

HasStart == delivery # "start_with_io_wait_queue"
HasStop == delivery = "make_io_output_future_pair"

\* set_value or set_exception, where it is called
Set(called, prom, v) == IF called /\ prom = "unset" THEN v ELSE prom
SetAgain(called, prom) == called /\ prom # "unset"

\* a callback that leaves the end out
DeliverFault(starting) ==
    /\ start_prom' = Set(HasStart /\ starting, start_prom, "value")
    /\ UNCHANGED <<delivery, stop_prom, wq, thrown>>

\* the callback, after io_start
Deliver(starting) ==
    /\ start_prom' = Set(HasStart /\ starting, start_prom, "value")
    /\ stop_prom' = Set(HasStop /\ ~starting, stop_prom, "value")
    /\ wq' = IF HasStart THEN wq ELSE Append(wq, starting)
    /\ thrown' = (\/ thrown
                  \/ SetAgain(HasStart /\ starting, start_prom)
                  \/ SetAgain(HasStop /\ ~starting, stop_prom))
    /\ UNCHANGED delivery

\* net_entity::start returned an error: an exception for each promise
StartFailed ==
    /\ start_prom' = Set(HasStart, start_prom, "exception")
    /\ stop_prom' = Set(HasStop, stop_prom, "exception")
    /\ thrown' = (\/ thrown
                  \/ SetAgain(HasStart, start_prom)
                  \/ SetAgain(HasStop, stop_prom))
    /\ UNCHANGED <<delivery, wq>>

\* what the application was promised of a start and of an end is there
Pushed(starting) == \E i \in 1..Len(wq) : wq[i] = starting
StartDelivered == IF HasStart THEN start_prom # "unset" ELSE Pushed(TRUE)
StopDelivered == CASE delivery = "start_with_io_wait_queue" -> Pushed(FALSE)
                   [] delivery = "make_io_output_future" -> TRUE
                   [] delivery = "make_io_output_future_pair" -> stop_prom # "unset"

DeliveryTypeOK ==
    /\ {start_prom, stop_prom} \subseteq {"unset", "value", "exception"}
    /\ wq \in Seq(BOOLEAN)
    /\ thrown \in BOOLEAN

=============================================================================
