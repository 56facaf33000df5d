------------------------------- MODULE MCNetIp -------------------------------
(* Instances of NetIp: two application threads, the run thread and an      *)
(* entity of each kind.                                                    *)
EXTENDS NetIp

\* what the thread that owns the worker, the other one and callbacks call
Calls(main, other, callbacks) ==
    [t \in Threads |-> CASE t = Main -> main [] t = Run -> callbacks [] OTHER -> other]

\* one thread shuts everything down while another goes on using the
\* entities; callbacks use net_ip, and nobody calls stop_all
MCPrograms ==
    {Calls({"make", "start", "stop_all", "remove_all"}, {"start", "stop", "visit", "remove"}, {}),
     Calls({"make", "start", "remove"}, {"stop", "visit"}, {"make", "remove", "remove_all"})}

\* callbacks use net_ip, and a thread calls stop_all
MCCallbackPrograms == {Calls({"make", "start", "stop_all"}, {}, {"make", "remove"})}

=============================================================================
