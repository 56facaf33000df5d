---------------------------- MODULE MCTcpAcceptor ----------------------------
(* Instances of TcpAcceptor: one thread calls start, one stop.             *)
EXTENDS TcpAcceptor

=============================================================================
