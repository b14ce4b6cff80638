---------------------------- MODULE MCConnections ----------------------------
(***************************************************************************)
(* Connections on a small instance: one client that reads and one that may *)
(* stop, a broadcast buffer of one message, a queue of two commands or,    *)
(* where handlers have to wait for it, of one.                             *)
(***************************************************************************)
EXTENDS Connections

CONSTANTS reader, sleeper

MCConn == {reader, sleeper}
MCSlow == {sleeper}

\* For the safety runs only, where nothing depends on who may be slow.
Clients == Permutations(MCConn)
=============================================================================
