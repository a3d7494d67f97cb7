------------------------ MODULE MCInternetConnections ------------------------
(* Small instances of InternetConnections for TLC. *)
EXTENDS InternetConnections

\* All connections have the same worker.
SharedWorker == [c \in Conns |-> CHOOSE w \in Workers : TRUE]
===============================================================================
