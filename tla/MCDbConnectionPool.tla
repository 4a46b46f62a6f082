------------------------- MODULE MCDbConnectionPool -------------------------
(* Four threads, two connections: two threads wait at the same time, are   *)
(* notified and overtaken by newcomers, and connections break meanwhile.   *)
EXTENDS DbConnectionPool, TLC

=============================================================================
