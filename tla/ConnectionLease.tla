--------------------------- MODULE ConnectionLease ---------------------------
(***************************************************************************)
(* What the database connection pool promises to the threads that call it, *)
(* whatever its locks and queues: a thread asks for a connection, is given *)
(* one that no other thread holds, and gives it back.  The order in which  *)
(* threads are served is left open.                                        *)
(***************************************************************************)
CONSTANTS Threads,  \* the threads that run SQL statements
          Conns,    \* the connections of the pool
          NoConn    \* "holds no connection"

VARIABLES asking,  \* the threads that asked and were not served yet
          lease    \* lease[t] is the connection thread t holds, or NoConn

vars == <<asking, lease>>

Free == {c \in Conns : \A t \in Threads : lease[t] # c}

Init ==
  /\ asking = {}
  /\ lease = [t \in Threads |-> NoConn]

Ask(t) ==
  /\ t \notin asking
  /\ lease[t] = NoConn
  /\ asking' = asking \cup {t}
  /\ UNCHANGED lease

Grant(t, c) ==
  /\ t \in asking
  /\ c \in Free
  /\ asking' = asking \ {t}
  /\ lease' = [lease EXCEPT ![t] = c]

GiveBack(t) ==
  /\ lease[t] # NoConn
  /\ lease' = [lease EXCEPT ![t] = NoConn]
  /\ UNCHANGED asking

SomeGrant == \E t \in Threads, c \in Conns : Grant(t, c)

Next ==
  \/ \E t \in Threads : Ask(t) \/ GiveBack(t)
  \/ SomeGrant

Safety == Init /\ [][Next]_vars

(* A free connection and an asking thread may not stay apart for ever, and *)
(* a thread that got a connection gives it back.                           *)
Liveness == WF_vars(SomeGrant) /\ \A t \in Threads : WF_vars(GiveBack(t))

Spec == Safety /\ Liveness

=============================================================================
