-------------------------- MODULE DbConnectionPool --------------------------
(***************************************************************************)
(* The pool of MySQL connections (HttpServer/src/utils/db): a mutex, a     *)
(* condition variable and a FIFO of idle connections.  Every statement of  *)
(* the program goes through MysqlUtil, that is: getConnection(), one       *)
(* statement, and the deleter of the shared_ptr that returns the           *)
(* connection, also when the statement throws.                             *)
(*                                                                         *)
(* Each critical section of mutex_ is one action.  The ping and the        *)
(* reconnection run outside the lock, on a connection already popped.      *)
(* init() has run before any thread exists (the ChatServer constructor     *)
(* calls it), so behaviours start with the pool filled.                    *)
(***************************************************************************)
EXTENDS Naturals, Sequences, FiniteSets

CONSTANTS Threads,  \* IO threads and queue workers that run SQL statements
          Conns,    \* the poolSize connections createConnection() made
          NoConn    \* "holds no connection"

ASSUME ConstantsAssumption ==
  /\ IsFiniteSet(Threads)
  /\ IsFiniteSet(Conns)
  /\ NoConn \notin Conns

VARIABLES
  connections_,  \* the queue of idle connections
  pc,            \* pc[t]: where thread t is in MysqlUtil::execute*
  conn,          \* conn[t]: the connection popped by t, NoConn if none
  alive          \* alive[c]: the session of c with MySQL works

vars == <<connections_, pc, conn, alive>>

(* "entering":     about to evaluate connections_.empty() under the lock   *)
(* "waiting":      blocked in cv_.wait                                     *)
(* "checking":     running ping() on the popped connection                 *)
(* "reconnecting": ping() said no, running reconnect()                     *)
(* "using":        running the caller's statement                          *)
Locations == {"idle", "entering", "waiting", "checking", "reconnecting", "using"}

At(l) == {t \in Threads : pc[t] = l}

Queued == {connections_[i] : i \in DOMAIN connections_}

-----------------------------------------------------------------------------

Init ==
  /\ connections_ \in {s \in [1..Cardinality(Conns) -> Conns] :
                         \A i, j \in DOMAIN s : s[i] = s[j] => i = j}
  /\ pc = [t \in Threads |-> "idle"]
  /\ conn = [t \in Threads |-> NoConn]
  /\ alive = [c \in Conns |-> TRUE]

(* A request handler or a queue worker calls executeQuery/executeUpdate.   *)
Call(t) ==
  /\ pc[t] = "idle"
  /\ pc' = [pc EXCEPT ![t] = "entering"]
  /\ UNCHANGED <<connections_, conn, alive>>

(* A bug: the connection at the front is read but not popped.              *)
TakeConnection_NoPop(t) ==
  /\ pc[t] = "entering"
  /\ connections_ # <<>>
  /\ conn' = [conn EXCEPT ![t] = Head(connections_)]
  /\ pc' = [pc EXCEPT ![t] = "checking"]
  /\ UNCHANGED <<alive, connections_>>

(* The loop test fails: the front connection is popped.                    *)
TakeConnection(t) ==
  /\ pc[t] = "entering"
  /\ connections_ # <<>>
  /\ conn' = [conn EXCEPT ![t] = Head(connections_)]
  /\ connections_' = Tail(connections_)
  /\ pc' = [pc EXCEPT ![t] = "checking"]
  /\ UNCHANGED alive

(* The queue is empty: cv_.wait(lock) releases the mutex and blocks.       *)
WaitForConnection(t) ==
  /\ pc[t] = "entering"
  /\ connections_ = <<>>
  /\ pc' = [pc EXCEPT ![t] = "waiting"]
  /\ UNCHANGED <<connections_, conn, alive>>

(* A condition variable may wake a thread nobody notified; the while loop  *)
(* makes it look at the queue again.                                       *)
SpuriousWakeup(t) ==
  /\ pc[t] = "waiting"
  /\ pc' = [pc EXCEPT ![t] = "entering"]
  /\ UNCHANGED <<connections_, conn, alive>>

(* A bug: the notification is forgotten.                                   *)
LeaveNotifyingOne_Silent(t) == pc' = [pc EXCEPT ![t] = "idle"]

(* cv_.notify_one() by thread t, which then leaves getConnection or the    *)
(* deleter: one waiter, if there is one, goes back to the loop test.       *)
LeaveNotifyingOne(t) ==
  \/ /\ At("waiting") = {}
     /\ pc' = [pc EXCEPT ![t] = "idle"]
  \/ \E w \in At("waiting") :
       pc' = [pc EXCEPT ![t] = "idle", ![w] = "entering"]

(* A bug: the handle stays with the thread after the push.                 *)
ReturnConnection_KeepsHandle(t) ==
  /\ connections_' = Append(connections_, conn[t])
  /\ LeaveNotifyingOne(t)
  /\ UNCHANGED conn

(* The pushes of the deleter and of the catch block are the same.          *)
ReturnConnection(t) ==
  /\ connections_' = Append(connections_, conn[t])
  /\ conn' = [conn EXCEPT ![t] = NoConn]
  /\ LeaveNotifyingOne(t)

Ping(t) ==
  /\ pc[t] = "checking"
  /\ pc' = [pc EXCEPT ![t] = IF alive[conn[t]] THEN "using" ELSE "reconnecting"]
  /\ UNCHANGED <<connections_, conn, alive>>

ReconnectSucceeds(t) ==
  /\ pc[t] = "reconnecting"
  /\ alive' = [alive EXCEPT ![conn[t]] = TRUE]
  /\ pc' = [pc EXCEPT ![t] = "using"]
  /\ UNCHANGED <<connections_, conn>>

(* A bug: the exception leaves getConnection without the catch block.      *)
ReconnectFails_Leak(t) ==
  /\ pc[t] = "reconnecting"
  /\ conn' = [conn EXCEPT ![t] = NoConn]
  /\ pc' = [pc EXCEPT ![t] = "idle"]
  /\ UNCHANGED <<alive, connections_>>

(* reconnect() throws: the catch block puts the connection back and the    *)
(* caller sees the exception.                                              *)
ReconnectFails(t) ==
  /\ pc[t] = "reconnecting"
  /\ ReturnConnection(t)
  /\ UNCHANGED alive

(* The statement ends, with a result or with an exception: in both cases   *)
(* the shared_ptr goes out of scope and its deleter runs.                  *)
Execute(t) ==
  /\ pc[t] = "using"
  /\ ReturnConnection(t)
  /\ UNCHANGED alive

(* MySQL closes the session of a connection: idle timeout, restart.        *)
Break(c) ==
  /\ alive[c]
  /\ alive' = [alive EXCEPT ![c] = FALSE]
  /\ UNCHANGED <<connections_, pc, conn>>

EnterLock(t) == TakeConnection(t) \/ WaitForConnection(t)
Reconnect(t) == ReconnectSucceeds(t) \/ ReconnectFails(t)

Next ==
  \/ \E t \in Threads :
       \/ Call(t) \/ TakeConnection(t) \/ WaitForConnection(t) \/ SpuriousWakeup(t)
       \/ Ping(t) \/ ReconnectSucceeds(t) \/ ReconnectFails(t) \/ Execute(t)
  \/ \E c \in Conns : Break(c)

(* A thread that runs is scheduled again and gets the mutex, and calls to  *)
(* MySQL return.  Nothing obliges a thread to call, a session to break or  *)
(* a wait to end spuriously.                                               *)
Fairness == \A t \in Threads :
  WF_vars(EnterLock(t)) /\ WF_vars(Ping(t)) /\ WF_vars(Reconnect(t)) /\ WF_vars(Execute(t))

Spec == Init /\ [][Next]_vars /\ Fairness

-----------------------------------------------------------------------------
(* Types, and: a thread has a connection exactly between the pop and the   *)
(* push.                                                                   *)
TypeOK ==
  /\ connections_ \in Seq(Conns)
  /\ pc \in [Threads -> Locations]
  /\ conn \in [Threads -> Conns \cup {NoConn}]
  /\ alive \in [Conns -> BOOLEAN]
  /\ \A t \in Threads :
       conn[t] # NoConn <=> pc[t] \in {"checking", "reconnecting", "using"}

(* No connection is lost, duplicated or shared, whichever way getConnection *)
(* and the statement end: each is queued once, or held by one thread.      *)
ConnectionsConserved ==
  /\ \A i, j \in DOMAIN connections_ : connections_[i] = connections_[j] => i = j
  /\ \A t, u \in Threads : conn[t] = conn[u] /\ conn[t] # NoConn => t = u
  /\ \A t \in Threads : conn[t] \notin Queued
  /\ \A c \in Conns : c \in Queued \/ \E t \in Threads : conn[t] = c

(* One notify_one per returned connection is enough: while threads wait on *)
(* cv_, every idle connection has a thread on its way to take it, although *)
(* newcomers may overtake the thread that was notified.                    *)
NoLostWakeup ==
  At("waiting") # {} => Len(connections_) <= Cardinality(At("entering"))

(* The pool keeps the promise of ConnectionLease: exclusive connections,   *)
(* always given back, and no connection left idle while threads ask.       *)
Lease == INSTANCE ConnectionLease
           WITH asking <- At("entering") \cup At("waiting"), lease <- conn
ImplementsLease == Lease!Spec

=============================================================================
