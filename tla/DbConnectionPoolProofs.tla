----------------------- MODULE DbConnectionPoolProofs -----------------------
(***************************************************************************)
(* Theorems about the connection pool, for any finite set of threads and   *)
(* of connections.  The inductive invariant is TypeOK together with        *)
(* ConnectionsConserved; NoLostWakeup is inductive relative to it.         *)
(***************************************************************************)
EXTENDS DbConnectionPool, FunctionTheorems, FiniteSetTheorems, TLAPS

Holders == {"checking", "reconnecting", "using"}

IInv == TypeOK /\ ConnectionsConserved

(* What leaving the pool does to the program counters: only the leaving    *)
(* thread and at most one waiter move, and the waiter exists if any does.  *)
LEMMA LeaveEffect ==
  ASSUME TypeOK, NEW t \in Threads, pc[t] \in Holders, LeaveNotifyingOne(t)
  PROVE  /\ pc' \in [Threads -> Locations]
         /\ pc'[t] = "idle"
         /\ \A u \in Threads \ {t} : pc'[u] = pc[u] \/ (pc[u] = "waiting" /\ pc'[u] = "entering")
         /\ \/ At("waiting") = {} /\ At("waiting")' = {}
            \/ \E w \in At("waiting") : /\ At("waiting")' = At("waiting") \ {w}
                                        /\ At("entering")' = At("entering") \cup {w}
<1>1. CASE At("waiting") = {} /\ pc' = [pc EXCEPT ![t] = "idle"]
  BY <1>1 DEF TypeOK, At, Locations, Holders
<1>2. CASE \E w \in At("waiting") : pc' = [pc EXCEPT ![t] = "idle", ![w] = "entering"]
  <2>1. PICK w \in At("waiting") : pc' = [pc EXCEPT ![t] = "idle", ![w] = "entering"]
    BY <1>2
  <2>2. w \in Threads /\ w # t /\ pc[w] = "waiting"
    BY DEF At, Holders
  <2>3. At("waiting")' = At("waiting") \ {w}
    BY <2>1, <2>2 DEF TypeOK, At, Locations, Holders
  <2>4. At("entering")' = At("entering") \cup {w}
    BY <2>1, <2>2 DEF TypeOK, At, Locations, Holders
  <2> QED
    BY <2>1, <2>2, <2>3, <2>4 DEF TypeOK, Locations
<1> QED
  BY <1>1, <1>2 DEF LeaveNotifyingOne

(* A connection pushed back by its holder: the queue and the handles stay  *)
(* a partition of the connections.                                         *)
LEMMA ReturnKeepsIInv ==
  ASSUME IInv, NEW t \in Threads, pc[t] \in Holders, ReturnConnection(t), UNCHANGED alive
  PROVE  IInv'
<1> DEFINE q == connections_
           d == conn[t]
<1>0. q \in Seq(Conns) /\ d \in Conns /\ Len(q) \in Nat /\ DOMAIN q = 1..Len(q)
  BY DEF IInv, TypeOK, Holders
<1>1. /\ q' \in Seq(Conns) /\ Len(q') = Len(q) + 1
      /\ \A i \in 1..Len(q) : q'[i] = q[i]
      /\ q'[Len(q) + 1] = d
      /\ DOMAIN q' = 1..(Len(q) + 1)
  BY <1>0 DEF ReturnConnection
<1>2. /\ conn' \in [Threads -> Conns \cup {NoConn}]
      /\ conn'[t] = NoConn
      /\ \A u \in Threads \ {t} : conn'[u] = conn[u]
  BY DEF IInv, TypeOK, ReturnConnection
<1>3. /\ pc' \in [Threads -> Locations]
      /\ pc'[t] = "idle"
      /\ \A u \in Threads \ {t} : pc'[u] = pc[u] \/ (pc[u] = "waiting" /\ pc'[u] = "entering")
  BY LeaveEffect DEF IInv, ReturnConnection
<1>4. Queued' = Queued \cup {d}
  BY <1>0, <1>1 DEF Queued
<1>5. TypeOK'
  <2>1. \A u \in Threads : conn'[u] # NoConn <=> pc'[u] \in Holders
    BY <1>2, <1>3 DEF IInv, TypeOK, Holders
  <2> QED
    BY <1>1, <1>2, <1>3, <2>1 DEF IInv, TypeOK, Holders
<1>6. d \notin Queued /\ \A u \in Threads \ {t} : conn[u] # d
  BY <1>0, ConstantsAssumption DEF IInv, ConnectionsConserved
<1>7. \A i, j \in DOMAIN q' : q'[i] = q'[j] => i = j
  BY <1>0, <1>1, <1>6 DEF IInv, ConnectionsConserved, Queued
<1>8. \A u, v \in Threads : conn'[u] = conn'[v] /\ conn'[u] # NoConn => u = v
  BY <1>2 DEF IInv, ConnectionsConserved
<1>9. \A u \in Threads : conn'[u] \notin Queued'
  <2>1. Queued \subseteq Conns
    BY <1>0 DEF Queued
  <2>2. NoConn \notin Queued'
    BY <1>0, <1>4, <2>1, ConstantsAssumption
  <2> QED
    BY <1>2, <1>4, <1>6, <2>2 DEF IInv, ConnectionsConserved
<1>10. \A c \in Conns : c \in Queued' \/ \E u \in Threads : conn'[u] = c
  BY <1>0, <1>2, <1>4 DEF IInv, ConnectionsConserved
<1> QED
  BY <1>5, <1>7, <1>8, <1>9, <1>10 DEF IInv, ConnectionsConserved

(* A step that moves one thread between two locations that hold the same   *)
(* (a connection, or none) and touches neither queue nor handles.          *)
LEMMA MoveKeepsIInv ==
  ASSUME IInv, NEW t \in Threads, NEW l \in Locations, pc' = [pc EXCEPT ![t] = l],
         pc[t] \in Holders <=> l \in Holders, UNCHANGED <<connections_, conn>>,
         alive' \in [Conns -> BOOLEAN]
  PROVE  IInv'
<1>1. TypeOK'
  BY DEF IInv, TypeOK, Holders
<1>2. ConnectionsConserved'
  BY DEF IInv, ConnectionsConserved, Queued
<1> QED
  BY <1>1, <1>2 DEF IInv

(* The pop moves the front connection from the queue to the thread.        *)
LEMMA TakeKeepsIInv ==
  ASSUME IInv, NEW t \in Threads, TakeConnection(t)
  PROVE  IInv'
<1> DEFINE q == connections_
           d == Head(connections_)
<1>0. q \in Seq(Conns) /\ q # <<>> /\ DOMAIN q = 1..Len(q) /\ Len(q) \in Nat /\ Len(q) >= 1
  BY DEF IInv, TypeOK, TakeConnection
<1>1. /\ q' \in Seq(Conns) /\ DOMAIN q' = 1..(Len(q) - 1)
      /\ \A i \in 1..(Len(q) - 1) : q'[i] = q[i + 1]
      /\ d = q[1] /\ d \in Conns
  BY <1>0 DEF TakeConnection
<1>2. /\ conn' = [conn EXCEPT ![t] = d] /\ pc' = [pc EXCEPT ![t] = "checking"]
      /\ conn[t] = NoConn
  BY DEF IInv, TypeOK, TakeConnection
<1>3. TypeOK'
  BY <1>1, <1>2, ConstantsAssumption DEF IInv, TypeOK, Locations, TakeConnection
<1>4. d \in Queued /\ d # NoConn /\ \A u \in Threads : conn[u] # d
  BY <1>0, <1>1, ConstantsAssumption DEF IInv, ConnectionsConserved, Queued
<1>5. Queued' = Queued \ {d}
  <2>1. \A c \in Queued \ {d} : c \in Queued'
    <3> TAKE c \in Queued \ {d}
    <3>1. PICK i \in 1..Len(q) : c = q[i]
      BY <1>0 DEF Queued
    <3>2. i # 1
      BY <3>1, <1>1
    <3>3. i - 1 \in 1..(Len(q) - 1) /\ q'[i - 1] = c
      BY <3>1, <3>2, <1>0, <1>1
    <3> QED
      BY <3>3, <1>1 DEF Queued
  <2>2. \A c \in Queued' : c \in Queued \ {d}
    <3> TAKE c \in Queued'
    <3>1. PICK i \in 1..(Len(q) - 1) : c = q[i + 1]
      BY <1>1 DEF Queued
    <3>2. i + 1 \in 1..Len(q) /\ 1 \in 1..Len(q) /\ i + 1 # 1
      BY <3>1, <1>0
    <3>3. q[i + 1] # q[1]
      BY <3>2, <1>0 DEF IInv, ConnectionsConserved
    <3> QED
      BY <3>1, <3>2, <3>3, <1>0, <1>1 DEF Queued
  <2> QED
    BY <2>1, <2>2
<1>6. \A i, j \in DOMAIN q' : q'[i] = q'[j] => i = j
  <2> TAKE i, j \in DOMAIN q'
  <2>1. i + 1 \in DOMAIN q /\ j + 1 \in DOMAIN q /\ i \in Nat /\ j \in Nat
    BY <1>0, <1>1
  <2> QED
    BY <2>1, <1>1 DEF IInv, ConnectionsConserved
<1>7. \A u, v \in Threads : conn'[u] = conn'[v] /\ conn'[u] # NoConn => u = v
  BY <1>2, <1>4 DEF IInv, TypeOK, ConnectionsConserved
<1>8. \A u \in Threads : conn'[u] \notin Queued'
  BY <1>2, <1>5 DEF IInv, TypeOK, ConnectionsConserved
<1>9. \A c \in Conns : c \in Queued' \/ \E u \in Threads : conn'[u] = c
  <2> TAKE c \in Conns
  <2>1. CASE c = d
    BY <2>1, <1>2 DEF IInv, TypeOK
  <2>2. CASE c # d /\ c \in Queued
    BY <2>2, <1>5
  <2>3. CASE \E u \in Threads : conn[u] = c
    BY <2>3, <1>2, ConstantsAssumption DEF IInv, TypeOK
  <2> QED
    BY <2>1, <2>2, <2>3 DEF IInv, ConnectionsConserved
<1> QED
  BY <1>3, <1>6, <1>7, <1>8, <1>9 DEF IInv, ConnectionsConserved

-----------------------------------------------------------------------------

LEMMA InitIInv == Init => IInv
<1> SUFFICES ASSUME Init PROVE IInv
  OBVIOUS
<1>1. Cardinality(Conns) \in Nat
  BY ConstantsAssumption, FS_CardinalityType
<1>2. /\ connections_ \in Seq(Conns) /\ DOMAIN connections_ = 1..Cardinality(Conns)
      /\ \A i, j \in DOMAIN connections_ : connections_[i] = connections_[j] => i = j
  BY <1>1 DEF Init
<1>3. TypeOK
  BY <1>2 DEF Init, TypeOK, Locations
<1>4. Queued = Conns
  <2>1. Queued \subseteq Conns
    BY DEF Init, Queued
  <2>2. Cardinality(Queued) = Cardinality(Conns)
    <3>1. /\ connections_ \in [1..Cardinality(Conns) -> Queued]
          /\ \A c \in Queued : \E i \in 1..Cardinality(Conns) : connections_[i] = c
      BY <1>2 DEF Init, Queued
    <3>2. connections_ \in Bijection(1..Cardinality(Conns), Queued)
      BY <3>1, <1>2, Fun_IsBij
    <3> QED
      BY <1>1, <3>2, FS_CountingElements DEF ExistsBijection
  <2> QED
    BY <2>1, <2>2, ConstantsAssumption, FS_Subset
<1>5. ConnectionsConserved
  BY <1>2, <1>4, ConstantsAssumption DEF Init, ConnectionsConserved
<1> QED
  BY <1>3, <1>5 DEF IInv

LEMMA NextIInv == IInv /\ [Next]_vars => IInv'
<1> SUFFICES ASSUME IInv, [Next]_vars PROVE IInv'
  OBVIOUS
<1>1. ASSUME NEW t \in Threads, Call(t) PROVE IInv'
  BY <1>1, MoveKeepsIInv DEF IInv, TypeOK, Locations, Holders, Call
<1>2. ASSUME NEW t \in Threads, TakeConnection(t) PROVE IInv'
  BY <1>2, TakeKeepsIInv
<1>3. ASSUME NEW t \in Threads, WaitForConnection(t) PROVE IInv'
  BY <1>3, MoveKeepsIInv DEF IInv, TypeOK, Locations, Holders, WaitForConnection
<1>4. ASSUME NEW t \in Threads, SpuriousWakeup(t) PROVE IInv'
  BY <1>4, MoveKeepsIInv DEF IInv, TypeOK, Locations, Holders, SpuriousWakeup
<1>5. ASSUME NEW t \in Threads, Ping(t) PROVE IInv'
  BY <1>5, MoveKeepsIInv DEF IInv, TypeOK, Locations, Holders, Ping
<1>6. ASSUME NEW t \in Threads, ReconnectSucceeds(t) PROVE IInv'
  BY <1>6, MoveKeepsIInv DEF IInv, TypeOK, Locations, Holders, ReconnectSucceeds
<1>7. ASSUME NEW t \in Threads, ReconnectFails(t) PROVE IInv'
  BY <1>7, ReturnKeepsIInv DEF Holders, ReconnectFails
<1>8. ASSUME NEW t \in Threads, Execute(t) PROVE IInv'
  BY <1>8, ReturnKeepsIInv DEF Holders, Execute
<1>9. ASSUME NEW c \in Conns, Break(c) PROVE IInv'
  BY <1>9 DEF IInv, TypeOK, ConnectionsConserved, Queued, Break
<1>10. CASE UNCHANGED vars
  BY <1>10 DEF IInv, TypeOK, ConnectionsConserved, Queued, vars
<1> QED
  BY <1>1, <1>2, <1>3, <1>4, <1>5, <1>6, <1>7, <1>8, <1>9, <1>10 DEF Next

(* Types, and the link between a thread's location and its handle.         *)
THEOREM TypeCorrect == Spec => []TypeOK
<1> QED
  BY InitIInv, NextIInv, PTL DEF Spec, IInv

(* No connection is lost, duplicated or shared between threads.            *)
THEOREM ConservationCorrect == Spec => []ConnectionsConserved
<1> QED
  BY InitIInv, NextIInv, PTL DEF Spec, IInv

-----------------------------------------------------------------------------

LEMMA AtFinite ==
  ASSUME NEW l
  PROVE  IsFiniteSet(At(l)) /\ Cardinality(At(l)) \in Nat
BY ConstantsAssumption, FS_Subset, FS_CardinalityType DEF At

(* The same at the next state, where At is evaluated with pc'.             *)
LEMMA AtFiniteNext ==
  ASSUME NEW l
  PROVE  IsFiniteSet(At(l)') /\ Cardinality(At(l)') \in Nat
BY ConstantsAssumption, FS_Subset, FS_CardinalityType DEF At

(* A thread that returns a connection adds one to the queue, and one to    *)
(* the threads on their way when anyone waits.                             *)
LEMMA ReturnKeepsNoLostWakeup ==
  ASSUME IInv, NoLostWakeup, NEW t \in Threads, pc[t] \in Holders, ReturnConnection(t)
  PROVE  NoLostWakeup'
<1>1. Len(connections_') = Len(connections_) + 1 /\ Len(connections_) \in Nat
  BY DEF IInv, TypeOK, Holders, ReturnConnection
<1>2. CASE At("waiting") = {} /\ At("waiting")' = {}
  BY <1>2 DEF NoLostWakeup
<1>3. CASE \E w \in At("waiting") : /\ At("waiting")' = At("waiting") \ {w}
                                   /\ At("entering")' = At("entering") \cup {w}
  <2>1. PICK w \in At("waiting") : At("entering")' = At("entering") \cup {w}
    BY <1>3
  <2>2. w \notin At("entering")
    BY <2>1 DEF At
  <2>3. Cardinality(At("entering")') = Cardinality(At("entering")) + 1
    BY <2>1, <2>2, AtFinite, FS_AddElement
  <2>4. Len(connections_) <= Cardinality(At("entering"))
    BY <2>1 DEF NoLostWakeup
  <2> QED
    BY <1>1, <2>3, <2>4, AtFinite DEF NoLostWakeup
<1> QED
  BY <1>2, <1>3, LeaveEffect DEF IInv, ReturnConnection

LEMMA InitNoLostWakeup == Init => NoLostWakeup
BY DEF Init, NoLostWakeup, At

LEMMA NextNoLostWakeup == IInv /\ NoLostWakeup /\ [Next]_vars => NoLostWakeup'
<1> SUFFICES ASSUME IInv, NoLostWakeup, [Next]_vars PROVE NoLostWakeup'
  OBVIOUS
<1>0. Len(connections_) \in Nat
  BY DEF IInv, TypeOK
(* A step that moves nobody to "waiting" and only adds to "entering".      *)
<1>a. ASSUME UNCHANGED connections_, At("waiting")' \subseteq At("waiting"),
             At("entering") \subseteq At("entering")'
      PROVE  NoLostWakeup'
  <2>1. Cardinality(At("entering")) <= Cardinality(At("entering")')
    BY <1>a, AtFiniteNext, FS_Subset
  <2> QED
    BY <1>a, <2>1, <1>0, AtFinite, AtFiniteNext DEF NoLostWakeup
<1>1. ASSUME NEW t \in Threads, Call(t) PROVE NoLostWakeup'
  BY <1>1, <1>a DEF IInv, TypeOK, At, Call
<1>2. ASSUME NEW t \in Threads, TakeConnection(t) PROVE NoLostWakeup'
  <2>1. /\ At("waiting")' = At("waiting")
        /\ At("entering")' = At("entering") \ {t}
        /\ t \in At("entering")
    BY <1>2 DEF IInv, TypeOK, At, TakeConnection
  <2>2. Cardinality(At("entering")') = Cardinality(At("entering")) - 1
    BY <2>1, AtFinite, FS_RemoveElement
  <2>3. Len(connections_') = Len(connections_) - 1
    BY <1>2 DEF IInv, TypeOK, TakeConnection
  <2> QED
    BY <1>0, <2>1, <2>2, <2>3, AtFinite DEF NoLostWakeup
<1>3. ASSUME NEW t \in Threads, WaitForConnection(t) PROVE NoLostWakeup'
  <2>1. Len(connections_') = 0
    BY <1>3 DEF WaitForConnection
  <2> QED
    BY <2>1, AtFiniteNext DEF NoLostWakeup
<1>4. ASSUME NEW t \in Threads, SpuriousWakeup(t) PROVE NoLostWakeup'
  BY <1>4, <1>a DEF IInv, TypeOK, At, SpuriousWakeup
<1>5. ASSUME NEW t \in Threads, Ping(t) PROVE NoLostWakeup'
  BY <1>5, <1>a DEF IInv, TypeOK, At, Ping
<1>6. ASSUME NEW t \in Threads, ReconnectSucceeds(t) PROVE NoLostWakeup'
  BY <1>6, <1>a DEF IInv, TypeOK, At, ReconnectSucceeds
<1>7. ASSUME NEW t \in Threads, ReconnectFails(t) PROVE NoLostWakeup'
  BY <1>7, ReturnKeepsNoLostWakeup DEF Holders, ReconnectFails
<1>8. ASSUME NEW t \in Threads, Execute(t) PROVE NoLostWakeup'
  BY <1>8, ReturnKeepsNoLostWakeup DEF Holders, Execute
<1>9. ASSUME NEW c \in Conns, Break(c) PROVE NoLostWakeup'
  BY <1>9 DEF NoLostWakeup, At, Break
<1>10. CASE UNCHANGED vars
  BY <1>10 DEF NoLostWakeup, At, vars
<1> QED
  BY <1>1, <1>2, <1>3, <1>4, <1>5, <1>6, <1>7, <1>8, <1>9, <1>10 DEF Next

(* While threads wait, every idle connection has a thread coming for it.   *)
THEOREM WakeupCorrect == Spec => []NoLostWakeup
<1> QED
  BY InitIInv, NextIInv, InitNoLostWakeup, NextNoLostWakeup, PTL DEF Spec

-----------------------------------------------------------------------------

(* Every step of the pool is a step of the lease, or changes nothing in it. *)
THEOREM LeaseSafety == Spec => Lease!Safety
<1>1. Init => Lease!Init
  BY DEF Init, Lease!Init, At
<1>2. IInv /\ [Next]_vars => [Lease!Next]_(Lease!vars)
  <2> SUFFICES ASSUME IInv, [Next]_vars PROVE [Lease!Next]_(Lease!vars)
    OBVIOUS
  <2> USE DEF Lease!Next, Lease!vars
  <2>1. ASSUME NEW t \in Threads, Call(t) PROVE Lease!Ask(t)
    BY <2>1 DEF IInv, TypeOK, At, Call, Lease!Ask
  <2>2. ASSUME NEW t \in Threads, TakeConnection(t) PROVE \E c \in Conns : Lease!Grant(t, c)
    <3>1. Head(connections_) \in Conns /\ Head(connections_) \in Queued
      BY <2>2 DEF IInv, TypeOK, TakeConnection, Queued
    <3>2. Head(connections_) \in Lease!Free
      BY <3>1 DEF IInv, ConnectionsConserved, Lease!Free
    <3>3. (At("entering") \cup At("waiting"))' = (At("entering") \cup At("waiting")) \ {t}
          /\ t \in At("entering")
      BY <2>2 DEF IInv, TypeOK, At, TakeConnection
    <3> QED
      BY <2>2, <3>1, <3>2, <3>3 DEF TakeConnection, Lease!Grant
  <2>3. ASSUME NEW t \in Threads, WaitForConnection(t) PROVE UNCHANGED Lease!vars
    BY <2>3 DEF IInv, TypeOK, At, WaitForConnection
  <2>4. ASSUME NEW t \in Threads, SpuriousWakeup(t) PROVE UNCHANGED Lease!vars
    BY <2>4 DEF IInv, TypeOK, At, SpuriousWakeup
  <2>5. ASSUME NEW t \in Threads, Ping(t) PROVE UNCHANGED Lease!vars
    BY <2>5 DEF IInv, TypeOK, At, Ping
  <2>6. ASSUME NEW t \in Threads, ReconnectSucceeds(t) PROVE UNCHANGED Lease!vars
    BY <2>6 DEF IInv, TypeOK, At, ReconnectSucceeds
  <2>7. ASSUME NEW t \in Threads, pc[t] \in Holders, ReturnConnection(t) PROVE Lease!GiveBack(t)
    <3>1. conn[t] # NoConn /\ conn' = [conn EXCEPT ![t] = NoConn]
      BY <2>7 DEF IInv, TypeOK, Holders, ReturnConnection
    <3>2. UNCHANGED (At("entering") \cup At("waiting"))
      BY <2>7, LeaveEffect DEF IInv, At, Holders, ReturnConnection
    <3> QED
      BY <3>1, <3>2 DEF Lease!GiveBack
  <2>8. ASSUME NEW t \in Threads, ReconnectFails(t) \/ Execute(t) PROVE Lease!GiveBack(t)
    BY <2>7, <2>8 DEF Holders, ReconnectFails, Execute
  <2>9. ASSUME NEW c \in Conns, Break(c) PROVE UNCHANGED Lease!vars
    BY <2>9 DEF At, Break
  <2>10. CASE UNCHANGED vars
    BY <2>10 DEF At, vars
  <2> QED
    BY <2>1, <2>2, <2>3, <2>4, <2>5, <2>6, <2>8, <2>9, <2>10 DEF Next, Lease!SomeGrant
<1> QED
  BY <1>1, <1>2, InitIInv, NextIInv, PTL DEF Spec, Lease!Safety

=============================================================================
