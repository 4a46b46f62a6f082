------------------------------ MODULE SqlQueue ------------------------------
(***************************************************************************)
(* The asynchronous writes (AIApps/ChatServer/src/AIUtil/MQManager.cpp):   *)
(* handler threads publish SQL statements on a pool of channels to the     *)
(* RabbitMQ queue "sql_queue"; worker threads, each with a channel of its  *)
(* own, take them one at a time, run them with executeMysql (main.cpp) and *)
(* acknowledge them.                                                       *)
(*                                                                         *)
(* The broker is external.  It keeps the ready messages in publication     *)
(* order, gives one back its place when the channel that held it           *)
(* unacknowledged closes, and forgets the messages when it restarts: they  *)
(* are published without a delivery mode, hence transient.  A statement is *)
(* its position in log; a statement inserts a row of a session, or deletes *)
(* the session's rows, for one user.                                       *)
(***************************************************************************)
EXTENDS Naturals, Sequences, FiniteSets, FiniteSetsExt, Functions

CONSTANTS Publishers,     \* threads that call MQManager::publish
          Workers,        \* the THREAD_NUM threads of RabbitMQThreadPool
          Sessions,       \* chat sessions of the user
          PoolSize,       \* channels of MQManager
          Program,        \* the statements, in the order publish is called for them
          MaxFaults       \* bound: exceptions and restarts

ASSUME SqlQueueAssumption ==
  /\ PoolSize \in Nat \ {0}
  /\ Program \in Seq([kind : {"insert", "delete"}, session : Sessions])
  /\ MaxFaults \in Nat
  /\ IsFiniteSet(Workers)

MaxStatements == Len(Program)  \* bound: statements published
Channels == 0..(PoolSize - 1)

VARIABLES
  counter_,  \* publications of this process, picks the channel
  started,   \* publications of Program begun
  pub,       \* pub[p]: where p is in publish(), its channel and its place in Program
  open,      \* the channels of MQManager that still have a connection
  declared,  \* sql_queue exists on the broker
  log,       \* the statements the broker confirmed, in order
  queue,     \* positions of log the broker holds ready
  at,        \* at[w]: where worker w is
  linked,    \* the workers whose channel has a connection
  inflight,  \* inflight[w]: positions delivered to w, not acknowledged
  env,       \* env[w]: the position w received and works on, 0 if none
  stop_,     \* the pool is being destroyed
  applied, rows,  \* executions of each statement, its rows in chat_message
  returned,  \* returned[i]: how often the broker took statement i back
  lost,      \* positions the broker dropped
  faults     \* exceptions and restarts so far

broker == <<declared, log, queue, returned, lost>>
table == <<applied, rows>>
publishing == <<counter_, started, pub, open>>
working == <<at, linked, inflight, env, stop_>>
vars == <<broker, table, publishing, working, faults>>

Idle == [at |-> "idle", channel |-> 0, next |-> 0]

Init ==
  /\ counter_ = 0 /\ started = 0
  /\ pub = [p \in Publishers |-> Idle]
  /\ open = Channels
  /\ declared \in BOOLEAN
  /\ log = <<>> /\ queue = {} /\ returned = <<>> /\ lost = {}
  /\ at = [w \in Workers |-> "connecting"]
  /\ linked = {}
  /\ inflight = [w \in Workers |-> <<>>]
  /\ env = [w \in Workers |-> 0]
  /\ stop_ = FALSE
  /\ applied = <<>> /\ rows = <<>>
  /\ faults = 0

Held(w) == {inflight[w][i] : i \in DOMAIN inflight[w]}
InFlight == UNION {Held(w) : w \in Workers}
InHand == {env[w] : w \in Workers} \ {0}

Fault == faults < MaxFaults /\ faults' = faults + 1

-----------------------------------------------------------------------------
(* MQManager::publish                                                      *)

(* A bug: the counter is not reduced to the number of channels.            *)
ChannelOf_Unreduced(n) == n
ChannelOf(n) == n % PoolSize

(* counter_.fetch_add(1) % poolSize_, before the lock.                     *)
TakeIndex(p) ==
  /\ pub[p].at = "idle"
  /\ started < MaxStatements
  /\ started' = started + 1
  /\ counter_' = counter_ + 1
  /\ pub' = [pub EXCEPT ![p] = [at |-> "indexed", channel |-> ChannelOf(counter_),
                                next |-> started + 1]]
  /\ UNCHANGED <<broker, table, working, open, faults>>

(* lock_guard on the mutex of the channel.                                 *)
LockFree(channel) ==
  \A q \in Publishers : ~(pub[q].at = "publishing" /\ pub[q].channel = channel)

LockChannel(p) ==
  /\ pub[p].at = "indexed"
  /\ LockFree(pub[p].channel)
  /\ pub' = [pub EXCEPT ![p].at = "publishing"]
  /\ UNCHANGED <<broker, table, working, counter_, started, open, faults>>

(* BasicPublish returns when the broker has confirmed.  Without a queue    *)
(* the message is unroutable and, not being mandatory, dropped silently.   *)
BasicPublish(p) ==
  /\ pub[p].at = "publishing"
  /\ pub[p].channel \in open
  /\ LET n == Len(log) + 1
     IN IF declared THEN queue' = queue \cup {n} /\ UNCHANGED lost
                    ELSE lost' = lost \cup {n} /\ UNCHANGED queue
  /\ log' = Append(log, Program[pub[p].next])
  /\ applied' = Append(applied, 0)
  /\ rows' = Append(rows, 0)
  /\ returned' = Append(returned, 0)
  /\ pub' = [pub EXCEPT ![p] = Idle]
  /\ UNCHANGED <<working, counter_, started, open, declared, faults>>

(* A channel whose connection died is never replaced: publish throws and   *)
(* the statement is not queued.                                            *)
PublishThrows(p) ==
  /\ pub[p].at = "publishing"
  /\ pub[p].channel \notin open
  /\ pub' = [pub EXCEPT ![p] = Idle]
  /\ UNCHANGED <<broker, table, working, counter_, started, open, faults>>

-----------------------------------------------------------------------------
(* RabbitMQThreadPool::worker                                              *)

Move(w, from, to) == at[w] = from /\ at' = [at EXCEPT ![w] = to]

(* Channel::Create, DeclareQueue, BasicConsume and BasicQos.               *)
Connect(w) ==
  /\ Move(w, "connecting", "testing")
  /\ declared' = TRUE
  /\ linked' = linked \cup {w}
  /\ UNCHANGED <<log, queue, returned, lost, table, publishing, inflight, env, stop_, faults>>

(* The broker cannot be reached: the thread ends before its loop.          *)
ConnectThrows(w) ==
  /\ Move(w, "connecting", "dead")
  /\ Fault
  /\ UNCHANGED <<broker, table, publishing, linked, inflight, env, stop_>>

(* BasicQos(consumer_tag, 1): messages the broker gives a worker before it *)
(* acknowledges one.  A bug: the call is forgotten.                        *)
Prefetch_Unlimited == MaxStatements
Prefetch == 1

Deliver(w) ==
  /\ w \in linked
  /\ Len(inflight[w]) < Prefetch
  /\ queue # {}
  /\ inflight' = [inflight EXCEPT ![w] = Append(@, Min(queue))]
  /\ queue' = queue \ {Min(queue)}
  /\ UNCHANGED <<declared, log, returned, lost, table, publishing, at, linked, env, stop_, faults>>

(* The broker puts the messages in S back in their places.                 *)
Requeue(S) ==
  /\ queue' = queue \cup S
  /\ returned' = [i \in DOMAIN returned |-> IF i \in S THEN returned[i] + 1 ELSE returned[i]]

(* A bug: the thread ends but its channel stays open.                      *)
Close_Leak(w) ==
  /\ env' = [env EXCEPT ![w] = 0]
  /\ UNCHANGED <<queue, returned, inflight, linked>>

(* The worker's channel closes, and with it the consumer.                  *)
Close(w) ==
  /\ Requeue(Held(w))
  /\ inflight' = [inflight EXCEPT ![w] = <<>>]
  /\ env' = [env EXCEPT ![w] = 0]
  /\ linked' = linked \ {w}

(* while (!stop_), and BasicCancel behind the loop.                        *)
TestStop(w) ==
  /\ \/ /\ ~stop_ /\ Move(w, "testing", "receiving")
        /\ UNCHANGED <<queue, returned, inflight, env, linked>>
     \/ stop_ /\ Move(w, "testing", "left") /\ Close(w)
  /\ UNCHANGED <<declared, log, lost, table, publishing, stop_, faults>>

(* A bug: BasicConsumeMessage is called without a timeout.                 *)
Receive_NoTimeout(w) ==
  /\ w \in linked
  /\ inflight[w] # <<>>
  /\ Move(w, "receiving", "handling")
  /\ env' = [env EXCEPT ![w] = Head(inflight[w])]
  /\ UNCHANGED <<broker, table, publishing, linked, inflight, stop_, faults>>

(* BasicConsumeMessage returns a message, or after 500 ms without one.     *)
Receive(w) ==
  /\ w \in linked
  /\ IF inflight[w] = <<>>
     THEN Move(w, "receiving", "testing") /\ UNCHANGED env
     ELSE Move(w, "receiving", "handling") /\ env' = [env EXCEPT ![w] = Head(inflight[w])]
  /\ UNCHANGED <<broker, table, publishing, linked, inflight, stop_, faults>>

(* Executing statement i on chat_message.                                  *)
RowsAfter(i) ==
  IF log[i].kind = "insert"
  THEN [rows EXCEPT ![i] = @ + 1]
  ELSE [j \in DOMAIN rows |-> IF log[j].session = log[i].session THEN 0 ELSE rows[j]]

Run(i) ==
  /\ applied' = [applied EXCEPT ![i] = @ + 1]
  /\ rows' = RowsAfter(i)

(* A bug: the message is handled again instead of being acknowledged.      *)
Handle_Again(w) ==
  /\ Move(w, "handling", "receiving")
  /\ Run(env[w])
  /\ UNCHANGED <<broker, publishing, linked, inflight, env, stop_, faults>>

(* handler_(msg), that is executeMysql, returns.                           *)
Handle(w) ==
  /\ Move(w, "handling", "acking")
  /\ Run(env[w])
  /\ UNCHANGED <<broker, publishing, linked, inflight, env, stop_, faults>>

(* A bug: the exception is swallowed and the message acknowledged.         *)
HandleThrows_Swallow(w) ==
  /\ Move(w, "handling", "acking")
  /\ Fault
  /\ UNCHANGED <<broker, table, publishing, linked, inflight, env, stop_>>

(* executeMysql throws a DbException, whether or not MySQL had executed    *)
(* the statement.  The catch is outside the loop: the thread ends, its     *)
(* channel closes and the statement goes back to the queue.                *)
HandleThrows(w) ==
  /\ Move(w, "handling", "dead")
  /\ Fault
  /\ Run(env[w]) \/ UNCHANGED table
  /\ Close(w)
  /\ UNCHANGED <<declared, log, lost, publishing, stop_>>

(* BasicAck of the message just handled.                                   *)
Ack(w) ==
  /\ Move(w, "acking", "testing")
  /\ w \in linked
  /\ inflight' = [inflight EXCEPT ![w] = Tail(@)]
  /\ env' = [env EXCEPT ![w] = 0]
  /\ UNCHANGED <<broker, table, publishing, linked, stop_, faults>>

(* The connection is gone: BasicConsumeMessage or BasicAck throws.         *)
LinkThrows(w) ==
  /\ Move(w, "receiving", "dead") \/ Move(w, "acking", "dead")
  /\ w \notin linked
  /\ env' = [env EXCEPT ![w] = 0]
  /\ UNCHANGED <<broker, table, publishing, linked, inflight, stop_, faults>>

(* ~RabbitMQThreadPool: shutdown() sets stop_ and joins the workers.       *)
Shutdown ==
  /\ ~stop_
  /\ stop_' = TRUE
  /\ UNCHANGED <<broker, table, publishing, at, linked, inflight, env, faults>>

-----------------------------------------------------------------------------
(* Faults outside the code.                                                *)

(* RabbitMQ restarts: the durable queue is there again, its transient      *)
(* messages are not, and every connection of the process is dead.          *)
BrokerRestart ==
  /\ Fault
  /\ lost' = lost \cup queue \cup InFlight
  /\ queue' = {}
  /\ inflight' = [w \in Workers |-> <<>>]
  /\ linked' = {}
  /\ open' = {}
  /\ UNCHANGED <<declared, log, returned, table, counter_, started, pub, at, env, stop_>>

(* The server process dies and is started again.                           *)
ProcessRestart ==
  /\ Fault
  /\ Requeue(InFlight)
  /\ inflight' = [w \in Workers |-> <<>>]
  /\ linked' = {}
  /\ env' = [w \in Workers |-> 0]
  /\ at' = [w \in Workers |-> "connecting"]
  /\ stop_' = FALSE
  /\ pub' = [p \in Publishers |-> Idle]
  /\ open' = Channels
  /\ counter_' = 0
  /\ UNCHANGED <<declared, log, lost, table, started>>

-----------------------------------------------------------------------------

Next ==
  \/ \E p \in Publishers :
       \/ TakeIndex(p) \/ LockChannel(p) \/ BasicPublish(p) \/ PublishThrows(p)
  \/ \E w \in Workers :
       \/ Connect(w) \/ ConnectThrows(w) \/ Deliver(w) \/ TestStop(w) \/ Receive(w)
       \/ Handle(w) \/ HandleThrows(w) \/ Ack(w) \/ LinkThrows(w)
  \/ Shutdown \/ BrokerRestart \/ ProcessRestart

WorkerStep(w) ==
  Connect(w) \/ TestStop(w) \/ Receive(w) \/ Handle(w) \/ Ack(w) \/ LinkThrows(w)

(* Worker threads are scheduled and MySQL answers; the broker delivers to  *)
(* a worker that has room.                                                 *)
Fairness == \A w \in Workers : WF_vars(WorkerStep(w)) /\ WF_vars(Deliver(w))

Spec == Init /\ [][Next]_vars /\ Fairness

-----------------------------------------------------------------------------

TypeOK ==
  /\ started \in 0..MaxStatements /\ counter_ \in 0..started
  /\ pub \in [Publishers -> [at : {"idle", "indexed", "publishing"},
                             channel : Channels, next : 0..MaxStatements]]
  /\ open \subseteq Channels
  /\ declared \in BOOLEAN /\ stop_ \in BOOLEAN
  /\ log \in Seq(Range(Program))
  /\ queue \subseteq DOMAIN log /\ lost \subseteq DOMAIN log
  /\ at \in [Workers -> {"connecting", "testing", "receiving", "handling", "acking",
                         "left", "dead"}]
  /\ linked \subseteq Workers
  /\ inflight \in [Workers -> Seq(DOMAIN log)]
  /\ env \in [Workers -> {0} \cup DOMAIN log]
  /\ \A f \in {applied, rows, returned} : DOMAIN f = DOMAIN log /\ f \in Seq(Nat)
  /\ faults \in 0..MaxFaults

(* Acknowledging after handling: whatever throws or restarts, a statement  *)
(* the broker accepted and did not itself drop is queued, in flight at one *)
(* worker, or executed.                                                    *)
AtLeastOnce ==
  \A i \in DOMAIN log : i \in queue \/ i \in InFlight \/ i \in lost \/ applied[i] > 0

(* A statement runs twice only if the broker took it back in between.      *)
RepeatsNeedReturn == \A i \in DOMAIN log : applied[i] <= 1 + returned[i]

(* Twelve workers do reorder statements, but with one message per worker a *)
(* statement overtakes fewer statements than there are other workers.      *)
BoundedOvertaking ==
  \A i \in DOMAIN log :
    applied[i] > 0 =>
      Cardinality({j \in 1..(i - 1) : applied[j] = 0 /\ j \notin lost}) < Cardinality(Workers)

(* Every statement in the queue is executed, unless the broker loses it or *)
(* no worker is left: each exception of a handler ends one for good.       *)
QueueDrains ==
  \A i \in 1..MaxStatements :
    i \in queue ~> (i \notin queue \cup InFlight \/ \A w \in Workers : at[w] \in {"dead", "left"})

(* shutdown() returns: its joins wait for one loop iteration per worker.   *)
ShutdownEnds == stop_ ~> (~stop_ \/ \A w \in Workers : at[w] \in {"dead", "left"})

(* The handlers' view: at least once, in any order.                        *)
Async == INSTANCE AsyncStatements WITH outstanding <- queue \cup InFlight \cup InHand
ImplementsAsync == Async!Spec

(* Once nothing is under way, the table holds the rows that running the    *)
(* statements in the order of publication leaves: after the DELETE of a    *)
(* session none of the rows published before it.                           *)
Settled == queue \cup InFlight \cup InHand = {} /\ \A p \in Publishers : pub[p].at = "idle"
DeleteIsFinal ==
  Settled =>
    \A i, j \in DOMAIN log :
      /\ i < j
      /\ log[j].kind = "delete" /\ log[j].session = log[i].session /\ applied[j] > 0
      => rows[i] = 0

=============================================================================
