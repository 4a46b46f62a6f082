--------------------------- MODULE SqlQueueProofs ---------------------------
(***************************************************************************)
(* Theorems about the asynchronous statements, for any publishers, any     *)
(* finite set of workers, any number of channels, any program and any      *)
(* number of faults.                                                       *)
(***************************************************************************)
EXTENDS SqlQueue, SequenceTheorems, FiniteSetTheorems, WellFoundedInduction, TLAPS

(* A publication under way has a place in the program.                     *)
PublisherInv == \A p \in Publishers : pub[p].at # "idle" => pub[p].next \in 1..MaxStatements

(* What a worker has in hand, and what the broker thinks it has.           *)
WorkerOf(w) ==
  /\ env[w] # 0 <=> at[w] \in {"handling", "acking"}
  /\ inflight[w] = <<>> \/ \E i \in DOMAIN log : inflight[w] = <<i>>
  /\ w \in linked /\ env[w] # 0 => inflight[w] = <<env[w]>>
  /\ w \notin linked => inflight[w] = <<>>
  /\ at[w] \in {"connecting", "left", "dead"} => w \notin linked
WorkerInv == \A w \in Workers : WorkerOf(w)

IInv == TypeOK /\ PublisherInv /\ WorkerInv

-----------------------------------------------------------------------------
(* The sequences of the model                                              *)

LEMMA ProgramFacts ==
  /\ MaxStatements \in Nat
  /\ \A n \in 1..MaxStatements : /\ Program[n] \in Range(Program)
                                 /\ Program[n] \in [kind : {"insert", "delete"}, session : Sessions]
<1>1. /\ Program \in Seq([kind : {"insert", "delete"}, session : Sessions])
      /\ DOMAIN Program = 1..Len(Program) /\ Len(Program) \in Nat
  BY SqlQueueAssumption, LenProperties
<1> QED
  BY <1>1, ElementOfSeq DEF MaxStatements, Range

LEMMA SameInterval ==
  ASSUME NEW m \in Nat, NEW n \in Nat, 1..m = 1..n
  PROVE  m = n
<1>1. CASE m < n
  <2>1. n \in 1..n /\ n \notin 1..m
    BY <1>1
  <2> QED
    BY <2>1
<1>2. CASE n < m
  <2>1. m \in 1..m /\ m \notin 1..n
    BY <1>2
  <2> QED
    BY <2>1
<1> QED
  BY <1>1, <1>2

LEMMA LogFacts ==
  ASSUME TypeOK
  PROVE  /\ Len(log) \in Nat /\ DOMAIN log = 1..Len(log)
         /\ \A f \in {applied, rows, returned} :
              Len(f) = Len(log) /\ f \in [1..Len(log) -> Nat]
<1>1. log \in Seq(Range(Program)) /\ \A f \in {applied, rows, returned} : f \in Seq(Nat)
  BY DEF TypeOK
<1>2. Len(log) \in Nat /\ DOMAIN log = 1..Len(log)
  BY <1>1, LenProperties
<1>3. ASSUME NEW f \in {applied, rows, returned}
      PROVE  Len(f) = Len(log) /\ f \in [1..Len(log) -> Nat]
  <2>1. Len(f) \in Nat /\ DOMAIN f = 1..Len(f) /\ f \in [1..Len(f) -> Nat]
    BY <1>1, LenProperties, SMTT(30)
  <2>2. 1..Len(f) = 1..Len(log)
    BY <2>1, <1>2, ZenonT(60) DEF TypeOK
  <2>3. Len(f) = Len(log)
    BY <2>1, <2>2, <1>2, SameInterval
  <2> QED
    BY <2>1, <2>3
<1> QED
  BY <1>2, <1>3

(* A function on the positions of the log is one of the model's sequences. *)
LEMMA CountsAreSeq ==
  ASSUME TypeOK, NEW f \in [DOMAIN log -> Nat]
  PROVE  f \in Seq(Nat) /\ DOMAIN f = DOMAIN log
BY LogFacts, SeqDef

LEMMA SingletonSeq ==
  ASSUME NEW S, NEW x \in S
  PROVE  <<x>> \in Seq(S)
<1>1. Append(<<>>, x) \in Seq(S)
  BY EmptySeq, AppendProperties
<1>2. Append(<<>>, x) = <<x>>
  OBVIOUS
<1> QED
  BY <1>1, <1>2

LEMMA HeldIs ==
  ASSUME NEW w \in Workers
  PROVE  /\ inflight[w] = <<>> => Held(w) = {}
         /\ \A i : inflight[w] = <<i>> => Held(w) = {i}
BY DEF Held

LEMMA OneAtMost ==
  ASSUME IInv, NEW w \in Workers, inflight[w] # <<>>
  PROVE  /\ inflight[w] = <<Head(inflight[w])>>
         /\ Head(inflight[w]) \in DOMAIN log
         /\ Tail(inflight[w]) = <<>>
         /\ w \in linked
<1>1. PICK i \in DOMAIN log : inflight[w] = <<i>>
  BY DEF IInv, WorkerInv, WorkerOf
<1>2. w \in linked
  BY DEF IInv, WorkerInv, WorkerOf
<1> QED
  BY <1>1, <1>2

LEMMA HeldInLog ==
  ASSUME IInv
  PROVE  /\ \A w \in Workers : Held(w) \subseteq DOMAIN log
         /\ InFlight \subseteq DOMAIN log
<1>1. ASSUME NEW w \in Workers PROVE Held(w) \subseteq DOMAIN log
  BY HeldIs DEF IInv, WorkerInv, WorkerOf
<1> QED
  BY <1>1 DEF InFlight

(* Min of positions is one of them, and none is smaller.                   *)
LEMMA MinFacts ==
  ASSUME NEW S, S \subseteq Nat, S # {}
  PROVE  Min(S) \in S /\ \A i \in S : Min(S) <= i
<1>1. PICK m \in S : \A i \in S : ~(<<i, m>> \in OpToRel(<, Nat))
  BY NatLessThanWellFounded, WFMin
<1>2. ASSUME NEW i \in S PROVE m <= i
  <2>1. m \in Nat /\ i \in Nat
    OBVIOUS
  <2>2. <<i, m>> \in Nat \X Nat /\ <<i, m>>[1] = i /\ <<i, m>>[2] = m
    BY <2>1
  <2>3. ~(i < m)
    BY <1>1, <2>2, Zenon DEF OpToRel
  <2> QED
    BY <2>1, <2>3
<1> QED
  BY <1>2 DEF Min

-----------------------------------------------------------------------------
(* What the parts of the actions do to the counts of the statements        *)

LEMMA RunEffect ==
  ASSUME TypeOK, NEW i \in DOMAIN log, Run(i)
  PROVE  /\ applied' \in Seq(Nat) /\ DOMAIN applied' = DOMAIN log
         /\ rows' \in Seq(Nat) /\ DOMAIN rows' = DOMAIN log
         /\ applied'[i] = applied[i] + 1
         /\ \A j \in DOMAIN log : j # i => applied'[j] = applied[j]
<1>1. applied \in [DOMAIN log -> Nat] /\ rows \in [DOMAIN log -> Nat]
  BY LogFacts
<1>2. /\ applied' \in [DOMAIN log -> Nat]
      /\ applied'[i] = applied[i] + 1
      /\ \A j \in DOMAIN log : j # i => applied'[j] = applied[j]
  BY <1>1 DEF Run
<1>3. rows' \in [DOMAIN log -> Nat]
  BY <1>1 DEF Run, RowsAfter
<1> QED
  BY <1>2, <1>3, CountsAreSeq

LEMMA RequeueEffect ==
  ASSUME TypeOK, NEW S, S \subseteq DOMAIN log, Requeue(S)
  PROVE  /\ queue' = queue \cup S /\ queue' \subseteq DOMAIN log
         /\ returned' \in Seq(Nat) /\ DOMAIN returned' = DOMAIN log
         /\ \A i \in DOMAIN log : returned'[i] = IF i \in S THEN returned[i] + 1 ELSE returned[i]
<1>1. returned \in [DOMAIN log -> Nat]
  BY LogFacts
<1>2. /\ returned' \in [DOMAIN log -> Nat]
      /\ \A i \in DOMAIN log : returned'[i] = IF i \in S THEN returned[i] + 1 ELSE returned[i]
  BY <1>1 DEF Requeue
<1> QED
  BY <1>2, CountsAreSeq DEF Requeue, TypeOK

LEMMA PublishEffect ==
  ASSUME IInv, NEW p \in Publishers, BasicPublish(p)
  PROVE  /\ log' \in Seq(Range(Program)) /\ Len(log') = Len(log) + 1
         /\ DOMAIN log' = DOMAIN log \cup {Len(log) + 1} /\ Len(log) + 1 \notin DOMAIN log
         /\ \A i \in DOMAIN log : log'[i] = log[i]
         /\ Program[pub[p].next] \in [kind : {"insert", "delete"}, session : Sessions]
         /\ \A f \in {applied', rows', returned'} :
              f \in Seq(Nat) /\ DOMAIN f = DOMAIN log' /\ f[Len(log) + 1] = 0
         /\ \A i \in DOMAIN log : applied'[i] = applied[i] /\ returned'[i] = returned[i]
<1>1. /\ Program[pub[p].next] \in Range(Program)
      /\ Program[pub[p].next] \in [kind : {"insert", "delete"}, session : Sessions]
  BY ProgramFacts DEF IInv, PublisherInv, BasicPublish
<1>2. /\ log \in Seq(Range(Program)) /\ Len(log) \in Nat /\ DOMAIN log = 1..Len(log)
      /\ \A f \in {applied, rows, returned} : f \in Seq(Nat) /\ Len(f) = Len(log)
  BY LogFacts DEF IInv, TypeOK
<1>3. /\ log' \in Seq(Range(Program)) /\ Len(log') = Len(log) + 1
      /\ \A i \in 1..Len(log) : log'[i] = log[i]
  BY <1>1, <1>2, AppendProperties DEF BasicPublish
<1>4. DOMAIN log' = 1..(Len(log) + 1)
  BY <1>3, LenProperties
<1>5. ASSUME NEW f \in {applied, rows, returned}
      PROVE  /\ Append(f, 0) \in Seq(Nat)
             /\ DOMAIN Append(f, 0) = 1..(Len(log) + 1)
             /\ Append(f, 0)[Len(log) + 1] = 0
             /\ \A i \in 1..Len(log) : Append(f, 0)[i] = f[i]
  <2>1. /\ Append(f, 0) \in Seq(Nat) /\ Len(Append(f, 0)) = Len(log) + 1
        /\ Append(f, 0)[Len(log) + 1] = 0
        /\ \A i \in 1..Len(log) : Append(f, 0)[i] = f[i]
    <3>1. f \in Seq(Nat) /\ Len(f) = Len(log) /\ 0 \in Nat
      BY <1>2, <1>5
    <3> QED
      BY <3>1, AppendProperties
  <2> QED
    BY <2>1, LenProperties
<1>6. applied' = Append(applied, 0) /\ rows' = Append(rows, 0) /\ returned' = Append(returned, 0)
  BY DEF BasicPublish
<1> QED
  BY <1>1, <1>2, <1>3, <1>4, <1>5, <1>6

-----------------------------------------------------------------------------
(* The inductive invariant                                                 *)

LEMMA InitIInv == Init => IInv
<1> SUFFICES ASSUME Init PROVE IInv
  OBVIOUS
<1>1. PoolSize \in Nat \ {0} /\ MaxFaults \in Nat /\ MaxStatements \in Nat
  BY SqlQueueAssumption, ProgramFacts
<1>2. log = <<>> /\ applied = <<>> /\ rows = <<>> /\ returned = <<>>
  BY DEF Init
<1>3. TypeOK
  <2>1. /\ log \in Seq(Range(Program)) /\ DOMAIN log = {}
        /\ \A f \in {applied, rows, returned} : DOMAIN f = DOMAIN log /\ f \in Seq(Nat)
    BY <1>2, EmptySeq
  <2>2. inflight \in [Workers -> Seq(DOMAIN log)]
    BY EmptySeq DEF Init
  <2>3. pub \in [Publishers -> [at : {"idle", "indexed", "publishing"},
                               channel : Channels, next : 0..MaxStatements]]
    BY <1>1 DEF Init, Idle, Channels
  <2>4. declared \in BOOLEAN /\ stop_ \in BOOLEAN
    BY DEF Init
  <2>5. /\ started \in 0..MaxStatements /\ counter_ \in 0..started /\ faults \in 0..MaxFaults
        /\ open \subseteq Channels /\ linked \subseteq Workers
        /\ queue \subseteq DOMAIN log /\ lost \subseteq DOMAIN log
    BY <1>1 DEF Init
  <2>6. /\ at \in [Workers -> {"connecting", "testing", "receiving", "handling", "acking",
                              "left", "dead"}]
        /\ env \in [Workers -> {0} \cup DOMAIN log]
    BY DEF Init
  <2> QED
    BY <2>1, <2>2, <2>3, <2>4, <2>5, <2>6 DEF TypeOK
<1>4. PublisherInv
  BY DEF Init, Idle, PublisherInv
<1>5. WorkerInv
  BY DEF Init, WorkerInv, WorkerOf
<1> QED
  BY <1>3, <1>4, <1>5 DEF IInv

LEMMA ChannelTyped ==
  ASSUME NEW n \in Nat
  PROVE  ChannelOf(n) \in Channels
<1>1. PoolSize \in Nat \ {0}
  BY SqlQueueAssumption
<1> QED
  BY <1>1 DEF ChannelOf, Channels

LEMMA TakeIndexIInv ==
  ASSUME IInv, NEW p \in Publishers, TakeIndex(p)
  PROVE  IInv'
<1>1. MaxStatements \in Nat
  BY ProgramFacts
<1>2. started \in Nat /\ counter_ \in Nat /\ started + 1 \in 1..MaxStatements /\ counter_ <= started
  BY <1>1 DEF IInv, TypeOK, TakeIndex
<1>3. ChannelOf(counter_) \in Channels
  BY <1>2, ChannelTyped
<1>4. /\ pub' \in [Publishers -> [at : {"idle", "indexed", "publishing"},
                                  channel : Channels, next : 0..MaxStatements]]
      /\ PublisherInv'
  BY <1>2, <1>3 DEF IInv, TypeOK, PublisherInv, TakeIndex
<1>5. started' \in 0..MaxStatements /\ counter_' \in 0..started'
  BY <1>2 DEF TakeIndex
<1>6. TypeOK'
  BY <1>4, <1>5 DEF IInv, TypeOK, TakeIndex, broker, table, working
<1>7. WorkerInv'
  BY DEF IInv, WorkerInv, WorkerOf, TakeIndex, broker, table, working
<1> QED
  BY <1>4, <1>6, <1>7 DEF IInv

LEMMA PublishIInv ==
  ASSUME IInv, NEW p \in Publishers, BasicPublish(p)
  PROVE  IInv'
<1>1. PublisherInv'
  BY DEF IInv, PublisherInv, BasicPublish, Idle, TypeOK
<1>2. UNCHANGED <<at, linked, inflight, env, stop_, counter_, started, open, declared, faults>>
  BY DEF BasicPublish, working
<1>3. DOMAIN log \subseteq DOMAIN log'
  BY PublishEffect
<1>4. WorkerInv'
  BY <1>2, <1>3 DEF IInv, WorkerInv, WorkerOf
<1>5. queue' \subseteq DOMAIN log' /\ lost' \subseteq DOMAIN log'
  BY <1>3, PublishEffect DEF IInv, TypeOK, BasicPublish
<1>6. inflight' \in [Workers -> Seq(DOMAIN log')] /\ env' \in [Workers -> {0} \cup DOMAIN log']
  BY <1>2, <1>3, SeqMonotonic DEF IInv, TypeOK
<1>7. pub' \in [Publishers -> [at : {"idle", "indexed", "publishing"},
                               channel : Channels, next : 0..MaxStatements]]
  <2>1. 0 \in Channels /\ 0 \in 0..MaxStatements
    BY SqlQueueAssumption, ProgramFacts DEF Channels
  <2> QED
    BY <2>1 DEF IInv, TypeOK, BasicPublish, Idle
<1>8. /\ log' \in Seq(Range(Program))
      /\ \A f \in {applied', rows', returned'} : DOMAIN f = DOMAIN log' /\ f \in Seq(Nat)
  BY PublishEffect
<1>9. TypeOK'
  BY <1>2, <1>5, <1>6, <1>7, <1>8 DEF IInv, TypeOK
<1> QED
  BY <1>1, <1>4, <1>9 DEF IInv

LEMMA LockChannelIInv ==
  ASSUME IInv, NEW p \in Publishers, LockChannel(p) \/ PublishThrows(p)
  PROVE  IInv'
<1>1. UNCHANGED <<broker, table, working, counter_, started, open, faults>>
  BY DEF LockChannel, PublishThrows
<1>2. /\ pub' \in [Publishers -> [at : {"idle", "indexed", "publishing"},
                                  channel : Channels, next : 0..MaxStatements]]
      /\ PublisherInv'
  <2>1. 0 \in Channels /\ 0 \in 0..MaxStatements
    BY SqlQueueAssumption, ProgramFacts DEF Channels
  <2>2. CASE LockChannel(p)
    BY <2>2 DEF IInv, TypeOK, PublisherInv, LockChannel
  <2>3. CASE PublishThrows(p)
    BY <2>1, <2>3 DEF IInv, TypeOK, PublisherInv, PublishThrows, Idle
  <2> QED
    BY <2>2, <2>3
<1>3. TypeOK'
  BY <1>1, <1>2 DEF IInv, TypeOK, broker, table, working
<1>4. WorkerInv'
  BY <1>1 DEF IInv, WorkerInv, WorkerOf, broker, table, working
<1> QED
  BY <1>2, <1>3, <1>4 DEF IInv

LEMMA ConnectIInv ==
  ASSUME IInv, NEW w \in Workers, Connect(w) \/ ConnectThrows(w)
  PROVE  IInv'
<1>1. CASE Connect(w)
  <2>1. TypeOK'
    BY <1>1 DEF IInv, TypeOK, Connect, Move, table, publishing
  <2>2. WorkerInv'
    BY <1>1 DEF IInv, TypeOK, WorkerInv, WorkerOf, Connect, Move
  <2>3. PublisherInv'
    BY <1>1 DEF IInv, PublisherInv, Connect, publishing
  <2> QED
    BY <2>1, <2>2, <2>3 DEF IInv
<1>2. CASE ConnectThrows(w)
  <2>1. TypeOK'
    BY <1>2, SqlQueueAssumption DEF IInv, TypeOK, ConnectThrows, Fault, Move, broker, table, publishing
  <2>2. WorkerInv'
    BY <1>2 DEF IInv, TypeOK, WorkerInv, WorkerOf, ConnectThrows, Move, broker
  <2>3. PublisherInv'
    BY <1>2 DEF IInv, PublisherInv, ConnectThrows, publishing
  <2> QED
    BY <2>1, <2>2, <2>3 DEF IInv
<1> QED
  BY <1>1, <1>2

(* The broker gives a worker the first message, if it has none.            *)
LEMMA DeliverEffect ==
  ASSUME IInv, NEW w \in Workers, Deliver(w)
  PROVE  /\ Min(queue) \in queue /\ Min(queue) \in DOMAIN log
         /\ \A i \in queue : Min(queue) <= i
         /\ inflight[w] = <<>> /\ env[w] = 0
         /\ inflight' = [inflight EXCEPT ![w] = <<Min(queue)>>]
         /\ Held(w)' = {Min(queue)} /\ \A v \in Workers \ {w} : Held(v)' = Held(v)
<1>1. queue \subseteq DOMAIN log /\ DOMAIN log \subseteq Nat
  BY LogFacts DEF IInv, TypeOK
<1>2. Min(queue) \in queue /\ \A i \in queue : Min(queue) <= i
  BY <1>1, MinFacts DEF Deliver
<1>3. inflight[w] = <<>>
  BY DEF IInv, WorkerInv, WorkerOf, Deliver, Prefetch
<1>4. inflight' = [inflight EXCEPT ![w] = <<Min(queue)>>]
  BY <1>3 DEF IInv, TypeOK, Deliver
<1>5. env[w] = 0
  BY <1>3 DEF IInv, WorkerInv, WorkerOf, Deliver
<1>6. inflight'[w] = <<Min(queue)>> /\ \A v \in Workers \ {w} : inflight'[v] = inflight[v]
  BY <1>4 DEF IInv, TypeOK
<1>7. Held(w)' = {Min(queue)}
  BY <1>6 DEF Held
<1>8. \A v \in Workers \ {w} : Held(v)' = Held(v)
  BY <1>6 DEF Held
<1> QED
  BY <1>1, <1>2, <1>3, <1>4, <1>5, <1>7, <1>8

LEMMA DeliverIInv ==
  ASSUME IInv, NEW w \in Workers, Deliver(w)
  PROVE  IInv'
<1>1. UNCHANGED <<declared, log, returned, lost, table, publishing, at, linked, env, stop_, faults>>
  BY DEF Deliver
<1>2. inflight' \in [Workers -> Seq(DOMAIN log)]
  <2>1. <<Min(queue)>> \in Seq(DOMAIN log)
    BY DeliverEffect, SingletonSeq
  <2> QED
    BY <2>1, DeliverEffect DEF IInv, TypeOK
<1>3. queue' \subseteq DOMAIN log
  BY DEF IInv, TypeOK, Deliver
<1>4. TypeOK'
  BY <1>1, <1>2, <1>3 DEF IInv, TypeOK, table, publishing
<1>5. WorkerInv'
  BY <1>1, DeliverEffect DEF IInv, TypeOK, WorkerInv, WorkerOf, Deliver
<1>6. PublisherInv'
  BY <1>1 DEF IInv, PublisherInv, publishing
<1> QED
  BY <1>4, <1>5, <1>6 DEF IInv

(* A channel that closes leaves its worker with nothing.                   *)
LEMMA CloseEffect ==
  ASSUME IInv, NEW w \in Workers, Close(w)
  PROVE  /\ queue' = queue \cup Held(w) /\ queue' \subseteq DOMAIN log
         /\ returned' \in Seq(Nat) /\ DOMAIN returned' = DOMAIN log
         /\ \A i \in DOMAIN log :
              returned'[i] = IF i \in Held(w) THEN returned[i] + 1 ELSE returned[i]
         /\ inflight' \in [Workers -> Seq(DOMAIN log)]
         /\ env' \in [Workers -> {0} \cup DOMAIN log]
         /\ linked' \subseteq Workers
         /\ inflight'[w] = <<>> /\ env'[w] = 0 /\ w \notin linked'
         /\ \A v \in Workers \ {w} : /\ inflight'[v] = inflight[v] /\ env'[v] = env[v]
                                     /\ v \in linked' <=> v \in linked
<1>1. Held(w) \subseteq DOMAIN log
  BY HeldInLog
<1>2. /\ queue' = queue \cup Held(w) /\ queue' \subseteq DOMAIN log
      /\ returned' \in Seq(Nat) /\ DOMAIN returned' = DOMAIN log
      /\ \A i \in DOMAIN log :
           returned'[i] = IF i \in Held(w) THEN returned[i] + 1 ELSE returned[i]
  BY <1>1, RequeueEffect DEF IInv, Close
<1>3. inflight' \in [Workers -> Seq(DOMAIN log)]
  BY EmptySeq DEF IInv, TypeOK, Close
<1> QED
  BY <1>2, <1>3 DEF IInv, TypeOK, Close

LEMMA TestStopIInv ==
  ASSUME IInv, NEW w \in Workers, TestStop(w)
  PROVE  IInv'
<1>1. UNCHANGED <<declared, log, lost, table, publishing, stop_, faults>>
  BY DEF TestStop
<1>2. PublisherInv'
  BY <1>1 DEF IInv, PublisherInv, publishing
<1>3. CASE Move(w, "testing", "receiving") /\ UNCHANGED <<queue, returned, inflight, env, linked>>
  <2>1. TypeOK'
    BY <1>1, <1>3 DEF IInv, TypeOK, Move, table, publishing
  <2>2. WorkerInv'
    BY <1>1, <1>3 DEF IInv, TypeOK, WorkerInv, WorkerOf, Move
  <2> QED
    BY <1>2, <2>1, <2>2 DEF IInv
<1>4. CASE Move(w, "testing", "left") /\ Close(w)
  <2>1. TypeOK'
    BY <1>1, <1>4, CloseEffect DEF IInv, TypeOK, Move, table, publishing
  <2>2. WorkerInv'
    <3>1. WorkerOf(w)'
      BY <1>4, CloseEffect DEF IInv, TypeOK, WorkerOf, Move
    <3>2. ASSUME NEW v \in Workers \ {w} PROVE WorkerOf(v)'
      <4>1. /\ inflight'[v] = inflight[v] /\ env'[v] = env[v] /\ at'[v] = at[v] /\ log' = log
            /\ v \in linked' <=> v \in linked
        BY <1>1, <1>4, CloseEffect DEF IInv, TypeOK, Move
      <4> QED
        BY <4>1 DEF IInv, WorkerInv, WorkerOf
    <3> QED
      BY <3>1, <3>2 DEF WorkerInv
  <2> QED
    BY <1>2, <2>1, <2>2 DEF IInv
<1> QED
  BY <1>3, <1>4 DEF TestStop

LEMMA ReceiveIInv ==
  ASSUME IInv, NEW w \in Workers, Receive(w)
  PROVE  IInv'
<1>1. UNCHANGED <<broker, table, publishing, linked, inflight, stop_, faults>>
  BY DEF Receive
<1>2. PublisherInv'
  BY <1>1 DEF IInv, PublisherInv, publishing
<1>3. CASE inflight[w] = <<>> /\ Move(w, "receiving", "testing") /\ UNCHANGED env
  <2>1. TypeOK'
    BY <1>1, <1>3 DEF IInv, TypeOK, Move, broker, table, publishing
  <2>2. WorkerInv'
    BY <1>1, <1>3 DEF IInv, TypeOK, WorkerInv, WorkerOf, Move, broker
  <2> QED
    BY <1>2, <2>1, <2>2 DEF IInv
<1>4. CASE /\ inflight[w] # <<>> /\ Move(w, "receiving", "handling")
           /\ env' = [env EXCEPT ![w] = Head(inflight[w])]
  <2>1. /\ inflight[w] = <<Head(inflight[w])>> /\ Head(inflight[w]) \in DOMAIN log
        /\ Head(inflight[w]) # 0
    BY <1>4, OneAtMost, LogFacts DEF IInv
  <2>2. TypeOK'
    BY <1>1, <1>4, <2>1 DEF IInv, TypeOK, Move, broker, table, publishing
  <2>3. WorkerInv'
    BY <1>1, <1>4, <2>1 DEF IInv, TypeOK, WorkerInv, WorkerOf, Move, broker
  <2> QED
    BY <1>2, <2>2, <2>3 DEF IInv
<1> QED
  BY <1>3, <1>4 DEF Receive

LEMMA InHandOf ==
  ASSUME IInv, NEW w \in Workers, at[w] \in {"handling", "acking"}
  PROVE  /\ env[w] \in DOMAIN log /\ env[w] # 0
         /\ w \in linked => inflight[w] = <<env[w]>> /\ Held(w) = {env[w]}
         /\ w \notin linked => inflight[w] = <<>> /\ Held(w) = {}
<1>1. env[w] \in DOMAIN log /\ env[w] # 0
  BY DEF IInv, TypeOK, WorkerInv, WorkerOf
<1>2. /\ w \in linked => inflight[w] = <<env[w]>>
      /\ w \notin linked => inflight[w] = <<>>
  BY <1>1 DEF IInv, WorkerInv, WorkerOf
<1> QED
  BY <1>1, <1>2, HeldIs

LEMMA HandleIInv ==
  ASSUME IInv, NEW w \in Workers, Handle(w)
  PROVE  IInv'
<1>1. UNCHANGED <<broker, publishing, linked, inflight, env, stop_, faults>>
  BY DEF Handle
<1>2. PublisherInv'
  BY <1>1 DEF IInv, PublisherInv, publishing
<1>3. env[w] \in DOMAIN log
  BY InHandOf DEF Handle, Move
<1>4. /\ applied' \in Seq(Nat) /\ DOMAIN applied' = DOMAIN log
      /\ rows' \in Seq(Nat) /\ DOMAIN rows' = DOMAIN log
  BY <1>3, RunEffect DEF IInv, Handle
<1>5. TypeOK'
  BY <1>1, <1>4 DEF IInv, TypeOK, Handle, Move, broker, publishing
<1>6. WorkerInv'
  BY <1>1 DEF IInv, TypeOK, WorkerInv, WorkerOf, Handle, Move, broker
<1> QED
  BY <1>2, <1>5, <1>6 DEF IInv

LEMMA HandleThrowsIInv ==
  ASSUME IInv, NEW w \in Workers, HandleThrows(w)
  PROVE  IInv'
<1>1. UNCHANGED <<declared, log, lost, publishing, stop_>> /\ Close(w)
  BY DEF HandleThrows
<1>2. PublisherInv'
  BY <1>1 DEF IInv, PublisherInv, publishing
<1>3. env[w] \in DOMAIN log
  BY InHandOf DEF HandleThrows, Move
<1>4. /\ applied' \in Seq(Nat) /\ DOMAIN applied' = DOMAIN log
      /\ rows' \in Seq(Nat) /\ DOMAIN rows' = DOMAIN log
  <2>1. CASE Run(env[w])
    BY <2>1, <1>3, RunEffect DEF IInv
  <2>2. CASE UNCHANGED table
    BY <2>2 DEF IInv, TypeOK, table
  <2> QED
    BY <2>1, <2>2 DEF HandleThrows
<1>5. at' = [at EXCEPT ![w] = "dead"] /\ faults' \in 0..MaxFaults
  BY SqlQueueAssumption DEF IInv, TypeOK, HandleThrows, Move, Fault
<1>6. TypeOK'
  BY <1>1, <1>4, <1>5, CloseEffect DEF IInv, TypeOK, publishing
<1>7. WorkerInv'
  <2>1. WorkerOf(w)'
    BY <1>1, <1>5, CloseEffect DEF IInv, TypeOK, WorkerOf
  <2>2. ASSUME NEW v \in Workers \ {w} PROVE WorkerOf(v)'
    <3>1. /\ inflight'[v] = inflight[v] /\ env'[v] = env[v] /\ at'[v] = at[v] /\ log' = log
          /\ v \in linked' <=> v \in linked
      BY <1>1, <1>5, CloseEffect DEF IInv, TypeOK
    <3> QED
      BY <3>1 DEF IInv, WorkerInv, WorkerOf
  <2> QED
    BY <2>1, <2>2 DEF WorkerInv
<1> QED
  BY <1>2, <1>6, <1>7 DEF IInv

LEMMA AckIInv ==
  ASSUME IInv, NEW w \in Workers, Ack(w)
  PROVE  IInv'
<1>1. UNCHANGED <<broker, table, publishing, linked, stop_, faults>>
  BY DEF Ack
<1>2. PublisherInv'
  BY <1>1 DEF IInv, PublisherInv, publishing
<1>3. inflight[w] = <<env[w]>>
  BY InHandOf DEF Ack, Move
<1>4. inflight' = [inflight EXCEPT ![w] = <<>>] /\ inflight' \in [Workers -> Seq(DOMAIN log)]
  BY <1>3, EmptySeq DEF IInv, TypeOK, Ack
<1>5. TypeOK'
  BY <1>1, <1>4 DEF IInv, TypeOK, Ack, Move, broker, table, publishing
<1>6. WorkerInv'
  BY <1>1, <1>4 DEF IInv, TypeOK, WorkerInv, WorkerOf, Ack, Move, broker
<1> QED
  BY <1>2, <1>5, <1>6 DEF IInv

LEMMA LinkThrowsIInv ==
  ASSUME IInv, NEW w \in Workers, LinkThrows(w)
  PROVE  IInv'
<1>1. UNCHANGED <<broker, table, publishing, linked, inflight, stop_, faults>>
  BY DEF LinkThrows
<1>2. PublisherInv'
  BY <1>1 DEF IInv, PublisherInv, publishing
<1>3. at' = [at EXCEPT ![w] = "dead"] /\ env' = [env EXCEPT ![w] = 0] /\ w \notin linked
  BY DEF LinkThrows, Move
<1>4. TypeOK'
  BY <1>1, <1>3 DEF IInv, TypeOK, broker, table, publishing
<1>5. WorkerInv'
  BY <1>1, <1>3 DEF IInv, TypeOK, WorkerInv, WorkerOf, broker
<1> QED
  BY <1>2, <1>4, <1>5 DEF IInv

LEMMA ShutdownIInv ==
  ASSUME IInv, Shutdown
  PROVE  IInv'
<1>1. UNCHANGED <<broker, table, publishing, at, linked, inflight, env, faults>> /\ stop_' = TRUE
  BY DEF Shutdown
<1>2. TypeOK'
  BY <1>1 DEF IInv, TypeOK, broker, table, publishing
<1>3. PublisherInv' /\ WorkerInv'
  BY <1>1 DEF IInv, PublisherInv, WorkerInv, WorkerOf, broker, publishing
<1> QED
  BY <1>2, <1>3 DEF IInv

LEMMA BrokerRestartIInv ==
  ASSUME IInv, BrokerRestart
  PROVE  IInv'
<1>1. UNCHANGED <<declared, log, returned, table, counter_, started, pub, at, env, stop_>>
  BY DEF BrokerRestart
<1>2. inflight' \in [Workers -> Seq(DOMAIN log)] /\ \A w \in Workers : inflight'[w] = <<>>
  BY EmptySeq DEF BrokerRestart
<1>3. /\ lost' \subseteq DOMAIN log /\ queue' = {} /\ linked' = {} /\ open' = {}
      /\ faults' \in 0..MaxFaults
  BY HeldInLog, SqlQueueAssumption DEF IInv, TypeOK, BrokerRestart, Fault
<1>4. TypeOK'
  BY <1>1, <1>2, <1>3 DEF IInv, TypeOK, table
<1>5. PublisherInv' /\ WorkerInv'
  BY <1>1, <1>2, <1>3 DEF IInv, PublisherInv, WorkerInv, WorkerOf
<1> QED
  BY <1>4, <1>5 DEF IInv

LEMMA ProcessRestartIInv ==
  ASSUME IInv, ProcessRestart
  PROVE  IInv'
<1>1. UNCHANGED <<declared, log, lost, table, started>>
  BY DEF ProcessRestart
<1>2. inflight' \in [Workers -> Seq(DOMAIN log)] /\ \A w \in Workers : inflight'[w] = <<>>
  BY EmptySeq DEF ProcessRestart
<1>3. queue' \subseteq DOMAIN log /\ returned' \in Seq(Nat) /\ DOMAIN returned' = DOMAIN log
  BY HeldInLog, RequeueEffect DEF IInv, ProcessRestart
<1>4. pub' \in [Publishers -> [at : {"idle", "indexed", "publishing"},
                               channel : Channels, next : 0..MaxStatements]]
  <2>1. 0 \in Channels /\ 0 \in 0..MaxStatements
    BY SqlQueueAssumption, ProgramFacts DEF Channels
  <2> QED
    BY <2>1 DEF ProcessRestart, Idle
<1>5. /\ counter_' \in 0..started' /\ faults' \in 0..MaxFaults /\ open' \subseteq Channels
      /\ stop_' = FALSE /\ linked' = {}
  BY SqlQueueAssumption DEF IInv, TypeOK, ProcessRestart, Fault
<1>6. /\ at' = [w \in Workers |-> "connecting"] /\ env' = [w \in Workers |-> 0]
  BY DEF ProcessRestart
<1>7. TypeOK'
  BY <1>1, <1>2, <1>3, <1>4, <1>5, <1>6 DEF IInv, TypeOK, table
<1>8. PublisherInv'
  BY DEF PublisherInv, ProcessRestart, Idle
<1>9. WorkerInv'
  BY <1>2, <1>5, <1>6 DEF WorkerInv, WorkerOf
<1> QED
  BY <1>7, <1>8, <1>9 DEF IInv

LEMMA StutterIInv ==
  ASSUME IInv, UNCHANGED vars
  PROVE  IInv'
<1>1. TypeOK'
  BY DEF IInv, TypeOK, vars, broker, table, publishing, working
<1>2. PublisherInv' /\ WorkerInv'
  BY DEF IInv, PublisherInv, WorkerInv, WorkerOf, vars, broker, publishing, working
<1> QED
  BY <1>1, <1>2 DEF IInv

LEMMA NextIInv == IInv /\ [Next]_vars => IInv'
<1> SUFFICES ASSUME IInv, [Next]_vars PROVE IInv'
  OBVIOUS
<1>1. ASSUME NEW p \in Publishers,
             TakeIndex(p) \/ LockChannel(p) \/ BasicPublish(p) \/ PublishThrows(p)
      PROVE  IInv'
  BY <1>1, TakeIndexIInv, LockChannelIInv, PublishIInv
<1>2. ASSUME NEW w \in Workers,
             \/ Connect(w) \/ ConnectThrows(w) \/ Deliver(w) \/ TestStop(w) \/ Receive(w)
             \/ Handle(w) \/ HandleThrows(w) \/ Ack(w) \/ LinkThrows(w)
      PROVE  IInv'
  BY <1>2, ConnectIInv, DeliverIInv, TestStopIInv, ReceiveIInv, HandleIInv, HandleThrowsIInv,
     AckIInv, LinkThrowsIInv
<1> QED
  BY <1>1, <1>2, ShutdownIInv, BrokerRestartIInv, ProcessRestartIInv, StutterIInv DEF Next

LEMMA Invariant == Spec => []IInv
<1> QED
  BY InitIInv, NextIInv, PTL DEF Spec

(* Every variable keeps its type; a publisher locks a channel that exists, *)
(* and a worker that acknowledges holds what it acknowledges.              *)
THEOREM TypeCorrect == Spec => []TypeOK
<1>1. IInv => TypeOK
  BY DEF IInv
<1> QED
  BY <1>1, Invariant, PTL

-----------------------------------------------------------------------------
(* At least once                                                           *)

(* What a worker has in hand was executed when it acknowledges, and is     *)
(* lost if the broker forgot that the worker has it.                       *)
Fates ==
  \A w \in Workers :
    /\ at[w] = "acking" => applied[env[w]] > 0
    /\ w \notin linked /\ env[w] # 0 => env[w] \in lost

(* Nothing is unpublished, unexecuted or found again, and what is executed *)
(* was in hand.                                                            *)
LEMMA HistoryGrows ==
  ASSUME IInv, [Next]_vars
  PROVE  /\ DOMAIN log \subseteq DOMAIN log'
         /\ \A i \in DOMAIN log :
              /\ log'[i] = log[i] /\ applied'[i] \in Nat /\ applied'[i] >= applied[i]
              /\ applied'[i] = applied[i] \/ \E w \in Workers : at[w] = "handling" /\ env[w] = i
         /\ lost \subseteq lost'
<1> DEFINE Grows == /\ DOMAIN log \subseteq DOMAIN log'
                    /\ \A i \in DOMAIN log :
                      /\ log'[i] = log[i] /\ applied'[i] \in Nat /\ applied'[i] >= applied[i]
                      /\ \/ applied'[i] = applied[i]
                         \/ \E w \in Workers : at[w] = "handling" /\ env[w] = i
                    /\ lost \subseteq lost'
<1>a. \A i \in DOMAIN log : applied[i] \in Nat
  BY LogFacts DEF IInv
<1>1. ASSUME UNCHANGED <<log, table>>, lost \subseteq lost'
      PROVE  Grows
  BY <1>a, <1>1 DEF table
<1>2. ASSUME NEW p \in Publishers, BasicPublish(p)
      PROVE  Grows
  <2>1. lost \subseteq lost'
    BY <1>2 DEF BasicPublish
  <2>2. /\ DOMAIN log \subseteq DOMAIN log'
        /\ \A i \in DOMAIN log : log'[i] = log[i] /\ applied'[i] = applied[i]
    BY <1>2, PublishEffect
  <2> QED
    BY <1>a, <2>1, <2>2
<1>3. ASSUME NEW w \in Workers, at[w] = "handling", Run(env[w]), UNCHANGED <<log, lost>>
      PROVE  Grows
  <2>1. env[w] \in DOMAIN log
    BY <1>3, InHandOf
  <2>2. /\ applied'[env[w]] = applied[env[w]] + 1
        /\ \A j \in DOMAIN log : j # env[w] => applied'[j] = applied[j]
    BY <1>3, <2>1, RunEffect DEF IInv
  <2> QED
    BY <1>3, <1>a, <2>1, <2>2
<1>4. ASSUME NEW p \in Publishers, TakeIndex(p) \/ LockChannel(p) \/ PublishThrows(p)
      PROVE  Grows
  BY <1>1, <1>4 DEF TakeIndex, LockChannel, PublishThrows, broker
<1>5. ASSUME NEW w \in Workers,
             \/ Connect(w) \/ ConnectThrows(w) \/ Deliver(w) \/ TestStop(w) \/ Receive(w)
             \/ Ack(w) \/ LinkThrows(w)
      PROVE  Grows
  BY <1>1, <1>5 DEF Connect, ConnectThrows, Deliver, TestStop, Receive, Ack, LinkThrows, broker
<1>6. ASSUME NEW w \in Workers, Handle(w) \/ HandleThrows(w)
      PROVE  Grows
  BY <1>1, <1>3, <1>6 DEF Handle, HandleThrows, Move, broker
<1>7. CASE Shutdown \/ BrokerRestart \/ ProcessRestart \/ UNCHANGED vars
  BY <1>1, <1>7 DEF Shutdown, BrokerRestart, ProcessRestart, vars, broker
<1> QED
  BY <1>2, <1>4, <1>5, <1>6, <1>7 DEF Next

LEMMA InitFates == Init => Fates /\ AtLeastOnce
<1> SUFFICES ASSUME Init PROVE Fates /\ AtLeastOnce
  OBVIOUS
<1>1. DOMAIN log = {}
  BY DEF Init
<1> QED
  BY <1>1 DEF Init, Fates, AtLeastOnce

LEMMA NextFates == IInv /\ Fates /\ [Next]_vars => Fates'
<1> SUFFICES ASSUME IInv, Fates, [Next]_vars PROVE Fates'
  OBVIOUS
(* A worker that keeps what it has in hand, and its channel.               *)
<1>a. ASSUME NEW v \in Workers, UNCHANGED <<at[v], env[v]>>, v \in linked' <=> v \in linked
      PROVE  /\ at'[v] = "acking" => applied'[env'[v]] > 0
             /\ v \notin linked' /\ env'[v] # 0 => env'[v] \in lost'
  <2>1. CASE at[v] = "acking"
    <3>1. env[v] \in DOMAIN log
      BY <2>1, InHandOf
    <3>2. /\ applied[env[v]] \in Nat /\ applied[env[v]] > 0
          /\ applied'[env[v]] \in Nat /\ applied'[env[v]] >= applied[env[v]]
      BY <2>1, <3>1, HistoryGrows, LogFacts DEF IInv, Fates
    <3>3. applied'[env[v]] > 0
      BY <3>2
    <3> QED
      BY <1>a, <3>3, HistoryGrows DEF Fates
  <2>2. CASE at[v] # "acking"
    BY <1>a, <2>2, HistoryGrows DEF Fates
  <2> QED
    BY <2>1, <2>2
(* A worker with nothing in hand.                                          *)
<1>b. ASSUME NEW w \in Workers, env'[w] = 0, at'[w] # "acking",
             \A v \in Workers \ {w} : UNCHANGED <<at[v], env[v]>> /\ (v \in linked' <=> v \in linked)
      PROVE  Fates'
  BY <1>a, <1>b DEF Fates
<1>1. ASSUME UNCHANGED <<at, env, linked>>
      PROVE  Fates'
  BY <1>a, <1>1 DEF Fates
<1>2. ASSUME NEW p \in Publishers,
             TakeIndex(p) \/ LockChannel(p) \/ BasicPublish(p) \/ PublishThrows(p)
      PROVE  Fates'
  BY <1>1, <1>2 DEF TakeIndex, LockChannel, BasicPublish, PublishThrows, working
<1>3. ASSUME NEW w \in Workers, Connect(w) \/ ConnectThrows(w)
      PROVE  Fates'
  BY <1>b, <1>3 DEF IInv, TypeOK, WorkerInv, WorkerOf, Connect, ConnectThrows, Move
<1>4. CASE (\E w \in Workers : Deliver(w)) \/ Shutdown \/ UNCHANGED vars
  BY <1>1, <1>4 DEF Deliver, Shutdown, vars, working
<1>5. ASSUME NEW w \in Workers, TestStop(w)
      PROVE  Fates'
  <2>1. CASE Move(w, "testing", "receiving") /\ UNCHANGED <<env, linked>>
    BY <1>b, <2>1 DEF IInv, TypeOK, WorkerInv, WorkerOf, Move
  <2>2. CASE Move(w, "testing", "left") /\ Close(w)
    BY <1>b, <2>2, CloseEffect DEF IInv, TypeOK, Move
  <2> QED
    BY <1>5, <2>1, <2>2 DEF TestStop
<1>6. ASSUME NEW w \in Workers, Receive(w)
      PROVE  Fates'
  <2>1. CASE Move(w, "receiving", "testing") /\ UNCHANGED <<env, linked>>
    BY <1>b, <2>1 DEF IInv, TypeOK, WorkerInv, WorkerOf, Move
  <2>2. CASE /\ Move(w, "receiving", "handling") /\ env' = [env EXCEPT ![w] = Head(inflight[w])]
             /\ UNCHANGED linked
    <3>1. w \in linked' /\ at'[w] = "handling"
      BY <1>6, <2>2 DEF IInv, TypeOK, Receive, Move
    <3>2. \A v \in Workers \ {w} : UNCHANGED <<at[v], env[v]>> /\ (v \in linked' <=> v \in linked)
      BY <2>2 DEF IInv, TypeOK, Move
    <3> QED
      BY <1>a, <3>1, <3>2 DEF Fates
  <2> QED
    BY <1>6, <2>1, <2>2 DEF Receive
<1>7. ASSUME NEW w \in Workers, Handle(w)
      PROVE  Fates'
  <2>1. env[w] \in DOMAIN log /\ UNCHANGED <<env, linked, lost>> /\ Run(env[w])
    BY <1>7, InHandOf DEF Handle, Move, broker
  <2>2. applied[env[w]] \in Nat /\ applied'[env'[w]] = applied[env[w]] + 1
    BY <2>1, RunEffect, LogFacts DEF IInv
  <2>3. \A v \in Workers \ {w} : UNCHANGED <<at[v], env[v]>>
    BY <1>7, <2>1 DEF IInv, TypeOK, Handle, Move
  <2> QED
    BY <1>a, <2>1, <2>2, <2>3 DEF Fates
<1>8. ASSUME NEW w \in Workers, HandleThrows(w)
      PROVE  Fates'
  BY <1>b, <1>8, CloseEffect DEF IInv, TypeOK, HandleThrows, Move
<1>9. ASSUME NEW w \in Workers, Ack(w) \/ LinkThrows(w)
      PROVE  Fates'
  BY <1>b, <1>9 DEF IInv, TypeOK, Ack, LinkThrows, Move
<1>10. CASE BrokerRestart
  <2>1. ASSUME NEW w \in Workers, env[w] # 0
        PROVE  env[w] \in lost'
    <3>1. w \in linked => env[w] \in InFlight
      BY <2>1, InHandOf DEF IInv, WorkerInv, WorkerOf, InFlight
    <3>2. w \notin linked => env[w] \in lost
      BY <2>1 DEF Fates
    <3> QED
      BY <1>10, <3>1, <3>2 DEF BrokerRestart
  <2> QED
    BY <1>10, <2>1 DEF Fates, BrokerRestart, table
<1>11. CASE ProcessRestart
  BY <1>11 DEF Fates, ProcessRestart
<1> QED
  BY <1>2, <1>3, <1>4, <1>5, <1>6, <1>7, <1>8, <1>9, <1>10, <1>11 DEF Next

LEMMA NextAtLeastOnce == IInv /\ Fates /\ AtLeastOnce /\ [Next]_vars => AtLeastOnce'
<1> SUFFICES ASSUME IInv, Fates, AtLeastOnce, [Next]_vars PROVE AtLeastOnce'
  OBVIOUS
(* A statement the broker has: where it is after the step.                 *)
<1> DEFINE Kept(i) == i \in queue' \/ i \in InFlight' \/ i \in lost' \/ applied'[i] > 0
<1>a. ASSUME NEW i \in DOMAIN log, i \in lost \/ applied[i] > 0
      PROVE  Kept(i)
  BY <1>a, HistoryGrows, LogFacts DEF IInv
<1>b. ASSUME UNCHANGED inflight, queue \subseteq queue', NEW i \in queue \cup InFlight
      PROVE  Kept(i)
  BY <1>b DEF InFlight, Held
<1>c. ASSUME NEW w \in Workers, Close(w), NEW i \in queue \cup InFlight
      PROVE  Kept(i)
  <2>1. CASE i \in queue \cup Held(w)
    BY <1>c, <2>1, CloseEffect
  <2>2. CASE i \in InFlight \ Held(w)
    <3>1. PICK v \in Workers : v # w /\ i \in Held(v)
      BY <2>2 DEF InFlight
    <3>2. i \in Held(v)'
      BY <1>c, <3>1, CloseEffect DEF Held
    <3> QED
      BY <3>2 DEF InFlight
  <2> QED
    BY <1>c, <2>1, <2>2
<1>1. ASSUME NEW p \in Publishers, BasicPublish(p)
      PROVE  AtLeastOnce'
  <2>1. /\ DOMAIN log' = DOMAIN log \cup {Len(log) + 1} /\ UNCHANGED inflight
        /\ Len(log) + 1 \in queue' \cup lost' /\ queue \subseteq queue'
    BY <1>1, PublishEffect DEF BasicPublish, working
  <2> QED
    BY <1>a, <1>b, <2>1 DEF AtLeastOnce
<1>2. ASSUME UNCHANGED log, \A i \in queue \cup InFlight : Kept(i)
      PROVE  AtLeastOnce'
  BY <1>a, <1>2 DEF AtLeastOnce
<1>3. ASSUME NEW p \in Publishers, TakeIndex(p) \/ LockChannel(p) \/ PublishThrows(p)
      PROVE  AtLeastOnce'
  BY <1>2, <1>b, <1>3 DEF TakeIndex, LockChannel, PublishThrows, broker, working
<1>4. ASSUME NEW w \in Workers,
             Connect(w) \/ ConnectThrows(w) \/ Receive(w) \/ Handle(w) \/ LinkThrows(w)
      PROVE  AtLeastOnce'
  BY <1>2, <1>b, <1>4 DEF Connect, ConnectThrows, Receive, Handle, LinkThrows, broker
<1>5. ASSUME NEW w \in Workers, Deliver(w)
      PROVE  AtLeastOnce'
  <2>1. ASSUME NEW i \in queue PROVE Kept(i)
    <3>1. CASE i = Min(queue)
      <4>1. i \in Held(w)'
        BY <1>5, <3>1, DeliverEffect
      <4> QED
        BY <4>1 DEF InFlight
    <3>2. CASE i # Min(queue)
      BY <1>5, <2>1, <3>2 DEF Deliver
    <3> QED
      BY <3>1, <3>2
  <2>2. ASSUME NEW i \in InFlight PROVE Kept(i)
    <3>1. PICK v \in Workers : i \in Held(v)
      BY <2>2 DEF InFlight
    <3>2. v # w
      BY <1>5, <3>1, DeliverEffect, HeldIs
    <3>3. i \in Held(v)'
      BY <1>5, <3>1, <3>2, DeliverEffect
    <3> QED
      BY <3>3 DEF InFlight
  <2> QED
    BY <1>2, <1>5, <2>1, <2>2 DEF Deliver
<1>6. ASSUME NEW w \in Workers, TestStop(w) \/ HandleThrows(w)
      PROVE  AtLeastOnce'
  BY <1>2, <1>b, <1>c, <1>6 DEF TestStop, HandleThrows
<1>7. ASSUME NEW w \in Workers, Ack(w)
      PROVE  AtLeastOnce'
  <2>1. /\ inflight' = [inflight EXCEPT ![w] = Tail(@)] /\ UNCHANGED broker
        /\ w \in linked /\ at[w] = "acking"
    BY <1>7 DEF Ack, Move
  <2>2. Held(w) = {env[w]} /\ env[w] \in DOMAIN log /\ applied[env[w]] > 0
    BY <2>1, InHandOf DEF Fates
  <2>3. Kept(env[w])
    BY <1>a, <2>2
  <2>4. ASSUME NEW i \in InFlight, i # env[w] PROVE Kept(i)
    <3>1. PICK v \in Workers : v # w /\ i \in Held(v)
      BY <2>2, <2>4 DEF InFlight
    <3>2. i \in Held(v)'
      BY <2>1, <3>1 DEF Held
    <3> QED
      BY <3>2 DEF InFlight
  <2> QED
    BY <1>2, <2>1, <2>3, <2>4 DEF broker
<1>8. CASE BrokerRestart
  BY <1>2, <1>8 DEF BrokerRestart
<1>9. CASE ProcessRestart
  BY <1>2, <1>9, HeldInLog, RequeueEffect DEF IInv, ProcessRestart
<1>10. CASE Shutdown \/ UNCHANGED vars
  BY <1>2, <1>b, <1>10 DEF Shutdown, vars, broker, working
<1> QED
  BY <1>1, <1>3, <1>4, <1>5, <1>6, <1>7, <1>8, <1>9, <1>10 DEF Next

(* Acknowledging after handling: no accepted statement disappears that was *)
(* neither executed nor dropped by the broker itself.                      *)
THEOREM AtLeastOnceCorrect == Spec => []AtLeastOnce
<1> QED
  BY InitIInv, NextIInv, InitFates, NextFates, NextAtLeastOnce, PTL DEF Spec

-----------------------------------------------------------------------------
(* Repetition                                                              *)

(* A statement has one place: the queue, or one worker, which has it in    *)
(* flight, in hand or both.                                                *)
Has(w) == Held(w) \cup ({env[w]} \ {0})

Exclusive ==
  /\ \A w \in Workers : Has(w) \cap queue = {}
  /\ \A v, w \in Workers : v # w => Has(v) \cap Has(w) = {}

LEMMA HasInLog ==
  ASSUME IInv, NEW w \in Workers
  PROVE  Has(w) \subseteq DOMAIN log
BY HeldInLog DEF IInv, TypeOK, Has

LEMMA HasSame ==
  ASSUME NEW w \in Workers, inflight'[w] = inflight[w], env'[w] = env[w]
  PROVE  Has(w)' = Has(w)
BY DEF Has, Held

(* Where the statement of a worker goes: it stays, comes, or leaves.       *)
LEMMA WorkerPlacement ==
  ASSUME IInv, NEW w \in Workers,
         \/ Connect(w) \/ ConnectThrows(w) \/ Deliver(w) \/ TestStop(w) \/ Receive(w)
         \/ Handle(w) \/ HandleThrows(w) \/ Ack(w) \/ LinkThrows(w)
  PROVE  /\ \A v \in Workers \ {w} : Has(v)' = Has(v) /\ at'[v] = at[v]
         /\ \/ queue' = queue /\ Has(w)' = Has(w)
            \/ /\ Deliver(w) /\ Has(w)' = {Min(queue)} /\ Min(queue) \in queue
               /\ queue' = queue \ {Min(queue)} /\ at'[w] = at[w] /\ at[w] # "acking"
            \/ /\ Has(w)' = {} /\ queue' \subseteq queue \cup Has(w)
<1> DEFINE Others == \A v \in Workers \ {w} : inflight'[v] = inflight[v] /\ env'[v] = env[v]
           Rest == \A v \in Workers \ {w} : at'[v] = at[v]
<1>1. Others => \A v \in Workers \ {w} : Has(v)' = Has(v)
  BY HasSame
<1>2. CASE Connect(w) \/ ConnectThrows(w) \/ Handle(w)
  <2>1. UNCHANGED <<queue, inflight, env>> /\ Rest
    BY <1>2 DEF IInv, TypeOK, Connect, ConnectThrows, Handle, Move, broker
  <2> QED
    BY <1>1, <2>1, HasSame
<1>3. CASE Deliver(w)
  <2>1. Others /\ UNCHANGED <<env, at>> /\ env[w] = 0 /\ Held(w)' = {Min(queue)}
    BY <1>3, DeliverEffect DEF IInv, TypeOK, Deliver
  <2>2. Has(w)' = {Min(queue)}
    BY <2>1 DEF Has
  <2>3. at[w] # "acking"
    BY <2>1 DEF IInv, WorkerInv, WorkerOf
  <2> QED
    BY <1>1, <1>3, <2>1, <2>2, <2>3, DeliverEffect DEF Deliver
<1>4. CASE Receive(w)
  <2>1. Others /\ UNCHANGED <<inflight, queue>> /\ Rest
    BY <1>4 DEF IInv, TypeOK, Receive, Move, broker
  <2>2. Has(w)' = Has(w)
    <3>1. CASE UNCHANGED env
      BY <2>1, <3>1, HasSame
    <3>2. CASE inflight[w] # <<>> /\ env' = [env EXCEPT ![w] = Head(inflight[w])]
      <4>1. inflight[w] = <<Head(inflight[w])>>
        BY <3>2, OneAtMost
      <4>2. Held(w) = {Head(inflight[w])} /\ Held(w)' = Held(w)
        BY <2>1, <4>1, HeldIs DEF Held
      <4>3. env[w] = 0 /\ env'[w] = Head(inflight[w])
        BY <1>4, <3>2 DEF IInv, TypeOK, WorkerInv, WorkerOf, Receive, Move
      <4> QED
        BY <4>2, <4>3 DEF Has
    <3> QED
      BY <1>4, <3>1, <3>2 DEF Receive
  <2> QED
    BY <1>1, <2>1, <2>2
<1>5. ASSUME Close(w), Rest
      PROVE  /\ \A v \in Workers \ {w} : Has(v)' = Has(v) /\ at'[v] = at[v]
             /\ Has(w)' = {} /\ queue' \subseteq queue \cup Has(w)
  <2>1. Others /\ inflight'[w] = <<>> /\ env'[w] = 0 /\ queue' = queue \cup Held(w)
    BY <1>5, CloseEffect
  <2>2. Has(w)' = {}
    BY <2>1 DEF Has, Held
  <2> QED
    BY <1>1, <1>5, <2>1, <2>2 DEF Has
<1>6. CASE TestStop(w)
  <2>1. CASE UNCHANGED <<queue, returned, inflight, env, linked>>
    <3>1. Rest
      BY <1>6 DEF IInv, TypeOK, TestStop, Move
    <3> QED
      BY <1>1, <2>1, <3>1, HasSame
  <2>2. CASE Close(w)
    <3>1. Rest
      BY <1>6 DEF IInv, TypeOK, TestStop, Move
    <3> QED
      BY <1>5, <2>2, <3>1
  <2> QED
    BY <1>6, <2>1, <2>2 DEF TestStop
<1>7. CASE HandleThrows(w)
  <2>1. Rest /\ Close(w)
    BY <1>7 DEF IInv, TypeOK, HandleThrows, Move
  <2> QED
    BY <1>5, <2>1
<1>8. CASE Ack(w)
  <2>1. Others /\ Rest /\ UNCHANGED queue /\ env'[w] = 0
    BY <1>8 DEF IInv, TypeOK, Ack, Move, broker
  <2>2. inflight'[w] = <<>>
    <3>1. inflight[w] = <<env[w]>>
      BY <1>8, InHandOf DEF Ack, Move
    <3>2. inflight' = [inflight EXCEPT ![w] = <<>>]
      BY <1>8, <3>1 DEF Ack
    <3> QED
      BY <3>2 DEF IInv, TypeOK
  <2>3. Has(w)' = {}
    BY <2>1, <2>2 DEF Has, Held
  <2> QED
    BY <1>1, <2>1, <2>3
<1>9. CASE LinkThrows(w)
  <2>1. Others /\ Rest /\ UNCHANGED queue /\ env'[w] = 0
    BY <1>9 DEF IInv, TypeOK, LinkThrows, Move, broker
  <2>2. inflight'[w] = <<>>
    BY <1>9 DEF IInv, WorkerInv, WorkerOf, LinkThrows
  <2>3. Has(w)' = {}
    BY <2>1, <2>2 DEF Has, Held
  <2> QED
    BY <1>1, <2>1, <2>3
<1> QED
  BY <1>2, <1>3, <1>4, <1>6, <1>7, <1>8, <1>9

(* A restart empties the hands of the workers, or leaves them as they are. *)
LEMMA RestartPlacement ==
  ASSUME IInv, NEW w \in Workers
  PROVE  /\ BrokerRestart => Has(w)' \subseteq Has(w) /\ queue' = {}
         /\ ProcessRestart => Has(w)' = {}
<1>1. ASSUME BrokerRestart PROVE Has(w)' \subseteq Has(w) /\ queue' = {}
  BY <1>1 DEF Has, Held, BrokerRestart
<1>2. ASSUME ProcessRestart PROVE Has(w)' = {}
  BY <1>2 DEF Has, Held, ProcessRestart
<1> QED
  BY <1>1, <1>2

LEMMA InitExclusive == Init => Exclusive
BY DEF Init, Exclusive, Has, Held

LEMMA NextExclusive == IInv /\ Exclusive /\ [Next]_vars => Exclusive'
<1> SUFFICES ASSUME IInv, Exclusive, [Next]_vars PROVE Exclusive'
  OBVIOUS
<1>1. ASSUME NEW p \in Publishers, BasicPublish(p)
      PROVE  Exclusive'
  <2>1. \A w \in Workers : Has(w)' = Has(w)
    BY <1>1, HasSame DEF BasicPublish, working
  <2>2. queue' \subseteq queue \cup {Len(log) + 1} /\ Len(log) + 1 \notin DOMAIN log
    BY <1>1, PublishEffect DEF BasicPublish
  <2> QED
    BY <2>1, <2>2, HasInLog DEF Exclusive
<1>2. ASSUME UNCHANGED <<queue, inflight, env>>
      PROVE  Exclusive'
  <2>1. \A w \in Workers : Has(w)' = Has(w)
    BY <1>2, HasSame
  <2> QED
    BY <1>2, <2>1 DEF Exclusive
<1>3. ASSUME NEW p \in Publishers, TakeIndex(p) \/ LockChannel(p) \/ PublishThrows(p)
      PROVE  Exclusive'
  BY <1>2, <1>3 DEF TakeIndex, LockChannel, PublishThrows, broker, working
<1>4. ASSUME NEW w \in Workers,
             \/ Connect(w) \/ ConnectThrows(w) \/ Deliver(w) \/ TestStop(w) \/ Receive(w)
             \/ Handle(w) \/ HandleThrows(w) \/ Ack(w) \/ LinkThrows(w)
      PROVE  Exclusive'
  <2>1. \A v \in Workers \ {w} : Has(v)' = Has(v)
    BY <1>4, WorkerPlacement
  <2>2. CASE queue' = queue /\ Has(w)' = Has(w)
    BY <2>1, <2>2 DEF Exclusive
  <2>3. CASE Has(w)' = {Min(queue)} /\ Min(queue) \in queue /\ queue' = queue \ {Min(queue)}
    BY <2>1, <2>3 DEF Exclusive
  <2>4. CASE Has(w)' = {} /\ queue' \subseteq queue \cup Has(w)
    BY <2>1, <2>4 DEF Exclusive
  <2> QED
    BY <1>4, <2>2, <2>3, <2>4, WorkerPlacement
<1>5. CASE BrokerRestart \/ ProcessRestart
  BY <1>5, RestartPlacement DEF Exclusive
<1>6. CASE Shutdown \/ UNCHANGED vars
  BY <1>2, <1>6 DEF Shutdown, vars, broker, working
<1> QED
  BY <1>1, <1>3, <1>4, <1>5, <1>6 DEF Next

(* What the broker took back as often as it was executed may be executed   *)
(* once more; only what a worker is about to acknowledge was once more.    *)
ReturnInv ==
  /\ \A i \in queue : applied[i] <= returned[i]
  /\ \A w \in Workers : at[w] # "acking" => \A i \in Has(w) : applied[i] <= returned[i]

LEMMA InitReturn == Init => ReturnInv /\ RepeatsNeedReturn
<1> SUFFICES ASSUME Init PROVE ReturnInv /\ RepeatsNeedReturn
  OBVIOUS
<1>1. DOMAIN log = {} /\ queue = {} /\ \A w \in Workers : Has(w) = {}
  BY DEF Init, Has, Held
<1> QED
  BY <1>1 DEF ReturnInv, RepeatsNeedReturn

LEMMA NextReturn ==
  IInv /\ Exclusive /\ ReturnInv /\ RepeatsNeedReturn /\ [Next]_vars
    => (ReturnInv /\ RepeatsNeedReturn)'
<1> SUFFICES ASSUME IInv, Exclusive, ReturnInv, RepeatsNeedReturn, [Next]_vars
             PROVE  (ReturnInv /\ RepeatsNeedReturn)'
  OBVIOUS
<1>a. \A i \in DOMAIN log : applied[i] \in Nat /\ returned[i] \in Nat
  BY LogFacts DEF IInv
<1>b. queue \subseteq DOMAIN log
  BY DEF IInv, TypeOK
<1>1. ASSUME NEW p \in Publishers, BasicPublish(p)
      PROVE  (ReturnInv /\ RepeatsNeedReturn)'
  <2>1. /\ DOMAIN log' = DOMAIN log \cup {Len(log) + 1}
        /\ applied'[Len(log) + 1] = 0 /\ returned'[Len(log) + 1] = 0
        /\ \A i \in DOMAIN log : applied'[i] = applied[i] /\ returned'[i] = returned[i]
    BY <1>1, PublishEffect
  <2>2. queue' \subseteq queue \cup {Len(log) + 1}
    BY <1>1 DEF BasicPublish
  <2>3. \A w \in Workers : Has(w)' = Has(w) /\ at'[w] = at[w]
    BY <1>1, HasSame DEF BasicPublish, working
  <2>4. RepeatsNeedReturn'
    BY <2>1 DEF RepeatsNeedReturn
  <2>5. ReturnInv'
    BY <1>b, <2>1, <2>2, <2>3, HasInLog DEF ReturnInv
  <2> QED
    BY <2>4, <2>5
<1>2. ASSUME UNCHANGED <<log, queue, inflight, env, at, applied, returned>>
      PROVE  (ReturnInv /\ RepeatsNeedReturn)'
  <2>1. \A w \in Workers : Has(w)' = Has(w)
    BY <1>2, HasSame
  <2> QED
    BY <1>2, <2>1 DEF ReturnInv, RepeatsNeedReturn
<1>3. ASSUME NEW p \in Publishers, TakeIndex(p) \/ LockChannel(p) \/ PublishThrows(p)
      PROVE  (ReturnInv /\ RepeatsNeedReturn)'
  BY <1>2, <1>3 DEF TakeIndex, LockChannel, PublishThrows, broker, working, table
(* Nothing is executed or taken back, and nobody starts to acknowledge.    *)
<1>4. ASSUME NEW w \in Workers, UNCHANGED <<log, applied, returned>>,
             \/ Connect(w) \/ ConnectThrows(w) \/ Deliver(w) \/ TestStop(w) \/ Receive(w)
             \/ Ack(w) \/ LinkThrows(w),
             queue' \subseteq queue
      PROVE  (ReturnInv /\ RepeatsNeedReturn)'
  <2>1. RepeatsNeedReturn'
    BY <1>4 DEF RepeatsNeedReturn
  <2>2. \A i \in queue' : applied'[i] <= returned'[i]
    BY <1>4 DEF ReturnInv
  <2>3. ASSUME NEW v \in Workers \ {w}, at'[v] # "acking"
        PROVE  \A i \in Has(v)' : applied'[i] <= returned'[i]
    <3>1. Has(v)' = Has(v) /\ at'[v] = at[v]
      BY <1>4, WorkerPlacement
    <3> QED
      BY <1>4, <2>3, <3>1 DEF ReturnInv
  <2>4. \A i \in Has(w)' : applied'[i] <= returned'[i]
    <3>1. CASE Has(w)' = {}
      BY <3>1
    <3>2. CASE Has(w)' = {Min(queue)} /\ Min(queue) \in queue
      BY <1>4, <3>2 DEF ReturnInv
    <3>3. CASE Has(w)' = Has(w) /\ at[w] # "acking"
      BY <1>4, <3>3 DEF ReturnInv
    <3>4. CASE Ack(w) \/ LinkThrows(w)
      <4>1. Has(w)' = {}
        <5>1. env'[w] = 0
          BY <3>4 DEF IInv, TypeOK, Ack, LinkThrows
        <5>2. inflight'[w] = <<>>
          <6>1. CASE Ack(w)
            <7>1. inflight[w] = <<env[w]>>
              BY <6>1, InHandOf DEF Ack, Move
            <7>2. inflight' = [inflight EXCEPT ![w] = <<>>]
              BY <6>1, <7>1 DEF Ack
            <7> QED
              BY <7>2 DEF IInv, TypeOK
          <6>2. CASE LinkThrows(w)
            BY <6>2 DEF IInv, WorkerInv, WorkerOf, LinkThrows
          <6> QED
            BY <3>4, <6>1, <6>2
        <5> QED
          BY <5>1, <5>2 DEF Has, Held
      <4> QED
        BY <4>1
    <3>5. CASE Connect(w) \/ ConnectThrows(w) \/ Deliver(w) \/ TestStop(w) \/ Receive(w)
      <4>1. at[w] # "acking"
        <5>1. CASE Deliver(w)
          BY <5>1, DeliverEffect DEF IInv, WorkerInv, WorkerOf
        <5> QED
          BY <3>5, <5>1 DEF Connect, ConnectThrows, TestStop, Receive, Move
      <4> QED
        BY <3>1, <3>2, <3>3, <3>5, <4>1, WorkerPlacement
    <3> QED
      BY <1>4, <3>4, <3>5
  <2> QED
    BY <2>1, <2>2, <2>3, <2>4 DEF ReturnInv
<1>5. ASSUME NEW w \in Workers,
             \/ Connect(w) \/ ConnectThrows(w) \/ Deliver(w) \/ Receive(w) \/ Ack(w) \/ LinkThrows(w)
             \/ TestStop(w) /\ UNCHANGED <<queue, returned>>
      PROVE  (ReturnInv /\ RepeatsNeedReturn)'
  <2>1. UNCHANGED <<log, applied, returned>> /\ queue' \subseteq queue
    BY <1>5 DEF Connect, ConnectThrows, Deliver, Receive, Ack, LinkThrows, TestStop, broker, table
  <2> QED
    BY <1>4, <1>5, <2>1
(* The channel of w closes, and w may have executed what it has.           *)
<1>6. ASSUME NEW w \in Workers, Close(w), UNCHANGED log,
             \A v \in Workers \ {w} : Has(v)' = Has(v) /\ at'[v] = at[v],
             \A i \in DOMAIN log : \/ applied'[i] = applied[i]
                                   \/ i \in Has(w) /\ applied'[i] = applied[i] + 1,
             at[w] # "acking"
      PROVE  (ReturnInv /\ RepeatsNeedReturn)'
  <2>1. /\ queue' = queue \cup Held(w) /\ Held(w) \subseteq Has(w) /\ Has(w) \subseteq DOMAIN log
        /\ \A i \in DOMAIN log :
             returned'[i] = IF i \in Held(w) THEN returned[i] + 1 ELSE returned[i]
    BY <1>6, CloseEffect, HasInLog DEF Has
  <2>2. \A i \in Has(w) : applied[i] <= returned[i]
    BY <1>6 DEF ReturnInv
  <2>3. RepeatsNeedReturn'
    BY <1>6, <1>a, <2>1, <2>2 DEF RepeatsNeedReturn
  <2>4. \A i \in queue' : applied'[i] <= returned'[i]
    <3>1. ASSUME NEW i \in queue PROVE applied'[i] <= returned'[i]
      <4>1. i \notin Has(w) /\ i \in DOMAIN log
        BY <1>b DEF Exclusive
      <4> QED
        BY <1>6, <2>1, <4>1 DEF ReturnInv
    <3>2. ASSUME NEW i \in Held(w) PROVE applied'[i] <= returned'[i]
      BY <1>6, <1>a, <2>1, <2>2
    <3> QED
      BY <2>1, <3>1, <3>2
  <2>5. ASSUME NEW v \in Workers \ {w}, at'[v] # "acking", NEW i \in Has(v)'
        PROVE  applied'[i] <= returned'[i]
    <3>1. i \in Has(v) /\ i \notin Has(w) /\ i \in DOMAIN log /\ at[v] # "acking"
      BY <1>6, <2>5, HasInLog DEF Exclusive
    <3> QED
      BY <1>6, <2>1, <3>1 DEF ReturnInv
  <2>6. Has(w)' = {}
    BY <1>6, CloseEffect DEF Has, Held
  <2> QED
    BY <2>3, <2>4, <2>5, <2>6 DEF ReturnInv
<1>7. ASSUME NEW w \in Workers, TestStop(w)
      PROVE  (ReturnInv /\ RepeatsNeedReturn)'
  <2>1. CASE UNCHANGED <<queue, returned>>
    BY <1>5, <1>7, <2>1
  <2>2. CASE Close(w)
    <3>1. UNCHANGED <<log, applied>> /\ at[w] # "acking"
      BY <1>7 DEF TestStop, Move, table
    <3>2. \A v \in Workers \ {w} : Has(v)' = Has(v) /\ at'[v] = at[v]
      BY <1>7, WorkerPlacement
    <3>3. \A i \in DOMAIN log : applied'[i] = applied[i]
      BY <3>1
    <3> QED
      BY <1>6, <2>2, <3>1, <3>2, <3>3
  <2> QED
    BY <1>7, <2>1, <2>2 DEF TestStop
<1>8. ASSUME NEW w \in Workers, at[w] = "handling", Run(env[w])
      PROVE  /\ env[w] \in DOMAIN log /\ env[w] \in Has(w)
             /\ \A i \in DOMAIN log :
                  applied'[i] = IF i = env[w] THEN applied[i] + 1 ELSE applied[i]
  BY <1>8, InHandOf, RunEffect DEF IInv, Has
<1>9. ASSUME NEW w \in Workers, HandleThrows(w)
      PROVE  (ReturnInv /\ RepeatsNeedReturn)'
  <2>1. at[w] = "handling" /\ Close(w) /\ UNCHANGED log
    BY <1>9 DEF HandleThrows, Move
  <2>2. \A v \in Workers \ {w} : Has(v)' = Has(v) /\ at'[v] = at[v]
    BY <1>9, WorkerPlacement
  <2>3. CASE Run(env[w])
    <3>1. {env[w]} \subseteq Has(w)
      BY <1>8, <2>1, <2>3
    <3> QED
      BY <1>6, <1>8, <2>1, <2>2, <2>3, <3>1
  <2>4. CASE UNCHANGED table
    <3>1. \A i \in DOMAIN log : applied'[i] = applied[i]
      BY <2>4 DEF table
    <3> QED
      BY <1>6, <2>1, <2>2, <3>1
  <2> QED
    BY <1>9, <2>3, <2>4 DEF HandleThrows
<1>10. ASSUME NEW w \in Workers, Handle(w)
       PROVE  (ReturnInv /\ RepeatsNeedReturn)'
  <2>1. at[w] = "handling" /\ at'[w] = "acking" /\ Run(env[w]) /\ UNCHANGED <<log, queue, returned>>
    BY <1>10 DEF IInv, TypeOK, Handle, Move, broker
  <2>2. /\ env[w] \in DOMAIN log /\ env[w] \in Has(w)
        /\ \A i \in DOMAIN log :
             applied'[i] = IF i = env[w] THEN applied[i] + 1 ELSE applied[i]
    BY <1>8, <2>1
  <2>3. applied[env[w]] <= returned[env[w]]
    BY <2>1, <2>2 DEF ReturnInv
  <2>4. RepeatsNeedReturn'
    BY <1>a, <2>1, <2>2, <2>3 DEF RepeatsNeedReturn
  <2>5. \A i \in queue' : applied'[i] <= returned'[i]
    <3>1. env[w] \notin queue
      BY <2>2 DEF Exclusive
    <3> QED
      BY <1>b, <2>1, <2>2, <3>1 DEF ReturnInv
  <2>6. ASSUME NEW v \in Workers \ {w}, at'[v] # "acking", NEW i \in Has(v)'
        PROVE  applied'[i] <= returned'[i]
    <3>1. Has(v)' = Has(v) /\ at'[v] = at[v]
      BY <1>10, WorkerPlacement
    <3>2. i # env[w] /\ i \in DOMAIN log
      BY <2>2, <2>6, <3>1, HasInLog DEF Exclusive
    <3> QED
      BY <2>1, <2>2, <2>6, <3>1, <3>2 DEF ReturnInv
  <2> QED
    BY <2>1, <2>4, <2>5, <2>6 DEF ReturnInv
<1>11. CASE BrokerRestart
  <2>1. UNCHANGED <<log, returned, applied, at>>
    BY <1>11 DEF BrokerRestart, table
  <2>2. RepeatsNeedReturn'
    BY <2>1 DEF RepeatsNeedReturn
  <2>3. queue' = {} /\ \A w \in Workers : Has(w)' \subseteq Has(w)
    BY <1>11, RestartPlacement DEF BrokerRestart
  <2>4. ReturnInv'
    BY <2>1, <2>3 DEF ReturnInv
  <2> QED
    BY <2>2, <2>4
<1>12. CASE ProcessRestart
  <2>1. /\ queue' = queue \cup InFlight /\ InFlight \subseteq DOMAIN log /\ UNCHANGED <<log, applied>>
        /\ \A i \in DOMAIN log :
             returned'[i] = IF i \in InFlight THEN returned[i] + 1 ELSE returned[i]
    BY <1>12, HeldInLog, RequeueEffect DEF IInv, ProcessRestart, table
  <2>2. RepeatsNeedReturn'
    BY <1>a, <2>1 DEF RepeatsNeedReturn
  <2>3. \A i \in queue' : applied'[i] <= returned'[i]
    <3>1. ASSUME NEW i \in InFlight PROVE applied'[i] <= returned'[i]
      BY <1>a, <2>1 DEF RepeatsNeedReturn
    <3>2. ASSUME NEW i \in queue, i \notin InFlight PROVE applied'[i] <= returned'[i]
      BY <1>b, <2>1, <3>2 DEF ReturnInv
    <3> QED
      BY <2>1, <3>1, <3>2
  <2> QED
    BY <1>12, <2>2, <2>3, RestartPlacement DEF ReturnInv
<1>13. CASE Shutdown \/ UNCHANGED vars
  BY <1>2, <1>13 DEF Shutdown, vars, broker, working, table
<1> QED
  BY <1>1, <1>3, <1>5, <1>7, <1>9, <1>10, <1>11, <1>12, <1>13 DEF Next

(* No statement is executed a second time unless the broker took it back,  *)
(* from a worker that died or left or a process that ended.                *)
THEOREM RepeatsCorrect == Spec => []RepeatsNeedReturn
<1> QED
  BY InitIInv, NextIInv, InitExclusive, NextExclusive, InitReturn, NextReturn, PTL DEF Spec

-----------------------------------------------------------------------------
(* Overtaking                                                              *)

(* The statements before i that are yet to be executed.  They only become  *)
(* fewer, so that it is enough to count them when i leaves the queue: it   *)
(* is the first there, hence each of them is with another worker.          *)
Behind(i) == {j \in 1..(i - 1) : applied[j] = 0 /\ j \notin lost}

OvertakeInv ==
  \A i \in DOMAIN log :
    applied[i] > 0 \/ (\E w \in Workers : i \in Has(w))
      => Cardinality(Behind(i)) < Cardinality(Workers)

LEMMA BehindFinite ==
  ASSUME NEW i \in Nat
  PROVE  IsFiniteSet(Behind(i)) /\ Cardinality(Behind(i)) \in Nat
<1>1. IsFiniteSet(1..(i - 1))
  BY FS_Interval
<1>2. Behind(i) \in SUBSET (1..(i - 1))
  BY DEF Behind
<1> QED
  BY <1>1, <1>2, FS_Subset, FS_CardinalityType

LEMMA BehindShrinks ==
  ASSUME IInv, [Next]_vars, NEW i \in DOMAIN log
  PROVE  Cardinality(Behind(i)') <= Cardinality(Behind(i))
<1>1. DOMAIN log = 1..Len(log) /\ Len(log) \in Nat /\ i \in Nat
  BY LogFacts DEF IInv
<1>2. ASSUME NEW j \in Behind(i)'
      PROVE  j \in Behind(i)
  <2>1. j \in 1..(i - 1) /\ applied'[j] = 0 /\ j \notin lost'
    BY <1>2 DEF Behind
  <2>2. j \in DOMAIN log
    BY <1>1, <2>1
  <2>3. applied[j] \in Nat /\ applied'[j] >= applied[j] /\ lost \subseteq lost'
    BY <2>2, HistoryGrows, LogFacts DEF IInv
  <2> QED
    BY <2>1, <2>3 DEF Behind
<1> QED
  BY <1>1, <1>2, BehindFinite, FS_Subset

(* The first statement of the queue, on its way to worker w.               *)
LEMMA FirstIsBehindFew ==
  ASSUME IInv, AtLeastOnce, NEW w \in Workers, Deliver(w)
  PROVE  Cardinality(Behind(Min(queue))) < Cardinality(Workers)
<1> DEFINE i == Min(queue)
           others == Workers \ {w}
           f == [j \in Behind(i) |-> CHOOSE v \in others : inflight[v] = <<j>>]
<1>1. /\ i \in queue /\ i \in DOMAIN log /\ i \in Nat /\ \A j \in queue : i <= j
      /\ inflight[w] = <<>> /\ DOMAIN log = 1..Len(log) /\ Len(log) \in Nat
  BY DeliverEffect, LogFacts DEF IInv
<1>2. ASSUME NEW j \in Behind(i)
      PROVE  \E v \in others : inflight[v] = <<j>>
  <2>1. j \in 1..(i - 1) /\ applied[j] = 0 /\ j \notin lost
    BY DEF Behind
  <2>2. j \in DOMAIN log /\ j \notin queue
    BY <1>1, <2>1
  <2>3. j \in InFlight
    BY <2>1, <2>2 DEF AtLeastOnce
  <2>4. PICK v \in Workers : j \in Held(v)
    BY <2>3 DEF InFlight
  <2>5. inflight[v] # <<>>
    BY <2>4, HeldIs
  <2>6. inflight[v] = <<j>>
    <3>1. PICK k \in DOMAIN log : inflight[v] = <<k>>
      BY <2>5 DEF IInv, WorkerInv, WorkerOf
    <3> QED
      BY <2>4, <3>1, HeldIs
  <2> QED
    BY <1>1, <2>5, <2>6
<1>3. \A j \in Behind(i) : f[j] \in others /\ inflight[f[j]] = <<j>>
  BY <1>2
<1>4. f \in Injection(Behind(i), others)
  <2>1. f \in [Behind(i) -> others]
    BY <1>3
  <2>2. ASSUME NEW j \in Behind(i), NEW k \in Behind(i), f[j] = f[k]
        PROVE  j = k
    <3>1. <<j>> = <<k>>
      BY <1>3, <2>2
    <3> QED
      BY <3>1
  <2> HIDE DEF f
  <2> QED
    BY <2>1, <2>2 DEF Injection, IsInjective
<1>5. /\ IsFiniteSet(Workers) /\ Cardinality(Workers) \in Nat
      /\ IsFiniteSet(others) /\ Cardinality(others) = Cardinality(Workers) - 1
  BY SqlQueueAssumption, FS_RemoveElement, FS_CardinalityType
<1>6. Cardinality(Behind(i)) <= Cardinality(others) /\ Cardinality(Behind(i)) \in Nat
  BY <1>1, <1>4, <1>5, FS_Injection, BehindFinite
<1> QED
  BY <1>5, <1>6

LEMMA InitOvertake == Init => OvertakeInv
BY DEF Init, OvertakeInv

(* What a worker has after a step it had before, or was given.             *)
LEMMA ComesByDelivery ==
  ASSUME IInv, [Next]_vars, NEW w \in Workers, NEW i \in Has(w)'
  PROVE  i \in Has(w) \/ (Deliver(w) /\ i = Min(queue))
<1>1. ASSUME UNCHANGED <<inflight, env>>
      PROVE  i \in Has(w)
  BY <1>1, HasSame
<1>2. ASSUME NEW p \in Publishers,
             TakeIndex(p) \/ LockChannel(p) \/ BasicPublish(p) \/ PublishThrows(p)
      PROVE  i \in Has(w)
  BY <1>1, <1>2 DEF TakeIndex, LockChannel, BasicPublish, PublishThrows, working
<1>3. ASSUME NEW v \in Workers,
             \/ Connect(v) \/ ConnectThrows(v) \/ Deliver(v) \/ TestStop(v) \/ Receive(v)
             \/ Handle(v) \/ HandleThrows(v) \/ Ack(v) \/ LinkThrows(v)
      PROVE  i \in Has(w) \/ (Deliver(w) /\ i = Min(queue))
  BY <1>3, WorkerPlacement
<1>4. CASE BrokerRestart \/ ProcessRestart
  BY <1>4, RestartPlacement
<1>5. CASE Shutdown \/ UNCHANGED vars
  BY <1>1, <1>5 DEF Shutdown, vars, working
<1> QED
  BY <1>2, <1>3, <1>4, <1>5 DEF Next

LEMMA NextOvertake == IInv /\ AtLeastOnce /\ OvertakeInv /\ [Next]_vars => OvertakeInv'
<1> SUFFICES ASSUME IInv, AtLeastOnce, OvertakeInv, [Next]_vars,
                    NEW i \in DOMAIN log',
                    applied'[i] > 0 \/ (\E w \in Workers : i \in Has(w)')
             PROVE  Cardinality(Behind(i)') < Cardinality(Workers)
  BY DEF OvertakeInv
<1>1. i \in DOMAIN log
  <2>1. CASE \E w \in Workers : i \in Has(w)'
    BY <2>1, ComesByDelivery, HasInLog, DeliverEffect
  <2>2. CASE applied'[i] > 0
    <3>1. CASE UNCHANGED log
      BY <3>1
    <3>2. ASSUME NEW p \in Publishers, BasicPublish(p)
          PROVE  i \in DOMAIN log
      BY <2>2, <3>2, PublishEffect
    <3>3. CASE \E p \in Publishers : BasicPublish(p)
      BY <3>2, <3>3
    <3>4. UNCHANGED log \/ \E p \in Publishers : BasicPublish(p)
      BY DEF Next, TakeIndex, LockChannel, PublishThrows, Connect, ConnectThrows, Deliver,
             TestStop, Receive, Handle, HandleThrows, Ack, LinkThrows, Shutdown, BrokerRestart,
             ProcessRestart, vars, broker
    <3> QED
      BY <3>1, <3>3, <3>4
  <2> QED
    BY <2>1, <2>2
<1>2. Cardinality(Behind(i)') <= Cardinality(Behind(i))
  BY <1>1, BehindShrinks
<1>3. Cardinality(Behind(i)) < Cardinality(Workers)
  <2>1. CASE \E w \in Workers : i \in Has(w)'
    BY <1>1, <2>1, ComesByDelivery, FirstIsBehindFew DEF OvertakeInv
  <2>2. CASE applied'[i] > 0
    <3>1. applied[i] > 0 \/ \E w \in Workers : at[w] = "handling" /\ env[w] = i
      BY <1>1, <2>2, HistoryGrows
    <3>2. \A w \in Workers : at[w] = "handling" /\ env[w] = i => i \in Has(w)
      BY InHandOf DEF Has
    <3> QED
      BY <1>1, <3>1, <3>2 DEF OvertakeInv
  <2> QED
    BY <2>1, <2>2
<1>4. Cardinality(Behind(i)) \in Nat /\ Cardinality(Behind(i)') \in Nat /\ Cardinality(Workers) \in Nat
  <2>1. i \in Nat
    BY <1>1, LogFacts DEF IInv
  <2>2. IsFiniteSet(Behind(i)')
    <3>1. IsFiniteSet(1..(i - 1)) /\ Behind(i)' \in SUBSET (1..(i - 1))
      BY <2>1, FS_Interval DEF Behind
    <3> QED
      BY <3>1, FS_Subset
  <2> QED
    BY <2>1, <2>2, BehindFinite, SqlQueueAssumption, FS_CardinalityType
<1> QED
  BY <1>2, <1>3, <1>4

(* A statement overtakes fewer statements than there are other workers,    *)
(* whatever dies and restarts.                                             *)
THEOREM OvertakingCorrect == Spec => []BoundedOvertaking
<1>1. OvertakeInv => BoundedOvertaking
  BY DEF OvertakeInv, BoundedOvertaking, Behind
<1> QED
  BY <1>1, InitIInv, NextIInv, InitFates, NextFates, NextAtLeastOnce, InitOvertake, NextOvertake,
     PTL DEF Spec

-----------------------------------------------------------------------------
(* Implementation of AsyncStatements                                       *)

Outstanding == queue \cup InFlight \cup InHand

LEMMA OutstandingIs ==
  \A i : i \in Outstanding <=> i \in queue \/ \E w \in Workers : i \in Has(w)
BY DEF Outstanding, InFlight, InHand, Has

LEMMA OutstandingSame ==
  ASSUME UNCHANGED <<queue, inflight, env>>
  PROVE  Outstanding' = Outstanding
BY DEF Outstanding, InFlight, InHand, Held

LEMMA OutstandingWithout ==
  ASSUME IInv, Exclusive, NEW w \in Workers, queue' = queue, Has(w)' = {},
         \A v \in Workers \ {w} : Has(v)' = Has(v)
  PROVE  Outstanding' = Outstanding \ Has(w)
<1>1. \A i : i \in Outstanding' <=> i \in queue' \/ \E v \in Workers : i \in Has(v)'
  BY DEF Outstanding, InFlight, InHand, Has
<1>2. \A i : i \in Outstanding' <=> i \in queue \/ \E v \in Workers \ {w} : i \in Has(v)
  BY <1>1
<1>3. \A i : i \in Outstanding' <=> i \in Outstanding /\ i \notin Has(w)
  BY <1>2, OutstandingIs DEF Exclusive
<1> QED
  BY <1>3

(* A worker whose channel closes leaves to the queue what the broker       *)
(* thought it had, and to nobody what it has in hand beyond that.          *)
LEMMA OutstandingClosed ==
  ASSUME IInv, Exclusive, NEW w \in Workers, Close(w),
         \A v \in Workers \ {w} : Has(v)' = Has(v)
  PROVE  /\ env[w] = 0 \/ w \in linked => Outstanding' = Outstanding
         /\ env[w] # 0 /\ w \notin linked => Outstanding' = Outstanding \ {env[w]}
<1>1. queue' = queue \cup Held(w) /\ inflight'[w] = <<>> /\ env'[w] = 0
  BY CloseEffect
<1>2. Has(w)' = {}
  BY <1>1 DEF Has, Held
<1>3. \A i : i \in Outstanding' <=> i \in queue' \/ \E v \in Workers : i \in Has(v)'
  BY DEF Outstanding, InFlight, InHand, Has
<1>4. \A i : i \in Outstanding' <=> i \in queue \cup Held(w) \/ \E v \in Workers \ {w} : i \in Has(v)
  BY <1>1, <1>2, <1>3
<1>5. CASE env[w] = 0 \/ w \in linked
  <2>1. Has(w) = Held(w)
    <3>1. CASE env[w] = 0
      BY <3>1 DEF Has
    <3>2. CASE env[w] # 0
      <4>1. inflight[w] = <<env[w]>>
        BY <1>5, <3>2 DEF IInv, WorkerInv, WorkerOf
      <4> QED
        BY <4>1, HeldIs DEF Has
    <3> QED
      BY <3>1, <3>2
  <2>2. \A i : i \in Outstanding' <=> i \in Outstanding
    BY <1>4, <2>1, OutstandingIs
  <2> QED
    BY <1>5, <2>2
<1>6. CASE env[w] # 0 /\ w \notin linked
  <2>1. Held(w) = {} /\ Has(w) = {env[w]}
    BY <1>6, HeldIs DEF IInv, WorkerInv, WorkerOf, Has
  <2>2. \A i : i \in Outstanding' <=> i \in Outstanding /\ i # env[w]
    BY <1>4, <2>1, OutstandingIs DEF Exclusive
  <2> QED
    BY <1>6, <2>2
<1> QED
  BY <1>5, <1>6

LEMMA AsyncOutstanding ==
  /\ Async!vars = <<log, Outstanding, applied, rows, lost>>
  /\ \A S : Async!Settle(S) <=>
       /\ \A i \in S : applied[i] > 0 \/ i \in lost
       /\ Outstanding' = Outstanding \ S
       /\ UNCHANGED <<log, applied, rows, lost>>
  /\ \A i : Async!Apply(i) <=>
       /\ i \in Outstanding /\ Run(i)
       /\ Outstanding' \in {Outstanding, Outstanding \ {i}}
       /\ UNCHANGED <<log, lost>>
BY DEF Async!vars, Async!Settle, Async!Apply, Async!RowsAfter, Run, RowsAfter, Outstanding

LEMMA PublishIsSubmit ==
  ASSUME IInv, NEW p \in Publishers, BasicPublish(p)
  PROVE  Async!Next
<1> DEFINE sql == Program[pub[p].next]
<1>1. sql \in Async!Statements
  BY PublishEffect DEF Async!Statements
<1>2. Async!Record(sql) /\ UNCHANGED <<inflight, env>>
  BY DEF BasicPublish, working, Async!Record
<1>3. CASE declared
  <2>1. Outstanding' = Outstanding \cup {Len(log) + 1}
    BY <1>2, <1>3 DEF BasicPublish, Outstanding, InFlight, InHand, Held
  <2>2. Async!Submit(sql)
    BY <1>2, <1>3, <2>1 DEF BasicPublish, Async!Submit, Outstanding
  <2> QED
    BY <1>1, <2>2 DEF Async!Next
<1>4. CASE ~declared
  <2>1. Outstanding' = Outstanding
    BY <1>2, <1>4, OutstandingSame DEF BasicPublish
  <2>2. Async!SubmitToNobody(sql)
    BY <1>2, <1>4, <2>1 DEF BasicPublish, Async!SubmitToNobody, Outstanding
  <2> QED
    BY <1>1, <2>2 DEF Async!Next
<1> QED
  BY <1>3, <1>4

LEMMA SettleIsNext ==
  ASSUME NEW S, S \subseteq Outstanding, Async!Settle(S)
  PROVE  Async!Next
BY DEF Async!Next, Outstanding

LEMMA ApplyIsNext ==
  ASSUME NEW i \in Outstanding, Async!Apply(i)
  PROVE  Async!Next
BY DEF Async!Next, Outstanding

LEMMA WorkerIsAsync ==
  ASSUME IInv, Fates, Exclusive, NEW w \in Workers,
         \/ Connect(w) \/ ConnectThrows(w) \/ Deliver(w) \/ TestStop(w) \/ Receive(w)
         \/ Handle(w) \/ HandleThrows(w) \/ Ack(w) \/ LinkThrows(w)
  PROVE  Async!Next \/ UNCHANGED <<log, Outstanding, applied, rows, lost>>
<1>a. UNCHANGED <<log, lost>>
  BY DEF Connect, ConnectThrows, Deliver, TestStop, Receive, Handle, HandleThrows, Ack, LinkThrows,
         broker
<1>b. \A v \in Workers \ {w} : Has(v)' = Has(v)
  BY WorkerPlacement
<1>c. at[w] \in {"handling", "acking"} =>
        env[w] \in DOMAIN log /\ env[w] # 0 /\ env[w] \in Outstanding /\ Has(w) = {env[w]}
  BY InHandOf, OutstandingIs DEF Has
<1>1. CASE Connect(w) \/ ConnectThrows(w)
  BY <1>1, <1>a, OutstandingSame DEF Connect, ConnectThrows, broker, table
<1>2. CASE Deliver(w)
  <2>1. /\ UNCHANGED <<env, applied, rows>> /\ queue' = queue \ {Min(queue)} /\ Min(queue) \in queue
        /\ Held(w)' = {Min(queue)} /\ Held(w) = {}
        /\ \A v \in Workers \ {w} : Held(v)' = Held(v)
    BY <1>2, DeliverEffect, HeldIs DEF Deliver, table
  <2>2. \A i : i \in Outstanding' <=> i \in Outstanding
    BY <2>1 DEF Outstanding, InFlight, InHand
  <2> QED
    BY <1>a, <2>1, <2>2
<1>3. CASE TestStop(w)
  <2>1. UNCHANGED <<applied, rows>> /\ env[w] = 0
    BY <1>3 DEF IInv, WorkerInv, WorkerOf, TestStop, Move, table
  <2>2. Outstanding' = Outstanding
    BY <1>3, <1>b, <2>1, OutstandingSame, OutstandingClosed DEF TestStop
  <2> QED
    BY <1>a, <2>1, <2>2
<1>4. CASE Receive(w)
  <2>1. UNCHANGED <<applied, rows, queue>> /\ ~Deliver(w)
    BY <1>4 DEF Receive, Deliver, Move, IInv, TypeOK, broker, table
  <2>2. Has(w)' = Has(w)
    <3>1. CASE UNCHANGED env
      BY <1>4, <3>1, HasSame DEF Receive
    <3>2. CASE inflight[w] # <<>> /\ env' = [env EXCEPT ![w] = Head(inflight[w])]
      <4>1. Held(w) = {Head(inflight[w])} /\ Held(w)' = Held(w)
        BY <1>4, <3>2, OneAtMost, HeldIs DEF Receive, Held
      <4>2. env[w] = 0 /\ env'[w] = Head(inflight[w])
        BY <1>4, <3>2 DEF IInv, TypeOK, WorkerInv, WorkerOf, Receive, Move
      <4> QED
        BY <4>1, <4>2 DEF Has
    <3> QED
      BY <1>4, <3>1, <3>2 DEF Receive
  <2>3. \A i : i \in Outstanding' <=> i \in queue' \/ \E v \in Workers : i \in Has(v)'
    BY DEF Outstanding, InFlight, InHand, Has
  <2>4. \A i : i \in Outstanding' <=> i \in Outstanding
    BY <1>b, <2>1, <2>2, <2>3, OutstandingIs
  <2> QED
    BY <1>a, <2>1, <2>4
<1>5. CASE Handle(w)
  <2>1. at[w] = "handling" /\ Run(env[w]) /\ Outstanding' = Outstanding
    BY <1>5, OutstandingSame DEF Handle, Move, broker
  <2>2. Async!Apply(env[w])
    BY <1>a, <1>c, <2>1, AsyncOutstanding
  <2> QED
    BY <1>c, <2>1, <2>2, ApplyIsNext
<1>6. CASE HandleThrows(w)
  <2>1. at[w] = "handling" /\ Close(w)
    BY <1>6 DEF HandleThrows, Move
  <2>2. /\ w \in linked => Outstanding' = Outstanding
        /\ w \notin linked => Outstanding' = Outstanding \ {env[w]}
    BY <1>b, <1>c, <2>1, OutstandingClosed
  <2>3. CASE Run(env[w])
    <3>1. Async!Apply(env[w])
      BY <1>a, <1>c, <2>1, <2>2, <2>3, AsyncOutstanding
    <3> QED
      BY <1>c, <2>1, <3>1, ApplyIsNext
  <2>4. CASE UNCHANGED table
    <3>1. CASE w \in linked
      BY <1>a, <2>2, <2>4, <3>1 DEF table
    <3>2. CASE w \notin linked
      <4>1. env[w] \in lost
        BY <1>c, <2>1, <3>2 DEF Fates
      <4>2. Async!Settle({env[w]})
        BY <1>a, <2>2, <2>4, <3>2, <4>1, AsyncOutstanding DEF table
      <4> QED
        BY <1>c, <2>1, <4>2, SettleIsNext
    <3> QED
      BY <3>1, <3>2
  <2> QED
    BY <1>6, <2>3, <2>4 DEF HandleThrows
<1>7. CASE Ack(w) \/ LinkThrows(w)
  <2>1. UNCHANGED <<applied, rows, queue>>
    BY <1>7 DEF Ack, LinkThrows, broker, table
  <2>2. CASE at[w] = "acking"
    <3>1. Has(w)' = {}
      <4>1. env'[w] = 0
        BY <1>7 DEF IInv, TypeOK, Ack, LinkThrows
      <4>2. inflight'[w] = <<>>
        <5>1. CASE Ack(w)
          <6>1. inflight[w] = <<env[w]>>
            BY <5>1, InHandOf DEF Ack, Move
          <6>2. inflight' = [inflight EXCEPT ![w] = <<>>]
            BY <5>1, <6>1 DEF Ack
          <6> QED
            BY <6>2 DEF IInv, TypeOK
        <5>2. CASE LinkThrows(w)
          BY <5>2 DEF IInv, WorkerInv, WorkerOf, LinkThrows
        <5> QED
          BY <1>7, <5>1, <5>2
      <4> QED
        BY <4>1, <4>2 DEF Has, Held
    <3>2. Outstanding' = Outstanding \ {env[w]}
      BY <1>b, <1>c, <2>1, <2>2, <3>1, OutstandingWithout
    <3>3. Async!Settle({env[w]})
      BY <1>a, <2>1, <2>2, <3>2, AsyncOutstanding DEF Fates
    <3> QED
      BY <1>c, <2>2, <3>3, SettleIsNext
  <2>3. CASE at[w] # "acking"
    <3>1. LinkThrows(w) /\ at[w] = "receiving"
      BY <1>7, <2>3 DEF Ack, LinkThrows, Move
    <3>2. UNCHANGED <<inflight, env>>
      BY <3>1 DEF IInv, TypeOK, WorkerInv, WorkerOf, LinkThrows
    <3> QED
      BY <1>a, <2>1, <3>2, OutstandingSame
  <2> QED
    BY <2>2, <2>3
<1> QED
  BY <1>1, <1>2, <1>3, <1>4, <1>5, <1>6, <1>7

LEMMA RestartIsAsync ==
  ASSUME IInv, Fates, Exclusive, BrokerRestart \/ ProcessRestart
  PROVE  Async!Next
<1>1. ASSUME NEW w \in Workers, env[w] # 0, env[w] \notin InFlight
      PROVE  env[w] \in lost
  <2>1. w \notin linked
    BY <1>1, HeldIs DEF IInv, WorkerInv, WorkerOf, InFlight
  <2> QED
    BY <1>1, <2>1 DEF Fates
<1>2. CASE BrokerRestart
  <2>1. lost' = lost \cup Outstanding
    BY <1>1, <1>2 DEF BrokerRestart, Outstanding, InHand
  <2>2. Outstanding' \subseteq Outstanding
    BY <1>2 DEF BrokerRestart, Outstanding, InFlight, InHand, Held
  <2>3. Async!Lose
    BY <1>2, <2>1, <2>2 DEF BrokerRestart, table, Async!Lose, Outstanding
  <2> QED
    BY <2>3 DEF Async!Next
<1>3. CASE ProcessRestart
  <2>1. Outstanding' = queue \cup InFlight
    BY <1>3 DEF ProcessRestart, Requeue, Outstanding, InFlight, InHand, Held
  <2> DEFINE S == Outstanding \ (queue \cup InFlight)
  <2>2. \A i \in S : i \in lost
    BY <1>1 DEF Outstanding, InHand
  <2>3. Outstanding' = Outstanding \ S
    BY <2>1 DEF Outstanding
  <2>4. Async!Settle(S)
    BY <1>3, <2>2, <2>3, AsyncOutstanding DEF ProcessRestart, table
  <2> QED
    BY <2>4, SettleIsNext
<1> QED
  BY <1>2, <1>3

(* The queue and its workers do what the handlers expect of them, whatever *)
(* throws or restarts: every step is one of AsyncStatements, or none.      *)
THEOREM QueueImplementsAsync == Spec => ImplementsAsync
<1>1. Init => Async!Init
  BY DEF Init, Async!Init, InFlight, InHand, Held
<1>2. IInv /\ Fates /\ Exclusive /\ [Next]_vars => [Async!Next]_(Async!vars)
  <2> SUFFICES ASSUME IInv, Fates, Exclusive, [Next]_vars
               PROVE  Async!Next \/ UNCHANGED <<log, Outstanding, applied, rows, lost>>
    BY DEF Async!vars, Outstanding
  <2>1. ASSUME NEW p \in Publishers, TakeIndex(p) \/ LockChannel(p) \/ PublishThrows(p)
        PROVE  UNCHANGED <<log, Outstanding, applied, rows, lost>>
    BY <2>1, OutstandingSame DEF TakeIndex, LockChannel, PublishThrows, broker, working, table
  <2>2. CASE Shutdown \/ UNCHANGED vars
    BY <2>2, OutstandingSame DEF Shutdown, vars, broker, working, table
  <2> QED
    BY <2>1, <2>2, PublishIsSubmit, WorkerIsAsync, RestartIsAsync DEF Next
<1> QED
  BY <1>1, <1>2, InitIInv, NextIInv, InitFates, NextFates, InitExclusive, NextExclusive,
     PTL DEF Spec, ImplementsAsync, Async!Spec

=============================================================================
