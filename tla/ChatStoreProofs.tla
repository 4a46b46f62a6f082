--------------------------- MODULE ChatStoreProofs ---------------------------
(***************************************************************************)
(* Theorems about the conversations of a user, for any set of threads and  *)
(* sessions, any stored rows and any number of requests, faults and        *)
(* executions of a statement.                                              *)
(***************************************************************************)
EXTENDS ChatStore, TLAPS

-----------------------------------------------------------------------------
(* What the proofs add to TypeOK                                           *)

(* The places of a request behind ensureUserDataLoaded, and those inside   *)
(* of an addMessage, where the message has its time stamp.                 *)
Behind == {"body", "add", "push", "insert", "unlist", "publish"}
Holding == {"push", "insert"}

(* A request is about a session of its user.  Behind the load the user is  *)
(* loaded or a load of his failed; a chat works on the AIHelper the map    *)
(* has for its session, unless the session was deleted meanwhile.          *)
PlaceOK(t) ==
  /\ req[t].session \in known \cup {NoSession}
  /\ req[t].kind \in {"history", "delete"} => req[t].session \in known
  /\ req[t].at \in Behind => loaded \/ failed
  /\ Adds(t) =>
       /\ req[t].session \in known
       /\ req[t].helper = chatInformation[req[t].session] \/ req[t].session \in deleted
  /\ req[t].at \in Holding => req[t].message \in 1..stamped
  /\ req[t].at \in {"unlist", "publish"} => req[t].session \in deleted

(* A statement is about a session somebody has seen, a DELETE about one he *)
(* deleted; an INSERT has a message, and only an INSERT has rows, no more  *)
(* than it was executed.                                                   *)
LogOK ==
  \A i \in DOMAIN log :
    /\ log[i].session \in known
    /\ log[i].kind = "delete" => log[i].session \in deleted /\ rows[i] = 0
    /\ log[i].kind = "insert" => message[i] # 0
    /\ rows[i] <= applied[i]

(* So it is with the rows of a result.                                     *)
ResultOK(t) ==
  \A i \in DOMAIN req[t].todo :
    /\ req[t].todo[i] <= applied[i]
    /\ req[t].todo[i] > 0 => log[i].kind = "insert"

IInv == TypeOK /\ LogOK /\ \A t \in Threads : PlaceOK(t) /\ ResultOK(t)

(* No two statements insert the same message, nor does any insert one that *)
(* a thread is still adding; nor are two threads adding the same.  What an *)
(* AIHelper has is published, or its thread is about to.                   *)
NumberInv ==
  /\ \A i, j \in DOMAIN log : message[i] = message[j] /\ message[i] # 0 => i = j
  /\ \A t \in Threads : req[t].at \in Holding =>
       /\ \A i \in DOMAIN log : message[i] # req[t].message
       /\ \A u \in Threads \ {t} : ~ Holds(u, req[t].message)
PublishedInv ==
  \A h \in DOMAIN heap : \A k \in DOMAIN heap[h] :
    \/ \E i \in DOMAIN log : message[i] = heap[h][k]
    \/ \E t \in Threads : At(t, "insert") /\ req[t].message = heap[h][k]

(* The user's list has s, unless it need not.                              *)
Seen(s) == sessionsIds[s] > 0 \/ s \in deleted \cup rowless

(* A load that reads the rows of a user lists all his sessions, those it   *)
(* has not come to included.  A session that is listed without an AIHelper *)
(* was just made by a first message, which is not published yet: hence no  *)
(* row of it can list it again.                                            *)
ListInv ==
  /\ ListedOnce
  /\ \A s \in Sessions :
       sessionsIds[s] > 0 =>
         /\ s \in known
         /\ chatInformation[s] # 0 \/ s \in deleted \/ Inserts(s) = {}
  /\ loaded => failed \/ \A s \in known : Seen(s)
  /\ \A t \in Threads : At(t, "restore") =>
       failed \/ \A s \in known : Seen(s) \/ \E i \in Unread(t) : log[i].session = s

(* What a load has not restored is among the rows it has not read; what is *)
(* about to be published is in its AIHelper, or torn out of it.            *)
Torn == {i \in DOMAIN log : message[i] \in torn}
CacheInv ==
  /\ CacheComplete
  /\ \A t \in Threads : At(t, "restore") =>
       \A s \in Sessions \ deleted : Inserts(s) \subseteq InMemory \cup unseen \cup Torn \cup Unread(t)
  /\ \A t \in Threads : At(t, "insert") =>
       req[t].message \in Range(heap[req[t].helper]) \cup torn

(* Before the first query there is no AIHelper; while its rows are read,   *)
(* no other request is behind the load, and what is restored is of earlier *)
(* rows.  What a thread is about to push may follow all that the AIHelper  *)
(* has, and of two that are about to push, the later one has overlapped    *)
(* the earlier one.                                                        *)
OrderInv ==
  /\ SingleLoadIsFaithful
  /\ queries = 0 => heap = <<>> /\ ~ loaded /\ ~ failed /\ \A t \in Threads : ~ At(t, "restore")
  /\ queries <= 1 => \A t \in Threads : At(t, "restore") =>
       /\ ~ loaded /\ ~ failed
       /\ \A u \in Threads \ {t} : ~ At(u, "restore")
       /\ \A h \in DOMAIN heap : \A j \in DOMAIN heap[h] : \A i \in Unread(t) :
            MayFollow(heap[h][j], message[i])
  /\ queries <= 1 => \A t \in Threads : At(t, "push") =>
       \A j \in DOMAIN heap[req[t].helper] : MayFollow(heap[req[t].helper][j], req[t].message)
  /\ \A t, u \in Threads :
       Adding(t, req[u].helper) /\ At(u, "push") /\ req[t].message < req[u].message
         => <<req[t].message, req[u].message>> \in overlapped

-----------------------------------------------------------------------------
(* What a step does to the requests                                        *)

LEMMA FreeTyped ==
  /\ Free \in RequestSet
  /\ Free.at = "idle" /\ Free.kind = "list" /\ Free.session = NoSession /\ Free.todo = <<>>
  BY DEF Free, RequestSet, Places

Others(t) == \A u \in Threads \ {t} : req'[u] = req[u]

(* Request q is request r at the place l.                                  *)
Moved(q, r, l) ==
  /\ q.at = l /\ q.kind = r.kind /\ q.session = r.session /\ q.helper = r.helper
  /\ q.todo = r.todo

LEMMA GotoEffect ==
  ASSUME TypeOK, NEW t \in Threads, NEW l \in Places, Goto(t, l)
  PROVE  /\ req' \in [Threads -> RequestSet] /\ Moved(req'[t], req[t], l) /\ Others(t)
         /\ req'[t].message = req[t].message
<1>1. req \in [Threads -> RequestSet] /\ req' = [req EXCEPT ![t].at = l]
  BY DEF TypeOK, Goto
<1>2. Moved(req'[t], req[t], l) /\ Others(t) /\ req'[t].message = req[t].message
  BY <1>1 DEF RequestSet, Moved, Others
<1>3. [req[t] EXCEPT !.at = l] \in RequestSet
  BY <1>1 DEF RequestSet
<1> QED
  BY <1>1, <1>2, <1>3

LEMMA FinishEffect ==
  ASSUME TypeOK, NEW t \in Threads, Finish(t)
  PROVE  req' \in [Threads -> RequestSet] /\ req'[t] = Free /\ Others(t)
  BY FreeTyped DEF TypeOK, Finish, Others

LEMMA RequestEffect ==
  ASSUME TypeOK, NEW t \in Threads, Requests(t)
  PROVE  /\ req' \in [Threads -> RequestSet] /\ Others(t)
         /\ req'[t].at = "check" /\ req'[t].todo = <<>>
         /\ req'[t].session \in known \cup {NoSession}
         /\ req'[t].kind \in {"history", "delete"} => req'[t].session \in known
         /\ UNCHANGED <<writes, memory, known, deleted, queries, failed, unseen, rowless, races>>
<1>1. PICK kind \in {"list", "history", "chat", "delete"}, s \in known \cup {NoSession} :
        Request(t, kind, s) /\ (kind \in {"history", "delete"} => s \in known)
  BY DEF Requests
<1>2. DEFINE q == [Free EXCEPT !.at = "check", !.kind = kind, !.session = s]
<1>3. /\ q \in RequestSet /\ q.at = "check" /\ q.kind = kind /\ q.session = s /\ q.todo = <<>>
  BY <1>1, FreeTyped DEF RequestSet, Places, TypeOK
<1>4. req \in [Threads -> RequestSet] /\ req' = [req EXCEPT ![t] = q]
  BY <1>1 DEF Request, TypeOK
<1> HIDE DEF q
<1>5. req' \in [Threads -> RequestSet] /\ req'[t] = q /\ Others(t)
  BY <1>3, <1>4 DEF Others
<1> QED
  BY <1>1, <1>3, <1>5 DEF Request

LEMMA QueryEffect ==
  ASSUME TypeOK, NEW t \in Threads, Query(t)
  PROVE  /\ req' \in [Threads -> RequestSet] /\ Others(t)
         /\ req'[t].at = "restore" /\ req'[t].kind = req[t].kind
         /\ req'[t].session = req[t].session /\ req'[t].todo = rows
<1>1. req \in [Threads -> RequestSet] /\ req' = [req EXCEPT ![t].at = "restore", ![t].todo = rows]
      /\ rows \in Seq(Nat)
  BY DEF Query, TypeOK
<1>2. [req[t] EXCEPT !.at = "restore", !.todo = rows] \in RequestSet
  BY <1>1 DEF RequestSet, Places
<1> QED
  BY <1>1, <1>2 DEF Others, RequestSet

(* Reading a row leaves one less of them.                                  *)
LEMMA RowEffect ==
  ASSUME TypeOK, NEW t \in Threads, NEW i \in NextRows(t), RowRead(t, i)
  PROVE  /\ req' \in [Threads -> RequestSet] /\ Others(t)
         /\ i \in DOMAIN req[t].todo /\ req[t].todo[i] > 0 /\ i \in DOMAIN log
         /\ req'[t].at = req[t].at /\ req'[t].kind = req[t].kind
         /\ req'[t].session = req[t].session /\ req'[t].helper = req[t].helper
         /\ Len(req'[t].todo) = Len(req[t].todo)
         /\ DOMAIN req'[t].todo = DOMAIN req[t].todo
         /\ req'[t].todo[i] = req[t].todo[i] - 1
         /\ \A j \in DOMAIN req[t].todo \ {i} : req'[t].todo[j] = req[t].todo[j]
<1>1. req \in [Threads -> RequestSet] /\ req' = [req EXCEPT ![t].todo[i] = @ - 1]
  BY DEF RowRead, TypeOK
<1>2. i \in DOMAIN req[t].todo /\ req[t].todo[i] > 0
  BY DEF NextRows, Unread
<1> DEFINE d == req[t].todo
           e == [d EXCEPT ![i] = @ - 1]
<1>3. d \in Seq(Nat) /\ Len(d) <= Len(log) /\ log \in Seq(Writes!Statements)
  BY <1>1 DEF RequestSet, TypeOK
<1>4. e \in Seq(Nat) /\ Len(e) = Len(d) /\ DOMAIN e = DOMAIN d /\ e[i] = d[i] - 1
      /\ \A j \in DOMAIN d \ {i} : e[j] = d[j]
  BY <1>2, <1>3
<1>5. i \in DOMAIN log
  BY <1>2, <1>3
<1>6. req' = [req EXCEPT ![t] = [req[t] EXCEPT !.todo = e]]
  BY <1>1 DEF RequestSet
<1> HIDE DEF e
<1>7. [req[t] EXCEPT !.todo = e] \in RequestSet
  BY <1>1, <1>4 DEF RequestSet
<1>8. req' \in [Threads -> RequestSet] /\ Others(t) /\ req'[t] = [req[t] EXCEPT !.todo = e]
  BY <1>1, <1>6, <1>7 DEF Others
<1>9. /\ req'[t].at = req[t].at /\ req'[t].kind = req[t].kind /\ req'[t].todo = e
      /\ req'[t].session = req[t].session /\ req'[t].helper = req[t].helper
  BY <1>1, <1>8 DEF RequestSet
<1> QED
  BY <1>2, <1>4, <1>5, <1>8, <1>9

LEMMA ClockEffect ==
  ASSUME TypeOK, NEW t \in Threads, ReadClock(t)
  PROVE  /\ req' \in [Threads -> RequestSet] /\ Moved(req'[t], req[t], "push") /\ Others(t)
         /\ req'[t].message = stamped + 1
<1>1. /\ req \in [Threads -> RequestSet] /\ stamped + 1 \in Nat
      /\ req' = [req EXCEPT ![t].at = "push", ![t].message = stamped + 1]
  BY DEF ReadClock, TypeOK
<1>2. [req[t] EXCEPT !.at = "push", !.message = stamped + 1] \in RequestSet
  BY <1>1 DEF RequestSet, Places
<1> QED
  BY <1>1, <1>2 DEF Others, Moved, RequestSet

LEMMA AddedEffect ==
  ASSUME TypeOK, NEW t \in Threads, Added(t) \/ Finish(t)
  PROVE  /\ req' \in [Threads -> RequestSet] /\ Others(t)
         /\ req'[t] = Free \/ Moved(req'[t], req[t], "add")
<1>1. CASE Finish(t)
  BY <1>1, FinishEffect
<1>2. CASE req' = [req EXCEPT ![t].at = "add", ![t].message = 0, ![t].asked = TRUE]
  <2>1. req \in [Threads -> RequestSet]
    BY DEF TypeOK
  <2>2. [req[t] EXCEPT !.at = "add", !.message = 0, !.asked = TRUE] \in RequestSet
    BY <2>1 DEF RequestSet, Places
  <2> QED
    BY <1>2, <2>1, <2>2 DEF Others, Moved, RequestSet
<1> QED
  BY <1>1, <1>2 DEF Added

-----------------------------------------------------------------------------
(* What a step does to the statements and to the AIHelpers                 *)

(* One statement more in the log, which inserts message m.                 *)
Recorded(sql, m) ==
  /\ log' \in Seq(Writes!Statements) /\ Len(log') = Len(log) + 1
  /\ log'[Len(log) + 1] = sql
  /\ applied' \in Seq(Nat) /\ Len(applied') = Len(log) + 1
  /\ rows' \in Seq(Nat) /\ Len(rows') = Len(log) + 1
  /\ rows'[Len(log) + 1] = 0 /\ applied'[Len(log) + 1] = 0
  /\ \A i \in DOMAIN log : log'[i] = log[i] /\ applied'[i] = applied[i] /\ rows'[i] = rows[i]
  /\ outstanding' \subseteq 1..Len(log) + 1
  /\ stamped' = stamped /\ message' \in Seq(0..stamped) /\ Len(message') = Len(log) + 1
  /\ message'[Len(log) + 1] = m /\ \A i \in DOMAIN log : message'[i] = message[i]

LEMMA RecordEffect ==
  ASSUME TypeOK, NEW sql \in Writes!Statements, NEW m \in 0..stamped, Inserting(m),
         Writes!Submit(sql) \/ Writes!SubmitToNobody(sql)
  PROVE  Recorded(sql, m)
<1>1. /\ log \in Seq(Writes!Statements) /\ outstanding \subseteq DOMAIN log
      /\ applied \in Seq(Nat) /\ Len(applied) = Len(log)
      /\ rows \in Seq(Nat) /\ Len(rows) = Len(log)
      /\ message \in Seq(0..stamped) /\ Len(message) = Len(log)
  BY DEF TypeOK
<1>2. /\ log' = Append(log, sql) /\ applied' = Append(applied, 0) /\ rows' = Append(rows, 0)
      /\ outstanding' \subseteq outstanding \cup {Len(log) + 1}
  BY DEF Writes!Submit, Writes!SubmitToNobody, Writes!Record
<1>3. outstanding' \subseteq 1..Len(log) + 1
  BY <1>1, <1>2
<1>4. /\ stamped' = stamped /\ message' \in Seq(0..stamped) /\ Len(message') = Len(log) + 1
      /\ message'[Len(log) + 1] = m /\ \A i \in DOMAIN log : message'[i] = message[i]
  BY <1>1 DEF Inserting
<1> QED
  BY <1>1, <1>2, <1>3, <1>4 DEF Recorded

LEMMA ExecuteEffect ==
  ASSUME TypeOK, NEW i \in outstanding, Execute(i)
  PROVE  /\ log' = log /\ outstanding' \subseteq DOMAIN log
         /\ applied' \in Seq(Nat) /\ Len(applied') = Len(log)
         /\ rows' \in Seq(Nat) /\ Len(rows') = Len(log)
         /\ \A j \in DOMAIN log : /\ applied[j] <= applied'[j]
                                  /\ rows[j] <= applied[j] => rows'[j] <= applied'[j]
                                  /\ log[j].kind # "insert" /\ rows[j] = 0 => rows'[j] = 0
<1>1. /\ log \in Seq(Writes!Statements) /\ outstanding \subseteq DOMAIN log
      /\ applied \in Seq(Nat) /\ Len(applied) = Len(log)
      /\ rows \in Seq(Nat) /\ Len(rows) = Len(log)
  BY DEF TypeOK
<1>2. /\ applied' = [applied EXCEPT ![i] = @ + 1] /\ rows' = Writes!RowsAfter(i)
      /\ outstanding' \subseteq outstanding /\ log' = log
  BY DEF Execute, Writes!Apply
<1>3. /\ applied' \in Seq(Nat) /\ Len(applied') = Len(log)
      /\ applied'[i] = applied[i] + 1
      /\ \A j \in DOMAIN log \ {i} : applied'[j] = applied[j]
  BY <1>1, <1>2
<1>4. CASE log[i].kind = "insert"
  <2>1. rows' = [rows EXCEPT ![i] = @ + 1]
    BY <1>2, <1>4 DEF Writes!RowsAfter
  <2>2. rows' \in Seq(Nat) /\ Len(rows') = Len(log) /\ rows'[i] = rows[i] + 1
        /\ \A j \in DOMAIN log \ {i} : rows'[j] = rows[j]
    BY <1>1, <2>1
  <2>3. ASSUME NEW j \in DOMAIN log
        PROVE  /\ applied[j] <= applied'[j] /\ (rows[j] <= applied[j] => rows'[j] <= applied'[j])
               /\ log[j].kind # "insert" /\ rows[j] = 0 => rows'[j] = 0
    <3>1. applied[j] \in Nat /\ rows[j] \in Nat
      BY <1>1
    <3>2. CASE j = i
      BY <1>3, <1>4, <2>2, <3>1, <3>2
    <3>3. CASE j # i
      BY <1>3, <2>2, <3>1, <3>3
    <3> QED
      BY <3>2, <3>3
  <2> QED
    BY <1>1, <1>2, <1>3, <2>2, <2>3
<1>5. CASE log[i].kind # "insert"
  <2>1. rows' = [j \in DOMAIN rows |-> IF log[j].session = log[i].session THEN 0 ELSE rows[j]]
    BY <1>2, <1>5 DEF Writes!RowsAfter
  <2>2. DOMAIN rows = 1..Len(log) /\ Len(log) \in Nat /\ \A j \in DOMAIN rows : rows[j] \in Nat
    BY <1>1
  <2>3. rows' = [j \in 1..Len(log) |-> rows'[j]] /\ \A j \in 1..Len(log) : rows'[j] \in Nat
    BY <2>1, <2>2
  <2>4. rows' \in Seq(Nat) /\ Len(rows') = Len(log)
    BY <2>2, <2>3
  <2>5. ASSUME NEW j \in DOMAIN log
        PROVE  /\ applied[j] <= applied'[j] /\ (rows[j] <= applied[j] => rows'[j] <= applied'[j])
               /\ log[j].kind # "insert" /\ rows[j] = 0 => rows'[j] = 0
    <3>1. j \in DOMAIN rows /\ applied[j] \in Nat /\ rows[j] \in Nat
      BY <1>1
    <3>2. applied'[j] = applied[j] \/ applied'[j] = applied[j] + 1
      BY <1>3
    <3>3. rows'[j] = 0 \/ rows'[j] = rows[j]
      BY <2>1, <3>1
    <3> QED
      BY <3>1, <3>2, <3>3
  <2> QED
    BY <1>1, <1>2, <1>3, <2>4, <2>5
<1> QED
  BY <1>4, <1>5

(* The messages AIHelper h had, none if it is new.                         *)
Before(h) == IF h \in DOMAIN heap THEN heap[h] ELSE <<>>

(* AIHelper h gets message m, or a race tears it out.                      *)
Gets(h, m) ==
  /\ Len(heap) <= Len(heap') /\ h \in DOMAIN heap'
  /\ \A g \in DOMAIN heap' \ {h} : heap'[g] = Before(g)
  /\ \/ heap'[h] = Append(Before(h), m) /\ torn' = torn
     \/ heap'[h] = Before(h) /\ torn' = torn \cup {m}

LEMMA PushEffect ==
  ASSUME TypeOK, NEW t \in Threads, req[t].message \in 1..stamped, PushBack(t)
  PROVE  /\ req[t].helper \in DOMAIN heap
         /\ heap' \in Seq(Seq(1..stamped))
         /\ Gets(req[t].helper, req[t].message)
<1> DEFINE h == req[t].helper
           m == req[t].message
<1>1. h \in DOMAIN heap /\ heap \in Seq(Seq(1..stamped))
  BY DEF TypeOK, Adds, PushBack, At
<1>2. CASE heap' = [heap EXCEPT ![h] = Append(@, m)] /\ torn' = torn
  <2>1. Append(heap[h], m) \in Seq(1..stamped)
    BY <1>1
  <2> HIDE DEF m
  <2>2. heap' \in Seq(Seq(1..stamped)) /\ Gets(h, m)
    BY <1>1, <1>2, <2>1 DEF Gets, Before
  <2> QED
    BY <1>1, <2>2 DEF m
<1>3. CASE heap' = heap /\ torn' = torn \cup {m}
  BY <1>1, <1>3 DEF Gets, Before
<1> QED
  BY <1>2, <1>3 DEF PushBack, LosesRace

(* What no step undoes as long as the process runs.                        *)
Grows ==
  /\ Len(log) <= Len(log')
  /\ \A i \in DOMAIN log : log'[i] = log[i] /\ message'[i] = message[i] /\ applied[i] <= applied'[i]
  /\ stamped <= stamped' /\ Len(heap) <= Len(heap')
  /\ known \subseteq known' /\ deleted \subseteq deleted'
  /\ (loaded => loaded') /\ (failed => failed')
  /\ \A s \in Sessions :
       chatInformation[s] = 0 \/ chatInformation'[s] = chatInformation[s] \/ s \in deleted'

(* What a session has as an AIHelper behind FindOrMake.                    *)
LEMMA FindOrMakeEffect ==
  ASSUME TypeOK, NEW s \in Sessions, FindOrMake(s)
  PROVE  /\ heap' \in Seq(Seq(1..stamped)) /\ Len(heap) <= Len(heap')
         /\ chatInformation' \in [Sessions -> 0..Len(heap')]
         /\ chatInformation'[s] \in DOMAIN heap'
         /\ \A r \in Sessions : chatInformation[r] = 0 \/ chatInformation'[r] = chatInformation[r]
         /\ \A r \in Sessions : r # s => chatInformation'[r] = chatInformation[r]
         /\ \A h \in DOMAIN heap' : heap'[h] = Before(h)
<1>1. heap \in Seq(Seq(1..stamped)) /\ chatInformation \in [Sessions -> 0..Len(heap)]
  BY DEF TypeOK
<1>2. CASE chatInformation[s] # 0
  BY <1>1, <1>2 DEF FindOrMake, Before
<1>3. CASE chatInformation[s] = 0
  <2>1. heap' = Append(heap, <<>>)
        /\ chatInformation' = [chatInformation EXCEPT ![s] = Len(heap) + 1]
    BY <1>3 DEF FindOrMake
  <2>2. heap' \in Seq(Seq(1..stamped)) /\ Len(heap') = Len(heap) + 1
        /\ (\A h \in DOMAIN heap : heap'[h] = heap[h]) /\ heap'[Len(heap) + 1] = <<>>
    BY <1>1, <2>1
  <2>3. \A h \in DOMAIN heap' \ DOMAIN heap : h = Len(heap) + 1
    BY <1>1, <2>2
  <2>4. Len(heap) \in Nat /\ Len(heap) + 1 \in DOMAIN heap'
    BY <1>1, <2>2
  <2>5. chatInformation' \in [Sessions -> 0..Len(heap')]
    <3>1. 0..Len(heap) \subseteq 0..Len(heap') /\ Len(heap) + 1 \in 0..Len(heap')
      BY <2>2, <2>4
    <3> QED
      BY <1>1, <2>1, <3>1
  <2> QED
    BY <1>1, <1>3, <2>1, <2>2, <2>3, <2>4, <2>5 DEF Before
<1> QED
  BY <1>2, <1>3

-----------------------------------------------------------------------------
(* Type correctness                                                        *)

StoreOK ==
  /\ log \in Seq(Writes!Statements) /\ outstanding \subseteq DOMAIN log
  /\ applied \in Seq(Nat) /\ Len(applied) = Len(log)
  /\ rows \in Seq(Nat) /\ Len(rows) = Len(log)
  /\ stamped \in Nat /\ message \in Seq(0..stamped) /\ Len(message) = Len(log)

MemoryOK ==
  /\ heap \in Seq(Seq(1..stamped))
  /\ chatInformation \in [Sessions -> 0..Len(heap)]
  /\ sessionsIds \in [Sessions -> Nat]
  /\ loaded \in BOOLEAN /\ failed \in BOOLEAN /\ queries \in Nat
  /\ known \subseteq Sessions /\ deleted \subseteq known

ReqOK(t) ==
  /\ Adds(t) => req[t].helper \in DOMAIN heap
  /\ Len(req[t].todo) <= Len(log)
  /\ ResultOK(t)
  /\ PlaceOK(t)

LEMMA Parts ==
  IInv <=> /\ StoreOK /\ MemoryOK /\ LogOK
           /\ req \in [Threads -> RequestSet] /\ \A t \in Threads : ReqOK(t)
<1>1. TypeOK <=> /\ StoreOK /\ MemoryOK /\ req \in [Threads -> RequestSet]
                 /\ \A t \in Threads : /\ Adds(t) => req[t].helper \in DOMAIN heap
                                       /\ Len(req[t].todo) <= Len(log)
  BY DEF TypeOK, StoreOK, MemoryOK
<1> QED
  BY <1>1 DEF IInv, ReqOK

(* A result has only rows of statements that are in the log.               *)
LEMMA UnreadInLog ==
  ASSUME IInv, NEW t \in Threads, NEW i \in Unread(t)
  PROVE  i \in DOMAIN log
<1>1. /\ req[t].todo \in Seq(Nat) /\ Len(req[t].todo) <= Len(log)
      /\ log \in Seq(Writes!Statements)
  BY DEF IInv, TypeOK, RequestSet
<1> QED
  BY <1>1 DEF Unread

LEMMA StepKeepsIInv ==
  ASSUME IInv, NEW t \in Threads, Others(t), Grows,
         StoreOK', MemoryOK', LogOK', req' \in [Threads -> RequestSet], ReqOK(t)'
  PROVE  IInv'
<1>1. ASSUME NEW u \in Threads \ {t} PROVE ReqOK(u)'
  <2>1. req'[u] = req[u] /\ ReqOK(u) /\ req[u] \in RequestSet
    BY Parts DEF Others
  <2>2. StoreOK /\ MemoryOK
    BY Parts
  <2>3. Len(req[u].todo) <= Len(log')
    BY <2>1, <2>2 DEF Grows, StoreOK, RequestSet, ReqOK
  <2>4. ResultOK(u)'
    <3> SUFFICES ASSUME NEW i \in DOMAIN req[u].todo
                 PROVE  req[u].todo[i] <= applied'[i] /\ (req[u].todo[i] > 0 => log'[i].kind = "insert")
      BY <2>1 DEF ResultOK
    <3>1. req[u].todo[i] <= applied[i] /\ (req[u].todo[i] > 0 => log[i].kind = "insert")
      BY <2>1 DEF ReqOK, ResultOK
    <3>2. i \in DOMAIN log /\ req[u].todo[i] \in Nat
      <4>1. req[u].todo \in Seq(Nat) /\ Len(req[u].todo) <= Len(log) /\ Len(log) \in Nat
            /\ log \in Seq(Writes!Statements)
        BY <2>1, <2>2 DEF StoreOK, RequestSet, ReqOK
      <4> QED
        BY <4>1
    <3>3. applied[i] \in Nat /\ applied'[i] \in Nat
      <4>1. /\ log \in Seq(Writes!Statements) /\ log' \in Seq(Writes!Statements)
            /\ Len(log) <= Len(log')
            /\ applied \in Seq(Nat) /\ Len(applied) = Len(log)
            /\ applied' \in Seq(Nat) /\ Len(applied') = Len(log')
        BY <2>2 DEF StoreOK, Grows
      <4>2. i \in DOMAIN applied /\ i \in DOMAIN applied'
        BY <3>2, <4>1
      <4> QED
        BY <4>1, <4>2
    <3>4. applied[i] <= applied'[i] /\ log'[i] = log[i]
      BY <3>2 DEF Grows
    <3> QED
      BY <3>1, <3>2, <3>3, <3>4
  <2>5. Adds(u)' => Adds(u) /\ req[u].helper \in DOMAIN heap'
    <3>1. DOMAIN heap \subseteq DOMAIN heap'
      BY <2>2 DEF MemoryOK, Grows
    <3> QED
      BY <2>1, <3>1 DEF Adds, ReqOK
  <2>6. PlaceOK(u)'
    <3>1. ASSUME Adds(u)
          PROVE  \/ req[u].helper = chatInformation'[req[u].session]
                 \/ req[u].session \in deleted'
      <4>1. req[u].helper \in DOMAIN heap /\ req[u].session \in known
        BY <2>1, <3>1 DEF PlaceOK, ReqOK
      <4>2. req[u].helper # 0 /\ req[u].session \in Sessions
        BY <2>2, <4>1 DEF MemoryOK
      <4> QED
        BY <2>1, <3>1, <4>2 DEF PlaceOK, Grows, ReqOK
    <3>2. req[u].at \in Holding => req[u].message \in 1..stamped'
      BY <2>1, <2>2 DEF ReqOK, PlaceOK, Grows, StoreOK
    <3> QED
      BY <2>1, <2>5, <3>1, <3>2 DEF PlaceOK, Grows, ReqOK
  <2> QED
    BY <2>1, <2>3, <2>4, <2>5, <2>6 DEF ReqOK
<1>2. \A u \in Threads : ReqOK(u)'
  BY <1>1
<1>3. TypeOK'
  BY <1>2 DEF TypeOK, StoreOK, MemoryOK, ReqOK
<1> QED
  BY <1>2, <1>3 DEF IInv, ReqOK

(* A step that leaves statements and AIHelpers alone.                      *)
LEMMA QuietKeepsIInv ==
  ASSUME IInv, NEW t \in Threads, Others(t), req' \in [Threads -> RequestSet],
         UNCHANGED <<writes, chatInformation, heap, known, deleted>>,
         sessionsIds' \in [Sessions -> Nat],
         loaded' \in BOOLEAN, failed' \in BOOLEAN, queries' \in Nat,
         loaded => loaded', failed => failed',
         ReqOK(t)'
  PROVE  IInv'
<1>1. StoreOK' /\ LogOK'
  BY Parts DEF StoreOK, LogOK, writes
<1>2. MemoryOK'
  BY Parts DEF MemoryOK, writes
<1>3. Grows
  BY Parts DEF Grows, MemoryOK, StoreOK, writes
<1> QED
  BY <1>1, <1>2, <1>3, StepKeepsIInv

LEMMA InitIInv == Init => IInv
<1> SUFFICES ASSUME Init PROVE IInv
  OBVIOUS
<1>1. Stored \in Seq(Sessions) /\ MaxApply \in Nat
  BY ChatStoreAssumption
<1> DEFINE n == Len(Stored)
<1>2. n \in Nat /\ DOMAIN Stored = 1..n /\ \A i \in 1..n : Stored[i] \in Sessions
  BY <1>1
<1>3. /\ log = [i \in 1..n |-> [kind |-> "insert", session |-> Stored[i]]]
      /\ applied \in [1..n -> 1..MaxApply] /\ rows = applied
      /\ message = [i \in 1..n |-> i] /\ stamped = n
  BY <1>2 DEF Init
<1> HIDE DEF n
<1>4. StoreOK
  <2>1. log \in Seq(Writes!Statements) /\ Len(log) = n
    BY <1>2, <1>3 DEF Writes!Statements
  <2>2. applied \in Seq(Nat) /\ Len(applied) = n
    <3>1. applied = [i \in 1..n |-> applied[i]] /\ \A i \in 1..n : applied[i] \in Nat
      BY <1>1, <1>3
    <3> QED
      BY <1>2, <3>1
  <2>3. message \in Seq(0..stamped) /\ Len(message) = n
    BY <1>2, <1>3
  <2> QED
    BY <1>2, <1>3, <2>1, <2>2, <2>3 DEF Init, StoreOK
<1>5. MemoryOK
  <2>1. known \subseteq Sessions /\ deleted \subseteq known
    BY <1>2 DEF Init, Range
  <2>2. heap \in Seq(Seq(1..stamped)) /\ Len(heap) = 0
    BY DEF Init
  <2>3. chatInformation \in [Sessions -> 0..Len(heap)] /\ sessionsIds \in [Sessions -> Nat]
    BY <2>2 DEF Init
  <2> QED
    BY <2>1, <2>2, <2>3 DEF Init, MemoryOK
<1>6. LogOK
  <2> SUFFICES ASSUME NEW i \in 1..n
               PROVE  /\ log[i].session \in known /\ log[i].kind = "insert"
                      /\ message[i] # 0 /\ rows[i] <= applied[i]
    BY <1>3 DEF LogOK
  <2>1. log[i].session = Stored[i] /\ log[i].kind = "insert" /\ message[i] # 0
    BY <1>2, <1>3
  <2>2. Stored[i] \in known
    BY <1>2 DEF Init, Range
  <2>3. applied[i] \in 1..MaxApply
    BY <1>3
  <2> QED
    BY <1>1, <1>3, <2>1, <2>2, <2>3
<1>7. req \in [Threads -> RequestSet] /\ \A t \in Threads : req[t] = Free
  BY FreeTyped DEF Init
<1>8. \A t \in Threads : ReqOK(t)
  BY <1>4, <1>7, FreeTyped DEF ReqOK, ResultOK, PlaceOK, StoreOK, Behind, Holding, Adds
<1> QED
  BY <1>4, <1>5, <1>6, <1>7, <1>8, Parts

(* Who has finished is idle.                                               *)
LEMMA FinishedOK ==
  ASSUME NEW t \in Threads, req'[t] = Free, StoreOK'
  PROVE  ReqOK(t)'
  BY FreeTyped DEF ReqOK, ResultOK, PlaceOK, StoreOK, Behind, Holding, Adds

LEMMA FinishKeepsIInv ==
  ASSUME IInv, NEW t \in Threads, Finish(t),
         UNCHANGED <<writes, memory, known, deleted, queries, failed>>
  PROVE  IInv'
<1>1. TypeOK /\ StoreOK /\ MemoryOK
  BY Parts DEF IInv
<1>2. req' \in [Threads -> RequestSet] /\ req'[t] = Free /\ Others(t)
  BY <1>1, FinishEffect
<1>3. StoreOK'
  BY <1>1 DEF StoreOK, writes
<1>4. ReqOK(t)'
  BY <1>2, <1>3, FinishedOK
<1> QED
  BY <1>1, <1>2, <1>4, QuietKeepsIInv DEF MemoryOK, memory

(* The request stays as it is but for its place.                           *)
LEMMA MoveKeepsReqOK ==
  ASSUME IInv, NEW t \in Threads, NEW l \in Places \ {"add", "push", "insert"},
         Moved(req'[t], req[t], l),
         UNCHANGED <<writes, known>>, deleted \subseteq deleted',
         l \in Behind => loaded' \/ failed',
         l \in {"unlist", "publish"} => req[t].session \in deleted'
  PROVE  ReqOK(t)'
<1>1. ReqOK(t)
  BY Parts
<1> QED
  BY <1>1 DEF ReqOK, ResultOK, PlaceOK, Moved, Adds, Holding, writes

LEMMA RowKeepsReqOK ==
  ASSUME IInv, NEW t \in Threads, NEW i \in NextRows(t), RowRead(t, i), At(t, "restore"),
         UNCHANGED <<writes, deleted>>, known \subseteq known'
  PROVE  ReqOK(t)' /\ req' \in [Threads -> RequestSet] /\ Others(t)
<1>1. TypeOK /\ StoreOK /\ ReqOK(t) /\ req[t] \in RequestSet
  BY Parts DEF IInv
<1>2. /\ req' \in [Threads -> RequestSet] /\ Others(t)
      /\ i \in DOMAIN req[t].todo /\ req[t].todo[i] > 0
      /\ req'[t].at = req[t].at /\ req'[t].kind = req[t].kind
      /\ req'[t].session = req[t].session
      /\ Len(req'[t].todo) = Len(req[t].todo)
      /\ DOMAIN req'[t].todo = DOMAIN req[t].todo
      /\ req'[t].todo[i] = req[t].todo[i] - 1
      /\ \A j \in DOMAIN req[t].todo \ {i} : req'[t].todo[j] = req[t].todo[j]
  BY <1>1, RowEffect
<1>3. ResultOK(t)'
  <2>1. SUFFICES ASSUME NEW j \in DOMAIN req[t].todo
                 PROVE  /\ req'[t].todo[j] <= applied[j]
                        /\ req'[t].todo[j] > 0 => log[j].kind = "insert"
    BY <1>2 DEF ResultOK, writes
  <2>2. req[t].todo[j] <= applied[j] /\ req[t].todo[j] \in Nat /\ applied[j] \in Nat
    <3>1. /\ req[t].todo \in Seq(Nat) /\ Len(req[t].todo) <= Len(applied) /\ applied \in Seq(Nat)
          /\ Len(applied) \in Nat
      BY <1>1 DEF ReqOK, StoreOK, RequestSet
    <3>2. j \in DOMAIN applied
      BY <3>1
    <3>3. req[t].todo[j] <= applied[j]
      BY <1>1 DEF ReqOK, ResultOK
    <3> QED
      BY <3>1, <3>2, <3>3
  <2>3. req[t].todo[j] > 0 => log[j].kind = "insert"
    BY <1>1 DEF ReqOK, ResultOK
  <2>4. req'[t].todo[j] <= req[t].todo[j] /\ req'[t].todo[j] \in Int
    BY <1>2, <2>2
  <2> QED
    BY <2>2, <2>3, <2>4
<1> QED
  BY <1>1, <1>2, <1>3 DEF ReqOK, PlaceOK, At, Behind, Holding, Adds, writes

(* The load: the table is read, then the rows one by one.                  *)
LEMMA LoadKeepsIInv ==
  ASSUME IInv, NEW t \in Threads,
         \/ CheckLoaded(t) \/ Query(t) \/ QueryThrows(t)
         \/ SkipRow(t) \/ NextThrows(t) \/ MarkLoaded(t)
  PROVE  IInv'
<1>1. TypeOK /\ StoreOK /\ MemoryOK /\ LogOK /\ ReqOK(t) /\ req \in [Threads -> RequestSet]
  BY Parts DEF IInv
<1>2. CASE CheckLoaded(t)
  <2>1. PICK l \in {"body", "query"} : Goto(t, l) /\ (l = "body" => loaded)
    BY <1>2 DEF CheckLoaded
  <2>2. l \in Places
    BY DEF Places
  <2>3. req' \in [Threads -> RequestSet] /\ Moved(req'[t], req[t], l) /\ Others(t)
    BY <1>1, <2>1, <2>2, GotoEffect
  <2>4. UNCHANGED <<writes, memory, known, deleted, queries, failed>>
    BY <1>2 DEF CheckLoaded, history, unraced, races
  <2>5. ReqOK(t)'
    BY <2>1, <2>2, <2>3, <2>4, MoveKeepsReqOK DEF memory, Behind
  <2> QED
    BY <1>1, <2>3, <2>4, <2>5, QuietKeepsIInv DEF memory, MemoryOK
<1>3. CASE Query(t)
  <2>1. /\ req' \in [Threads -> RequestSet] /\ Others(t)
        /\ req'[t].at = "restore" /\ req'[t].kind = req[t].kind
        /\ req'[t].session = req[t].session /\ req'[t].todo = rows
    BY <1>1, <1>3, QueryEffect
  <2>2. UNCHANGED <<writes, memory, known, deleted, failed>> /\ queries' = queries + 1
    BY <1>3 DEF Query
  <2>3. ReqOK(t)'
    <3>1. Len(rows) <= Len(log) /\ DOMAIN rows = DOMAIN log
      BY <1>1 DEF StoreOK
    <3>2. \A i \in DOMAIN rows : rows[i] <= applied[i] /\ (rows[i] > 0 => log[i].kind = "insert")
      <4> SUFFICES ASSUME NEW i \in DOMAIN log
                   PROVE  rows[i] <= applied[i] /\ (rows[i] > 0 => log[i].kind = "insert")
        BY <3>1
      <4>1. log[i] \in Writes!Statements
        BY <1>1 DEF StoreOK
      <4>2. log[i].kind \in {"insert", "delete"}
        BY <4>1 DEF Writes!Statements
      <4> QED
        BY <1>1, <4>2 DEF LogOK
    <3> QED
      BY <1>1, <2>1, <2>2, <3>1, <3>2 DEF ReqOK, ResultOK, PlaceOK, Behind, Holding, Adds, writes
  <2> QED
    BY <1>1, <2>1, <2>2, <2>3, QuietKeepsIInv DEF memory, MemoryOK
<1>4. CASE QueryThrows(t)
  <2>1. Goto(t, "body") /\ "body" \in Places
    BY <1>4 DEF QueryThrows, Places
  <2>2. req' \in [Threads -> RequestSet] /\ Moved(req'[t], req[t], "body") /\ Others(t)
    BY <1>1, <2>1, GotoEffect
  <2>3. UNCHANGED <<writes, memory, known, deleted>> /\ failed' = TRUE /\ queries' = queries + 1
    BY <1>4 DEF QueryThrows
  <2>4. ReqOK(t)'
    BY <2>1, <2>2, <2>3, MoveKeepsReqOK
  <2> QED
    BY <1>1, <2>2, <2>3, <2>4, QuietKeepsIInv DEF memory, MemoryOK
<1>5. CASE SkipRow(t)
  <2>1. PICK i \in NextRows(t) : RowRead(t, i)
    BY <1>5 DEF SkipRow
  <2>2. UNCHANGED <<writes, memory, known, deleted, queries, failed>>
    BY <1>5 DEF SkipRow
  <2>3. ReqOK(t)' /\ req' \in [Threads -> RequestSet] /\ Others(t)
    BY <1>5, <2>1, <2>2, RowKeepsReqOK DEF SkipRow
  <2> QED
    BY <1>1, <2>2, <2>3, QuietKeepsIInv DEF memory, MemoryOK
<1>6. CASE NextThrows(t)
  BY <1>6, FinishKeepsIInv DEF NextThrows
<1>7. CASE MarkLoaded(t)
  <2>1. req' = [req EXCEPT ![t].at = "body", ![t].todo = <<>>]
    BY <1>7 DEF MarkLoaded
  <2>2. [req[t] EXCEPT !.at = "body", !.todo = <<>>] \in RequestSet
    <3>1. "body" \in Places /\ <<>> \in Seq(Nat) /\ req[t] \in RequestSet
      BY <1>1 DEF Places
    <3> QED
      BY <3>1 DEF RequestSet
  <2>3. /\ req' \in [Threads -> RequestSet] /\ Others(t)
        /\ req'[t].at = "body" /\ req'[t].kind = req[t].kind
        /\ req'[t].session = req[t].session /\ req'[t].todo = <<>>
    BY <1>1, <2>1, <2>2 DEF RequestSet, Others
  <2>4. UNCHANGED <<writes, chatInformation, heap, sessionsIds, known, deleted, queries, failed>>
        /\ loaded' = TRUE
    BY <1>7 DEF MarkLoaded, history, unraced, races
  <2>5. ReqOK(t)'
    BY <1>1, <2>3, <2>4 DEF ReqOK, ResultOK, PlaceOK, Behind, Holding, Adds, StoreOK, writes
  <2> QED
    BY <1>1, <2>3, <2>4, <2>5, QuietKeepsIInv DEF MemoryOK
<1> QED
  BY <1>2, <1>3, <1>4, <1>5, <1>6, <1>7

(* A row that is not read yet is of an INSERT, with its message.           *)
LEMMA UnreadIsInsert ==
  ASSUME IInv, NEW t \in Threads, NEW i \in Unread(t)
  PROVE  i \in Inserts(log[i].session) /\ message[i] \in 1..stamped
<1>1. StoreOK /\ LogOK /\ ReqOK(t) /\ i \in DOMAIN log
  BY Parts, UnreadInLog
<1>2. log[i].kind = "insert"
  BY <1>1 DEF ReqOK, ResultOK, Unread
<1>3. message[i] \in 0..stamped /\ message[i] # 0
  BY <1>1, <1>2 DEF StoreOK, LogOK
<1> QED
  BY <1>1, <1>2, <1>3 DEF Inserts, StoreOK

(* What restoring row i comes to.                                          *)
RowRestored(i) ==
  LET s == log[i].session
  IN /\ i \in DOMAIN log /\ s \in Sessions
     /\ sessionsIds' = [sessionsIds EXCEPT ![s] = IF chatInformation[s] = 0 THEN @ + 1 ELSE @]
     /\ chatInformation' \in [Sessions -> 0..Len(heap')]
     /\ chatInformation'[s] \in DOMAIN heap'
     /\ chatInformation[s] # 0 => chatInformation'[s] = chatInformation[s]
     /\ \A r \in Sessions \ {s} : chatInformation'[r] = chatInformation[r]
     /\ heap' \in Seq(Seq(1..stamped))
     /\ Gets(chatInformation'[s], message[i])
     /\ UNCHANGED writes

LEMMA RestoreEffect ==
  ASSUME IInv, NEW t \in Threads, RestoreRow(t)
  PROVE  \E i \in NextRows(t) : RowRead(t, i) /\ RowRestored(i)
<1>1. TypeOK /\ StoreOK /\ MemoryOK /\ (\A u \in Threads : ReqOK(u))
  BY Parts DEF IInv
<1> DEFINE H(s) == IF chatInformation[s] = 0 THEN Len(heap) + 1 ELSE chatInformation[s]
<1>2. PICK i \in NextRows(t) :
        /\ ListIfNew(log[i].session)
        /\ chatInformation' = [chatInformation EXCEPT ![log[i].session] = H(log[i].session)]
        /\ \/ /\ heap' = IF H(log[i].session) > Len(heap) THEN Append(heap, Restored(<<>>, message[i]))
                         ELSE [heap EXCEPT ![H(log[i].session)] = Restored(@, message[i])]
              /\ UNCHANGED torn
           \/ (\E u \in Threads : Adding(u, H(log[i].session))) /\ LosesRace(message[i])
        /\ RestoreWrites(i)
        /\ RowRead(t, i)
  BY DEF RestoreRow
<1>3. PICK m \in 1..stamped : m = message[i] /\ i \in DOMAIN log
  BY <1>2, UnreadIsInsert, UnreadInLog DEF NextRows
<1> DEFINE s == log[i].session
           h == H(s)
<1>4. s \in Sessions /\ heap \in Seq(Seq(1..stamped))
      /\ chatInformation \in [Sessions -> 0..Len(heap)]
  <2>1. log[i] \in Writes!Statements
    BY <1>1, <1>3 DEF StoreOK
  <2> QED
    BY <1>1, <2>1 DEF MemoryOK, Writes!Statements
<1>5. Len(heap) \in Nat /\ h \in 1..Len(heap) + 1 /\ (h = Len(heap) + 1 <=> chatInformation[s] = 0)
  BY <1>4
<1>6. chatInformation' = [chatInformation EXCEPT ![s] = h]
  BY <1>2
<1>7. sessionsIds' = [sessionsIds EXCEPT ![s] = IF chatInformation[s] = 0 THEN @ + 1 ELSE @]
  BY <1>2 DEF ListIfNew
<1>8. chatInformation[s] # 0 => h = chatInformation[s]
  OBVIOUS
<1>9. \/ heap' = (IF h > Len(heap) THEN Append(heap, <<m>>) ELSE [heap EXCEPT ![h] = Append(@, m)])
         /\ torn' = torn
      \/ heap' = heap /\ torn' = torn \cup {m} /\ \E u \in Threads : Adding(u, h)
  <2> HIDE DEF H
  <2>1. CASE /\ heap' = IF h > Len(heap) THEN Append(heap, Restored(<<>>, m))
                        ELSE [heap EXCEPT ![h] = Restored(@, m)]
             /\ UNCHANGED torn
    BY <2>1 DEF Restored
  <2>2. CASE (\E u \in Threads : Adding(u, h)) /\ LosesRace(m)
    BY <2>2 DEF LosesRace
  <2> QED
    BY <1>2, <1>3, <2>1, <2>2
<1> HIDE DEF h
<1>10. heap' \in Seq(Seq(1..stamped)) /\ Gets(h, m)
  <2>1. CASE heap' = Append(heap, <<m>>) /\ h = Len(heap) + 1 /\ torn' = torn
    <3>1. heap' \in Seq(Seq(1..stamped)) /\ Len(heap') = Len(heap) + 1 /\ heap'[h] = <<m>>
          /\ \A g \in DOMAIN heap : heap'[g] = heap[g]
      BY <1>3, <1>4, <2>1
    <3>2. \A g \in DOMAIN heap' \ {h} : g \in DOMAIN heap
      BY <1>4, <1>5, <2>1, <3>1
    <3>3. h \in DOMAIN heap' /\ h \notin DOMAIN heap /\ Append(<<>>, m) = <<m>>
      BY <1>4, <1>5, <2>1, <3>1
    <3> QED
      BY <1>5, <2>1, <3>1, <3>2, <3>3 DEF Gets, Before
  <2>2. CASE heap' = [heap EXCEPT ![h] = Append(@, m)] /\ h \in DOMAIN heap /\ torn' = torn
    <3>1. Append(heap[h], m) \in Seq(1..stamped)
      BY <1>3, <1>4, <2>2
    <3>2. heap' \in Seq(Seq(1..stamped)) /\ Len(heap') = Len(heap)
      BY <1>4, <2>2, <3>1
    <3> QED
      BY <1>4, <1>5, <2>2, <3>2 DEF Gets, Before
  <2>3. CASE heap' = heap /\ torn' = torn \cup {m} /\ \E u \in Threads : Adding(u, h)
    <3>1. h \in DOMAIN heap
      BY <1>1, <2>3 DEF Adding, Adds, ReqOK, At
    <3> QED
      BY <1>4, <1>5, <2>3, <3>1 DEF Gets, Before
  <2> QED
    BY <1>4, <1>5, <1>9, <2>1, <2>2, <2>3
<1>11. h \in DOMAIN heap' /\ h \in 0..Len(heap') /\ 0..Len(heap) \subseteq 0..Len(heap')
  <2>1. h \in DOMAIN heap' /\ Len(heap') \in Nat /\ DOMAIN heap' = 1..Len(heap') /\ Len(heap) <= Len(heap')
    BY <1>10 DEF Gets
  <2> QED
    BY <1>5, <2>1
<1>12. /\ chatInformation' \in [Sessions -> 0..Len(heap')] /\ chatInformation'[s] = h
       /\ \A r \in Sessions \ {s} : chatInformation'[r] = chatInformation[r]
  BY <1>4, <1>6, <1>11
<1>13. RowRestored(i)
  BY <1>2, <1>3, <1>4, <1>7, <1>8, <1>10, <1>11, <1>12 DEF RowRestored, RestoreWrites
<1> QED
  BY <1>2, <1>13

LEMMA RestoreKeepsIInv ==
  ASSUME IInv, NEW t \in Threads, RestoreRow(t)
  PROVE  IInv' /\ Others(t) /\ Grows
<1>1. TypeOK /\ StoreOK /\ MemoryOK /\ LogOK
  BY Parts DEF IInv
<1>2. PICK i \in NextRows(t) : RowRead(t, i) /\ RowRestored(i)
  BY RestoreEffect
<1>3. UNCHANGED <<writes, loaded, deleted, queries, failed>> /\ At(t, "restore")
      /\ known' = known \cup {s \in Sessions : sessionsIds'[s] > 0}
  BY <1>2 DEF RestoreRow, RowRestored
<1>4. ReqOK(t)' /\ req' \in [Threads -> RequestSet] /\ Others(t)
  BY <1>2, <1>3, RowKeepsReqOK
<1>5. StoreOK' /\ LogOK'
  BY <1>1, <1>3 DEF StoreOK, LogOK, writes
<1>6. MemoryOK'
  BY <1>1, <1>2, <1>3 DEF MemoryOK, RowRestored, writes
<1>7. Grows
  <2>1. \A r \in Sessions : chatInformation[r] = 0 \/ chatInformation'[r] = chatInformation[r]
    BY <1>2 DEF RowRestored
  <2> QED
    <3>1. \A j \in DOMAIN log : applied[j] \in Nat
      BY <1>1 DEF StoreOK
    <3>2. Len(log) \in Nat /\ stamped \in Nat /\ Len(heap) <= Len(heap')
      BY <1>1, <1>2 DEF RowRestored, Gets, StoreOK
    <3> QED
      BY <1>3, <2>1, <3>1, <3>2 DEF Grows, writes
<1> QED
  BY <1>4, <1>5, <1>6, <1>7, StepKeepsIInv

LEMMA SeqMonotone ==
  ASSUME NEW S, NEW T, S \subseteq T
  PROVE  Seq(S) \subseteq Seq(T)
<1> SUFFICES ASSUME NEW q \in Seq(S) PROVE q \in Seq(T)
  OBVIOUS
<1>1. Len(q) \in Nat /\ q = [i \in 1..Len(q) |-> q[i]] /\ \A i \in 1..Len(q) : q[i] \in T
  OBVIOUS
<1> QED
  BY <1>1

(* A message is given its time stamp, or pushed.                           *)
LEMMA ClockKeepsIInv ==
  ASSUME IInv, NEW t \in Threads, ReadClock(t)
  PROVE  /\ IInv' /\ Others(t) /\ Moved(req'[t], req[t], "push") /\ req'[t].message = stamped + 1
         /\ Adds(t) /\ UNCHANGED <<memory, unraced, torn, log, applied, message>>
<1>1. TypeOK /\ StoreOK /\ MemoryOK /\ LogOK /\ ReqOK(t)
  BY Parts DEF IInv
<1>2. /\ req' \in [Threads -> RequestSet] /\ Moved(req'[t], req[t], "push") /\ Others(t)
      /\ req'[t].message = stamped + 1
  BY <1>1, ClockEffect
<1>3. /\ stamped' = stamped + 1 /\ Adds(t)
      /\ UNCHANGED <<log, outstanding, applied, rows, message, memory, unraced, torn>>
  BY DEF ReadClock, At, Adds
<1>4. StoreOK' /\ LogOK'
  <2>1. 0..stamped \subseteq 0..stamped'
    BY <1>1, <1>3 DEF StoreOK
  <2>2. message \in Seq(0..stamped')
    BY <1>1, <2>1, SeqMonotone DEF StoreOK
  <2> QED
    BY <1>1, <1>3, <2>2 DEF StoreOK, LogOK, unraced
<1>5. MemoryOK'
  <2>1. 1..stamped \subseteq 1..stamped'
    BY <1>1, <1>3 DEF StoreOK
  <2>2. Seq(1..stamped) \subseteq Seq(1..stamped')
    BY <2>1, SeqMonotone
  <2>3. heap \in Seq(Seq(1..stamped'))
    BY <1>1, <2>2, SeqMonotone DEF MemoryOK
  <2> QED
    BY <1>1, <1>3, <2>3 DEF MemoryOK, memory, unraced
<1>6. Grows
  <2>1. \A i \in DOMAIN log : applied[i] \in Nat
    BY <1>1 DEF StoreOK
  <2> QED
    BY <1>1, <1>3, <2>1 DEF Grows, StoreOK, MemoryOK, memory, unraced
<1>7. ReqOK(t)'
  BY <1>1, <1>2, <1>3 DEF ReqOK, ResultOK, PlaceOK, Adds, Behind, Holding, Moved, StoreOK, memory,
     unraced
<1> QED
  BY <1>2, <1>3, <1>4, <1>5, <1>6, <1>7, StepKeepsIInv

LEMMA PushKeepsIInv ==
  ASSUME IInv, NEW t \in Threads, PushBack(t)
  PROVE  /\ IInv' /\ Others(t) /\ Moved(req'[t], req[t], "insert")
         /\ req'[t].message = req[t].message /\ At(t, "push")
         /\ req[t].helper \in DOMAIN heap /\ req[t].message \in 1..stamped
         /\ Gets(req[t].helper, req[t].message) /\ heap' \in Seq(Seq(1..stamped))
         /\ UNCHANGED <<writes, chatInformation, sessionsIds, loaded, unraced, overlapped>>
<1>1. TypeOK /\ StoreOK /\ MemoryOK /\ LogOK /\ ReqOK(t)
  BY Parts DEF IInv
<1>2. /\ At(t, "push") /\ Goto(t, "insert")
      /\ UNCHANGED <<writes, chatInformation, sessionsIds, loaded, unraced, overlapped>>
  BY DEF PushBack
<1>3. req[t].message \in 1..stamped
  BY <1>1, <1>2 DEF ReqOK, PlaceOK, At, Holding
<1>4. req[t].helper \in DOMAIN heap /\ Gets(req[t].helper, req[t].message)
      /\ heap' \in Seq(Seq(1..stamped))
  BY <1>1, <1>3, PushEffect
<1>5. /\ req' \in [Threads -> RequestSet] /\ Moved(req'[t], req[t], "insert") /\ Others(t)
      /\ req'[t].message = req[t].message
  BY <1>1, <1>2, GotoEffect DEF Places
<1>6. StoreOK' /\ LogOK'
  BY <1>1, <1>2 DEF StoreOK, LogOK, writes, unraced
<1>7. Len(heap) <= Len(heap') /\ DOMAIN heap \subseteq DOMAIN heap'
      /\ 0..Len(heap) \subseteq 0..Len(heap')
  BY <1>1, <1>4 DEF Gets, MemoryOK
<1>8. MemoryOK'
  BY <1>1, <1>2, <1>4, <1>7 DEF MemoryOK, writes, unraced
<1>9. Grows
  <2>1. \A i \in DOMAIN log : applied[i] \in Nat
    BY <1>1 DEF StoreOK
  <2> QED
    BY <1>1, <1>2, <1>7, <2>1 DEF Grows, StoreOK, writes, unraced
<1>10. ReqOK(t)'
  BY <1>1, <1>2, <1>3, <1>5, <1>7 DEF ReqOK, ResultOK, PlaceOK, Adds, Behind, Holding, Moved, At,
     writes, unraced
<1> QED
  BY <1>2, <1>3, <1>4, <1>5, <1>6, <1>8, <1>9, <1>10, StepKeepsIInv

(* A statement more leaves the log as it has to be.                        *)
LEMMA RecordKeepsStore ==
  ASSUME IInv, NEW sql \in Writes!Statements, NEW m \in 0..stamped, Recorded(sql, m),
         sql.session \in known, sql.kind = "delete" => sql.session \in deleted,
         sql.kind = "insert" => m # 0, UNCHANGED <<known, deleted>>
  PROVE  /\ StoreOK' /\ LogOK' /\ DOMAIN log' = DOMAIN log \cup {Len(log) + 1}
         /\ Len(log) <= Len(log') /\ stamped' = stamped
         /\ \A i \in DOMAIN log :
              log'[i] = log[i] /\ message'[i] = message[i] /\ applied[i] <= applied'[i]
<1>1. StoreOK /\ LogOK
  BY Parts
<1>2. Len(log) \in Nat /\ DOMAIN log = 1..Len(log) /\ DOMAIN log' = 1..Len(log) + 1
  BY <1>1 DEF StoreOK, Recorded
<1>3. StoreOK'
  BY <1>1, <1>2 DEF StoreOK, Recorded
<1>4. ASSUME NEW i \in DOMAIN log
      PROVE  log'[i] = log[i] /\ message'[i] = message[i] /\ applied[i] <= applied'[i]
  <2>1. applied[i] \in Nat
    BY <1>1 DEF StoreOK
  <2> QED
    BY <2>1 DEF Recorded
<1>5. LogOK'
  <2> SUFFICES ASSUME NEW i \in DOMAIN log'
      PROVE  /\ log'[i].session \in known'
             /\ log'[i].kind = "delete" => log'[i].session \in deleted' /\ rows'[i] = 0
             /\ log'[i].kind = "insert" => message'[i] # 0
             /\ rows'[i] <= applied'[i]
    BY DEF LogOK
  <2>1. CASE i \in DOMAIN log
    BY <1>1, <2>1 DEF LogOK, Recorded
  <2>2. CASE i = Len(log) + 1
    BY <2>2 DEF Recorded
  <2> QED
    BY <1>2, <2>1, <2>2
<1> QED
  BY <1>2, <1>3, <1>4, <1>5 DEF Recorded

(* Its INSERT is published, or the publication fails.                      *)
Publishes(t) == PublishInsert(t) \/ PublishInsertThrows(t)

LEMMA InsertKeepsIInv ==
  ASSUME IInv, NEW t \in Threads, Publishes(t)
  PROVE  /\ IInv' /\ At(t, "insert") /\ req[t].session \in known /\ req[t].message \in 1..stamped
         /\ Recorded(Insertion(t), req[t].message)
         /\ DOMAIN log' = DOMAIN log \cup {Len(log) + 1}
         /\ req[t].helper \in DOMAIN heap
         /\ req[t].helper = chatInformation[req[t].session] \/ req[t].session \in deleted
         /\ UNCHANGED <<memory, known, deleted, queries, failed, unseen, rowless, races>>
         /\ Others(t) /\ (req'[t] = Free \/ Moved(req'[t], req[t], "add"))
<1> DEFINE m == req[t].message
<1>1. TypeOK /\ StoreOK /\ MemoryOK /\ ReqOK(t)
  BY Parts DEF IInv
<1>2. At(t, "insert") /\ UNCHANGED <<memory, known, deleted, queries, failed, unseen, rowless, races>>
  BY DEF Publishes, PublishInsert, PublishInsertThrows, history, unraced
<1>3. /\ req[t].session \in known /\ m \in 1..stamped /\ m \in 0..stamped /\ m # 0
      /\ req[t].helper \in DOMAIN heap
      /\ req[t].helper = chatInformation[req[t].session] \/ req[t].session \in deleted
      /\ loaded \/ failed
  BY <1>1, <1>2 DEF ReqOK, PlaceOK, At, Adds, Behind, Holding
<1>4. Insertion(t) \in Writes!Statements /\ Insertion(t).session = req[t].session
      /\ Insertion(t).kind = "insert"
  BY <1>1, <1>3 DEF Writes!Statements, MemoryOK, Insertion
<1>5. Inserting(m) /\ (Writes!Submit(Insertion(t)) \/ Writes!SubmitToNobody(Insertion(t)))
  BY DEF Publishes, PublishInsert, PublishInsertThrows
<1>6. Recorded(Insertion(t), m)
  BY <1>1, <1>3, <1>4, <1>5, RecordEffect
<1>7. /\ StoreOK' /\ LogOK' /\ DOMAIN log' = DOMAIN log \cup {Len(log) + 1}
      /\ Len(log) <= Len(log') /\ stamped' = stamped
      /\ \A i \in DOMAIN log : log'[i] = log[i] /\ message'[i] = message[i] /\ applied[i] <= applied'[i]
  BY <1>2, <1>3, <1>4, <1>6, RecordKeepsStore
<1>8. /\ req' \in [Threads -> RequestSet] /\ Others(t)
      /\ req'[t] = Free \/ Moved(req'[t], req[t], "add")
  <2>1. Added(t) \/ Finish(t)
    BY DEF Publishes, PublishInsert, PublishInsertThrows
  <2> QED
    BY <1>1, <2>1, AddedEffect
<1>9. MemoryOK'
  BY <1>1, <1>2, <1>7 DEF MemoryOK, memory
<1>10. Grows
  BY <1>1, <1>2, <1>7 DEF Grows, memory, MemoryOK, StoreOK
<1>11. ReqOK(t)'
  <2>1. CASE req'[t] = Free
    BY <1>7, <2>1, FinishedOK
  <2>2. CASE Moved(req'[t], req[t], "add")
    <3>1. Len(req[t].todo) <= Len(log') /\ \A i \in DOMAIN req[t].todo : i \in DOMAIN log
      <4>1. req[t].todo \in Seq(Nat) /\ Len(req[t].todo) <= Len(log) /\ log \in Seq(Writes!Statements)
        BY <1>1 DEF ReqOK, StoreOK, TypeOK, RequestSet
      <4>2. Len(log') = Len(log) + 1
        BY <1>6 DEF Recorded
      <4> QED
        BY <4>1, <4>2
    <3>2. \A i \in DOMAIN req[t].todo : req[t].todo[i] <= applied'[i]
                                        /\ (req[t].todo[i] > 0 => log'[i].kind = "insert")
      BY <1>1, <1>6, <3>1 DEF ReqOK, ResultOK, Recorded
    <3> QED
      BY <1>1, <1>2, <1>3, <2>2, <3>1, <3>2
         DEF ReqOK, ResultOK, PlaceOK, Moved, Behind, Holding, Adds, memory
  <2> QED
    BY <1>8, <2>1, <2>2
<1> QED
  BY <1>2, <1>3, <1>6, <1>7, <1>8, <1>9, <1>10, <1>11, StepKeepsIInv

(* The AIHelper of a session is found or made.                             *)
LEMMA HelperKeepsIInv ==
  ASSUME IInv, NEW t \in Threads, History(t) \/ GetHelper(t)
  PROVE  /\ IInv' /\ Others(t)
         /\ req[t].session \in known /\ req[t].at = "body" /\ (loaded \/ failed)
         /\ FindOrMake(req[t].session)
         /\ req'[t].at \in {"idle", "add"} /\ req'[t].todo = IF History(t) THEN <<>> ELSE req[t].todo
<1> DEFINE s == req[t].session
<1>1. TypeOK /\ StoreOK /\ MemoryOK /\ LogOK /\ ReqOK(t) /\ req \in [Threads -> RequestSet]
  BY Parts DEF IInv
<1>2. s \in known /\ s \in Sessions /\ req[t].at = "body" /\ (loaded \/ failed)
  BY <1>1 DEF History, GetHelper, ReqOK, PlaceOK, At, MemoryOK, Behind
<1>3. FindOrMake(s)
  BY DEF History, GetHelper
<1>4. /\ heap' \in Seq(Seq(1..stamped)) /\ Len(heap) <= Len(heap')
      /\ chatInformation' \in [Sessions -> 0..Len(heap')]
      /\ chatInformation'[s] \in DOMAIN heap'
      /\ \A r \in Sessions : chatInformation[r] = 0 \/ chatInformation'[r] = chatInformation[r]
  BY <1>1, <1>2, <1>3, FindOrMakeEffect
<1>5. UNCHANGED <<writes, sessionsIds, loaded, known, deleted, queries, failed>>
  BY DEF History, GetHelper, history, unraced, races
<1>6. StoreOK' /\ LogOK' /\ MemoryOK'
  BY <1>1, <1>4, <1>5 DEF StoreOK, LogOK, MemoryOK, writes
<1>7. Grows
  <2>1. \A i \in DOMAIN log : applied[i] \in Nat
    BY <1>1 DEF StoreOK
  <2>2. Len(log) \in Nat /\ stamped \in Nat
    BY <1>1 DEF StoreOK
  <2> QED
    BY <1>4, <1>5, <2>1, <2>2 DEF Grows, writes
<1>8. CASE History(t)
  <2>1. req' \in [Threads -> RequestSet] /\ req'[t] = Free /\ Others(t)
    BY <1>1, <1>8, FinishEffect DEF History
  <2>2. ReqOK(t)'
    BY <1>6, <2>1, FinishedOK
  <2> QED
    BY <1>2, <1>3, <1>6, <1>7, <1>8, <2>1, <2>2, StepKeepsIInv, FreeTyped
<1>9. CASE GetHelper(t)
  <2>1. req' = [req EXCEPT ![t].at = "add", ![t].helper = chatInformation'[s]]
    BY <1>9 DEF GetHelper
  <2>2. chatInformation'[s] \in Nat
    BY <1>2, <1>4
  <2>3. [req[t] EXCEPT !.at = "add", !.helper = chatInformation'[s]] \in RequestSet
    <3>1. req[t] \in RequestSet /\ "add" \in Places
      BY <1>1 DEF Places
    <3> QED
      BY <2>2, <3>1 DEF RequestSet
  <2>4. /\ req' \in [Threads -> RequestSet] /\ Others(t)
        /\ req'[t].at = "add" /\ req'[t].kind = req[t].kind
        /\ req'[t].session = s /\ req'[t].todo = req[t].todo
        /\ req'[t].helper = chatInformation'[s]
    BY <1>1, <2>1, <2>3 DEF RequestSet, Others
  <2>5. ReqOK(t)'
    BY <1>1, <1>2, <1>4, <1>5, <2>4 DEF ReqOK, ResultOK, PlaceOK, Behind, Holding, Adds, writes
  <2>6. ~ History(t)
    BY <1>9 DEF History, GetHelper
  <2> QED
    BY <1>2, <1>3, <1>6, <1>7, <2>4, <2>5, <2>6, StepKeepsIInv
<1> QED
  BY <1>8, <1>9

LEMMA NewSessionKeepsIInv ==
  ASSUME IInv, NEW t \in Threads, NEW s \in Sessions, ListNewSession(t, s)
  PROVE  IInv' /\ Others(t) /\ req'[t].at = "body"
<1>1. TypeOK /\ StoreOK /\ MemoryOK /\ LogOK /\ ReqOK(t) /\ req \in [Threads -> RequestSet]
  BY Parts DEF IInv
<1>2. UNCHANGED <<writes, chatInformation, heap, loaded, deleted, queries, failed>>
      /\ known' = known \cup {s} /\ sessionsIds' = [sessionsIds EXCEPT ![s] = @ + 1]
      /\ req' = [req EXCEPT ![t].session = s] /\ req[t].at = "body" /\ req[t].kind = "chat"
  BY DEF ListNewSession, At
<1>3. [req[t] EXCEPT !.session = s] \in RequestSet
  BY <1>1 DEF RequestSet
<1>4. /\ req' \in [Threads -> RequestSet] /\ Others(t)
      /\ req'[t].at = "body" /\ req'[t].kind = "chat"
      /\ req'[t].session = s /\ req'[t].todo = req[t].todo
  BY <1>1, <1>2, <1>3 DEF RequestSet, Others
<1>5. StoreOK' /\ LogOK' /\ MemoryOK'
  <2>1. sessionsIds' \in [Sessions -> Nat]
    BY <1>1, <1>2 DEF MemoryOK
  <2>2. StoreOK' /\ LogOK'
    BY <1>1, <1>2 DEF StoreOK, LogOK, writes
  <2> QED
    BY <1>1, <1>2, <2>1, <2>2 DEF MemoryOK, writes
<1>6. Grows
  <2>1. \A i \in DOMAIN log : applied[i] \in Nat
    BY <1>1 DEF StoreOK
  <2>2. Len(log) \in Nat /\ Len(heap) \in Nat /\ stamped \in Nat
    BY <1>1 DEF StoreOK, MemoryOK
  <2> QED
    BY <1>2, <2>1, <2>2 DEF Grows, writes
<1>7. ReqOK(t)'
  BY <1>1, <1>2, <1>4 DEF ReqOK, ResultOK, PlaceOK, Behind, Holding, Adds, writes
<1> QED
  BY <1>4, <1>5, <1>6, <1>7, StepKeepsIInv

LEMMA DeleteKeepsIInv ==
  ASSUME IInv, NEW t \in Threads, EraseHelper(t) \/ Unlist(t) \/ PublishDelete(t)
  PROVE  IInv' /\ Others(t) /\ req'[t].at \in {"unlist", "publish", "idle"}
         /\ (~ EraseHelper(t) => req[t].session \in deleted)
<1>1. TypeOK /\ StoreOK /\ MemoryOK /\ LogOK /\ ReqOK(t) /\ req \in [Threads -> RequestSet]
  BY Parts DEF IInv
<1>2. CASE EraseHelper(t)
  <2>1. /\ chatInformation' = [chatInformation EXCEPT ![req[t].session] = 0]
        /\ deleted' = deleted \cup {req[t].session} /\ Goto(t, "unlist")
        /\ UNCHANGED <<writes, heap, sessionsIds, loaded, known, queries, failed>>
        /\ req[t].session \in known /\ (loaded \/ failed)
    BY <1>1, <1>2 DEF EraseHelper, ReqOK, PlaceOK, At, Behind
  <2>2. req' \in [Threads -> RequestSet] /\ Moved(req'[t], req[t], "unlist") /\ Others(t)
    BY <1>1, <2>1, GotoEffect DEF Places
  <2>3. StoreOK' /\ LogOK' /\ MemoryOK'
    BY <1>1, <2>1 DEF StoreOK, LogOK, MemoryOK, writes
  <2>4. Grows
    <3>1. \A i \in DOMAIN log : applied[i] \in Nat
      BY <1>1 DEF StoreOK
    <3>2. Len(log) \in Nat /\ Len(heap) \in Nat /\ stamped \in Nat
      BY <1>1 DEF StoreOK, MemoryOK
    <3>3. \A r \in Sessions : chatInformation'[r] = chatInformation[r] \/ r \in deleted'
      BY <1>1, <2>1 DEF MemoryOK
    <3> QED
      BY <2>1, <3>1, <3>2, <3>3 DEF Grows, writes
  <2>5. ReqOK(t)'
    BY <1>1, <2>1, <2>2 DEF ReqOK, ResultOK, PlaceOK, Behind, Holding, Adds, Moved, writes
  <2> QED
    BY <1>2, <2>2, <2>3, <2>4, <2>5, StepKeepsIInv DEF Moved
<1>3. CASE Unlist(t)
  <2>1. /\ sessionsIds' = [sessionsIds EXCEPT ![req[t].session] = 0] /\ Goto(t, "publish")
        /\ UNCHANGED <<writes, chatInformation, heap, loaded, known, deleted, queries, failed>>
        /\ req[t].session \in deleted /\ req[t].at = "unlist"
    BY <1>1, <1>3 DEF Unlist, ReqOK, PlaceOK, At, history, unraced, races
  <2>2. req' \in [Threads -> RequestSet] /\ Moved(req'[t], req[t], "publish") /\ Others(t)
    BY <1>1, <2>1, GotoEffect DEF Places
  <2>3. ReqOK(t)'
    BY <1>1, <2>1, <2>2 DEF ReqOK, ResultOK, PlaceOK, Behind, Holding, Adds, Moved, writes
  <2> QED
    BY <1>1, <2>1, <2>2, <2>3, QuietKeepsIInv DEF Moved, MemoryOK
<1>4. CASE PublishDelete(t)
  <2> DEFINE sql == [kind |-> "delete", session |-> req[t].session]
  <2>1. /\ Writes!Submit(sql) /\ Inserting(0) /\ Finish(t)
        /\ UNCHANGED <<memory, known, deleted, queries, failed>>
        /\ req[t].session \in deleted
    BY <1>1, <1>4 DEF PublishDelete, ReqOK, PlaceOK, At, history, unraced, races
  <2>2. sql \in Writes!Statements /\ sql.session \in known /\ 0 \in 0..stamped
    BY <1>1, <2>1 DEF Writes!Statements, MemoryOK, StoreOK
  <2>3. Recorded(sql, 0)
    BY <1>1, <2>1, <2>2, RecordEffect
  <2>4. /\ StoreOK' /\ LogOK' /\ DOMAIN log' = DOMAIN log \cup {Len(log) + 1}
        /\ Len(log) <= Len(log') /\ stamped' = stamped
        /\ \A i \in DOMAIN log :
             log'[i] = log[i] /\ message'[i] = message[i] /\ applied[i] <= applied'[i]
    BY <2>1, <2>2, <2>3, RecordKeepsStore
  <2>5. req' \in [Threads -> RequestSet] /\ req'[t] = Free /\ Others(t)
    BY <1>1, <2>1, FinishEffect
  <2>6. MemoryOK'
    BY <1>1, <2>1, <2>4 DEF MemoryOK, memory
  <2>7. Grows
    BY <1>1, <2>1, <2>4 DEF Grows, memory, MemoryOK, StoreOK
  <2>8. ReqOK(t)'
    BY <2>4, <2>5, FinishedOK
  <2>9. Recorded(sql, 0) /\ DOMAIN log' = DOMAIN log \cup {Len(log) + 1}
    BY <2>3, <2>4
  <2> HIDE DEF sql
  <2> QED
    BY <2>1, <2>4, <2>5, <2>6, <2>7, <2>8, <1>4, StepKeepsIInv, FreeTyped
<1> QED
  BY <1>2, <1>3, <1>4

LEMMA ExecuteKeepsIInv ==
  ASSUME IInv, NEW i \in outstanding, Execute(i)
  PROVE  /\ IInv' /\ UNCHANGED <<log, message, stamped, memory, req, known, deleted, queries,
                                failed, unseen, rowless, races>>
         /\ \A j \in DOMAIN log : applied'[j] \in Nat /\ applied[j] <= applied'[j]
<1>1. TypeOK /\ StoreOK /\ MemoryOK /\ LogOK /\ req \in [Threads -> RequestSet]
      /\ \A t \in Threads : ReqOK(t)
  BY Parts DEF IInv
<1>2. /\ log' = log /\ outstanding' \subseteq DOMAIN log
      /\ applied' \in Seq(Nat) /\ Len(applied') = Len(log)
      /\ rows' \in Seq(Nat) /\ Len(rows') = Len(log)
      /\ \A j \in DOMAIN log : /\ applied[j] <= applied'[j]
                               /\ rows[j] <= applied[j] => rows'[j] <= applied'[j]
                               /\ log[j].kind # "insert" /\ rows[j] = 0 => rows'[j] = 0
  BY <1>1, ExecuteEffect
<1>3. UNCHANGED <<message, stamped, memory, req, known, deleted, queries, failed, unseen, rowless,
                  races>>
  BY DEF Execute
<1>4. StoreOK' /\ MemoryOK'
  BY <1>1, <1>2, <1>3 DEF StoreOK, MemoryOK, memory
<1>5. LogOK'
  BY <1>1, <1>2, <1>3 DEF LogOK
<1>6. ASSUME NEW t \in Threads PROVE ReqOK(t)'
  <2>1. ASSUME NEW j \in DOMAIN req[t].todo PROVE req[t].todo[j] <= applied'[j]
    <3>1. j \in DOMAIN log /\ req[t].todo[j] \in Nat
      <4>1. req[t].todo \in Seq(Nat) /\ Len(req[t].todo) <= Len(log) /\ Len(log) \in Nat
            /\ log \in Seq(Writes!Statements)
        BY <1>1 DEF ReqOK, RequestSet, StoreOK
      <4> QED
        BY <4>1
    <3>2. applied[j] \in Nat /\ applied'[j] \in Nat
      <4>1. /\ log \in Seq(Writes!Statements) /\ applied \in Seq(Nat) /\ Len(applied) = Len(log)
            /\ applied' \in Seq(Nat) /\ Len(applied') = Len(log)
        BY <1>1, <1>2 DEF StoreOK
      <4> QED
        BY <3>1, <4>1
    <3>3. req[t].todo[j] <= applied[j] /\ applied[j] <= applied'[j]
      BY <1>1, <1>2, <3>1 DEF ReqOK, ResultOK
    <3> QED
      BY <3>1, <3>2, <3>3
  <2> QED
    BY <1>1, <1>2, <1>3, <2>1 DEF ReqOK, ResultOK, PlaceOK, Adds, memory
<1>7. TypeOK'
  BY <1>1, <1>3, <1>4, <1>6 DEF TypeOK, StoreOK, MemoryOK, ReqOK
<1>8. \A j \in DOMAIN log : applied'[j] \in Nat
  <2>1. log \in Seq(Writes!Statements)
    BY <1>1 DEF StoreOK
  <2> QED
    BY <1>2, <2>1
<1> QED
  BY <1>2, <1>3, <1>5, <1>6, <1>7, <1>8 DEF IInv, ReqOK

LEMMA RestartKeepsIInv ==
  ASSUME IInv, Restart
  PROVE  IInv' /\ heap' = <<>> /\ \A t \in Threads : req'[t] = Free
<1>1. TypeOK /\ StoreOK /\ MemoryOK /\ LogOK
  BY Parts DEF IInv
<1>2. /\ chatInformation' = [s \in Sessions |-> 0] /\ heap' = <<>>
      /\ sessionsIds' = [s \in Sessions |-> 0] /\ loaded' = FALSE
      /\ req' = [t \in Threads |-> Free] /\ queries' = 0 /\ failed' = FALSE
      /\ UNCHANGED <<writes, known, deleted>>
  BY DEF Restart
<1>3. req' \in [Threads -> RequestSet] /\ \A t \in Threads : req'[t] = Free
  BY <1>2, FreeTyped
<1>4. StoreOK' /\ LogOK'
  BY <1>1, <1>2 DEF StoreOK, LogOK, writes
<1>5. MemoryOK'
  <2>1. heap' \in Seq(Seq(1..stamped')) /\ Len(heap') = 0
    BY <1>2
  <2>2. chatInformation' \in [Sessions -> 0..Len(heap')] /\ sessionsIds' \in [Sessions -> Nat]
    BY <1>2, <2>1
  <2> QED
    BY <1>1, <1>2, <2>1, <2>2 DEF MemoryOK
<1>6. \A t \in Threads : ReqOK(t)'
  BY <1>3, <1>4, FinishedOK
<1>7. TypeOK'
  BY <1>3, <1>4, <1>5, <1>6 DEF TypeOK, StoreOK, MemoryOK, ReqOK
<1> QED
  BY <1>2, <1>3, <1>4, <1>6, <1>7 DEF IInv, ReqOK

LEMMA RequestKeepsIInv ==
  ASSUME IInv, NEW t \in Threads, Requests(t)
  PROVE  IInv'
<1>1. TypeOK /\ StoreOK /\ MemoryOK
  BY Parts DEF IInv
<1>2. /\ req' \in [Threads -> RequestSet] /\ Others(t)
      /\ req'[t].at = "check" /\ req'[t].todo = <<>>
      /\ req'[t].session \in known \cup {NoSession}
      /\ req'[t].kind \in {"history", "delete"} => req'[t].session \in known
      /\ UNCHANGED <<writes, memory, known, deleted, queries, failed>>
  BY <1>1, RequestEffect
<1>3. ReqOK(t)'
  BY <1>1, <1>2 DEF ReqOK, ResultOK, PlaceOK, Behind, Holding, Adds, StoreOK, writes
<1> QED
  BY <1>1, <1>2, <1>3, QuietKeepsIInv DEF MemoryOK, memory

LEMMA NextKeepsIInv == IInv /\ [Next]_vars => IInv'
<1> SUFFICES ASSUME IInv, [Next]_vars PROVE IInv'
  OBVIOUS
<1>1. ASSUME NEW t \in Threads, Requests(t) PROVE IInv'
  BY <1>1, RequestKeepsIInv
<1>2. ASSUME NEW t \in Threads,
             \/ CheckLoaded(t) \/ Query(t) \/ QueryThrows(t)
             \/ SkipRow(t) \/ NextThrows(t) \/ MarkLoaded(t)
      PROVE  IInv'
  BY <1>2, LoadKeepsIInv
<1>3. ASSUME NEW t \in Threads, RestoreRow(t) PROVE IInv'
  BY <1>3, RestoreKeepsIInv
<1>4. ASSUME NEW t \in Threads, List(t) \/ ChatThrows(t) \/ PublishDeleteThrows(t) PROVE IInv'
  BY <1>4, FinishKeepsIInv DEF List, ChatThrows, PublishDeleteThrows, history, unraced, races
<1>5. ASSUME NEW t \in Threads, History(t) \/ GetHelper(t) PROVE IInv'
  BY <1>5, HelperKeepsIInv
<1>6. ASSUME NEW t \in Threads, NEW s \in Sessions, ListNewSession(t, s) PROVE IInv'
  BY <1>6, NewSessionKeepsIInv
<1>7. ASSUME NEW t \in Threads, ReadClock(t) \/ PushBack(t) \/ Publishes(t) PROVE IInv'
  BY <1>7, ClockKeepsIInv, PushKeepsIInv, InsertKeepsIInv
<1>8. ASSUME NEW t \in Threads, EraseHelper(t) \/ Unlist(t) \/ PublishDelete(t) PROVE IInv'
  BY <1>8, DeleteKeepsIInv
<1>9. ASSUME NEW i \in outstanding, Execute(i) PROVE IInv'
  BY <1>9, ExecuteKeepsIInv
<1>10. CASE Restart
  BY <1>10, RestartKeepsIInv
<1>11. CASE UNCHANGED vars
  <2>1. UNCHANGED <<log, outstanding, applied, rows, lost, message, stamped, chatInformation, heap,
                    sessionsIds, loaded, req, known, deleted, queries, failed>>
    BY <1>11 DEF vars, writes, memory, history, unraced
  <2> QED
    BY <2>1 DEF IInv, TypeOK, LogOK, PlaceOK, ResultOK, Adds
<1> QED
  BY <1>1, <1>2, <1>3, <1>4, <1>5, <1>6, <1>7, <1>8, <1>9, <1>10, <1>11 DEF Next, Publishes

(* Type correctness: log, table, AIHelpers, list and requests hold what    *)
(* they are declared to hold; a request that adds messages has an AIHelper *)
(* and no AIHelper has a message that was not given a time stamp.          *)
THEOREM TypeCorrect == Spec => []TypeOK
<1>1. Init => IInv
  BY InitIInv
<1>2. IInv /\ [Next]_vars => IInv'
  BY NextKeepsIInv
<1>3. IInv => TypeOK
  BY DEF IInv
<1> QED
  BY <1>1, <1>2, <1>3, PTL DEF Spec

LEMMA IInvCorrect == Spec => []IInv
  BY InitIInv, NextKeepsIInv, PTL DEF Spec

-----------------------------------------------------------------------------
(* Every conversation is listed, once                                      *)

ListedOK == \A s \in Sessions :
  /\ chatInformation[s] # 0 => Seen(s) \/ failed
  /\ sessionsIds[s] > 1 => s \in deleted
  /\ sessionsIds[s] > 0 =>
       s \in known /\ (chatInformation[s] # 0 \/ s \in deleted \/ Inserts(s) = {})
LoadedOK == loaded => failed \/ \A s \in known : Seen(s)
ReadingOK(t) == At(t, "restore") =>
  failed \/ \A s \in known : Seen(s) \/ \E i \in Unread(t) : log[i].session = s

LEMMA ListParts == ListInv <=> ListedOK /\ LoadedOK /\ \A t \in Threads : ReadingOK(t)
  BY DEF ListInv, ListedOnce, ListedOK, LoadedOK, ReadingOK, Seen

(* No session falls off the list that a load counts on.                    *)
StaySeen == /\ failed => failed'
            /\ \A s \in known' : failed' \/ Seen(s)' \/ (s \in known /\ ~ Seen(s))

LEMMA StepKeepsListInv ==
  ASSUME IInv, ListInv, NEW t, Others(t), StaySeen,
         \A i \in DOMAIN log : log'[i] = log[i],
         ListedOK', loaded' = loaded, t \in Threads => ReadingOK(t)'
  PROVE  ListInv'
<1>1. ListedOK /\ LoadedOK /\ \A u \in Threads : ReadingOK(u)
  BY ListParts
<1>2. LoadedOK'
  BY <1>1 DEF LoadedOK, StaySeen
<1>3. ASSUME NEW u \in Threads \ {t} PROVE ReadingOK(u)'
  <2> SUFFICES ASSUME req[u].at = "restore", ~ failed', NEW s \in known', ~ Seen(s)'
               PROVE  \E i \in Unread(u)' : log'[i].session = s
    BY <1>3 DEF ReadingOK, Others, At
  <2>1. ~ failed /\ s \in known /\ ~ Seen(s)
    BY DEF StaySeen
  <2>2. PICK i \in Unread(u) : log[i].session = s
    BY <1>1, <2>1 DEF ReadingOK, At
  <2>3. i \in DOMAIN log
    BY Parts, UnreadInLog
  <2> QED
    BY <1>3, <2>2, <2>3 DEF Unread, Others
<1> QED
  BY <1>2, <1>3 DEF ListInv, ListedOnce, ListedOK, LoadedOK, ReadingOK, Seen

(* A step that changes nothing the list is about.                          *)
LEMMA QuietKeepsListInv ==
  ASSUME IInv, ListInv, NEW t, Others(t),
         UNCHANGED <<log, chatInformation, sessionsIds, loaded, known, deleted, failed>>,
         rowless \subseteq rowless', t \in Threads => ReadingOK(t)'
  PROVE  ListInv'
<1>1. ListedOK /\ StaySeen
  BY ListParts DEF StaySeen, Seen
<1>2. ListedOK'
  BY <1>1 DEF ListedOK, Seen, Inserts
<1> QED
  BY <1>1, <1>2, StepKeepsListInv

LEMMA LoadKeepsListInv ==
  ASSUME IInv, ListInv, NEW t \in Threads,
         CheckLoaded(t) \/ Query(t) \/ QueryThrows(t) \/ SkipRow(t) \/ NextThrows(t) \/ MarkLoaded(t)
  PROVE  ListInv'
<1>1. TypeOK /\ StoreOK /\ MemoryOK /\ LogOK /\ ReqOK(t) /\ req \in [Threads -> RequestSet]
  BY Parts DEF IInv
<1>2. ListedOK /\ LoadedOK /\ ReadingOK(t)
  BY ListParts
<1>3. CASE CheckLoaded(t)
  <2>1. PICK l \in {"body", "query"} : Goto(t, l)
    BY <1>3 DEF CheckLoaded
  <2>2. Moved(req'[t], req[t], l) /\ Others(t)
    BY <1>1, <2>1, GotoEffect DEF Places
  <2>3. ReadingOK(t)'
    BY <2>1, <2>2 DEF ReadingOK, At, Moved
  <2> QED
    BY <1>3, <2>2, <2>3, QuietKeepsListInv DEF CheckLoaded, writes, memory, history, unraced, races
<1>4. CASE Query(t)
  <2>1. /\ Others(t) /\ req'[t].todo = rows
        /\ rowless' = rowless \cup {s \in known : \A i \in Inserts(s) : rows[i] = 0}
        /\ UNCHANGED <<writes, memory, known, deleted, failed>>
    BY <1>1, <1>4, QueryEffect DEF Query
  <2>2. ReadingOK(t)'
    <3> SUFFICES ASSUME NEW s \in known, s \notin rowless'
                 PROVE  \E i \in Unread(t)' : log[i].session = s
      BY <2>1 DEF ReadingOK, Seen, writes
    <3>1. PICK i \in Inserts(s) : rows[i] # 0
      BY <2>1
    <3>2. i \in DOMAIN rows /\ rows[i] > 0 /\ log[i].session = s
      BY <1>1, <3>1 DEF Inserts, StoreOK
    <3> QED
      BY <2>1, <3>2 DEF Unread
  <2> QED
    BY <2>1, <2>2, QuietKeepsListInv DEF writes, memory
<1>5. CASE QueryThrows(t)
  <2>1. Goto(t, "body") /\ failed' = TRUE /\ UNCHANGED <<writes, memory, known, deleted, rowless>>
    BY <1>5 DEF QueryThrows
  <2>2. Moved(req'[t], req[t], "body") /\ Others(t)
    BY <1>1, <2>1, GotoEffect DEF Places
  <2>3. ListedOK' /\ StaySeen /\ ReadingOK(t)'
    BY <1>2, <2>1 DEF ListedOK, StaySeen, ReadingOK, Seen, Inserts, writes, memory
  <2> QED
    BY <2>1, <2>2, <2>3, StepKeepsListInv DEF writes, memory
<1>6. CASE SkipRow(t)
  <2>1. PICK i \in NextRows(t) : rowless' = rowless \cup {log[i].session} /\ RowRead(t, i)
    BY <1>6 DEF SkipRow
  <2>2. UNCHANGED <<writes, memory, known, deleted, failed>> /\ At(t, "restore")
    BY <1>6 DEF SkipRow
  <2>3. /\ Others(t) /\ DOMAIN req'[t].todo = DOMAIN req[t].todo
        /\ \A j \in DOMAIN req[t].todo \ {i} : req'[t].todo[j] = req[t].todo[j]
    BY <1>1, <2>1, RowEffect
  <2>4. ReadingOK(t)'
    <3> SUFFICES ASSUME NEW s \in known, ~ failed, ~ Seen(s)'
                 PROVE  \E j \in Unread(t)' : log[j].session = s
      BY <2>2 DEF ReadingOK, writes
    <3>1. ~ Seen(s)
      BY <2>1, <2>2 DEF Seen, memory
    <3>2. PICK j \in Unread(t) : log[j].session = s
      BY <1>2, <2>2, <3>1 DEF ReadingOK
    <3>3. j # i
      BY <2>1, <3>2 DEF Seen
    <3> QED
      BY <2>3, <3>2, <3>3 DEF Unread
  <2> QED
    BY <2>1, <2>2, <2>3, <2>4, QuietKeepsListInv DEF writes, memory
<1>7. CASE NextThrows(t)
  <2>1. req'[t] = Free /\ Others(t)
    BY <1>1, <1>7, FinishEffect DEF NextThrows
  <2>2. ReadingOK(t)'
    BY <2>1, FreeTyped DEF ReadingOK, At
  <2> QED
    BY <1>7, <2>1, <2>2, QuietKeepsListInv DEF NextThrows, writes, memory
<1>8. CASE MarkLoaded(t)
  <2>1. /\ req' = [req EXCEPT ![t].at = "body", ![t].todo = <<>>]
        /\ loaded' /\ Unread(t) = {} /\ At(t, "restore")
        /\ UNCHANGED <<writes, chatInformation, heap, sessionsIds, history>>
    BY <1>8 DEF MarkLoaded, RestoreDone
  <2>2. Others(t) /\ req'[t].at = "body"
    BY <1>1, <2>1 DEF Others, RequestSet
  <2>3. failed \/ \A s \in known : Seen(s)
    BY <1>2, <2>1 DEF ReadingOK
  <2>4. ListedOK' /\ LoadedOK' /\ ReadingOK(t)'
    BY <1>2, <2>1, <2>2, <2>3
       DEF ListedOK, LoadedOK, ReadingOK, Seen, Inserts, At, writes, history, unraced, races
  <2>5. \A u \in Threads \ {t} : ReadingOK(u)'
    BY <2>1, <2>2, ListParts DEF ReadingOK, Seen, At, Others, Unread, writes, history, unraced, races
  <2> QED
    BY <2>4, <2>5 DEF ListInv, ListedOnce, ListedOK, LoadedOK, ReadingOK, Seen
<1> QED
  BY <1>3, <1>4, <1>5, <1>6, <1>7, <1>8

LEMMA RestoreKeepsListInv ==
  ASSUME IInv, ListInv, NEW t \in Threads, RestoreRow(t)
  PROVE  ListInv'
<1>1. TypeOK /\ StoreOK /\ MemoryOK /\ LogOK
  BY Parts DEF IInv
<1>2. ListedOK /\ LoadedOK /\ ReadingOK(t)
  BY ListParts
<1>3. PICK i \in NextRows(t) : RowRead(t, i) /\ RowRestored(i)
  BY RestoreEffect
<1>4. PICK s \in Sessions : s = log[i].session
  BY <1>3 DEF RowRestored
<1>5. /\ UNCHANGED <<writes, loaded, deleted, failed, rowless>> /\ At(t, "restore")
      /\ known' = known \cup {r \in Sessions : sessionsIds'[r] > 0}
  BY <1>3 DEF RestoreRow, RowRestored
<1>6. /\ Others(t) /\ i \in DOMAIN log /\ DOMAIN req'[t].todo = DOMAIN req[t].todo
      /\ \A j \in DOMAIN req[t].todo \ {i} : req'[t].todo[j] = req[t].todo[j]
  BY <1>1, <1>3, RowEffect
<1>7. /\ s \in Sessions /\ chatInformation'[s] # 0 /\ sessionsIds \in [Sessions -> Nat]
      /\ \A r \in Sessions \ {s} : /\ chatInformation'[r] = chatInformation[r]
                                   /\ sessionsIds'[r] = sessionsIds[r]
      /\ chatInformation[s] = 0 => sessionsIds'[s] = sessionsIds[s] + 1
      /\ chatInformation[s] # 0 => sessionsIds'[s] = sessionsIds[s]
  BY <1>1, <1>3, <1>4 DEF RowRestored, MemoryOK
<1>8. i \in Inserts(s)
  BY <1>3, <1>4, UnreadIsInsert DEF NextRows
<1>9. sessionsIds[s] > 0 /\ chatInformation[s] = 0 => s \in deleted
  BY <1>2, <1>7, <1>8 DEF ListedOK
<1>10. \A r \in Sessions : Seen(r) => Seen(r)'
  BY <1>5, <1>7 DEF Seen
<1>11. Seen(s)' \/ failed
  <2>1. CASE chatInformation[s] = 0
    BY <1>7, <2>1 DEF Seen
  <2>2. CASE chatInformation[s] # 0
    BY <1>2, <1>7, <1>10, <2>2 DEF ListedOK
  <2> QED
    BY <2>1, <2>2
<1>12. ListedOK'
  <2> SUFFICES ASSUME NEW r \in Sessions
               PROVE  /\ chatInformation'[r] # 0 => Seen(r)' \/ failed'
                      /\ sessionsIds'[r] > 1 => r \in deleted'
                      /\ sessionsIds'[r] > 0 =>
                           r \in known' /\ (chatInformation'[r] # 0 \/ r \in deleted' \/ Inserts(r)' = {})
    BY DEF ListedOK
  <2>1. Inserts(r)' = Inserts(r)
    BY <1>5 DEF Inserts, writes
  <2>2. CASE r = s
    BY <1>2, <1>5, <1>7, <1>9, <1>11, <2>2 DEF ListedOK
  <2>3. CASE r # s
    BY <1>2, <1>5, <1>7, <1>10, <2>1, <2>3 DEF ListedOK
  <2> QED
    BY <2>2, <2>3
<1>13. StaySeen
  <2>1. \A r \in known' \ known : Seen(r)'
    BY <1>5 DEF Seen
  <2>2. known \subseteq Sessions
    BY <1>1 DEF MemoryOK
  <2> QED
    BY <1>5, <1>10, <2>1, <2>2 DEF StaySeen
<1>14. ReadingOK(t)'
  <2> SUFFICES ASSUME ~ failed, NEW r \in known', ~ Seen(r)'
               PROVE  \E j \in Unread(t)' : log[j].session = r
    BY <1>5 DEF ReadingOK, writes
  <2>1. r \in known /\ ~ Seen(r) /\ r # s
    BY <1>5, <1>11, <1>13 DEF StaySeen
  <2>2. PICK j \in Unread(t) : log[j].session = r
    BY <1>2, <1>5, <2>1 DEF ReadingOK
  <2> QED
    BY <1>6, <1>4, <2>1, <2>2 DEF Unread
<1> QED
  BY <1>5, <1>6, <1>12, <1>13, <1>14, StepKeepsListInv DEF writes

LEMMA HandlersKeepListInv ==
  ASSUME IInv, ListInv, NEW t \in Threads,
         History(t) \/ GetHelper(t) \/ (\E s \in Sessions : ListNewSession(t, s))
         \/ Publishes(t) \/ EraseHelper(t) \/ Unlist(t) \/ PublishDelete(t)
  PROVE  ListInv'
<1>1. TypeOK /\ StoreOK /\ MemoryOK /\ LogOK /\ ReqOK(t) /\ req \in [Threads -> RequestSet]
  BY Parts DEF IInv
<1>2. ListedOK /\ LoadedOK
  BY ListParts
<1>3. CASE History(t) \/ GetHelper(t)
  <2>1. /\ Others(t) /\ req[t].session \in known /\ (loaded \/ failed)
        /\ FindOrMake(req[t].session) /\ req'[t].at \in {"idle", "add"}
    BY <1>3, HelperKeepsIInv
  <2>2. UNCHANGED <<writes, sessionsIds, loaded, known, deleted, failed, rowless>>
    BY <1>3 DEF History, GetHelper, history, unraced, races
  <2>3. PICK s \in Sessions : s = req[t].session /\ s \in known
    BY <1>1, <2>1 DEF MemoryOK
  <2>4. /\ chatInformation'[s] # 0
        /\ \A r \in Sessions : r # s => chatInformation'[r] = chatInformation[r]
    <3>1. chatInformation'[s] \in DOMAIN heap' /\ heap' \in Seq(Seq(1..stamped))
      BY <1>1, <2>1, <2>3, FindOrMakeEffect
    <3> QED
      BY <1>1, <2>1, <2>3, <3>1, FindOrMakeEffect
  <2>5. Seen(s) \/ failed
    BY <1>2, <2>1, <2>3 DEF LoadedOK
  <2>6. \A r \in Sessions : (Seen(r)' <=> Seen(r)) /\ Inserts(r)' = Inserts(r)
    BY <2>2 DEF Seen, Inserts, writes
  <2>7. ListedOK'
    <3> SUFFICES ASSUME NEW r \in Sessions
                 PROVE  /\ chatInformation'[r] # 0 => Seen(r)' \/ failed'
                        /\ sessionsIds'[r] > 1 => r \in deleted'
                        /\ sessionsIds'[r] > 0 =>
                             r \in known' /\ (chatInformation'[r] # 0 \/ r \in deleted' \/ Inserts(r)' = {})
      BY DEF ListedOK
    <3>1. CASE r = s
      BY <1>2, <2>2, <2>4, <2>5, <2>6, <3>1 DEF ListedOK
    <3>2. CASE r # s
      BY <1>2, <2>2, <2>4, <2>6, <3>2 DEF ListedOK
    <3> QED
      BY <3>1, <3>2
  <2>8. StaySeen /\ ReadingOK(t)'
    BY <1>1, <2>1, <2>2, <2>6 DEF StaySeen, ReadingOK, At, MemoryOK
  <2> QED
    BY <2>1, <2>2, <2>7, <2>8, StepKeepsListInv DEF writes
<1>4. ASSUME NEW s \in Sessions, ListNewSession(t, s) PROVE ListInv'
  <2>1. Others(t) /\ req'[t].at = "body"
    BY <1>4, NewSessionKeepsIInv
  <2>2. /\ s \notin known /\ known' = known \cup {s}
        /\ sessionsIds' = [sessionsIds EXCEPT ![s] = @ + 1]
        /\ UNCHANGED <<writes, chatInformation, loaded, deleted, failed, rowless>>
    BY <1>4 DEF ListNewSession
  <2>3. /\ sessionsIds'[s] = 1 /\ \A r \in Sessions : r # s => sessionsIds'[r] = sessionsIds[r]
    <3>1. sessionsIds[s] \in Nat /\ ~ (sessionsIds[s] > 0) /\ sessionsIds \in [Sessions -> Nat]
      BY <1>1, <1>2, <2>2 DEF ListedOK, MemoryOK
    <3> QED
      BY <2>2, <3>1
  <2>4. Inserts(s) = {} /\ \A r \in Sessions : Inserts(r)' = Inserts(r)
    BY <1>1, <2>2 DEF Inserts, LogOK, writes
  <2>5. Seen(s)' /\ \A r \in Sessions : Seen(r) => Seen(r)'
    BY <2>2, <2>3 DEF Seen
  <2>6. ListedOK'
    <3> SUFFICES ASSUME NEW r \in Sessions
                 PROVE  /\ chatInformation'[r] # 0 => Seen(r)' \/ failed'
                        /\ sessionsIds'[r] > 1 => r \in deleted'
                        /\ sessionsIds'[r] > 0 =>
                             r \in known' /\ (chatInformation'[r] # 0 \/ r \in deleted' \/ Inserts(r)' = {})
      BY DEF ListedOK
    <3>1. CASE r = s
      BY <2>2, <2>3, <2>4, <2>5, <3>1
    <3>2. CASE r # s
      BY <1>2, <2>2, <2>3, <2>4, <2>5, <3>2 DEF ListedOK
    <3> QED
      BY <3>1, <3>2
  <2>7. StaySeen /\ ReadingOK(t)'
    BY <1>1, <2>1, <2>2, <2>5 DEF StaySeen, ReadingOK, At, MemoryOK
  <2> QED
    BY <2>1, <2>2, <2>6, <2>7, StepKeepsListInv DEF writes
<1>5. CASE Publishes(t)
  <2>1. /\ At(t, "insert") /\ req[t].session \in known /\ req[t].helper \in DOMAIN heap
        /\ Recorded(Insertion(t), req[t].message) /\ Others(t)
        /\ UNCHANGED <<chatInformation, sessionsIds, loaded, known, deleted, failed, rowless>>
        /\ req'[t] = Free \/ Moved(req'[t], req[t], "add")
        /\ req[t].helper = chatInformation[req[t].session] \/ req[t].session \in deleted
    BY <1>5, InsertKeepsIInv DEF memory
  <2>2. ReadingOK(t)'
    BY <2>1, FreeTyped DEF ReadingOK, At, Moved
  <2>3. \A r \in Sessions : Seen(r)' <=> Seen(r)
    BY <2>1 DEF Seen
  <2>4. \A r \in Sessions : r # req[t].session => Inserts(r)' = Inserts(r)
    <3>1. DOMAIN log' = DOMAIN log \cup {Len(log) + 1} /\ log'[Len(log) + 1].session = req[t].session
          /\ \A i \in DOMAIN log : log'[i] = log[i]
      BY <1>5, <2>1, InsertKeepsIInv DEF Recorded, Insertion
    <3> QED
      BY <3>1 DEF Inserts
  <2>5. chatInformation[req[t].session] # 0 \/ req[t].session \in deleted
    BY <1>1, <2>1 DEF MemoryOK
  <2>6. ListedOK'
    <3> SUFFICES ASSUME NEW r \in Sessions
                 PROVE  /\ chatInformation'[r] # 0 => Seen(r)' \/ failed'
                        /\ sessionsIds'[r] > 1 => r \in deleted'
                        /\ sessionsIds'[r] > 0 =>
                             r \in known' /\ (chatInformation'[r] # 0 \/ r \in deleted' \/ Inserts(r)' = {})
      BY DEF ListedOK
    <3>1. CASE r = req[t].session
      BY <1>2, <2>1, <2>3, <2>5, <3>1 DEF ListedOK
    <3>2. CASE r # req[t].session
      BY <1>2, <2>1, <2>3, <2>4, <3>2 DEF ListedOK
    <3> QED
      BY <3>1, <3>2
  <2>7. StaySeen
    BY <1>1, <2>1, <2>3 DEF StaySeen, MemoryOK
  <2> QED
    BY <2>1, <2>2, <2>6, <2>7, StepKeepsListInv DEF Recorded
<1>6. CASE EraseHelper(t) \/ Unlist(t) \/ PublishDelete(t)
  <2>1. Others(t) /\ req'[t].at \in {"unlist", "publish", "idle"}
        /\ (~ EraseHelper(t) => req[t].session \in deleted)
    BY <1>6, DeleteKeepsIInv
  <2>2. ReadingOK(t)'
    BY <2>1 DEF ReadingOK, At
  <2>3. UNCHANGED <<loaded, known, failed, rowless>>
    BY <1>6 DEF EraseHelper, Unlist, PublishDelete, memory, history, unraced, races
  <2>4. CASE EraseHelper(t)
    <3>1. /\ chatInformation' = [chatInformation EXCEPT ![req[t].session] = 0]
          /\ deleted' = deleted \cup {req[t].session} /\ UNCHANGED <<writes, sessionsIds>>
      BY <2>4 DEF EraseHelper
    <3>2. \A r \in Sessions : /\ Inserts(r)' = Inserts(r) /\ (Seen(r) => Seen(r)')
                              /\ chatInformation'[r] = chatInformation[r] \/ r \in deleted'
      BY <1>1, <2>3, <3>1 DEF Inserts, Seen, MemoryOK, writes
    <3>3. \A r \in Sessions : r \in deleted' => Seen(r)'
      BY DEF Seen
    <3>4. ListedOK'
      <4> SUFFICES ASSUME NEW r \in Sessions
                   PROVE  /\ chatInformation'[r] # 0 => Seen(r)' \/ failed'
                          /\ sessionsIds'[r] > 1 => r \in deleted'
                          /\ sessionsIds'[r] > 0 =>
                               r \in known' /\ (chatInformation'[r] # 0 \/ r \in deleted' \/ Inserts(r)' = {})
        BY DEF ListedOK
      <4>1. CASE r \in deleted'
        BY <1>2, <2>3, <3>1, <3>3, <4>1 DEF ListedOK
      <4>2. CASE r \notin deleted'
        BY <1>2, <2>3, <3>1, <3>2, <4>2 DEF ListedOK
      <4> QED
        BY <4>1, <4>2
    <3>5. StaySeen
      BY <1>1, <2>3, <3>2 DEF StaySeen, MemoryOK
    <3> QED
      BY <2>1, <2>2, <2>3, <3>1, <3>4, <3>5, StepKeepsListInv DEF writes
  <2>5. CASE Unlist(t)
    <3>1. /\ sessionsIds' = [sessionsIds EXCEPT ![req[t].session] = 0]
          /\ UNCHANGED <<writes, chatInformation, deleted>> /\ req[t].session \in deleted
      BY <2>1, <2>5 DEF Unlist, EraseHelper, history, unraced, races, At
    <3>2. \A r \in Sessions : /\ Inserts(r)' = Inserts(r) /\ (Seen(r) => Seen(r)')
                              /\ sessionsIds'[r] = sessionsIds[r] \/ sessionsIds'[r] = 0
      BY <1>1, <2>3, <3>1 DEF Inserts, Seen, MemoryOK, writes
    <3>3. ListedOK'
      <4> SUFFICES ASSUME NEW r \in Sessions
                   PROVE  /\ chatInformation'[r] # 0 => Seen(r)' \/ failed'
                          /\ sessionsIds'[r] > 1 => r \in deleted'
                          /\ sessionsIds'[r] > 0 =>
                               r \in known' /\ (chatInformation'[r] # 0 \/ r \in deleted' \/ Inserts(r)' = {})
        BY DEF ListedOK
      <4>1. CASE sessionsIds'[r] = 0
        BY <1>2, <2>3, <3>1, <3>2, <4>1 DEF ListedOK
      <4>2. CASE sessionsIds'[r] = sessionsIds[r]
        BY <1>2, <2>3, <3>1, <3>2, <4>2 DEF ListedOK
      <4> QED
        BY <3>2, <4>1, <4>2
    <3>4. StaySeen
      BY <1>1, <2>3, <3>2 DEF StaySeen, MemoryOK
    <3> QED
      BY <2>1, <2>2, <2>3, <3>1, <3>3, <3>4, StepKeepsListInv DEF writes
  <2>6. CASE PublishDelete(t)
    <3> DEFINE sql == [kind |-> "delete", session |-> req[t].session]
    <3>1. Writes!Submit(sql) /\ Inserting(0) /\ UNCHANGED <<chatInformation, sessionsIds, deleted>>
          /\ req[t].session \in deleted
      BY <2>1, <2>6 DEF PublishDelete, EraseHelper, memory, history, unraced, races, At
    <3>2. Recorded(sql, 0)
      BY <1>1, <3>1, RecordEffect DEF Writes!Statements, MemoryOK, StoreOK
    <3>3. \A r \in Sessions : Inserts(r)' = Inserts(r)
      <4>1. DOMAIN log' = DOMAIN log \cup {Len(log) + 1} /\ log'[Len(log) + 1] = sql
            /\ \A i \in DOMAIN log : log'[i] = log[i]
        BY <1>1, <3>2 DEF StoreOK, Recorded
      <4> QED
        BY <4>1 DEF Inserts
    <3>4. ListedOK' /\ StaySeen
      BY <1>1, <1>2, <2>3, <3>1, <3>3 DEF ListedOK, StaySeen, Seen, MemoryOK
    <3> QED
      BY <2>1, <2>2, <2>3, <3>1, <3>2, <3>4, StepKeepsListInv DEF Recorded
  <2> QED
    BY <1>6, <2>4, <2>5, <2>6
<1> QED
  BY <1>3, <1>4, <1>5, <1>6

LEMMA NextKeepsListInv == IInv /\ ListInv /\ [Next]_vars => ListInv'
<1> SUFFICES ASSUME IInv, ListInv, [Next]_vars PROVE ListInv'
  OBVIOUS
<1>1. TypeOK /\ req \in [Threads -> RequestSet]
  BY DEF IInv, TypeOK
<1>2. ASSUME NEW t \in Threads, Requests(t) PROVE ListInv'
  <2>1. Others(t) /\ req'[t].at = "check"
        /\ UNCHANGED <<writes, memory, known, deleted, failed, rowless>>
    BY <1>1, <1>2, RequestEffect
  <2> QED
    BY <2>1, QuietKeepsListInv DEF ReadingOK, At, writes, memory
<1>3. ASSUME NEW t \in Threads,
             \/ CheckLoaded(t) \/ Query(t) \/ QueryThrows(t)
             \/ SkipRow(t) \/ NextThrows(t) \/ MarkLoaded(t)
      PROVE  ListInv'
  BY <1>3, LoadKeepsListInv
<1>4. ASSUME NEW t \in Threads, RestoreRow(t) PROVE ListInv'
  BY <1>4, RestoreKeepsListInv
<1>5. ASSUME NEW t \in Threads, List(t) \/ ChatThrows(t) \/ PublishDeleteThrows(t) PROVE ListInv'
  <2>1. Finish(t) /\ UNCHANGED <<writes, memory, known, deleted, failed, rowless>>
    BY <1>5 DEF List, ChatThrows, PublishDeleteThrows, history, unraced, races
  <2>2. Others(t) /\ req'[t] = Free
    BY <1>1, <2>1, FinishEffect
  <2> QED
    BY <2>1, <2>2, FreeTyped, QuietKeepsListInv DEF ReadingOK, At, writes, memory
<1>6. ASSUME NEW t \in Threads,
             \/ History(t) \/ GetHelper(t) \/ (\E s \in Sessions : ListNewSession(t, s))
             \/ Publishes(t) \/ EraseHelper(t) \/ Unlist(t) \/ PublishDelete(t)
      PROVE  ListInv'
  BY <1>6, HandlersKeepListInv
<1>11. ASSUME NEW t \in Threads, ReadClock(t) \/ PushBack(t) PROVE ListInv'
  <2>1. /\ Others(t) /\ (Moved(req'[t], req[t], "push") \/ Moved(req'[t], req[t], "insert"))
        /\ UNCHANGED <<log, chatInformation, sessionsIds, loaded, known, deleted, failed, rowless>>
    BY <1>11, ClockKeepsIInv, PushKeepsIInv DEF writes, memory, unraced
  <2>2. ~ At(t, "restore")'
    BY <2>1 DEF At, Moved
  <2> QED
    BY <2>1, <2>2, QuietKeepsListInv DEF ReadingOK
<1>7. CASE Restart
  <2>1. /\ \A t \in Threads : req'[t] = Free
        /\ chatInformation' = [s \in Sessions |-> 0] /\ sessionsIds' = [s \in Sessions |-> 0]
        /\ loaded' = FALSE
    BY <1>7, RestartKeepsIInv DEF Restart
  <2> QED
    BY <2>1, FreeTyped DEF ListInv, ListedOnce, At
<1>8. CASE UNCHANGED req /\ UNCHANGED <<log, chatInformation, sessionsIds, loaded, known, deleted,
                                        failed, rowless>>
  BY <1>8 DEF ListInv, ListedOnce, At, Seen, Inserts, Unread
<1>9. ASSUME NEW i \in outstanding, Execute(i) PROVE ListInv'
  BY <1>8, <1>9 DEF Execute, Writes!Apply, memory, races
<1>10. CASE UNCHANGED vars
  BY <1>8, <1>10 DEF vars, writes, memory, history, unraced, races
<1> QED
  BY <1>2, <1>3, <1>4, <1>5, <1>6, <1>7, <1>9, <1>10, <1>11 DEF Next, Publishes

(* A session with an AIHelper is in the user's list exactly once, unless   *)
(* it was deleted, a load failed, or a load found no row of it.            *)
THEOREM ListCorrect == Spec => []ListedOnce
<1>1. Init => ListInv
  BY FreeTyped DEF Init, ListInv, ListedOnce, At
<1>2. ListInv => ListedOnce
  BY DEF ListInv
<1> QED
  BY <1>1, <1>2, IInvCorrect, NextKeepsListInv, PTL DEF Spec

-----------------------------------------------------------------------------
(* The cache is complete                                                   *)

Covered == InMemory \cup unseen \cup Torn
CachedOK == loaded => \A s \in Sessions \ deleted : Inserts(s) \subseteq Covered
RestoringOK(t) == At(t, "restore") =>
  \A s \in Sessions \ deleted : Inserts(s) \subseteq Covered \cup Unread(t)
HeldOK(t) == At(t, "insert") => req[t].message \in Range(heap[req[t].helper]) \cup torn

LEMMA CacheParts == CacheInv <=> CachedOK /\ \A t \in Threads : RestoringOK(t) /\ HeldOK(t)
<1>1. CacheComplete <=> CachedOK
  BY DEF CacheComplete, CachedOK, Covered, Torn, Inserts
<1> QED
  BY <1>1 DEF CacheInv, RestoringOK, HeldOK, Covered

LEMMA CachePartsThen ==
  (CachedOK /\ \A t \in Threads : RestoringOK(t) /\ HeldOK(t))' => CacheInv'
<1>1. CachedOK' => CacheComplete'
  BY DEF CacheComplete, CachedOK, Covered, Torn, Inserts
<1> QED
  BY <1>1 DEF CacheInv, RestoringOK, HeldOK, Covered

(* Appending to an AIHelper takes nothing from any.                        *)
LEMMA GetsKeeps ==
  ASSUME TypeOK, NEW h, NEW i, Gets(h, i), heap' \in Seq(Seq(1..stamped))
  PROVE  /\ \A g \in DOMAIN heap : g \in DOMAIN heap' /\ Range(heap[g]) \subseteq Range(heap'[g])
         /\ i \in Range(heap'[h]) \/ i \in torn'
         /\ torn \subseteq torn'
<1>1. heap \in Seq(Seq(1..stamped)) /\ Len(heap) <= Len(heap') /\ Before(h) \in Seq(1..stamped)
  <2>1. heap \in Seq(Seq(1..stamped)) /\ Len(heap) <= Len(heap')
    BY DEF TypeOK, Gets
  <2>2. CASE h \in DOMAIN heap
    <3>1. heap[h] \in Seq(1..stamped)
      BY <2>1, <2>2
    <3> QED
      BY <2>1, <2>2, <3>1 DEF Before
  <2>3. CASE h \notin DOMAIN heap
    BY <2>1, <2>3 DEF Before
  <2> QED
    BY <2>2, <2>3
<1>2. PICK s \in Seq(1..stamped) : s = Before(h)
  BY <1>1
<1>3. Range(s) \subseteq Range(Append(s, i)) /\ i \in Range(Append(s, i))
  <2>1. /\ \A j \in DOMAIN s : j \in DOMAIN Append(s, i) /\ Append(s, i)[j] = s[j]
        /\ Len(s) + 1 \in DOMAIN Append(s, i) /\ Append(s, i)[Len(s) + 1] = i
    BY <1>2
  <2> QED
    BY <2>1 DEF Range
<1>4. \/ heap'[h] = Append(s, i) /\ torn' = torn
      \/ heap'[h] = s /\ torn' = torn \cup {i}
  BY <1>2 DEF Gets
<1>5. (i \in Range(heap'[h]) \/ i \in torn') /\ torn \subseteq torn' /\ Range(s) \subseteq Range(heap'[h])
  BY <1>3, <1>4
<1>6. ASSUME NEW g \in DOMAIN heap PROVE g \in DOMAIN heap' /\ Range(heap[g]) \subseteq Range(heap'[g])
  <2>1. g \in DOMAIN heap'
    BY <1>1, <1>6
  <2>2. CASE g = h
    BY <1>2, <1>5, <1>6, <2>1, <2>2 DEF Before
  <2>3. CASE g # h
    BY <1>6, <2>1, <2>3 DEF Gets, Before
  <2> QED
    BY <2>1, <2>2, <2>3
<1> QED
  BY <1>5, <1>6


(* What the map led to, it leads to unless the session is deleted.         *)
LEMMA MemoryKept ==
  ASSUME IInv, NEW i \in InMemory,
         i \in DOMAIN log', log'[i] = log[i], message'[i] = message[i],
         LET s == log[i].session IN chatInformation'[s] = chatInformation[s],
         \A g \in DOMAIN heap : Range(heap[g]) \subseteq Range(heap'[g])
  PROVE  i \in InMemory'
<1>1. /\ chatInformation \in [Sessions -> 0..Len(heap)] /\ heap \in Seq(Seq(1..stamped))
      /\ i \in DOMAIN log /\ log[i].session \in Sessions
  BY Parts DEF MemoryOK, LogOK, InMemory
<1> DEFINE h == chatInformation[log[i].session]
<1>2. h # 0 /\ message[i] \in Range(heap[h])
  BY DEF InMemory
<1>3. h \in DOMAIN heap
  BY <1>1, <1>2
<1> QED
  BY <1>2, <1>3 DEF InMemory

LEMMA StepKeepsCacheInv ==
  ASSUME IInv, CacheInv, NEW t, Others(t), loaded' = loaded, deleted \subseteq deleted',
         \A i \in DOMAIN log : i \in DOMAIN log' /\ log'[i] = log[i],
         \A i \in DOMAIN log : log[i].session \notin deleted' /\ i \in Covered => i \in Covered',
         \A i \in DOMAIN log' \ DOMAIN log :
           log'[i].kind = "insert" /\ log'[i].session \notin deleted' => i \in Covered',
         \A g \in DOMAIN heap : Range(heap[g]) \subseteq Range(heap'[g]), torn \subseteq torn',
         t \in Threads => RestoringOK(t)' /\ HeldOK(t)'
  PROVE  CacheInv'
<1>1. CachedOK /\ \A u \in Threads : RestoringOK(u) /\ HeldOK(u)
  BY CacheParts
<1>2. ASSUME NEW s \in Sessions \ deleted', NEW X, Inserts(s) \subseteq Covered \cup X
      PROVE  Inserts(s)' \subseteq Covered' \cup X
  BY <1>2 DEF Inserts
<1>3. CachedOK'
  <2> SUFFICES ASSUME loaded, NEW s \in Sessions \ deleted' PROVE Inserts(s)' \subseteq Covered'
    BY DEF CachedOK
  <2>1. Inserts(s) \subseteq Covered \cup {}
    BY <1>1 DEF CachedOK
  <2> QED
    BY <1>2, <2>1
<1>4. ASSUME NEW u \in Threads \ {t} PROVE RestoringOK(u)'
  <2> SUFFICES ASSUME req[u].at = "restore", NEW s \in Sessions \ deleted'
               PROVE  Inserts(s)' \subseteq Covered' \cup Unread(u)'
    BY <1>4 DEF RestoringOK, At, Others
  <2>1. Inserts(s) \subseteq Covered \cup Unread(u)
    BY <1>1 DEF RestoringOK, At
  <2>2. Unread(u)' = Unread(u)
    BY DEF Unread, Others
  <2> QED
    BY <1>2, <2>1, <2>2
<1>5. ASSUME NEW u \in Threads \ {t} PROVE HeldOK(u)'
  <2>1. req'[u] = req[u] /\ (At(u, "insert") => req[u].helper \in DOMAIN heap)
    BY Parts DEF Others, ReqOK, Adds, At
  <2> QED
    BY <1>1, <2>1 DEF HeldOK, At
<1>6. \A u \in Threads : RestoringOK(u)' /\ HeldOK(u)'
  BY <1>4, <1>5
<1> QED
  BY <1>3, <1>6, CachePartsThen

(* A step that adds and removes no message.                                *)
LEMMA QuietKeepsCacheInv ==
  ASSUME IInv, CacheInv, NEW t, Others(t),
         UNCHANGED <<log, message, chatInformation, heap, loaded, deleted>>,
         unseen \subseteq unseen', torn \subseteq torn',
         t \in Threads => RestoringOK(t)' /\ HeldOK(t)'
  PROVE  CacheInv'
<1>1. Covered \subseteq Covered'
  BY DEF Covered, InMemory, Torn
<1> QED
  BY <1>1, StepKeepsCacheInv

LEMMA LoadKeepsCacheInv ==
  ASSUME IInv, CacheInv, NEW t \in Threads,
         CheckLoaded(t) \/ Query(t) \/ QueryThrows(t) \/ SkipRow(t) \/ NextThrows(t) \/ MarkLoaded(t)
  PROVE  CacheInv'
<1>1. TypeOK /\ StoreOK /\ req \in [Threads -> RequestSet]
  BY Parts DEF IInv
<1>2. CachedOK /\ RestoringOK(t)
  BY CacheParts
<1>9. req'[t].at # "insert" => HeldOK(t)'
  BY DEF HeldOK, At
<1>3. CASE CheckLoaded(t)
  <2>1. PICK l \in {"body", "query"} : Goto(t, l)
    BY <1>3 DEF CheckLoaded
  <2>2. Moved(req'[t], req[t], l) /\ Others(t)
    BY <1>1, <2>1, GotoEffect DEF Places
  <2>3. RestoringOK(t)' /\ HeldOK(t)'
    BY <2>1, <2>2 DEF RestoringOK, HeldOK, At, Moved
  <2> QED
    BY <1>3, <2>2, <2>3, QuietKeepsCacheInv DEF CheckLoaded, writes, memory, history, unraced, races
<1>4. CASE Query(t)
  <2>1. /\ Others(t) /\ req'[t].todo = rows /\ req'[t].at = "restore"
        /\ unseen' = unseen \cup {i \in DOMAIN log : /\ log[i].kind = "insert"
                                                     /\ rows[i] = 0 /\ i \notin InMemory}
        /\ UNCHANGED <<writes, memory, deleted, torn>>
    BY <1>1, <1>4, QueryEffect DEF Query, races
  <2>2. RestoringOK(t)'
    <3> SUFFICES ASSUME NEW s \in Sessions \ deleted, NEW i \in Inserts(s), i \notin Covered'
                 PROVE  i \in Unread(t)'
      BY <2>1 DEF RestoringOK, Inserts, writes
    <3>1. i \in DOMAIN log /\ log[i].kind = "insert"
      BY DEF Inserts
    <3>2. InMemory' = InMemory
      BY <2>1 DEF InMemory, writes, memory
    <3>3. rows[i] # 0
      BY <2>1, <3>1, <3>2 DEF Covered
    <3>4. i \in DOMAIN rows /\ rows[i] > 0
      BY <1>1, <3>1, <3>3 DEF StoreOK
    <3> QED
      BY <2>1, <3>4 DEF Unread
  <2> QED
    BY <1>9, <2>1, <2>2, QuietKeepsCacheInv DEF writes, memory
<1>5. CASE QueryThrows(t)
  <2>1. Goto(t, "body") /\ UNCHANGED <<writes, memory, deleted, unseen, torn>>
    BY <1>5 DEF QueryThrows, races
  <2>2. Moved(req'[t], req[t], "body") /\ Others(t)
    BY <1>1, <2>1, GotoEffect DEF Places
  <2>3. RestoringOK(t)' /\ HeldOK(t)'
    BY <2>2 DEF RestoringOK, HeldOK, At, Moved
  <2> QED
    BY <2>1, <2>2, <2>3, QuietKeepsCacheInv DEF writes, memory
<1>6. CASE SkipRow(t)
  <2>1. PICK i \in NextRows(t) : unseen' = unseen \cup {i} /\ RowRead(t, i)
    BY <1>6 DEF SkipRow
  <2>2. UNCHANGED <<writes, memory, deleted, torn>> /\ At(t, "restore")
    BY <1>6 DEF SkipRow, races
  <2>3. /\ Others(t) /\ DOMAIN req'[t].todo = DOMAIN req[t].todo /\ req'[t].at = req[t].at
        /\ \A j \in DOMAIN req[t].todo \ {i} : req'[t].todo[j] = req[t].todo[j]
    BY <1>1, <2>1, RowEffect
  <2>4. RestoringOK(t)'
    <3>1. Covered \cup Unread(t) \subseteq Covered' \cup Unread(t)'
      BY <2>1, <2>2, <2>3 DEF Covered, Torn, InMemory, Unread, writes, memory
    <3> QED
      BY <1>2, <2>2, <3>1 DEF RestoringOK, Inserts, writes
  <2> QED
    BY <1>9, <2>1, <2>2, <2>3, <2>4, QuietKeepsCacheInv DEF At, writes, memory
<1>7. CASE NextThrows(t)
  <2>1. req'[t] = Free /\ Others(t)
    BY <1>1, <1>7, FinishEffect DEF NextThrows
  <2>2. RestoringOK(t)' /\ HeldOK(t)'
    BY <2>1, FreeTyped DEF RestoringOK, HeldOK, At
  <2> QED
    BY <1>7, <2>1, <2>2, QuietKeepsCacheInv DEF NextThrows, writes, memory, races
<1>8. CASE MarkLoaded(t)
  <2>1. /\ req' = [req EXCEPT ![t].at = "body", ![t].todo = <<>>]
        /\ Unread(t) = {} /\ At(t, "restore")
        /\ UNCHANGED <<writes, chatInformation, heap, sessionsIds, history>>
    BY <1>8 DEF MarkLoaded, RestoreDone
  <2>2. Others(t) /\ req'[t].at = "body"
    BY <1>1, <2>1 DEF Others, RequestSet
  <2>3. \A s \in Sessions \ deleted : Inserts(s) \subseteq Covered
    BY <1>2, <2>1 DEF RestoringOK
  <2>4. Covered' = Covered /\ deleted' = deleted /\ \A s \in Sessions : Inserts(s)' = Inserts(s)
    BY <2>1 DEF Covered, Torn, InMemory, Inserts, writes, memory, history, unraced, races
  <2>5. CachedOK' /\ RestoringOK(t)' /\ HeldOK(t)'
    BY <1>9, <2>2, <2>3, <2>4 DEF CachedOK, RestoringOK, At
  <2>6. ASSUME NEW u \in Threads \ {t} PROVE RestoringOK(u)' /\ HeldOK(u)'
    <3>1. req'[u] = req[u] /\ RestoringOK(u) /\ HeldOK(u)
      BY <2>2, CacheParts DEF Others
    <3>2. RestoringOK(u)'
      BY <2>4, <3>1 DEF RestoringOK, At, Unread
    <3>3. HeldOK(u)'
      BY <2>1, <3>1 DEF HeldOK, At, history, races
    <3> QED
      BY <3>2, <3>3
  <2>7. \A u \in Threads : RestoringOK(u)' /\ HeldOK(u)'
    BY <2>5, <2>6
  <2> QED
    BY <2>5, <2>7, CachePartsThen
<1> QED
  BY <1>3, <1>4, <1>5, <1>6, <1>7, <1>8

LEMMA RestoreKeepsCacheInv ==
  ASSUME IInv, CacheInv, NEW t \in Threads, RestoreRow(t)
  PROVE  CacheInv'
<1>1. TypeOK /\ StoreOK /\ MemoryOK /\ LogOK /\ RestoringOK(t)
  BY Parts, CacheParts DEF IInv
<1>2. PICK i \in NextRows(t) : RowRead(t, i) /\ RowRestored(i)
  BY RestoreEffect
<1>3. UNCHANGED <<writes, loaded, deleted, unseen>> /\ At(t, "restore")
  BY <1>2 DEF RestoreRow, RowRestored
<1>4. /\ Others(t) /\ i \in DOMAIN log /\ DOMAIN req'[t].todo = DOMAIN req[t].todo
      /\ req'[t].at = req[t].at
      /\ \A j \in DOMAIN req[t].todo \ {i} : req'[t].todo[j] = req[t].todo[j]
  BY <1>1, <1>2, RowEffect
<1>5. PICK s \in Sessions : s = log[i].session
  BY <1>2 DEF RowRestored
<1>6. /\ \A g \in DOMAIN heap : g \in DOMAIN heap' /\ Range(heap[g]) \subseteq Range(heap'[g])
      /\ message[i] \in Range(heap'[chatInformation'[s]]) \/ message[i] \in torn'
      /\ torn \subseteq torn'
  <2>1. heap' \in Seq(Seq(1..stamped)) /\ Gets(chatInformation'[s], message[i])
    BY <1>2, <1>5 DEF RowRestored
  <2> QED
    BY <1>1, <2>1, GetsKeeps
<1>7. \A r \in Sessions : chatInformation[r] # 0 => chatInformation'[r] = chatInformation[r]
  BY <1>2, <1>5 DEF RowRestored
<1>8. Covered \subseteq Covered'
  <2>1. ASSUME NEW j \in InMemory PROVE j \in InMemory'
    <3>1. j \in DOMAIN log /\ chatInformation[log[j].session] # 0 /\ log[j].session \in Sessions
      BY <1>1 DEF InMemory, LogOK, MemoryOK
    <3> QED
      BY <1>3, <1>6, <1>7, <3>1, MemoryKept DEF writes
  <2> QED
    BY <1>3, <1>6, <2>1 DEF Covered, Torn, writes
<1>9. i \in Covered'
  <2>1. chatInformation'[s] # 0
    BY <1>2, <1>5 DEF RowRestored
  <2> QED
    BY <1>3, <1>4, <1>5, <1>6, <2>1 DEF Covered, Torn, InMemory, writes
<1>10. Covered \cup Unread(t) \subseteq Covered' \cup Unread(t)'
  BY <1>4, <1>8, <1>9 DEF Unread
<1>11. RestoringOK(t)' /\ HeldOK(t)'
  BY <1>1, <1>3, <1>4, <1>10 DEF RestoringOK, HeldOK, At, Inserts, writes
<1> QED
  BY <1>3, <1>4, <1>6, <1>8, <1>11, StepKeepsCacheInv DEF writes

LEMMA PushKeepsCacheInv ==
  ASSUME IInv, CacheInv, NEW t \in Threads, PushBack(t)
  PROVE  CacheInv'
<1> DEFINE h == req[t].helper
           m == req[t].message
<1>1. TypeOK /\ StoreOK /\ MemoryOK
  BY Parts DEF IInv
<1>2. /\ Others(t) /\ Moved(req'[t], req[t], "insert") /\ req'[t].message = m
      /\ h \in DOMAIN heap /\ Gets(h, m) /\ heap' \in Seq(Seq(1..stamped))
      /\ UNCHANGED <<writes, chatInformation, loaded, deleted, unseen>>
  BY PushKeepsIInv DEF unraced
<1> HIDE DEF h, m
<1>3. /\ \A g \in DOMAIN heap : Range(heap[g]) \subseteq Range(heap'[g])
      /\ m \in Range(heap'[h]) \/ m \in torn'
      /\ torn \subseteq torn'
  BY <1>1, <1>2, GetsKeeps
<1>4. Covered \subseteq Covered'
  <2>1. ASSUME NEW j \in InMemory PROVE j \in InMemory'
    <3>1. j \in DOMAIN log
      BY DEF InMemory
    <3> QED
      BY <1>2, <1>3, <3>1, MemoryKept DEF writes
  <2> QED
    BY <1>2, <1>3, <2>1 DEF Covered, Torn, writes
<1>5. RestoringOK(t)' /\ HeldOK(t)'
  BY <1>2, <1>3 DEF RestoringOK, HeldOK, At, Moved, h
<1> QED
  BY <1>2, <1>3, <1>4, <1>5, StepKeepsCacheInv DEF writes

(* The message that is published is in memory already, or torn.            *)
LEMMA InsertKeepsCacheInv ==
  ASSUME IInv, CacheInv, NEW t \in Threads, Publishes(t)
  PROVE  CacheInv'
<1> DEFINE n == Len(log) + 1
           h == req[t].helper
           s == req[t].session
<1>1. StoreOK /\ MemoryOK /\ HeldOK(t)
  BY Parts, CacheParts
<1>2. /\ At(t, "insert") /\ Recorded(Insertion(t), req[t].message)
      /\ DOMAIN log' = DOMAIN log \cup {n} /\ h \in DOMAIN heap
      /\ h = chatInformation[s] \/ s \in deleted
      /\ UNCHANGED <<memory, deleted, unseen, torn>>
      /\ Others(t) /\ (req'[t] = Free \/ Moved(req'[t], req[t], "add"))
  BY InsertKeepsIInv DEF races
<1>3. /\ log'[n].session = s /\ message'[n] = req[t].message
      /\ \A i \in DOMAIN log : log'[i] = log[i] /\ message'[i] = message[i]
  BY <1>2 DEF Recorded, Insertion
<1>4. Covered \subseteq Covered'
  BY <1>2, <1>3 DEF Covered, Torn, InMemory, memory
<1>5. s \notin deleted => n \in Covered'
  <2>1. h # 0
    BY <1>1, <1>2 DEF MemoryOK
  <2>2. req[t].message \in Range(heap[h]) \/ req[t].message \in torn
    BY <1>1, <1>2 DEF HeldOK
  <2> QED
    BY <1>2, <1>3, <2>1, <2>2 DEF Covered, Torn, InMemory, memory
<1>6. RestoringOK(t)' /\ HeldOK(t)'
  BY <1>2, FreeTyped DEF RestoringOK, HeldOK, At, Moved
<1>7. \A i \in DOMAIN log' \ DOMAIN log : log'[i].session \notin deleted' => i \in Covered'
  BY <1>2, <1>3, <1>5
<1> HIDE DEF n, h, s
<1> QED
  BY <1>2, <1>3, <1>4, <1>6, <1>7, StepKeepsCacheInv DEF memory

LEMMA HandlersKeepCacheInv ==
  ASSUME IInv, CacheInv, NEW t \in Threads,
         History(t) \/ GetHelper(t) \/ (\E s \in Sessions : ListNewSession(t, s))
         \/ EraseHelper(t) \/ Unlist(t) \/ PublishDelete(t)
  PROVE  CacheInv'
<1>1. TypeOK /\ StoreOK /\ MemoryOK /\ LogOK /\ ReqOK(t) /\ req \in [Threads -> RequestSet]
  BY Parts DEF IInv
<1>2. CASE History(t) \/ GetHelper(t)
  <2>1. /\ Others(t) /\ req[t].session \in known
        /\ FindOrMake(req[t].session) /\ req'[t].at \in {"idle", "add"}
    BY <1>2, HelperKeepsIInv
  <2>2. UNCHANGED <<writes, loaded, deleted, unseen, torn>>
    BY <1>2 DEF History, GetHelper, history, unraced, races
  <2>3. /\ heap' \in Seq(Seq(1..stamped)) /\ Len(heap) <= Len(heap')
        /\ \A r \in Sessions : chatInformation[r] = 0 \/ chatInformation'[r] = chatInformation[r]
        /\ \A h \in DOMAIN heap' : heap'[h] = Before(h)
    BY <1>1, <2>1, FindOrMakeEffect DEF MemoryOK
  <2>4. \A g \in DOMAIN heap : heap'[g] = heap[g]
    <3>1. DOMAIN heap \subseteq DOMAIN heap'
      BY <1>1, <2>3 DEF MemoryOK
    <3> QED
      BY <2>3, <3>1 DEF Before
  <2>5. Covered \subseteq Covered'
    <3>1. ASSUME NEW j \in InMemory PROVE j \in InMemory'
      <4>1. j \in DOMAIN log /\ chatInformation[log[j].session] # 0 /\ log[j].session \in Sessions
        BY <1>1 DEF InMemory, LogOK, MemoryOK
      <4> QED
        BY <2>2, <2>3, <2>4, <4>1, MemoryKept DEF writes
    <3> QED
      BY <2>2, <3>1 DEF Covered, Torn, writes
  <2>6. RestoringOK(t)' /\ HeldOK(t)'
    BY <2>1 DEF RestoringOK, HeldOK, At
  <2> QED
    BY <2>1, <2>2, <2>4, <2>5, <2>6, StepKeepsCacheInv DEF writes
<1>3. ASSUME NEW s \in Sessions, ListNewSession(t, s) PROVE CacheInv'
  <2>1. Others(t) /\ req'[t].at = "body"
    BY <1>3, NewSessionKeepsIInv
  <2> QED
    BY <1>3, <2>1, QuietKeepsCacheInv DEF ListNewSession, RestoringOK, HeldOK, At, writes, races
<1>4. CASE EraseHelper(t) \/ Unlist(t) \/ PublishDelete(t)
  <2>1. Others(t) /\ req'[t].at \in {"unlist", "publish", "idle"}
    BY <1>4, DeleteKeepsIInv
  <2>2. RestoringOK(t)' /\ HeldOK(t)'
    BY <2>1 DEF RestoringOK, HeldOK, At
  <2>3. CASE EraseHelper(t)
    <3>1. /\ chatInformation' = [chatInformation EXCEPT ![req[t].session] = 0]
          /\ deleted' = deleted \cup {req[t].session}
          /\ UNCHANGED <<writes, heap, loaded, unseen, torn>>
      BY <2>3 DEF EraseHelper, races
    <3>2. ASSUME NEW j \in DOMAIN log, log[j].session \notin deleted', j \in Covered PROVE j \in Covered'
      <4>1. chatInformation'[log[j].session] = chatInformation[log[j].session]
        BY <1>1, <3>1, <3>2 DEF MemoryOK, LogOK
      <4> QED
        BY <3>1, <3>2, <4>1 DEF Covered, Torn, InMemory, writes
    <3> QED
      BY <2>1, <2>2, <3>1, <3>2, StepKeepsCacheInv DEF writes
  <2>4. CASE Unlist(t)
    BY <2>1, <2>2, <2>4, QuietKeepsCacheInv DEF Unlist, writes, history, unraced, races
  <2>5. CASE PublishDelete(t)
    <3> DEFINE sql == [kind |-> "delete", session |-> req[t].session]
    <3>1. Writes!Submit(sql) /\ Inserting(0) /\ UNCHANGED <<memory, deleted, unseen, torn>>
          /\ req[t].session \in Sessions
      BY <1>1, <2>5 DEF PublishDelete, ReqOK, PlaceOK, At, MemoryOK, history, unraced, races
    <3>2. Recorded(sql, 0)
      BY <1>1, <3>1, RecordEffect DEF Writes!Statements, StoreOK
    <3>3. DOMAIN log' = DOMAIN log \cup {Len(log) + 1} /\ log'[Len(log) + 1] = sql
          /\ \A i \in DOMAIN log : log'[i] = log[i] /\ message'[i] = message[i]
      BY <1>1, <3>2 DEF StoreOK, Recorded
    <3>4. Covered \subseteq Covered'
      BY <3>1, <3>3 DEF Covered, Torn, InMemory, memory
    <3>5. \A i \in DOMAIN log' \ DOMAIN log : log'[i].kind # "insert"
      BY <3>3
    <3> HIDE DEF sql
    <3> QED
      BY <2>1, <2>2, <3>1, <3>3, <3>4, <3>5, StepKeepsCacheInv DEF memory
  <2> QED
    BY <1>4, <2>3, <2>4, <2>5
<1> QED
  BY <1>2, <1>3, <1>4

LEMMA NextKeepsCacheInv == IInv /\ CacheInv /\ [Next]_vars => CacheInv'
<1> SUFFICES ASSUME IInv, CacheInv, [Next]_vars PROVE CacheInv'
  OBVIOUS
<1>1. TypeOK /\ req \in [Threads -> RequestSet]
  BY DEF IInv, TypeOK
<1>2. ASSUME NEW t \in Threads, Requests(t) PROVE CacheInv'
  <2>1. Others(t) /\ req'[t].at = "check" /\ UNCHANGED <<writes, memory, deleted, unseen, torn>>
    BY <1>1, <1>2, RequestEffect DEF races
  <2> QED
    BY <2>1, QuietKeepsCacheInv DEF RestoringOK, HeldOK, At, writes, memory
<1>3. ASSUME NEW t \in Threads,
             \/ CheckLoaded(t) \/ Query(t) \/ QueryThrows(t)
             \/ SkipRow(t) \/ NextThrows(t) \/ MarkLoaded(t)
      PROVE  CacheInv'
  BY <1>3, LoadKeepsCacheInv
<1>4. ASSUME NEW t \in Threads, RestoreRow(t) PROVE CacheInv'
  BY <1>4, RestoreKeepsCacheInv
<1>5. ASSUME NEW t \in Threads, List(t) \/ ChatThrows(t) \/ PublishDeleteThrows(t) PROVE CacheInv'
  <2>1. Finish(t) /\ UNCHANGED <<writes, memory, deleted, unseen, torn>>
    BY <1>5 DEF List, ChatThrows, PublishDeleteThrows, history, unraced, races
  <2>2. Others(t) /\ req'[t] = Free
    BY <1>1, <2>1, FinishEffect
  <2> QED
    BY <2>1, <2>2, FreeTyped, QuietKeepsCacheInv DEF RestoringOK, HeldOK, At, writes, memory
<1>6. ASSUME NEW t \in Threads, PushBack(t) \/ Publishes(t) PROVE CacheInv'
  BY <1>6, PushKeepsCacheInv, InsertKeepsCacheInv
<1>12. ASSUME NEW t \in Threads, ReadClock(t) PROVE CacheInv'
  <2>1. /\ Others(t) /\ Moved(req'[t], req[t], "push")
        /\ UNCHANGED <<log, message, memory, deleted, unseen, torn>>
    BY <1>12, ClockKeepsIInv DEF unraced
  <2> QED
    BY <2>1, QuietKeepsCacheInv DEF RestoringOK, HeldOK, At, Moved, memory
<1>7. ASSUME NEW t \in Threads,
             \/ History(t) \/ GetHelper(t) \/ (\E s \in Sessions : ListNewSession(t, s))
             \/ EraseHelper(t) \/ Unlist(t) \/ PublishDelete(t)
      PROVE  CacheInv'
  BY <1>7, HandlersKeepCacheInv
<1>8. CASE Restart
  <2>1. (\A t \in Threads : req'[t] = Free) /\ loaded' = FALSE
    BY <1>8, RestartKeepsIInv DEF Restart
  <2> QED
    BY <2>1, FreeTyped DEF CacheInv, CacheComplete, At
<1>9. CASE UNCHANGED <<log, message, chatInformation, heap, loaded, req, deleted, unseen, torn>>
  BY <1>9 DEF CacheInv, CacheComplete, At, InMemory, Inserts, Unread, Torn
<1>10. ASSUME NEW i \in outstanding, Execute(i) PROVE CacheInv'
  BY <1>9, <1>10 DEF Execute, Writes!Apply, memory, races
<1>11. CASE UNCHANGED vars
  BY <1>9, <1>11 DEF vars, writes, memory, history, unraced, races
<1> QED
  BY <1>2, <1>3, <1>4, <1>5, <1>6, <1>7, <1>8, <1>10, <1>11, <1>12 DEF Next, Publishes

(* Once a user is loaded, every message of a session nobody deleted is in  *)
(* memory, except those the table did not have when it was read, those     *)
(* whose row could not be read and those a data race tore out.             *)
THEOREM CacheCorrect == Spec => []CacheComplete
<1>1. Init => CacheInv
  BY FreeTyped DEF Init, CacheInv, CacheComplete, At
<1>2. CacheInv => CacheComplete
  BY DEF CacheInv
<1> QED
  BY <1>1, <1>2, IInvCorrect, NextKeepsCacheInv, PTL DEF Spec

-----------------------------------------------------------------------------
(* What is in memory is published, once                                    *)

(* What an AIHelper has is a message with a time stamp.                    *)
LEMMA HeapTyped ==
  ASSUME IInv, NEW h \in DOMAIN heap
  PROVE  /\ heap[h] \in Seq(1..stamped) /\ Len(heap[h]) \in Nat /\ DOMAIN heap[h] = 1..Len(heap[h])
         /\ \A j \in DOMAIN heap[h] : heap[h][j] \in 1..stamped /\ heap[h][j] # 0
         /\ stamped \in Nat
<1>1. heap \in Seq(Seq(1..stamped)) /\ stamped \in Nat
  BY DEF IInv, TypeOK
<1>2. heap[h] \in Seq(1..stamped)
  BY <1>1
<1> QED
  BY <1>1, <1>2

LEMMA BeforeTyped == ASSUME IInv, NEW g PROVE Before(g) \in Seq(1..stamped)
<1>1. CASE g \in DOMAIN heap
  BY <1>1, HeapTyped DEF Before
<1>2. CASE g \notin DOMAIN heap
  BY <1>2 DEF Before
<1> QED
  BY <1>1, <1>2

HoldingOK(t) == req[t].at \in Holding =>
  /\ \A i \in DOMAIN log : message[i] # req[t].message
  /\ \A u \in Threads \ {t} : ~ Holds(u, req[t].message)

LEMMA QuietKeepsNumberInv ==
  ASSUME NumberInv, NEW t, Others(t), UNCHANGED <<log, message>>,
         t \in Threads /\ req'[t].at \in Holding =>
           req[t].at \in Holding /\ req'[t].message = req[t].message
  PROVE  NumberInv'
<1>1. \A u \in Threads : req'[u].at \in Holding =>
        req[u].at \in Holding /\ req'[u].message = req[u].message
  BY DEF Others
<1>2. \A u \in Threads : \A m : Holds(u, m)' => Holds(u, m)
  BY <1>1 DEF Holds, Holding
<1> QED
  BY <1>1, <1>2 DEF NumberInv

(* A new number is greater than all there are.                             *)
LEMMA ClockKeepsNumberInv ==
  ASSUME IInv, NumberInv, NEW t \in Threads, ReadClock(t)
  PROVE  NumberInv'
<1> DEFINE n == stamped + 1
<1>1. /\ Others(t) /\ req'[t].message = n /\ UNCHANGED <<log, message>>
  BY ClockKeepsIInv
<1>2. StoreOK /\ \A u \in Threads : ReqOK(u)
  BY Parts
<1>3. \A i \in DOMAIN log : message[i] # n
  <2>1. \A i \in DOMAIN log : message[i] \in 0..stamped
    BY <1>2 DEF StoreOK
  <2> QED
    BY <1>2, <2>1 DEF StoreOK
<1>4. \A u \in Threads : ~ Holds(u, n)
  <2>1. \A u \in Threads : req[u].at \in Holding => req[u].message \in 1..stamped
    BY <1>2 DEF ReqOK, PlaceOK
  <2> QED
    BY <1>2, <2>1 DEF Holds, Holding, StoreOK
<1> HIDE DEF n
<1>5. ASSUME NEW u \in Threads, req'[u].at \in Holding PROVE HoldingOK(u)'
  <2>1. CASE u = t
    BY <1>1, <1>3, <1>4, <2>1 DEF HoldingOK, Holds, Others
  <2>2. CASE u # t
    <3>1. req'[u] = req[u] /\ req[u].at \in Holding
      BY <1>1, <1>5, <2>2 DEF Others
    <3>2. \A i \in DOMAIN log : message[i] # req[u].message
      BY <3>1 DEF NumberInv
    <3>3. ASSUME NEW v \in Threads \ {u} PROVE ~ Holds(v, req[u].message)'
      <4>1. CASE v = t
        BY <1>1, <1>4, <3>1, <4>1 DEF Holds, Holding
      <4>2. CASE v # t
        BY <1>1, <3>1, <4>2 DEF NumberInv, Holds, Others
      <4> QED
        BY <4>1, <4>2
    <3> QED
      BY <1>1, <3>1, <3>2, <3>3 DEF HoldingOK, Holds
  <2> QED
    BY <2>1, <2>2
<1> QED
  BY <1>1, <1>5 DEF NumberInv, HoldingOK

(* A statement more, whose message is that of the thread, or none.         *)
LEMMA RecordKeepsNumberInv ==
  ASSUME IInv, NumberInv, NEW t \in Threads, Others(t), req'[t].at \notin Holding,
         NEW sql, NEW m, Recorded(sql, m), DOMAIN log' = DOMAIN log \cup {Len(log) + 1},
         m # 0 => req[t].at \in Holding /\ req[t].message = m
  PROVE  NumberInv'
<1> DEFINE n == Len(log) + 1
<1>1. message'[n] = m /\ \A i \in DOMAIN log : message'[i] = message[i]
  BY DEF Recorded
<1>2. \A i \in DOMAIN log : m # 0 => message[i] # m
  BY DEF NumberInv
<1> HIDE DEF n
<1>3. \A i, j \in DOMAIN log' : message'[i] = message'[j] /\ message'[i] # 0 => i = j
  BY <1>1, <1>2 DEF NumberInv, n
<1>4. ASSUME NEW u \in Threads, req'[u].at \in Holding PROVE HoldingOK(u)'
  <2>1. u # t /\ req'[u] = req[u] /\ req[u].at \in Holding /\ req[u].message \in 1..stamped
    BY <1>4, Parts DEF Others, ReqOK, PlaceOK
  <2>2. ~ Holds(u, m) \/ m = 0
    BY <2>1 DEF NumberInv
  <2>3. m # req[u].message
    BY <2>1, <2>2 DEF Holds, Holding
  <2>4. \A i \in DOMAIN log' : message'[i] # req'[u].message
    BY <1>1, <2>1, <2>3 DEF NumberInv, n
  <2>5. \A v \in Threads \ {u} : Holds(v, req[u].message)' => Holds(v, req[u].message)
    BY <2>1 DEF Holds, Holding, Others
  <2>6. \A v \in Threads \ {u} : ~ Holds(v, req[u].message)
    BY <2>1 DEF NumberInv
  <2> QED
    BY <2>1, <2>4, <2>5, <2>6 DEF HoldingOK, Holds
<1> QED
  BY <1>3, <1>4 DEF NumberInv, HoldingOK

(* Message m is in the log, or a thread is about to publish it.            *)
Vouched(m) ==
  \/ \E i \in DOMAIN log : message[i] = m
  \/ \E t \in Threads : At(t, "insert") /\ req[t].message = m

LEMMA StepKeepsPublishedInv ==
  ASSUME PublishedInv, NEW t, Others(t),
         \A i \in DOMAIN log : i \in DOMAIN log' /\ message'[i] = message[i],
         \A m : t \in Threads /\ At(t, "insert") /\ req[t].message = m => Vouched(m)',
         \A h \in DOMAIN heap' : \A k \in DOMAIN heap'[h] :
           \/ h \in DOMAIN heap /\ k \in DOMAIN heap[h] /\ heap'[h][k] = heap[h][k]
           \/ \E i \in DOMAIN log' : message'[i] = heap'[h][k]
           \/ \E u \in Threads : At(u, "insert")' /\ req'[u].message = heap'[h][k]
  PROVE  PublishedInv'
<1>1. ASSUME NEW m, Vouched(m) PROVE Vouched(m)'
  <2>1. CASE \E i \in DOMAIN log : message[i] = m
    BY <2>1 DEF Vouched
  <2>2. ASSUME NEW u \in Threads, At(u, "insert"), req[u].message = m PROVE Vouched(m)'
    <3>1. CASE u = t
      BY <2>2, <3>1
    <3>2. CASE u # t
      BY <2>2, <3>2 DEF Vouched, Others, At
    <3> QED
      BY <3>1, <3>2
  <2> QED
    BY <1>1, <2>1, <2>2 DEF Vouched
<1> SUFFICES ASSUME NEW h \in DOMAIN heap', NEW k \in DOMAIN heap'[h]
             PROVE  \/ \E i \in DOMAIN log' : message'[i] = heap'[h][k]
                    \/ \E u \in Threads : At(u, "insert")' /\ req'[u].message = heap'[h][k]
  BY DEF PublishedInv
<1>2. CASE h \in DOMAIN heap /\ k \in DOMAIN heap[h] /\ heap'[h][k] = heap[h][k]
  <2>1. Vouched(heap[h][k])
    BY <1>2 DEF PublishedInv, Vouched
  <2>2. PICK m : m = heap[h][k]
    OBVIOUS
  <2>3. Vouched(m)'
    BY <1>1, <2>1, <2>2
  <2> QED
    BY <1>2, <2>2, <2>3 DEF Vouched
<1> QED
  BY <1>2

(* A step that leaves messages and AIHelpers alone.                        *)
LEMMA QuietKeepsPublishing ==
  ASSUME NumberInv, PublishedInv, NEW t, Others(t), UNCHANGED <<log, message>>,
         t \in Threads => req'[t].at \notin Holding /\ ~ At(t, "insert"),
         \A h \in DOMAIN heap' : heap'[h] = Before(h)
  PROVE  NumberInv' /\ PublishedInv'
<1>1. NumberInv'
  BY QuietKeepsNumberInv
<1>2. ASSUME NEW h \in DOMAIN heap', NEW k \in DOMAIN heap'[h]
      PROVE  h \in DOMAIN heap /\ k \in DOMAIN heap[h] /\ heap'[h][k] = heap[h][k]
  BY <1>2 DEF Before
<1>3. PublishedInv'
  BY <1>2, StepKeepsPublishedInv
<1> QED
  BY <1>1, <1>3

(* An AIHelper gets a message that is vouched for.                         *)
LEMMA GetsKeepsPublishedInv ==
  ASSUME IInv, PublishedInv, NEW t \in Threads, Others(t), ~ At(t, "insert"),
         UNCHANGED <<log, message>>, NEW h, NEW m, Gets(h, m), Vouched(m)'
  PROVE  PublishedInv'
<1>1. ASSUME NEW g \in DOMAIN heap', NEW k \in DOMAIN heap'[g]
      PROVE  \/ g \in DOMAIN heap /\ k \in DOMAIN heap[g] /\ heap'[g][k] = heap[g][k]
             \/ heap'[g][k] = m
  <2>1. PICK s \in Seq(1..stamped) : s = Before(g)
    BY BeforeTyped
  <2>2. heap'[g] = s \/ heap'[g] = Append(s, m)
    BY <2>1 DEF Gets
  <2>3. \/ k \in DOMAIN s /\ heap'[g][k] = s[k]
        \/ heap'[g][k] = m
    BY <1>1, <2>1, <2>2
  <2>4. k \in DOMAIN s => g \in DOMAIN heap /\ s = heap[g]
    BY <2>1 DEF Before
  <2> QED
    BY <2>3, <2>4
<1>2. \A x : x = m => \/ \E i \in DOMAIN log' : message'[i] = x
                      \/ \E u \in Threads : At(u, "insert")' /\ req'[u].message = x
  BY DEF Vouched
<1> QED
  BY <1>1, <1>2, StepKeepsPublishedInv

LEMMA AddKeepsPublishing ==
  ASSUME IInv, NumberInv, PublishedInv, NEW t \in Threads,
         ReadClock(t) \/ PushBack(t) \/ Publishes(t) \/ RestoreRow(t)
  PROVE  NumberInv' /\ PublishedInv'
<1>1. CASE ReadClock(t)
  <2>1. Others(t) /\ UNCHANGED <<log, message, heap>> /\ req[t].at = "add"
    BY <1>1, ClockKeepsIInv DEF memory, ReadClock, At
  <2>2. PublishedInv'
    BY <2>1, StepKeepsPublishedInv DEF At
  <2> QED
    BY <1>1, <2>2, ClockKeepsNumberInv
<1>2. CASE PushBack(t)
  <2>1. /\ Others(t) /\ Moved(req'[t], req[t], "insert") /\ req'[t].message = req[t].message
        /\ At(t, "push") /\ Gets(req[t].helper, req[t].message) /\ UNCHANGED <<log, message>>
    BY <1>2, PushKeepsIInv DEF writes
  <2>2. NumberInv'
    BY <2>1, QuietKeepsNumberInv DEF At, Holding
  <2>3. PICK h, m : h = req[t].helper /\ m = req[t].message
    OBVIOUS
  <2>4. Vouched(m)' /\ ~ At(t, "insert")
    BY <2>1, <2>3 DEF Vouched, At, Moved
  <2> QED
    BY <2>1, <2>2, <2>3, <2>4, GetsKeepsPublishedInv
<1>3. CASE Publishes(t)
  <2>1. /\ At(t, "insert") /\ Recorded(Insertion(t), req[t].message)
        /\ DOMAIN log' = DOMAIN log \cup {Len(log) + 1} /\ heap' = heap /\ Others(t)
        /\ req'[t].at \notin Holding
    BY <1>3, InsertKeepsIInv, FreeTyped DEF memory, Moved, Holding
  <2>2. NumberInv'
    BY <2>1, RecordKeepsNumberInv DEF At, Holding
  <2>3. \A i \in DOMAIN log : i \in DOMAIN log' /\ message'[i] = message[i]
    BY <2>1 DEF Recorded
  <2>4. PICK m : m = req[t].message
    OBVIOUS
  <2>5. Vouched(m)'
    BY <2>1, <2>4 DEF Recorded, Vouched
  <2>6. PublishedInv'
    BY <2>1, <2>3, <2>4, <2>5, StepKeepsPublishedInv
  <2> QED
    BY <2>2, <2>6
<1>4. CASE RestoreRow(t)
  <2>1. PICK i \in NextRows(t) : RowRead(t, i) /\ RowRestored(i)
    BY <1>4, RestoreEffect
  <2>2. Others(t) /\ req'[t].at = req[t].at /\ At(t, "restore") /\ i \in DOMAIN log
    BY <1>4, <2>1, Parts, RowEffect DEF RestoreRow, IInv
  <2>3. PICK h, m : h = chatInformation'[log[i].session] /\ m = message[i]
    OBVIOUS
  <2>4. Gets(h, m) /\ UNCHANGED <<log, message>>
    BY <2>1, <2>3 DEF RowRestored, writes
  <2>5. Vouched(m)' /\ ~ At(t, "insert")
    BY <2>2, <2>3, <2>4 DEF Vouched, At
  <2>6. NumberInv'
    BY <2>2, <2>4, QuietKeepsNumberInv DEF At, Holding
  <2> QED
    BY <2>2, <2>4, <2>5, <2>6, GetsKeepsPublishedInv
<1> QED
  BY <1>1, <1>2, <1>3, <1>4

LEMMA LoadKeepsPublishing ==
  ASSUME IInv, NumberInv, PublishedInv, NEW t \in Threads,
         CheckLoaded(t) \/ Query(t) \/ QueryThrows(t) \/ SkipRow(t) \/ NextThrows(t) \/ MarkLoaded(t)
  PROVE  NumberInv' /\ PublishedInv'
<1>1. TypeOK /\ req \in [Threads -> RequestSet]
  BY DEF IInv, TypeOK
<1>2. /\ UNCHANGED <<log, message, heap>> /\ ~ At(t, "insert")
  BY DEF CheckLoaded, Query, QueryThrows, SkipRow, NextThrows, MarkLoaded, RestoreDone, At,
         writes, memory
<1>3. Others(t) /\ req'[t].at \notin Holding
  <2>1. CASE CheckLoaded(t) \/ QueryThrows(t)
    <3>1. PICK l \in {"body", "query"} : Goto(t, l)
      BY <2>1 DEF CheckLoaded, QueryThrows
    <3> QED
      BY <1>1, <3>1, GotoEffect DEF Places, Moved, Holding
  <2>2. CASE Query(t)
    BY <1>1, <2>2, QueryEffect DEF Holding
  <2>3. CASE SkipRow(t)
    BY <1>1, <2>3, RowEffect DEF SkipRow, At, Holding
  <2>4. CASE NextThrows(t)
    BY <1>1, <2>4, FinishEffect, FreeTyped DEF NextThrows, Holding
  <2>5. CASE MarkLoaded(t)
    BY <1>1, <2>5 DEF MarkLoaded, Others, RequestSet, Holding
  <2> QED
    BY <2>1, <2>2, <2>3, <2>4, <2>5
<1>4. \A h \in DOMAIN heap' : heap'[h] = Before(h)
  BY <1>2 DEF Before
<1> QED
  BY <1>2, <1>3, <1>4, QuietKeepsPublishing

LEMMA DeleteRecorded ==
  ASSUME IInv, NEW t \in Threads, PublishDelete(t)
  PROVE  /\ Recorded([kind |-> "delete", session |-> req[t].session], 0)
         /\ DOMAIN log' = DOMAIN log \cup {Len(log) + 1}
<1> DEFINE sql == [kind |-> "delete", session |-> req[t].session]
<1>1. TypeOK /\ StoreOK /\ MemoryOK /\ ReqOK(t)
  BY Parts DEF IInv
<1>2. Writes!Submit(sql) /\ Inserting(0) /\ req[t].session \in Sessions
  BY <1>1 DEF PublishDelete, ReqOK, PlaceOK, At, MemoryOK
<1>3. Recorded(sql, 0)
  BY <1>1, <1>2, RecordEffect DEF Writes!Statements, StoreOK
<1>4. DOMAIN log' = DOMAIN log \cup {Len(log) + 1}
  BY <1>1, <1>3 DEF StoreOK, Recorded
<1> QED
  BY <1>3, <1>4

LEMMA NextKeepsPublishing ==
  IInv /\ NumberInv /\ PublishedInv /\ [Next]_vars => NumberInv' /\ PublishedInv'
<1> SUFFICES ASSUME IInv, NumberInv, PublishedInv, [Next]_vars PROVE NumberInv' /\ PublishedInv'
  OBVIOUS
<1> DEFINE Kept == NumberInv' /\ PublishedInv'
<1>1. TypeOK /\ StoreOK /\ MemoryOK /\ req \in [Threads -> RequestSet]
  BY Parts DEF IInv
<1>2. heap' = heap => \A h \in DOMAIN heap' : heap'[h] = Before(h)
  BY DEF Before
<1> HIDE DEF Kept
<1>0. ASSUME NEW t, Others(t), UNCHANGED <<log, message>>, \A h \in DOMAIN heap' : heap'[h] = Before(h),
             t \in Threads => req'[t].at \notin Holding /\ ~ At(t, "insert")
      PROVE  Kept
  BY <1>0, QuietKeepsPublishing DEF Kept
<1>3. ASSUME NEW t \in Threads, Requests(t) PROVE Kept
  <2>1. Others(t) /\ req'[t].at = "check" /\ UNCHANGED <<log, message, heap>> /\ ~ At(t, "insert")
    BY <1>1, <1>3, RequestEffect DEF Requests, Request, At, writes, memory
  <2> QED
    BY <1>2, <1>0, <2>1 DEF Holding
<1>4. ASSUME NEW t \in Threads,
             \/ CheckLoaded(t) \/ Query(t) \/ QueryThrows(t)
             \/ SkipRow(t) \/ NextThrows(t) \/ MarkLoaded(t)
      PROVE  Kept
  BY <1>4, LoadKeepsPublishing DEF Kept
<1>5. ASSUME NEW t \in Threads, ReadClock(t) \/ PushBack(t) \/ Publishes(t) \/ RestoreRow(t) PROVE Kept
  BY <1>5, AddKeepsPublishing DEF Kept
<1>6. ASSUME NEW t \in Threads, List(t) \/ ChatThrows(t) \/ PublishDeleteThrows(t) PROVE Kept
  <2>1. Finish(t) /\ UNCHANGED <<log, message, heap>> /\ ~ At(t, "insert")
    BY <1>6 DEF List, ChatThrows, PublishDeleteThrows, At, writes, memory
  <2>2. Others(t) /\ req'[t] = Free
    BY <1>1, <2>1, FinishEffect
  <2> QED
    BY <1>2, <1>0, <2>1, <2>2, FreeTyped DEF Holding
<1>7. ASSUME NEW t \in Threads, History(t) \/ GetHelper(t) PROVE Kept
  <2>1. /\ Others(t) /\ req[t].session \in Sessions
        /\ FindOrMake(req[t].session) /\ req'[t].at \in {"idle", "add"}
    BY <1>1, <1>7, HelperKeepsIInv DEF MemoryOK
  <2>2. \A h \in DOMAIN heap' : heap'[h] = Before(h)
    BY <1>1, <2>1, FindOrMakeEffect
  <2>3. UNCHANGED <<log, message>> /\ ~ At(t, "insert")
    BY <1>7 DEF History, GetHelper, At, writes
  <2> QED
    BY <1>0, <2>1, <2>2, <2>3 DEF Holding
<1>8. ASSUME NEW t \in Threads, NEW s \in Sessions, ListNewSession(t, s) PROVE Kept
  <2>1. Others(t) /\ req'[t].at = "body" /\ UNCHANGED <<log, message, heap>> /\ ~ At(t, "insert")
    BY <1>8, NewSessionKeepsIInv DEF ListNewSession, At, writes
  <2> QED
    BY <1>2, <1>0, <2>1 DEF Holding
<1>9. ASSUME NEW t \in Threads, EraseHelper(t) \/ Unlist(t) PROVE Kept
  <2>1. Others(t) /\ req'[t].at \in {"unlist", "publish", "idle"}
        /\ UNCHANGED <<log, message, heap>> /\ ~ At(t, "insert")
    BY <1>9, DeleteKeepsIInv DEF EraseHelper, Unlist, At, writes
  <2> QED
    BY <1>2, <1>0, <2>1 DEF Holding
<1>10. ASSUME NEW t \in Threads, PublishDelete(t) PROVE Kept
  <2> DEFINE sql == [kind |-> "delete", session |-> req[t].session]
  <2>1. Others(t) /\ req'[t].at \in {"unlist", "publish", "idle"} /\ ~ At(t, "insert")
    BY <1>10, DeleteKeepsIInv DEF PublishDelete, At
  <2>2. Recorded(sql, 0) /\ DOMAIN log' = DOMAIN log \cup {Len(log) + 1} /\ heap' = heap
    BY <1>10, DeleteRecorded DEF PublishDelete, memory
  <2>3. NumberInv'
    <3> HIDE DEF sql
    <3> QED
      BY <2>1, <2>2, RecordKeepsNumberInv DEF Holding
  <2>4. \A i \in DOMAIN log : i \in DOMAIN log' /\ message'[i] = message[i]
    BY <2>2 DEF Recorded
  <2>5. PublishedInv'
    BY <2>1, <2>2, <2>4, StepKeepsPublishedInv
  <2> QED
    BY <2>3, <2>5 DEF Kept
<1>11. ASSUME UNCHANGED <<log, message, heap, req>> PROVE Kept
  <2>1. PICK t : t \notin Threads
    BY NoSetContainsEverything
  <2> QED
    BY <1>2, <1>0, <1>11, <2>1 DEF Others
<1>12. ASSUME NEW i \in outstanding, Execute(i) PROVE Kept
  BY <1>11, <1>12 DEF Execute, Writes!Apply, memory
<1>13. ASSUME UNCHANGED vars PROVE Kept
  BY <1>11, <1>13 DEF vars, writes, memory
<1>14. ASSUME Restart PROVE Kept
  <2>1. (\A t \in Threads : req'[t].at = "idle") /\ heap' = <<>> /\ UNCHANGED <<log, message>>
    BY <1>14, RestartKeepsIInv, FreeTyped DEF Restart, writes
  <2> QED
    BY <2>1 DEF NumberInv, PublishedInv, Kept, Holding
<1>15. Kept
  BY <1>3, <1>4, <1>5, <1>6, <1>7, <1>8, <1>9, <1>10, <1>12, <1>13, <1>14 DEF Next, Publishes
<1> QED
  BY <1>15 DEF Kept

LEMMA InitPublishing == Init => NumberInv /\ PublishedInv
<1> SUFFICES ASSUME Init PROVE NumberInv /\ PublishedInv
  OBVIOUS
<1>1. DOMAIN log = DOMAIN Stored /\ message = [i \in DOMAIN Stored |-> i]
      /\ heap = <<>> /\ \A t \in Threads : req[t].at = "idle"
  BY FreeTyped DEF Init
<1> QED
  BY <1>1 DEF NumberInv, PublishedInv, Holding

(* No message is in memory only, but for a moment, and none is published   *)
(* twice, however often loads restore it and the queue executes it.        *)
THEOREM PublishedCorrect == Spec => []MemoryIsPublished
<1>1. Init => NumberInv /\ PublishedInv
  BY InitPublishing
<1>2. IInv /\ NumberInv /\ PublishedInv => MemoryIsPublished
  <2> SUFFICES ASSUME IInv, NumberInv, PublishedInv, NEW h \in DOMAIN heap, NEW k \in DOMAIN heap[h],
                      NEW m, m = heap[h][k]
               PROVE  LET published == {i \in DOMAIN log : message[i] = m}
                      IN \/ \E i \in published : published = {i}
                         \/ published = {} /\ \E t \in Threads : At(t, "insert") /\ Holds(t, m)
    BY DEF MemoryIsPublished, Range
  <2>1. m # 0
    BY HeapTyped
  <2>2. CASE \E i \in DOMAIN log : message[i] = m
    BY <2>1, <2>2 DEF NumberInv
  <2>3. CASE ~ \E i \in DOMAIN log : message[i] = m
    BY <2>3 DEF PublishedInv, Holds, At
  <2> QED
    BY <2>2, <2>3
<1> QED
  BY <1>1, <1>2, IInvCorrect, NextKeepsPublishing, PTL DEF Spec

-----------------------------------------------------------------------------
(* A single load is faithful                                               *)

OrderedOK == \A h \in DOMAIN heap : \A i, j \in DOMAIN heap[h] :
  i < j => MayFollow(heap[h][i], heap[h][j])
FirstOK == queries = 0 =>
  heap = <<>> /\ ~ loaded /\ ~ failed /\ \A t \in Threads : ~ At(t, "restore")
AloneOK(t) == At(t, "restore") =>
  /\ ~ loaded /\ ~ failed
  /\ \A u \in Threads \ {t} : ~ At(u, "restore")
  /\ \A h \in DOMAIN heap : \A j \in DOMAIN heap[h] : \A i \in Unread(t) :
       MayFollow(heap[h][j], message[i])
PushingOK(t) == At(t, "push") =>
  \A j \in DOMAIN heap[req[t].helper] : MayFollow(heap[req[t].helper][j], req[t].message)
PairOK(t, u) ==
  At(t, "push") /\ At(u, "push") /\ req[t].helper = req[u].helper /\ req[t].message < req[u].message
    => <<req[t].message, req[u].message>> \in overlapped

LEMMA OrderParts ==
  OrderInv <=> /\ FirstOK
               /\ queries <= 1 => OrderedOK /\ \A t \in Threads : AloneOK(t) /\ PushingOK(t)
               /\ \A t, u \in Threads : PairOK(t, u)
<1>1. (\A t, u \in Threads : PairOK(t, u)) <=>
        \A t, u \in Threads :
          Adding(t, req[u].helper) /\ At(u, "push") /\ req[t].message < req[u].message
            => <<req[t].message, req[u].message>> \in overlapped
  BY DEF PairOK, Adding
<1> QED
  BY <1>1 DEF OrderInv, SingleLoadIsFaithful, OrderedOK, FirstOK, AloneOK, PushingOK

(* The same behind a step.                                                 *)
MayFollowThen(m, n) ==
  \/ m < n
  \/ m # n /\ SameTs(m, n)
  \/ m = n /\ \E i \in DOMAIN log' : message'[i] = m /\ applied'[i] > 1
  \/ <<n, m>> \in overlapped'

Onward ==
  /\ \A i \in DOMAIN log : /\ i \in DOMAIN log' /\ message'[i] = message[i]
                           /\ applied'[i] \in Nat /\ applied[i] <= applied'[i]
  /\ overlapped \subseteq overlapped'

LEMMA StillMayFollow ==
  ASSUME IInv, Onward, NEW m, NEW n, MayFollow(m, n)
  PROVE  MayFollowThen(m, n)
<1>1. \A i \in DOMAIN log : applied[i] \in Nat
  BY DEF IInv, TypeOK
<1>2. ASSUME NEW i \in DOMAIN log, message[i] = m, applied[i] > 1
      PROVE  i \in DOMAIN log' /\ message'[i] = m /\ applied'[i] > 1
  BY <1>1, <1>2 DEF Onward
<1>3. Repeated(m) => \E i \in DOMAIN log' : message'[i] = m /\ applied'[i] > 1
  BY <1>2 DEF Repeated
<1> QED
  BY <1>3 DEF MayFollow, MayFollowThen, Onward

LEMMA OrderPartsThen ==
  /\ OrderedOK' <=> \A h \in DOMAIN heap' : \A i, j \in DOMAIN heap'[h] :
                      i < j => MayFollowThen(heap'[h][i], heap'[h][j])
  /\ \A t : AloneOK(t)' <=>
        (At(t, "restore")' =>
           /\ ~ loaded' /\ ~ failed'
           /\ \A u \in Threads \ {t} : ~ At(u, "restore")'
           /\ \A h \in DOMAIN heap' : \A j \in DOMAIN heap'[h] : \A i \in Unread(t)' :
                MayFollowThen(heap'[h][j], message'[i]))
  /\ \A t : PushingOK(t)' <=>
        (At(t, "push")' =>
           \A j \in DOMAIN heap'[req'[t].helper] :
             MayFollowThen(heap'[req'[t].helper][j], req'[t].message))
  BY DEF OrderedOK, AloneOK, PushingOK, MayFollow, MayFollowThen, Repeated

LEMMA OrderFromParts ==
  ASSUME FirstOK',
         queries' <= 1 => OrderedOK' /\ \A t \in Threads : AloneOK(t)' /\ PushingOK(t)',
         \A t, u \in Threads : PairOK(t, u)'
  PROVE  OrderInv'
<1>1. \A t, u \in Threads :
        Adding(t, req[u].helper)' /\ At(u, "push")' /\ req'[t].message < req'[u].message
          => <<req'[t].message, req'[u].message>> \in overlapped'
  BY DEF PairOK, Adding
<1> QED
  BY <1>1 DEF OrderInv, SingleLoadIsFaithful, OrderedOK, FirstOK, AloneOK, PushingOK

(* Pairs are of threads that both had a time stamp already.                *)
LEMMA PairsKept ==
  ASSUME OrderInv, NEW t, Others(t), t \in Threads => ~ At(t, "push")',
         overlapped \subseteq overlapped'
  PROVE  \A u, v \in Threads : PairOK(u, v)'
<1> SUFFICES ASSUME NEW u \in Threads, NEW v \in Threads, At(u, "push")', At(v, "push")'
             PROVE  PairOK(u, v)'
  BY DEF PairOK
<1>1. req'[u] = req[u] /\ req'[v] = req[v]
  BY DEF Others
<1>2. PairOK(u, v)
  BY OrderParts
<1> QED
  BY <1>1, <1>2 DEF PairOK, At

(* A step that pushes nothing and starts no load.                          *)
LEMMA QuietKeepsOrderInv ==
  ASSUME IInv, OrderInv, NEW t, Others(t), UNCHANGED <<loaded, queries, failed>>, Onward,
         DOMAIN heap \subseteq DOMAIN heap', \A h \in DOMAIN heap' : heap'[h] = Before(h),
         queries = 0 => heap' = heap,
         t \in Threads => ~ At(t, "push")',
         t \in Threads /\ At(t, "restore")' => At(t, "restore") /\ Unread(t)' \subseteq Unread(t)
  PROVE  OrderInv'
<1>1. /\ FirstOK
      /\ queries <= 1 => OrderedOK /\ \A u \in Threads : AloneOK(u) /\ PushingOK(u)
  BY OrderParts
<1>2. \A u \in Threads : At(u, "restore")' => At(u, "restore") /\ Unread(u)' \subseteq Unread(u)
  BY DEF Others, At, Unread
<1>3. \A h \in DOMAIN heap' : \A j \in DOMAIN heap'[h] :
        h \in DOMAIN heap /\ j \in DOMAIN heap[h] /\ heap'[h][j] = heap[h][j]
  BY DEF Before
<1>4. queries <= 1 => OrderedOK'
  <2> SUFFICES ASSUME queries <= 1, NEW h \in DOMAIN heap', NEW i \in DOMAIN heap'[h],
                      NEW j \in DOMAIN heap'[h], i < j
               PROVE  MayFollowThen(heap'[h][i], heap'[h][j])
    BY OrderPartsThen
  <2>1. MayFollow(heap[h][i], heap[h][j]) /\ heap'[h][i] = heap[h][i] /\ heap'[h][j] = heap[h][j]
    BY <1>1, <1>3 DEF OrderedOK
  <2> QED
    BY <2>1, StillMayFollow
<1>5. ASSUME queries <= 1, NEW u \in Threads PROVE AloneOK(u)'
  <2>1. At(u, "restore")' => At(u, "restore") /\ Unread(u)' \subseteq Unread(u) /\ AloneOK(u)
    BY <1>1, <1>2, <1>5
  <2>2. ASSUME At(u, "restore")', NEW h \in DOMAIN heap', NEW j \in DOMAIN heap'[h],
               NEW i \in Unread(u)'
        PROVE  MayFollowThen(heap'[h][j], message'[i])
    <3>1. h \in DOMAIN heap /\ j \in DOMAIN heap[h] /\ heap'[h][j] = heap[h][j]
      BY <1>3
    <3>2. i \in Unread(u) /\ i \in DOMAIN log
      BY <2>1, <2>2, UnreadInLog
    <3>3. MayFollow(heap[h][j], message[i])
      BY <2>1, <2>2, <3>1, <3>2 DEF AloneOK
    <3>4. MayFollowThen(heap[h][j], message[i])
      BY <3>3, StillMayFollow
    <3>5. message'[i] = message[i]
      BY <3>2 DEF Onward
    <3> QED
      BY <3>1, <3>4, <3>5
  <2> QED
    BY <1>2, <2>1, <2>2, OrderPartsThen DEF AloneOK
<1>6. ASSUME queries <= 1, NEW u \in Threads PROVE PushingOK(u)'
  <2> SUFFICES ASSUME At(u, "push")', NEW j \in DOMAIN heap'[req'[u].helper]
               PROVE  MayFollowThen(heap'[req'[u].helper][j], req'[u].message)
    BY OrderPartsThen
  <2>1. req'[u] = req[u] /\ At(u, "push")
    BY DEF Others, At
  <2>2. req[u].helper \in DOMAIN heap'
    BY <2>1, Parts DEF ReqOK, Adds, At
  <2>3. /\ j \in DOMAIN heap[req[u].helper]
        /\ heap'[req[u].helper][j] = heap[req[u].helper][j]
    BY <1>3, <2>1, <2>2
  <2>4. MayFollow(heap[req[u].helper][j], req[u].message)
    BY <1>1, <1>6, <2>1, <2>3 DEF PushingOK
  <2>5. MayFollowThen(heap[req[u].helper][j], req[u].message)
    BY <2>4, StillMayFollow
  <2> QED
    BY <2>1, <2>3, <2>5
<1>7. FirstOK'
  BY <1>1, <1>2 DEF FirstOK
<1>8. \A u, v \in Threads : PairOK(u, v)'
  BY PairsKept DEF Onward
<1> QED
  BY <1>4, <1>5, <1>6, <1>7, <1>8, OrderFromParts

(* An AIHelper stays in order when it gets a message that may follow all   *)
(* it has.                                                                 *)
LEMMA GetsKeepsOrder ==
  ASSUME IInv, OrderedOK, Onward, NEW h, NEW n, Gets(h, n),
         \A j \in DOMAIN Before(h) : MayFollowThen(Before(h)[j], n)
  PROVE  OrderedOK'
<1>1. ASSUME NEW g, NEW i \in DOMAIN Before(g), NEW j \in DOMAIN Before(g), i < j
      PROVE  MayFollowThen(Before(g)[i], Before(g)[j])
  <2>1. CASE g \in DOMAIN heap
    <3>1. Before(g) = heap[g]
      BY <2>1 DEF Before
    <3>2. MayFollow(heap[g][i], heap[g][j])
      BY <1>1, <2>1, <3>1 DEF OrderedOK
    <3> QED
      BY <3>1, <3>2, StillMayFollow
  <2>2. CASE g \notin DOMAIN heap
    BY <1>1, <2>2 DEF Before
  <2> QED
    BY <2>1, <2>2
<1> SUFFICES ASSUME NEW g \in DOMAIN heap', NEW i \in DOMAIN heap'[g], NEW j \in DOMAIN heap'[g], i < j
             PROVE  MayFollowThen(heap'[g][i], heap'[g][j])
  BY OrderPartsThen
<1>2. PICK s \in Seq(1..stamped) : s = Before(g)
  BY BeforeTyped
<1>3. \A k, l \in DOMAIN s : k < l => MayFollowThen(s[k], s[l])
  BY <1>1, <1>2
<1>4. CASE heap'[g] = s
  BY <1>3, <1>4
<1>5. CASE g = h /\ heap'[g] = Append(s, n)
  <2>1. /\ Len(s) \in Nat /\ DOMAIN s = 1..Len(s) /\ DOMAIN heap'[g] = 1..Len(s) + 1
        /\ \A k \in DOMAIN s : heap'[g][k] = s[k]
        /\ heap'[g][Len(s) + 1] = n
    BY <1>2, <1>5
  <2>2. i \in DOMAIN s
    BY <2>1
  <2>3. CASE j \in DOMAIN s
    BY <1>3, <2>1, <2>2, <2>3
  <2>4. CASE j = Len(s) + 1
    BY <1>2, <1>5, <2>1, <2>2, <2>4
  <2> QED
    BY <2>1, <2>3, <2>4
<1> QED
  BY <1>2, <1>4, <1>5 DEF Gets

(* What is in an AIHelper behind Gets.                                     *)
LEMMA GetsEntries ==
  ASSUME IInv, NEW h, NEW n, Gets(h, n), NEW g \in DOMAIN heap', NEW j \in DOMAIN heap'[g]
  PROVE  \/ j \in DOMAIN Before(g) /\ heap'[g][j] = Before(g)[j]
         \/ g = h /\ heap'[g][j] = n
<1>1. PICK s \in Seq(1..stamped) : s = Before(g)
  BY BeforeTyped
<1>2. heap'[g] = s \/ (g = h /\ heap'[g] = Append(s, n))
  BY <1>1 DEF Gets
<1> QED
  BY <1>1, <1>2

(* Behind the load a user's rows have been queried.                        *)
LEMMA BehindIsQueried ==
  ASSUME IInv, OrderInv, NEW t \in Threads, req[t].at \in Behind
  PROVE  queries # 0 /\ (queries <= 1 => \A u \in Threads : ~ At(u, "restore"))
<1>1. loaded \/ failed
  BY DEF IInv, PlaceOK
<1> QED
  BY <1>1, OrderParts DEF FirstOK, AloneOK

(* So nobody pushes before the one load has been done.                     *)
LEMMA NobodyPushes ==
  ASSUME IInv, ~ loaded, ~ failed
  PROVE  \A u \in Threads : ~ At(u, "push")
  BY DEF IInv, PlaceOK, Behind, At

LEMMA RestoreKeepsOrderInv ==
  ASSUME IInv, NumberInv, OrderInv, NEW t \in Threads, RestoreRow(t)
  PROVE  OrderInv'
<1>1. TypeOK /\ StoreOK /\ ReqOK(t) /\ req \in [Threads -> RequestSet]
  BY Parts DEF IInv
<1>2. PICK i \in NextRows(t) : RowRead(t, i) /\ RowRestored(i)
  BY RestoreEffect
<1>3. UNCHANGED <<writes, loaded, queries, failed, overlapped>> /\ At(t, "restore")
  BY <1>2 DEF RestoreRow, RowRestored
<1>4. /\ Others(t) /\ i \in DOMAIN log /\ DOMAIN req'[t].todo = DOMAIN req[t].todo
      /\ i \in DOMAIN req[t].todo /\ req[t].todo[i] > 0
      /\ req'[t].todo[i] = req[t].todo[i] - 1
      /\ \A j \in DOMAIN req[t].todo \ {i} : req'[t].todo[j] = req[t].todo[j]
      /\ req'[t].at = req[t].at
  BY <1>1, <1>2, RowEffect
<1>5. FirstOK'
  BY <1>3, OrderParts DEF FirstOK
<1>6. i \in Unread(t) /\ Unread(t)' \subseteq Unread(t)
  BY <1>4 DEF Unread
<1>7. \A k \in Unread(t)' : MayFollow(message[i], message[k])
  <2> SUFFICES ASSUME NEW k \in Unread(t)' PROVE MayFollow(message[i], message[k])
    OBVIOUS
  <2>1. message[i] <= message[k] \/ SameTs(message[k], message[i])
    BY <1>2, <1>6 DEF NextRows
  <2>2. k \in DOMAIN log /\ message[i] \in 1..stamped /\ message[k] \in 1..stamped /\ stamped \in Nat
    BY <1>1, <1>6, UnreadInLog, UnreadIsInsert DEF StoreOK
  <2>3. SameTs(message[k], message[i]) => SameTs(message[i], message[k])
    BY DEF SameTs
  <2>4. CASE k = i
    <3>1. req'[t].todo[i] > 0
      BY <2>4 DEF Unread
    <3>2. req[t].todo[i] \in Nat /\ applied[i] \in Nat /\ req[t].todo[i] <= applied[i]
      <4>1. req[t].todo \in Seq(Nat) /\ applied \in Seq(Nat) /\ DOMAIN applied = DOMAIN log
        BY <1>1 DEF StoreOK, RequestSet
      <4>2. req[t].todo[i] <= applied[i]
        BY <1>1, <1>4 DEF ReqOK, ResultOK
      <4> QED
        BY <1>4, <4>1, <4>2
    <3>3. applied[i] > 1
      BY <1>4, <3>1, <3>2
    <3> QED
      BY <1>4, <2>4, <3>3 DEF MayFollow, Repeated
  <2>5. CASE k # i
    <3>1. message[i] # message[k]
      BY <1>4, <2>2, <2>5 DEF NumberInv
    <3>2. CASE message[i] <= message[k]
      <4>1. message[i] < message[k]
        BY <2>2, <3>1, <3>2
      <4> QED
        BY <4>1 DEF MayFollow
    <3>3. CASE SameTs(message[k], message[i])
      BY <2>3, <3>1, <3>3 DEF MayFollow
    <3> QED
      BY <2>1, <3>2, <3>3
  <2> QED
    BY <2>4, <2>5
<1>8. PICK h, m : /\ h = chatInformation'[log[i].session] /\ m = message[i] /\ Gets(h, m)
                  /\ heap' \in Seq(Seq(1..stamped))
  BY <1>2 DEF RowRestored
<1>9. Onward
  <2>1. \A k \in DOMAIN log : applied[k] \in Nat
    BY <1>1 DEF StoreOK
  <2> QED
    BY <1>3, <2>1 DEF Onward, writes
<1>10. \A u, v \in Threads : PairOK(u, v)'
  BY <1>3, <1>4, PairsKept DEF At
<1> SUFFICES ASSUME queries <= 1
             PROVE  OrderedOK' /\ \A u \in Threads : AloneOK(u)' /\ PushingOK(u)'
  BY <1>3, <1>5, <1>10, OrderFromParts
<1>11. OrderedOK /\ AloneOK(t) /\ (\A u \in Threads \ {t} : ~ At(u, "restore")) /\ ~ loaded /\ ~ failed
  BY <1>3, OrderParts DEF AloneOK
<1>12. ASSUME NEW g, NEW j \in DOMAIN Before(g), NEW k \in Unread(t)
       PROVE  MayFollow(Before(g)[j], message[k])
  BY <1>3, <1>11, <1>12 DEF Before, AloneOK
<1>13. OrderedOK'
  <2>1. \A j \in DOMAIN Before(h) : MayFollowThen(Before(h)[j], m)
    BY <1>6, <1>8, <1>9, <1>12, StillMayFollow
  <2> QED
    BY <1>8, <1>9, <1>11, <2>1, GetsKeepsOrder
<1>14. ASSUME NEW g \in DOMAIN heap', NEW j \in DOMAIN heap'[g], NEW k \in Unread(t)'
       PROVE  MayFollowThen(heap'[g][j], message'[k])
  <2>1. k \in Unread(t) /\ message'[k] = message[k]
    BY <1>3, <1>6 DEF writes
  <2>2. CASE j \in DOMAIN Before(g) /\ heap'[g][j] = Before(g)[j]
    BY <1>9, <1>12, <2>1, <2>2, StillMayFollow
  <2>3. CASE heap'[g][j] = m
    <3>1. MayFollow(m, message[k])
      BY <1>7, <1>8
    <3> QED
      BY <1>9, <2>1, <2>3, <3>1, StillMayFollow
  <2> QED
    BY <1>8, <2>2, <2>3, GetsEntries
<1>15. \A u \in Threads \ {t} : ~ At(u, "restore")'
  BY <1>4, <1>11 DEF Others, At
<1>16. \A u \in Threads : AloneOK(u)'
  BY <1>3, <1>11, <1>14, <1>15, OrderPartsThen DEF AloneOK
<1>17. \A u \in Threads : PushingOK(u)'
  <2>1. \A u \in Threads : ~ At(u, "push")'
    BY <1>3, <1>4, <1>11, NobodyPushes DEF Others, At
  <2> QED
    BY <2>1 DEF PushingOK
<1> QED
  BY <1>13, <1>16, <1>17

(* The new number may follow everything, and overlaps what is held.        *)
LEMMA ClockKeepsOrderInv ==
  ASSUME IInv, OrderInv, NEW t \in Threads, ReadClock(t)
  PROVE  OrderInv'
<1> DEFINE n == stamped + 1
<1>1. StoreOK /\ MemoryOK /\ \A u \in Threads : ReqOK(u)
  BY Parts
<1>2. /\ Others(t) /\ Moved(req'[t], req[t], "push") /\ req'[t].message = n
      /\ UNCHANGED <<heap, loaded, queries, failed, log, applied, message>>
  BY ClockKeepsIInv DEF memory, unraced
<1>3. overlapped' = overlapped \cup
        {<<req[u].message, n>> : u \in {u \in Threads : Adding(u, req[t].helper)}}
  BY DEF ReadClock
<1>4. req[t].at \in Behind
  BY DEF ReadClock, At, Behind
<1>5. /\ FirstOK
      /\ queries <= 1 => OrderedOK /\ \A u \in Threads : AloneOK(u) /\ PushingOK(u)
      /\ \A u, v \in Threads : PairOK(u, v)
  BY OrderParts
<1>6. queries # 0 /\ (queries <= 1 => \A u \in Threads : ~ At(u, "restore"))
  BY <1>4, BehindIsQueried
<1>7. Onward
  <2>1. \A k \in DOMAIN log : applied[k] \in Nat
    BY <1>1 DEF StoreOK
  <2> QED
    BY <1>2, <1>3, <2>1 DEF Onward
<1>8. \A u \in Threads : req[u].at = "push" => req[u].message \in 1..stamped /\ req[u].message < n
  <2>1. \A u \in Threads : req[u].at = "push" => req[u].message \in 1..stamped
    BY <1>1 DEF ReqOK, PlaceOK, Holding
  <2> QED
    BY <1>1, <2>1 DEF StoreOK
<1>9. req'[t].at = "push" /\ req'[t].helper = req[t].helper
  BY <1>2 DEF Moved
<1> HIDE DEF n
<1>10. ASSUME NEW u \in Threads, NEW v \in Threads, At(u, "push")', At(v, "push")',
              req'[u].helper = req'[v].helper, req'[u].message < req'[v].message
       PROVE  <<req'[u].message, req'[v].message>> \in overlapped'
  <2>1. CASE u # t /\ v # t
    <3>1. req'[u] = req[u] /\ req'[v] = req[v]
      BY <1>2, <2>1 DEF Others
    <3> QED
      BY <1>3, <1>5, <1>10, <3>1 DEF PairOK, At
  <2>2. CASE u # t /\ v = t
    <3>1. req'[u] = req[u] /\ Adding(u, req[t].helper)
      BY <1>2, <1>9, <1>10, <2>2 DEF Others, Adding, At
    <3> QED
      BY <1>2, <1>3, <2>2, <3>1
  <2>3. CASE u = t
    <3>1. v # t
      <4>1. n \in Int
        BY <1>1 DEF n, StoreOK
      <4> QED
        BY <1>2, <1>10, <2>3, <4>1
    <3>2. req'[v] = req[v] /\ req[v].at = "push"
      BY <1>2, <1>10, <3>1 DEF Others, At
    <3>3. req[v].message < n /\ req[v].message \in Int /\ n \in Int
      BY <1>1, <1>8, <3>2 DEF n, StoreOK
    <3> QED
      BY <1>2, <1>10, <2>3, <3>2, <3>3
  <2> QED
    BY <2>1, <2>2, <2>3
<1>11. \A u, v \in Threads : PairOK(u, v)'
  BY <1>10 DEF PairOK
<1>12. FirstOK'
  BY <1>2, <1>6 DEF FirstOK
<1> SUFFICES ASSUME queries <= 1
             PROVE  OrderedOK' /\ \A u \in Threads : AloneOK(u)' /\ PushingOK(u)'
  BY <1>2, <1>11, <1>12, OrderFromParts
<1>13. OrderedOK'
  <2>1. \A h \in DOMAIN heap : \A i, j \in DOMAIN heap[h] : i < j => MayFollowThen(heap[h][i], heap[h][j])
    BY <1>5, <1>7, StillMayFollow DEF OrderedOK
  <2> QED
    BY <1>2, <2>1, OrderPartsThen
<1>14. ASSUME NEW u \in Threads PROVE AloneOK(u)'
  BY <1>2, <1>6, <1>9 DEF AloneOK, At, Others
<1>15. ASSUME NEW u \in Threads PROVE PushingOK(u)'
  <2> SUFFICES ASSUME At(u, "push")', NEW j \in DOMAIN heap'[req'[u].helper]
               PROVE  MayFollowThen(heap'[req'[u].helper][j], req'[u].message)
    BY OrderPartsThen
  <2>1. CASE u = t
    <3>1. req[t].helper \in DOMAIN heap /\ j \in DOMAIN heap[req[t].helper]
      BY <1>1, <1>2, <1>9, <2>1 DEF ReqOK, Adds, ReadClock, At
    <3>2. heap[req[t].helper][j] \in 1..stamped /\ stamped \in Nat
      BY <3>1, HeapTyped
    <3>3. heap[req[t].helper][j] < n
      BY <3>2 DEF n
    <3> QED
      BY <1>2, <1>9, <2>1, <3>3 DEF MayFollowThen
  <2>2. CASE u # t
    <3>1. req'[u] = req[u] /\ At(u, "push")
      BY <1>2, <2>2 DEF Others, At
    <3>2. MayFollow(heap[req[u].helper][j], req[u].message)
      BY <1>2, <1>5, <3>1 DEF PushingOK
    <3>3. MayFollowThen(heap[req[u].helper][j], req[u].message)
      BY <1>7, <3>2, StillMayFollow
    <3> QED
      BY <1>2, <3>1, <3>3
  <2> QED
    BY <2>1, <2>2
<1> QED
  BY <1>13, <1>14, <1>15

(* What is pushed may follow what is there; and if it is later than what   *)
(* another thread still holds, it has overlapped that one.                 *)
LEMMA PushKeepsOrderInv ==
  ASSUME IInv, NumberInv, OrderInv, NEW t \in Threads, PushBack(t)
  PROVE  OrderInv'
<1>1. StoreOK /\ MemoryOK /\ \A u \in Threads : ReqOK(u)
  BY Parts
<1>2. PICK h, m : h = req[t].helper /\ m = req[t].message
  OBVIOUS
<1>3. /\ Others(t) /\ req'[t].at = "insert" /\ req[t].at = "push" /\ h \in DOMAIN heap
      /\ m \in 1..stamped /\ Gets(h, m)
      /\ UNCHANGED <<log, applied, message, loaded, queries, failed, overlapped>>
  BY <1>2, PushKeepsIInv DEF Moved, At, writes, unraced
<1>4. /\ FirstOK
      /\ queries <= 1 => OrderedOK /\ \A u \in Threads : AloneOK(u) /\ PushingOK(u)
      /\ \A u, v \in Threads : PairOK(u, v)
  BY OrderParts
<1>5. queries # 0 /\ (queries <= 1 => \A u \in Threads : ~ At(u, "restore"))
  BY <1>3, BehindIsQueried DEF Behind
<1>6. Onward
  <2>1. \A k \in DOMAIN log : applied[k] \in Nat
    BY <1>1 DEF StoreOK
  <2> QED
    BY <1>3, <2>1 DEF Onward
<1>7. \A u, v \in Threads : PairOK(u, v)'
  BY <1>3, PairsKept DEF At
<1>8. FirstOK'
  BY <1>3, <1>5 DEF FirstOK
<1> SUFFICES ASSUME queries <= 1
             PROVE  OrderedOK' /\ \A u \in Threads : AloneOK(u)' /\ PushingOK(u)'
  BY <1>3, <1>7, <1>8, OrderFromParts
<1>9. OrderedOK'
  <2>1. Before(h) = heap[h] /\ PushingOK(t)
    BY <1>3, <1>4 DEF Before
  <2>2. \A j \in DOMAIN Before(h) : MayFollow(Before(h)[j], m)
    BY <1>2, <1>3, <2>1 DEF PushingOK, At
  <2>3. \A j \in DOMAIN Before(h) : MayFollowThen(Before(h)[j], m)
    BY <1>6, <2>2, StillMayFollow
  <2> QED
    BY <1>3, <1>4, <1>6, <2>3, GetsKeepsOrder
<1>10. \A u \in Threads : AloneOK(u)'
  BY <1>3, <1>5 DEF AloneOK, At, Others
<1>11. ASSUME NEW u \in Threads PROVE PushingOK(u)'
  <2> SUFFICES ASSUME At(u, "push")', NEW j \in DOMAIN heap'[req'[u].helper]
               PROVE  MayFollowThen(heap'[req'[u].helper][j], req'[u].message)
    BY OrderPartsThen
  <2>1. u # t /\ req'[u] = req[u] /\ At(u, "push")
    BY <1>3 DEF Others, At
  <2>2. PICK g, k : g = req[u].helper /\ k = req[u].message
    OBVIOUS
  <2>3. /\ g \in DOMAIN heap /\ g \in DOMAIN heap' /\ k \in 1..stamped /\ stamped \in Nat
    <3>1. g \in DOMAIN heap /\ k \in 1..stamped /\ stamped \in Nat /\ heap \in Seq(Seq(1..stamped))
      BY <1>1, <2>1, <2>2 DEF ReqOK, PlaceOK, Holding, Adds, At, MemoryOK, StoreOK
    <3>2. heap' \in Seq(Seq(1..stamped)) /\ Len(heap) <= Len(heap')
      BY <1>3, PushKeepsIInv DEF Gets
    <3> QED
      BY <3>1, <3>2
  <2>4. CASE j \in DOMAIN Before(g) /\ heap'[g][j] = Before(g)[j]
    <3>1. Before(g) = heap[g]
      BY <2>3 DEF Before
    <3>2. MayFollow(heap[g][j], k)
      BY <1>4, <2>1, <2>2, <2>4, <3>1 DEF PushingOK
    <3>3. MayFollowThen(heap[g][j], k)
      BY <1>6, <3>2, StillMayFollow
    <3> QED
      BY <2>1, <2>2, <2>4, <3>1, <3>3
  <2>5. CASE g = h /\ heap'[g][j] = m
    <3>1. k # m
      BY <1>2, <1>3, <2>1, <2>2 DEF NumberInv, Holds, Holding, At
    <3>2. CASE k < m
      <4>1. <<k, m>> \in overlapped
        BY <1>2, <1>3, <1>4, <2>1, <2>2, <2>5, <3>2 DEF PairOK, At
      <4>2. MayFollowThen(m, k)
        BY <1>3, <4>1 DEF MayFollowThen
      <4> QED
        BY <2>1, <2>2, <2>5, <4>2
    <3>3. CASE m < k
      <4>1. MayFollowThen(m, k)
        BY <3>3 DEF MayFollowThen
      <4> QED
        BY <2>1, <2>2, <2>5, <4>1
    <3>4. k < m \/ m < k
      BY <1>3, <2>3, <3>1
    <3> QED
      BY <3>2, <3>3, <3>4
  <2> QED
    BY <1>3, <2>1, <2>2, <2>3, <2>4, <2>5, GetsEntries
<1> QED
  BY <1>9, <1>10, <1>11

LEMMA LoadKeepsOrderInv ==
  ASSUME IInv, OrderInv, NEW t \in Threads,
         CheckLoaded(t) \/ Query(t) \/ QueryThrows(t) \/ SkipRow(t) \/ NextThrows(t) \/ MarkLoaded(t)
  PROVE  OrderInv'
<1>1. TypeOK /\ StoreOK /\ MemoryOK /\ req \in [Threads -> RequestSet]
  BY Parts DEF IInv
<1>2. UNCHANGED <<log, applied, message, overlapped>>
  BY DEF CheckLoaded, Query, QueryThrows, SkipRow, NextThrows, MarkLoaded, writes, history, races
<1>3. Onward
  <2>1. \A i \in DOMAIN log : applied[i] \in Nat
    BY <1>1 DEF StoreOK
  <2> QED
    BY <1>2, <2>1 DEF Onward
<1>4. heap' = heap => DOMAIN heap \subseteq DOMAIN heap' /\ \A h \in DOMAIN heap' : heap'[h] = Before(h)
  BY DEF Before
<1>5. CASE CheckLoaded(t)
  <2>1. PICK l \in {"body", "query"} : Goto(t, l)
    BY <1>5 DEF CheckLoaded
  <2>2. Moved(req'[t], req[t], l) /\ Others(t)
    BY <1>1, <2>1, GotoEffect DEF Places
  <2>3. ~ At(t, "restore")' /\ ~ At(t, "push")'
    BY <2>1, <2>2 DEF At, Moved
  <2>4. UNCHANGED <<heap, loaded, queries, failed>>
    BY <1>5 DEF CheckLoaded, memory, history, unraced
  <2> QED
    BY <1>3, <1>4, <2>2, <2>3, <2>4, QuietKeepsOrderInv
<1>6. CASE SkipRow(t)
  <2>1. PICK i \in NextRows(t) : RowRead(t, i)
    BY <1>6 DEF SkipRow
  <2>2. UNCHANGED <<heap, loaded, queries, failed>> /\ At(t, "restore")
    BY <1>6 DEF SkipRow, memory
  <2>3. /\ Others(t) /\ DOMAIN req'[t].todo = DOMAIN req[t].todo /\ req'[t].at = req[t].at
        /\ i \in DOMAIN req[t].todo /\ req[t].todo[i] > 0
        /\ \A j \in DOMAIN req[t].todo \ {i} : req'[t].todo[j] = req[t].todo[j]
    BY <1>1, <2>1, RowEffect
  <2>4. Unread(t)' \subseteq Unread(t) /\ ~ At(t, "push")'
    BY <2>2, <2>3 DEF Unread, At
  <2> QED
    BY <1>3, <1>4, <2>2, <2>3, <2>4, QuietKeepsOrderInv
<1>7. CASE NextThrows(t)
  <2>1. req'[t] = Free /\ Others(t) /\ UNCHANGED <<heap, loaded, queries, failed>>
    BY <1>1, <1>7, FinishEffect DEF NextThrows, memory
  <2>2. ~ At(t, "restore")' /\ ~ At(t, "push")'
    BY <2>1, FreeTyped DEF At
  <2> QED
    BY <1>3, <1>4, <2>1, <2>2, QuietKeepsOrderInv
<1>8. CASE Query(t) \/ QueryThrows(t)
  <2>1. queries' = queries + 1 /\ queries' # 0 /\ heap' = heap /\ loaded' = loaded
    BY <1>1, <1>8 DEF Query, QueryThrows, MemoryOK, memory
  <2>2. /\ Others(t) /\ ~ At(t, "push")'
        /\ At(t, "restore")' => failed' = failed
    <3>1. CASE Query(t)
      BY <1>1, <3>1, QueryEffect DEF Query, At
    <3>2. CASE QueryThrows(t)
      BY <1>1, <3>2, GotoEffect DEF QueryThrows, Places, Moved, At
    <3> QED
      BY <1>8, <3>1, <3>2
  <2>3. \A u, v \in Threads : PairOK(u, v)'
    BY <1>2, <2>2, PairsKept
  <2>4. ASSUME queries' <= 1 PROVE OrderedOK' /\ \A u \in Threads : AloneOK(u)' /\ PushingOK(u)'
    <3>1. heap = <<>> /\ ~ loaded /\ ~ failed /\ \A u \in Threads : ~ At(u, "restore")
      <4>1. queries = 0
        BY <1>1, <2>1, <2>4 DEF MemoryOK
      <4> QED
        BY <4>1, OrderParts DEF FirstOK
    <3>2. \A u \in Threads : ~ At(u, "push")'
      BY <2>2, <3>1, NobodyPushes DEF Others, At
    <3>3. \A u \in Threads \ {t} : ~ At(u, "restore")'
      BY <2>2, <3>1 DEF Others, At
    <3>4. heap' = <<>> /\ DOMAIN heap' = {}
      BY <2>1, <3>1
    <3> QED
      BY <2>1, <2>2, <3>1, <3>2, <3>3, <3>4 DEF OrderedOK, AloneOK, PushingOK
  <2> QED
    BY <2>1, <2>3, <2>4, OrderFromParts DEF FirstOK
<1>9. CASE MarkLoaded(t)
  <2>1. /\ req' = [req EXCEPT ![t].at = "body", ![t].todo = <<>>] /\ At(t, "restore")
        /\ UNCHANGED <<heap, queries, failed>>
    BY <1>9 DEF MarkLoaded, RestoreDone, history, unraced
  <2>2. Others(t) /\ req'[t].at = "body"
    BY <1>1, <2>1 DEF Others, RequestSet
  <2>3. queries # 0
    BY <2>1, OrderParts DEF FirstOK
  <2>4. ASSUME queries <= 1 PROVE OrderedOK' /\ \A u \in Threads : AloneOK(u)' /\ PushingOK(u)'
    <3>1. OrderedOK /\ ~ loaded /\ ~ failed /\ \A u \in Threads \ {t} : ~ At(u, "restore")
      BY <2>1, <2>4, OrderParts DEF AloneOK
    <3>2. \A u \in Threads : ~ At(u, "push")' /\ ~ At(u, "restore")'
      BY <2>2, <3>1, NobodyPushes DEF Others, At
    <3>3. OrderedOK'
      BY <1>2, <2>1, <3>1 DEF OrderedOK, MayFollow, Repeated
    <3> QED
      BY <3>2, <3>3 DEF AloneOK, PushingOK
  <2>5. \A u, v \in Threads : PairOK(u, v)'
    BY <1>2, <2>2, PairsKept DEF At
  <2> QED
    BY <2>1, <2>3, <2>4, <2>5, OrderFromParts DEF FirstOK
<1> QED
  BY <1>5, <1>6, <1>7, <1>8, <1>9

(* Publications leave the AIHelpers alone.                                 *)
LEMMA RecordIsOnward ==
  ASSUME IInv, NEW sql, NEW m, Recorded(sql, m), UNCHANGED overlapped,
         DOMAIN log' = DOMAIN log \cup {Len(log) + 1}
  PROVE  Onward
<1>1. \A i \in DOMAIN log : applied[i] \in Nat
  BY DEF IInv, TypeOK
<1> QED
  BY <1>1 DEF Onward, Recorded

LEMMA NextKeepsOrderInv == IInv /\ NumberInv /\ OrderInv /\ [Next]_vars => OrderInv'
<1> SUFFICES ASSUME IInv, NumberInv, OrderInv, [Next]_vars PROVE OrderInv'
  OBVIOUS
<1>1. TypeOK /\ StoreOK /\ MemoryOK /\ req \in [Threads -> RequestSet]
  BY Parts DEF IInv
<1>2. UNCHANGED <<log, message, applied, overlapped>> => Onward
  <2>1. \A i \in DOMAIN log : applied[i] \in Nat
    BY <1>1 DEF StoreOK
  <2> QED
    BY <2>1 DEF Onward
<1>3. ASSUME NEW t, Others(t), UNCHANGED <<heap, loaded, queries, failed>>, Onward,
             t \in Threads => req'[t].at \notin {"push", "restore"}
      PROVE  OrderInv'
  <2>1. DOMAIN heap \subseteq DOMAIN heap' /\ \A h \in DOMAIN heap' : heap'[h] = Before(h)
    BY <1>3 DEF Before
  <2>2. t \in Threads => ~ At(t, "push")' /\ ~ At(t, "restore")'
    BY <1>3 DEF At
  <2> QED
    BY <1>3, <2>1, <2>2, QuietKeepsOrderInv
<1>4. ASSUME NEW t \in Threads, Requests(t) PROVE OrderInv'
  <2>1. Others(t) /\ req'[t].at = "check"
        /\ UNCHANGED <<heap, loaded, queries, failed, log, message, applied, overlapped>>
    BY <1>1, <1>4, RequestEffect DEF writes, memory, races
  <2> QED
    BY <1>2, <1>3, <2>1
<1>5. ASSUME NEW t \in Threads,
             \/ CheckLoaded(t) \/ Query(t) \/ QueryThrows(t)
             \/ SkipRow(t) \/ NextThrows(t) \/ MarkLoaded(t)
      PROVE  OrderInv'
  BY <1>5, LoadKeepsOrderInv
<1>6. ASSUME NEW t \in Threads, RestoreRow(t) \/ ReadClock(t) \/ PushBack(t) PROVE OrderInv'
  BY <1>6, RestoreKeepsOrderInv, ClockKeepsOrderInv, PushKeepsOrderInv
<1>7. ASSUME NEW t \in Threads, List(t) \/ ChatThrows(t) \/ PublishDeleteThrows(t) PROVE OrderInv'
  <2>1. /\ Finish(t)
        /\ UNCHANGED <<heap, loaded, queries, failed, log, message, applied, overlapped>>
    BY <1>7 DEF List, ChatThrows, PublishDeleteThrows, writes, memory, history, unraced, races
  <2>2. Others(t) /\ req'[t].at = "idle"
    BY <1>1, <2>1, FinishEffect, FreeTyped
  <2> QED
    BY <1>2, <1>3, <2>1, <2>2
<1>8. ASSUME NEW t \in Threads, History(t) \/ GetHelper(t) PROVE OrderInv'
  <2>1. /\ Others(t) /\ req[t].session \in Sessions /\ req[t].at \in Behind
        /\ FindOrMake(req[t].session) /\ req'[t].at \in {"idle", "add"}
    BY <1>1, <1>8, HelperKeepsIInv DEF MemoryOK, Behind, History, GetHelper, At
  <2>2. UNCHANGED <<loaded, queries, failed, log, message, applied, overlapped>>
    BY <1>8 DEF History, GetHelper, writes, history, unraced, races
  <2>3. (\A h \in DOMAIN heap' : heap'[h] = Before(h)) /\ DOMAIN heap \subseteq DOMAIN heap'
    <3>1. heap' \in Seq(Seq(1..stamped)) /\ Len(heap) <= Len(heap') /\ heap \in Seq(Seq(1..stamped))
      BY <1>1, <2>1, FindOrMakeEffect DEF MemoryOK
    <3> QED
      BY <1>1, <2>1, <3>1, FindOrMakeEffect
  <2>4. queries # 0
    BY <2>1, BehindIsQueried
  <2>5. ~ At(t, "push")' /\ ~ At(t, "restore")'
    BY <2>1 DEF At
  <2> QED
    BY <1>2, <2>1, <2>2, <2>3, <2>4, <2>5, QuietKeepsOrderInv
<1>9. ASSUME NEW t \in Threads, NEW s \in Sessions, ListNewSession(t, s) PROVE OrderInv'
  <2>1. /\ Others(t) /\ req'[t].at = "body"
        /\ UNCHANGED <<heap, loaded, queries, failed, log, message, applied, overlapped>>
    BY <1>9, NewSessionKeepsIInv DEF ListNewSession, writes, races
  <2> QED
    BY <1>2, <1>3, <2>1
<1>10. ASSUME NEW t \in Threads, Publishes(t) PROVE OrderInv'
  <2>1. /\ Others(t) /\ req'[t].at \notin {"push", "restore"}
        /\ UNCHANGED <<heap, loaded, queries, failed, overlapped>>
        /\ Recorded(Insertion(t), req[t].message) /\ DOMAIN log' = DOMAIN log \cup {Len(log) + 1}
    BY <1>10, InsertKeepsIInv, FreeTyped DEF memory, races, Moved
  <2> QED
    BY <1>3, <2>1, RecordIsOnward
<1>11. ASSUME NEW t \in Threads, EraseHelper(t) \/ Unlist(t) \/ PublishDelete(t) PROVE OrderInv'
  <2>1. Others(t) /\ req'[t].at \in {"unlist", "publish", "idle"}
    BY <1>11, DeleteKeepsIInv
  <2>2. UNCHANGED <<heap, loaded, queries, failed, overlapped>>
    BY <1>11 DEF EraseHelper, Unlist, PublishDelete, memory, history, unraced, races
  <2>3. Onward
    <3>1. CASE EraseHelper(t) \/ Unlist(t)
      BY <1>2, <2>2, <3>1 DEF EraseHelper, Unlist, writes
    <3>2. CASE PublishDelete(t)
      BY <2>2, <3>2, DeleteRecorded, RecordIsOnward
    <3> QED
      BY <1>11, <3>1, <3>2
  <2> QED
    BY <1>3, <2>1, <2>2, <2>3
<1>12. ASSUME UNCHANGED <<heap, loaded, queries, failed, req>>, Onward PROVE OrderInv'
  <2>1. PICK t : t \notin Threads
    BY NoSetContainsEverything
  <2> QED
    BY <1>3, <1>12, <2>1 DEF Others
<1>13. ASSUME NEW i \in outstanding, Execute(i) PROVE OrderInv'
  <2>1. UNCHANGED <<heap, loaded, queries, failed, req, log, message, overlapped>>
    BY <1>13 DEF Execute, Writes!Apply, memory, races
  <2>2. Onward
    <3>1. /\ applied' \in Seq(Nat) /\ Len(applied') = Len(log) /\ log \in Seq(Writes!Statements)
          /\ \A j \in DOMAIN log : applied[j] <= applied'[j]
      BY <1>1, <1>13, ExecuteEffect DEF StoreOK
    <3> QED
      BY <2>1, <3>1 DEF Onward
  <2> QED
    BY <1>12, <2>1, <2>2
<1>14. CASE Restart
  <2>1. /\ \A t \in Threads : req'[t] = Free
        /\ heap' = <<>> /\ loaded' = FALSE /\ failed' = FALSE /\ queries' = 0
    BY <1>14, RestartKeepsIInv DEF Restart
  <2> QED
    BY <2>1, FreeTyped DEF OrderInv, SingleLoadIsFaithful, At
<1>15. CASE UNCHANGED vars
  <2>1. UNCHANGED <<heap, loaded, queries, failed, req, log, message, applied, overlapped>>
    BY <1>15 DEF vars, writes, memory, history, unraced, races
  <2> QED
    BY <1>2, <1>12, <2>1
<1> QED
  BY <1>4, <1>5, <1>6, <1>7, <1>8, <1>9, <1>10, <1>11, <1>13, <1>14, <1>15 DEF Next, Publishes

(* With one load, every AIHelper has its messages in the order of their    *)
(* time stamps, but for those of one millisecond and those that were added *)
(* at the same time, and repeats only what the queue executed repeatedly.  *)
THEOREM OrderCorrect == Spec => []SingleLoadIsFaithful
<1>1. Init => OrderInv
  BY FreeTyped DEF Init, OrderInv, SingleLoadIsFaithful, At
<1>2. Init => NumberInv /\ PublishedInv
  BY InitPublishing
<1>3. OrderInv => SingleLoadIsFaithful
  BY DEF OrderInv
<1> QED
  BY <1>1, <1>2, <1>3, IInvCorrect, NextKeepsPublishing, NextKeepsOrderInv, PTL DEF Spec

=============================================================================
