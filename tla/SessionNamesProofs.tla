------------------------- MODULE SessionNamesProofs -------------------------
(***************************************************************************)
(* Theorems about the names of sessions, for any set of threads, sessions  *)
(* and names, any stored questions and any number of requests and faults.  *)
(***************************************************************************)
EXTENDS SessionNames, SequenceTheorems, WellFoundedInduction, TLAPS

-----------------------------------------------------------------------------
(* The requests                                                            *)

TodoOK(r) ==
  /\ r.todo \subseteq r.shown
  /\ r.autoNameCache \in [Sessions -> {0} \cup DOMAIN log]

LEMMA FreeTyped ==
  /\ Free \in RequestSet /\ TodoOK(Free) /\ TodoOK(Free)'
  /\ Free.at = "idle" /\ Free.kind = "list" /\ Free.session \in Sessions
  /\ Free.firm = {} /\ Free.titled = {} /\ Free.todo = {}
<1>1. (CHOOSE s \in Sessions : TRUE) \in Sessions
  BY SessionNamesAssumption
<1> QED
  BY <1>1 DEF Free, RequestSet, Places, TodoOK

(* Request q is request r at the place l.                                  *)
Moved(q, r, l) ==
  /\ q.at = l /\ q.kind = r.kind /\ q.session = r.session /\ q.name = r.name
  /\ q.alone = r.alone /\ q.broken = r.broken /\ q.shown = r.shown /\ q.todo = r.todo
  /\ q.customNameCache = r.customNameCache /\ q.autoNameCache = r.autoNameCache
  /\ q.firm = r.firm /\ q.titled = r.titled

(* A step of one thread that leaves the requests of the others alone.      *)
LEMMA GotoEffect ==
  ASSUME TypeOK, NEW t \in Threads, NEW l \in Places, Goto(t, l)
  PROVE  /\ req' \in [Threads -> RequestSet]
         /\ Moved(req'[t], req[t], l)
         /\ \A u \in Threads \ {t} : req'[u] = req[u]
<1>1. req \in [Threads -> RequestSet] /\ req' = [req EXCEPT ![t].at = l]
  BY DEF TypeOK, Goto
<1>2. Moved(req'[t], req[t], l) /\ \A u \in Threads \ {t} : req'[u] = req[u]
  BY <1>1 DEF RequestSet, Moved
<1>3. [req[t] EXCEPT !.at = l] \in RequestSet
  BY <1>1, ZenonT(60) DEF RequestSet
<1> QED
  BY <1>1, <1>2, <1>3

LEMMA FinishEffect ==
  ASSUME TypeOK, NEW t \in Threads, Finish(t)
  PROVE  /\ req' \in [Threads -> RequestSet]
         /\ req'[t] = Free
         /\ \A u \in Threads \ {t} : req'[u] = req[u]
  BY FreeTyped DEF TypeOK, Finish

LEMMA OthersKeep ==
  ASSUME TypeOK, NEW t \in Threads, DOMAIN log \subseteq DOMAIN log',
         \A u \in Threads \ {t} : req'[u] = req[u],
         TodoOK(req[t])'
  PROVE  \A u \in Threads : TodoOK(req[u])'
<1>1. ASSUME NEW u \in Threads \ {t} PROVE TodoOK(req[u])'
  <2>1. TodoOK(req[u])
    BY DEF TypeOK, TodoOK
  <2> QED
    BY <1>1, <2>1 DEF TodoOK
<1> QED
  BY <1>1

(* Requests that keep their lists keep what is known of them.              *)
LEMMA ListsKept ==
  ASSUME TypeOK, DOMAIN log \subseteq DOMAIN log',
         \A u \in Threads : /\ req'[u].todo = req[u].todo /\ req'[u].shown = req[u].shown
                            /\ req'[u].autoNameCache = req[u].autoNameCache
  PROVE  \A u \in Threads : TodoOK(req[u])'
<1>1. ASSUME NEW u \in Threads PROVE TodoOK(req[u])'
  <2>1. TodoOK(req[u])
    BY DEF TypeOK, TodoOK
  <2> QED
    BY <2>1 DEF TodoOK
<1> QED
  BY <1>1

LEMMA GotoKeeps ==
  ASSUME TypeOK, NEW t \in Threads, NEW l \in Places, Goto(t, l), DOMAIN log \subseteq DOMAIN log'
  PROVE  req' \in [Threads -> RequestSet] /\ \A u \in Threads : TodoOK(req[u])'
<1>1. req[t] \in RequestSet /\ TodoOK(req[t])
  BY DEF TypeOK, TodoOK
<1>2. TodoOK(req[t])'
  BY <1>1, GotoEffect DEF TodoOK, Moved
<1> QED
  BY <1>2, GotoEffect, OthersKeep

LEMMA FinishKeeps ==
  ASSUME TypeOK, NEW t \in Threads, Finish(t), DOMAIN log \subseteq DOMAIN log'
  PROVE  req' \in [Threads -> RequestSet] /\ \A u \in Threads : TodoOK(req[u])'
<1>1. TodoOK(req[t])'
  BY FinishEffect, FreeTyped DEF TodoOK
<1> QED
  BY <1>1, FinishEffect, OthersKeep

-----------------------------------------------------------------------------
(* The log                                                                 *)

LEMMA SameInterval ==
  ASSUME NEW m \in Nat, NEW n \in Nat, 1..m = 1..n
  PROVE  m = n
<1>1. CASE m < n
  <2>1. n \in 1..n /\ n \notin 1..m
    BY <1>1
  <2> QED
    BY <2>1
<1>2. CASE n < m
  <2>1. m \in 1..m /\ m \notin 1..n
    BY <1>2
  <2> QED
    BY <2>1
<1> QED
  BY <1>1, <1>2

LEMMA LogFacts ==
  ASSUME TypeOK
  PROVE  /\ Len(log) \in Nat /\ DOMAIN log = 1..Len(log)
         /\ \A i \in DOMAIN log : log[i] \in Writes!Statements
         /\ \A f \in {applied, rows} : Len(f) = Len(log) /\ f \in [1..Len(log) -> Nat]
<1>1. log \in Seq(Writes!Statements) /\ \A f \in {applied, rows} : f \in Seq(Nat)
  BY DEF TypeOK
<1>2. Len(log) \in Nat /\ DOMAIN log = 1..Len(log)
  BY <1>1, LenProperties
<1>3. ASSUME NEW f \in {applied, rows}
      PROVE  Len(f) = Len(log) /\ f \in [1..Len(log) -> Nat]
  <2>1. Len(f) \in Nat /\ DOMAIN f = 1..Len(f) /\ f \in [1..Len(f) -> Nat]
    BY <1>1, <1>3, LenProperties, SMTT(30)
  <2>2. 1..Len(f) = 1..Len(log)
    BY <2>1, <1>2, ZenonT(60) DEF TypeOK
  <2>3. Len(f) = Len(log)
    BY <2>1, <2>2, <1>2, SameInterval
  <2> QED
    BY <2>1, <2>3
<1>4. \A i \in DOMAIN log : log[i] \in Writes!Statements
  BY <1>1, <1>2, ElementOfSeq
<1> QED
  BY <1>2, <1>3, <1>4

(* A function on the positions of the log is one of the model's sequences. *)
LEMMA CountsAreSeq ==
  ASSUME TypeOK, NEW f \in [DOMAIN log -> Nat]
  PROVE  f \in Seq(Nat) /\ DOMAIN f = DOMAIN log
BY LogFacts, SeqDef

(* A publication is put behind the log; nothing before it changes.         *)
LEMMA SubmitEffect ==
  ASSUME TypeOK, NEW sql \in Writes!Statements, Writes!Submit(sql)
  PROVE  /\ log' \in Seq(Writes!Statements)
         /\ DOMAIN log' = DOMAIN log \cup {Len(log) + 1}
         /\ Len(log) \in Nat /\ Len(log) + 1 \notin DOMAIN log
         /\ log'[Len(log) + 1] = sql
         /\ \A i \in DOMAIN log : log'[i] = log[i] /\ rows'[i] = rows[i]
         /\ \A f \in {applied', rows'} : DOMAIN f = DOMAIN log' /\ f \in Seq(Nat)
         /\ outstanding' \subseteq DOMAIN log' /\ lost' \subseteq DOMAIN log'
<1>1. /\ log \in Seq(Writes!Statements) /\ Len(log) \in Nat /\ DOMAIN log = 1..Len(log)
      /\ \A f \in {applied, rows} : f \in Seq(Nat) /\ Len(f) = Len(log)
  BY LogFacts DEF TypeOK
<1>2. /\ log' = Append(log, sql)
      /\ applied' = Append(applied, 0) /\ rows' = Append(rows, 0)
      /\ outstanding' = outstanding \cup {Len(log) + 1} /\ lost' = lost
  BY DEF Writes!Submit, Writes!Record
<1>3. /\ log' \in Seq(Writes!Statements) /\ Len(log') = Len(log) + 1
      /\ log'[Len(log) + 1] = sql
      /\ \A i \in 1..Len(log) : log'[i] = log[i]
  BY <1>1, <1>2, AppendProperties
<1>4. DOMAIN log' = 1..(Len(log) + 1)
  BY <1>3, LenProperties
<1>5. ASSUME NEW f \in {applied, rows}
      PROVE  /\ Append(f, 0) \in Seq(Nat)
             /\ DOMAIN Append(f, 0) = 1..(Len(log) + 1)
             /\ \A i \in 1..Len(log) : Append(f, 0)[i] = f[i]
  <2>1. f \in Seq(Nat) /\ Len(f) = Len(log) /\ 0 \in Nat
    BY <1>1, <1>5
  <2>2. /\ Append(f, 0) \in Seq(Nat) /\ Len(Append(f, 0)) = Len(log) + 1
        /\ \A i \in 1..Len(log) : Append(f, 0)[i] = f[i]
    BY <2>1, AppendProperties
  <2> QED
    BY <2>2, LenProperties
<1>6. outstanding \subseteq DOMAIN log /\ lost \subseteq DOMAIN log
  BY DEF TypeOK
<1> QED
  BY <1>1, <1>2, <1>3, <1>4, <1>5, <1>6

(* An execution changes the counts of what is in the log.                  *)
LEMMA ApplyEffect ==
  ASSUME TypeOK, NEW i \in outstanding, Writes!Apply(i)
  PROVE  /\ UNCHANGED <<log, lost>> /\ outstanding' \subseteq DOMAIN log
         /\ i \in DOMAIN log
         /\ \A f \in {applied', rows'} : DOMAIN f = DOMAIN log /\ f \in Seq(Nat)
         /\ log[i].kind = "insert" => \A j \in DOMAIN log : rows'[j] >= rows[j]
         /\ \A j \in DOMAIN log :
              log[i].kind = "delete" /\ log[j].session # log[i].session => rows'[j] = rows[j]
<1>1. /\ i \in DOMAIN log /\ outstanding \subseteq DOMAIN log
      /\ DOMAIN log = 1..Len(log) /\ Len(log) \in Nat
      /\ applied \in [DOMAIN log -> Nat] /\ rows \in [DOMAIN log -> Nat]
      /\ log[i].kind \in {"insert", "delete"}
  <2>1. i \in DOMAIN log /\ outstanding \subseteq DOMAIN log
    BY DEF TypeOK
  <2>2. log[i] \in Writes!Statements
    BY <2>1, LogFacts
  <2>3. applied \in [DOMAIN log -> Nat] /\ rows \in [DOMAIN log -> Nat]
    BY LogFacts
  <2>4. log[i].kind \in {"insert", "delete"}
    BY <2>2 DEF Writes!Statements
  <2> QED
    BY <2>1, <2>3, <2>4, LogFacts
<1>2. applied' \in [DOMAIN log -> Nat]
  BY <1>1 DEF Writes!Apply
<1>3. /\ rows' \in [DOMAIN log -> Nat]
      /\ log[i].kind = "insert" => \A j \in DOMAIN log : rows'[j] >= rows[j]
      /\ \A j \in DOMAIN log :
           log[i].kind = "delete" /\ log[j].session # log[i].session => rows'[j] = rows[j]
  <2>1. CASE log[i].kind = "insert"
    <3>1. rows' = [rows EXCEPT ![i] = @ + 1]
      BY <2>1 DEF Writes!Apply, Writes!RowsAfter
    <3> QED
      BY <1>1, <2>1, <3>1
  <2>2. CASE log[i].kind = "delete"
    <3>1. rows' = [j \in DOMAIN rows |-> IF log[j].session = log[i].session THEN 0 ELSE rows[j]]
      BY <2>2 DEF Writes!Apply, Writes!RowsAfter
    <3> QED
      BY <1>1, <2>2, <3>1
  <2> QED
    BY <1>1, <2>1, <2>2
<1>4. \A f \in {applied', rows'} : DOMAIN f = DOMAIN log /\ f \in Seq(Nat)
  BY <1>2, <1>3, CountsAreSeq
<1>5. outstanding' \subseteq DOMAIN log /\ UNCHANGED <<log, lost>>
  BY <1>1 DEF Writes!Apply
<1> QED
  BY <1>1, <1>3, <1>4, <1>5

(* The earliest of some positions is one of them, and the only one.        *)
LEMMA EarliestFacts ==
  ASSUME NEW S, S \subseteq Nat, S # {}
  PROVE  /\ Earliest(S) \in S /\ \A j \in S : Earliest(S) <= j
         /\ \A i \in S : (\A j \in S : i <= j) => i = Earliest(S)
<1>1. PICK m \in S : \A i \in S : ~(<<i, m>> \in OpToRel(<, Nat))
  BY NatLessThanWellFounded, WFMin
<1>2. ASSUME NEW i \in S PROVE m <= i
  <2>1. m \in Nat /\ i \in Nat
    OBVIOUS
  <2>2. <<i, m>> \in Nat \X Nat /\ <<i, m>>[1] = i /\ <<i, m>>[2] = m
    BY <2>1
  <2>3. ~(i < m)
    BY <1>1, <2>2, Zenon DEF OpToRel
  <2> QED
    BY <2>1, <2>3
<1>3. Earliest(S) \in S /\ \A j \in S : Earliest(S) <= j
  BY <1>2 DEF Earliest
<1>4. ASSUME NEW i \in S, \A j \in S : i <= j PROVE i = Earliest(S)
  <2>1. i <= Earliest(S) /\ Earliest(S) <= i /\ i \in Nat /\ Earliest(S) \in Nat
    BY <1>3, <1>4
  <2> QED
    BY <2>1
<1> QED
  BY <1>3, <1>4

-----------------------------------------------------------------------------
(* Type correctness                                                        *)

LEMMA FaultTyped ==
  ASSUME TypeOK, Fault \/ UNCHANGED faults
  PROVE  faults' \in 0..MaxFaults
BY SessionNamesAssumption DEF TypeOK, Fault

LEMMA OnlyTyped ==
  ASSUME TypeOK, NEW S
  PROVE  Only(S) \in [Sessions -> Names \cup {NoName}]
BY DEF TypeOK, Only

LEMMA FirstRowTyped ==
  ASSUME TypeOK, NEW s \in Sessions
  PROVE  FirstRow(s) \subseteq {0} \cup DOMAIN log
<1> DEFINE there == {i \in Questions(s) : rows[i] > 0}
<1>1. there \subseteq DOMAIN log /\ there \subseteq Nat
  BY LogFacts DEF Questions
<1>2. CASE there = {}
  BY <1>2 DEF FirstRow
<1>3. CASE there # {}
  <2>1. Earliest(there) \in there /\ FirstRow(s) = {Earliest(there)}
    BY <1>1, <1>3, EarliestFacts DEF FirstRow
  <2> QED
    BY <1>1, <2>1
<1> QED
  BY <1>2, <1>3

(* What a request holds at its places.                                     *)
PlaceOK(r) ==
  /\ r.at \in {"rename", "create", "write", "renamed"} => r.kind = "rename"
  /\ r.at \notin {"names", "titles"} => r.firm = {} /\ r.titled = {}
  /\ r.at # "titles" => r.todo = {}
PlaceInv == \A t \in Threads : PlaceOK(req[t])

LEMMA InitType == Init => TypeOK
<1> SUFFICES ASSUME Init PROVE TypeOK
  OBVIOUS
<1>1. /\ Stored \in Seq(Sessions) /\ Len(Stored) \in Nat /\ DOMAIN Stored = 1..Len(Stored)
      /\ \A i \in DOMAIN Stored : Stored[i] \in Sessions
  BY SessionNamesAssumption, LenProperties, ElementOfSeq
<1>2. log \in Seq(Writes!Statements) /\ DOMAIN log = DOMAIN Stored
  <2>1. log \in [1..Len(Stored) -> Writes!Statements]
    BY <1>1 DEF Init, Writes!Statements
  <2> QED
    BY <1>1, <2>1, SeqDef
<1>3. \A f \in {applied, rows} : DOMAIN f = DOMAIN log /\ f \in Seq(Nat)
  <2>1. applied \in [1..Len(Stored) -> Nat] /\ rows \in [1..Len(Stored) -> Nat]
    BY <1>1 DEF Init
  <2> QED
    BY <1>1, <1>2, <2>1, SeqDef, SMTT(30)
<1>4. /\ req \in [Threads -> RequestSet]
      /\ \A t \in Threads : TodoOK(req[t])
  BY FreeTyped DEF Init
<1>5. known \subseteq Sessions
  BY <1>1 DEF Init
<1>6. /\ names \in [Sessions -> Names \cup {NoName}] /\ told \in [Sessions -> Names \cup {NoName}]
      /\ requests \in 0..MaxRequests /\ faults \in 0..MaxFaults
  BY SessionNamesAssumption DEF Init
<1> QED
  BY <1>2, <1>3, <1>4, <1>5, <1>6 DEF Init, TypeOK, TodoOK

(* Every step keeps the types: one step per action.                        *)
LEMMA TypeStep ==
  ASSUME TypeOK, PlaceInv, [Next]_vars
  PROVE  TypeOK'
<1>0. /\ req \in [Threads -> RequestSet] /\ \A t \in Threads : TodoOK(req[t])
      /\ names \in [Sessions -> Names \cup {NoName}] /\ told \in [Sessions -> Names \cup {NoName}]
  BY DEF TypeOK, TodoOK
<1>a. \A t \in Threads : req[t].session \in Sessions /\ req[t].name \in Names \cup {NoName}
  BY <1>0 DEF RequestSet
<1>1. ASSUME NEW t \in Threads, NEW r \in RequestSet, TodoOK(r), Request(t, r)
      PROVE  TypeOK'
  <2>1. req' \in [Threads -> RequestSet] /\ req'[t] = r /\ \A u \in Threads \ {t} : req'[u] = req[u]
    BY <1>0, <1>1 DEF Request
  <2>2. UNCHANGED <<writes, memory, meta, known, ghosts, uncreated, faults>>
        /\ requests' \in 0..MaxRequests
    BY <1>1, SessionNamesAssumption DEF Request, TypeOK
  <2>3. \A u \in Threads : TodoOK(req[u])'
    <3>1. TodoOK(req[t])'
      BY <1>1, <2>1, <2>2 DEF TodoOK, writes
    <3> QED
      BY <2>1, <2>2, <3>1, OthersKeep DEF writes
  <2> QED
    BY <2>1, <2>2, <2>3 DEF TypeOK, TodoOK, writes, memory, meta, ghosts
<1>2. ASSUME NEW t \in Threads, Requests(t)
      PROVE  TypeOK'
  <2>1. \A kind \in {"list", "ask", "delete", "new"}, s \in Sessions :
          /\ [Free EXCEPT !.at = "load", !.kind = kind, !.session = s] \in RequestSet
          /\ TodoOK([Free EXCEPT !.at = "load", !.kind = kind, !.session = s])
    BY FreeTyped DEF RequestSet, TodoOK, Places
  <2>2. \A kind \in {"list", "new"} :
          /\ [Free EXCEPT !.at = "load", !.kind = kind] \in RequestSet
          /\ TodoOK([Free EXCEPT !.at = "load", !.kind = kind])
    BY FreeTyped DEF RequestSet, TodoOK, Places
  <2>3. \A s \in Sessions, n \in Names \cup {NoName} :
          /\ [Free EXCEPT !.at = "load", !.kind = "rename", !.session = s, !.name = n] \in RequestSet
          /\ TodoOK([Free EXCEPT !.at = "load", !.kind = "rename", !.session = s, !.name = n])
    BY FreeTyped DEF RequestSet, TodoOK, Places
  <2>4. known \subseteq Sessions /\ \A raw \in Inputs : Saved[raw] \in Names \cup {NoName}
    BY SessionNamesAssumption DEF TypeOK
  <2> QED
    BY <1>1, <1>2, <2>1, <2>2, <2>3, <2>4 DEF Requests
<1>3. ASSUME NEW t \in Threads, EnsureUserDataLoaded(t)
      PROVE  TypeOK'
  <2>1. req[t].kind \in Places
    BY <1>0 DEF RequestSet, Places
  <2>2. req' \in [Threads -> RequestSet] /\ \A u \in Threads : TodoOK(req[u])'
    BY <1>3, <2>1, GotoKeeps DEF EnsureUserDataLoaded, writes
  <2>3. sessionsIds' \subseteq Sessions
    <3>1. \A i \in DOMAIN log : log[i].session \in Sessions
      BY LogFacts DEF Writes!Statements
    <3> QED
      BY <1>3, <3>1 DEF EnsureUserDataLoaded, TypeOK
  <2> QED
    BY <1>3, <2>2, <2>3 DEF EnsureUserDataLoaded, TypeOK, TodoOK, writes, meta, ghosts, counts
<1>4. ASSUME NEW t \in Threads, NEW s \in Sessions, ListNewSession(t, s)
      PROVE  TypeOK'
  <2> DEFINE r == [req[t] EXCEPT !.at = "ask", !.session = s]
  <2>1. r \in RequestSet /\ r.todo = req[t].todo /\ r.shown = req[t].shown
        /\ r.autoNameCache = req[t].autoNameCache
    BY <1>0, ZenonT(60) DEF RequestSet, Places
  <2>2. req' = [req EXCEPT ![t] = r] /\ DOMAIN log' = DOMAIN log
    BY <1>4 DEF ListNewSession, writes
  <2> HIDE DEF r
  <2>3. req' \in [Threads -> RequestSet] /\ \A u \in Threads : TodoOK(req[u])'
    BY <1>0, <2>1, <2>2, ListsKept
  <2> QED
    BY <1>4, <2>3 DEF ListNewSession, TypeOK, TodoOK, writes, meta, ghosts, counts
<1>5. ASSUME NEW t \in Threads, PublishQuestion(t)
      PROVE  TypeOK'
  <2>1. [kind |-> "insert", session |-> req[t].session] \in Writes!Statements
    BY <1>a DEF Writes!Statements
  <2>2. /\ log' \in Seq(Writes!Statements) /\ DOMAIN log \subseteq DOMAIN log'
        /\ \A f \in {applied', rows'} : DOMAIN f = DOMAIN log' /\ f \in Seq(Nat)
        /\ outstanding' \subseteq DOMAIN log' /\ lost' \subseteq DOMAIN log'
    BY <1>5, <2>1, SubmitEffect DEF PublishQuestion
  <2>3. req' \in [Threads -> RequestSet] /\ \A u \in Threads : TodoOK(req[u])'
    BY <1>5, <2>2, FinishKeeps DEF PublishQuestion
  <2> QED
    BY <1>5, <2>2, <2>3 DEF PublishQuestion, TypeOK, TodoOK, memory, meta, ghosts, counts
<1>6. ASSUME NEW t \in Threads, Unlist(t)
      PROVE  TypeOK'
  <2>1. req' \in [Threads -> RequestSet] /\ \A u \in Threads : TodoOK(req[u])'
    BY <1>6, GotoKeeps DEF Unlist, writes, Places
  <2> QED
    BY <1>6, <2>1 DEF Unlist, TypeOK, TodoOK, writes, meta, ghosts, counts
<1>7. ASSUME NEW t \in Threads, PublishDelete(t)
      PROVE  TypeOK'
  <2>1. [kind |-> "delete", session |-> req[t].session] \in Writes!Statements
    BY <1>a DEF Writes!Statements
  <2>2. /\ log' \in Seq(Writes!Statements) /\ DOMAIN log \subseteq DOMAIN log'
        /\ \A f \in {applied', rows'} : DOMAIN f = DOMAIN log' /\ f \in Seq(Nat)
        /\ outstanding' \subseteq DOMAIN log' /\ lost' \subseteq DOMAIN log'
    BY <1>7, <2>1, SubmitEffect DEF PublishDelete
  <2>3. ASSUME NEW u \in Threads PROVE req'[u] \in RequestSet /\ TodoOK(req[u])'
    <3>1. CASE u = t
      <4>1. req'[t] = Free
        BY <1>7, <3>1 DEF PublishDelete
      <4> QED
        BY <3>1, <4>1, FreeTyped DEF TodoOK
    <3>2. CASE u # t
      <4>1. req'[u] = [req[u] EXCEPT !.titled = @ \ {req[t].session}]
        BY <1>7, <3>2 DEF PublishDelete
      <4>2. req[u] \in RequestSet /\ TodoOK(req[u])
        BY <1>0
      <4> QED
        BY <2>2, <4>1, <4>2 DEF RequestSet, TodoOK
    <3> QED
      BY <3>1, <3>2
  <2>4. req' \in [Threads -> RequestSet]
    BY <1>7, <2>3 DEF PublishDelete
  <2> QED
    BY <1>7, <2>2, <2>3, <2>4 DEF PublishDelete, TypeOK, TodoOK, memory, meta, ghosts, counts
<1>8. ASSUME NEW t \in Threads, RejectRename(t) \/ AnswerError(t) \/ AnswerList(t)
      PROVE  TypeOK'
  <2>1. req' \in [Threads -> RequestSet] /\ \A u \in Threads : TodoOK(req[u])'
    BY <1>8, FinishKeeps DEF RejectRename, AnswerError, AnswerList, writes
  <2> QED
    BY <1>8, <2>1 DEF RejectRename, AnswerError, AnswerList, TypeOK, TodoOK, writes, memory, meta,
                      ghosts, counts
<1>9. ASSUME NEW t \in Threads, StartRename(t)
      PROVE  TypeOK'
  <2> DEFINE s == req[t].session
             others == {u \in Threads \ {t} : Renaming(u) /\ req[u].session = s}
  <2> DEFINE Next1(u) == CASE u = t -> [req[t] EXCEPT !.at = "create", !.alone = (others = {})]
                           [] u \in others -> [req[u] EXCEPT !.alone = FALSE]
                           [] OTHER -> [req[u] EXCEPT !.firm = @ \ {s}]
  <2>1. req' = [u \in Threads |-> Next1(u)] /\ UNCHANGED writes
    BY <1>9 DEF StartRename
  <2>2. ASSUME NEW u \in Threads
        PROVE  /\ Next1(u) \in RequestSet
               /\ Next1(u).todo = req[u].todo /\ Next1(u).shown = req[u].shown
               /\ Next1(u).autoNameCache = req[u].autoNameCache
    <3>0. req[u] \in RequestSet /\ (others = {}) \in BOOLEAN
      BY <1>0
    <3>1. CASE u = t
      <4>1. Next1(u) = [req[u] EXCEPT !.at = "create", !.alone = (others = {})]
        BY <3>1
      <4> HIDE DEF others, Next1
      <4> QED
        BY <3>0, <4>1 DEF RequestSet, Places
    <3>2. CASE u # t /\ u \in others
      <4>1. Next1(u) = [req[u] EXCEPT !.alone = FALSE]
        BY <3>2
      <4> HIDE DEF others, Next1
      <4> QED
        BY <3>0, <4>1 DEF RequestSet
    <3>3. CASE u # t /\ u \notin others
      <4>1. Next1(u) = [req[u] EXCEPT !.firm = @ \ {s}]
        BY <3>3
      <4> HIDE DEF others, Next1
      <4> QED
        BY <3>0, <4>1 DEF RequestSet
    <3> QED
      BY <3>1, <3>2, <3>3
  <2> HIDE DEF Next1
  <2>3. req' \in [Threads -> RequestSet] /\ \A u \in Threads : TodoOK(req[u])'
    BY <2>1, <2>2, ListsKept DEF writes
  <2> QED
    BY <1>9, <2>3 DEF StartRename, TypeOK, TodoOK, writes, memory, meta, counts
<1>10. ASSUME NEW t \in Threads, EnsureTable(t)
       PROVE  TypeOK'
  <2>1. req' \in [Threads -> RequestSet] /\ \A u \in Threads : TodoOK(req[u])'
    BY <1>10, GotoKeeps DEF EnsureTable, writes, Places
  <2>2. faults' \in 0..MaxFaults
    BY <1>10, FaultTyped DEF EnsureTable
  <2> QED
    BY <1>10, <2>1, <2>2 DEF EnsureTable, TypeOK, TodoOK, writes, ghosts
<1>11. ASSUME NEW t \in Threads, SetName(t)
       PROVE  names' \in [Sessions -> Names \cup {NoName}]
  BY <1>0, <1>a, <1>11 DEF SetName
<1>12. ASSUME NEW t \in Threads, Write(t)
       PROVE  TypeOK'
  <2>1. req' \in [Threads -> RequestSet] /\ \A u \in Threads : TodoOK(req[u])'
    BY <1>12, GotoKeeps DEF Write, writes, Places
  <2> QED
    BY <1>11, <1>12, <2>1 DEF Write, TypeOK, TodoOK, writes, memory, ghosts, counts
<1>13. ASSUME NEW t \in Threads, WriteThrows(t)
       PROVE  TypeOK'
  <2>1. \A r \in RequestSet :
          TodoOK(r) => /\ [r EXCEPT !.at = "refused"] \in RequestSet
                       /\ TodoOK([r EXCEPT !.at = "refused"])
                       /\ [r EXCEPT !.at = "refused", !.broken = TRUE] \in RequestSet
                       /\ TodoOK([r EXCEPT !.at = "refused", !.broken = TRUE])
    BY DEF RequestSet, TodoOK, Places
  <2>2. PICK r \in RequestSet : TodoOK(r) /\ req' = [req EXCEPT ![t] = r]
    BY <1>0, <1>13, <2>1 DEF WriteThrows
  <2>3. req' \in [Threads -> RequestSet] /\ \A u \in Threads : TodoOK(req[u])'
    BY <1>0, <1>13, <2>2 DEF TodoOK, WriteThrows, writes
  <2>4. faults' \in 0..MaxFaults /\ names' \in [Sessions -> Names \cup {NoName}]
    BY <1>0, <1>11, <1>13, FaultTyped DEF WriteThrows
  <2> QED
    BY <1>13, <2>3, <2>4 DEF WriteThrows, TypeOK, TodoOK, writes, memory, ghosts
<1>14. ASSUME NEW t \in Threads, AnswerRename(t)
       PROVE  TypeOK'
  <2>1. req' \in [Threads -> RequestSet] /\ \A u \in Threads : TodoOK(req[u])'
    BY <1>14, FinishKeeps DEF AnswerRename, writes
  <2>2. settled' \subseteq Sessions /\ told' \in [Sessions -> Names \cup {NoName}]
    BY <1>0, <1>a, <1>14 DEF AnswerRename, TypeOK, ghosts
  <2> QED
    BY <1>14, <2>1, <2>2 DEF AnswerRename, TypeOK, TodoOK, writes, memory, meta, counts
<1>15. ASSUME NEW t \in Threads, CopySessions(t)
       PROVE  TypeOK'
  <2>1. sessionsIds \subseteq Sessions /\ settled \subseteq Sessions /\ Titled \subseteq Sessions
        /\ req[t].todo = {}
    BY <1>15 DEF TypeOK, Titled, CopySessions, At, PlaceInv, PlaceOK
  <2> DEFINE r == [req[t] EXCEPT !.at = "names", !.shown = sessionsIds,
                                 !.firm = settled, !.titled = Titled]
  <2>2. r \in RequestSet /\ r.todo = {} /\ r.autoNameCache = req[t].autoNameCache
    <3>1. req[t] \in RequestSet /\ "names" \in Places
      BY <1>0 DEF Places
    <3> QED
      BY <2>1, <3>1 DEF RequestSet
  <2>3. req' = [req EXCEPT ![t] = r] /\ DOMAIN log' = DOMAIN log
    BY <1>15 DEF CopySessions, writes
  <2> HIDE DEF r
  <2>4. /\ req' \in [Threads -> RequestSet] /\ req'[t] = r
        /\ \A u \in Threads \ {t} : req'[u] = req[u]
    BY <1>0, <2>2, <2>3
  <2>5. TodoOK(req[t])'
    BY <1>0, <2>2, <2>3, <2>4 DEF TodoOK
  <2>6. \A u \in Threads : TodoOK(req[u])'
    BY <2>3, <2>4, <2>5, OthersKeep
  <2> QED
    BY <1>15, <2>4, <2>6 DEF CopySessions, TypeOK, TodoOK, writes, memory, meta, ghosts, counts
<1>16. ASSUME NEW t \in Threads, ReadNames(t)
       PROVE  TypeOK'
  <2>1. PICK S \in SUBSET Sessions :
          /\ IF S = Sessions THEN UNCHANGED faults ELSE Fault
          /\ req' = [req EXCEPT ![t].at = "titles", ![t].customNameCache = Only(S),
                                ![t].todo = Untitled(S, req[t].shown), ![t].firm = @ \cap S]
    BY <1>16 DEF ReadNames
  <2>2. /\ Only(S) \in [Sessions -> Names \cup {NoName}]
        /\ req[t].shown \subseteq Sessions
        /\ Untitled(S, req[t].shown) \subseteq req[t].shown
    BY <1>0, OnlyTyped DEF Untitled, RequestSet
  <2> DEFINE r == [req[t] EXCEPT !.at = "titles", !.customNameCache = Only(S),
                                 !.todo = Untitled(S, req[t].shown), !.firm = @ \cap S]
  <2>3. /\ r \in RequestSet /\ r.todo \subseteq r.shown
        /\ r.autoNameCache = req[t].autoNameCache
    <3>1. req[t] \in RequestSet /\ "titles" \in Places
      BY <1>0 DEF Places
    <3> QED
      BY <2>2, <3>1 DEF RequestSet
  <2>4. req' = [req EXCEPT ![t] = r] /\ DOMAIN log' = DOMAIN log
    BY <1>16, <2>1 DEF ReadNames, writes
  <2> HIDE DEF r
  <2>5. /\ req' \in [Threads -> RequestSet] /\ req'[t] = r
        /\ \A u \in Threads \ {t} : req'[u] = req[u]
    BY <1>0, <2>3, <2>4
  <2>6. TodoOK(req[t])'
    BY <1>0, <2>3, <2>4, <2>5 DEF TodoOK
  <2>7. \A u \in Threads : TodoOK(req[u])'
    BY <2>4, <2>5, <2>6, OthersKeep
  <2>8. faults' \in 0..MaxFaults
    BY <2>1, FaultTyped
  <2> QED
    BY <1>16, <2>5, <2>7, <2>8 DEF ReadNames, TypeOK, TodoOK, writes, memory, meta, ghosts
<1>17. ASSUME NEW t \in Threads, ReadTitle(t)
       PROVE  TypeOK'
  <2>1. /\ req[t] \in RequestSet /\ req[t].todo \subseteq Sessions /\ req[t].todo \subseteq req[t].shown
        /\ req[t].autoNameCache \in [Sessions -> {0} \cup DOMAIN log]
    BY <1>0 DEF RequestSet, TodoOK
  <2>2. ASSUME NEW s \in req[t].todo, NEW i \in FirstRow(s),
               req' = [req EXCEPT ![t].todo = @ \ {s}, ![t].autoNameCache[s] = i]
        PROVE  req' \in [Threads -> RequestSet] /\ \A u \in Threads : TodoOK(req[u])'
    <3> DEFINE r == [req[t] EXCEPT !.todo = @ \ {s}, !.autoNameCache[s] = i]
    <3>1. i \in {0} \cup DOMAIN log /\ i \in Nat
      BY <2>1, FirstRowTyped, LogFacts
    <3>2. /\ r \in RequestSet /\ r.todo \subseteq r.shown
          /\ r.autoNameCache \in [Sessions -> {0} \cup DOMAIN log]
      BY <2>1, <3>1 DEF RequestSet
    <3>3. req' = [req EXCEPT ![t] = r] /\ DOMAIN log' = DOMAIN log
      BY <1>17, <2>2 DEF ReadTitle, writes
    <3> HIDE DEF r
    <3>4. /\ req' \in [Threads -> RequestSet] /\ req'[t] = r
          /\ \A u \in Threads \ {t} : req'[u] = req[u]
      BY <1>0, <3>2, <3>3
    <3>5. TodoOK(req[t])'
      BY <3>2, <3>3, <3>4 DEF TodoOK
    <3> QED
      BY <3>3, <3>4, <3>5, OthersKeep
  <2>3. ASSUME NEW s \in req[t].todo,
               req' = [req EXCEPT ![t].todo = @ \ {s}, ![t].titled = @ \ {s}]
        PROVE  req' \in [Threads -> RequestSet] /\ \A u \in Threads : TodoOK(req[u])'
    <3> DEFINE r == [req[t] EXCEPT !.todo = @ \ {s}, !.titled = @ \ {s}]
    <3>2. /\ r \in RequestSet /\ r.todo \subseteq r.shown
          /\ r.autoNameCache \in [Sessions -> {0} \cup DOMAIN log]
      BY <2>1 DEF RequestSet
    <3>3. req' = [req EXCEPT ![t] = r] /\ DOMAIN log' = DOMAIN log
      BY <1>17, <2>3 DEF ReadTitle, writes
    <3> HIDE DEF r
    <3>4. /\ req' \in [Threads -> RequestSet] /\ req'[t] = r
          /\ \A u \in Threads \ {t} : req'[u] = req[u]
      BY <1>0, <3>2, <3>3
    <3>5. TodoOK(req[t])'
      BY <3>2, <3>3, <3>4 DEF TodoOK
    <3> QED
      BY <3>3, <3>4, <3>5, OthersKeep
  <2>4. req' \in [Threads -> RequestSet] /\ \A u \in Threads : TodoOK(req[u])'
    BY <1>17, <2>2, <2>3 DEF ReadTitle
  <2>5. faults' \in 0..MaxFaults
    BY <1>17, FaultTyped DEF ReadTitle
  <2> QED
    BY <1>17, <2>4, <2>5 DEF ReadTitle, TypeOK, TodoOK, writes, memory, meta, ghosts
<1>18. ASSUME NEW i \in outstanding, Execute(i)
       PROVE  TypeOK'
  <2>1. /\ UNCHANGED <<log, lost>> /\ outstanding' \subseteq DOMAIN log
        /\ \A f \in {applied', rows'} : DOMAIN f = DOMAIN log /\ f \in Seq(Nat)
    BY <1>18, ApplyEffect DEF Execute
  <2> QED
    BY <1>18, <2>1 DEF Execute, TypeOK, memory, meta, ghosts, counts
<1>19. CASE Restart
  <2>1. req' \in [Threads -> RequestSet] /\ \A u \in Threads : TodoOK(req[u])'
    BY <1>19, FreeTyped DEF Restart, TodoOK
  <2>2. faults' \in 0..MaxFaults
    BY <1>19, FaultTyped DEF Restart
  <2> QED
    BY <1>19, <2>1, <2>2 DEF Restart, TypeOK, TodoOK, writes, meta, ghosts
<1>20. CASE UNCHANGED vars
  BY <1>20 DEF vars, writes, memory, meta, ghosts, counts, TypeOK
<1> QED
  BY <1>2, <1>3, <1>4, <1>5, <1>6, <1>7, <1>8, <1>9, <1>10, <1>12, <1>13, <1>14, <1>15, <1>16,
     <1>17, <1>18, <1>19, <1>20 DEF Next
-----------------------------------------------------------------------------
(* What the actions do to the requests                                     *)

(* The steps that neither rename nor list.                                 *)
Quiet(t) ==
  \/ Requests(t) \/ EnsureUserDataLoaded(t) \/ (\E s \in Sessions : ListNewSession(t, s))
  \/ PublishQuestion(t) \/ Unlist(t)
  \/ RejectRename(t) \/ AnswerError(t) \/ AnswerList(t)

LEMMA QuietEffect ==
  ASSUME TypeOK, PlaceInv, NEW t \in Threads, Quiet(t)
  PROVE  /\ UNCHANGED <<meta, flag, ghosts, uncreated>>
         /\ \A u \in Threads \ {t} : req'[u] = req[u]
         /\ req'[t].at \in {"idle", "load", "new", "ask", "delete", "publish", "rename", "list"}
         /\ PlaceOK(req'[t])
<1>0. req \in [Threads -> RequestSet] /\ req[t] \in RequestSet /\ PlaceOK(req[t])
  BY DEF TypeOK, PlaceInv
<1>1. CASE RejectRename(t) \/ AnswerError(t) \/ AnswerList(t) \/ PublishQuestion(t)
  <2>1. Finish(t) /\ UNCHANGED <<meta, flag, ghosts, uncreated>>
    BY <1>1 DEF RejectRename, AnswerError, AnswerList, PublishQuestion, memory
  <2> QED
    BY <2>1, FinishEffect, FreeTyped DEF PlaceOK
<1>2. CASE Unlist(t)
  <2>1. Moved(req'[t], req[t], "publish") /\ \A u \in Threads \ {t} : req'[u] = req[u]
    BY <1>2, GotoEffect DEF Unlist, Places
  <2> QED
    BY <1>0, <1>2, <2>1 DEF Unlist, Moved, PlaceOK, At
<1>3. CASE EnsureUserDataLoaded(t)
  <2>1. req[t].kind \in {"list", "ask", "delete", "new", "rename"}
    BY <1>0 DEF RequestSet
  <2>2. Moved(req'[t], req[t], req[t].kind) /\ \A u \in Threads \ {t} : req'[u] = req[u]
    BY <1>3, <2>1, GotoEffect DEF EnsureUserDataLoaded, Places
  <2> QED
    BY <1>0, <1>3, <2>1, <2>2 DEF EnsureUserDataLoaded, Moved, PlaceOK, At
<1>4. ASSUME NEW s \in Sessions, ListNewSession(t, s)
      PROVE  /\ \A u \in Threads \ {t} : req'[u] = req[u]
             /\ req'[t].at = "ask" /\ PlaceOK(req'[t])
  <2>1. req' = [req EXCEPT ![t].at = "ask", ![t].session = s] /\ req[t].at = "new"
    BY <1>4 DEF ListNewSession, At
  <2>2. /\ req'[t].at = "ask" /\ req'[t].firm = req[t].firm /\ req'[t].titled = req[t].titled
        /\ req'[t].todo = req[t].todo /\ \A u \in Threads \ {t} : req'[u] = req[u]
    BY <1>0, <2>1 DEF RequestSet
  <2> QED
    BY <1>0, <2>1, <2>2 DEF PlaceOK
<1>5. ASSUME NEW r, r.at = "load", r.firm = {}, r.titled = {}, r.todo = {}, Request(t, r)
      PROVE  /\ \A u \in Threads \ {t} : req'[u] = req[u]
             /\ req'[t].at = "load" /\ PlaceOK(req'[t])
  <2>1. req'[t] = r /\ \A u \in Threads \ {t} : req'[u] = req[u]
    BY <1>0, <1>5 DEF Request
  <2> QED
    BY <1>5, <2>1 DEF PlaceOK
<1>6. CASE Requests(t)
  <2>1. PICK r : /\ r.at = "load" /\ r.firm = {} /\ r.titled = {} /\ r.todo = {}
                 /\ Request(t, r)
    <3>1. CASE Request(t, [Free EXCEPT !.at = "load", !.kind = "list"])
      BY <3>1, FreeTyped DEF RequestSet
    <3>2. ASSUME NEW kind, NEW s, Request(t, [Free EXCEPT !.at = "load", !.kind = kind, !.session = s])
          PROVE  \E r : /\ r.at = "load" /\ r.firm = {} /\ r.titled = {} /\ r.todo = {}
                        /\ Request(t, r)
      BY <3>2, FreeTyped DEF RequestSet
    <3>3. CASE Request(t, [Free EXCEPT !.at = "load", !.kind = "new"])
      BY <3>3, FreeTyped DEF RequestSet
    <3>4. ASSUME NEW s, NEW n,
                 Request(t, [Free EXCEPT !.at = "load", !.kind = "rename", !.session = s, !.name = n])
          PROVE  \E r : /\ r.at = "load" /\ r.firm = {} /\ r.titled = {} /\ r.todo = {}
                        /\ Request(t, r)
      BY <3>4, FreeTyped DEF RequestSet
    <3> QED
      BY <1>6, <3>1, <3>2, <3>3, <3>4 DEF Requests
  <2> QED
    BY <1>5, <2>1 DEF Request, memory
<1> QED
  BY <1>1, <1>2, <1>3, <1>4, <1>6 DEF Quiet, ListNewSession

LEMMA PublishDeleteEffect ==
  ASSUME TypeOK, NEW t \in Threads, PublishDelete(t)
  PROVE  /\ req'[t] = Free
         /\ \A u \in Threads \ {t} :
              /\ req'[u].titled = req[u].titled \ {req[t].session}
              /\ req'[u].at = req[u].at /\ req'[u].kind = req[u].kind
              /\ req'[u].session = req[u].session /\ req'[u].name = req[u].name
              /\ req'[u].alone = req[u].alone /\ req'[u].broken = req[u].broken
              /\ req'[u].firm = req[u].firm /\ req'[u].todo = req[u].todo
              /\ req'[u].shown = req[u].shown
              /\ req'[u].customNameCache = req[u].customNameCache
              /\ req'[u].autoNameCache = req[u].autoNameCache
<1>1. req'[t] = Free
  BY DEF PublishDelete
<1>2. ASSUME NEW u \in Threads \ {t}
      PROVE  req'[u] = [req[u] EXCEPT !.titled = @ \ {req[t].session}] /\ req[u] \in RequestSet
  BY DEF PublishDelete, TypeOK
<1>3. ASSUME NEW u \in Threads \ {t}
      PROVE  /\ req'[u].titled = req[u].titled \ {req[t].session}
             /\ req'[u].at = req[u].at /\ req'[u].kind = req[u].kind
             /\ req'[u].session = req[u].session /\ req'[u].name = req[u].name
             /\ req'[u].alone = req[u].alone /\ req'[u].broken = req[u].broken
             /\ req'[u].firm = req[u].firm /\ req'[u].todo = req[u].todo
             /\ req'[u].shown = req[u].shown
             /\ req'[u].customNameCache = req[u].customNameCache
             /\ req'[u].autoNameCache = req[u].autoNameCache
  BY <1>2, ZenonT(60) DEF RequestSet
<1> QED
  BY <1>1, <1>3

Others(t) == {u \in Threads \ {t} : Renaming(u) /\ req[u].session = req[t].session}

LEMMA StartRenameEffect ==
  ASSUME TypeOK, NEW t \in Threads, StartRename(t)
  PROVE  /\ req'[t].at = "create" /\ req'[t].alone = (Others(t) = {})
         /\ req'[t].kind = req[t].kind
         /\ req'[t].session = req[t].session /\ req'[t].name = req[t].name
         /\ req'[t].firm = req[t].firm /\ req'[t].titled = req[t].titled
         /\ req'[t].todo = req[t].todo
         /\ \A u \in Threads \ {t} :
              /\ req'[u].at = req[u].at /\ req'[u].kind = req[u].kind
              /\ req'[u].session = req[u].session /\ req'[u].name = req[u].name
              /\ req'[u].alone = IF u \in Others(t) THEN FALSE ELSE req[u].alone
              /\ req'[u].firm = IF u \in Others(t) THEN req[u].firm
                                ELSE req[u].firm \ {req[t].session}
              /\ req'[u].titled = req[u].titled /\ req'[u].todo = req[u].todo
              /\ req'[u].shown = req[u].shown /\ req'[u].broken = req[u].broken
              /\ req'[u].customNameCache = req[u].customNameCache
              /\ req'[u].autoNameCache = req[u].autoNameCache
<1>0. \A u \in Threads : req[u] \in RequestSet
  BY DEF TypeOK
<1>1. req'[t] = [req[t] EXCEPT !.at = "create", !.alone = (Others(t) = {})]
  BY DEF StartRename, Others
<1>2. ASSUME NEW u \in Threads \ {t}, u \in Others(t)
      PROVE  req'[u] = [req[u] EXCEPT !.alone = FALSE]
  BY <1>2 DEF StartRename, Others
<1>3. ASSUME NEW u \in Threads \ {t}, u \notin Others(t)
      PROVE  req'[u] = [req[u] EXCEPT !.firm = @ \ {req[t].session}]
  BY <1>3 DEF StartRename, Others
<1>4. /\ req'[t].at = "create" /\ req'[t].alone = (Others(t) = {})
      /\ req'[t].kind = req[t].kind
      /\ req'[t].session = req[t].session /\ req'[t].name = req[t].name
      /\ req'[t].firm = req[t].firm /\ req'[t].titled = req[t].titled
      /\ req'[t].todo = req[t].todo
  BY <1>0, <1>1 DEF RequestSet
<1>5. ASSUME NEW u \in Threads \ {t}, u \in Others(t)
      PROVE  /\ req'[u].at = req[u].at /\ req'[u].kind = req[u].kind
             /\ req'[u].session = req[u].session /\ req'[u].name = req[u].name
             /\ req'[u].titled = req[u].titled /\ req'[u].todo = req[u].todo
             /\ req'[u].shown = req[u].shown /\ req'[u].broken = req[u].broken
             /\ req'[u].customNameCache = req[u].customNameCache
             /\ req'[u].autoNameCache = req[u].autoNameCache
             /\ req'[u].alone = FALSE /\ req'[u].firm = req[u].firm
  <2>1. req'[u] = [req[u] EXCEPT !.alone = FALSE] /\ req[u] \in RequestSet
    BY <1>0, <1>2, <1>5
  <2> QED
    BY <2>1 DEF RequestSet
<1>6. ASSUME NEW u \in Threads \ {t}, u \notin Others(t)
      PROVE  /\ req'[u].at = req[u].at /\ req'[u].kind = req[u].kind
             /\ req'[u].session = req[u].session /\ req'[u].name = req[u].name
             /\ req'[u].titled = req[u].titled /\ req'[u].todo = req[u].todo
             /\ req'[u].shown = req[u].shown /\ req'[u].broken = req[u].broken
             /\ req'[u].customNameCache = req[u].customNameCache
             /\ req'[u].autoNameCache = req[u].autoNameCache
             /\ req'[u].alone = req[u].alone /\ req'[u].firm = req[u].firm \ {req[t].session}
  <2>1. req'[u] = [req[u] EXCEPT !.firm = @ \ {req[t].session}] /\ req[u] \in RequestSet
    BY <1>0, <1>3, <1>6
  <2> QED
    BY <2>1 DEF RequestSet
<1> QED
  BY <1>4, <1>5, <1>6

LEMMA WriteThrowsEffect ==
  ASSUME TypeOK, NEW t \in Threads, WriteThrows(t)
  PROVE  /\ req'[t].at = "refused" /\ (req'[t].broken \/ ~table)
         /\ req'[t].firm = req[t].firm /\ req'[t].titled = req[t].titled
         /\ req'[t].todo = req[t].todo
         /\ \A u \in Threads \ {t} : req'[u] = req[u]
<1>0. req \in [Threads -> RequestSet] /\ req[t] \in RequestSet
  BY DEF TypeOK
<1>1. CASE ~table /\ req' = [req EXCEPT ![t].at = "refused"]
  BY <1>0, <1>1 DEF RequestSet
<1>2. CASE req' = [req EXCEPT ![t].at = "refused", ![t].broken = TRUE]
  BY <1>0, <1>2 DEF RequestSet
<1> QED
  BY <1>1, <1>2 DEF WriteThrows

LEMMA CopyEffect ==
  ASSUME TypeOK, NEW t \in Threads, CopySessions(t)
  PROVE  /\ req'[t].at = "names" /\ req'[t].firm = settled /\ req'[t].titled = Titled
         /\ req'[t].shown = sessionsIds
         /\ req'[t].todo = req[t].todo
         /\ \A u \in Threads \ {t} : req'[u] = req[u]
<1>0. req \in [Threads -> RequestSet] /\ req[t] \in RequestSet
  BY DEF TypeOK
<1>1. req' = [req EXCEPT ![t].at = "names", ![t].shown = sessionsIds,
                         ![t].firm = settled, ![t].titled = Titled]
  BY DEF CopySessions
<1> QED
  BY <1>0, <1>1 DEF RequestSet

LEMMA ReadNamesEffect ==
  ASSUME TypeOK, NEW t \in Threads, ReadNames(t)
  PROVE  \E S \in SUBSET Sessions :
           /\ req'[t].at = "titles" /\ req'[t].firm = req[t].firm \cap S
           /\ req'[t].titled = req[t].titled /\ req'[t].shown = req[t].shown
           /\ req'[t].todo = Untitled(S, req[t].shown)
           /\ req'[t].customNameCache = Only(S)
           /\ \A u \in Threads \ {t} : req'[u] = req[u]
<1>0. req \in [Threads -> RequestSet] /\ req[t] \in RequestSet
  BY DEF TypeOK
<1>1. PICK S \in SUBSET Sessions :
        req' = [req EXCEPT ![t].at = "titles", ![t].customNameCache = Only(S),
                           ![t].todo = Untitled(S, req[t].shown), ![t].firm = @ \cap S]
  BY DEF ReadNames
<1>2. /\ req'[t].at = "titles" /\ req'[t].firm = req[t].firm \cap S
      /\ req'[t].titled = req[t].titled /\ req'[t].shown = req[t].shown
      /\ req'[t].todo = Untitled(S, req[t].shown)
      /\ req'[t].customNameCache = Only(S)
      /\ \A u \in Threads \ {t} : req'[u] = req[u]
  BY <1>0, <1>1 DEF RequestSet
<1> QED
  BY <1>2

LEMMA ReadTitleEffect ==
  ASSUME TypeOK, NEW t \in Threads, ReadTitle(t)
  PROVE  /\ req'[t].at = req[t].at /\ req'[t].firm = req[t].firm
         /\ req'[t].shown = req[t].shown
         /\ req'[t].customNameCache = req[t].customNameCache
         /\ \E s \in req[t].todo :
              /\ req'[t].todo = req[t].todo \ {s}
              /\ \A q \in Sessions \ {s} : req'[t].autoNameCache[q] = req[t].autoNameCache[q]
              /\ \/ req'[t].autoNameCache[s] \in FirstRow(s) /\ req'[t].titled = req[t].titled
                 \/ req'[t].titled = req[t].titled \ {s}
         /\ \A u \in Threads \ {t} : req'[u] = req[u]
<1>0. req \in [Threads -> RequestSet] /\ req[t] \in RequestSet
  BY DEF TypeOK
<1>1. ASSUME NEW s \in req[t].todo, NEW i \in FirstRow(s),
             req' = [req EXCEPT ![t].todo = @ \ {s}, ![t].autoNameCache[s] = i]
      PROVE  /\ req'[t].at = req[t].at /\ req'[t].firm = req[t].firm
             /\ req'[t].shown = req[t].shown
             /\ req'[t].customNameCache = req[t].customNameCache
             /\ req'[t].todo = req[t].todo \ {s} /\ req'[t].titled = req[t].titled
             /\ req'[t].autoNameCache[s] = i
             /\ \A q \in Sessions \ {s} : req'[t].autoNameCache[q] = req[t].autoNameCache[q]
             /\ \A u \in Threads \ {t} : req'[u] = req[u]
  BY <1>0, <1>1 DEF RequestSet
<1>2. ASSUME NEW s \in req[t].todo,
             req' = [req EXCEPT ![t].todo = @ \ {s}, ![t].titled = @ \ {s}]
      PROVE  /\ req'[t].at = req[t].at /\ req'[t].firm = req[t].firm
             /\ req'[t].shown = req[t].shown
             /\ req'[t].customNameCache = req[t].customNameCache
             /\ req'[t].todo = req[t].todo \ {s} /\ req'[t].titled = req[t].titled \ {s}
             /\ req'[t].autoNameCache = req[t].autoNameCache
             /\ \A u \in Threads \ {t} : req'[u] = req[u]
  BY <1>0, <1>2 DEF RequestSet
<1>3. CASE \E s \in req[t].todo : \E i \in FirstRow(s) :
             req' = [req EXCEPT ![t].todo = @ \ {s}, ![t].autoNameCache[s] = i]
  BY <1>1, <1>3
<1>4. CASE \E s \in req[t].todo : req' = [req EXCEPT ![t].todo = @ \ {s}, ![t].titled = @ \ {s}]
  BY <1>2, <1>4
<1> QED
  BY <1>3, <1>4 DEF ReadTitle

-----------------------------------------------------------------------------
(* Places                                                                  *)

LEMMA PlaceStep ==
  ASSUME TypeOK, PlaceInv, [Next]_vars
  PROVE  PlaceInv'
<1>0. \A t \in Threads : PlaceOK(req[t])
  BY DEF PlaceInv
<1>a. ASSUME NEW t \in Threads, PlaceOK(req'[t]), \A u \in Threads \ {t} : req'[u] = req[u]
      PROVE  PlaceInv'
  BY <1>0, <1>a DEF PlaceInv, PlaceOK
<1>1. ASSUME NEW t \in Threads, Quiet(t)
      PROVE  PlaceInv'
  BY <1>a, <1>1, QuietEffect
<1>2. ASSUME NEW t \in Threads, PublishDelete(t)
      PROVE  PlaceInv'
  <2>1. PlaceOK(req'[t])
    BY <1>2, PublishDeleteEffect, FreeTyped DEF PlaceOK
  <2>2. ASSUME NEW u \in Threads \ {t} PROVE PlaceOK(req'[u])
    <3>1. /\ req'[u].at = req[u].at /\ req'[u].kind = req[u].kind /\ req'[u].firm = req[u].firm
          /\ req'[u].todo = req[u].todo /\ req'[u].titled \subseteq req[u].titled
      BY <1>2, PublishDeleteEffect
    <3> QED
      BY <1>0, <3>1 DEF PlaceOK
  <2> QED
    BY <2>1, <2>2 DEF PlaceInv, PlaceOK
<1>3. ASSUME NEW t \in Threads, StartRename(t)
      PROVE  PlaceInv'
  <2>1. PlaceOK(req'[t])
    <3>1. /\ req'[t].at = "create" /\ req'[t].kind = req[t].kind /\ req'[t].firm = req[t].firm
          /\ req'[t].todo = req[t].todo /\ req'[t].titled = req[t].titled
      BY <1>3, StartRenameEffect
    <3>2. req[t].at = "rename"
      BY <1>3 DEF StartRename, At
    <3> QED
      BY <1>0, <3>1, <3>2 DEF PlaceOK
  <2>2. ASSUME NEW u \in Threads \ {t} PROVE PlaceOK(req'[u])
    <3>1. /\ req'[u].at = req[u].at /\ req'[u].kind = req[u].kind /\ req'[u].firm \subseteq req[u].firm
          /\ req'[u].todo = req[u].todo /\ req'[u].titled = req[u].titled
      BY <1>3, StartRenameEffect
    <3> QED
      BY <1>0, <3>1 DEF PlaceOK
  <2> QED
    BY <2>1, <2>2 DEF PlaceInv, PlaceOK
<1>4. ASSUME NEW t \in Threads, EnsureTable(t) \/ Write(t)
      PROVE  PlaceInv'
  <2>1. PICK l \in {"write", "renamed"} : Goto(t, l)
    BY <1>4 DEF EnsureTable, Write
  <2>2. Moved(req'[t], req[t], l) /\ \A u \in Threads \ {t} : req'[u] = req[u]
    BY <2>1, GotoEffect DEF Places
  <2>3. PlaceOK(req'[t])
    BY <1>0, <1>4, <2>1, <2>2 DEF EnsureTable, Write, At, Moved, PlaceOK
  <2> QED
    BY <1>a, <2>2, <2>3
<1>5. ASSUME NEW t \in Threads, WriteThrows(t)
      PROVE  PlaceInv'
  <2>1. PlaceOK(req'[t])
    BY <1>0, <1>5, WriteThrowsEffect DEF WriteThrows, At, PlaceOK
  <2> QED
    BY <1>a, <1>5, <2>1, WriteThrowsEffect
<1>6. ASSUME NEW t \in Threads, AnswerRename(t)
      PROVE  PlaceInv'
  BY <1>a, <1>6, FinishEffect, FreeTyped DEF AnswerRename, PlaceOK
<1>7. ASSUME NEW t \in Threads, CopySessions(t)
      PROVE  PlaceInv'
  <2>1. PlaceOK(req'[t])
    BY <1>0, <1>7, CopyEffect DEF CopySessions, At, PlaceOK
  <2> QED
    BY <1>a, <1>7, <2>1, CopyEffect
<1>8. ASSUME NEW t \in Threads, ReadNames(t)
      PROVE  PlaceInv'
  <2>1. PlaceOK(req'[t]) /\ \A u \in Threads \ {t} : req'[u] = req[u]
    BY <1>8, ReadNamesEffect DEF PlaceOK
  <2> QED
    BY <1>a, <2>1
<1>9. ASSUME NEW t \in Threads, ReadTitle(t)
      PROVE  PlaceInv'
  <2>1. PlaceOK(req'[t]) /\ \A u \in Threads \ {t} : req'[u] = req[u]
    BY <1>9, ReadTitleEffect DEF PlaceOK, ReadTitle, At
  <2> QED
    BY <1>a, <2>1
<1>10. CASE UNCHANGED req
  BY <1>10 DEF PlaceInv, PlaceOK
<1>11. CASE Restart
  BY <1>11, FreeTyped DEF Restart, PlaceInv, PlaceOK
<1> QED
  BY <1>1, <1>2, <1>3, <1>4, <1>5, <1>6, <1>7, <1>8, <1>9, <1>10, <1>11
  DEF Next, Quiet, Execute, vars

LEMMA InitPlace == Init => PlaceInv
BY FreeTyped DEF Init, PlaceInv, PlaceOK

IInv == TypeOK /\ PlaceInv

LEMMA NextIInv == IInv /\ [Next]_vars => IInv'
BY TypeStep, PlaceStep DEF IInv

LEMMA InitIInv == Init => IInv
BY InitType, InitPlace DEF IInv

(* The lists, the requests and the statements are what they should be.     *)
THEOREM TypeCorrect == Spec => []TypeOK
<1>1. IInv => TypeOK
  BY DEF IInv
<1> QED
  BY <1>1, InitIInv, NextIInv, PTL DEF Spec

-----------------------------------------------------------------------------
(* Refusals                                                                *)

(* A thread that writes a name is behind the once_flag, which is only left *)
(* without a table when its creation failed.                               *)
TableInv ==
  /\ flag => table \/ uncreated
  /\ \A t \in Threads : At(t, "write") => flag

LEMMA InitRefusal == Init => TableInv /\ OnlyFaultsRefuse
BY FreeTyped DEF Init, TableInv, OnlyFaultsRefuse, At

LEMMA NextRefusal == IInv /\ TableInv /\ OnlyFaultsRefuse /\ [Next]_vars
                       => (TableInv /\ OnlyFaultsRefuse)'
<1> SUFFICES ASSUME TypeOK, PlaceInv, TableInv, OnlyFaultsRefuse, [Next]_vars
             PROVE  (TableInv /\ OnlyFaultsRefuse)'
  BY DEF IInv
<1>a. ASSUME NEW t \in Threads, flag = flag', table = table', uncreated = uncreated',
             req'[t].at \notin {"write", "refused"},
             \A u \in Threads \ {t} : req'[u].at = req[u].at /\ req'[u].broken = req[u].broken
      PROVE  (TableInv /\ OnlyFaultsRefuse)'
  BY <1>a DEF TableInv, OnlyFaultsRefuse, At
<1>1. ASSUME NEW t \in Threads, Quiet(t)
      PROVE  (TableInv /\ OnlyFaultsRefuse)'
  BY <1>a, <1>1, QuietEffect DEF meta
<1>2. ASSUME NEW t \in Threads, PublishDelete(t)
      PROVE  (TableInv /\ OnlyFaultsRefuse)'
  BY <1>a, <1>2, PublishDeleteEffect, FreeTyped, SMTT(30) DEF PublishDelete, memory, meta
<1>3. ASSUME NEW t \in Threads, StartRename(t)
      PROVE  (TableInv /\ OnlyFaultsRefuse)'
  BY <1>a, <1>3, StartRenameEffect, ZenonT(60) DEF StartRename, memory, meta
<1>4. ASSUME NEW t \in Threads, EnsureTable(t)
      PROVE  (TableInv /\ OnlyFaultsRefuse)'
  <2>1. /\ Moved(req'[t], req[t], "write") /\ \A u \in Threads \ {t} : req'[u] = req[u]
        /\ flag' /\ (table' \/ uncreated') /\ (uncreated => uncreated')
    BY <1>4, GotoEffect DEF EnsureTable, Places, TableInv
  <2> QED
    BY <2>1 DEF Moved, TableInv, OnlyFaultsRefuse, At
<1>5. ASSUME NEW t \in Threads, Write(t)
      PROVE  (TableInv /\ OnlyFaultsRefuse)'
  <2>1. Moved(req'[t], req[t], "renamed") /\ \A u \in Threads \ {t} : req'[u] = req[u]
    BY <1>5, GotoEffect DEF Write, Places
  <2> QED
    BY <1>a, <1>5, <2>1 DEF Write, memory, Moved
<1>6. ASSUME NEW t \in Threads, WriteThrows(t)
      PROVE  (TableInv /\ OnlyFaultsRefuse)'
  <2>1. UNCHANGED <<flag, table, uncreated>> /\ flag
    BY <1>6 DEF WriteThrows, memory, TableInv
  <2>2. /\ req'[t].at = "refused" /\ (req'[t].broken \/ ~table)
        /\ \A u \in Threads \ {t} : req'[u] = req[u]
    BY <1>6, WriteThrowsEffect
  <2> QED
    BY <2>1, <2>2 DEF TableInv, OnlyFaultsRefuse, At
<1>7. ASSUME NEW t \in Threads, AnswerRename(t)
      PROVE  (TableInv /\ OnlyFaultsRefuse)'
  BY <1>a, <1>7, FinishEffect, FreeTyped DEF AnswerRename, memory, meta
<1>8. ASSUME NEW t \in Threads, CopySessions(t)
      PROVE  (TableInv /\ OnlyFaultsRefuse)'
  <2>1. req'[t].at = "names" /\ \A u \in Threads \ {t} : req'[u] = req[u]
    BY <1>8, CopyEffect
  <2>2. flag = flag' /\ table = table' /\ uncreated = uncreated'
    BY <1>8 DEF CopySessions, memory, meta
  <2> QED
    BY <1>a, <2>1, <2>2
<1>9. ASSUME NEW t \in Threads, ReadNames(t)
      PROVE  (TableInv /\ OnlyFaultsRefuse)'
  BY <1>a, <1>9, ReadNamesEffect, ZenonT(60) DEF ReadNames, memory, meta
<1>10. ASSUME NEW t \in Threads, ReadTitle(t)
       PROVE  (TableInv /\ OnlyFaultsRefuse)'
  BY <1>a, <1>10, ReadTitleEffect DEF ReadTitle, At, memory, meta
<1>11. CASE UNCHANGED <<req, flag, table, uncreated>>
  BY <1>11 DEF TableInv, OnlyFaultsRefuse, At
<1>12. CASE Restart
  BY <1>12, FreeTyped DEF Restart, TableInv, OnlyFaultsRefuse, At
<1> QED
  BY <1>1, <1>2, <1>3, <1>4, <1>5, <1>6, <1>7, <1>8, <1>9, <1>10, <1>11, <1>12
  DEF Next, Quiet, Execute, vars, memory, meta

(* A rename is refused only after a fault: of one of its statements, or of *)
(* the CREATE TABLE this process made only once.                           *)
THEOREM RefusalCorrect == Spec => []OnlyFaultsRefuse
<1> QED
  BY InitIInv, NextIInv, InitRefusal, NextRefusal, PTL DEF Spec

-----------------------------------------------------------------------------
(* Names                                                                   *)

Writing(t, s) == req[t].at \in {"create", "write", "renamed"} /\ req[t].session = s

(* A settled session has the name that was told, and nobody renames it.    *)
SettledInv ==
  \A s \in settled : names[s] = told[s] /\ \A t \in Threads : ~Writing(t, s)

(* A rename that met no other one is the only one of its session, and what *)
(* it wrote is there when it is answered.                                  *)
AloneInv ==
  \A t \in Threads, s \in Sessions : Writing(t, s) /\ req[t].alone =>
    /\ \A u \in Threads \ {t} : ~Writing(u, s)
    /\ req[t].at = "renamed" => names[s] = req[t].name

(* A list counts on settled sessions only, and has read their names.       *)
FirmInv ==
  \A t \in Threads :
    /\ req[t].firm \subseteq settled
    /\ req[t].at = "titles" => \A s \in req[t].firm : req[t].customNameCache[s] = names[s]

NamesInv == SettledInv /\ AloneInv /\ FirmInv

(* What FirmInv needs of a request.                                        *)
FirmOK(r) ==
  /\ r.firm \subseteq settled
  /\ r.at = "titles" => \A s \in r.firm : r.customNameCache[s] = names[s]

(* A step of a thread that renames neither before nor after it.            *)
LEMMA NoRename ==
  ASSUME NamesInv, NEW t \in Threads,
         names' = names, told' = told, settled' = settled,
         req'[t].at \notin {"create", "write", "renamed"}, FirmOK(req'[t]),
         \A u \in Threads \ {t} :
           /\ req'[u].at = req[u].at /\ req'[u].session = req[u].session
           /\ req'[u].name = req[u].name /\ req'[u].alone = req[u].alone
           /\ req'[u].firm = req[u].firm
           /\ req'[u].customNameCache = req[u].customNameCache
  PROVE  NamesInv'
<1>1. \A s : ~Writing(t, s)' /\ \A u \in Threads \ {t} : Writing(u, s)' <=> Writing(u, s)
  BY DEF Writing
<1>2. SettledInv'
  BY <1>1 DEF NamesInv, SettledInv
<1>3. AloneInv'
  <2>1. ASSUME NEW u \in Threads, NEW s \in Sessions, Writing(u, s)', req'[u].alone
        PROVE  /\ \A v \in Threads \ {u} : ~Writing(v, s)'
               /\ req'[u].at = "renamed" => names'[s] = req'[u].name
    <3>1. /\ u # t /\ Writing(u, s) /\ req[u].alone
          /\ req'[u].at = req[u].at /\ req'[u].name = req[u].name
      BY <1>1, <2>1
    <3> QED
      BY <1>1, <3>1 DEF NamesInv, AloneInv
  <2> QED
    BY <2>1 DEF AloneInv
<1>4. FirmInv'
  BY DEF NamesInv, FirmInv, FirmOK
<1> QED
  BY <1>2, <1>3, <1>4 DEF NamesInv

LEMMA InitNames == Init => NamesInv
<1> SUFFICES ASSUME Init PROVE NamesInv
  OBVIOUS
<1>1. \A t \in Threads : req[t] = Free
  BY DEF Init
<1>2. SettledInv /\ AloneInv
  BY <1>1, FreeTyped DEF Init, SettledInv, AloneInv, Writing
<1>3. FirmInv
  BY <1>1, FreeTyped DEF FirmInv
<1> QED
  BY <1>2, <1>3 DEF NamesInv

LEMMA StartRenameNames ==
  ASSUME TypeOK, PlaceInv, NamesInv, NEW t \in Threads, StartRename(t)
  PROVE  NamesInv'
<1> DEFINE s == req[t].session
<1>1. /\ req[t].at = "rename" /\ settled' = settled \ {s} /\ names' = names /\ told' = told
      /\ s \in Sessions
  BY DEF StartRename, At, meta, TypeOK, RequestSet
<1>2. \A u \in Threads \ {t} : \A q : Writing(u, q)' <=> Writing(u, q)
  BY StartRenameEffect, ZenonT(60) DEF Writing
<1>3. \A q : (Writing(t, q)' <=> q = s) /\ ~Writing(t, q)
  BY <1>1, StartRenameEffect DEF Writing
<1>4. \A u \in Threads \ {t} : u \in Others(t) <=> Writing(u, s)
  BY DEF Others, Renaming, Writing, PlaceInv, PlaceOK
<1>5. SettledInv'
  BY <1>1, <1>2, <1>3 DEF NamesInv, SettledInv
<1>6. AloneInv'
  <2>1. ASSUME NEW u \in Threads, NEW q \in Sessions, Writing(u, q)', req'[u].alone
        PROVE  /\ \A v \in Threads \ {u} : ~Writing(v, q)'
               /\ req'[u].at = "renamed" => names'[q] = req'[u].name
    <3>1. CASE u = t
      <4>1. Others(t) = {} /\ q = s /\ req'[u].at = "create"
        BY <1>3, <2>1, <3>1, StartRenameEffect
      <4> QED
        BY <1>2, <1>4, <3>1, <4>1
    <3>2. CASE u # t
      <4>1. /\ u \notin Others(t) /\ req[u].alone
            /\ req'[u].at = req[u].at /\ req'[u].name = req[u].name
        <5>1. u \in Threads \ {t} /\ req'[u].alone
          BY <2>1, <3>2
        <5>2. /\ req'[u].alone = IF u \in Others(t) THEN FALSE ELSE req[u].alone
              /\ req'[u].at = req[u].at /\ req'[u].name = req[u].name
          BY <5>1, StartRenameEffect
        <5>3. CASE u \in Others(t)
          BY <5>1, <5>2, <5>3
        <5>4. CASE u \notin Others(t)
          BY <5>1, <5>2, <5>4
        <5> QED
          BY <5>2, <5>3, <5>4
      <4>2. Writing(u, q) /\ q # s
        BY <1>2, <1>4, <2>1, <3>2, <4>1
      <4> QED
        BY <1>1, <1>2, <1>3, <4>1, <4>2 DEF NamesInv, AloneInv
    <3> QED
      BY <3>1, <3>2
  <2> QED
    BY <2>1 DEF AloneInv
<1>7. FirmInv'
  <2>1. ASSUME NEW u \in Threads
        PROVE  /\ req'[u].firm \subseteq req[u].firm \ {s}
               /\ req'[u].at = "titles" => /\ req[u].at = "titles"
                                           /\ req'[u].customNameCache = req[u].customNameCache
    <3>1. CASE u = t
      <4>1. req[t].firm = {}
        BY <1>1 DEF PlaceInv, PlaceOK
      <4>2. req'[t].firm = req[t].firm /\ req'[t].at = "create"
        BY StartRenameEffect
      <4> QED
        BY <3>1, <4>1, <4>2
    <3>2. CASE u # t /\ u \in Others(t)
      <4>1. req[u].firm = {}
        BY <3>2 DEF Others, Renaming, PlaceInv, PlaceOK
      <4>2. req'[u].firm = req[u].firm /\ req'[u].at = req[u].at
            /\ req'[u].customNameCache = req[u].customNameCache
        BY <3>2, StartRenameEffect
      <4> QED
        BY <4>1, <4>2
    <3>3. CASE u # t /\ u \notin Others(t)
      BY <3>3, StartRenameEffect
    <3> QED
      BY <3>1, <3>2, <3>3
  <2> QED
    BY <1>1, <2>1 DEF NamesInv, FirmInv
<1> QED
  BY <1>5, <1>6, <1>7 DEF NamesInv

(* The name of a session that is being renamed may change at will: it is   *)
(* not settled, and no other rename of it is alone.                        *)
LEMMA WriteNames ==
  ASSUME TypeOK, PlaceInv, NamesInv, NEW t \in Threads, req[t].at = "write",
         \A s \in Sessions \ {req[t].session} : names'[s] = names[s],
         told' = told, settled' = settled,
         \A u \in Threads \ {t} : req'[u] = req[u],
         req'[t].at \in {"renamed", "refused"}, req'[t].firm = req[t].firm,
         req'[t].at = "renamed" =>
           /\ names'[req[t].session] = req[t].name
           /\ req'[t].session = req[t].session /\ req'[t].name = req[t].name
           /\ req'[t].alone = req[t].alone
  PROVE  NamesInv'
<1> DEFINE s == req[t].session
<1>1. Writing(t, s) /\ s \in Sessions
  BY DEF Writing, TypeOK, RequestSet
<1>2. s \notin settled /\ settled \subseteq Sessions
  BY <1>1 DEF NamesInv, SettledInv, TypeOK
<1>3. \A u \in Threads : \A q : Writing(u, q)' => Writing(u, q)
  BY DEF Writing
<1>4. SettledInv'
  BY <1>2, <1>3 DEF NamesInv, SettledInv
<1>5. AloneInv'
  <2>1. ASSUME NEW u \in Threads, NEW q \in Sessions, Writing(u, q)', req'[u].alone
        PROVE  /\ \A v \in Threads \ {u} : ~Writing(v, q)'
               /\ req'[u].at = "renamed" => names'[q] = req'[u].name
    <3>1. CASE u = t
      <4>1. q = s /\ req'[t].at = "renamed" /\ req[t].alone
        BY <2>1, <3>1 DEF Writing
      <4> QED
        BY <1>1, <1>3, <3>1, <4>1 DEF NamesInv, AloneInv
    <3>2. CASE u # t
      <4>1. Writing(u, q) /\ req[u].alone /\ req'[u] = req[u]
        BY <1>3, <2>1, <3>2
      <4>2. q # s
        BY <1>1, <3>2, <4>1 DEF NamesInv, AloneInv
      <4> QED
        BY <1>3, <4>1, <4>2 DEF NamesInv, AloneInv
    <3> QED
      BY <3>1, <3>2
  <2> QED
    BY <2>1 DEF AloneInv
<1>6. FirmInv'
  <2>1. req[t].firm = {}
    BY DEF PlaceInv, PlaceOK
  <2>2. ASSUME NEW u \in Threads \ {t}
        PROVE  /\ req[u].firm \subseteq settled
               /\ req[u].at = "titles" => \A q \in req[u].firm : req[u].customNameCache[q] = names'[q]
    BY <1>2 DEF NamesInv, FirmInv
  <2> QED
    BY <2>1, <2>2 DEF FirmInv
<1> QED
  BY <1>4, <1>5, <1>6 DEF NamesInv

LEMMA AnswerRenameNames ==
  ASSUME TypeOK, PlaceInv, NamesInv, NEW t \in Threads, AnswerRename(t)
  PROVE  NamesInv'
<1> DEFINE s == req[t].session
<1>1. /\ req[t].at = "renamed" /\ names' = names /\ s \in Sessions
      /\ told \in [Sessions -> Names \cup {NoName}] /\ settled \subseteq Sessions
  BY DEF AnswerRename, At, meta, TypeOK, RequestSet
<1>2. req'[t] = Free /\ \A u \in Threads \ {t} : req'[u] = req[u]
  BY FinishEffect DEF AnswerRename
<1>3. \A u \in Threads : \A q : Writing(u, q)' => u # t /\ Writing(u, q)
  BY <1>2, FreeTyped DEF Writing
<1>4. CASE req[t].alone
  <2>1. settled' = settled \cup {s} /\ told' = [told EXCEPT ![s] = req[t].name]
    BY <1>4 DEF AnswerRename
  <2>2. names[s] = req[t].name /\ \A u \in Threads \ {t} : ~Writing(u, s)
    BY <1>1, <1>4 DEF NamesInv, AloneInv, Writing
  <2>3. told'[s] = req[t].name /\ \A q \in Sessions \ {s} : told'[q] = told[q]
    BY <1>1, <2>1
  <2>4. SettledInv'
    BY <1>1, <1>3, <2>1, <2>2, <2>3 DEF NamesInv, SettledInv
  <2>5. FirmInv'
    BY <1>1, <1>2, <2>1, FreeTyped DEF NamesInv, FirmInv
  <2> QED
    BY <1>1, <1>2, <1>3, <2>4, <2>5 DEF NamesInv, AloneInv
<1>5. CASE ~req[t].alone
  <2>1. settled' = settled /\ told' = told
    BY <1>5 DEF AnswerRename, ghosts
  <2>2. SettledInv'
    BY <1>1, <1>3, <2>1 DEF NamesInv, SettledInv
  <2>3. FirmInv'
    BY <1>1, <1>2, <2>1, FreeTyped DEF NamesInv, FirmInv
  <2> QED
    BY <1>1, <1>2, <1>3, <2>2, <2>3 DEF NamesInv, AloneInv
<1> QED
  BY <1>4, <1>5

LEMMA NextNames == IInv /\ NamesInv /\ [Next]_vars => NamesInv'
<1> SUFFICES ASSUME TypeOK, PlaceInv, NamesInv, [Next]_vars
             PROVE  NamesInv'
  BY DEF IInv
<1>1. ASSUME NEW t \in Threads, Quiet(t)
      PROVE  NamesInv'
  <2>1. FirmOK(req'[t]) /\ req'[t].at \notin {"create", "write", "renamed"}
        /\ \A u \in Threads \ {t} : req'[u] = req[u]
    BY <1>1, QuietEffect DEF PlaceOK, FirmOK
  <2>2. names' = names /\ told' = told /\ settled' = settled
    BY <1>1, QuietEffect DEF meta, ghosts
  <2> QED
    BY <2>1, <2>2, NoRename
<1>2. ASSUME NEW t \in Threads, PublishDelete(t)
      PROVE  NamesInv'
  <2>1. FirmOK(req'[t]) /\ req'[t].at = "idle"
    BY <1>2, PublishDeleteEffect, FreeTyped DEF FirmOK
  <2>2. names' = names /\ told' = told /\ settled' = settled
    BY <1>2 DEF PublishDelete, meta, ghosts
  <2> QED
    BY <1>2, <2>1, <2>2, NoRename, PublishDeleteEffect
<1>3. ASSUME NEW t \in Threads, StartRename(t)
      PROVE  NamesInv'
  BY <1>3, StartRenameNames
<1>4. ASSUME NEW t \in Threads, EnsureTable(t)
      PROVE  NamesInv'
  <2>1. /\ Moved(req'[t], req[t], "write") /\ \A u \in Threads \ {t} : req'[u] = req[u]
        /\ req[t].at = "create" /\ names' = names /\ told' = told /\ settled' = settled
    BY <1>4, GotoEffect DEF EnsureTable, Places, At, ghosts
  <2>2. \A u \in Threads : \A q : Writing(u, q)' <=> Writing(u, q)
    BY <2>1 DEF Writing, Moved
  <2>3. SettledInv'
    BY <2>1, <2>2 DEF NamesInv, SettledInv
  <2>4. AloneInv'
    BY <2>1, <2>2 DEF NamesInv, AloneInv, Moved
  <2>5. FirmInv'
    BY <2>1 DEF NamesInv, FirmInv, Moved
  <2> QED
    BY <2>3, <2>4, <2>5 DEF NamesInv
<1>5. ASSUME NEW t \in Threads, SetName(t)
      PROVE  /\ names'[req[t].session] = req[t].name
             /\ \A s \in Sessions \ {req[t].session} : names'[s] = names[s]
  BY <1>5 DEF SetName, TypeOK, RequestSet
<1>6. ASSUME NEW t \in Threads, Write(t)
      PROVE  NamesInv'
  <2>1. /\ Moved(req'[t], req[t], "renamed") /\ \A u \in Threads \ {t} : req'[u] = req[u]
        /\ req[t].at = "write" /\ told' = told /\ settled' = settled
    BY <1>6, GotoEffect DEF Write, Places, At, ghosts
  <2> QED
    BY <1>5, <1>6, <2>1, WriteNames DEF Write, Moved
<1>7. ASSUME NEW t \in Threads, WriteThrows(t)
      PROVE  NamesInv'
  <2>1. req[t].at = "write" /\ told' = told /\ settled' = settled
    BY <1>7 DEF WriteThrows, At, ghosts
  <2>2. \A s \in Sessions \ {req[t].session} : names'[s] = names[s]
    BY <1>5, <1>7 DEF WriteThrows
  <2>3. /\ req'[t].at = "refused" /\ req'[t].firm = req[t].firm
        /\ \A u \in Threads \ {t} : req'[u] = req[u]
    BY <1>7, WriteThrowsEffect
  <2> QED
    BY <2>1, <2>2, <2>3, WriteNames
<1>8. ASSUME NEW t \in Threads, AnswerRename(t)
      PROVE  NamesInv'
  BY <1>8, AnswerRenameNames
<1>9. ASSUME NEW t \in Threads, CopySessions(t)
      PROVE  NamesInv'
  <2>1. /\ req'[t].at = "names" /\ req'[t].firm = settled
        /\ \A u \in Threads \ {t} : req'[u] = req[u]
    BY <1>9, CopyEffect
  <2>2. names' = names /\ told' = told /\ settled' = settled
    BY <1>9 DEF CopySessions, meta, ghosts
  <2>3. FirmOK(req'[t])
    BY <2>1 DEF FirmOK
  <2> QED
    BY <2>1, <2>2, <2>3, NoRename
<1>10. ASSUME NEW t \in Threads, ReadNames(t)
       PROVE  NamesInv'
  <2>1. PICK S \in SUBSET Sessions :
          /\ req'[t].at = "titles" /\ req'[t].firm = req[t].firm \cap S
          /\ req'[t].customNameCache = Only(S)
          /\ \A u \in Threads \ {t} : req'[u] = req[u]
    BY <1>10, ReadNamesEffect
  <2>2. names' = names /\ told' = told /\ settled' = settled
    BY <1>10 DEF ReadNames, meta, ghosts
  <2>3. \A s \in S : Only(S)[s] = names[s]
    BY DEF Only
  <2>4. FirmOK(req'[t])
    BY <2>1, <2>3 DEF FirmOK, NamesInv, FirmInv
  <2> QED
    BY <2>1, <2>2, <2>4, NoRename
<1>11. ASSUME NEW t \in Threads, ReadTitle(t)
       PROVE  NamesInv'
  <2>1. /\ req'[t].at = "titles" /\ req[t].at = "titles" /\ req'[t].firm = req[t].firm
        /\ req'[t].customNameCache = req[t].customNameCache
        /\ \A u \in Threads \ {t} : req'[u] = req[u]
    BY <1>11, ReadTitleEffect DEF ReadTitle, At
  <2>2. names' = names /\ told' = told /\ settled' = settled
    BY <1>11 DEF ReadTitle, meta, ghosts
  <2>3. FirmOK(req'[t])
    BY <2>1 DEF FirmOK, NamesInv, FirmInv
  <2> QED
    BY <2>1, <2>2, <2>3, NoRename
<1>12. CASE UNCHANGED <<req, names, told, settled>>
  BY <1>12 DEF NamesInv, SettledInv, AloneInv, FirmInv, Writing
<1>13. CASE Restart
  <2>1. /\ \A t \in Threads : req'[t] = Free
        /\ names' = names /\ told' = told /\ settled' = settled
    BY <1>13 DEF Restart, meta, ghosts
  <2> QED
    BY <2>1, FreeTyped DEF NamesInv, SettledInv, AloneInv, FirmInv, Writing
<1> QED
  BY <1>1, <1>2, <1>3, <1>4, <1>6, <1>7, <1>8, <1>9, <1>10, <1>11, <1>12, <1>13
  DEF Next, Quiet, Execute, vars, meta, ghosts

(* A list that could read the names shows the name a session was last told *)
(* to have, in every interleaving with other requests and with faults.     *)
THEOREM NamesCorrect == Spec => []SettledNameIsShown
<1>1. NamesInv => SettledNameIsShown
  BY DEF NamesInv, SettledInv, FirmInv, SettledNameIsShown, Listed, At
<1> QED
  BY <1>1, InitIInv, NextIInv, InitNames, NextNames, PTL DEF Spec

-----------------------------------------------------------------------------
(* Titles                                                                  *)

(* The first question of the session is in the table, and no DELETE is     *)
(* under way that could remove it.                                         *)
HasTitle(s) ==
  /\ Questions(s) # {} /\ ~Deleted(s)
  /\ rows[Earliest(Questions(s))] > 0

TitleInv ==
  \A t \in Threads :
    /\ \A s \in req[t].titled : s \in Sessions /\ HasTitle(s)
    /\ req[t].at = "titles" =>
         \A s \in req[t].shown \cap req[t].titled :
           \/ s \in req[t].todo
           \/ req[t].customNameCache[s] # NoName
           \/ req[t].autoNameCache[s] = Earliest(Questions(s))

LEMMA QuestionsAre ==
  ASSUME TypeOK, NEW s
  PROVE  Questions(s) \subseteq DOMAIN log /\ Questions(s) \subseteq Nat
BY LogFacts DEF Questions

(* What is published comes behind the first question.                      *)
LEMMA SubmitKeepsTitle ==
  ASSUME TypeOK, NEW sql \in Writes!Statements, Writes!Submit(sql), NEW s, HasTitle(s),
         sql.kind = "insert" \/ sql.session # s
  PROVE  HasTitle(s)' /\ Earliest(Questions(s))' = Earliest(Questions(s))
<1> DEFINE e == Earliest(Questions(s))
           new == Len(log) + 1
<1>1. /\ DOMAIN log' = DOMAIN log \cup {new} /\ log'[new] = sql
      /\ \A i \in DOMAIN log : log'[i] = log[i] /\ rows'[i] = rows[i]
      /\ Len(log) \in Nat /\ DOMAIN log = 1..Len(log)
  BY SubmitEffect, LogFacts
<1>2. e \in Questions(s) /\ \A j \in Questions(s) : e <= j
  BY QuestionsAre, EarliestFacts DEF HasTitle
<1>3. e \in DOMAIN log /\ e \in Nat /\ e <= new
  BY <1>1, <1>2, QuestionsAre
<1>4. Questions(s) \subseteq Questions(s)' /\ Questions(s)' \subseteq Questions(s) \cup {new}
  BY <1>1 DEF Questions
<1>5. Earliest(Questions(s)') = e
  <2>1. Questions(s)' \subseteq Nat /\ e \in Questions(s)' /\ \A j \in Questions(s)' : e <= j
    BY <1>1, <1>2, <1>3, <1>4, QuestionsAre
  <2> QED
    BY <2>1, EarliestFacts
<1>6. ~Deleted(s)'
  BY <1>1 DEF HasTitle, Deleted
<1> QED
  BY <1>1, <1>2, <1>3, <1>4, <1>5, <1>6 DEF HasTitle, Earliest

LEMMA ApplyKeepsTitle ==
  ASSUME TypeOK, NEW i \in outstanding, Writes!Apply(i), NEW s, HasTitle(s)
  PROVE  HasTitle(s)' /\ Earliest(Questions(s))' = Earliest(Questions(s))
<1> DEFINE e == Earliest(Questions(s))
<1>1. /\ log' = log /\ i \in DOMAIN log /\ log[i].kind \in {"insert", "delete"}
      /\ log[i].kind = "insert" => \A j \in DOMAIN log : rows'[j] >= rows[j]
      /\ \A j \in DOMAIN log :
           log[i].kind = "delete" /\ log[j].session # log[i].session => rows'[j] = rows[j]
  BY ApplyEffect, LogFacts DEF Writes!Statements
<1>2. e \in Questions(s)
  BY QuestionsAre, EarliestFacts DEF HasTitle
<1>3. e \in DOMAIN log /\ log[e].session = s
  BY <1>2 DEF Questions
<1>4. rows[e] \in Nat /\ rows'[e] \in Nat
  <2>1. rows \in [DOMAIN log -> Nat]
    BY LogFacts
  <2>2. rows' \in Seq(Nat) /\ DOMAIN rows' = DOMAIN log
    BY ApplyEffect
  <2> QED
    BY <1>3, <2>1, <2>2, LenProperties, ElementOfSeq
<1>5. rows'[e] > 0
  <2>1. CASE log[i].kind = "insert"
    BY <1>1, <1>3, <1>4, <2>1 DEF HasTitle
  <2>2. CASE log[i].kind = "delete"
    <3>1. log[i].session # s
      BY <1>1, <2>2 DEF HasTitle, Deleted
    <3> QED
      BY <1>1, <1>3, <2>2, <3>1 DEF HasTitle
  <2> QED
    BY <1>1, <2>1, <2>2
<1>6. Questions(s)' = Questions(s) /\ (Deleted(s)' <=> Deleted(s))
  BY <1>1 DEF Questions, Deleted
<1> QED
  BY <1>5, <1>6 DEF HasTitle, Earliest

LEMMA FirmTitle ==
  ASSUME TypeOK, NEW s \in Sessions, HasTitle(s)
  PROVE  FirstRow(s) = {Earliest(Questions(s))}
<1> DEFINE there == {i \in Questions(s) : rows[i] > 0}
           e == Earliest(Questions(s))
<1>1. e \in Questions(s) /\ \A j \in Questions(s) : e <= j
  BY QuestionsAre, EarliestFacts DEF HasTitle
<1>2. there \subseteq Nat /\ e \in there /\ \A j \in there : e <= j
  BY <1>1, QuestionsAre DEF HasTitle
<1>3. Earliest(there) = e
  BY <1>2, EarliestFacts
<1> QED
  BY <1>2, <1>3 DEF FirstRow

(* A step that keeps what the lists count on, and changes one of them.     *)
LEMMA TitleFrame ==
  ASSUME TitleInv, NEW t \in Threads,
         \A s \in Sessions : HasTitle(s) =>
           HasTitle(s)' /\ Earliest(Questions(s))' = Earliest(Questions(s)),
         \A u \in Threads \ {t} : req'[u] = req[u],
         req'[t].titled = {}
  PROVE  TitleInv'
<1>1. ASSUME NEW u \in Threads \ {t}
      PROVE  /\ \A s \in req'[u].titled : s \in Sessions /\ HasTitle(s)'
             /\ req'[u].at = "titles" =>
                  \A s \in req'[u].shown \cap req'[u].titled :
                    \/ s \in req'[u].todo
                    \/ req'[u].customNameCache[s] # NoName
                    \/ req'[u].autoNameCache[s] = Earliest(Questions(s))'
  BY <1>1 DEF TitleInv
<1> QED
  BY <1>1 DEF TitleInv

LEMMA TitleSame ==
  ASSUME UNCHANGED <<log, rows>>
  PROVE  \A s : (HasTitle(s)' <=> HasTitle(s)) /\ Earliest(Questions(s))' = Earliest(Questions(s))
BY DEF HasTitle, Questions, Deleted, Earliest

LEMMA InitTitles == Init => TitleInv
BY FreeTyped DEF Init, TitleInv

LEMMA NextTitles == IInv /\ TitleInv /\ [Next]_vars => TitleInv'
<1> SUFFICES ASSUME TypeOK, PlaceInv, TitleInv, [Next]_vars
             PROVE  TitleInv'
  BY DEF IInv
<1>0. req \in [Threads -> RequestSet]
  BY DEF TypeOK
<1>1. ASSUME NEW t \in Threads, UNCHANGED <<log, rows>>, req'[t].titled = {},
             \A u \in Threads \ {t} : req'[u] = req[u]
      PROVE  TitleInv'
  BY <1>1, TitleSame, TitleFrame
<1>2. ASSUME NEW t \in Threads, PublishQuestion(t)
      PROVE  TitleInv'
  <2>1. [kind |-> "insert", session |-> req[t].session] \in Writes!Statements
    BY <1>0 DEF RequestSet, Writes!Statements
  <2>2. \A s \in Sessions : HasTitle(s) =>
          HasTitle(s)' /\ Earliest(Questions(s))' = Earliest(Questions(s))
    BY <1>2, <2>1, SubmitKeepsTitle DEF PublishQuestion
  <2> QED
    BY <1>2, <2>2, TitleFrame, FinishEffect, FreeTyped DEF PublishQuestion
<1>3. ASSUME NEW t \in Threads, Quiet(t), ~PublishQuestion(t)
      PROVE  TitleInv'
  <2>1. req'[t].titled = {} /\ \A u \in Threads \ {t} : req'[u] = req[u]
    BY <1>3, QuietEffect DEF PlaceOK
  <2>2. UNCHANGED <<log, rows>>
    BY <1>3 DEF Quiet, Requests, Request, EnsureUserDataLoaded, ListNewSession, Unlist,
                RejectRename, AnswerError, AnswerList, writes
  <2> QED
    BY <1>1, <2>1, <2>2
<1>4. ASSUME NEW t \in Threads, PublishDelete(t)
      PROVE  TitleInv'
  <2> DEFINE d == req[t].session
  <2>1. [kind |-> "delete", session |-> d] \in Writes!Statements
    BY <1>0 DEF RequestSet, Writes!Statements
  <2>2. \A s \in Sessions \ {d} : HasTitle(s) =>
          HasTitle(s)' /\ Earliest(Questions(s))' = Earliest(Questions(s))
    BY <1>4, <2>1, SubmitKeepsTitle DEF PublishDelete
  <2>3. ASSUME NEW u \in Threads \ {t}
        PROVE  /\ req'[u].titled = req[u].titled \ {d} /\ req'[u].at = req[u].at
               /\ req'[u].todo = req[u].todo /\ req'[u].shown = req[u].shown
               /\ req'[u].customNameCache = req[u].customNameCache
               /\ req'[u].autoNameCache = req[u].autoNameCache
    BY <1>4, PublishDeleteEffect
  <2>4. req'[t].titled = {}
    BY <1>4, PublishDeleteEffect, FreeTyped
  <2>5. ASSUME NEW u \in Threads \ {t}
        PROVE  /\ \A s \in req'[u].titled : s \in Sessions /\ HasTitle(s)'
               /\ req'[u].at = "titles" =>
                    \A s \in req'[u].shown \cap req'[u].titled :
                      \/ s \in req'[u].todo
                      \/ req'[u].customNameCache[s] # NoName
                      \/ req'[u].autoNameCache[s] = Earliest(Questions(s))'
    BY <2>2, <2>3 DEF TitleInv
  <2> QED
    BY <2>4, <2>5 DEF TitleInv
<1>5. ASSUME NEW t \in Threads, StartRename(t)
      PROVE  TitleInv'
  <2>1. UNCHANGED <<log, rows>>
    BY <1>5, ZenonT(60) DEF StartRename, writes
  <2>2. req'[t].titled = {} /\ req'[t].at = "create"
    BY <1>5, StartRenameEffect DEF StartRename, At, PlaceInv, PlaceOK
  <2>3. \A u \in Threads \ {t} :
          /\ req'[u].titled = req[u].titled /\ req'[u].at = req[u].at
          /\ req'[u].todo = req[u].todo /\ req'[u].shown = req[u].shown
          /\ req'[u].customNameCache = req[u].customNameCache
          /\ req'[u].autoNameCache = req[u].autoNameCache
    BY <1>5, StartRenameEffect, ZenonT(60)
  <2> QED
    BY <2>1, <2>2, <2>3, TitleSame DEF TitleInv
<1>6. ASSUME NEW t \in Threads, EnsureTable(t) \/ Write(t)
      PROVE  TitleInv'
  <2>1. PICK l \in {"write", "renamed"} : Goto(t, l)
    BY <1>6 DEF EnsureTable, Write
  <2>2. Moved(req'[t], req[t], l) /\ \A u \in Threads \ {t} : req'[u] = req[u]
    BY <2>1, GotoEffect DEF Places
  <2>3. req'[t].titled = {}
    BY <1>6, <2>2 DEF EnsureTable, Write, At, Moved, PlaceInv, PlaceOK
  <2> QED
    BY <1>1, <1>6, <2>2, <2>3 DEF EnsureTable, Write, writes
<1>7. ASSUME NEW t \in Threads, WriteThrows(t)
      PROVE  TitleInv'
  <2>1. req'[t].titled = {} /\ \A u \in Threads \ {t} : req'[u] = req[u]
    BY <1>7, WriteThrowsEffect DEF WriteThrows, At, PlaceInv, PlaceOK
  <2> QED
    BY <1>1, <1>7, <2>1 DEF WriteThrows, writes
<1>8. ASSUME NEW t \in Threads, AnswerRename(t)
      PROVE  TitleInv'
  BY <1>1, <1>8, FinishEffect, FreeTyped DEF AnswerRename, writes
<1>9. ASSUME NEW t \in Threads, UNCHANGED <<log, rows>>,
             \A s \in req'[t].titled : s \in Sessions /\ HasTitle(s),
             req'[t].at = "titles" =>
               \A s \in req'[t].shown \cap req'[t].titled :
                 \/ s \in req'[t].todo
                 \/ req'[t].customNameCache[s] # NoName
                 \/ req'[t].autoNameCache[s] = Earliest(Questions(s)),
             \A u \in Threads \ {t} : req'[u] = req[u]
      PROVE  TitleInv'
  BY <1>9, TitleSame DEF TitleInv
<1>10. ASSUME NEW t \in Threads, CopySessions(t)
       PROVE  TitleInv'
  <2>1. req'[t].at = "names" /\ req'[t].titled = Titled /\ \A u \in Threads \ {t} : req'[u] = req[u]
    BY <1>10, CopyEffect
  <2>2. \A s \in Titled : s \in Sessions /\ HasTitle(s)
    BY DEF Titled, HasTitle
  <2> QED
    BY <1>9, <1>10, <2>1, <2>2 DEF CopySessions, writes
<1>11. ASSUME NEW t \in Threads, ReadNames(t)
       PROVE  TitleInv'
  <2>1. PICK S \in SUBSET Sessions :
          /\ req'[t].titled = req[t].titled /\ req'[t].shown = req[t].shown
          /\ req'[t].todo = Untitled(S, req[t].shown)
          /\ req'[t].customNameCache = Only(S)
          /\ \A u \in Threads \ {t} : req'[u] = req[u]
    BY <1>11, ReadNamesEffect
  <2>2. UNCHANGED <<log, rows>>
    BY <1>11 DEF ReadNames, writes
  <2>3. \A s \in req'[t].shown : s \in req'[t].todo \/ req'[t].customNameCache[s] # NoName
    BY <2>1 DEF Untitled
  <2>4. \A s \in req'[t].titled : s \in Sessions /\ HasTitle(s)
    BY <2>1 DEF TitleInv
  <2> QED
    BY <1>9, <2>1, <2>2, <2>3, <2>4
<1>12. ASSUME NEW t \in Threads, ReadTitle(t)
       PROVE  TitleInv'
  <2>1. PICK s \in req[t].todo :
          /\ req'[t].todo = req[t].todo \ {s}
          /\ \A q \in Sessions \ {s} : req'[t].autoNameCache[q] = req[t].autoNameCache[q]
          /\ \/ req'[t].autoNameCache[s] \in FirstRow(s) /\ req'[t].titled = req[t].titled
             \/ req'[t].titled = req[t].titled \ {s}
    BY <1>12, ReadTitleEffect
  <2>2. /\ req'[t].shown = req[t].shown /\ req'[t].customNameCache = req[t].customNameCache
        /\ req[t].at = "titles" /\ \A u \in Threads \ {t} : req'[u] = req[u]
    BY <1>12, ReadTitleEffect DEF ReadTitle, At
  <2>3. UNCHANGED <<log, rows>>
    BY <1>12 DEF ReadTitle, writes
  <2>4. ASSUME NEW q \in req'[t].titled
        PROVE  /\ q \in Sessions /\ HasTitle(q) /\ q \in req[t].titled
               /\ q = s => req'[t].autoNameCache[q] = Earliest(Questions(q))
    <3>1. q \in req[t].titled /\ (q = s => req'[t].autoNameCache[s] \in FirstRow(s))
      BY <2>1, <2>4
    <3>2. q \in Sessions /\ HasTitle(q)
      BY <3>1 DEF TitleInv
    <3> QED
      BY <3>1, <3>2, FirmTitle
  <2>5. ASSUME NEW q \in req'[t].shown \cap req'[t].titled
        PROVE  \/ q \in req'[t].todo
               \/ req'[t].customNameCache[q] # NoName
               \/ req'[t].autoNameCache[q] = Earliest(Questions(q))
    <3>1. CASE q = s
      BY <2>4, <2>5, <3>1
    <3>2. CASE q # s
      <4>1. q \in Sessions /\ q \in req[t].titled /\ q \in req[t].shown
        BY <2>2, <2>4, <2>5
      <4> QED
        BY <2>1, <2>2, <3>2, <4>1 DEF TitleInv
    <3> QED
      BY <3>1, <3>2
  <2> QED
    BY <1>9, <2>2, <2>3, <2>4, <2>5
<1>13. ASSUME NEW i \in outstanding, Execute(i)
       PROVE  TitleInv'
  <2>1. \A s : HasTitle(s) => HasTitle(s)' /\ Earliest(Questions(s))' = Earliest(Questions(s))
    BY <1>13, ApplyKeepsTitle DEF Execute
  <2>2. req' = req
    BY <1>13 DEF Execute
  <2> QED
    BY <2>1, <2>2 DEF TitleInv
<1>14. CASE Restart
  BY <1>14, FreeTyped DEF Restart, TitleInv
<1>15. CASE UNCHANGED vars
  BY <1>15, TitleSame DEF vars, writes, TitleInv
<1> QED
  BY <1>2, <1>3, <1>4, <1>5, <1>6, <1>7, <1>8, <1>10, <1>11, <1>12, <1>13, <1>14, <1>15
  DEF Next, Quiet

(* A session without a name is shown with its first question, whatever     *)
(* rows come in what order, once the row of that question is there.        *)
THEOREM TitlesCorrect == Spec => []TitleIsFirstQuestion
<1>1. TitleInv => TitleIsFirstQuestion
  BY DEF TitleInv, TitleIsFirstQuestion, Listed, At
<1> QED
  BY <1>1, InitIInv, NextIInv, InitTitles, NextTitles, PTL DEF Spec

=============================================================================
