------------------------- MODULE HttpSessionProofs -------------------------
(***************************************************************************)
(* Theorems about the cookie sessions, for any set of threads and users    *)
(* and any number of requests.                                             *)
(***************************************************************************)
EXTENDS HttpSession, SequenceTheorems, TLAPS

(* Writing into data_ of a session keeps the other sessions.               *)
LEMMA HeapEdit ==
  ASSUME heap \in Seq(DataSet), NEW o \in DOMAIN heap, NEW d \in DataSet,
         heap' = [heap EXCEPT ![o] = d]
  PROVE  /\ heap' \in Seq(DataSet)
         /\ DOMAIN heap' = DOMAIN heap
         /\ heap'[o] = d
         /\ \A p \in DOMAIN heap : p # o => heap'[p] = heap[p]
<1>1. o \in 1..Len(heap) /\ DOMAIN heap = 1..Len(heap)
  BY LenProperties
<1>2. /\ heap' \in Seq(DataSet)
      /\ Len(heap') = Len(heap)
      /\ \A j \in 1..Len(heap) : heap'[j] = IF j = o THEN d ELSE heap[j]
  BY <1>1, ExceptSeq
<1>3. DOMAIN heap' = 1..Len(heap')
  BY <1>2, LenProperties
<1> QED
  BY <1>1, <1>2, <1>3

LEMMA DataTyped ==
  ASSUME TypeOK, NEW o \in DOMAIN heap
  PROVE  heap[o] \in DataSet
<1>1. heap \in Seq(DataSet) /\ o \in 1..Len(heap)
  BY LenProperties DEF TypeOK
<1> QED
  BY <1>1, ElementOfSeq

(* What every write of a session does, lost or not.                        *)
LEMMA SetValueEffect ==
  ASSUME TypeOK, NEW t \in Threads, Mine(t) \in DOMAIN heap, NEW d \in DataSet, SetValue(t, d)
  PROVE  /\ heap' \in Seq(DataSet)
         /\ DOMAIN heap' = DOMAIN heap
         /\ \A p \in DOMAIN heap : p # Mine(t) => heap'[p] = heap[p]
         /\ sessions_' = sessions_ \cup {Mine(t)}
<1>1. CASE heap' = [heap EXCEPT ![Mine(t)] = d]
  BY <1>1, HeapEdit DEF TypeOK, SetValue
<1>2. CASE UNCHANGED heap
  BY <1>2 DEF TypeOK, SetValue
<1> QED
  BY <1>1, <1>2 DEF SetValue

(* What a step does to the request of its thread, and to no other one.     *)
LEMMA FinishEffect ==
  ASSUME TypeOK, NEW t \in Threads, Mine(t) \in DOMAIN heap, Finish(t)
  PROVE  /\ req' \in [Threads -> RequestSet]
         /\ req'[t] = Free
         /\ \A u \in Threads \ {t} : req'[u] = req[u]
         /\ issued' \subseteq DOMAIN heap
<1>1. Free \in RequestSet
  BY DEF Free, RequestSet, None
<1> QED
  BY <1>1 DEF TypeOK, Finish

LEMMA GotoEffect ==
  ASSUME TypeOK, NEW t \in Threads, NEW l \in {"idle", "load", "check"} \cup Holders, Goto(t, l)
  PROVE  /\ req' \in [Threads -> RequestSet]
         /\ req'[t].at = l /\ req'[t].kind = req[t].kind /\ req'[t].user = req[t].user
         /\ req'[t].session = req[t].session /\ req'[t].id = req[t].id
         /\ \A u \in Threads \ {t} : req'[u] = req[u]
  BY DEF TypeOK, Goto, RequestSet

LEMMA SessionEffect ==
  ASSUME TypeOK, NEW t \in Threads, NEW l \in {"idle", "load", "check"} \cup Holders, NEW o \in Nat,
         GotoWith(t, l, o)
  PROVE  /\ req' \in [Threads -> RequestSet]
         /\ req'[t].at = l /\ req'[t].kind = req[t].kind /\ req'[t].user = req[t].user
         /\ req'[t].session = o /\ req'[t].id = req[t].id
         /\ \A u \in Threads \ {t} : req'[u] = req[u]
  BY DEF TypeOK, GotoWith, RequestSet

LEMMA IdEffect ==
  ASSUME TypeOK, NEW t \in Threads, NEW l \in {"idle", "load", "check"} \cup Holders,
         NEW id \in Users, GotoAs(t, l, id)
  PROVE  /\ req' \in [Threads -> RequestSet]
         /\ req'[t].at = l /\ req'[t].kind = req[t].kind /\ req'[t].user = req[t].user
         /\ req'[t].session = req[t].session /\ req'[t].id = id
         /\ \A u \in Threads \ {t} : req'[u] = req[u]
  BY DEF TypeOK, GotoAs, RequestSet

(* Sessions are never freed: the other threads keep what they rely on.     *)
LEMMA OthersKeep ==
  ASSUME TypeOK, NEW t \in Threads, DOMAIN heap \subseteq DOMAIN heap',
         \A u \in Threads \ {t} : req'[u] = req[u],
         RequestOK(req[t])'
  PROVE  \A u \in Threads : RequestOK(req[u])'
<1>1. ASSUME NEW u \in Threads \ {t} PROVE RequestOK(req[u])'
  BY <1>1 DEF TypeOK, RequestOK
<1> QED
  BY <1>1

LEMMA GotoKeeps ==
  ASSUME TypeOK, NEW t \in Threads, NEW l \in Holders, Goto(t, l),
         Mine(t) \in DOMAIN heap, DOMAIN heap \subseteq DOMAIN heap',
         l \in LoggingIn => req[t].kind = "login",
         l \in LoggingOut \cup {"name", "acting"} => req[t].id \in Users
  PROVE  /\ req' \in [Threads -> RequestSet]
         /\ \A u \in Threads : RequestOK(req[u])'
<1>1. /\ req' \in [Threads -> RequestSet]
      /\ req'[t].at = l /\ req'[t].kind = req[t].kind /\ req'[t].user = req[t].user
      /\ req'[t].session = req[t].session /\ req'[t].id = req[t].id
      /\ \A u \in Threads \ {t} : req'[u] = req[u]
  BY GotoEffect
<1>2. RequestOK(req[t])
  BY DEF TypeOK
<1>3. RequestOK(req[t])'
  BY <1>1, <1>2 DEF RequestOK, Mine
<1> QED
  BY <1>1, <1>3, OthersKeep

LEMMA GotoAsKeeps ==
  ASSUME TypeOK, NEW t \in Threads, NEW l \in Holders \ LoggingIn, NEW id \in Users,
         GotoAs(t, l, id), Mine(t) \in DOMAIN heap, DOMAIN heap \subseteq DOMAIN heap'
  PROVE  /\ req' \in [Threads -> RequestSet]
         /\ \A u \in Threads : RequestOK(req[u])'
<1>1. /\ req' \in [Threads -> RequestSet]
      /\ req'[t].at = l /\ req'[t].kind = req[t].kind /\ req'[t].user = req[t].user
      /\ req'[t].session = req[t].session /\ req'[t].id = id
      /\ \A u \in Threads \ {t} : req'[u] = req[u]
  BY IdEffect
<1>2. RequestOK(req[t])
  BY DEF TypeOK
<1>3. RequestOK(req[t])'
  BY <1>1, <1>2 DEF RequestOK, Mine
<1> QED
  BY <1>1, <1>3, OthersKeep

LEMMA FinishKeeps ==
  ASSUME TypeOK, NEW t \in Threads, Finish(t),
         Mine(t) \in DOMAIN heap, DOMAIN heap \subseteq DOMAIN heap'
  PROVE  /\ req' \in [Threads -> RequestSet]
         /\ \A u \in Threads : RequestOK(req[u])'
         /\ issued' \subseteq DOMAIN heap'
<1>1. RequestOK(Free)'
  BY DEF RequestOK, Free, Holders, LoggingIn, LoggingOut
<1> QED
  BY <1>1, FinishEffect, OthersKeep

(* A new session is at the end of the heap, and nobody had it.             *)
LEMMA NewSession ==
  ASSUME TypeOK, heap' = Append(heap, Empty)
  PROVE  /\ heap' \in Seq(DataSet)
         /\ DOMAIN heap \subseteq DOMAIN heap'
         /\ Len(heap) + 1 \in DOMAIN heap' \ DOMAIN heap
         /\ \A p \in DOMAIN heap : heap'[p] = heap[p]
<1>1. Empty \in DataSet
  BY DEF Empty, DataSet
<1>2. heap \in Seq(DataSet) /\ Len(heap) \in Nat /\ DOMAIN heap = 1..Len(heap)
  BY LenProperties DEF TypeOK
<1>3. /\ heap' \in Seq(DataSet)
      /\ Len(heap') = Len(heap) + 1
      /\ \A i \in 1..Len(heap) : heap'[i] = heap[i]
  BY <1>1, <1>2, AppendProperties
<1>4. DOMAIN heap' = 1..(Len(heap) + 1)
  BY <1>3, LenProperties
<1> QED
  BY <1>2, <1>3, <1>4

-----------------------------------------------------------------------------
(* Every step keeps the types: one step per action.                        *)
LEMMA TypeStep ==
  ASSUME TypeOK, [Next]_vars
  PROVE  TypeOK'
<1> USE DEF LoggingIn, LoggingOut
<1>0. /\ heap \in Seq(DataSet) /\ req \in [Threads -> RequestSet]
      /\ \A t \in Threads : RequestOK(req[t])
  BY DEF TypeOK
<1>1. ASSUME NEW t \in Threads, NEW kind \in {"login", "logout", "use"},
             NEW user \in Users \cup {Nobody}, NEW cookie \in issued \cup {None},
             Request(t, kind, user, cookie)
      PROVE  TypeOK'
  <2>1. cookie \in Nat
    BY LenProperties DEF TypeOK, None
  <2>2. /\ req' \in [Threads -> RequestSet]
        /\ req'[t].at = "load" /\ req'[t].kind = kind /\ req'[t].user = user
        /\ req'[t].session = cookie
        /\ \A u \in Threads \ {t} : req'[u] = req[u]
    BY <1>0, <1>1, <2>1 DEF Request, RequestSet
  <2>3. RequestOK(req[t])'
    BY <1>1, <2>2 DEF Request, TypeOK, RequestOK, Holders
  <2>4. requests' \in 0..MaxRequests
    BY <1>1, HttpSessionAssumption DEF Request, TypeOK
  <2> QED
    BY <1>1, <2>2, <2>3, <2>4, OthersKeep DEF Request, TypeOK, history
<1>2. ASSUME NEW t \in Threads, Load(t)
      PROVE  TypeOK'
  <2>1. PICK o \in {Mine(t), None} : GotoWith(t, "check", o)
    BY <1>2 DEF Load
  <2>2. o \in Nat
    BY <1>0 DEF RequestSet, None, Mine
  <2>3. /\ req' \in [Threads -> RequestSet]
        /\ req'[t].at = "check" /\ req'[t].kind = req[t].kind /\ req'[t].user = req[t].user
        /\ req'[t].session = o
        /\ \A u \in Threads \ {t} : req'[u] = req[u]
    BY <2>1, <2>2, SessionEffect DEF Holders
  <2>4. RequestOK(req[t])'
    BY <1>2, <2>3 DEF Load, At, Mine, TypeOK, RequestOK, Holders
  <2> QED
    BY <1>2, <2>3, <2>4, OthersKeep DEF Load, TypeOK, history
<1>3. ASSUME NEW t \in Threads, Check(t)
      PROVE  TypeOK'
  <2>1. CASE Mine(t) = None \/ IsExpired(Mine(t))
    <3> DEFINE o == Len(heap) + 1
    <3>1. /\ heap' \in Seq(DataSet)
          /\ DOMAIN heap \subseteq DOMAIN heap'
          /\ o \in DOMAIN heap'
      BY <1>3, <2>1, NewSession DEF Check
    <3>2. o \in Nat
      BY <1>0, LenProperties
    <3>3. GotoWith(t, "refresh", o)
      BY <1>3, <2>1 DEF Check
    <3> HIDE DEF o
    <3>4. /\ req' \in [Threads -> RequestSet]
          /\ req'[t].at = "refresh" /\ req'[t].kind = req[t].kind /\ req'[t].user = req[t].user
          /\ req'[t].session = o
          /\ \A u \in Threads \ {t} : req'[u] = req[u]
      BY <3>2, <3>3, SessionEffect DEF Holders
    <3>5. RequestOK(req[t])'
      BY <1>0, <3>1, <3>4 DEF RequestOK
    <3> QED
      BY <1>3, <3>1, <3>4, <3>5, OthersKeep DEF Check, TypeOK, history
  <2>2. CASE ~(Mine(t) = None \/ IsExpired(Mine(t)))
    <3>1. Goto(t, "refresh") /\ UNCHANGED heap
      BY <1>3, <2>2 DEF Check
    <3>2. /\ req' \in [Threads -> RequestSet]
          /\ req'[t].at = "refresh" /\ req'[t].kind = req[t].kind /\ req'[t].user = req[t].user
          /\ req'[t].session = req[t].session
          /\ \A u \in Threads \ {t} : req'[u] = req[u]
      BY <3>1, GotoEffect DEF Holders
    <3>3. Mine(t) \in DOMAIN heap
      BY <1>3, <2>2 DEF Check, At, Mine, TypeOK, RequestOK
    <3>4. RequestOK(req[t])'
      BY <3>1, <3>2, <3>3 DEF TypeOK, RequestOK, Mine
    <3> QED
      BY <1>3, <3>1, <3>2, <3>4, OthersKeep DEF Check, TypeOK, history
  <2> QED
    BY <2>1, <2>2
<1>4. ASSUME NEW t \in Threads, Refresh(t)
      PROVE  TypeOK'
  <2>1. Mine(t) \in DOMAIN heap /\ "save" \in Holders
    BY <1>0, <1>4 DEF Refresh, At, Mine, RequestOK, Holders
  <2>2. /\ req' \in [Threads -> RequestSet]
        /\ \A u \in Threads : RequestOK(req[u])'
    BY <1>4, <2>1, GotoKeeps DEF Refresh
  <2> QED
    BY <1>4, <2>1, <2>2 DEF Refresh, TypeOK, history
<1>5. ASSUME NEW t \in Threads, Save(t)
      PROVE  TypeOK'
  <2>1. Mine(t) \in DOMAIN heap
    BY <1>0, <1>5 DEF Save, At, Mine, RequestOK, Holders
  <2>2. PICK l \in {"userId", "whose", "loggedIn"} :
          /\ First(req[t].kind) = l
          /\ l = "userId" => req[t].kind = "login"
    BY <1>0 DEF First, RequestSet
  <2>3. /\ req' \in [Threads -> RequestSet]
        /\ \A u \in Threads : RequestOK(req[u])'
    BY <1>5, <2>1, <2>2, GotoKeeps DEF Save, Holders
  <2> QED
    BY <1>5, <2>1, <2>3 DEF Save, TypeOK
<1>6. ASSUME NEW t \in Threads, SetUserId(t)
      PROVE  TypeOK'
  <2>1. Mine(t) \in DOMAIN heap /\ req[t].kind = "login" /\ req[t].user \in Users
    BY <1>0, <1>6 DEF SetUserId, At, Mine, RequestOK, RequestSet, Holders
  <2>2. [Data(t) EXCEPT !.userId = req[t].user] \in DataSet
    BY <2>1, DataTyped DEF Data, DataSet
  <2>3. heap' \in Seq(DataSet) /\ DOMAIN heap' = DOMAIN heap /\ sessions_' = sessions_ \cup {Mine(t)}
    BY <1>6, <2>1, <2>2, SetValueEffect DEF SetUserId
  <2>4. /\ req' \in [Threads -> RequestSet]
        /\ \A u \in Threads : RequestOK(req[u])'
    BY <1>6, <2>1, <2>3, GotoKeeps DEF SetUserId, Holders
  <2> QED
    BY <1>6, <2>1, <2>3, <2>4 DEF SetUserId, SetValue, TypeOK, history
<1>7. ASSUME NEW t \in Threads, SetUsername(t)
      PROVE  TypeOK'
  <2>1. Mine(t) \in DOMAIN heap /\ req[t].kind = "login" /\ req[t].user \in Users
    BY <1>0, <1>7 DEF SetUsername, At, Mine, RequestOK, RequestSet, Holders
  <2>2. [Data(t) EXCEPT !.username = req[t].user] \in DataSet
    BY <2>1, DataTyped DEF Data, DataSet
  <2>3. heap' \in Seq(DataSet) /\ DOMAIN heap' = DOMAIN heap /\ sessions_' = sessions_ \cup {Mine(t)}
    BY <1>7, <2>1, <2>2, SetValueEffect DEF SetUsername
  <2>4. /\ req' \in [Threads -> RequestSet]
        /\ \A u \in Threads : RequestOK(req[u])'
    BY <1>7, <2>1, <2>3, GotoKeeps DEF SetUsername, Holders
  <2> QED
    BY <1>7, <2>1, <2>3, <2>4 DEF SetUsername, SetValue, TypeOK, history
<1>8. ASSUME NEW t \in Threads, SetLoggedIn(t)
      PROVE  TypeOK'
  <2>1. Mine(t) \in DOMAIN heap /\ req[t].kind = "login" /\ req[t].user \in Users
    BY <1>0, <1>8 DEF SetLoggedIn, At, Mine, RequestOK, RequestSet, Holders
  <2>2. [Data(t) EXCEPT !.isLoggedIn = TRUE] \in DataSet
    BY <2>1, DataTyped DEF Data, DataSet
  <2>3. heap' \in Seq(DataSet) /\ DOMAIN heap' = DOMAIN heap /\ sessions_' = sessions_ \cup {Mine(t)}
    BY <1>8, <2>1, <2>2, SetValueEffect DEF SetLoggedIn
  <2>4. /\ req' \in [Threads -> RequestSet]
        /\ \A u \in Threads : RequestOK(req[u])'
    BY <1>8, <2>1, <2>3, GotoKeeps DEF SetLoggedIn, Holders
  <2> QED
    BY <1>8, <2>1, <2>3, <2>4 DEF SetLoggedIn, SetValue, TypeOK, history
<1>9. ASSUME NEW t \in Threads, GoOnline(t)
      PROVE  TypeOK'
  <2>1. Mine(t) \in DOMAIN heap
    BY <1>0, <1>9 DEF GoOnline, At, Mine, RequestOK, Holders
  <2>3. req[t].user \in Users
    BY <1>0, <1>9 DEF GoOnline, At, RequestOK, RequestSet
  <2>2. /\ req' \in [Threads -> RequestSet]
        /\ \A u \in Threads : RequestOK(req[u])'
        /\ issued' \subseteq DOMAIN heap'
    BY <1>9, <2>1, FinishKeeps DEF GoOnline
  <2> QED
    BY <1>9, <2>1, <2>2, <2>3 DEF GoOnline, TypeOK, history
<1>10. ASSUME NEW t \in Threads, ReadWhose(t)
      PROVE  TypeOK'
  <2>1. Mine(t) \in DOMAIN heap
    BY <1>0, <1>10 DEF ReadWhose, At, Mine, RequestOK, Holders
  <2>2. Reads(t, Data(t).userId) \subseteq Users \cup {Nobody}
    BY <2>1, DataTyped DEF Reads, Data, DataSet
  <2>3. CASE Finish(t) /\ UNCHANGED disturbed
    BY <1>10, <2>1, <2>3, FinishKeeps DEF ReadWhose, TypeOK
  <2>4. ASSUME NEW id \in Users, GotoAs(t, "clear", id), UNCHANGED issued,
               disturbed' = disturbed \cup {Mine(t)}
        PROVE  TypeOK'
    <3>1. "clear" \in Holders \ LoggingIn
      BY DEF Holders
    <3>2. /\ req' \in [Threads -> RequestSet]
          /\ \A u \in Threads : RequestOK(req[u])'
      BY <1>10, <2>1, <2>4, <3>1, GotoAsKeeps DEF ReadWhose
    <3> QED
      BY <1>10, <2>1, <2>4, <3>2 DEF ReadWhose, TypeOK
  <2> QED
    BY <1>10, <2>2, <2>3, <2>4 DEF ReadWhose
<1>11. ASSUME NEW t \in Threads, Clear(t)
      PROVE  TypeOK'
  <2>1. Mine(t) \in DOMAIN heap /\ req[t].id \in Users /\ "destroy" \in Holders
    BY <1>0, <1>11 DEF Clear, Logouts, At, Mine, RequestOK, Holders
  <2>2. heap' \in Seq(DataSet) /\ DOMAIN heap' = DOMAIN heap
    <3>1. Empty \in DataSet
      BY DEF Empty, DataSet
    <3>2. CASE heap' = [heap EXCEPT ![Mine(t)] = Empty]
      BY <1>0, <2>1, <3>1, <3>2, HeapEdit
    <3>3. CASE UNCHANGED heap
      BY <1>0, <3>3
    <3> QED
      BY <1>11, <3>2, <3>3 DEF Clear
  <2>3. /\ req' \in [Threads -> RequestSet]
        /\ \A u \in Threads : RequestOK(req[u])'
    BY <1>11, <2>1, <2>2, GotoKeeps DEF Clear, Logouts
  <2> QED
    BY <1>11, <2>1, <2>2, <2>3 DEF Clear, Logouts, TypeOK
<1>12. ASSUME NEW t \in Threads, Destroy(t)
      PROVE  TypeOK'
  <2>1. Mine(t) \in DOMAIN heap /\ req[t].id \in Users /\ "parse" \in Holders
    BY <1>0, <1>12 DEF Destroy, At, Mine, RequestOK, Holders
  <2>2. /\ req' \in [Threads -> RequestSet]
        /\ \A u \in Threads : RequestOK(req[u])'
    BY <1>12, <2>1, GotoKeeps DEF Destroy
  <2> QED
    BY <1>12, <2>1, <2>2 DEF Destroy, TypeOK, history
<1>13. ASSUME NEW t \in Threads, ParseBody(t)
      PROVE  TypeOK'
  <2>1. Mine(t) \in DOMAIN heap /\ req[t].id \in Users /\ "offline" \in Holders
    BY <1>0, <1>13 DEF ParseBody, At, Mine, RequestOK, Holders
  <2>2. CASE Goto(t, "offline") /\ UNCHANGED issued
    <3>1. /\ req' \in [Threads -> RequestSet]
          /\ \A u \in Threads : RequestOK(req[u])'
      BY <1>13, <2>1, <2>2, GotoKeeps DEF ParseBody
    <3> QED
      BY <1>13, <2>2, <3>1 DEF ParseBody, TypeOK, history
  <2>3. CASE Finish(t)
    BY <1>13, <2>1, <2>3, FinishKeeps DEF ParseBody, TypeOK, history
  <2> QED
    BY <1>13, <2>2, <2>3 DEF ParseBody
<1>14. ASSUME NEW t \in Threads, GoOffline(t)
      PROVE  TypeOK'
  <2>1. Mine(t) \in DOMAIN heap
    BY <1>0, <1>14 DEF GoOffline, At, Mine, RequestOK, Holders
  <2>2. /\ req' \in [Threads -> RequestSet]
        /\ \A u \in Threads : RequestOK(req[u])'
        /\ issued' \subseteq DOMAIN heap'
    BY <1>14, <2>1, FinishKeeps DEF GoOffline
  <2> QED
    BY <1>14, <2>1, <2>2 DEF GoOffline, TypeOK, history
<1>15. ASSUME NEW t \in Threads, ReadLoggedIn(t)
      PROVE  TypeOK'
  <2>1. Mine(t) \in DOMAIN heap /\ "id" \in Holders
    BY <1>0, <1>15 DEF ReadLoggedIn, At, Mine, RequestOK, Holders
  <2>2. CASE Goto(t, "id") /\ UNCHANGED issued
    <3>1. /\ req' \in [Threads -> RequestSet]
          /\ \A u \in Threads : RequestOK(req[u])'
      BY <1>15, <2>1, <2>2, GotoKeeps DEF ReadLoggedIn
    <3> QED
      BY <1>15, <2>2, <3>1 DEF ReadLoggedIn, TypeOK, history
  <2>3. CASE Finish(t)
    BY <1>15, <2>1, <2>3, FinishKeeps DEF ReadLoggedIn, TypeOK, history
  <2> QED
    BY <1>15, <2>2, <2>3 DEF ReadLoggedIn
<1>16. ASSUME NEW t \in Threads, ReadId(t)
      PROVE  TypeOK'
  <2>1. Mine(t) \in DOMAIN heap
    BY <1>0, <1>16 DEF ReadId, At, Mine, RequestOK, Holders
  <2>2. Reads(t, Data(t).userId) \subseteq Users \cup {Nobody}
    BY <2>1, DataTyped DEF Reads, Data, DataSet
  <2>3. CASE Finish(t)
    BY <1>16, <2>1, <2>3, FinishKeeps DEF ReadId, TypeOK, history
  <2>4. ASSUME NEW id \in Users, GotoAs(t, "name", id), UNCHANGED issued
        PROVE  TypeOK'
    <3>1. "name" \in Holders \ LoggingIn
      BY DEF Holders
    <3>2. /\ req' \in [Threads -> RequestSet]
          /\ \A u \in Threads : RequestOK(req[u])'
      BY <1>16, <2>1, <2>4, <3>1, GotoAsKeeps DEF ReadId
    <3> QED
      BY <1>16, <2>4, <3>2 DEF ReadId, TypeOK, history
  <2> QED
    BY <1>16, <2>2, <2>3, <2>4 DEF ReadId
<1>17. ASSUME NEW t \in Threads, ReadName(t)
      PROVE  TypeOK'
  <2>1. Mine(t) \in DOMAIN heap /\ req[t].id \in Users
    BY <1>0, <1>17 DEF ReadName, At, Mine, RequestOK, Holders
  <2>2. Reads(t, Data(t).username) \subseteq Users \cup {Nobody}
    BY <2>1, DataTyped DEF Reads, Data, DataSet
  <2>3. PICK name \in Users \cup {Nobody} :
          req' = [req EXCEPT ![t].at = "acting", ![t].name = name]
    BY <1>17, <2>2 DEF ReadName
  <2>4. /\ req' \in [Threads -> RequestSet]
        /\ req'[t].at = "acting" /\ req'[t].kind = req[t].kind /\ req'[t].user = req[t].user
        /\ req'[t].session = req[t].session /\ req'[t].id = req[t].id
        /\ \A u \in Threads \ {t} : req'[u] = req[u]
    BY <1>0, <2>3, ZenonT(60) DEF RequestSet, Holders
  <2>5. RequestOK(req[t])'
    BY <1>0, <1>17, <2>1, <2>4 DEF ReadName, RequestOK, Mine
  <2> QED
    BY <1>17, <2>4, <2>5, OthersKeep DEF ReadName, TypeOK, history
<1>18. ASSUME NEW t \in Threads, Act(t)
      PROVE  TypeOK'
  <2>1. Mine(t) \in DOMAIN heap
    BY <1>0, <1>18 DEF Act, At, Mine, RequestOK, Holders
  <2>2. /\ req' \in [Threads -> RequestSet]
        /\ \A u \in Threads : RequestOK(req[u])'
        /\ issued' \subseteq DOMAIN heap'
    BY <1>18, <2>1, FinishKeeps DEF Act
  <2> QED
    BY <1>18, <2>1, <2>2 DEF Act, TypeOK, history
<1>19. ASSUME NEW o \in DOMAIN heap, Expire(o)
       PROVE  TypeOK'
  <2>1. expiries' \in 0..MaxExpiries
    BY <1>19, HttpSessionAssumption DEF Expire, TypeOK
  <2>2. \A u \in Threads : RequestOK(req[u])'
    BY <1>0, <1>19 DEF Expire, RequestOK
  <2> QED
    BY <1>19, <2>1, <2>2 DEF Expire, TypeOK
<1>20. CASE UNCHANGED vars
  BY <1>20 DEF vars, history, TypeOK, RequestOK
<1> QED
  BY <1>1, <1>2, <1>3, <1>4, <1>5, <1>6, <1>7, <1>8, <1>9, <1>10, <1>11, <1>12, <1>13, <1>14,
     <1>15, <1>16, <1>17, <1>18, <1>19, <1>20 DEF Next

(* The sessions are type correct, and every handler has what it relies on: *)
(* a session that exists, a user to log in, an id it has read.             *)
THEOREM TypeCorrect == Spec => []TypeOK
<1>1. Init => TypeOK
  BY HttpSessionAssumption DEF Init, TypeOK, Free, RequestSet, RequestOK, Holders, LoggingIn,
     LoggingOut, None
<1>2. TypeOK /\ [Next]_vars => TypeOK'
  BY TypeStep
<1> QED
  BY <1>1, <1>2, PTL DEF Spec

-----------------------------------------------------------------------------
(* What makes LogoutIsFinal inductive: no login is still writing into a    *)
(* session that a logout ended.                                            *)
LoginWrites == {"userId", "username", "isLoggedIn"}
LogoutInv ==
  \A o \in ended :
    /\ ~heap[o].isLoggedIn
    /\ \A u \in Threads : Mine(u) = o => req[u].at \notin LoginWrites

(* A step that writes no session keeps it, wherever its thread goes but    *)
(* into the writes of a login.                                             *)
LEMMA QuietStep ==
  ASSUME LogoutInv, NEW t \in Threads, UNCHANGED ended,
         \A o \in ended : heap'[o] = heap[o],
         \A u \in Threads \ {t} : req'[u] = req[u],
         req'[t].at \notin LoginWrites \/ req'[t].session \notin ended
  PROVE  LogoutInv'
  BY DEF LogoutInv, Mine

LEMMA LogoutStep ==
  ASSUME TypeOK, LogoutInv, [Next]_vars
  PROVE  LogoutInv'
<1> USE DEF LoginWrites
<1>0. /\ req \in [Threads -> RequestSet] /\ ended \subseteq DOMAIN heap
      /\ \A t \in Threads : RequestOK(req[t])
  BY DEF TypeOK
<1>1. ASSUME NEW t \in Threads, NEW kind \in {"login", "logout", "use"},
             NEW user \in Users \cup {Nobody}, NEW cookie \in issued \cup {None},
             Request(t, kind, user, cookie)
      PROVE  LogoutInv'
  <2>1. req'[t].at = "load" /\ \A u \in Threads \ {t} : req'[u] = req[u]
    BY <1>0, <1>1 DEF Request
  <2> QED
    BY <1>1, <2>1, QuietStep DEF Request, history
<1>2. ASSUME NEW t \in Threads, Load(t)
      PROVE  LogoutInv'
  <2>1. req'[t].at = "check" /\ \A u \in Threads \ {t} : req'[u] = req[u]
    BY <1>0, <1>2 DEF Load, GotoWith, RequestSet
  <2> QED
    BY <1>2, <2>1, QuietStep DEF Load, history
<1>3. ASSUME NEW t \in Threads, Check(t)
      PROVE  LogoutInv'
  <2>1. req'[t].at = "refresh" /\ \A u \in Threads \ {t} : req'[u] = req[u]
    BY <1>0, <1>3 DEF Check, GotoWith, Goto, RequestSet
  <2>2. \A o \in ended : heap'[o] = heap[o]
    BY <1>0, <1>3, NewSession DEF Check
  <2> QED
    BY <1>3, <2>1, <2>2, QuietStep DEF Check, history
<1>4. ASSUME NEW t \in Threads, Save(t)
      PROVE  LogoutInv'
  <2>1. PICK l \in {"userId", "whose", "loggedIn"} :
          /\ First(req[t].kind) = l
          /\ l = "userId" => req[t].kind = "login"
    BY <1>0 DEF First, RequestSet
  <2>2. /\ req'[t].at = l /\ req'[t].session = Mine(t)
        /\ \A u \in Threads \ {t} : req'[u] = req[u]
    BY <1>0, <1>4, <2>1 DEF Save, Goto, RequestSet, Mine
  <2>3. CASE req[t].kind = "login"
    <3>1. ended' = ended \ {Mine(t)} /\ UNCHANGED heap
      BY <1>4, <2>3 DEF Save
    <3> QED
      BY <2>2, <3>1 DEF LogoutInv, Mine
  <2>4. CASE req[t].kind # "login"
    BY <1>4, <2>1, <2>2, <2>4, QuietStep DEF Save
  <2> QED
    BY <2>3, <2>4
<1>5. ASSUME NEW t \in Threads, SetUserId(t) \/ SetUsername(t) \/ SetLoggedIn(t)
      PROVE  LogoutInv'
  <2>1. Mine(t) \in DOMAIN heap /\ req[t].user \in Users /\ req[t].at \in LoginWrites
    BY <1>0, <1>5 DEF SetUserId, SetUsername, SetLoggedIn, At, Mine, RequestOK, RequestSet,
                      Holders, LoggingIn
  <2>2. PICK d \in DataSet : SetValue(t, d)
    BY <1>5, <2>1, DataTyped DEF SetUserId, SetUsername, SetLoggedIn, Data, DataSet
  <2>3. Mine(t) \notin ended
    BY <2>1 DEF LogoutInv
  <2>4. \A o \in ended : heap'[o] = heap[o]
    BY <1>0, <2>1, <2>2, <2>3, SetValueEffect
  <2>5. req'[t].session = Mine(t) /\ \A u \in Threads \ {t} : req'[u] = req[u]
    BY <1>0, <1>5 DEF SetUserId, SetUsername, SetLoggedIn, Goto, RequestSet, Mine
  <2> QED
    BY <2>2, <2>3, <2>4, <2>5, QuietStep DEF SetValue, history
<1>6. ASSUME NEW t \in Threads, Clear(t)
      PROVE  LogoutInv'
  <2> DEFINE o == Mine(t)
             racing == Writers(o) \cap Logins # {}
  <2>1. o \in DOMAIN heap
    BY <1>0, <1>6 DEF Clear, Logouts, At, Mine, RequestOK, Holders
  <2>2. /\ req'[t].at = "destroy"
        /\ \A u \in Threads \ {t} : req'[u] = req[u]
    BY <1>0, <1>6 DEF Clear, Logouts, Goto, RequestSet
  <2>3. /\ heap'[o] = heap[o] \/ ~heap'[o].isLoggedIn
        /\ ~racing => ~heap'[o].isLoggedIn
        /\ \A p \in DOMAIN heap : p # o => heap'[p] = heap[p]
    <3>1. Empty \in DataSet /\ ~Empty.isLoggedIn
      BY DEF Empty, DataSet
    <3>2. CASE heap' = [heap EXCEPT ![o] = Empty]
      BY <2>1, <3>1, <3>2, HeapEdit DEF TypeOK
    <3>3. CASE racing /\ UNCHANGED heap
      BY <3>3
    <3> QED
      BY <1>6, <3>2, <3>3 DEF Clear
  <2>4. ended' = IF racing THEN ended ELSE ended \cup {o}
    BY <1>6 DEF Clear, Logouts
  <2>5. ASSUME NEW u \in Threads \ {t}, Mine(u) = o, req[u].at \in LoginWrites
        PROVE  racing
    <3>1. req[u].kind = "login"
      BY <1>0, <2>5 DEF RequestOK, LoggingIn
    <3> QED
      BY <2>5, <3>1 DEF Writers, Writing, Logins, Mine
  <2> HIDE DEF racing, o
  <2>6. ASSUME NEW p \in ended'
        PROVE  ~heap'[p].isLoggedIn
    BY <1>0, <2>1, <2>3, <2>4 DEF LogoutInv
  <2>7. ASSUME NEW p \in ended', NEW u \in Threads, req'[u].session = p
        PROVE  req'[u].at \notin LoginWrites
    <3>1. CASE u = t
      BY <2>2, <3>1
    <3>2. CASE u # t /\ p \in ended
      BY <2>2, <2>7, <3>2 DEF LogoutInv, Mine
    <3>3. CASE u # t /\ p \notin ended
      BY <2>2, <2>4, <2>5, <2>7, <3>3 DEF Mine
    <3> QED
      BY <3>1, <3>2, <3>3
  <2> QED
    BY <2>6, <2>7 DEF LogoutInv, Mine
<1>7. ASSUME NEW t \in Threads,
             \/ Refresh(t) \/ GoOnline(t) \/ ReadWhose(t) \/ Destroy(t) \/ ParseBody(t)
             \/ GoOffline(t) \/ ReadLoggedIn(t) \/ ReadId(t) \/ ReadName(t) \/ Act(t)
      PROVE  LogoutInv'
  <2>1. UNCHANGED <<heap, ended>>
    BY <1>7 DEF Refresh, GoOnline, ReadWhose, Destroy, ParseBody, GoOffline, ReadLoggedIn,
                ReadId, ReadName, Act, history
  <2>2. \/ \E l \in {"save", "parse", "offline", "id"} : Goto(t, l)
        \/ \E l \in {"clear", "name"} : \E id : GotoAs(t, l, id)
        \/ \E name : req' = [req EXCEPT ![t].at = "acting", ![t].name = name]
        \/ Finish(t)
    BY <1>7 DEF Refresh, GoOnline, ReadWhose, Destroy, ParseBody, GoOffline, ReadLoggedIn,
                ReadId, ReadName, Act
  <2>3. req'[t].at \notin LoginWrites /\ \A u \in Threads \ {t} : req'[u] = req[u]
    BY <1>0, <2>2 DEF Goto, GotoAs, Finish, Free, RequestSet
  <2> QED
    BY <2>1, <2>3, QuietStep
<1>8. ASSUME NEW o \in DOMAIN heap, Expire(o)
      PROVE  LogoutInv'
  BY <1>8 DEF Expire, LogoutInv, Mine
<1>9. CASE UNCHANGED vars
  BY <1>9 DEF vars, history, LogoutInv, Mine
<1> QED
  BY <1>1, <1>2, <1>3, <1>4, <1>5, <1>6, <1>7, <1>8, <1>9 DEF Next

(* A session that a logout ended, and that is stored again by a request    *)
(* that had loaded it before, is a session nobody is logged in on.         *)
THEOREM LogoutCorrect == Spec => []LogoutIsFinal
<1>1. Init => LogoutInv
  BY DEF Init, LogoutInv
<1>2. TypeOK /\ LogoutInv /\ [Next]_vars => LogoutInv'
  BY LogoutStep
<1>3. LogoutInv => LogoutIsFinal
  BY DEF LogoutInv, LogoutIsFinal
<1> QED
  BY <1>1, <1>2, <1>3, TypeCorrect, PTL DEF Spec

-----------------------------------------------------------------------------
(* What makes ExpiredIsGone inductive: a lapsed session stays expired, and *)
(* not even a request between load and the second look at the expiry has   *)
(* it.                                                                     *)
Having == {"check"} \cup Holders
LapsedInv ==
  \A o \in lapsed :
    /\ o \in expired
    /\ \A u \in Threads : Mine(u) = o => req[u].at \notin Having

LEMMA KeepStep ==
  ASSUME LapsedInv, NEW t \in Threads, UNCHANGED lapsed,
         expired \cap lapsed \subseteq expired',
         \A u \in Threads \ {t} : req'[u] = req[u],
         req'[t].at \notin Having \/ req'[t].session \notin lapsed
  PROVE  LapsedInv'
  BY DEF LapsedInv, Mine

LEMMA LapsedStep ==
  ASSUME TypeOK, LapsedInv, [Next]_vars
  PROVE  LapsedInv'
<1>0. /\ req \in [Threads -> RequestSet] /\ lapsed \subseteq DOMAIN heap
      /\ \A t \in Threads : RequestOK(req[t])
  BY DEF TypeOK
<1>1. ASSUME NEW t \in Threads, NEW kind \in {"login", "logout", "use"},
             NEW user \in Users \cup {Nobody}, NEW cookie \in issued \cup {None},
             Request(t, kind, user, cookie)
      PROVE  LapsedInv'
  <2>1. req'[t].at = "load" /\ \A u \in Threads \ {t} : req'[u] = req[u]
    BY <1>0, <1>1 DEF Request
  <2>2. "load" \notin Having
    BY DEF Having, Holders
  <2> QED
    BY <1>1, <2>1, <2>2, KeepStep DEF Request, history
<1>2. ASSUME NEW t \in Threads, Load(t)
      PROVE  LapsedInv'
  <2>1. /\ req'[t].session = IF Mine(t) \in sessions_ /\ ~IsExpired(Mine(t)) THEN Mine(t) ELSE None
        /\ \A u \in Threads \ {t} : req'[u] = req[u]
    BY <1>0, <1>2 DEF Load, GotoWith, RequestSet, Mine
  <2>2. None \notin DOMAIN heap
    BY LenProperties DEF TypeOK, None
  <2>3. req'[t].session \notin lapsed
    BY <1>0, <2>1, <2>2 DEF LapsedInv, IsExpired
  <2> QED
    BY <1>2, <2>1, <2>3, KeepStep DEF Load, history
<1>3. ASSUME NEW t \in Threads, Check(t)
      PROVE  LapsedInv'
  <2>1. \A u \in Threads \ {t} : req'[u] = req[u]
    BY <1>0, <1>3 DEF Check, GotoWith, Goto
  <2>2. req'[t].session \notin lapsed
    <3>1. CASE req'[t].session = Mine(t)
      BY <1>3, <3>1 DEF Check, At, LapsedInv, Having
    <3>2. CASE heap' = Append(heap, Empty) /\ req'[t].session = Len(heap) + 1
      BY <1>0, <3>2, NewSession
    <3> QED
      BY <1>0, <1>3, <3>1, <3>2 DEF Check, GotoWith, Goto, RequestSet, Mine
  <2> QED
    BY <1>3, <2>1, <2>2, KeepStep DEF Check, history
<1>4. ASSUME NEW t \in Threads, Refresh(t)
      PROVE  LapsedInv'
  <2>1. Mine(t) \notin lapsed
    BY <1>4 DEF Refresh, At, LapsedInv, Having, Holders
  <2>2. req'[t].session = Mine(t) /\ \A u \in Threads \ {t} : req'[u] = req[u]
    BY <1>0, <1>4 DEF Refresh, Goto, RequestSet, Mine
  <2> QED
    BY <1>4, <2>1, <2>2, KeepStep DEF Refresh, history
<1>5. ASSUME NEW t \in Threads,
             \/ Save(t) \/ SetUserId(t) \/ SetUsername(t) \/ SetLoggedIn(t) \/ GoOnline(t)
             \/ ReadWhose(t) \/ Clear(t) \/ Destroy(t) \/ ParseBody(t) \/ GoOffline(t)
             \/ ReadLoggedIn(t) \/ ReadId(t) \/ ReadName(t) \/ Act(t)
      PROVE  LapsedInv'
  <2>1. Mine(t) \notin lapsed
    <3>1. req[t].at \in Having
      BY <1>5 DEF Save, SetUserId, SetUsername, SetLoggedIn, GoOnline, ReadWhose, Clear, Logouts,
                  Destroy, ParseBody, GoOffline, ReadLoggedIn, ReadId, ReadName, Act, At, Having, Holders
    <3> QED
      BY <3>1 DEF LapsedInv
  <2>2. UNCHANGED <<expired, lapsed>>
    BY <1>5 DEF Save, SetUserId, SetUsername, SetLoggedIn, SetValue, GoOnline, ReadWhose, Clear,
                Logouts, Destroy, ParseBody, GoOffline, ReadLoggedIn, ReadId, ReadName, Act, history
  <2>3. \/ \E l : Goto(t, l)
        \/ \E l, id : GotoAs(t, l, id)
        \/ \E name : req' = [req EXCEPT ![t].at = "acting", ![t].name = name]
        \/ Finish(t)
    BY <1>5 DEF Save, SetUserId, SetUsername, SetLoggedIn, GoOnline, ReadWhose, Clear, Logouts,
                Destroy, ParseBody, GoOffline, ReadLoggedIn, ReadId, ReadName, Act
  <2>4. None \notin lapsed
    BY <1>0, LenProperties DEF TypeOK, None
  <2>5. /\ req'[t].session \in {Mine(t), None}
        /\ \A u \in Threads \ {t} : req'[u] = req[u]
    <3>1. ASSUME NEW l, Goto(t, l)
          PROVE  req'[t].session = Mine(t) /\ \A u \in Threads \ {t} : req'[u] = req[u]
      BY <1>0, <3>1 DEF Goto, RequestSet, Mine
    <3>2. ASSUME NEW l, NEW id, GotoAs(t, l, id)
          PROVE  req'[t].session = Mine(t) /\ \A u \in Threads \ {t} : req'[u] = req[u]
      BY <1>0, <3>2 DEF GotoAs, RequestSet, Mine
    <3>3. ASSUME NEW name, req' = [req EXCEPT ![t].at = "acting", ![t].name = name]
          PROVE  req'[t].session = Mine(t) /\ \A u \in Threads \ {t} : req'[u] = req[u]
      BY <1>0, <3>3 DEF RequestSet, Mine
    <3>4. ASSUME Finish(t)
          PROVE  req'[t].session = None /\ \A u \in Threads \ {t} : req'[u] = req[u]
      BY <1>0, <3>4 DEF Finish, Free
    <3> QED
      BY <2>3, <3>1, <3>2, <3>3, <3>4
  <2> QED
    BY <2>1, <2>2, <2>4, <2>5, KeepStep
<1>6. ASSUME NEW o \in DOMAIN heap, Expire(o)
      PROVE  LapsedInv'
  <2>1. "load" \notin Having
    BY DEF Having, Holders
  <2>2. ASSUME \A u \in Threads : Mine(u) = o => req[u].at = "load"
        PROVE  LapsedInv'
    BY <1>6, <2>1, <2>2 DEF Expire, LapsedInv, Mine
  <2>3. CASE lapsed' = lapsed
    BY <1>6, <2>3 DEF Expire, LapsedInv, Mine
  <2> QED
    BY <1>6, <2>2, <2>3 DEF Expire, At
<1>7. CASE UNCHANGED vars
  BY <1>7 DEF vars, history, LapsedInv, Mine
<1> QED
  BY <1>1, <1>2, <1>3, <1>4, <1>5, <1>6, <1>7 DEF Next

(* A session whose time ran out while no request had it never serves one   *)
(* again.                                                                  *)
THEOREM ExpiryCorrect == Spec => []ExpiredIsGone
<1>1. Init => LapsedInv
  BY DEF Init, LapsedInv
<1>2. TypeOK /\ LapsedInv /\ [Next]_vars => LapsedInv'
  BY LapsedStep
<1>3. LapsedInv => ExpiredIsGone
  BY DEF LapsedInv, ExpiredIsGone, Having
<1> QED
  BY <1>1, <1>2, <1>3, TypeCorrect, PTL DEF Spec

-----------------------------------------------------------------------------
(* What makes ActsAsOneUser inductive.  In an undisturbed session at most  *)
(* one login writes, the flag is set behind its other writes, and what a   *)
(* handler has read since it saw the flag is what the session still holds. *)
Acting == {"id", "name", "acting"}
OneUser(o) ==
  /\ heap[o].isLoggedIn => Writers(o) = {} /\ heap[o].username = heap[o].userId
  /\ \A u, v \in Writers(o) : u = v
  /\ \A u \in Threads : Mine(u) = o =>
       /\ req[u].at # "clear"
       /\ req[u].at \in {"username", "isLoggedIn"} => heap[o].userId = req[u].user
       /\ req[u].at = "isLoggedIn" => heap[o].username = req[u].user
       /\ req[u].at \in {"id", "name"} => heap[o].isLoggedIn
       /\ req[u].at = "name" => req[u].id = heap[o].userId
       /\ req[u].at = "acting" => req[u].name = req[u].id
OneUserInv == \A o \in DOMAIN heap \ disturbed : OneUser(o)

(* A step of t leaves a session alone if it does not write into it and     *)
(* goes nowhere where it would write into it or act for its user.          *)
LEMMA OneUserFrame ==
  ASSUME NEW o, OneUser(o), heap'[o] = heap[o], NEW t \in Threads,
         \A u \in Threads \ {t} : req'[u] = req[u],
         req'[t].session # o \/ req'[t].at \notin Writing \cup Acting
  PROVE  OneUser(o)'
<1>1. Writers(o)' \subseteq Writers(o)
  BY DEF Writers
<1> QED
  BY <1>1 DEF OneUser, Mine, Writing, Acting

(* A step that writes nothing, by a thread that does not begin to.         *)
LEMMA OneUserQuiet ==
  ASSUME OneUserInv, NEW t \in Threads, UNCHANGED heap, disturbed \subseteq disturbed',
         \A u \in Threads \ {t} : req'[u] = req[u],
         req'[t].session \in disturbed' \/ req'[t].at \notin Writing \cup Acting
  PROVE  OneUserInv'
  BY OneUserFrame DEF OneUserInv

(* A step that writes at most into the session of its thread.              *)
LEMMA OneUserOthers ==
  ASSUME OneUserInv, NEW t \in Threads, NEW o, disturbed \subseteq disturbed',
         DOMAIN heap' = DOMAIN heap,
         \A p \in DOMAIN heap : p # o => heap'[p] = heap[p],
         \A u \in Threads \ {t} : req'[u] = req[u],
         req'[t].session = o,
         o \in disturbed' \/ OneUser(o)'
  PROVE  OneUserInv'
<1>1. ASSUME NEW p \in DOMAIN heap' \ disturbed', p # o
      PROVE  OneUser(p)'
  BY <1>1, OneUserFrame DEF OneUserInv
<1> QED
  BY <1>1 DEF OneUserInv

(* The writes of the only login of a session, in the order the flag needs. *)
LEMMA LoginSteps ==
  ASSUME TypeOK, OneUserInv, NEW t \in Threads,
         SetUserId(t) \/ SetUsername(t) \/ SetLoggedIn(t)
  PROVE  OneUserInv'
<1>0. PICK o, user : o = Mine(t) /\ user = req[t].user
  OBVIOUS
<1>1. /\ o \in DOMAIN heap /\ user \in Users /\ heap[o] \in DataSet
      /\ req[t].at \in {"userId", "username", "isLoggedIn"}
  BY <1>0, DataTyped DEF TypeOK, SetUserId, SetUsername, SetLoggedIn, At, Mine, RequestOK, RequestSet,
                   Holders, LoggingIn
<1>2. PICK d \in DataSet :
        /\ SetValue(t, d)
        /\ \/ At(t, "userId") /\ Goto(t, "username") /\ d = [heap[o] EXCEPT !.userId = user]
           \/ At(t, "username") /\ Goto(t, "isLoggedIn") /\ d = [heap[o] EXCEPT !.username = user]
           \/ At(t, "isLoggedIn") /\ Goto(t, "online") /\ d = [heap[o] EXCEPT !.isLoggedIn = TRUE]
  BY <1>0, <1>1 DEF SetUserId, SetUsername, SetLoggedIn, Data, DataSet
<1>3. PICK l \in {"username", "isLoggedIn", "online"} : Goto(t, l)
  BY <1>2
<1>4. /\ req'[t].at = l /\ req'[t].user = user /\ req'[t].session = o
      /\ \A u \in Threads \ {t} : req'[u] = req[u]
  BY <1>0, <1>3, GotoEffect DEF Holders, Mine
<1>5. /\ DOMAIN heap' = DOMAIN heap /\ disturbed' = disturbed
      /\ \A p \in DOMAIN heap : p # o => heap'[p] = heap[p]
  BY <1>0, <1>1, <1>2, SetValueEffect DEF SetValue, history
<1>6. ASSUME o \notin disturbed
      PROVE  OneUser(o)'
  <2>1. OneUser(o) /\ t \in Writers(o)
    BY <1>0, <1>1, <1>6 DEF OneUserInv, Writers, Writing, Mine
  <2>2. Writers(o) = {t} /\ ~heap[o].isLoggedIn
    BY <2>1 DEF OneUser
  <2>3. heap' = [heap EXCEPT ![o] = d]
    BY <1>0, <1>2, <2>2 DEF SetValue
  <2>4. heap'[o] = d
    BY <1>1, <2>3, HeapEdit DEF TypeOK
  <2>5. Writers(o)' \subseteq {t} /\ (l = "online" => Writers(o)' = {})
    BY <1>4, <2>2 DEF Writers, Writing
  <2>6. ASSUME NEW u \in Threads \ {t}, Mine(u) = o
        PROVE  req[u].at \notin Writing \cup {"id", "name"}
    BY <2>1, <2>2, <2>6 DEF OneUser, Writers, Mine
  <2>7. CASE At(t, "userId") /\ l = "username" /\ d = [heap[o] EXCEPT !.userId = user]
    <3>1. ~d.isLoggedIn /\ d.userId = user
      BY <1>1, <2>2, <2>7 DEF DataSet
    <3> QED
      BY <1>4, <2>1, <2>4, <2>5, <2>6, <2>7, <3>1 DEF OneUser, Mine, Writing
  <2>8. CASE At(t, "username") /\ l = "isLoggedIn" /\ d = [heap[o] EXCEPT !.username = user]
    <3>1. ~d.isLoggedIn /\ d.userId = user /\ d.username = user
      BY <1>0, <1>1, <2>1, <2>2, <2>8 DEF DataSet, OneUser, At, Mine
    <3> QED
      BY <1>4, <2>1, <2>4, <2>5, <2>6, <2>8, <3>1 DEF OneUser, Mine, Writing
  <2>9. CASE At(t, "isLoggedIn") /\ l = "online" /\ d = [heap[o] EXCEPT !.isLoggedIn = TRUE]
    <3>1. d.userId = user /\ d.username = user
      BY <1>0, <1>1, <2>1, <2>9 DEF DataSet, OneUser, At, Mine
    <3> QED
      BY <1>4, <2>1, <2>4, <2>5, <2>6, <2>9, <3>1 DEF OneUser, Mine, Writing
  <2>10. ASSUME NEW m \in {"username", "isLoggedIn", "online"}, Goto(t, m)
         PROVE  m = l
    BY <1>4, <2>10, GotoEffect DEF Holders
  <2> QED
    BY <1>2, <2>7, <2>8, <2>9, <2>10
<1> QED
  BY <1>4, <1>5, <1>6, OneUserOthers

(* The checks of a handler: what it reads behind the flag is of one user.  *)
LEMMA ReaderSteps ==
  ASSUME TypeOK, OneUserInv, NEW t \in Threads,
         ReadLoggedIn(t) \/ ReadId(t) \/ ReadName(t)
  PROVE  OneUserInv'
<1>0. PICK o : o = Mine(t)
  OBVIOUS
<1>1. /\ req \in [Threads -> RequestSet] /\ o \in DOMAIN heap
      /\ UNCHANGED <<heap, disturbed>>
  BY <1>0 DEF TypeOK, ReadLoggedIn, ReadId, ReadName, At, Mine, RequestOK, Holders, history
<1>2. CASE Finish(t)
  <2>1. req'[t].at = "idle" /\ \A u \in Threads \ {t} : req'[u] = req[u]
    BY <1>1, <1>2 DEF Finish, Free
  <2> QED
    BY <1>1, <2>1, OneUserQuiet DEF Writing, Acting
<1>3. ASSUME ReadLoggedIn(t), heap[o].isLoggedIn, Goto(t, "id")
      PROVE  OneUserInv'
  <2>1. /\ req'[t].at = "id" /\ req'[t].session = o
        /\ \A u \in Threads \ {t} : req'[u] = req[u]
    BY <1>0, <1>1, <1>3 DEF Goto, RequestSet, Mine
  <2>2. ASSUME o \notin disturbed
        PROVE  OneUser(o)'
    <3>1. OneUser(o)
      BY <1>1, <2>2 DEF OneUserInv
    <3>2. Writers(o)' \subseteq Writers(o)
      BY <2>1 DEF Writers, Writing
    <3> QED
      BY <1>1, <1>3, <2>1, <3>1, <3>2 DEF OneUser, Mine
  <2> QED
    BY <1>1, <2>1, <2>2, OneUserOthers
<1>4. ASSUME ReadId(t), NEW id \in Reads(t, heap[o].userId), GotoAs(t, "name", id)
      PROVE  OneUserInv'
  <2>1. /\ req'[t].at = "name" /\ req'[t].session = o /\ req'[t].id = id
        /\ \A u \in Threads \ {t} : req'[u] = req[u]
    BY <1>0, <1>1, <1>4 DEF GotoAs, RequestSet, Mine
  <2>2. ASSUME o \notin disturbed
        PROVE  OneUser(o)'
    <3>1. OneUser(o)
      BY <1>1, <2>2 DEF OneUserInv
    <3>2. heap[o].isLoggedIn
      BY <1>0, <1>4, <3>1 DEF OneUser, ReadId, At
    <3>3. id = heap[o].userId
      BY <1>0, <1>4, <3>1, <3>2 DEF OneUser, Reads
    <3>4. Writers(o)' \subseteq Writers(o)
      BY <2>1 DEF Writers, Writing
    <3> QED
      BY <1>1, <2>1, <3>1, <3>2, <3>3, <3>4 DEF OneUser, Mine
  <2> QED
    BY <1>1, <2>1, <2>2, OneUserOthers
<1>5. ASSUME ReadName(t), NEW name \in Reads(t, heap[o].username),
             req' = [req EXCEPT ![t].at = "acting", ![t].name = name]
      PROVE  OneUserInv'
  <2>1. /\ req'[t].at = "acting" /\ req'[t].session = o /\ req'[t].id = req[t].id
        /\ req'[t].name = name
        /\ \A u \in Threads \ {t} : req'[u] = req[u]
    BY <1>0, <1>1, <1>5 DEF RequestSet, Mine
  <2>2. ASSUME o \notin disturbed
        PROVE  OneUser(o)'
    <3>1. OneUser(o)
      BY <1>1, <2>2 DEF OneUserInv
    <3>2. heap[o].isLoggedIn /\ req[t].id = heap[o].userId
      BY <1>0, <1>5, <3>1 DEF OneUser, ReadName, At
    <3>3. name = req[t].id
      BY <1>0, <1>5, <3>1, <3>2 DEF OneUser, Reads
    <3>4. Writers(o)' \subseteq Writers(o)
      BY <2>1 DEF Writers, Writing
    <3> QED
      BY <1>1, <2>1, <3>1, <3>3, <3>4 DEF OneUser, Mine
  <2> QED
    BY <1>1, <2>1, <2>2, OneUserOthers
<1> QED
  BY <1>0, <1>2, <1>3, <1>4, <1>5 DEF ReadLoggedIn, ReadId, ReadName, Data

(* A login that begins to write is the only one, or disturbs the session.  *)
LEMMA SaveStep ==
  ASSUME TypeOK, OneUserInv, NEW t \in Threads, Save(t)
  PROVE  OneUserInv'
<1>0. PICK o : o = Mine(t)
  OBVIOUS
<1>1. req \in [Threads -> RequestSet] /\ o \in DOMAIN heap
  BY <1>0 DEF TypeOK, Save, At, Mine, RequestOK, Holders
<1>2. PICK l \in {"userId", "whose", "loggedIn"} :
        /\ First(req[t].kind) = l
        /\ l = "userId" => req[t].kind = "login"
  BY <1>1 DEF First, RequestSet
<1>3. /\ req'[t].at = l /\ req'[t].session = o
      /\ \A u \in Threads \ {t} : req'[u] = req[u]
  BY <1>0, <1>1, <1>2 DEF Save, Goto, RequestSet, Mine
<1>4. UNCHANGED heap /\ disturbed \subseteq disturbed'
  BY DEF Save
<1>5. CASE l # "userId"
  <2>1. l \notin Writing \cup Acting
    BY <1>5 DEF Writing, Acting
  <2> QED
    BY <1>3, <1>4, <2>1, OneUserQuiet
<1>6. CASE l = "userId"
  <2>1. ASSUME o \notin disturbed'
        PROVE  OneUser(o)'
    <3>1. ~heap[o].isLoggedIn /\ Writers(o) = {}
      BY <1>0, <1>2, <1>6, <2>1 DEF Save
    <3>2. OneUser(o)
      BY <1>1, <1>4, <2>1 DEF OneUserInv
    <3>3. Writers(o)' \subseteq {t}
      BY <1>3, <3>1 DEF Writers
    <3> QED
      BY <1>3, <1>4, <1>6, <3>1, <3>2, <3>3 DEF OneUser, Mine
  <2> QED
    BY <1>3, <1>4, <2>1, OneUserOthers
<1> QED
  BY <1>5, <1>6

LEMMA OneUserStep ==
  ASSUME TypeOK, OneUserInv, [Next]_vars
  PROVE  OneUserInv'
<1>0. /\ req \in [Threads -> RequestSet] /\ disturbed \subseteq DOMAIN heap
      /\ \A t \in Threads : RequestOK(req[t])
  BY DEF TypeOK
<1>1. ASSUME NEW t \in Threads, NEW kind \in {"login", "logout", "use"},
             NEW user \in Users \cup {Nobody}, NEW cookie \in issued \cup {None},
             Request(t, kind, user, cookie)
      PROVE  OneUserInv'
  <2>1. req'[t].at = "load" /\ \A u \in Threads \ {t} : req'[u] = req[u]
    BY <1>0, <1>1 DEF Request
  <2> QED
    BY <1>1, <2>1, OneUserQuiet DEF Request, history, Writing, Acting
<1>2. ASSUME NEW t \in Threads, Load(t)
      PROVE  OneUserInv'
  <2>1. req'[t].at = "check" /\ \A u \in Threads \ {t} : req'[u] = req[u]
    BY <1>0, <1>2 DEF Load, GotoWith, RequestSet
  <2> QED
    BY <1>2, <2>1, OneUserQuiet DEF Load, history, Writing, Acting
<1>3. ASSUME NEW t \in Threads, Check(t)
      PROVE  OneUserInv'
  <2>1. req'[t].at = "refresh" /\ \A u \in Threads \ {t} : req'[u] = req[u]
    BY <1>0, <1>3 DEF Check, GotoWith, Goto, RequestSet
  <2>2. CASE UNCHANGED heap
    BY <1>3, <2>1, <2>2, OneUserQuiet DEF Check, history, Writing, Acting
  <2>3. CASE heap' = Append(heap, Empty)
    <3>1. ASSUME NEW o \in DOMAIN heap \ disturbed
          PROVE  OneUser(o)'
      BY <2>1, <2>3, <3>1, NewSession, OneUserFrame DEF OneUserInv, Writing, Acting
    <3>2. PICK new : new = Len(heap) + 1
      OBVIOUS
    <3>3. /\ new \notin DOMAIN heap /\ DOMAIN heap' = DOMAIN heap \cup {new}
          /\ ~heap'[new].isLoggedIn
      <4>1. heap \in Seq(DataSet) /\ Empty \in DataSet /\ ~Empty.isLoggedIn
        BY DEF TypeOK, Empty, DataSet
      <4>2. Len(heap) \in Nat /\ DOMAIN heap = 1..Len(heap)
        BY <4>1, LenProperties
      <4>3. /\ Append(heap, Empty) \in Seq(DataSet)
            /\ Len(Append(heap, Empty)) = Len(heap) + 1
            /\ Append(heap, Empty)[Len(heap) + 1] = Empty
        BY <4>1, AppendProperties
      <4>4. DOMAIN heap' = 1..(Len(heap) + 1)
        BY <2>3, <4>3, LenProperties
      <4> QED
        BY <2>3, <3>2, <4>1, <4>2, <4>3, <4>4
    <3>4. ASSUME NEW u \in Threads, req'[u].session = new
          PROVE  req'[u].at \notin Writing \cup Acting
      BY <1>0, <2>1, <3>3, <3>4 DEF RequestOK, Writing, Acting, Holders
    <3>5. OneUser(new)'
      <4>1. Writers(new)' = {}
        BY <3>4 DEF Writers
      <4> QED
        BY <3>3, <3>4, <4>1 DEF OneUser, Mine, Writing, Acting
    <3> QED
      BY <1>3, <3>1, <3>3, <3>5 DEF Check, history, OneUserInv
  <2> QED
    BY <1>3, <2>2, <2>3 DEF Check
<1>4. ASSUME NEW t \in Threads,
             \/ Refresh(t) \/ GoOnline(t) \/ Destroy(t) \/ ParseBody(t) \/ GoOffline(t) \/ Act(t)
      PROVE  OneUserInv'
  <2>1. UNCHANGED <<heap, disturbed>>
    BY <1>4 DEF Refresh, GoOnline, Destroy, ParseBody, GoOffline, Act, history
  <2>2. (\E l \in {"save", "parse", "offline"} : Goto(t, l)) \/ Finish(t)
    BY <1>4 DEF Refresh, GoOnline, Destroy, ParseBody, GoOffline, Act
  <2>3. /\ req'[t].at \in {"save", "parse", "offline", "idle"}
        /\ \A u \in Threads \ {t} : req'[u] = req[u]
    BY <1>0, <2>2 DEF Goto, Finish, Free, RequestSet
  <2> QED
    BY <2>1, <2>3, OneUserQuiet DEF Writing, Acting
<1>5. ASSUME NEW t \in Threads, ReadWhose(t)
      PROVE  OneUserInv'
  <2>1. UNCHANGED heap /\ disturbed \subseteq disturbed'
    BY <1>5 DEF ReadWhose
  <2>2. CASE Finish(t)
    <3>1. req'[t].at = "idle" /\ \A u \in Threads \ {t} : req'[u] = req[u]
      BY <1>0, <2>2 DEF Finish, Free
    <3> QED
      BY <2>1, <3>1, OneUserQuiet DEF Writing, Acting
  <2>3. ASSUME NEW id, GotoAs(t, "clear", id), disturbed' = disturbed \cup {Mine(t)}
        PROVE  OneUserInv'
    <3>1. req'[t].session \in disturbed' /\ \A u \in Threads \ {t} : req'[u] = req[u]
      BY <1>0, <2>3 DEF GotoAs, RequestSet, Mine
    <3> QED
      BY <2>1, <3>1, OneUserQuiet
  <2> QED
    BY <1>5, <2>2, <2>3 DEF ReadWhose
<1>6. ASSUME NEW t \in Threads, Clear(t)
      PROVE  OneUserInv'
  <2>0. PICK o : o = Mine(t)
    OBVIOUS
  <2>1. o \in DOMAIN heap /\ At(t, "clear") /\ Empty \in DataSet
    BY <1>0, <1>6, <2>0 DEF Clear, Logouts, At, Mine, RequestOK, Holders, Empty, DataSet
  <2>2. o \in disturbed
    BY <2>0, <2>1 DEF OneUserInv, OneUser, At
  <2>3. DOMAIN heap' = DOMAIN heap /\ \A p \in DOMAIN heap : p # o => heap'[p] = heap[p]
    <3>1. CASE heap' = [heap EXCEPT ![o] = Empty]
      BY <2>1, <3>1, HeapEdit DEF TypeOK
    <3> QED
      BY <1>6, <2>0, <3>1 DEF Clear
  <2>4. req'[t].session = o /\ \A u \in Threads \ {t} : req'[u] = req[u]
    BY <1>0, <1>6, <2>0 DEF Clear, Logouts, Goto, RequestSet, Mine
  <2>5. disturbed' = disturbed
    BY <1>6 DEF Clear, Logouts
  <2> QED
    BY <2>2, <2>3, <2>4, <2>5, OneUserOthers
<1>7. ASSUME NEW o \in DOMAIN heap, Expire(o)
      PROVE  OneUserInv'
  BY <1>7 DEF Expire, OneUserInv, OneUser, Writers, Mine
<1>8. CASE UNCHANGED vars
  BY <1>8 DEF vars, history, OneUserInv, OneUser, Writers, Mine
<1> QED
  BY <1>1, <1>2, <1>3, <1>4, <1>5, <1>6, <1>7, <1>8, LoginSteps, ReaderSteps, SaveStep DEF Next

(* A handler that found the flag set acts with the id and the name of one  *)
(* user, although nothing keeps the login from writing meanwhile.          *)
THEOREM OneUserCorrect == Spec => []ActsAsOneUser
<1>1. Init => OneUserInv
  BY EmptySeq DEF Init, OneUserInv
<1>2. TypeOK /\ OneUserInv /\ [Next]_vars => OneUserInv'
  BY OneUserStep
<1>3. TypeOK /\ OneUserInv => ActsAsOneUser
  BY DEF TypeOK, OneUserInv, OneUser, ActsAsOneUser, At, Mine, RequestOK, Holders
<1> QED
  BY <1>1, <1>2, <1>3, TypeCorrect, PTL DEF Spec

=============================================================================
