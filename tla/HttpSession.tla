----------------------------- MODULE HttpSession -----------------------------
(***************************************************************************)
(* Who is logged in: the cookie sessions of HttpServer/src/session and the *)
(* handlers that log in, log out, or act for the user of the session.      *)
(* Requests with one cookie are served by several event loops at once.     *)
(*                                                                         *)
(* A Session object is made for a new random id and keeps it, so that the  *)
(* object, its id and the cookie are one number here.  The map sessions_   *)
(* has a mutex; the data_ and the expiry of a Session have none.           *)
(***************************************************************************)
EXTENDS Naturals, Sequences, FiniteSets

CONSTANTS Threads,      \* event loops that serve these requests
          Users,        \* the users who log in
          Nobody,       \* an absent userId or username
          MaxRequests,  \* bound: requests
          MaxExpiries   \* bound: sessions that run out of time

ASSUME HttpSessionAssumption ==
  /\ Nobody \notin Users
  /\ MaxRequests \in Nat /\ MaxExpiries \in Nat

VARIABLES
  heap,         \* heap[o]: data_ of Session o
  expired,      \* the objects whose time is over
  sessions_,    \* the objects MemorySessionStorage holds
  onlineUsers_,
  req,          \* req[t]: the request thread t serves
  issued,       \* the cookies browsers have
  requests, expiries,
  disturbed,    \* saw a logout, two logins at a time, or a login over a login
  ended,        \* a logout cleared it and no login came since
  lapsed        \* ran out of time while no request had it

history == <<disturbed, ended, lapsed>>
vars == <<heap, expired, sessions_, onlineUsers_, req, issued, requests, expiries, history>>

None == 0
Free == [at |-> "idle", kind |-> "use", user |-> Nobody, session |-> None, id |-> Nobody,
         name |-> Nobody]
Empty == [userId |-> Nobody, username |-> Nobody, isLoggedIn |-> FALSE]

Init ==
  /\ heap = <<>> /\ expired = {} /\ sessions_ = {} /\ onlineUsers_ = {}
  /\ req = [t \in Threads |-> Free] /\ issued = {} /\ requests = 0 /\ expiries = 0
  /\ disturbed = {} /\ ended = {} /\ lapsed = {}

At(t, l) == req[t].at = l
Goto(t, l) == req' = [req EXCEPT ![t].at = l]
GotoWith(t, l, session) == req' = [req EXCEPT ![t].at = l, ![t].session = session]
GotoAs(t, l, id) == req' = [req EXCEPT ![t].at = l, ![t].id = id]
Mine(t) == req[t].session

(* The response carries the cookie of the session, if it is new.           *)
Finish(t) ==
  /\ req' = [req EXCEPT ![t] = Free]
  /\ issued' = issued \cup {Mine(t)}

-----------------------------------------------------------------------------
(* A login comes here when queryUserId found the user.                     *)
Request(t, kind, user, cookie) ==
  /\ At(t, "idle")
  /\ requests < MaxRequests
  /\ requests' = requests + 1
  /\ user = Nobody <=> kind # "login"
  /\ req' = [req EXCEPT ![t] = [at |-> "load", kind |-> kind, user |-> user,
                                session |-> cookie, id |-> Nobody, name |-> Nobody]]
  /\ UNCHANGED <<heap, expired, sessions_, onlineUsers_, issued, expiries, history>>

-----------------------------------------------------------------------------
(* SessionManager::getSession                                              *)

(* A bug: the expiry is not looked at.                                     *)
IsExpired_Never(o) == FALSE
IsExpired(o) == o \in expired

(* MemorySessionStorage::load: an expired session is erased.               *)
Load(t) ==
  /\ At(t, "load")
  /\ LET o == Mine(t)
         found == o \in sessions_ /\ ~IsExpired(o)
     IN /\ sessions_' = IF found THEN sessions_ ELSE sessions_ \ {o}
        /\ GotoWith(t, "check", IF found THEN o ELSE None)
  /\ UNCHANGED <<heap, expired, onlineUsers_, issued, requests, expiries, history>>

First(kind) ==
  CASE kind = "login" -> "userId" [] kind = "logout" -> "whose" [] kind = "use" -> "loggedIn"

(* if (!session || session->isExpired()): a new one.                       *)
Check(t) ==
  /\ At(t, "check")
  /\ IF Mine(t) = None \/ IsExpired(Mine(t))
     THEN /\ heap' = Append(heap, Empty)
          /\ GotoWith(t, "refresh", Len(heap) + 1)
     ELSE Goto(t, "refresh") /\ UNCHANGED heap
  /\ UNCHANGED <<expired, sessions_, onlineUsers_, issued, requests, expiries, history>>

Refresh(t) ==
  /\ At(t, "refresh")
  /\ expired' = expired \ {Mine(t)}
  /\ Goto(t, "save")
  /\ UNCHANGED <<heap, sessions_, onlineUsers_, issued, requests, expiries, history>>

(* Threads that are writing into data_ of o.                               *)
Writing == {"userId", "username", "isLoggedIn", "clear"}
Writers(o) == {u \in Threads : req[u].session = o /\ req[u].at \in Writing}

(* storage_->save, whether or not somebody removed the session meanwhile.  *)
Save(t) ==
  /\ At(t, "save")
  /\ sessions_' = sessions_ \cup {Mine(t)}
  /\ Goto(t, First(req[t].kind))
  /\ IF req[t].kind = "login"
     THEN /\ ended' = ended \ {Mine(t)}
          /\ disturbed' = IF heap[Mine(t)].isLoggedIn \/ Writers(Mine(t)) # {}
                       THEN disturbed \cup {Mine(t)} ELSE disturbed
     ELSE UNCHANGED <<ended, disturbed>>
  /\ UNCHANGED <<heap, expired, onlineUsers_, issued, requests, expiries, lapsed>>

-----------------------------------------------------------------------------
(* ChatLoginHandler                                                        *)

(* setValue: data_[key] = value, then save.  Of two threads that write one *)
(* data_ at a time, one may lose its write.                                *)
SetValue(t, data) ==
  /\ sessions_' = sessions_ \cup {Mine(t)}
  /\ \/ heap' = [heap EXCEPT ![Mine(t)] = data]
     \/ Writers(Mine(t)) # {t} /\ UNCHANGED heap
  /\ UNCHANGED <<expired, onlineUsers_, issued, requests, expiries, history>>

Data(t) == heap[Mine(t)]

SetUserId(t) ==
  /\ At(t, "userId")
  /\ SetValue(t, [Data(t) EXCEPT !.userId = req[t].user])
  /\ Goto(t, "username")

(* A bug: the flag is set before the name.                                 *)
SetUsername_FlagFirst(t) ==
  /\ At(t, "username")
  /\ SetValue(t, [Data(t) EXCEPT !.isLoggedIn = TRUE])
  /\ Goto(t, "isLoggedIn")

SetUsername(t) ==
  /\ At(t, "username")
  /\ SetValue(t, [Data(t) EXCEPT !.username = req[t].user])
  /\ Goto(t, "isLoggedIn")

SetLoggedIn(t) ==
  /\ At(t, "isLoggedIn")
  /\ SetValue(t, [Data(t) EXCEPT !.isLoggedIn = TRUE])
  /\ Goto(t, "online")

GoOnline(t) ==
  /\ At(t, "online")
  /\ onlineUsers_' = onlineUsers_ \cup {req[t].user}
  /\ Finish(t)
  /\ UNCHANGED <<heap, expired, sessions_, requests, expiries, history>>

-----------------------------------------------------------------------------
(* ChatLogoutHandler                                                       *)

(* A value read while another thread writes may not be found.              *)
Reads(t, value) == {value} \cup (IF Writers(Mine(t)) # {} THEN {Nobody} ELSE {})

(* A bug: atoi, which does not throw.                                      *)
ReadWhose_Atoi(t) ==
  /\ At(t, "whose")
  /\ GotoAs(t, "clear", Data(t).userId)
  /\ disturbed' = disturbed \cup {Mine(t)}
  /\ UNCHANGED <<heap, expired, sessions_, onlineUsers_, issued, requests, expiries, ended, lapsed>>

(* stoi of the userId; it throws where there is none.                      *)
ReadWhose(t) ==
  /\ At(t, "whose")
  /\ \E id \in Reads(t, Data(t).userId) :
       IF id = Nobody THEN Finish(t) /\ UNCHANGED disturbed
       ELSE /\ GotoAs(t, "clear", id)
            /\ disturbed' = disturbed \cup {Mine(t)}
            /\ UNCHANGED issued
  /\ UNCHANGED <<heap, expired, sessions_, onlineUsers_, requests, expiries, ended, lapsed>>

Logins == {u \in Threads : req[u].kind = "login"}

Logouts(t) ==
  /\ At(t, "clear")
  /\ Goto(t, "destroy")
  /\ ended' = IF Writers(Mine(t)) \cap Logins = {} THEN ended \cup {Mine(t)} ELSE ended
  /\ UNCHANGED <<expired, sessions_, onlineUsers_, issued, requests, expiries, disturbed, lapsed>>

(* A bug: the session is destroyed but its data is left.                   *)
Clear_Skipped(t) == Logouts(t) /\ UNCHANGED heap

(* Against a login that writes at the same time it may achieve nothing.    *)
Clear(t) ==
  /\ Logouts(t)
  /\ \/ heap' = [heap EXCEPT ![Mine(t)] = Empty]
     \/ Writers(Mine(t)) \cap Logins # {} /\ UNCHANGED heap

Destroy(t) ==
  /\ At(t, "destroy")
  /\ sessions_' = sessions_ \ {Mine(t)}
  /\ Goto(t, "parse")
  /\ UNCHANGED <<heap, expired, onlineUsers_, issued, requests, expiries, history>>

(* Only now is the body parsed: if it is not JSON, the user stays online.  *)
ParseBody(t) ==
  /\ At(t, "parse")
  /\ (Goto(t, "offline") /\ UNCHANGED issued) \/ Finish(t)
  /\ UNCHANGED <<heap, expired, sessions_, onlineUsers_, requests, expiries, history>>

GoOffline(t) ==
  /\ At(t, "offline")
  /\ onlineUsers_' = onlineUsers_ \ {req[t].id}
  /\ Finish(t)
  /\ UNCHANGED <<heap, expired, sessions_, requests, expiries, history>>

-----------------------------------------------------------------------------
(* The chat handlers: check, then read the user, then act for him.         *)

ReadLoggedIn(t) ==
  /\ At(t, "loggedIn")
  /\ \/ Data(t).isLoggedIn /\ Goto(t, "id") /\ UNCHANGED issued
     \/ (~Data(t).isLoggedIn \/ Writers(Mine(t)) # {}) /\ Finish(t)
  /\ UNCHANGED <<heap, expired, sessions_, onlineUsers_, requests, expiries, history>>

ReadId(t) ==
  /\ At(t, "id")
  /\ \E id \in Reads(t, Data(t).userId) :
       IF id = Nobody THEN Finish(t)
       ELSE GotoAs(t, "name", id) /\ UNCHANGED issued
  /\ UNCHANGED <<heap, expired, sessions_, onlineUsers_, requests, expiries, history>>

ReadName(t) ==
  /\ At(t, "name")
  /\ \E name \in Reads(t, Data(t).username) :
       req' = [req EXCEPT ![t].at = "acting", ![t].name = name]
  /\ UNCHANGED <<heap, expired, sessions_, onlineUsers_, issued, requests, expiries, history>>

Act(t) ==
  /\ At(t, "acting")
  /\ Finish(t)
  /\ UNCHANGED <<heap, expired, sessions_, onlineUsers_, requests, expiries, history>>

-----------------------------------------------------------------------------
(* An hour passes without a request of the session.                        *)
Expire(o) ==
  /\ expiries < MaxExpiries
  /\ o \notin expired
  /\ expiries' = expiries + 1
  /\ expired' = expired \cup {o}
  /\ lapsed' = IF \E t \in Threads : Mine(t) = o /\ ~At(t, "load") THEN lapsed
               ELSE lapsed \cup {o}
  /\ UNCHANGED <<heap, sessions_, onlineUsers_, req, issued, requests, disturbed, ended>>

Next ==
  \/ \E t \in Threads :
       \/ \E kind \in {"login", "logout", "use"}, user \in Users \cup {Nobody},
             cookie \in issued \cup {None} : Request(t, kind, user, cookie)
       \/ Load(t) \/ Check(t) \/ Refresh(t) \/ Save(t)
       \/ SetUserId(t) \/ SetUsername(t) \/ SetLoggedIn(t) \/ GoOnline(t)
       \/ ReadWhose(t) \/ Clear(t) \/ Destroy(t) \/ ParseBody(t) \/ GoOffline(t)
       \/ ReadLoggedIn(t) \/ ReadId(t) \/ ReadName(t) \/ Act(t)
  \/ \E o \in DOMAIN heap : Expire(o)

Spec == Init /\ [][Next]_vars

-----------------------------------------------------------------------------
Holders == {"refresh", "save", "loggedIn", "whose", "id", "name", "acting", "userId",
            "username", "isLoggedIn", "online", "clear", "destroy", "parse", "offline"}
LoggingIn == {"userId", "username", "isLoggedIn", "online"}
LoggingOut == {"clear", "destroy", "parse", "offline"}

DataSet == [userId : Users \cup {Nobody}, username : Users \cup {Nobody}, isLoggedIn : BOOLEAN]
RequestSet == [at : {"idle", "load", "check"} \cup Holders, kind : {"login", "logout", "use"},
               user : Users \cup {Nobody}, session : Nat, id : Users \cup {Nobody},
               name : Users \cup {Nobody}]

(* What a handler relies on at each of its steps: a session that exists, a *)
(* user to log in, an id it has read.                                      *)
RequestOK(r) ==
  /\ r.kind = "login" <=> r.user # Nobody
  /\ r.at \in {"load", "check"} => r.session \in DOMAIN heap \cup {None}
  /\ r.at \in Holders => r.session \in DOMAIN heap
  /\ r.at \in LoggingIn => r.kind = "login"
  /\ r.at \in LoggingOut \cup {"name", "acting"} => r.id \in Users

(* Types, and what the handlers rely on.                                   *)
TypeOK ==
  /\ heap \in Seq(DataSet)
  /\ req \in [Threads -> RequestSet]
  /\ expired \subseteq DOMAIN heap /\ sessions_ \subseteq DOMAIN heap
  /\ issued \subseteq DOMAIN heap /\ onlineUsers_ \subseteq Users
  /\ disturbed \subseteq DOMAIN heap /\ ended \subseteq DOMAIN heap /\ lapsed \subseteq DOMAIN heap
  /\ requests \in 0..MaxRequests /\ expiries \in 0..MaxExpiries
  /\ \A t \in Threads : RequestOK(req[t])

(* A logout is final: a request that loaded the session before, and saves  *)
(* it after it was destroyed, brings back a session nobody is logged in on.*)
LogoutIsFinal == \A o \in ended \cap sessions_ : ~heap[o].isLoggedIn

(* A request that found the flag set acts with the id and the name of one  *)
(* user, also while the login is still writing, unless the session saw a   *)
(* logout, two logins at a time, or the login of a second user.            *)
ActsAsOneUser ==
  \A t \in Threads : At(t, "acting") =>
    req[t].name = req[t].id \/ Mine(t) \in disturbed

(* Time is final: a session that expired while no request had it is never  *)
(* used again.                                                             *)
ExpiredIsGone == \A t \in Threads : req[t].at \in Holders => Mine(t) \notin lapsed

=============================================================================
