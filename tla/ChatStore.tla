------------------------------ MODULE ChatStore ------------------------------
(***************************************************************************)
(* The conversations of one user: the in-memory maps of ChatServer, their  *)
(* lazy loading from MySQL, the handlers that read and change them, and    *)
(* the statements they publish, which AsyncStatements executes later.      *)
(* Users do not share any of this state, so one user is enough.            *)
(*                                                                         *)
(* Each critical section of mutexForLoadedUsers_, mutexForChatInformation  *)
(* and mutexForSessionsId is one action; between two of them any other     *)
(* request may run.  AIHelper::addMessage takes no lock: it reads the      *)
(* clock, pushes the message and publishes its INSERT in three steps.      *)
(* Messages are numbered in the order of their time stamps, which need not *)
(* be the order of the push_backs nor that of the publications.            *)
(***************************************************************************)
EXTENDS Naturals, Sequences, Functions

CONSTANTS Threads,      \* the threads that serve requests of the user
          Sessions,     \* ids of chat sessions
          NoSession,    \* the empty sessionId: a new session is wanted
          Stored,       \* the sessions of the rows MySQL holds at the start,
                        \* in the order of their time stamps
          SameTime,     \* messages with the time stamp of the one before
          MaxRequests,  \* bound: requests
          MaxFaults,    \* bound: exceptions, restarts, executions that are repeated
          MaxApply      \* bound: executions of one statement

ASSUME ChatStoreAssumption ==
  /\ NoSession \notin Sessions
  /\ Stored \in Seq(Sessions) /\ SameTime \subseteq Nat
  /\ MaxRequests \in Nat /\ MaxFaults \in Nat /\ MaxApply \in Nat \ {0}

VARIABLES
  log, outstanding, applied, rows, lost,  \* the statements, see AsyncStatements
  message,          \* message[i]: the message log[i] inserts, 0 if it is a DELETE
  stamped,          \* how many messages have a time stamp
  chatInformation,  \* chatInformation[s]: the AIHelper of s, 0 if there is none
  heap,             \* heap[h]: the messages of AIHelper object h
  sessionsIds,      \* sessionsIds[s]: how often sessionsIdsMap of the user lists s
  loaded,           \* the user is in loadedUsers_
  req,              \* req[t]: the request thread t serves
  known,            \* the sessions some page of the user has seen
  deleted,          \* the sessions a delete request was made for
  queries,          \* SELECTs of ensureUserDataLoaded in this process
  failed,           \* one of them threw
  unseen,           \* messages in the queue when a SELECT read the table, or in a row that failed
  rowless,          \* sessions without a row when a SELECT read the table, or with one that failed
  torn,             \* messages lost by push_backs that ran into each other
  overlapped,       \* <<m, n>>: m had its time stamp and was not pushed when n, of
                    \* the same AIHelper, was given its own
  requests, faults

writes == <<log, outstanding, applied, rows, lost, message, stamped>>
memory == <<chatInformation, heap, sessionsIds, loaded>>
races == <<torn, overlapped>>
unraced == <<known, deleted, queries, failed, unseen, rowless, requests, faults>>
history == <<unraced, races>>
vars == <<writes, memory, req, history>>

Writes == INSTANCE AsyncStatements

Free == [at |-> "idle", kind |-> "list", session |-> NoSession, helper |-> 0, todo |-> <<>>,
         message |-> 0, asked |-> FALSE]

Inserts(s) == {i \in DOMAIN log : log[i].kind = "insert" /\ log[i].session = s}

(* The statements whose messages the map leads to.                         *)
InMemory == {i \in DOMAIN log :
  LET h == chatInformation[log[i].session] IN h # 0 /\ message[i] \in Range(heap[h])}

Init ==
  /\ log = [i \in DOMAIN Stored |-> [kind |-> "insert", session |-> Stored[i]]]
  /\ applied \in [DOMAIN Stored -> 1..MaxApply] /\ rows = applied
  /\ outstanding = {} /\ lost = {}
  /\ message = [i \in DOMAIN Stored |-> i] /\ stamped = Len(Stored)
  /\ chatInformation = [s \in Sessions |-> 0]
  /\ heap = <<>> /\ sessionsIds = [s \in Sessions |-> 0] /\ loaded = FALSE
  /\ req = [t \in Threads |-> Free]
  /\ known = Range(Stored) /\ deleted = {} /\ unseen = {} /\ rowless = {}
  /\ torn = {} /\ overlapped = {}
  /\ queries = 0 /\ failed = FALSE /\ requests = 0
  /\ faults = IF \E i \in DOMAIN Stored : applied[i] > 1 THEN 1 ELSE 0

-----------------------------------------------------------------------------
At(t, l) == req[t].at = l
Goto(t, l) == req' = [req EXCEPT ![t].at = l]
Finish(t) == req' = [req EXCEPT ![t] = Free]
Inserting(m) == message' = Append(message, m) /\ UNCHANGED stamped
Fault == faults < MaxFaults /\ faults' = faults + 1

(* A page sends a request about a session it knows, or a first message.    *)
Request(t, kind, s) ==
  /\ At(t, "idle")
  /\ requests < MaxRequests
  /\ requests' = requests + 1
  /\ req' = [req EXCEPT ![t] = [Free EXCEPT !.at = "check", !.kind = kind, !.session = s]]
  /\ UNCHANGED <<writes, memory, known, deleted, queries, failed, unseen, rowless, races, faults>>

Requests(t) ==
  \/ Request(t, "list", NoSession)
  \/ Request(t, "chat", NoSession)
  \/ \E kind \in {"history", "chat", "delete"}, s \in known : Request(t, kind, s)

-----------------------------------------------------------------------------
(* ChatServer::ensureUserDataLoaded                                        *)

(* if (loadedUsers_.count(userId)) return.                                 *)
CheckLoaded(t) ==
  /\ At(t, "check")
  /\ Goto(t, IF loaded THEN "body" ELSE "query")
  /\ UNCHANGED <<writes, memory, history>>

(* The rows of the user, one per execution of its INSERT; in which order   *)
(* res->next() comes to them, NextRows says.                               *)
Query(t) ==
  /\ At(t, "query")
  /\ queries' = queries + 1
  /\ unseen' = unseen \cup {i \in DOMAIN log : /\ log[i].kind = "insert"
                                               /\ rows[i] = 0
                                               /\ i \notin InMemory}
  /\ rowless' = rowless \cup {s \in known : \A i \in Inserts(s) : rows[i] = 0}
  /\ req' = [req EXCEPT ![t].at = "restore", ![t].todo = rows]
  /\ UNCHANGED <<writes, memory, known, deleted, failed, races, requests, faults>>

(* The SELECT throws: the handler goes on, the user stays unloaded.        *)
QueryThrows(t) ==
  /\ At(t, "query")
  /\ Fault
  /\ queries' = queries + 1
  /\ failed' = TRUE
  /\ Goto(t, "body")
  /\ UNCHANGED <<writes, memory, known, deleted, unseen, rowless, races, requests>>

(* ORDER BY ts, id: the rows res->next() may come to are those with the    *)
(* least ts, for the id is the user's and the same in all of them.         *)
SameTs(m, n) == \A k \in (m + 1)..n \cup (n + 1)..m : k \in SameTime
Unread(t) == {i \in DOMAIN req[t].todo : req[t].todo[i] > 0}
NextRows(t) == {i \in Unread(t) : \A j \in Unread(t) :
                  message[i] <= message[j] \/ SameTs(message[j], message[i])}

RowRead(t, i) == req' = [req EXCEPT ![t].todo[i] = @ - 1]

(* The push_backs of the handlers take no lock, those of a load only the   *)
(* map's: one that runs into a handler's may be lost.  (It may also crash  *)
(* the process; that is a Restart.)                                        *)
Adding(u, h) == At(u, "push") /\ req[u].helper = h
Restoring(u, h) ==
  /\ At(u, "restore")
  /\ h # 0 /\ \E i \in NextRows(u) : chatInformation[log[i].session] = h
LosesRace(m) == UNCHANGED heap /\ torn' = torn \cup {m}

(* A bug: the session id is listed for every row.                          *)
ListIfNew_EveryRow(s) == sessionsIds' = [sessionsIds EXCEPT ![s] = @ + 1]

(* The id of a session is listed when the row creates its AIHelper.        *)
ListIfNew(s) ==
  sessionsIds' = [sessionsIds EXCEPT ![s] = IF chatInformation[s] = 0 THEN @ + 1 ELSE @]

(* A bug: the row is put in front.                                         *)
Restored_Reversed(messages, m) == <<m>> \o messages
Restored(messages, m) == Append(messages, m)

(* A bug: a row is restored with addMessage, which publishes it again.     *)
RestoreWrites_Again(i) == Writes!Submit(log[i]) /\ Inserting(message[i])
RestoreWrites(i) == UNCHANGED writes

(* One row: find or make the AIHelper, restoreMessage.                     *)
RestoreRow(t) ==
  /\ At(t, "restore")
  /\ \E i \in NextRows(t) :
       LET s == log[i].session
           h == IF chatInformation[s] = 0 THEN Len(heap) + 1 ELSE chatInformation[s]
       IN /\ ListIfNew(s)
          /\ chatInformation' = [chatInformation EXCEPT ![s] = h]
          /\ \/ /\ heap' = IF h > Len(heap) THEN Append(heap, Restored(<<>>, message[i]))
                                            ELSE [heap EXCEPT ![h] = Restored(@, message[i])]
                /\ UNCHANGED torn
             \/ (\E u \in Threads : Adding(u, h)) /\ LosesRace(message[i])
          /\ RestoreWrites(i)
          /\ RowRead(t, i)
  /\ known' = known \cup {s \in Sessions : sessionsIds'[s] > 0}
  /\ UNCHANGED <<loaded, deleted, queries, failed, unseen, rowless, overlapped,
                 requests, faults>>

(* A column cannot be read: the row is skipped.                            *)
SkipRow(t) ==
  /\ At(t, "restore")
  /\ Fault
  /\ \E i \in NextRows(t) :
       /\ unseen' = unseen \cup {i}
       /\ rowless' = rowless \cup {log[i].session}
       /\ RowRead(t, i)
  /\ UNCHANGED <<writes, memory, known, deleted, queries, failed, races, requests>>

(* res->next() throws, outside of any try block: the request ends.         *)
NextThrows(t) ==
  /\ At(t, "restore")
  /\ Fault
  /\ Finish(t)
  /\ UNCHANGED <<writes, memory, known, deleted, queries, failed, unseen, rowless, races, requests>>

(* A bug: the user counts as loaded before the rows are restored.          *)
RestoreDone_Early(t) == At(t, "restore")

RestoreDone(t) == At(t, "restore") /\ Unread(t) = {}

MarkLoaded(t) ==
  /\ RestoreDone(t)
  /\ loaded' = TRUE
  /\ req' = [req EXCEPT ![t].at = "body", ![t].todo = <<>>]
  /\ UNCHANGED <<writes, chatInformation, heap, sessionsIds, history>>

-----------------------------------------------------------------------------
(* The handlers, behind ensureUserDataLoaded                               *)

(* ChatSessionsHandler copies the list; what it then reads it only sends.  *)
List(t) ==
  /\ At(t, "body") /\ req[t].kind = "list"
  /\ Finish(t)
  /\ UNCHANGED <<writes, memory, history>>

(* userSessions.emplace(sessionId, make_shared<AIHelper>()) if it is not   *)
(* there; does not list the session.                                       *)
FindOrMake(s) ==
  IF chatInformation[s] # 0
  THEN UNCHANGED <<chatInformation, heap>>
  ELSE /\ heap' = Append(heap, <<>>)
       /\ chatInformation' = [chatInformation EXCEPT ![s] = Len(heap) + 1]

History(t) ==
  /\ At(t, "body") /\ req[t].kind = "history"
  /\ FindOrMake(req[t].session)
  /\ Finish(t)
  /\ UNCHANGED <<writes, sessionsIds, loaded, history>>

(* ChatSendHandler and ChatStreamHandler: an empty sessionId is replaced   *)
(* by a generated one, listed before its AIHelper exists.                  *)
ListNewSession(t, s) ==
  /\ At(t, "body") /\ req[t].kind = "chat" /\ req[t].session = NoSession
  /\ s \notin known
  /\ sessionsIds' = [sessionsIds EXCEPT ![s] = @ + 1]
  /\ known' = known \cup {s}
  /\ req' = [req EXCEPT ![t].session = s]
  /\ UNCHANGED <<writes, chatInformation, heap, loaded, deleted, queries, failed, unseen, rowless,
                 races, requests, faults>>

(* A bug: the pointer of the request is not set.                           *)
GetHelper_NoPointer(t) ==
  /\ At(t, "body") /\ req[t].kind = "chat" /\ req[t].session # NoSession
  /\ FindOrMake(req[t].session)
  /\ Goto(t, "add")
  /\ UNCHANGED <<writes, sessionsIds, loaded, history>>

GetHelper(t) ==
  /\ At(t, "body") /\ req[t].kind = "chat" /\ req[t].session # NoSession
  /\ FindOrMake(req[t].session)
  /\ req' = [req EXCEPT ![t].at = "add", ![t].helper = chatInformation'[req[t].session]]
  /\ UNCHANGED <<writes, sessionsIds, loaded, history>>

-----------------------------------------------------------------------------
(* AIHelper::addMessage through the pointer the thread kept, first of the  *)
(* question, then of the reply; no lock is held                            *)

ReadClock(t) ==
  /\ At(t, "add")
  /\ stamped' = stamped + 1
  /\ overlapped' = overlapped \cup
       {<<req[u].message, stamped + 1>> : u \in {u \in Threads : Adding(u, req[t].helper)}}
  /\ req' = [req EXCEPT ![t].at = "push", ![t].message = stamped + 1]
  /\ UNCHANGED <<log, outstanding, applied, rows, lost, message, memory, unraced, torn>>

PushBack(t) ==
  /\ At(t, "push")
  /\ LET h == req[t].helper
     IN \/ /\ heap' = [heap EXCEPT ![h] = Append(@, req[t].message)]
           /\ UNCHANGED torn
        \/ /\ \E u \in Threads \ {t} : Adding(u, h) \/ Restoring(u, h)
           /\ LosesRace(req[t].message)
  /\ Goto(t, "insert")
  /\ UNCHANGED <<writes, chatInformation, sessionsIds, loaded, unraced, overlapped>>

(* Behind the question the model answers, or the stream ends with whatever *)
(* came; behind the reply the request is done.                             *)
Added(t) ==
  IF req[t].asked THEN Finish(t)
  ELSE req' = [req EXCEPT ![t].at = "add", ![t].message = 0, ![t].asked = TRUE]

Insertion(t) == [kind |-> "insert", session |-> req[t].session]

PublishInsert(t) ==
  /\ At(t, "insert")
  /\ Writes!Submit(Insertion(t))
  /\ Inserting(req[t].message)
  /\ Added(t)
  /\ UNCHANGED <<memory, history>>

(* publish throws behind the push_back: the message is only in memory.     *)
(* (In the thread of a stream it ends the process, a Restart.)             *)
PublishInsertThrows(t) ==
  /\ At(t, "insert")
  /\ Fault
  /\ Writes!SubmitToNobody(Insertion(t))
  /\ Inserting(req[t].message)
  /\ Finish(t)
  /\ UNCHANGED <<memory, known, deleted, queries, failed, unseen, rowless, races, requests>>

(* StrategyFactory::create or a curl call throws: the request ends there.  *)
ChatThrows(t) ==
  /\ At(t, "add")
  /\ Fault
  /\ Finish(t)
  /\ UNCHANGED <<writes, memory, known, deleted, queries, failed, unseen, rowless, races, requests>>

-----------------------------------------------------------------------------
(* ChatDeleteSessionHandler: the AIHelper, the id, then the rows.          *)
EraseHelper(t) ==
  /\ At(t, "body") /\ req[t].kind = "delete"
  /\ chatInformation' = [chatInformation EXCEPT ![req[t].session] = 0]
  /\ deleted' = deleted \cup {req[t].session}
  /\ Goto(t, "unlist")
  /\ UNCHANGED <<writes, heap, sessionsIds, loaded, known, queries, failed, unseen, rowless,
                 races, requests, faults>>

Unlist(t) ==
  /\ At(t, "unlist")
  /\ sessionsIds' = [sessionsIds EXCEPT ![req[t].session] = 0]
  /\ Goto(t, "publish")
  /\ UNCHANGED <<writes, chatInformation, heap, loaded, history>>

PublishDelete(t) ==
  /\ At(t, "publish")
  /\ Writes!Submit([kind |-> "delete", session |-> req[t].session])
  /\ Inserting(0)
  /\ Finish(t)
  /\ UNCHANGED <<memory, history>>

(* publish throws: the session is gone, its rows are not.                  *)
PublishDeleteThrows(t) ==
  /\ At(t, "publish")
  /\ Fault
  /\ Finish(t)
  /\ UNCHANGED <<writes, memory, known, deleted, queries, failed, unseen, rowless, races, requests>>

-----------------------------------------------------------------------------
(* Behind the handlers                                                     *)

(* A worker of the queue executes a statement; once more only after a      *)
(* fault, when it was returned to the queue before it was acknowledged.    *)
Execute(i) ==
  /\ applied[i] < MaxApply
  /\ IF applied[i] = 0 THEN UNCHANGED faults ELSE Fault
  /\ Writes!Apply(i)
  /\ UNCHANGED <<message, stamped, memory, req, known, deleted, queries, failed, unseen, rowless,
                 races, requests>>

(* The server process is restarted: only MySQL and the queue remain.       *)
Restart ==
  /\ Fault
  /\ chatInformation' = [s \in Sessions |-> 0]
  /\ heap' = <<>> /\ sessionsIds' = [s \in Sessions |-> 0] /\ loaded' = FALSE
  /\ req' = [t \in Threads |-> Free]
  /\ queries' = 0 /\ failed' = FALSE /\ unseen' = {} /\ rowless' = {}
  /\ torn' = {} /\ overlapped' = {}
  /\ UNCHANGED <<writes, known, deleted, requests>>

Next ==
  \/ \E t \in Threads :
       \/ Requests(t) \/ CheckLoaded(t) \/ Query(t) \/ QueryThrows(t)
       \/ RestoreRow(t) \/ SkipRow(t) \/ NextThrows(t) \/ MarkLoaded(t) \/ List(t) \/ History(t)
       \/ (\E s \in Sessions : ListNewSession(t, s))
       \/ GetHelper(t) \/ ReadClock(t) \/ PushBack(t) \/ PublishInsert(t)
       \/ PublishInsertThrows(t) \/ ChatThrows(t)
       \/ EraseHelper(t) \/ Unlist(t) \/ PublishDelete(t) \/ PublishDeleteThrows(t)
  \/ \E i \in outstanding : Execute(i)
  \/ Restart

Spec == Init /\ [][Next]_vars

-----------------------------------------------------------------------------

Places == {"idle", "check", "query", "restore", "body", "add", "push", "insert", "unlist", "publish"}
RequestSet == [at : Places, kind : {"list", "history", "chat", "delete"},
               session : Sessions \cup {NoSession}, helper : Nat, todo : Seq(Nat),
               message : Nat, asked : BOOLEAN]

Adds(t) == req[t].at \in {"add", "push", "insert"}
Holds(t, m) == req[t].at \in {"push", "insert"} /\ req[t].message = m

TypeOK ==
  /\ log \in Seq(Writes!Statements)
  /\ outstanding \subseteq DOMAIN log
  /\ applied \in Seq(Nat) /\ Len(applied) = Len(log)
  /\ rows \in Seq(Nat) /\ Len(rows) = Len(log)
  /\ stamped \in Nat
  /\ message \in Seq(0..stamped) /\ Len(message) = Len(log)
  /\ heap \in Seq(Seq(1..stamped))
  /\ chatInformation \in [Sessions -> 0..Len(heap)]
  /\ sessionsIds \in [Sessions -> Nat]
  /\ loaded \in BOOLEAN /\ failed \in BOOLEAN /\ queries \in Nat
  /\ req \in [Threads -> RequestSet]
  /\ \A t \in Threads :
       /\ Adds(t) => req[t].helper \in DOMAIN heap
       /\ Len(req[t].todo) <= Len(log)
  /\ known \subseteq Sessions /\ deleted \subseteq known

(* The cache is complete: once a user is loaded, every message of a        *)
(* session nobody deleted is in memory, except those that were still in    *)
(* the queue when the table was read, those whose row could not be read    *)
(* and those a data race tore out.                                         *)
CacheComplete ==
  loaded =>
    LET covered == InMemory \cup unseen
    IN \A s \in Sessions \ deleted : \A i \in Inserts(s) : i \in covered \/ message[i] \in torn

(* Nothing is in memory only, and nothing is published twice: a message of *)
(* an AIHelper has an INSERT, or its thread is between the push_back and   *)
(* the publication; it never has two, however often loads restore it.      *)
MemoryIsPublished ==
  \A h \in DOMAIN heap : \A m \in Range(heap[h]) :
    LET published == {i \in DOMAIN log : message[i] = m}
    IN \/ \E i \in published : published = {i}
       \/ published = {} /\ \E t \in Threads : At(t, "insert") /\ Holds(t, m)

(* Unless the user's rows were queried more than once, every AIHelper has  *)
(* its messages in the order of their time stamps, the one a restart would *)
(* restore.  It may differ for two messages of the same millisecond, which *)
(* have no order in the table, and for two that were added at the same     *)
(* time, where the one with the earlier time stamp may come later.  A      *)
(* message is repeated only when the queue executed its INSERT more than   *)
(* once.                                                                   *)
Repeated(m) == \E i \in DOMAIN log : message[i] = m /\ applied[i] > 1
MayFollow(m, n) ==
  \/ m < n
  \/ m # n /\ SameTs(m, n)
  \/ m = n /\ Repeated(m)
  \/ <<n, m>> \in overlapped
SingleLoadIsFaithful ==
  queries <= 1 =>
    \A h \in DOMAIN heap : \A i, j \in DOMAIN heap[h] :
      i < j => MayFollow(heap[h][i], heap[h][j])

(* A session with an AIHelper is in the user's list exactly once, whatever *)
(* loads and handlers run at a time: the id is pushed by the thread that   *)
(* creates the AIHelper and under the same lock.  Not listed are those     *)
(* somebody deletes, and those a handler makes an AIHelper of without      *)
(* listing them, because the load of the user failed or found no row of    *)
(* the session yet.                                                        *)
ListedOnce ==
  /\ \A s \in Sessions :
       chatInformation[s] # 0
         => sessionsIds[s] > 0 \/ s \in deleted \cup rowless \/ failed
  /\ \A s \in Sessions : sessionsIds[s] > 1 => s \in deleted

(* loadedUsers_ makes check and insert atomic, so that the rows of a user  *)
(* are not queried again: never are two threads loading the user.          *)
OneLoader ==
  \A t, u \in Threads :
    req[t].at \in {"query", "restore"} /\ req[u].at \in {"query", "restore"} => t = u

=============================================================================
