----------------------------- MODULE SessionNames -----------------------------
(***************************************************************************)
(* What the sessions of one user are called.  A name the user gives is     *)
(* written to the table session_meta at once, while the request waits      *)
(* (ChatRenameSessionHandler); a session without one is called after the   *)
(* first question in chat_message, whose rows go through the queue and     *)
(* come at any time and in any order.  ChatSessionsHandler reads both      *)
(* tables, one statement after the other, with no transaction around them. *)
(*                                                                         *)
(* Only questions are in the log: the handler reads rows with is_user = 1. *)
(* Each action is one statement or one critical section.                   *)
(***************************************************************************)
EXTENDS Naturals, Sequences, FiniteSets

CONSTANTS Threads,      \* the threads that serve requests of the user
          Sessions,     \* ids of chat sessions
          Names,        \* names a session can have in session_meta
          NoName,       \* no name: there is no row in session_meta
          Inputs,       \* names as pages send them
          Saved,        \* Saved[raw]: the first 60 characters without blanks at either end
          Stored,       \* the sessions of the questions MySQL holds at the start
          MaxRequests,  \* bound: requests
          MaxFaults,    \* bound: statements that throw, restarts of the process
          MaxApply      \* bound: executions of one statement of the queue

ASSUME SessionNamesAssumption ==
  /\ Sessions # {}
  /\ NoName \notin Names
  /\ Saved \in [Inputs -> Names \cup {NoName}]
  /\ Stored \in Seq(Sessions)
  /\ MaxRequests \in Nat /\ MaxFaults \in Nat /\ MaxApply \in Nat

VARIABLES
  log, outstanding, applied, rows, lost,  \* the statements of the queue, see AsyncStatements
  sessionsIds,  \* the sessions in sessionsIdsMap of the user
  loaded,       \* the user is in loadedUsers_
  table,        \* session_meta exists
  names,        \* names[s]: the custom_name of s in session_meta
  flag,         \* the once_flag of ensureSessionMetaTable is set
  req,          \* req[t]: the request thread t serves
  known,        \* the sessions pages of the user have seen
  told,         \* told[s]: the name the user was last told s has
  settled,      \* the sessions whose last rename was told, and met no other rename
  uncreated,    \* this process failed to create session_meta
  requests, faults

writes == <<log, outstanding, applied, rows, lost>>
memory == <<sessionsIds, loaded, flag>>
meta == <<table, names>>
ghosts == <<told, settled>>
counts == <<requests, faults>>
vars == <<writes, memory, meta, req, known, ghosts, uncreated, counts>>

Writes == INSTANCE AsyncStatements

(* session, name: what the request is about.  alone: no other rename of    *)
(* the session ran beside it.  broken: a statement of its own threw.       *)
(* shown: the sessions a list copied; customNameCache, autoNameCache: what *)
(* it read, where an automatic name is the position of the question in     *)
(* log, 0 for the default name; todo: the sessions not asked for yet.      *)
(* firm, titled: see SettledNameIsShown, TitleIsFirstQuestion.             *)
Free == [at |-> "idle", kind |-> "list", session |-> CHOOSE s \in Sessions : TRUE,
         name |-> NoName, alone |-> FALSE, broken |-> FALSE, shown |-> {},
         customNameCache |-> [s \in Sessions |-> NoName],
         autoNameCache |-> [s \in Sessions |-> 0],
         todo |-> {}, firm |-> {}, titled |-> {}]

Init ==
  /\ log = [i \in DOMAIN Stored |-> [kind |-> "insert", session |-> Stored[i]]]
  /\ applied = [i \in DOMAIN Stored |-> 1]
  /\ rows = [i \in DOMAIN Stored |-> 1]
  /\ outstanding = {} /\ lost = {}
  /\ sessionsIds = {} /\ loaded = FALSE /\ flag = FALSE
  /\ table \in BOOLEAN
  /\ names = [s \in Sessions |-> NoName]
  /\ req = [t \in Threads |-> Free]
  /\ known = {Stored[i] : i \in DOMAIN Stored}
  /\ told = names /\ settled = Sessions
  /\ uncreated = FALSE /\ requests = 0 /\ faults = 0

At(t, l) == req[t].at = l
Goto(t, l) == req' = [req EXCEPT ![t].at = l]
Finish(t) == req' = [req EXCEPT ![t] = Free]
Fault == faults < MaxFaults /\ faults' = faults + 1

Questions(s) == {i \in DOMAIN log : log[i].kind = "insert" /\ log[i].session = s}
Deleted(s) == \E i \in DOMAIN log : log[i].kind = "delete" /\ log[i].session = s
Earliest(S) == CHOOSE i \in S : \A j \in S : i <= j

-----------------------------------------------------------------------------
(* Pages                                                                   *)

Request(t, r) ==
  /\ At(t, "idle")
  /\ requests < MaxRequests
  /\ requests' = requests + 1
  /\ req' = [req EXCEPT ![t] = r]
  /\ UNCHANGED <<writes, memory, meta, known, ghosts, uncreated, faults>>

Requests(t) ==
  \/ Request(t, [Free EXCEPT !.at = "load", !.kind = "list"])
  \/ \E kind \in {"ask", "delete"}, s \in known :
       Request(t, [Free EXCEPT !.at = "load", !.kind = kind, !.session = s])
  \/ Request(t, [Free EXCEPT !.at = "load", !.kind = "new"])
  \/ \E s \in known, raw \in Inputs :
       Request(t, [Free EXCEPT !.at = "load", !.kind = "rename", !.session = s,
                               !.name = Saved[raw]])

(* ensureUserDataLoaded, which every handler calls, as far as the list of  *)
(* sessions goes: those that have a row.                                   *)
EnsureUserDataLoaded(t) ==
  /\ At(t, "load")
  /\ sessionsIds' = IF loaded THEN sessionsIds
                    ELSE sessionsIds \cup {log[i].session : i \in {j \in DOMAIN log : rows[j] > 0}}
  /\ loaded' = TRUE
  /\ known' = known \cup sessionsIds'
  /\ Goto(t, req[t].kind)
  /\ UNCHANGED <<writes, flag, meta, ghosts, uncreated, counts>>

-----------------------------------------------------------------------------
(* ChatSendHandler, ChatStreamHandler: what they do to the list and to the *)
(* first questions.                                                        *)

(* An id is generated for a page that has none.                            *)
ListNewSession(t, s) ==
  /\ At(t, "new")
  /\ s \notin known
  /\ sessionsIds' = sessionsIds \cup {s}
  /\ known' = known \cup {s}
  /\ req' = [req EXCEPT ![t].at = "ask", ![t].session = s]
  /\ UNCHANGED <<writes, loaded, flag, meta, ghosts, uncreated, counts>>

PublishQuestion(t) ==
  /\ At(t, "ask")
  /\ Writes!Submit([kind |-> "insert", session |-> req[t].session])
  /\ Finish(t)
  /\ UNCHANGED <<memory, meta, known, ghosts, uncreated, counts>>

(* ChatDeleteSessionHandler.  session_meta keeps its row.                  *)
Unlist(t) ==
  /\ At(t, "delete")
  /\ sessionsIds' = sessionsIds \ {req[t].session}
  /\ Goto(t, "publish")
  /\ UNCHANGED <<writes, loaded, flag, meta, known, ghosts, uncreated, counts>>

(* A list that is being made cannot promise the title any more.            *)
PublishDelete(t) ==
  /\ At(t, "publish")
  /\ Writes!Submit([kind |-> "delete", session |-> req[t].session])
  /\ req' = [u \in Threads |-> IF u = t THEN Free
                               ELSE [req[u] EXCEPT !.titled = @ \ {req[t].session}]]
  /\ UNCHANGED <<memory, meta, known, ghosts, uncreated, counts>>

-----------------------------------------------------------------------------
(* ChatRenameSessionHandler                                                *)

Renaming(t) == req[t].kind = "rename" /\ req[t].at \in {"create", "write", "renamed"}

(* No body, or no session in it: 400.                                      *)
RejectRename(t) ==
  /\ At(t, "rename")
  /\ Finish(t)
  /\ UNCHANGED <<writes, memory, meta, known, ghosts, uncreated, counts>>

(* The handler has its two arguments.  (Ghosts: it is alone if no other    *)
(* rename of the session runs, and those that do are not alone any more.)  *)
StartRename(t) ==
  LET s == req[t].session
      others == {u \in Threads \ {t} : Renaming(u) /\ req[u].session = s}
  IN /\ At(t, "rename")
     /\ settled' = settled \ {s}
     /\ req' = [u \in Threads |->
          CASE u = t -> [req[t] EXCEPT !.at = "create", !.alone = (others = {})]
            [] u \in others -> [req[u] EXCEPT !.alone = FALSE]
            [] OTHER -> [req[u] EXCEPT !.firm = @ \ {s}]]
     /\ UNCHANGED <<writes, memory, meta, known, told, uncreated, counts>>

(* A bug: the table is not created for a name that is taken back.          *)
EnsureTable_NamedOnly(t) ==
  /\ At(t, "create")
  /\ flag' = TRUE
  /\ table' = (table \/ req[t].name # NoName)
  /\ Goto(t, "write")
  /\ UNCHANGED <<writes, sessionsIds, loaded, names, known, ghosts, uncreated, counts>>

(* ensureSessionMetaTable: call_once, with a CREATE TABLE IF NOT EXISTS    *)
(* whose exception is swallowed.  Other threads wait for the once_flag.    *)
EnsureTable(t) ==
  /\ At(t, "create")
  /\ flag' = TRUE
  /\ \/ flag /\ UNCHANGED <<table, uncreated, faults>>
     \/ ~flag /\ table' = TRUE /\ UNCHANGED <<uncreated, faults>>
     \/ ~flag /\ Fault /\ uncreated' = TRUE /\ UNCHANGED table
  /\ Goto(t, "write")
  /\ UNCHANGED <<writes, sessionsIds, loaded, names, known, ghosts, requests>>

(* DELETE of the row for an empty name, else INSERT ... ON DUPLICATE KEY.  *)
SetName(t) == table /\ names' = [names EXCEPT ![req[t].session] = req[t].name]

(* A bug: the statement is published like those on chat_message, and the   *)
(* page is answered before it is executed.                                 *)
Write_Queued(t) ==
  /\ At(t, "write") /\ table
  /\ Goto(t, "renamed")
  /\ UNCHANGED <<writes, memory, meta, known, ghosts, uncreated, counts>>

Write(t) ==
  /\ At(t, "write")
  /\ SetName(t)
  /\ Goto(t, "renamed")
  /\ UNCHANGED <<writes, memory, table, known, ghosts, uncreated, counts>>

(* The statement throws: there is no table, or the connection fails before *)
(* or behind its execution.                                                *)
WriteThrows(t) ==
  /\ At(t, "write")
  /\ \/ ~table /\ req' = [req EXCEPT ![t].at = "refused"] /\ UNCHANGED <<names, faults>>
     \/ /\ Fault
        /\ req' = [req EXCEPT ![t].at = "refused", ![t].broken = TRUE]
        /\ SetName(t) \/ UNCHANGED names
  /\ UNCHANGED <<writes, memory, table, known, ghosts, uncreated, requests>>

(* 200 with the name that was saved.                                       *)
AnswerRename(t) ==
  LET s == req[t].session
  IN /\ At(t, "renamed")
     /\ IF req[t].alone
        THEN settled' = settled \cup {s} /\ told' = [told EXCEPT ![s] = req[t].name]
        ELSE UNCHANGED ghosts
     /\ Finish(t)
     /\ UNCHANGED <<writes, memory, meta, known, uncreated, counts>>

(* 500.                                                                    *)
AnswerError(t) ==
  /\ At(t, "refused")
  /\ Finish(t)
  /\ UNCHANGED <<writes, memory, meta, known, ghosts, uncreated, counts>>

-----------------------------------------------------------------------------
(* ChatSessionsHandler                                                     *)

(* Sessions whose first question is in the table, to stay there.           *)
Titled == {s \in Sessions : /\ Questions(s) # {} /\ ~Deleted(s)
                            /\ rows[Earliest(Questions(s))] > 0}

(* sessions = sessionsIdsMap[userId], under its mutex.                     *)
CopySessions(t) ==
  /\ At(t, "list")
  /\ req' = [req EXCEPT ![t].at = "names", ![t].shown = sessionsIds,
                        ![t].firm = settled, ![t].titled = Titled]
  /\ UNCHANGED <<writes, memory, meta, known, ghosts, uncreated, counts>>

Only(S) == [s \in Sessions |-> IF s \in S THEN names[s] ELSE NoName]

(* A bug: titles are looked for before the list is restricted.             *)
Untitled_All(S, shown) == {s \in Sessions : Only(S)[s] = NoName}
Untitled(S, shown) == {s \in shown : Only(S)[s] = NoName}

(* The custom names.  Without the table the statement throws, which leaves *)
(* none; an exception between two rows leaves those read before.           *)
ReadNames(t) ==
  /\ At(t, "names")
  /\ \E S \in SUBSET Sessions :
       /\ IF S = Sessions THEN UNCHANGED faults ELSE Fault
       /\ req' = [req EXCEPT ![t].at = "titles",
                             ![t].customNameCache = Only(S),
                             ![t].todo = Untitled(S, req[t].shown),
                             ![t].firm = @ \cap S]
  /\ UNCHANGED <<writes, memory, meta, known, ghosts, uncreated, requests>>

(* What SELECT ... WHERE is_user = 1 ORDER BY ts LIMIT 1 may find, 0 for no *)
(* row.  A bug: no ORDER BY.                                               *)
FirstRow_Unordered(s) ==
  LET there == {i \in Questions(s) : rows[i] > 0}
  IN IF there = {} THEN {0} ELSE there
FirstRow(s) ==
  LET there == {i \in Questions(s) : rows[i] > 0}
  IN IF there = {} THEN {0} ELSE {Earliest(there)}

(* The first question of one session, the default name if none is stored   *)
(* or the statement throws.                                                *)
ReadTitle(t) ==
  /\ At(t, "titles")
  /\ \E s \in req[t].todo :
       \/ /\ \E i \in FirstRow(s) :
               req' = [req EXCEPT ![t].todo = @ \ {s}, ![t].autoNameCache[s] = i]
          /\ UNCHANGED faults
       \/ /\ Fault
          /\ req' = [req EXCEPT ![t].todo = @ \ {s}, ![t].titled = @ \ {s}]
  /\ UNCHANGED <<writes, memory, meta, known, ghosts, uncreated, requests>>

Listed(t) == At(t, "titles") /\ req[t].todo = {}

AnswerList(t) ==
  /\ Listed(t)
  /\ Finish(t)
  /\ UNCHANGED <<writes, memory, meta, known, ghosts, uncreated, counts>>

-----------------------------------------------------------------------------
(* Behind the handlers                                                     *)

Execute(i) ==
  /\ applied[i] < MaxApply
  /\ Writes!Apply(i)
  /\ UNCHANGED <<memory, meta, req, known, ghosts, uncreated, counts>>

(* The process is restarted: MySQL and the queue remain.                   *)
Restart ==
  /\ Fault
  /\ sessionsIds' = {} /\ loaded' = FALSE /\ flag' = FALSE /\ uncreated' = FALSE
  /\ req' = [t \in Threads |-> Free]
  /\ UNCHANGED <<writes, meta, known, ghosts, requests>>

Next ==
  \/ \E t \in Threads :
       \/ Requests(t) \/ EnsureUserDataLoaded(t)
       \/ (\E s \in Sessions : ListNewSession(t, s)) \/ PublishQuestion(t)
       \/ Unlist(t) \/ PublishDelete(t)
       \/ RejectRename(t) \/ StartRename(t) \/ EnsureTable(t) \/ Write(t) \/ WriteThrows(t)
       \/ AnswerRename(t) \/ AnswerError(t)
       \/ CopySessions(t) \/ ReadNames(t) \/ ReadTitle(t) \/ AnswerList(t)
  \/ \E i \in outstanding : Execute(i)
  \/ Restart

Spec == Init /\ [][Next]_vars

-----------------------------------------------------------------------------

Places == {"idle", "load", "new", "ask", "delete", "publish", "rename", "create", "write",
           "renamed", "refused", "list", "names", "titles"}
RequestSet ==
  [at : Places, kind : {"list", "ask", "delete", "new", "rename"}, session : Sessions,
   name : Names \cup {NoName}, alone : BOOLEAN, broken : BOOLEAN, shown : SUBSET Sessions,
   customNameCache : [Sessions -> Names \cup {NoName}], autoNameCache : [Sessions -> Nat],
   todo : SUBSET Sessions, firm : SUBSET Sessions, titled : SUBSET Sessions]

TypeOK ==
  /\ log \in Seq(Writes!Statements)
  /\ outstanding \subseteq DOMAIN log /\ lost \subseteq DOMAIN log
  /\ \A f \in {applied, rows} : DOMAIN f = DOMAIN log /\ f \in Seq(Nat)
  /\ sessionsIds \subseteq Sessions /\ known \subseteq Sessions /\ settled \subseteq Sessions
  /\ loaded \in BOOLEAN /\ table \in BOOLEAN /\ flag \in BOOLEAN /\ uncreated \in BOOLEAN
  /\ names \in [Sessions -> Names \cup {NoName}] /\ told \in [Sessions -> Names \cup {NoName}]
  /\ req \in [Threads -> RequestSet]
  /\ \A t \in Threads : /\ req[t].todo \subseteq req[t].shown
                         /\ req[t].autoNameCache \in [Sessions -> {0} \cup DOMAIN log]
  /\ requests \in 0..MaxRequests /\ faults \in 0..MaxFaults

(* Once a page was told that its rename is done, every list made from then *)
(* on shows that name, and the automatic one if the name was taken back:   *)
(* after deletions, new rows and restarts, as long as no other rename of   *)
(* the session ran beside it or begins, and the list could read the names. *)
SettledNameIsShown ==
  \A t \in Threads : Listed(t) =>
    \A s \in req[t].shown \cap req[t].firm : req[t].customNameCache[s] = told[s]

(* A session without a name is called after its first question, whatever   *)
(* rows of later questions came before, as soon as that question's INSERT  *)
(* has been executed and unless a deletion of the session is under way.    *)
TitleIsFirstQuestion ==
  \A t \in Threads : Listed(t) =>
    \A s \in req[t].shown \cap req[t].titled :
      req[t].customNameCache[s] = NoName => req[t].autoNameCache[s] = Earliest(Questions(s))

(* A rename is refused only if one of its statements failed, or if this    *)
(* process failed to create the table, once, for the once_flag is set then *)
(* and no later rename creates it.                                         *)
OnlyFaultsRefuse ==
  \A t \in Threads : At(t, "refused") => req[t].broken \/ uncreated

=============================================================================
