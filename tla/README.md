# TLA+ verification of the ChatServer

Specifications, model-checking configurations and machine-checked proofs for the C++ chat
server in `src/` (an HTTP framework on muduo, a chat application with several language models,
asynchronous SQL through RabbitMQ, a MySQL connection pool). Everything is translated from the
code; documents and comments are used only as statements to check the code against.

`PROJECT.json` holds the machine-readable side: which lines each definition stands for (`map`),
the runs, the mutants that show that each property can fail, the hazards and the findings.

1. [The system](#1-the-system) 2. [The modules](#2-the-modules) 3. [The runs](#3-the-runs)
4. [Bounds](#4-bounds) 5. [Fairness](#5-fairness) 6. [The proofs](#6-the-proofs)
7. [Findings](#7-findings) 8. [Abstractions and what is not modelled](#8-abstractions-and-what-is-not-modelled)
9. [Plan](#9-plan) 10. [How to run](#10-how-to-run)

## 1. The system

Threads: twelve muduo IO loops (`main.cpp:61`), each serving many connections and running every
handler to its end, curl and MySQL calls included; twelve queue workers (`main.cpp:66`); one
detached thread per streamed answer (`ChatStreamHandler.cpp:150`).

    page --HTTP/SSE--> HttpServer -> MiddlewareChain -> Router -> handler
                                                                   |  \
                       SessionManager (login state) <--------------+   +--> AIHelper --curl--> model, tools
                       ChatServer maps (chatInformation, ...) <----+           | addMessage
                       ensureUserDataLoaded --SELECT--+                        v
                                                      |                  MQManager.publish
                                                      v                        | sql_queue
                       DbConnectionPool <--- MysqlUtil <--- executeMysql <--- RabbitMQThreadPool

| component | state | operations | hard behaviour | what makes it correct |
|---|---|---|---|---|
| **MySQL connection pool** `utils/db` | `connections_` (FIFO), a mutex, `cv_`, each connection's link to MySQL | `getConnection`, the deleter of the lease, `ping`, `reconnect` | 24 threads wait for 5 connections; ping and reconnect run after the pop and outside the lock; exceptions | no connection lost, doubled or shared; one `notify_one` per return never leaves a sleeper beside an idle connection; who asks is served |
| **Asynchronous SQL queue** `MQManager` | `counter_`, the channels and their mutexes; per worker its channel, the message in hand, `stop_`; the broker's queue | `publish`; connect, receive, handle, acknowledge, cancel; `shutdown` | channel chosen before it is locked; crash between execution and acknowledgement; transient messages; a thread dies with each exception; no order between workers | at least once; a second execution only after a return; bounded overtaking; the queue drains; shutdown ends |
| **Conversation store** `ChatServer` | `chatInformation`, `sessionsIdsMap`, `loadedUsers_` under three mutexes | `ensureUserDataLoaded`, and the map accesses of the handlers | test and insertion of `loadedUsers_` are two critical sections around a query; statements still queued when the table is read; a message gets its time stamp, its place in memory and its INSERT in three unlocked steps | a loaded user's cache lacks nothing; its order is that of the time stamps, which a restart would restore; nothing is in memory only or published twice; every conversation is listed, once |
| **Session handlers** (send, stream, history, sessions, delete, rename) | none of their own | see the two rows around this one | several pages of one user; a session deleted while it answers | see there |
| **AIHelper** | `messages` (no lock), `strategy` | `chat`, `addMessage`, `restoreMessage`, `executeCurl(Stream)`, tool calls | several messages per turn, some temporary, some popped; exceptions in between; two turns at once | the parity of an index tells the role; memory agrees with what is published; a turn works with the strategy it began with |
| **Streams** `ChatStreamHandler` | the connection, the queue of functors of its loop | header, id of a new session, chunks, reply, `[DONE]`, shutdown | two threads send on one connection; `onRequest` leaves it open | order of frames; reply saved before `[DONE]`; the page is released on every path |
| **AIStrategy, AIConfig, AIToolRegistry** | configuration; the position of the web search in a page | build a request, parse a response or a chunk, call a tool; find the results in a page | failures; a search loop that goes back in the page it scans | only outcomes matter to a turn; the search ends and finds each result once, with its own snippet |
| **HTTP sessions and login** | `sessions_` of the storage (mutex), `data_` of a session (none), `onlineUsers_` | load, expire, refresh, save; login, logout, register | load–modify–save in three steps; two requests with one cookie | a session that ended stays logged out; a handler acts for one user |
| **HTTP connection** | `HttpContext` (state, request), muduo's buffer | parse, dispatch, reset, answer | requests in pieces; several requests on one connection; errors | a request is handled with its own data and answered once, in order |
| **Router, middleware** | routes; the chain | match, before, after | an `HttpResponse` thrown as an exception | after runs for what before ran for; path parameters reach the handler |
| **QPS metrics** | `gHits`, `gTotal` | `before`, `getQps` | one window purges what another needs | nothing young is lost; every rate has a span |
| **Session renaming** | table `session_meta`, its `once_flag` | create the table, rename, take a name back; list with names and titles | written at once while messages are queued; two tables read without a transaction; the table is tried once | a list shows the name the user was told; the title is the first question; only faults refuse a rename |
| **TLS** | OpenSSL objects | handshake, read, write | what the handshake writes stays in `writeBio_` | never enabled (`useSSL_` stays false) |
| **Static pages, utilities** | none | read files | | |

The hazards of the code, each at its line, with the properties that answer them or the reason why
none does yet, are in `PROJECT.json` under `hazards`.

## 2. The modules

    ConnectionLease <--implements-- DbConnectionPool <--- DbConnectionPoolProofs
    AsyncStatements <--implements-- SqlQueue <--- SqlQueueProofs
          ^
          +-- used by -- ChatStore <--- ChatStoreProofs
          +-- used by -- SessionNames <--- SessionNamesProofs
    Conversation <--- ConversationProofs          HttpSession <--- HttpSessionProofs
    HttpConnection <--- HttpConnectionProofs
    QpsMetrics, WebSearch <--- MetricsAndSearchProofs

Two components have an abstract specification. `ChatStore` and `SessionNames` are composed with the
abstract `AsyncStatements` and not with `SqlQueue`: that `SqlQueue` implements it is checked by the
run `sql_queue` and proved for every size and every number of faults (`QueueImplementsAsync`), so
what they assume of the queue is what the queue provides.
`Conversation` looks at one AIHelper in detail, `ChatStore` at many with their messages reduced to
numbers in the order of their time stamps.

### ConnectionLease, DbConnectionPool

`ConnectionLease` has two variables: who asks, who holds what. `DbConnectionPool` has the code's:

| TLA+ | C++ |
|---|---|
| `connections_` | the `std::queue` |
| `pc[t]`, `conn[t]` | where thread `t` is in `MysqlUtil::executeQuery/executeUpdate` and `getConnection`; the `shared_ptr` it popped |
| `alive[c]` | whether `ping` of `c` would succeed |
| `TakeConnection`, `WaitForConnection` | the loop test under the lock, then pop or `cv_.wait` |
| `SpuriousWakeup`, `LeaveNotifyingOne` | the ways out of `wait`; `notify_one` picks any waiter |
| `Ping`, `ReconnectSucceeds`, `ReconnectFails` | behind the unlock; the catch block pushes and notifies |
| `Execute` | the statement and the deleter of the lease, with or without an exception |
| `Break` | MySQL closes a session |

Each critical section of `mutex_` is one action, because nothing else touches the queue.

### AsyncStatements, SqlQueue

`AsyncStatements`: a log of statements, those that may still be executed, how often each was, and
the rows of `chat_message` they leave. `SqlQueue`: `publish` in three steps (take the index, lock
the channel, publish and wait for the confirm), the worker loop by its blocking calls
(`connecting`, `testing`, `receiving`, `handling`, `acking`, `left`, `dead`), `shutdown`, and the
broker as an external component: queue in publication order, prefetch, requeueing when a channel
closes, loss of transient messages when it restarts. The refinement maps `outstanding` to what is
queued, in flight, or in the hand of a worker whose channel the broker has already forgotten.

Two facts shape it. `BasicPublish` without the mandatory flag drops a message when no worker has
declared the queue yet, so `declared` is state. And the `catch` of a worker is *outside* its loop:
`HandleThrows` ends the thread, and returns the statement to the queue, where the next worker takes
it; a statement that MySQL rejects ends all twelve. `QueueDrains` says exactly that much.

### ChatStore

One user (users share nothing here). A message is a number, in the order of the time stamps;
`message[i]` is the one that statement `i` of the log inserts, so "memory against table" is a
statement about sets and sequences of numbers. `chatInformation[s]` is a
pointer into `heap`, so that a request that keeps its `shared_ptr` while the session is deleted or
restored again writes into the object it has. One action per critical section:

| TLA+ | C++ |
|---|---|
| `CheckLoaded`, `Query`, `QueryThrows`, `RestoreRow`, `SkipRow`, `NextThrows`, `MarkLoaded` | `ensureUserDataLoaded`: test, SELECT, one row, a row whose columns throw, `next()` throwing, insert into `loadedUsers_` |
| `List`, `History` | `ChatSessionsHandler`, `ChatHistoryHandler` |
| `ListNewSession`, `GetHelper`, `ChatThrows` | `ChatSendHandler`, `ChatStreamHandler` |
| `ReadClock`, `PushBack`, `PublishInsert`, `PublishInsertThrows` | `AIHelper::addMessage`, first of the question, then of the reply |
| `EraseHelper`, `Unlist`, `PublishDelete`, `PublishDeleteThrows` | `ChatDeleteSessionHandler` |
| `Execute`, `Restart` | the queue (by `AsyncStatements`), a restart of the process |

`addMessage` holds no lock between reading the clock, the `push_back` and `publish`. Two turns on one
AIHelper, of two pages or of a page and a detached stream, may do the three in different orders.
Memory order, time-stamp order and the order of the INSERTs are therefore three orders in the model.
The one a restart restores is that of the time stamps. `overlapped` records the pairs of which one
message had its time stamp and was not pushed yet when the other, of the same AIHelper, was given
its own; only these may stand the other way round in memory. The order of the INSERTs matters to
nothing here, since the SELECT sorts.

`AIHelper::messages` has no lock, hence two overlapping `push_back` are a data race. The model lets
one of them be lost, and remembers it in `torn`; crashing, the other likely outcome, is `Restart`.
The SELECT orders the rows by `ts`, then by `id`, which is the user's id and the same in all of
them: of two messages of one millisecond either may come first. `SameTime` are the numbers of the
messages that have the time of the one before them, and `RestoreRow` takes any row of the least time
left (`NextRows`). A result is kept as the number of rows each statement has in it that the load has
not come to (`todo`, `Unread`): two executions of one INSERT leave equal rows, which nothing can
tell apart, and the order of the others is `NextRows`. The list of sessions is likewise how often it
has each id (`sessionsIds`), since nothing depends on where an id stands. A row that cannot be read
is skipped by the `catch` in the loop (`SkipRow`), while an exception of `next()` ends the request
and leaves the user not loaded, with the rows restored so far, which the next load restores again
(`NextThrows`).

The history variables `unseen`, `rowless`, `failed`, `queries`, `deleted`, `torn`, `overlapped`
record the circumstances under which the code gives up a guarantee; a property that names one of
them says precisely what can go wrong and that nothing else can.

### Conversation

One AIHelper and the turns on it. `messages` carries a ghost field `role`, which the code does not
store: the code derives it from parity, and `ParityTellsRole` compares the two. Steps end where a
thread blocks (curl, a tool, publication) or another thread comes in. The kinds of turns are the
branches of `AIHelper::chat` and the stream:

| kind | steps |
|---|---|
| `simulated`, `plain` | `Ask`, (`Reply`,) `Answer` |
| `native` (OpenAI-style tools) | `Ask`, `CallTools`, `InvokeTool` per call, `ReplyToResults`, `Answer`, or `Reply` |
| `mcp` (tools described in a prompt) | `Prompt`, `ReplyToPrompt`, (`PromptWithResult`, `ReplyToSecondPrompt` or `ToolFails`,) `Ask`, `Answer` |
| `stream` | `Ask`, `SendHeader`, then in the detached thread `OnChunk`, `StreamReturns` or `StreamThrows`, `Answer`, `Finish` |

`Refused`, `CurlThrows`, `AskThrows`, `AnswerThrows`, `StreamThrows` and `Terminate` are the
exceptions by where they end up: in the handler, in the stream's own catch, or in `std::terminate`
(the `addMessage` behind the stream's try block). `functors` and `wire` are muduo's: `conn->send`
and `shutdown` of the detached thread are queued for the loop, those of the handler are not.
`strategy` says for which turn `setStrategy` last replaced the only owning pointer (`SetStrategy`, in
`Prompt` for MCP turns and in `Ask` for the others). A turn builds its request and parses its answer
with the object it finds there; a stream keeps a raw pointer to it. `StrategyIsOwn` says that this
is the turn's own, living object as long as every page waits for the end of its stream, because the
detached thread shuts the connection down last; its mutant lets the model's own end mark end it.
When a page is reloaded, the next turn frees what the stream still uses
(hazard `ChatStreamHandler.cpp:63`).
`HistoryIsPublished` compares the vector without its temporary messages with the rows published:
there are as many, and the k-th that persists is the k-th row (`Agrees`).

`Answered`, what the page waits for, is the shutdown on the wire for a stream.
`Begin` follows the page (`AI.html`): it sends the next turn when the last was answered, unless it
is reloaded (`Leave`), which nothing prevents.

### SessionNames

What the sessions of a user are called. The names of `session_meta` are written at once, in the
request; the titles come from `chat_message`, whose rows arrive through `AsyncStatements`.

| TLA+ | C++ |
|---|---|
| `EnsureUserDataLoaded` | the same function, as far as `sessionsIdsMap` goes |
| `ListNewSession`, `PublishQuestion` | `ChatSendHandler`, `ChatStreamHandler` |
| `Unlist`, `PublishDelete` | `ChatDeleteSessionHandler`, which leaves the row of `session_meta` |
| `RejectRename`, `StartRename`, `EnsureTable`, `Write`, `WriteThrows`, `AnswerRename`, `AnswerError` | `ChatRenameSessionHandler` with `ensureSessionMetaTable` (`call_once`, its exception swallowed) |
| `CopySessions`, `ReadNames`, `ReadTitle`, `AnswerList` | `ChatSessionsHandler`: copy of the map, names, one SELECT per session without a name |
| `Execute`, `Restart` | the queue, a restart of the process |

Only questions are in the log, since the handler reads rows with `is_user = 1`. `told` is what the
user was last answered; `settled` are the sessions whose last rename nobody interfered with. A list
notes in `firm` and `titled` for which sessions it owes the right name when it begins, and loses a
session from them when a rename or a deletion starts beside it. `OnlyFaultsRefuse` exempts
`uncreated`: after one failed CREATE TABLE the `once_flag` is set all the same, and if the table
does not exist every rename of that process is refused.

### WebSearch

The loop of `AIToolRegistry::webSearch` over the page of the search engine. The page is made of
pieces (results with a text, a link, both or neither; snippets; other anchors; loose names and
unclosed tags), each a sequence of the strings the loop looks for. An action is a way through the
loop: `Full`, `Break`, `SkipName`, `TakeAnchor`. The loop finds a class name, goes *back* to the
tag in front of it and continues behind the end of that anchor, which may be in front of the name
again. `FindsTheResults` compares it, on the pages its comments describe (`Regular`), with a
definition that reads the results off the pieces: which anchors are listed (`Listed`), the place
of each among them (`Number`), and what belongs to it (`Expected`). `SearchReturns` says that the
search ends, except on pages where a class name outside of a tag leads it back to an anchor that
has neither a text nor a link (`GoesRound`): where it comes to such a name it pushes nothing,
continues in front of the name, and goes round for ever (hazard `AIToolRegistry.cpp:234`). Behind
an anchor that has either, it finds that anchor again until there are `max_results` of it.

### HttpConnection

One connection and its event loop. What the parser consumes at once is a *piece*: a request line,
the header with the length, the empty line, a body. The socket may deliver the pieces of a request
one at a time or together, and the pieces of two requests together. Each piece knows which request
of the client it is of, and `request_` remembers of which request its line, headers and body came:
"the handler got one request" is then a statement about three numbers.

| TLA+ | C++ |
|---|---|
| `OnMessage` | muduo appends to the buffer and calls `HttpServer::onMessage` |
| `ReadLine`, `RejectLine`, `ReadHeader`, `RejectHeader`, `EndWithoutBody`, `RejectPost`, `StoiThrows`, `EndWithLength`, `ReadBody`, `WaitForMore` | one iteration of the loop of `HttpContext::parseRequest`, by its branch |
| `Reject` (in them) | 400 and `shutdown()`, from the parse error and from the `catch` |
| `Dispatched`, with `Preflight`, `HandlerReturns`, `HandlerThrows`, `NotFound`, `HandlerStreams` | `onRequest`, `handleRequest` and `HttpContext::reset`, by outcome |
| `StreamEnds` | what the detached thread of a stream queued last |

The parser's steps are interleaved with the client's, which sends while it runs; handlers are
atomic, since they run on the loop. `shutdown()` ends what the server sends, not what it reads:
behind a 400 the connection is parsed on, from the state the error left. `hurried` remembers a
client that sends a request before it has the answer to the last one (or behind a shutdown). For
such a client the code promises nothing: a second request that came with the first waits in the
buffer until something else arrives. `HttpRequest::setMethod` asserts that the method is not set
yet; a line rejected for its version is parsed again when more arrives, and the assertion fails. The
documented build is Release, without assertions, and that is what the module models.

### HttpSession

Requests on several event loops that carry the same cookie. A `Session` object is made for a fresh
random id and keeps it, so the object, its id and the cookie are one number, an index of `heap`.
A thread's request is a record `req[t]`: where it is, what it does (`login`, `logout`, or `use`: the
check that starts every chat handler), and what it has read.

| TLA+ | C++ |
|---|---|
| `Load`, `Check`, `Refresh`, `Save` | `SessionManager::getSession`: storage load with its expiry test, the second test and the new session, `refresh`, storage save |
| `SetUserId`, `SetUsername`, `SetLoggedIn`, `GoOnline` | `ChatLoginHandler`; each `setValue` also saves |
| `ReadWhose`, `Clear`, `Destroy`, `ParseBody`, `GoOffline` | `ChatLogoutHandler` |
| `ReadLoggedIn`, `ReadId`, `ReadName`, `Act` | the check of the chat handlers |
| `Expire` | an hour without a request of the session |

The map of the storage has a mutex, `data_` of a session has none. Of two threads that write one
`data_`, a thread may lose its write (`SetValue`, `Clear`); a value read while another thread writes
may not be found (`Reads`). `disturbed` collects the sessions with which something unusual
happened: a logout, two logins at a time, a login over a login. `ended` are those that a logout
cleared and no login has used since, `lapsed` those that ran out of time while no request had them.
`save` stores a session again that somebody destroyed meanwhile; `LogoutIsFinal` says what makes
this harmless: what is stored again is empty. Its mutant destroys the session and leaves its data.

### QpsMetrics

The deque of time stamps that the requests of every event loop write and `GET /metrics` reads. The
CORS middleware stands in front of this one (`ChatServer.cpp:227`): preflights end there and leave
no time stamp.

| TLA+ | C++ |
|---|---|
| `Before`, `Stamp`, `Record` | `before()`: the counter, `nowMs()`, and under the mutex `push_back` and `purgeOld` |
| `ReadClock`, `Count` | `getQps`: `nowMs()`, and under the mutex `purgeOld` and the rate; once per window |
| `Reply` | the lambda of `/metrics` |

`nowMs()` is called before the mutex is locked, so stamps are pushed out of order, and the front may
be younger than a reader's clock. `purgeOld` stops at the first hit that is young enough and pops
for everybody. `recorded` remembers every push and `reach` the highest cutoff anybody used; with
them `OnlyOldIsLost` says what the deque lacks. Note
what follows from `reach`: a 1 s window read first takes from the 5 s and 60 s windows of the same
response the hits that only they should count. The three figures are rates over about the last
second, unlike what `QpsMetricsMiddleware.h:24` says of `getQps`.

## 3. The runs

| run | configuration | states | shows |
|---|---|---|---|
| `db_pool` | `MCDbConnectionPool.cfg` | 4 thousand | conservation of connections, no lost wakeup, implementation of `ConnectionLease` with its liveness |
| `sql_queue` | `MCSqlQueue.cfg` | 196 thousand | at least once, repetition only after a return, bounded overtaking, draining, shutdown, implementation of `AsyncStatements` |
| `sql_queue_delete` | `MCSqlQueueDelete.cfg` | violated | `DeleteIsFinal`: see findings |
| `chat_store` | `MCChatStore.cfg` | 2.2 million | `CacheComplete`, `MemoryIsPublished`, `SingleLoadIsFaithful`, `ListedOnce` under concurrent loads and additions, delayed and repeated statements, equal time stamps, one fault |
| `chat_store_loaders` | `MCChatStoreLoaders.cfg` | violated | `OneLoader` |
| `conversation` | `MCConversation.cfg` | 401 thousand | `HistoryIsPublished`, `RolesByParity`, `StrategyIsOwn`, `DoneMeansSaved`, `FramesInOrder`, `PageIsReleased` for two turns of every kind |
| `conversation_parity` | `MCConversationParity.cfg` | violated | `EvenIsUser` |
| `http_connection` | `MCHttpConnection.cfg` | 169 thousand | `RequestsAreWhole`, `AnswersInOrder`, `AnswerComes` for three requests of any kind, cut anywhere |
| `http_session` | `MCHttpSession.cfg` | 484 thousand | `LogoutIsFinal`, `ActsAsOneUser`, `ExpiredIsGone` on two event loops |
| `qps_metrics` | `MCQpsMetrics.cfg` | 359 thousand | `OnlyOldIsLost`, `SpansFitWindows` on two event loops |
| `session_names` | `MCSessionNames.cfg` | 2.2 million | `SettledNameIsShown`, `TitleIsFirstQuestion`, `OnlyFaultsRefuse` for two requests at a time beside the queue |
| `web_search` | `MCWebSearch.cfg` | 58 thousand | `FindsTheResults`, `SearchReturns` on every page of at most four pieces |

Properties with a premise name the condition the code leaves to luck: `RolesByParity` holds when
turns do not overlap, none is abandoned behind its first push and no response calls two tools;
`conversation_parity` shows that two tool calls are enough to break it, without any fault. In the
same way `SingleLoadIsFaithful` (at most one query) stands beside `chat_store_loaders` (two queries
happen). The properties of `HttpConnection` exempt a client that does not wait
for its answers, and `AnswerComes` also a negative `Content-Length`, which the parser takes for a
body of nearly 2^64 bytes; `ActsAsOneUser` exempts disturbed sessions; `SingleLoadIsFaithful`
exempts the order of messages of one millisecond and of messages added at the same time
(`overlapped`); `SearchReturns` exempts pages that lead it round (`GoesRound`).

Deadlock is checked in `db_pool`: threads may always call again, so the pool must never stop. The
other models end when their bounded supply of statements, requests or turns is used up, and say
`CHECK_DEADLOCK FALSE`; that they do not stop too early is what `QueueDrains`, `ShutdownEnds` and
`PageIsReleased` are for.

Each property has a mutant: a definition with a suffixed twin (`TakeConnection_NoPop`) preceded by
"A bug:" that puts a plausible mistake into the code. With it the run reports the property as
violated. No specification uses the twins.

## 4. Bounds

| bound | value | why it is enough |
|---|---|---|
| pool: 4 threads, 2 connections | the smallest case with a holder of each connection, a sleeper and a newcomer that overtakes it; the proofs cover every number |
| `SqlQueue`: 2 publishers, 2 channels, 2 workers | two publishers collide on a channel (through the wrap of `counter_` at three statements), two workers reorder; the safety proofs cover every number, and every program |
| `Program` = insert, insert, delete of one session | with 2 workers, overtaking by one is the limit `BoundedOvertaking` states; three statements would show two |
| `MaxFaults` = 1 in each model | a fault of any kind at any moment; combinations of two faults are not explored, except by the proofs |
| `ChatStore`: `MaxRequests` = 2, 2 threads, one stored session of one message and a fresh one | every pair of requests; races in this store are between two requests, or a request and a load; the proofs cover every number |
| `ChatStore`: `MaxApply` = 2 | a statement executed twice, which counts as the one fault; a third execution adds nothing the properties tell apart; the proofs cover every number |
| `HttpConnection`: `MaxRequests` = 3 | a request, the one behind it, and one behind an error or a stream; every kind of request at each place; the safety proofs cover every number |
| `HttpSession`: 2 threads, 2 users, `MaxRequests` = 4, `MaxExpiries` = 1 | a login to start with and three requests, two at a time; the proofs cover every number |
| `ChatStore`: `SameTime` = {3} | the second message that requests add has the time of the first: a question and its reply, or messages of two requests; one tie shows both orders; the proofs cover every set of ties |
| `SessionNames`: 2 threads, a stored and a fresh session, one name and a blank one, `MaxRequests` = 4, `MaxFaults` = 1, `MaxApply` = 1 | a rename, another beside or behind it, a deletion or question, and a list; taking back is a rename to the blank name; the proofs cover every number |
| `WebSearch`: pages of 4 pieces of 11 kinds, `MaxResults` = 2, `Near` = 9 | a result, a snippet, a disturbance between or behind them; the limit of results is reached; with 9 strings a snippet may be near or too far |
| `QpsMetrics`: 2 threads, windows 1 and 3, `Kept` = 2, `MaxRequests` = 4, `MaxTime` = 4 | a window below `Kept` and one above, as 1 s and 60 s are beside 10 s; time for a hit to be recorded, read and dropped while another waits for the mutex; the proofs cover every number |
| `MaxTurns` = 2, `MaxCalls` = 2, `MaxChunks` = 1, `MaxLeaves` = 1 | a turn behind or beside another; 1 tool call (which the cleanup fits) and 2 (which it does not); a chunk or none; the proofs cover every number |

`counter_` is not reduced to a machine word: the code's is a `size_t` that would wrap after 2^64
publications.

## 5. Fairness

Weak fairness on what the scheduler and the called systems owe, nothing on what users or faults do.

* `DbConnectionPool`: threads run, and MySQL calls return. With weak fairness alone a single
  waiter may starve (newcomers overtake); the abstract liveness accordingly promises that *some*
  asking thread is served while a connection is free, and that a connection comes back.
* `SqlQueue`: worker threads run, handlers return, the broker delivers to a consumer with room.
  No fairness on publishers: nothing obliges anyone to publish.
* `Conversation`: threads and the event loop run, and calls to models and tools come back. The
  last is an assumption and not a fact of the code, which sets no curl timeout
  (`AIHelper.cpp:384`); without it `PageIsReleased` fails.
* `HttpConnection`: the event loop runs, handlers return, streams end (the assumption of
  `Conversation`), and a client sends the rest of what it began to send. The loop has no timeout: a
  client that stops in the middle of a request keeps its connection.
* `WebSearch`: the loop runs until it is left; nothing else.
* `ChatStore`, `SessionNames`, `HttpSession` and `QpsMetrics` state safety only.

## 6. The proofs

`DbConnectionPoolProofs` proves, for every finite set of threads and connections
(`ConstantsAssumption`: both finite, `NoConn` no connection):

| theorem | statement |
|---|---|
| `TypeCorrect` | `Spec => []TypeOK` |
| `ConservationCorrect` | `Spec => []ConnectionsConserved` |
| `WakeupCorrect` | `Spec => []NoLostWakeup` |
| `LeaseSafety` | `Spec => Lease!Safety` |

*The invariant.* `ConnectionsConserved` alone is not inductive: a thread that is "using" with no
connection would return `NoConn` to the queue. The last conjunct of `TypeOK`, which ties `pc` to
`conn`, excludes it, and `IInv == TypeOK /\ ConnectionsConserved` is inductive. The cases are the
disjuncts of `Next`; those that push a connection share `ReturnKeepsIInv`, the rest
`MoveKeepsIInv` and `TakeKeepsIInv`. `LeaveEffect` states once what `notify_one` does to `pc`.

*Wakeups.* `NoLostWakeup` bounds the idle connections by the threads on their way to the loop test
while anyone sleeps. Relative to `IInv` it is inductive, by counting: a return adds one connection
and moves one sleeper to "entering"; a pop removes one of each; a thread falls asleep only when
the queue is empty. The cardinalities are those of sets `At(l)` that change by one element, for
which the library's theorems on finite sets are cited.

*Refinement.* `LeaseSafety` maps each step to `Ask`, `Grant`, `GiveBack` or a stutter. `Grant`
needs that the popped connection is free, which is `IInv`; a failed reconnection is a `GiveBack`.

`HttpSessionProofs` proves, for any set of threads and users and any number of requests
(`HttpSessionAssumption`: `Nobody` is no user, the bounds are natural numbers):

| theorem | statement |
|---|---|
| `TypeCorrect` | `Spec => []TypeOK` |
| `LogoutCorrect` | `Spec => []LogoutIsFinal` |
| `ExpiryCorrect` | `Spec => []ExpiredIsGone` |
| `OneUserCorrect` | `Spec => []ActsAsOneUser` |

None of the three properties is inductive, and each strengthening says why the code is right.
`LogoutInv`: no login is still writing into an ended session, for a login that could set the flag
again is a writer at the moment of the `clear`, and the session does not count as ended then.
`LapsedInv`: a lapsed session stays expired, and nobody is even between the two tests of its expiry
(a thread that is would refresh it; hence the second test is not what protects it).
`OneUserInv`: in an undisturbed session at most one login writes, the flag is TRUE only behind
its other two writes, and what a handler has read since it saw the flag is what the session still
holds. Since an object is never freed while a request has it, a step of one thread leaves
what the others rely on (`OthersKeep`); the lemmas `QuietStep`, `KeepStep`, `OneUserFrame` do
the steps that do not touch the sessions concerned.

`MetricsAndSearchProofs` proves of `QpsMetrics`, for any set of threads, any sequence of windows
and any retention (`QpsMetricsAssumption`: there is a window, windows and retention are positive):

| theorem | statement |
|---|---|
| `TypeCorrect` | `Spec => []TypeOK` |
| `LossCorrect` | `Spec => []OnlyOldIsLost` |
| `SpansCorrect` | `Spec => []SpansFitWindows` |

The lemma `Purging` says once what `purgeOld` does to any deque; the two steps that use it cite it.
`OnlyOldIsLost` is inductive with `TypeOK` because it ties the deque to `recorded` position by
position (`Loss`): without that, nothing would be known of the hits a purge pops. `SpansFitWindows`
rests on the test `actualWindow <= 0` for the lower bound and on the purge before it for the upper.

The same module proves of `WebSearch`, for pieces that are any sequences of the strings, pages of
any length, any limit of 1 to 10 results and any distance of a snippet (`WebSearchAssumption`; the
two components share a module and nothing else):

| theorem | statement |
|---|---|
| `ResultsCorrect` | `SearchSpec => []FindsTheResults` |
| `SearchMovesOn` | `SearchSpec => []SearchBounds /\ [][~GoesRound => MovesOn]_searchVars` |
| `RegularReturns` | `SearchSpec => [](Regular => ~GoesRound)` |

*From positions to pieces.* The loop knows positions in one long string, the property pieces.
`PiecesLaidOut` says where each piece of a flattened page lies (`Layout`), `PieceOf` that every
position is in one. Both are inductions over the page. A theorem that takes a predicate cannot be
instantiated here, so an induction is done by its least counterexample: `LeastNumber` gives, of a
set of numbers that is not empty, the least element, and each proof by induction says of its own
set of counterexamples that it is empty. The recursive function inside `FlattenSeq` is treated
likewise (`FlattenExists`, `FlattenUnique`, `FlattenGrows`).

*The loop.* `AnchorFound` says what the loop finds from anywhere within a tag, `NameFound` and
`NoNameFound` where it finds the next class name: in the first piece behind that has it.
`SnippetFound` and `ResultIs` then give `Result = Expected` for a result of a regular page; it is
here that a result without a snippet must not have another's near.

*The invariant.* `FindsTheResults` speaks of the end of the search only. `SearchInv` adds that on a
regular page the search always stands at the end of a piece and has found the results of the pieces
up to there (`FoundUpTo`). `TakeAnchor` goes on to the end of the next result, `Break` means there
is none, `SkipName` never happens.

*The end of the search.* By `SearchMovesOn` each iteration leaves the loop, pushes a result or goes
forward, where results and positions are bounded (`SearchBounds`); by `RegularReturns` a regular
page is never one that leads it round. This is `SearchReturns` but for the fairness that the loop
runs at all.

`SqlQueueProofs` proves, for any publishers, any finite set of workers, any number of channels, any
program and any number of faults (`SqlQueueAssumption`: there is a channel, `Program` is a sequence
of statements, `Workers` is finite, `MaxFaults` a natural number):

| theorem | statement |
|---|---|
| `TypeCorrect` | `Spec => []TypeOK` |
| `AtLeastOnceCorrect` | `Spec => []AtLeastOnce` |
| `RepeatsCorrect` | `Spec => []RepeatsNeedReturn` |
| `OvertakingCorrect` | `Spec => []BoundedOvertaking` |
| `QueueImplementsAsync` | `Spec => ImplementsAsync` |

*The invariant.* `IInv` adds to `TypeOK` what holds of one worker (`WorkerOf`): because the
prefetch is one and a message is acknowledged only behind its handler, the broker has at most one
message in flight to it, and that is the one it has in hand; a worker without a connection has none
in flight. `HistoryGrows` says once what no step undoes: what was published stays, and executions
are only added, to a message in hand.

*At least once.* A statement may leave the places `AtLeastOnce` names only by an acknowledgement or
when a worker goes; `Fates` covers both: what is being acknowledged was executed, and what a worker
without a connection still has in hand went down with the broker, so it counts as lost.

*Repetition.* `Exclusive`: a statement is in the queue or with one worker, never twice.
`ReturnInv` is the inductive form: wherever a statement may still be executed from, it was executed
no more often than the broker took it back. Only what a worker is about to acknowledge has one
execution more, and if the worker goes then, the return makes up for it.

*Overtaking.* The statements before `i` that are yet to be executed (`Behind(i)`) only become fewer,
so they need to be counted at one moment only: when the broker hands out `i`. It hands out the
first of the queue, so each of them is with another worker, and no worker has two
(`FirstIsBehindFew`). A statement that was returned is counted again, by the same argument.

*Refinement.* Each step is one of `AsyncStatements` (a publication `Submit` or `SubmitToNobody`, a
handler `Apply`, an acknowledgement or the end of the process `Settle`, a restart of the broker
`Lose`) or a stutter. What is
pending there is what is queued, in flight or in hand; `Exclusive` is needed for a worker that goes,
whose statement must not be pending with anybody else.

`SessionNamesProofs` proves, for any threads, any non-empty set of sessions, any names and any number
of requests, faults and repeated executions (`SessionNamesAssumption`: `NoName` is no name, `Saved`
maps what a page sends to a name or to none, `Stored` is a sequence of sessions, the bounds are
natural numbers):

| theorem | statement |
|---|---|
| `TypeCorrect` | `Spec => []TypeOK` |
| `RefusalCorrect` | `Spec => []OnlyFaultsRefuse` |
| `NamesCorrect` | `Spec => []SettledNameIsShown` |
| `TitlesCorrect` | `Spec => []TitleIsFirstQuestion` |

*The invariant.* `IInv` adds to `TypeOK` what a request holds at each of its places (`PlaceOK`): a
list, for one, has a name or an automatic name only for sessions it copied. The lemmas named
`...Effect` say once what an action does; a step that touches neither names nor renames is `Quiet`.

*Refusals.* `TableInv`: who is about to write the table is behind the `once_flag`, and the flag is
set without a table only if its creation failed in this process, so `uncreated` says so.

*Names.* `SettledInv`: a settled session has the name the user was told, and nobody who could
write it is behind `StartRename`. `AloneInv`: a rename that counts as alone is the only one of its
session, and once it has written, the row is what it is going to tell. `FirmInv`: a list owes
the right name only for sessions still settled, and what it read of them is what is stored now,
because whoever could change it would first have to end `settled`.

*Titles.* `TitleInv`: for a session whose title a list owes, the row of the first question is in
the table and no DELETE of the session was published. Later rows only come behind it, a repeated
execution adds a row of the same time, and there is nothing that removes one.

`ConversationProofs` proves, for any number of turns, tool calls, chunks, exceptions and pages that
leave (`ConversationAssumption`: the bounds are natural numbers, the kinds are known ones):

| theorem | statement |
|---|---|
| `TypeCorrect` | `Spec => []TypeOK` |
| `SavedCorrect` | `Spec => []DoneMeansSaved` |
| `StrategyCorrect` | `Spec => []StrategyIsOwn` |
| `FramesCorrect` | `Spec => []FramesInOrder` |
| `RolesCorrect` | `Spec => []RolesByParity` |
| `HistoryCorrect` | `Spec => []HistoryIsPublished` |

*The invariant.* `IInv` adds to `TypeOK` which kinds of turns are where, that a native turn at its
tools has results to wait for, and that a turn that threw has ended (`PlaceOK`). `Works(n)` is what
all steps of the thread of turn `n` have in common, `Calm(n)` that such a step sends nothing;
`StepCases` divides `Next` accordingly.

*Streams.* `SavedInv` extends `DoneMeansSaved` to a mark that still waits for the loop and to the
thread that is about to queue it. `FrameOK` puts what waits behind what was sent, lets a stream that
runs have nothing but data on its way, and has the header out before anything waits; for a page
that is gone it only says that what was sent is in order.

*Strategies.* `ShutInv`: a shutdown, queued or sent, is of a turn that has ended. Hence, while
every page waits, a turn begins when those before it have ended (`OneByOne`), so nobody
else has a strategy that `setStrategy` could free.

*Roles.* `AloneInv`: without an overlap one turn runs at a time, so no `push_back` races. `ParityInv`
says at which places of a turn the number of messages is odd, and that a native turn which
called one tool has three messages to take two from. A second call, or an
exception behind a push, breaks the count: both are premises of the property.

*History.* Why may `chat()` pop without looking? `TemporaryOK`: at each place from which a turn pops,
what is at the end of the vector is what that turn pushed itself, two messages for a native turn
with results, one for an MCP turn; nothing else is pushed in between because no other turn runs
(`AloneInv` again). A native turn that called several tools, or one that curl ended, leaves temporary
messages behind, which `Agrees` ignores. `AppendAgrees` and `DropAgrees` say for any sequences what a
push and a pop do to the count of persistent messages.

`HttpConnectionProofs` proves, for any number of requests of any shapes (`HttpConnectionAssumption`:
a request has a known method and length, and a body only if it is posted):

| theorem | statement |
|---|---|
| `TypeCorrect` | `Spec => []TypeOK`, with the pieces a state may find in front |
| `RequestsCorrect` | `Spec => []RequestsAreWhole` |
| `AnswersCorrect` | `Spec => []AnswersInOrder` |

*Where the parser is.* `Pending` is the buffer, the socket and what the client still holds, one
behind the other. `SendPiece` and `OnMessage` do not change it, a parsed piece is its head, a new
request is put behind it. `Chain` says that it is the rest of the requests asked, cut into pieces
(`TailOfChain`, `ChainGrows`), and `Fits` which piece may come first in each state. A rejected POST
without a length leaves the parser at the headers, so `Fits` has a case for the lines that follow
it; a negative length leaves it at a body of more pieces than there can be (`BoundedBuffer`). None
of this needs a client that waits.

*One request at a time.* `Polite` is about a client that has waited so far: all that is pending,
sent or streamed is of its last request or of earlier ones that were answered. As long as the
request is being read (`Open`), it is `Untouched`: no handler had it and nothing but a 400 was sent
for it. `InPlace` says what the context holds of it in each state, and that behind a 400 no state is
left from which it could be dispatched. `AnswersInOrder` follows because what is sent for the last
request is the first, unless it ends a stream.

`ChatStoreProofs` proves, for any threads and sessions, any stored rows and ties between their
times, and any number of requests, faults and executions of a statement (`ChatStoreAssumption`:
`NoSession` is no session, `Stored` is a sequence of sessions, `SameTime` is a set of numbers, the
bounds are natural numbers, of which `MaxApply` is positive):

| theorem | statement |
|---|---|
| `TypeCorrect` | `Spec => []TypeOK` |
| `ListCorrect` | `Spec => []ListedOnce` |
| `CacheCorrect` | `Spec => []CacheComplete` |
| `PublishedCorrect` | `Spec => []MemoryIsPublished` |
| `OrderCorrect` | `Spec => []SingleLoadIsFaithful` |

*The invariant.* `IInv` adds to `TypeOK` what a request is at its place (`PlaceOK`): behind
`ensureUserDataLoaded` the user is loaded, or a load of this process failed; the AIHelper a chat
works on is the one the map leads to, or its session was deleted; who is about to publish a DELETE
has entered the session in `deleted`. `LogOK` and `ResultOK` bound the rows, in the table and in a result
being read, by the executions. The lemmas named `...Effect` say once what the shared parts of the
actions do, `Grows` what only a restart of the process undoes.

*The list.* `ListedOnce` needs three facts. While a load reads, every session is listed or has a
row still to come, so that a loaded user's list is complete. A session that is listed and has no
AIHelper is a new one whose first message is not published: were there a row of it, the row would
create the AIHelper and list the session again. And what is listed was seen by a page, so a fresh
id is not yet in the list.

*The cache.* `CacheInv`: of a session nobody deleted, what a load has not restored is among the rows
it has not read (`Unread`), was not in the table when it was read (`unseen`), or was torn out. The
step that is not obvious is a message added by another request while the load is under way: it is in
memory because its AIHelper is still the one in the map, or its session is deleted (`PlaceOK`).

*The publication.* `NumberInv`: a number belongs to one message, so two statements never insert
the same one, and a message that a thread is about to publish is in no statement and in no other
thread's hands. `PublishedInv` is `MemoryIsPublished` without the uniqueness: what is in memory is
in the log or with the thread that pushed it.

*The order.* Time stamps say nothing of the order of the `push_back`s, so memory need not be sorted,
and `SingleLoadIsFaithful` is not inductive. `OrderInv` adds what is still to come. A message about
to be pushed may follow all that its AIHelper has (`PushingOK`): when its time stamp was read it was
the highest, and what was pushed since either has a higher one, and then its thread read the clock
while this message waited, which makes the pair `overlapped`, or was there before it. For two
threads that are both about to push, `PairOK` says that the later time stamp was read while the
earlier message waited. Rows come from the one load there is: before the first query there is no
AIHelper at all, and while the load reads nobody else is behind it, since being there takes a user
who is loaded or a load that failed. So what is in memory was restored from earlier rows, each of
which the next may follow (`MayFollow`). A row may be restored twice only if its statement was
executed twice, which is where `LogOK` and `ResultOK` are needed, and that `Repeated` names its only
statement is `NumberInv`.

Model-checked only: all liveness (the liveness half of `ConnectionLease`, `QueueDrains`,
`ShutdownEnds`, `PageIsReleased`, `AnswerComes`, `SearchReturns`), because `ENABLED` and fairness are
outside what the provers support; of `SearchReturns` the part without fairness is proved
(`SearchMovesOn`). Every invariant and action property that a run checks is proved.

## 7. Findings

Three statements of comments that the code does not keep; the runs give the traces.

1. *Deletion is not final* (`ChatDeleteSessionHandler.cpp:66`, run `sql_queue_delete`). The DELETE
   goes through the same queue as the INSERTs, and two workers execute them in either order. The
   row survives, and the session is back after the next load.
2. *Check-and-insert is not atomic* (`ChatServer.cpp:107`, run `chat_store_loaders`). Two first
   requests of a user both query; with a single load order and multiplicity are kept
   (`SingleLoadIsFaithful`), with two they are not.
3. *Even indices are not always the user's* (`AIHelper.h:84`, run `conversation_parity`). A
   response that calls two tools pushes one message per call and one before them, and the cleanup
   pops two in all (`AIHelper.cpp:145`): a temporary message stays, and the roles of all later
   messages are swapped. A page reloaded during a stream gets there another way.

Not a finding, since no comment denies it, but a hazard (`HttpRequest.cpp:135`):
`HttpRequest::swap` forgets `content_` and `contentLength_`, and `reset` is such a swap, so behind
a POST `getBody()` of a GET is the body of the POST. `RequestsAreWhole` says that requests with a
body are not affected.

## 8. Abstractions and what is not modelled

* RabbitMQ, MySQL, muduo's loop and the page are modelled as far as `src/` uses them, and marked
  external in `PROJECT.json`.
* MySQL executes a statement atomically. Two executions of one INSERT make two rows; their
  timestamp is that of the message, so the load sees them together. The system clock
  is assumed not to be set back: the message with the later reading has the higher number. In
  `SessionNames` the first question of a session is the first published: two first questions at a
  time, whose time stamps may be equal or in the other order, are left to `ChatStore`. What
  `Conversation` restores is in publication order.
* Ids of new sessions are fresh. The generator (`clock XOR rand() % 100000`) does not ensure it.
* A `push_back` is atomic or lost, or the process ends; a torn vector is not represented.
* Texts, payloads, status lines, logging are left out.
* The pool's `init` has run before any thread exists; its destructor at exit is not modelled, nor
  are result sets that are read after the lease ended (`MysqlUtil.h:24`).
* `readDataFromMySQL` and `initChatMessage` are never called.
* TLS is never enabled, and would not get behind its handshake: what OpenSSL writes during it goes
  to `writeBio_`, which nothing sends. There is no state behind it whose properties would say
  something of the program.
* A handler of `HttpConnection` is one of its outcomes (returned, threw, no route, streams). Header
  lines other than the length, incomplete lines and paths change nothing the properties see.
* Reads and writes of `data_` that race are one of two outcomes each (lost or done, found or not);
  a broken hash table is not represented.
* A system clock that is set back is not in `QpsMetrics`; `gTotal`, which nothing but the response
  reads, bounds its requests.
* Registration is left out: its test and its INSERT are two statements, and whether two equal names
  can be stored depends on which definition of the table `users` was run: `src/docker/init.sql:8-12`
  makes the name UNIQUE, `src/README.md:249-254` does not.
* `shutdown` of the queue is modelled as the code has it, but this program never comes to it:
  `HttpServer::start` runs `mainLoop_.loop()`, and nothing under `src/` calls `quit()`.
* Of the tools, `webSearch` is modelled, since only it loops over what others send; the texts
  it cuts out of the page are reduced to whether they are empty.

## 9. Plan

Done: pool, queue, store, conversation with strategies, names of sessions, HTTP connection, HTTP
sessions, metrics, web search; proofs about all of them (§6). What longer runs would
add are larger instances of `ChatStore`, with two stored sessions at a time.

## 10. How to run

    tlc -workers 2 -config MCDbConnectionPool.cfg MCDbConnectionPool
    tlapm DbConnectionPoolProofs.tla
    tlapm SqlQueueProofs.tla
    tlapm HttpSessionProofs.tla
    tlapm MetricsAndSearchProofs.tla
    tlapm SessionNamesProofs.tla
    tlapm ConversationProofs.tla
    tlapm HttpConnectionProofs.tla
    tlapm ChatStoreProofs.tla
