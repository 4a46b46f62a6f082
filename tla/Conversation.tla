---------------------------- MODULE Conversation ----------------------------
(***************************************************************************)
(* One conversation: an AIHelper object, the turns ChatSendHandler         *)
(* (AIHelper::chat) and ChatStreamHandler run on it, and what the page     *)
(* that asked sees of a streamed turn.                                     *)
(*                                                                         *)
(* A stored message does not say who spoke: AIStrategy::buildRequest and   *)
(* ChatHistoryHandler take the role from the parity of its index, so that  *)
(* every path of a turn, and every exception on it, has to leave the       *)
(* vector with pairs.  Each step below ends where the thread blocks (curl, *)
(* a tool, the broker) or another thread may come in between.  The pages   *)
(* of a user send a turn when the one before was answered; a page that is  *)
(* reloaded, or a second one, does not wait.                               *)
(***************************************************************************)
EXTENDS Naturals, Sequences, FiniteSets, SequencesExt

CONSTANTS Kinds,      \* how turns are run, a subset of AllKinds
          MaxTurns,   \* bound: turns
          MaxCalls,   \* bound: tool calls in one response of a model
          MaxChunks,  \* bound: chunks of one stream
          MaxFaults,  \* bound: exceptions
          MaxLeaves   \* bound: pages left before the answer

AllKinds == {"simulated", "plain", "native", "mcp", "stream"}

ASSUME ConversationAssumption ==
  /\ Kinds \subseteq AllKinds
  /\ MaxTurns \in Nat /\ MaxCalls \in Nat /\ MaxChunks \in Nat /\ MaxFaults \in Nat
  /\ MaxLeaves \in Nat

Turns == 1..MaxTurns

VARIABLES
  messages,    \* AIHelper::messages, each [role, turn]; only position tells the role in the code
  strategy,    \* the turn whose setStrategy made the object AIHelper::strategy owns, 0 for none
  published,   \* the INSERTs published for the conversation
  turn,        \* turn[n]: where turn n is
  functors,    \* functors[n]: sends of turn n's thread the event loop has not run
  wire,        \* wire[n]: the frames the connection of turn n has sent
  gone,        \* the turns whose page did not wait for the answer
  overlapped,  \* a turn began while another was running
  faults       \* exceptions so far

vars == <<messages, strategy, published, turn, functors, wire, gone, overlapped, faults>>
streams == <<functors, wire>>
others == <<strategy, gone, overlapped>>

(* calls: tools the model called; left: tools not run yet, or chunks seen. *)
Silent == [at |-> "idle", kind |-> "none", new |-> FALSE, calls |-> 0, left |-> 0, threw |-> "no"]

Init ==
  /\ messages = <<>> /\ strategy = 0 /\ published = <<>>
  /\ turn = [n \in Turns |-> Silent]
  /\ functors = [n \in Turns |-> <<>>] /\ wire = [n \in Turns |-> <<>>]
  /\ gone = {} /\ overlapped = FALSE /\ faults = 0

At(n, l) == turn[n].at = l
Goto(n, l) == turn' = [turn EXCEPT ![n].at = l]
Running(n) == turn[n].at \notin {"idle", "ended"}

(* The page of turn n has its answer: a response, or, for a stream, the    *)
(* end of the connection, which is what its reader waits for.              *)
Answered(n) ==
  IF turn[n].kind = "stream" /\ turn[n].threw = "no"
  THEN Contains(wire[n], "shutdown") ELSE At(n, "ended")

-----------------------------------------------------------------------------
(* AIHelper::messages                                                      *)

(* The vector has no lock: of two push_backs that overlap one may be lost. *)
Racing(n) == \E m \in Turns \ {n} : turn[m].at \in {"ask", "answer", "prompt", "tools"}

Push(n, role) ==
  \/ messages' = Append(messages, [role |-> role, turn |-> n])
  \/ Racing(n) /\ UNCHANGED messages

Without(k) == SubSeq(messages, 1, Len(messages) - k)

(* addMessage: push_back, then pushMessageToMysql.                         *)
AddMessage(n, role) ==
  /\ Push(n, role)
  /\ published' = Append(published, [role |-> role, turn |-> n])

(* The channel is dead: publish throws behind the push_back.               *)
AddMessageThrows(n, role) ==
  /\ faults < MaxFaults
  /\ faults' = faults + 1
  /\ Push(n, role)
  /\ UNCHANGED published

-----------------------------------------------------------------------------
(* The pages                                                               *)

Start(kind) == IF kind = "mcp" THEN "prompt" ELSE "ask"

(* A page sends a question, to a session that may be new.                  *)
Begin(n, kind, new) ==
  /\ At(n, "idle")
  /\ \A m \in 1..(n - 1) : Answered(m) \/ m \in gone
  /\ \A m \in 1..(n - 1) : ~At(m, "idle")
  /\ new => n = 1
  /\ turn' = [turn EXCEPT ![n].at = Start(kind), ![n].kind = kind, ![n].new = new]
  /\ overlapped' = (overlapped \/ \E m \in Turns : Running(m))
  /\ UNCHANGED <<messages, strategy, published, streams, gone, faults>>

(* The page is reloaded or closed while it waits, or a second one asks.    *)
Leave(n) ==
  /\ Cardinality(gone) < MaxLeaves
  /\ n \notin gone /\ ~At(n, "idle") /\ ~Answered(n)
  /\ gone' = gone \cup {n}
  /\ UNCHANGED <<messages, strategy, published, turn, streams, overlapped, faults>>

-----------------------------------------------------------------------------
(* The steps all kinds of turns share                                      *)

AfterQuestion(kind) ==
  CASE kind \in {"simulated", "mcp"} -> "answer"
    [] kind \in {"plain", "native"} -> "curl"
    [] kind = "stream" -> "header"

(* setStrategy: the object of the turn before is destroyed.  An MCP turn   *)
(* does it ahead of its prompt, the others ahead of their question.        *)
SetStrategy(n) == strategy' = IF Start(turn[n].kind) = turn[n].at THEN n ELSE strategy

(* addMessage of the question.                                             *)
Ask(n) ==
  /\ At(n, "ask")
  /\ SetStrategy(n)
  /\ AddMessage(n, "user")
  /\ Goto(n, AfterQuestion(turn[n].kind))
  /\ UNCHANGED <<streams, gone, overlapped, faults>>

(* addMessage of the answer, of an error text, or of the placeholder of a  *)
(* stream that brought nothing.                                            *)
Answer(n) ==
  /\ At(n, "answer")
  /\ AddMessage(n, "assistant")
  /\ Goto(n, IF turn[n].kind = "stream" THEN "done" ELSE "ended")
  /\ UNCHANGED <<streams, others, faults>>

(* An exception reaches the handler, which answers with an error.          *)
Fails(n, why) == turn' = [turn EXCEPT ![n].at = "ended", ![n].threw = why]

(* StrategyFactory::create throws: no key for the model.                   *)
Refused(n) ==
  /\ At(n, Start(turn[n].kind))
  /\ faults < MaxFaults
  /\ faults' = faults + 1
  /\ Fails(n, "early")
  /\ UNCHANGED <<messages, published, streams, others>>

(* executeCurl or a parser throws.  What the turn pushed stays.            *)
CurlThrows(n) ==
  /\ turn[n].at \in {"curl", "tools", "second"}
  /\ faults < MaxFaults
  /\ faults' = faults + 1
  /\ Fails(n, "curl")
  /\ UNCHANGED <<messages, published, streams, others>>

AskThrows(n) ==
  /\ At(n, "ask")
  /\ SetStrategy(n)
  /\ AddMessageThrows(n, "user")
  /\ Fails(n, "publish")
  /\ UNCHANGED <<streams, gone, overlapped>>

AnswerThrows(n) ==
  /\ At(n, "answer") /\ turn[n].kind # "stream"
  /\ AddMessageThrows(n, "assistant")
  /\ Fails(n, "publish")
  /\ UNCHANGED <<streams, others>>

-----------------------------------------------------------------------------
(* AIHelper::chat, behind its blocking calls                               *)

(* A plain model, or a native one that calls no tool or answers nonsense.  *)
Reply(n) ==
  /\ At(n, "curl") /\ turn[n].kind \in {"plain", "native"}
  /\ Goto(n, "answer")
  /\ UNCHANGED <<messages, published, streams, others, faults>>

(* A bug: the message with the calls is published like the others.         *)
CallTools_Published(n) ==
  /\ At(n, "curl") /\ turn[n].kind = "native"
  /\ AddMessage(n, "call")
  /\ \E k \in 1..MaxCalls :
       turn' = [turn EXCEPT ![n].at = "tools", ![n].calls = k, ![n].left = k]
  /\ UNCHANGED <<streams, others, faults>>

(* A native model calls tools: its message goes into the history.          *)
CallTools(n) ==
  /\ At(n, "curl") /\ turn[n].kind = "native"
  /\ Push(n, "call")
  /\ \E k \in 1..MaxCalls :
       turn' = [turn EXCEPT ![n].at = "tools", ![n].calls = k, ![n].left = k]
  /\ UNCHANGED <<published, streams, others, faults>>

(* The result of one tool.                                                 *)
InvokeTool(n) ==
  /\ At(n, "tools") /\ turn[n].kind = "native"
  /\ Push(n, "tool")
  /\ turn' = [turn EXCEPT ![n].left = @ - 1, ![n].at = IF turn[n].left = 1 THEN "second" ELSE @]
  /\ UNCHANGED <<published, streams, others, faults>>

(* Messages the second answer removes from a native turn.  A bug: the      *)
(* question goes with them.                                                *)
Cleanup_Question == 3
Cleanup == 2

(* The second answer: two pop_back, whatever was pushed.                   *)
ReplyToResults(n) ==
  /\ At(n, "second") /\ turn[n].kind = "native"
  /\ messages' = Without(Cleanup)
  /\ Goto(n, "answer")
  /\ UNCHANGED <<published, streams, others, faults>>

(* An MCP turn pushes a prompt that is not the user's question.            *)
Prompt(n) ==
  /\ At(n, "prompt")
  /\ SetStrategy(n)
  /\ Push(n, "prompt")
  /\ Goto(n, "curl")
  /\ UNCHANGED <<published, streams, gone, overlapped, faults>>

(* It is popped, and the model answers or wants a tool.                    *)
ReplyToPrompt(n) ==
  /\ At(n, "curl") /\ turn[n].kind = "mcp"
  /\ messages' = Without(1)
  /\ Goto(n, "ask") \/ Goto(n, "tools")
  /\ UNCHANGED <<published, streams, others, faults>>

ToolFails(n) ==
  /\ At(n, "tools") /\ turn[n].kind = "mcp"
  /\ Goto(n, "ask")
  /\ UNCHANGED <<messages, published, streams, others, faults>>

(* A second prompt tells the result of the tool.                           *)
PromptWithResult(n) ==
  /\ At(n, "tools") /\ turn[n].kind = "mcp"
  /\ Push(n, "prompt")
  /\ Goto(n, "second")
  /\ UNCHANGED <<published, streams, others, faults>>

ReplyToSecondPrompt(n) ==
  /\ At(n, "second") /\ turn[n].kind = "mcp"
  /\ messages' = Without(1)
  /\ Goto(n, "ask")
  /\ UNCHANGED <<published, streams, others, faults>>

-----------------------------------------------------------------------------
(* ChatStreamHandler: the handler, on the event loop                       *)

(* What the loop sends; nothing once the peer is gone or shut down.         *)
Sent(n, frames) ==
  IF n \in gone \/ Contains(wire[n], "shutdown") THEN wire ELSE [wire EXCEPT ![n] = @ \o frames]

Preamble(n) == <<"header">> \o (IF turn[n].new THEN <<"sessionId">> ELSE <<>>)

(* buildStreamRequest, the header, the id of a new session, markStreamed;  *)
(* the rest of the turn belongs to a detached thread.                      *)
SendHeader(n) ==
  /\ At(n, "header")
  /\ wire' = Sent(n, Preamble(n))
  /\ Goto(n, "stream")
  /\ UNCHANGED <<messages, published, functors, others, faults>>

(* The detached thread                                                     *)

(* Its sends are queued for the loop.                                      *)
Post(n, frames) == functors' = [functors EXCEPT ![n] = @ \o frames]

(* Two bugs: the connection is left open; it is shut down before the mark. *)
Ending_Open == <<"done">>
Ending_ShutFirst == <<"shutdown", "done">>
Ending == <<"done", "shutdown">>

(* A bug: the model's [DONE] ends the answer, while curl is still reading. *)
OnChunk_Done(n) ==
  /\ At(n, "stream")
  /\ turn[n].left < MaxChunks
  /\ turn' = [turn EXCEPT ![n].left = @ + 1]
  /\ Post(n, Ending)
  /\ UNCHANGED <<messages, published, wire, others, faults>>

(* onChunk: content, reasoning, or the notice that the answer was cut.     *)
OnChunk(n) ==
  /\ At(n, "stream")
  /\ turn[n].left < MaxChunks
  /\ turn' = [turn EXCEPT ![n].left = @ + 1]
  /\ Post(n, <<"data">>)
  /\ UNCHANGED <<messages, published, wire, others, faults>>

StreamOver(n, l) == turn' = [turn EXCEPT ![n].at = l, ![n].left = 0]

StreamReturns(n) ==
  /\ At(n, "stream")
  /\ StreamOver(n, "answer")
  /\ UNCHANGED <<messages, published, streams, others, faults>>

(* A bug: the thread forgets the turn after the error frame.               *)
StreamThrows_NoReply(n) ==
  /\ At(n, "stream")
  /\ faults < MaxFaults
  /\ faults' = faults + 1
  /\ Post(n, <<"data">>)
  /\ StreamOver(n, "done")
  /\ UNCHANGED <<messages, published, wire, others>>

(* executeCurlStream throws: the catch sends a frame with the error.       *)
StreamThrows(n) ==
  /\ At(n, "stream")
  /\ faults < MaxFaults
  /\ faults' = faults + 1
  /\ Post(n, <<"data">>)
  /\ StreamOver(n, "answer")
  /\ UNCHANGED <<messages, published, wire, others>>

Finish(n) ==
  /\ At(n, "done")
  /\ Post(n, Ending)
  /\ Goto(n, "ended")
  /\ UNCHANGED <<messages, published, wire, others, faults>>

(* The event loop runs the next send.                                      *)
RunFunctor(n) ==
  /\ functors[n] # <<>>
  /\ wire' = Sent(n, <<Head(functors[n])>>)
  /\ functors' = [functors EXCEPT ![n] = Tail(@)]
  /\ UNCHANGED <<messages, published, turn, others, faults>>

(* publish throws in the detached thread, outside its try block: the       *)
(* process and its connections end.  The next one restores what was sent.  *)
Terminate(n) ==
  /\ At(n, "answer") /\ turn[n].kind = "stream"
  /\ faults < MaxFaults
  /\ faults' = faults + 1
  /\ messages' = published
  /\ turn' = [m \in Turns |-> IF Running(m) THEN [turn[m] EXCEPT !.at = "ended", !.threw = "publish"]
                                            ELSE turn[m]]
  /\ gone' = gone \cup {m \in Turns : Running(m) \/ functors[m] # <<>>}
  /\ functors' = [m \in Turns |-> <<>>]
  /\ strategy' = 0
  /\ UNCHANGED <<published, wire, overlapped>>

-----------------------------------------------------------------------------
TurnStep(n) ==
  \/ Ask(n) \/ Answer(n)
  \/ Reply(n) \/ CallTools(n) \/ InvokeTool(n) \/ ReplyToResults(n)
  \/ Prompt(n) \/ ReplyToPrompt(n) \/ ToolFails(n) \/ PromptWithResult(n)
  \/ ReplyToSecondPrompt(n)
  \/ SendHeader(n) \/ OnChunk(n) \/ StreamReturns(n) \/ Finish(n)

Next ==
  \E n \in Turns :
    \/ (\E kind \in Kinds, new \in BOOLEAN : Begin(n, kind, new)) \/ Leave(n)
    \/ TurnStep(n) \/ RunFunctor(n)
    \/ Refused(n) \/ CurlThrows(n) \/ AskThrows(n) \/ AnswerThrows(n)
    \/ StreamThrows(n) \/ Terminate(n)

(* Threads and the event loop are scheduled, and calls to a model or tool  *)
(* come back: curl has no timeout of its own, so that a model that neither *)
(* answers nor hangs up holds its turn for ever.                           *)
Fairness == \A n \in Turns : WF_vars(TurnStep(n)) /\ WF_vars(RunFunctor(n))

Spec == Init /\ [][Next]_vars /\ Fairness

-----------------------------------------------------------------------------
Roles == {"user", "assistant", "prompt", "call", "tool"}

Places == {"idle", "ask", "prompt", "curl", "tools", "second", "header", "stream", "answer",
           "done", "ended"}
TurnSet == [at : Places, kind : Kinds \cup {"none"}, new : BOOLEAN, calls : 0..MaxCalls,
            left : 0..(MaxCalls + MaxChunks), threw : {"no", "early", "curl", "publish"}]
Frames == {"header", "sessionId", "data", "done", "shutdown"}

TypeOK ==
  /\ messages \in Seq([role : Roles, turn : Turns])
  /\ published \in Seq([role : {"user", "assistant"}, turn : Turns])
  /\ turn \in [Turns -> TurnSet]
  /\ wire \in [Turns -> Seq(Frames)] /\ functors \in [Turns -> Seq(Frames)]
  /\ strategy \in {0} \cup Turns
  /\ gone \subseteq Turns /\ overlapped \in BOOLEAN /\ faults \in 0..MaxFaults

(* The messages s without the temporary ones are the rows p: there are as  *)
(* many, and the k-th message that persists is the k-th row.               *)
Persistent(m) == m.role \in {"user", "assistant"}
PersistentTo(s, k) == {i \in 1..k : Persistent(s[i])}
Agrees(s, p) ==
  /\ Cardinality(PersistentTo(s, Len(s))) = Len(p)
  /\ \A i \in DOMAIN s : Persistent(s[i]) => s[i] = p[Cardinality(PersistentTo(s, i))]

(* The vector agrees with what was published, whatever temporary messages  *)
(* a turn pushed, popped or left behind, unless turns overlapped or a      *)
(* publication failed.                                                     *)
HistoryIsPublished ==
  ~overlapped /\ (\A n \in Turns : turn[n].threw # "publish") => Agrees(messages, published)

(* Roles can be read off the parity of the index at every moment, also     *)
(* when a request is built in the middle of a turn and after a stream that *)
(* failed, provided that turns did not overlap, no turn was abandoned by   *)
(* an exception behind its first push, and no response called two tools.   *)
Spoken(m) == m.role \in {"user", "prompt", "tool"}
ParityTellsRole == \A i \in DOMAIN messages : Spoken(messages[i]) <=> i % 2 = 1
RolesByParity ==
  ~overlapped /\ (\A n \in Turns : turn[n].threw \in {"no", "early"} /\ turn[n].calls <= 1)
    => ParityTellsRole

(* A turn builds its request, sends it and parses the answer with the      *)
(* strategy of the model its page chose.  The AIHelper owns the only       *)
(* reference to it, a stream keeps a raw pointer: it is alive as long as   *)
(* pages wait for the end of their streams, because the thread shuts the   *)
(* connection down only when it is done with the strategy.                 *)
UsesStrategy(n) == turn[n].at \in {"curl", "tools", "second", "header", "stream"}
StrategyIsOwn == gone = {} => \A n \in Turns : UsesStrategy(n) => strategy = n

(* A page that has read [DONE] finds the answer in the history: the reply  *)
(* was published before the mark was sent.                                 *)
DoneMeansSaved ==
  \A n \in Turns : Contains(wire[n], "done") =>
    Contains(published, [role |-> "assistant", turn |-> n])

(* The frames of a stream come in the order the page's parser relies on,   *)
(* although two threads send them, and the connection is not shut down     *)
(* before all of them, [DONE] included, are out.                           *)
Rank == [header |-> 1, sessionId |-> 2, data |-> 3, done |-> 4, shutdown |-> 5]
FramesInOrder ==
  \A n \in Turns :
    /\ \A i, j \in DOMAIN wire[n] :
         i < j => \/ Rank[wire[n][i]] < Rank[wire[n][j]]
                  \/ wire[n][i] = "data" /\ wire[n][j] = "data"
    /\ Contains(wire[n], "shutdown") => {"header", "done"} \subseteq ToSet(wire[n])

(* A page that waits is released: by the response, or by the shutdown of   *)
(* the stream's connection, or because the process is gone.                *)
Released(n) == n \in gone \/ turn[n].threw # "no" \/ Answered(n)
PageIsReleased == \A n \in Turns : ~At(n, "idle") ~> Released(n)

(* "Even indices are the user's, odd ones the answers of the AI": whenever *)
(* no turn runs.                                                           *)
Quiet == \A n \in Turns : ~Running(n)
EvenIsUser == Quiet => ParityTellsRole

=============================================================================
