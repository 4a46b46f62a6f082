------------------------- MODULE ConversationProofs -------------------------
(***************************************************************************)
(* Theorems about the turns of a conversation, for any number of turns,    *)
(* tool calls, chunks, exceptions and pages that leave.                    *)
(***************************************************************************)
EXTENDS Conversation, SequenceTheorems, FiniteSetTheorems, TLAPS

-----------------------------------------------------------------------------
(* The turns                                                               *)

(* What a turn is at each place.                                           *)
PlaceOK(r) ==
  /\ r.at # "idle" => r.kind \in Kinds
  /\ r.at = "prompt" => r.kind = "mcp"
  /\ r.at \in {"tools", "second"} => r.kind \in {"native", "mcp"}
  /\ r.at = "curl" => r.kind \in {"plain", "native", "mcp"}
  /\ r.at \in {"header", "stream", "done"} => r.kind = "stream"
  /\ r.at = "tools" /\ r.kind = "native" => r.left \in 1..r.calls
  /\ r.calls # 0 => r.kind = "native" /\ r.at \in {"tools", "second", "answer", "ended"}
  /\ r.at # "ended" => r.threw = "no"

PlaceInv == \A n \in Turns : PlaceOK(turn[n])
IInv == TypeOK /\ PlaceInv

(* Turn n alone moves, to a record that is right for its place.            *)
Moves(n) ==
  /\ turn' \in [Turns -> TurnSet]
  /\ \A m \in Turns \ {n} : turn'[m] = turn[m]
  /\ PlaceOK(turn'[n])

(* It moves to the place l, and is the turn it was.                        *)
MovesTo(n, l) ==
  /\ Moves(n)
  /\ turn'[n].at = l /\ turn'[n].kind = turn[n].kind /\ turn'[n].new = turn[n].new
  /\ turn'[n].calls = turn[n].calls /\ turn'[n].threw = turn[n].threw

LEMMA MovesFacts ==
  ASSUME IInv, NEW n \in Turns, NEW r \in TurnSet, turn' = [turn EXCEPT ![n] = r], PlaceOK(r)
  PROVE  Moves(n) /\ turn'[n] = r
  BY DEF IInv, TypeOK, PlaceInv, Moves

(* Goto goes to a place if the turn may be there.                          *)
LEMMA GotoEffect ==
  ASSUME IInv, NEW n \in Turns, NEW l \in Places, Goto(n, l),
         PlaceOK([turn[n] EXCEPT !.at = l])
  PROVE  MovesTo(n, l)
<1> DEFINE r == [turn[n] EXCEPT !.at = l]
<1>1. turn \in [Turns -> TurnSet] /\ turn' = [turn EXCEPT ![n] = r]
  BY DEF IInv, TypeOK, Goto
<1>2. r \in TurnSet
  BY <1>1 DEF TurnSet
<1>3. /\ r.at = l /\ r.kind = turn[n].kind /\ r.new = turn[n].new
      /\ r.calls = turn[n].calls /\ r.threw = turn[n].threw
  BY <1>1 DEF TurnSet
<1> QED
  BY <1>1, <1>2, <1>3, MovesFacts DEF MovesTo

LEMMA PlaceAfterGoto ==
  ASSUME IInv, NEW n \in Turns, NEW l \in Places, ~At(n, "idle"), ~At(n, "ended"),
         l # "idle", l = "prompt" => turn[n].kind = "mcp",
         l \in {"tools", "second"} => turn[n].kind = "mcp",
         l = "curl" => turn[n].kind \in {"plain", "native", "mcp"} /\ turn[n].calls = 0,
         l \in {"header", "stream", "done"} => turn[n].kind = "stream",
         l = "ask" => turn[n].calls = 0
  PROVE  PlaceOK([turn[n] EXCEPT !.at = l])
<1>1. turn[n] \in TurnSet /\ PlaceOK(turn[n])
  BY DEF IInv, TypeOK, PlaceInv
<1> QED
  BY <1>1 DEF PlaceOK, TurnSet, At, Places

LEMMA GotoMovesTo ==
  ASSUME IInv, NEW n \in Turns, NEW l \in Places, Goto(n, l),
         turn[n].at # "idle", turn[n].at # "ended",
         l # "idle", l = "prompt" => turn[n].kind = "mcp",
         l \in {"tools", "second"} => turn[n].kind = "mcp",
         l = "curl" => turn[n].kind \in {"plain", "native", "mcp"} /\ turn[n].calls = 0,
         l \in {"header", "stream", "done"} => turn[n].kind = "stream",
         l = "ask" => turn[n].calls = 0
  PROVE  MovesTo(n, l)
<1>1. PlaceOK([turn[n] EXCEPT !.at = l])
  BY PlaceAfterGoto DEF At
<1> QED
  BY <1>1, GotoEffect

LEMMA TurnFacts ==
  ASSUME IInv, NEW n \in Turns
  PROVE  turn[n] \in TurnSet /\ PlaceOK(turn[n])
  BY DEF IInv, TypeOK, PlaceInv

(* Where the steps of a turn lead.                                         *)
LEMMA GotoMoves ==
  ASSUME IInv, NEW n \in Turns
  PROVE  /\ Ask(n) => MovesTo(n, AfterQuestion(turn[n].kind))
         /\ Answer(n) => MovesTo(n, IF turn[n].kind = "stream" THEN "done" ELSE "ended")
         /\ Reply(n) => MovesTo(n, "answer")
         /\ ReplyToResults(n) => MovesTo(n, "answer")
         /\ Prompt(n) => MovesTo(n, "curl")
         /\ ReplyToPrompt(n) => MovesTo(n, "ask") \/ MovesTo(n, "tools")
         /\ ToolFails(n) => MovesTo(n, "ask")
         /\ PromptWithResult(n) => MovesTo(n, "second")
         /\ ReplyToSecondPrompt(n) => MovesTo(n, "ask")
         /\ SendHeader(n) => MovesTo(n, "stream")
         /\ Finish(n) => MovesTo(n, "ended")
<1>0. /\ turn[n] \in TurnSet /\ PlaceOK(turn[n])
      /\ Kinds \subseteq AllKinds
  BY TurnFacts, ConversationAssumption
<1>1. ASSUME Ask(n) PROVE MovesTo(n, AfterQuestion(turn[n].kind))
  <2> DEFINE l == AfterQuestion(turn[n].kind)
  <2>1. turn[n].kind \in AllKinds /\ At(n, "ask") /\ Goto(n, l) /\ turn[n].calls = 0
    BY <1>0, <1>1 DEF Ask, At, PlaceOK
  <2>2. /\ l \in {"answer", "curl", "header"}
        /\ l = "curl" => turn[n].kind \in {"plain", "native"}
        /\ l = "header" => turn[n].kind = "stream"
    BY <2>1 DEF AllKinds, AfterQuestion
  <2>3. PlaceOK([turn[n] EXCEPT !.at = l])
    BY <2>1, <2>2, PlaceAfterGoto DEF At, Places
  <2> QED
    BY <2>1, <2>2, <2>3, GotoEffect DEF Places
<1>2. ASSUME Answer(n)
      PROVE  MovesTo(n, IF turn[n].kind = "stream" THEN "done" ELSE "ended")
  <2> DEFINE l == IF turn[n].kind = "stream" THEN "done" ELSE "ended"
  <2>1. /\ l \in {"done", "ended"} /\ Goto(n, l) /\ turn[n].at = "answer"
        /\ l = "done" => turn[n].kind = "stream"
    BY <1>2 DEF Answer, At, Places
  <2>2. PlaceOK([turn[n] EXCEPT !.at = l])
    BY <2>1, PlaceAfterGoto DEF At, Places
  <2> QED
    BY <2>1, <2>2, GotoEffect DEF Places
<1>3. ASSUME Reply(n) PROVE MovesTo(n, "answer")
  <2>1. Goto(n, "answer") /\ "answer" \in Places /\ turn[n].at = "curl"
    BY <1>0, <1>3 DEF Reply, At, Places, PlaceOK
  <2> QED
    BY <2>1, GotoMovesTo
<1>4. ASSUME ReplyToResults(n) PROVE MovesTo(n, "answer")
  <2>1. Goto(n, "answer") /\ "answer" \in Places /\ turn[n].at = "second"
    BY <1>0, <1>4 DEF ReplyToResults, At, Places, PlaceOK
  <2> QED
    BY <2>1, GotoMovesTo
<1>5. ASSUME Prompt(n) PROVE MovesTo(n, "curl")
  <2>1. Goto(n, "curl") /\ "curl" \in Places /\ turn[n].at = "prompt"
        /\ turn[n].kind = "mcp" /\ turn[n].calls = 0
    BY <1>0, <1>5 DEF Prompt, At, Places, PlaceOK
  <2> QED
    BY <2>1, GotoMovesTo
<1>6. ASSUME ReplyToPrompt(n) PROVE MovesTo(n, "ask") \/ MovesTo(n, "tools")
  <2>1. /\ Goto(n, "ask") \/ Goto(n, "tools")
        /\ {"ask", "tools"} \subseteq Places
        /\ turn[n].at = "curl" /\ turn[n].kind = "mcp" /\ turn[n].calls = 0
    BY <1>0, <1>6 DEF ReplyToPrompt, At, Places, PlaceOK
  <2> QED
    BY <2>1, GotoMovesTo
<1>7. ASSUME ToolFails(n) PROVE MovesTo(n, "ask")
  <2>1. Goto(n, "ask") /\ "ask" \in Places /\ turn[n].at = "tools" /\ turn[n].calls = 0
    BY <1>0, <1>7 DEF ToolFails, At, Places, PlaceOK
  <2> QED
    BY <2>1, GotoMovesTo
<1>8. ASSUME PromptWithResult(n) PROVE MovesTo(n, "second")
  <2>1. Goto(n, "second") /\ "second" \in Places /\ turn[n].at = "tools" /\ turn[n].kind = "mcp"
    BY <1>0, <1>8 DEF PromptWithResult, At, Places, PlaceOK
  <2> QED
    BY <2>1, GotoMovesTo
<1>9. ASSUME ReplyToSecondPrompt(n) PROVE MovesTo(n, "ask")
  <2>1. Goto(n, "ask") /\ "ask" \in Places /\ turn[n].at = "second" /\ turn[n].calls = 0
    BY <1>0, <1>9 DEF ReplyToSecondPrompt, At, Places, PlaceOK
  <2> QED
    BY <2>1, GotoMovesTo
<1>10. ASSUME SendHeader(n) PROVE MovesTo(n, "stream")
  <2>1. Goto(n, "stream") /\ "stream" \in Places /\ turn[n].at = "header" /\ turn[n].kind = "stream"
    BY <1>0, <1>10 DEF SendHeader, At, Places, PlaceOK
  <2> QED
    BY <2>1, GotoMovesTo
<1>11. ASSUME Finish(n) PROVE MovesTo(n, "ended")
  <2>1. Goto(n, "ended") /\ "ended" \in Places /\ turn[n].at = "done"
    BY <1>0, <1>11 DEF Finish, At, Places, PlaceOK
  <2> QED
    BY <2>1, GotoMovesTo
<1> QED
  BY <1>1, <1>2, <1>3, <1>4, <1>5, <1>6, <1>7, <1>8, <1>9, <1>10, <1>11

LEMMA BeginEffect ==
  ASSUME IInv, NEW n \in Turns, NEW kind \in Kinds, NEW new \in BOOLEAN, Begin(n, kind, new)
  PROVE  /\ Moves(n)
         /\ turn[n].at = "idle" /\ turn'[n].at = Start(kind) /\ turn'[n].kind = kind
         /\ turn'[n].at \in {"ask", "prompt"} /\ \A m \in Turns \ {n} : turn'[m] = turn[m]
         /\ turn'[n].calls = 0 /\ turn[n].calls = 0
         /\ turn'[n].threw = "no" /\ turn[n].threw = "no"
<1> DEFINE r == [turn[n] EXCEPT !.at = Start(kind), !.kind = kind, !.new = new]
<1>0. turn[n] \in TurnSet /\ PlaceOK(turn[n]) /\ turn[n].at = "idle"
  BY TurnFacts DEF Begin, At
<1>1. turn \in [Turns -> TurnSet] /\ turn' = [turn EXCEPT ![n] = r]
  BY DEF IInv, TypeOK, Begin
<1>2. r \in TurnSet
  BY <1>0 DEF TurnSet, Places, Start
<1>3. r.at = Start(kind) /\ r.kind = kind /\ r.calls = turn[n].calls /\ r.threw = turn[n].threw
  BY <1>0 DEF TurnSet
<1>4. turn[n].calls = 0 /\ turn[n].threw = "no"
  BY <1>0 DEF PlaceOK
<1>5. PlaceOK(r)
  BY <1>0, <1>3, <1>4 DEF PlaceOK, Start
<1> QED
  BY <1>0, <1>1, <1>2, <1>3, <1>4, <1>5, MovesFacts DEF Moves, Start

(* An exception ends the turn.                                             *)
LEMMA FailsEffect ==
  ASSUME IInv, NEW n \in Turns, NEW why \in {"early", "curl", "publish"}, ~At(n, "idle"),
         Fails(n, why)
  PROVE  /\ Moves(n)
         /\ turn'[n].at = "ended" /\ turn'[n].kind = turn[n].kind /\ turn'[n].threw = why
         /\ turn'[n].calls = turn[n].calls
<1> DEFINE r == [turn[n] EXCEPT !.at = "ended", !.threw = why]
<1>0. turn[n] \in TurnSet /\ PlaceOK(turn[n])
  BY TurnFacts
<1>1. turn \in [Turns -> TurnSet] /\ turn' = [turn EXCEPT ![n] = r]
  BY DEF IInv, TypeOK, Fails
<1>2. r \in TurnSet
  BY <1>0 DEF TurnSet, Places
<1>3. r.at = "ended" /\ r.kind = turn[n].kind /\ r.calls = turn[n].calls /\ r.threw = why
  BY <1>0 DEF TurnSet
<1>4. PlaceOK(r)
  BY <1>0, <1>3 DEF PlaceOK, At
<1> QED
  BY <1>1, <1>2, <1>3, <1>4, MovesFacts

(* The steps that count calls, results and chunks.                         *)
LEMMA CallToolsEffect ==
  ASSUME IInv, NEW n \in Turns, CallTools(n)
  PROVE  /\ Moves(n)
         /\ turn'[n].at = "tools" /\ turn'[n].kind = "native" /\ turn[n].calls = 0
         /\ turn'[n].threw = turn[n].threw
<1>0. turn[n] \in TurnSet /\ PlaceOK(turn[n]) /\ turn[n].at = "curl" /\ turn[n].kind = "native"
  BY TurnFacts DEF CallTools, At
<1>1. PICK k \in 1..MaxCalls :
        turn' = [turn EXCEPT ![n].at = "tools", ![n].calls = k, ![n].left = k]
  BY DEF CallTools
<1> DEFINE r == [turn[n] EXCEPT !.at = "tools", !.calls = k, !.left = k]
<1>2. turn \in [Turns -> TurnSet] /\ turn' = [turn EXCEPT ![n] = r]
  BY <1>1 DEF IInv, TypeOK
<1>3. k \in 0..MaxCalls /\ k \in 0..(MaxCalls + MaxChunks) /\ k \in 1..k
  BY ConversationAssumption
<1>4. r \in TurnSet
  BY <1>0, <1>3 DEF TurnSet, Places
<1>5. /\ r.at = "tools" /\ r.kind = "native" /\ r.calls = k /\ r.left = k
      /\ r.threw = turn[n].threw
  BY <1>0 DEF TurnSet
<1>6. PlaceOK(r) /\ turn[n].calls = 0
  BY <1>0, <1>3, <1>5 DEF PlaceOK
<1> QED
  BY <1>2, <1>4, <1>5, <1>6, MovesFacts

LEMMA InvokeToolEffect ==
  ASSUME IInv, NEW n \in Turns, InvokeTool(n)
  PROVE  /\ turn[n].left \in 1..turn[n].calls
         /\ MovesTo(n, IF turn[n].left = 1 THEN "second" ELSE "tools")
<1> DEFINE l == IF turn[n].left = 1 THEN "second" ELSE "tools"
<1> DEFINE r == [turn[n] EXCEPT !.left = turn[n].left - 1, !.at = l]
<1>0. /\ turn[n] \in TurnSet /\ PlaceOK(turn[n])
      /\ turn[n].at = "tools" /\ turn[n].kind = "native"
  BY TurnFacts DEF InvokeTool, At
<1>1. turn \in [Turns -> TurnSet] /\ turn' = [turn EXCEPT ![n] = r]
  BY <1>0 DEF IInv, TypeOK, InvokeTool
<1>2. /\ turn[n].calls \in 0..MaxCalls /\ turn[n].left \in 1..turn[n].calls
      /\ turn[n].left - 1 \in 0..(MaxCalls + MaxChunks)
      /\ turn[n].left # 1 => turn[n].left - 1 \in 1..turn[n].calls
  BY <1>0, ConversationAssumption DEF PlaceOK, TurnSet
<1>3. r \in TurnSet
  BY <1>0, <1>2 DEF TurnSet, Places
<1>4. /\ r.at = l /\ r.kind = turn[n].kind /\ r.new = turn[n].new /\ r.calls = turn[n].calls
      /\ r.left = turn[n].left - 1 /\ r.threw = turn[n].threw
  BY <1>0 DEF TurnSet
<1>5. PlaceOK(r)
  BY <1>0, <1>2, <1>4 DEF PlaceOK
<1> QED
  BY <1>1, <1>2, <1>3, <1>4, <1>5, MovesFacts DEF MovesTo

LEMMA OnChunkEffect ==
  ASSUME IInv, NEW n \in Turns, OnChunk(n)
  PROVE  turn[n].at = "stream" /\ MovesTo(n, "stream")
<1> DEFINE r == [turn[n] EXCEPT !.left = turn[n].left + 1]
<1>0. turn[n] \in TurnSet /\ PlaceOK(turn[n]) /\ turn[n].at = "stream"
  BY TurnFacts DEF OnChunk, At
<1>1. turn \in [Turns -> TurnSet] /\ turn' = [turn EXCEPT ![n] = r]
  BY <1>0 DEF IInv, TypeOK, OnChunk
<1>2. turn[n].left + 1 \in 0..(MaxCalls + MaxChunks)
  BY <1>0, ConversationAssumption DEF OnChunk, TurnSet
<1>3. r \in TurnSet
  BY <1>0, <1>2 DEF TurnSet
<1>4. /\ r.at = turn[n].at /\ r.kind = turn[n].kind /\ r.new = turn[n].new
      /\ r.calls = turn[n].calls /\ r.threw = turn[n].threw
  BY <1>0 DEF TurnSet
<1>5. PlaceOK(r)
  BY <1>0, <1>4 DEF PlaceOK
<1> QED
  BY <1>0, <1>1, <1>3, <1>4, <1>5, MovesFacts DEF MovesTo

LEMMA StreamOverEffect ==
  ASSUME IInv, NEW n \in Turns, At(n, "stream"), StreamOver(n, "answer")
  PROVE  MovesTo(n, "answer")
<1> DEFINE r == [turn[n] EXCEPT !.at = "answer", !.left = 0]
<1>0. turn[n] \in TurnSet /\ PlaceOK(turn[n]) /\ turn[n].at = "stream"
  BY TurnFacts DEF At
<1>1. turn \in [Turns -> TurnSet] /\ turn' = [turn EXCEPT ![n] = r]
  BY <1>0 DEF IInv, TypeOK, StreamOver
<1>2. 0 \in 0..(MaxCalls + MaxChunks)
  BY ConversationAssumption
<1>3. r \in TurnSet
  BY <1>0, <1>2 DEF TurnSet, Places
<1>4. /\ r.at = "answer" /\ r.kind = turn[n].kind /\ r.new = turn[n].new
      /\ r.calls = turn[n].calls /\ r.threw = turn[n].threw
  BY <1>0 DEF TurnSet
<1>5. PlaceOK(r)
  BY <1>0, <1>4 DEF PlaceOK
<1> QED
  BY <1>1, <1>3, <1>4, <1>5, MovesFacts DEF MovesTo

LEMMA TerminateEffect ==
  ASSUME IInv, NEW n \in Turns, Terminate(n)
  PROVE  /\ turn' \in [Turns -> TurnSet] /\ PlaceInv'
         /\ \A m \in Turns : /\ turn'[m].at \in {"idle", "ended"}
                             /\ turn'[m].at = "idle" <=> turn[m].at = "idle"
                             /\ turn'[m].kind = turn[m].kind
         /\ turn'[n].threw = "publish"
         /\ gone \subseteq gone' /\ n \in gone'
<1> DEFINE r(m) == [turn[m] EXCEPT !.at = "ended", !.threw = "publish"]
<1>1. /\ turn' = [m \in Turns |-> IF Running(m) THEN r(m) ELSE turn[m]]
      /\ gone' = gone \cup {m \in Turns : Running(m) \/ functors[m] # <<>>}
      /\ Running(n)
  BY DEF Terminate, Running, At
<1>2. ASSUME NEW m \in Turns
      PROVE  /\ turn'[m] \in TurnSet /\ PlaceOK(turn'[m])
             /\ turn'[m].at \in {"idle", "ended"}
             /\ turn'[m].at = "idle" <=> turn[m].at = "idle"
             /\ turn'[m].kind = turn[m].kind
             /\ m = n => turn'[m].threw = "publish"
  <2>0. turn[m] \in TurnSet /\ PlaceOK(turn[m])
    BY TurnFacts
  <2>1. CASE Running(m)
    <3>1. /\ turn'[m] = r(m) /\ r(m) \in TurnSet
          /\ r(m).at = "ended" /\ r(m).kind = turn[m].kind /\ r(m).calls = turn[m].calls
          /\ r(m).threw = "publish"
      BY <1>1, <2>0, <2>1 DEF TurnSet, Places
    <3>2. PlaceOK(r(m))
      BY <2>0, <2>1, <3>1 DEF PlaceOK, Running
    <3> QED
      BY <2>1, <3>1, <3>2 DEF Running
  <2>2. CASE ~Running(m)
    BY <1>1, <2>0, <2>2 DEF Running
  <2> QED
    BY <2>1, <2>2
<1>3. turn' \in [Turns -> TurnSet]
  BY <1>1, <1>2
<1> QED
  BY <1>1, <1>2, <1>3 DEF PlaceInv

-----------------------------------------------------------------------------
(* Messages and frames                                                     *)

Message == [role : Roles, turn : Turns]
Row == [role : {"user", "assistant"}, turn : Turns]

LEMMA PushTyped ==
  ASSUME TypeOK, NEW n \in Turns, NEW role \in Roles, Push(n, role)
  PROVE  messages' \in Seq(Message)
<1>1. messages \in Seq(Message) /\ [role |-> role, turn |-> n] \in Message
  BY DEF TypeOK, Message
<1> QED
  BY <1>1, AppendProperties DEF Push

LEMMA WithoutTyped ==
  ASSUME TypeOK, NEW k \in Nat
  PROVE  /\ Without(k) \in Seq(Message)
         /\ Len(Without(k)) = IF k < Len(messages) THEN Len(messages) - k ELSE 0
         /\ \A i \in 1..(Len(messages) - k) : Without(k)[i] = messages[i]
<1>1. messages \in Seq(Message) /\ Len(messages) \in Nat
  BY LenProperties DEF TypeOK, Message
<1>2. \A i \in 1..(Len(messages) - k) : messages[i] \in Message
  BY <1>1, ElementOfSeq
<1>3. /\ Without(k) \in Seq(Message)
      /\ Len(Without(k)) = IF 1 <= Len(messages) - k THEN Len(messages) - k - 1 + 1 ELSE 0
      /\ \A i \in 1..(Len(messages) - k - 1 + 1) : Without(k)[i] = messages[1 + i - 1]
  BY <1>1, <1>2, SubSeqProperties DEF Without
<1>4. ASSUME NEW i \in 1..(Len(messages) - k) PROVE Without(k)[i] = messages[i]
  BY <1>1, <1>3
<1> QED
  BY <1>1, <1>3, <1>4

(* What was published stays.                                               *)
LEMMA PublishedGrows ==
  ASSUME TypeOK, NEW n \in Turns, NEW role \in {"user", "assistant"},
         published' = Append(published, [role |-> role, turn |-> n])
  PROVE  /\ published' \in Seq(Row)
         /\ \A e : Contains(published, e) => Contains(published', e)
         /\ Contains(published', [role |-> role, turn |-> n])
<1> DEFINE e == [role |-> role, turn |-> n]
<1>1. published \in Seq(Row) /\ e \in Row /\ Len(published) \in Nat
  BY LenProperties DEF TypeOK, Row
<1>2. /\ published' \in Seq(Row) /\ Len(published') = Len(published) + 1
      /\ \A i \in 1..Len(published) : published'[i] = published[i]
      /\ published'[Len(published) + 1] = e
  BY <1>1, AppendProperties
<1>3. Len(published) + 1 \in 1..Len(published')
  BY <1>1, <1>2
<1>4. \A i \in 1..Len(published) : i \in 1..Len(published')
  BY <1>1, <1>2
<1> QED
  BY <1>2, <1>3, <1>4 DEF Contains

(* Posting and sending change the frames of one turn.                      *)
LEMMA PostEffect ==
  ASSUME TypeOK, NEW n \in Turns, NEW frames \in Seq(Frames), Post(n, frames)
  PROVE  /\ functors' \in [Turns -> Seq(Frames)]
         /\ functors'[n] = functors[n] \o frames
         /\ \A m \in Turns \ {n} : functors'[m] = functors[m]
<1>1. functors \in [Turns -> Seq(Frames)]
  BY DEF TypeOK
<1>2. functors[n] \o frames \in Seq(Frames)
  BY <1>1, ConcatProperties
<1> QED
  BY <1>1, <1>2 DEF Post

LEMMA SentEffect ==
  ASSUME TypeOK, NEW n \in Turns, NEW frames \in Seq(Frames), wire' = Sent(n, frames)
  PROVE  /\ wire' \in [Turns -> Seq(Frames)]
         /\ \/ wire'[n] = wire[n] /\ (n \in gone \/ Contains(wire[n], "shutdown"))
            \/ wire'[n] = wire[n] \o frames /\ n \notin gone /\ ~Contains(wire[n], "shutdown")
         /\ \A m \in Turns \ {n} : wire'[m] = wire[m]
<1>1. wire \in [Turns -> Seq(Frames)]
  BY DEF TypeOK
<1>2. wire[n] \o frames \in Seq(Frames)
  BY <1>1, ConcatProperties
<1>3. CASE n \in gone \/ Contains(wire[n], "shutdown")
  BY <1>1, <1>3 DEF Sent
<1>4. CASE ~(n \in gone \/ Contains(wire[n], "shutdown"))
  <2>1. wire' = [wire EXCEPT ![n] = wire[n] \o frames]
    BY <1>4 DEF Sent
  <2> QED
    BY <1>1, <1>2, <1>4, <2>1
<1> QED
  BY <1>3, <1>4

LEMMA FramesTyped ==
  /\ \A n \in Turns : Preamble(n) \in Seq(Frames)
  /\ Ending \in Seq(Frames) /\ <<"data">> \in Seq(Frames)
<1>1. <<"header">> \in Seq(Frames) /\ <<"sessionId">> \in Seq(Frames) /\ <<>> \in Seq(Frames)
  BY DEF Frames
<1>2. ASSUME NEW n \in Turns PROVE Preamble(n) \in Seq(Frames)
  BY <1>1, ConcatProperties DEF Preamble
<1> QED
  BY <1>2 DEF Ending, Frames

LEMMA RunFunctorEffect ==
  ASSUME TypeOK, NEW n \in Turns, RunFunctor(n)
  PROVE  /\ functors[n] # <<>> /\ <<Head(functors[n])>> \in Seq(Frames)
         /\ functors' \in [Turns -> Seq(Frames)]
         /\ functors'[n] = Tail(functors[n])
         /\ \A m \in Turns \ {n} : functors'[m] = functors[m]
<1>1. functors \in [Turns -> Seq(Frames)] /\ functors[n] # <<>>
  BY DEF TypeOK, RunFunctor
<1>2. Head(functors[n]) \in Frames /\ Tail(functors[n]) \in Seq(Frames)
  BY <1>1, HeadTailProperties
<1> QED
  BY <1>1, <1>2 DEF RunFunctor

-----------------------------------------------------------------------------
(* Types                                                                   *)

LEMMA InitIInv == Init => IInv
<1> SUFFICES ASSUME Init PROVE IInv
  OBVIOUS
<1>1. Silent \in TurnSet /\ PlaceOK(Silent)
  BY ConversationAssumption DEF Silent, TurnSet, Places, PlaceOK
<1>2. <<>> \in Seq(Frames) /\ <<>> \in Seq(Message) /\ <<>> \in Seq(Row)
  OBVIOUS
<1>3. turn \in [Turns -> TurnSet] /\ PlaceInv
  BY <1>1 DEF Init, PlaceInv
<1>4. wire \in [Turns -> Seq(Frames)] /\ functors \in [Turns -> Seq(Frames)]
  BY <1>2 DEF Init
<1>5. messages \in Seq(Message) /\ published \in Seq(Row)
  BY <1>2 DEF Init
<1>6. /\ strategy \in {0} \cup Turns /\ gone \subseteq Turns /\ overlapped \in BOOLEAN
      /\ faults \in 0..MaxFaults
  <2>1. strategy = 0 /\ gone = {} /\ overlapped = FALSE /\ faults = 0
    BY DEF Init
  <2>2. MaxFaults \in Nat
    BY ConversationAssumption
  <2>3. 0 \in 0..MaxFaults
    BY <2>2
  <2>4. overlapped \in BOOLEAN
    BY <2>1, Zenon
  <2> QED
    BY <2>1, <2>3, <2>4
<1> QED
  BY <1>3, <1>4, <1>5, <1>6 DEF IInv, TypeOK, Message, Row

(* What a step of turn n must not break besides.                           *)
RestTyped ==
  /\ messages' \in Seq(Message) /\ published' \in Seq(Row)
  /\ wire' \in [Turns -> Seq(Frames)] /\ functors' \in [Turns -> Seq(Frames)]
  /\ strategy' \in {0} \cup Turns
  /\ gone' \subseteq Turns /\ overlapped' \in BOOLEAN /\ faults' \in 0..MaxFaults

LEMMA MovesTyped ==
  ASSUME IInv, NEW n \in Turns, Moves(n), RestTyped
  PROVE  IInv'
  BY DEF IInv, TypeOK, PlaceInv, Moves, RestTyped, Message, Row

LEMMA NextIInv == IInv /\ [Next]_vars => IInv'
<1> SUFFICES ASSUME IInv, [Next]_vars PROVE IInv'
  OBVIOUS
<1>0. /\ TypeOK
      /\ messages \in Seq(Message) /\ published \in Seq(Row)
      /\ wire \in [Turns -> Seq(Frames)] /\ functors \in [Turns -> Seq(Frames)]
      /\ strategy \in {0} \cup Turns
      /\ gone \subseteq Turns /\ overlapped \in BOOLEAN
      /\ faults \in 0..MaxFaults /\ (faults < MaxFaults => faults + 1 \in 0..MaxFaults)
      /\ {"user", "assistant", "call", "tool", "prompt"} \subseteq Roles
  BY ConversationAssumption DEF IInv, TypeOK, Message, Row, Roles
<1>1. ASSUME NEW n \in Turns, NEW kind \in Kinds, NEW new \in BOOLEAN, Begin(n, kind, new)
      PROVE  IInv'
  <2>1. RestTyped
    BY <1>0, <1>1 DEF RestTyped, Begin, streams
  <2> QED
    BY <1>1, <2>1, BeginEffect, MovesTyped
<1>2. ASSUME NEW n \in Turns, Leave(n) PROVE IInv'
  BY <1>0, <1>2 DEF IInv, TypeOK, PlaceInv, PlaceOK, Leave, streams
<1>3. ASSUME NEW n \in Turns, Ask(n) PROVE IInv'
  <2>1. messages' \in Seq(Message) /\ published' \in Seq(Row) /\ strategy' \in {0} \cup Turns
    BY <1>0, <1>3, PushTyped, PublishedGrows DEF Ask, AddMessage, SetStrategy
  <2>2. RestTyped
    BY <1>0, <1>3, <2>1 DEF RestTyped, Ask, streams
  <2> QED
    BY <1>3, <2>2, GotoMoves, MovesTyped DEF MovesTo
<1>4. ASSUME NEW n \in Turns, Answer(n) PROVE IInv'
  <2>1. messages' \in Seq(Message) /\ published' \in Seq(Row)
    BY <1>0, <1>4, PushTyped, PublishedGrows DEF Answer, AddMessage
  <2>2. RestTyped
    BY <1>0, <1>4, <2>1 DEF RestTyped, Answer, streams, others
  <2> QED
    BY <1>4, <2>2, GotoMoves, MovesTyped DEF MovesTo
<1>5. ASSUME NEW n \in Turns,
             \/ Reply(n) \/ ReplyToResults(n) \/ ReplyToPrompt(n)
             \/ ToolFails(n) \/ ReplyToSecondPrompt(n)
      PROVE  IInv'
  <2>1. messages' \in Seq(Message)
    BY <1>0, <1>5, WithoutTyped
    DEF Reply, ReplyToResults, ReplyToPrompt, ToolFails, ReplyToSecondPrompt, Cleanup
  <2>2. RestTyped
    BY <1>0, <1>5, <2>1
    DEF RestTyped, Reply, ReplyToResults, ReplyToPrompt, ToolFails, ReplyToSecondPrompt,
        streams, others
  <2>3. Moves(n)
    BY <1>5, GotoMoves DEF MovesTo
  <2> QED
    BY <2>2, <2>3, MovesTyped
<1>6. ASSUME NEW n \in Turns, CallTools(n) \/ InvokeTool(n) \/ PromptWithResult(n)
      PROVE  IInv'
  <2>1. messages' \in Seq(Message)
    BY <1>0, <1>6, PushTyped DEF CallTools, InvokeTool, PromptWithResult
  <2>2. RestTyped
    BY <1>0, <1>6, <2>1 DEF RestTyped, CallTools, InvokeTool, PromptWithResult, streams, others
  <2>3. Moves(n)
    BY <1>6, GotoMoves, CallToolsEffect, InvokeToolEffect DEF MovesTo
  <2> QED
    BY <2>2, <2>3, MovesTyped
<1>7. ASSUME NEW n \in Turns, Prompt(n) PROVE IInv'
  <2>1. messages' \in Seq(Message) /\ strategy' \in {0} \cup Turns
    BY <1>0, <1>7, PushTyped DEF Prompt, SetStrategy
  <2>2. RestTyped
    BY <1>0, <1>7, <2>1 DEF RestTyped, Prompt, streams
  <2> QED
    BY <1>7, <2>2, GotoMoves, MovesTyped DEF MovesTo
<1>8. ASSUME NEW n \in Turns, SendHeader(n) PROVE IInv'
  <2>1. wire' \in [Turns -> Seq(Frames)]
    BY <1>0, <1>8, FramesTyped, SentEffect DEF SendHeader
  <2>2. RestTyped
    BY <1>0, <1>8, <2>1 DEF RestTyped, SendHeader, others
  <2> QED
    BY <1>8, <2>2, GotoMoves, MovesTyped DEF MovesTo
<1>9. ASSUME NEW n \in Turns, OnChunk(n) \/ Finish(n) \/ StreamThrows(n) PROVE IInv'
  <2>1. functors' \in [Turns -> Seq(Frames)]
    BY <1>0, <1>9, FramesTyped, PostEffect DEF OnChunk, Finish, StreamThrows
  <2>2. RestTyped
    BY <1>0, <1>9, <2>1 DEF RestTyped, OnChunk, Finish, StreamThrows, others
  <2>3. Moves(n)
    BY <1>9, GotoMoves, OnChunkEffect, StreamOverEffect DEF MovesTo, StreamThrows
  <2> QED
    BY <2>2, <2>3, MovesTyped
<1>10. ASSUME NEW n \in Turns, StreamReturns(n) PROVE IInv'
  <2>1. RestTyped
    BY <1>0, <1>10 DEF RestTyped, StreamReturns, streams, others
  <2>2. Moves(n)
    BY <1>10, StreamOverEffect DEF MovesTo, StreamReturns
  <2> QED
    BY <2>1, <2>2, MovesTyped
<1>11. ASSUME NEW n \in Turns, RunFunctor(n) PROVE IInv'
  <2>1. wire' \in [Turns -> Seq(Frames)] /\ functors' \in [Turns -> Seq(Frames)]
    BY <1>0, <1>11, RunFunctorEffect, SentEffect DEF RunFunctor
  <2> QED
    BY <1>0, <1>11, <2>1 DEF IInv, TypeOK, PlaceInv, PlaceOK, RunFunctor, others
<1>12. ASSUME NEW n \in Turns, Refused(n) \/ CurlThrows(n) PROVE IInv'
  <2>1. RestTyped
    BY <1>0, <1>12 DEF RestTyped, Refused, CurlThrows, streams, others
  <2>2. Moves(n)
    BY <1>12, FailsEffect DEF Refused, CurlThrows, At, Start
  <2> QED
    BY <2>1, <2>2, MovesTyped
<1>13. ASSUME NEW n \in Turns, AskThrows(n) \/ AnswerThrows(n) PROVE IInv'
  <2>1. messages' \in Seq(Message)
    BY <1>0, <1>13, PushTyped DEF AskThrows, AnswerThrows, AddMessageThrows
  <2>2. RestTyped
    BY <1>0, <1>13, <2>1
    DEF RestTyped, AskThrows, AnswerThrows, AddMessageThrows, SetStrategy, streams, others
  <2>3. Moves(n)
    BY <1>13, FailsEffect DEF AskThrows, AnswerThrows, At
  <2> QED
    BY <2>2, <2>3, MovesTyped
<1>14. ASSUME NEW n \in Turns, Terminate(n) PROVE IInv'
  <2>0. Row \subseteq Message /\ <<>> \in Seq(Frames)
    BY DEF Row, Message, Roles
  <2>1. messages' \in Seq(Message)
    BY <1>0, <1>14, <2>0, SeqMonotonic DEF Terminate
  <2>2. functors' \in [Turns -> Seq(Frames)] /\ gone' \subseteq Turns
    BY <1>0, <1>14, <2>0 DEF Terminate
  <2>3. RestTyped
    BY <1>0, <1>14, <2>1, <2>2 DEF RestTyped, Terminate
  <2> QED
    BY <1>14, <2>3, TerminateEffect DEF IInv, TypeOK, RestTyped, Message, Row
<1>15. CASE UNCHANGED vars
  BY <1>15 DEF vars, streams, IInv, TypeOK, PlaceInv, PlaceOK
<1> QED
  BY <1>1, <1>2, <1>3, <1>4, <1>5, <1>6, <1>7, <1>8, <1>9, <1>10, <1>11, <1>12, <1>13, <1>14, <1>15
  DEF Next, TurnStep

(* The messages, turns and frames are what they should be.                 *)
THEOREM TypeCorrect == Spec => []TypeOK
<1>1. IInv => TypeOK
  BY DEF IInv
<1> QED
  BY <1>1, InitIInv, NextIInv, PTL DEF Spec

-----------------------------------------------------------------------------
(* The work on a turn                                                      *)

Ans(n) == [role |-> "assistant", turn |-> n]
StreamPlaces == {"stream", "answer", "done"}

(* A step of the thread that runs turn n.                                  *)
Works(n) ==
  /\ Moves(n) /\ gone' = gone /\ overlapped' = overlapped
  /\ Running(n) /\ turn'[n].at # "idle" /\ turn'[n].kind = turn[n].kind
  /\ \A e : Contains(published, e) => Contains(published', e)
  /\ turn'[n].at = "done" => Contains(published', Ans(n))
  /\ strategy' \in {strategy, n}
  /\ UsesStrategy(n)' => \/ strategy' = n
                         \/ UsesStrategy(n) /\ strategy' = strategy

(* It sends nothing, and stays in the stream or out of it.                 *)
Calm(n) ==
  /\ wire' = wire /\ functors' = functors
  /\ turn[n].kind = "stream" => (turn[n].at \in StreamPlaces <=> turn'[n].at \in StreamPlaces)

LEMMA AskWorks ==
  ASSUME IInv, NEW n \in Turns, Ask(n)
  PROVE  Works(n) /\ Calm(n)
<1>0. /\ turn[n].at = "ask" /\ turn[n].kind \in AllKinds
      /\ MovesTo(n, AfterQuestion(turn[n].kind))
  BY GotoMoves, TurnFacts, ConversationAssumption DEF Ask, At, PlaceOK
<1>1. /\ AfterQuestion(turn[n].kind) \in {"answer", "curl", "header"}
      /\ turn[n].kind = "mcp" => AfterQuestion(turn[n].kind) = "answer"
      /\ turn[n].kind = "stream" => AfterQuestion(turn[n].kind) = "header"
  BY <1>0 DEF AllKinds, AfterQuestion
<1>2. \A e : Contains(published, e) => Contains(published', e)
  BY PublishedGrows DEF Ask, AddMessage, IInv
<1>3. strategy' \in {strategy, n} /\ (turn[n].kind # "mcp" => strategy' = n)
  BY <1>0 DEF Ask, SetStrategy, Start
<1> QED
  BY <1>0, <1>1, <1>2, <1>3
  DEF Ask, Works, Calm, MovesTo, Running, UsesStrategy, At, StreamPlaces, streams

LEMMA AnswerWorks ==
  ASSUME IInv, NEW n \in Turns, Answer(n)
  PROVE  Works(n) /\ Calm(n)
<1>0. /\ turn[n].at = "answer"
      /\ MovesTo(n, IF turn[n].kind = "stream" THEN "done" ELSE "ended")
  BY GotoMoves DEF Answer, At
<1>1. /\ \A e : Contains(published, e) => Contains(published', e)
      /\ Contains(published', Ans(n))
  BY PublishedGrows DEF Answer, AddMessage, IInv, Ans
<1> QED
  BY <1>0, <1>1
  DEF Answer, Works, Calm, MovesTo, Running, UsesStrategy, At, StreamPlaces, streams, others

(* The steps of a turn that is not a stream, behind its question.          *)
LEMMA ChatWorks ==
  ASSUME IInv, NEW n \in Turns,
         \/ Reply(n) \/ CallTools(n) \/ InvokeTool(n) \/ ReplyToResults(n)
         \/ Prompt(n) \/ ReplyToPrompt(n) \/ ToolFails(n) \/ PromptWithResult(n)
         \/ ReplyToSecondPrompt(n)
  PROVE  Works(n) /\ Calm(n)
<1>0. /\ Moves(n) /\ turn'[n].at \in {"answer", "tools", "second", "curl", "ask"}
      /\ turn'[n].kind = turn[n].kind
  BY GotoMoves, CallToolsEffect, InvokeToolEffect DEF MovesTo, CallTools
<1>1. /\ turn[n].at \in {"curl", "tools", "second", "prompt"} /\ turn[n].kind # "stream"
      /\ published' = published /\ wire' = wire /\ functors' = functors /\ gone' = gone
      /\ overlapped' = overlapped
  BY DEF Reply, CallTools, InvokeTool, ReplyToResults, Prompt, ReplyToPrompt, ToolFails,
         PromptWithResult, ReplyToSecondPrompt, At, streams, others, IInv, PlaceInv, PlaceOK
<1>2. \/ strategy' = strategy /\ turn[n].at # "prompt"
      \/ strategy' = n
  <2>1. CASE Prompt(n)
    BY <2>1, TurnFacts DEF Prompt, SetStrategy, Start, At, PlaceOK
  <2>2. CASE ~Prompt(n)
    BY <2>2 DEF Reply, CallTools, InvokeTool, ReplyToResults, ReplyToPrompt, ToolFails,
                PromptWithResult, ReplyToSecondPrompt, At, others
  <2> QED
    BY <2>1, <2>2
<1> QED
  BY <1>0, <1>1, <1>2 DEF Works, Calm, Running, UsesStrategy, At

LEMMA StreamReturnsWorks ==
  ASSUME IInv, NEW n \in Turns, StreamReturns(n)
  PROVE  Works(n) /\ Calm(n)
<1>0. turn[n].at = "stream" /\ MovesTo(n, "answer")
  BY StreamOverEffect DEF StreamReturns, At
<1> QED
  BY <1>0
  DEF StreamReturns, Works, Calm, MovesTo, Running, UsesStrategy, At, StreamPlaces, streams, others

LEMMA ThrowWorks ==
  ASSUME IInv, NEW n \in Turns, Refused(n) \/ CurlThrows(n) \/ AskThrows(n) \/ AnswerThrows(n)
  PROVE  Works(n) /\ Calm(n)
<1>0. /\ turn[n].at \in {"ask", "prompt", "curl", "tools", "second", "answer"}
      /\ turn[n].at = "answer" => turn[n].kind # "stream"
      /\ Moves(n) /\ turn'[n].at = "ended" /\ turn'[n].kind = turn[n].kind
  BY FailsEffect DEF Refused, CurlThrows, AskThrows, AnswerThrows, At, Start
<1>1. strategy' \in {strategy, n} /\ published' = published
  BY DEF Refused, CurlThrows, AskThrows, AnswerThrows, AddMessageThrows, SetStrategy, others
<1> QED
  BY <1>0, <1>1
  DEF Refused, CurlThrows, AskThrows, AnswerThrows, Works, Calm, Running, UsesStrategy, At,
      StreamPlaces, streams, others

(* The steps that send.                                                    *)
LEMMA SendWorks ==
  ASSUME IInv, NEW n \in Turns, SendHeader(n) \/ OnChunk(n) \/ StreamThrows(n) \/ Finish(n)
  PROVE  Works(n)
<1>0. /\ turn[n].at \in {"header", "stream", "done"} /\ Moves(n)
      /\ turn'[n].at \in {"stream", "answer", "ended"} /\ turn'[n].kind = turn[n].kind
      /\ turn[n].at = "done" => turn'[n].at = "ended"
  BY GotoMoves, OnChunkEffect, StreamOverEffect
  DEF SendHeader, OnChunk, StreamThrows, Finish, At, MovesTo
<1>1. strategy' = strategy /\ published' = published /\ gone' = gone /\ overlapped' = overlapped
  BY DEF SendHeader, OnChunk, StreamThrows, Finish, others
<1> QED
  BY <1>0, <1>1 DEF Works, Running, UsesStrategy, At

-----------------------------------------------------------------------------
(* Who takes a step: a page, the loop, or the thread of a turn.            *)
LEMMA StepCases ==
  ASSUME IInv, [Next]_vars
  PROVE  \/ UNCHANGED vars
         \/ \E n \in Turns :
              \/ \E kind \in Kinds, new \in BOOLEAN : Begin(n, kind, new)
              \/ Leave(n) \/ RunFunctor(n) \/ Terminate(n)
              \/ Works(n) /\ Calm(n)
              \/ Works(n) /\ (SendHeader(n) \/ OnChunk(n) \/ StreamThrows(n) \/ Finish(n))
<1> SUFFICES ASSUME Next
             PROVE  \E n \in Turns :
                      \/ \E kind \in Kinds, new \in BOOLEAN : Begin(n, kind, new)
                      \/ Leave(n) \/ RunFunctor(n) \/ Terminate(n)
                      \/ Works(n) /\ Calm(n)
                      \/ Works(n) /\ (SendHeader(n) \/ OnChunk(n) \/ StreamThrows(n) \/ Finish(n))
  OBVIOUS
<1>1. PICK n \in Turns :
        \/ (\E kind \in Kinds, new \in BOOLEAN : Begin(n, kind, new)) \/ Leave(n)
        \/ TurnStep(n) \/ RunFunctor(n)
        \/ Refused(n) \/ CurlThrows(n) \/ AskThrows(n) \/ AnswerThrows(n)
        \/ StreamThrows(n) \/ Terminate(n)
  BY DEF Next
<1>2. ASSUME TurnStep(n)
      PROVE  \/ Works(n) /\ Calm(n)
             \/ Works(n) /\ (SendHeader(n) \/ OnChunk(n) \/ StreamThrows(n) \/ Finish(n))
  BY <1>2, AskWorks, AnswerWorks, ChatWorks, StreamReturnsWorks, SendWorks DEF TurnStep
<1>3. ASSUME Refused(n) \/ CurlThrows(n) \/ AskThrows(n) \/ AnswerThrows(n)
      PROVE  Works(n) /\ Calm(n)
  BY <1>3, ThrowWorks
<1>4. StreamThrows(n) => Works(n)
  BY SendWorks
<1> QED
  BY <1>1, <1>2, <1>3, <1>4

-----------------------------------------------------------------------------
(* Sequences of frames                                                     *)

LEMMA ConcatContains ==
  ASSUME NEW s \in Seq(Frames), NEW u \in Seq(Frames), NEW e
  PROVE  Contains(s \o u, e) <=> Contains(s, e) \/ Contains(u, e)
<1>0. /\ Len(s) \in Nat /\ Len(u) \in Nat
      /\ Len(s \o u) = Len(s) + Len(u)
      /\ \A i \in 1..(Len(s) + Len(u)) : (s \o u)[i] = IF i <= Len(s) THEN s[i] ELSE u[i - Len(s)]
  BY ConcatProperties, LenProperties
<1>1. ASSUME Contains(s \o u, e) PROVE Contains(s, e) \/ Contains(u, e)
  <2>1. PICK i \in 1..(Len(s) + Len(u)) : (s \o u)[i] = e
    BY <1>0, <1>1 DEF Contains
  <2>2. CASE i <= Len(s)
    <3>1. i \in 1..Len(s) /\ s[i] = e
      BY <1>0, <2>1, <2>2
    <3> QED
      BY <3>1 DEF Contains
  <2>3. CASE ~(i <= Len(s))
    <3>1. i - Len(s) \in 1..Len(u) /\ u[i - Len(s)] = e
      BY <1>0, <2>1, <2>3
    <3> QED
      BY <3>1 DEF Contains
  <2> QED
    BY <2>2, <2>3
<1>2. ASSUME Contains(s, e) PROVE Contains(s \o u, e)
  <2>1. PICK i \in 1..Len(s) : s[i] = e
    BY <1>2 DEF Contains
  <2>2. i \in 1..(Len(s) + Len(u)) /\ (s \o u)[i] = e
    BY <1>0, <2>1
  <2> QED
    BY <1>0, <2>2 DEF Contains
<1>3. ASSUME Contains(u, e) PROVE Contains(s \o u, e)
  <2>1. PICK i \in 1..Len(u) : u[i] = e
    BY <1>3 DEF Contains
  <2>2. /\ i + Len(s) \in 1..(Len(s) + Len(u)) /\ ~(i + Len(s) <= Len(s))
        /\ i + Len(s) - Len(s) = i
    BY <1>0, <2>1
  <2>3. (s \o u)[i + Len(s)] = e
    BY <1>0, <2>1, <2>2
  <2> QED
    BY <1>0, <2>2, <2>3 DEF Contains
<1> QED
  BY <1>1, <1>2, <1>3

LEMMA TailContains ==
  ASSUME NEW s \in Seq(Frames), s # <<>>, NEW e
  PROVE  /\ Head(s) \in Frames
         /\ Contains(s, e) <=> e = Head(s) \/ Contains(Tail(s), e)
<1>0. /\ Len(s) \in Nat \ {0} /\ Head(s) = s[1] /\ Head(s) \in Frames
      /\ Len(Tail(s)) = Len(s) - 1
      /\ \A i \in 1..(Len(s) - 1) : Tail(s)[i] = s[i + 1]
  BY HeadTailProperties, EmptySeq, LenProperties
<1>1. ASSUME Contains(s, e) PROVE e = Head(s) \/ Contains(Tail(s), e)
  <2>1. PICK i \in 1..Len(s) : s[i] = e
    BY <1>1 DEF Contains
  <2>2. CASE i # 1
    <3>1. i - 1 \in 1..(Len(s) - 1) /\ i - 1 + 1 = i
      BY <1>0, <2>1, <2>2
    <3>2. Tail(s)[i - 1] = e
      BY <1>0, <2>1, <3>1
    <3> QED
      BY <1>0, <3>1, <3>2 DEF Contains
  <2> QED
    BY <1>0, <2>1, <2>2
<1>2. ASSUME Contains(Tail(s), e) PROVE Contains(s, e)
  <2>1. PICK i \in 1..(Len(s) - 1) : Tail(s)[i] = e
    BY <1>0, <1>2 DEF Contains
  <2>2. i + 1 \in 1..Len(s) /\ s[i + 1] = e
    BY <1>0, <2>1
  <2> QED
    BY <2>2 DEF Contains
<1>3. Contains(s, Head(s))
  <2>1. 1 \in 1..Len(s) /\ s[1] = Head(s)
    BY <1>0
  <2> QED
    BY <2>1 DEF Contains
<1> QED
  BY <1>0, <1>1, <1>2, <1>3

LEMMA LiteralContains ==
  ASSUME NEW e
  PROVE  /\ ~Contains(<<>>, e)
         /\ Contains(<<"data">>, e) <=> e = "data"
         /\ Contains(Ending, e) <=> e \in {"done", "shutdown"}
         /\ Contains(<<"header">>, e) <=> e = "header"
         /\ Contains(<<"sessionId">>, e) <=> e = "sessionId"
         /\ \A f : Contains(<<f>>, e) <=> e = f
<1>1. 1 \in 1..2 /\ 2 \in 1..2 /\ \A i \in 1..2 : i = 1 \/ i = 2
  OBVIOUS
<1>2. \A i \in 1..1 : i = 1
  OBVIOUS
<1>3. ~Contains(<<>>, e)
  BY DEF Contains
<1>4. \A f : Contains(<<f>>, e) <=> e = f
  BY <1>2 DEF Contains
<1>5. Contains(Ending, e) <=> e \in {"done", "shutdown"}
  BY <1>1 DEF Contains, Ending
<1> QED
  BY <1>3, <1>4, <1>5

(* What the steps that send put where.                                     *)
LEMMA PostContains ==
  ASSUME TypeOK, NEW n \in Turns, NEW frames \in Seq(Frames), Post(n, frames), NEW e
  PROVE  Contains(functors'[n], e) <=> Contains(functors[n], e) \/ Contains(frames, e)
<1>1. functors[n] \in Seq(Frames) /\ functors'[n] = functors[n] \o frames
  BY PostEffect DEF TypeOK
<1>2. Contains(functors[n] \o frames, e) <=> Contains(functors[n], e) \/ Contains(frames, e)
  BY <1>1, ConcatContains
<1> QED
  BY <1>1, <1>2

LEMMA SentContains ==
  ASSUME TypeOK, NEW n \in Turns, NEW frames \in Seq(Frames), wire' = Sent(n, frames), NEW e
  PROVE  /\ Contains(wire[n], e) => Contains(wire'[n], e)
         /\ Contains(wire'[n], e) => Contains(wire[n], e) \/ Contains(frames, e)
         /\ n \notin gone /\ ~Contains(wire[n], "shutdown") /\ Contains(frames, e)
              => Contains(wire'[n], e)
<1>1. wire[n] \in Seq(Frames)
  BY DEF TypeOK
<1>2. Contains(wire[n] \o frames, e) <=> Contains(wire[n], e) \/ Contains(frames, e)
  BY <1>1, ConcatContains
<1>3. CASE wire'[n] = wire[n] /\ (n \in gone \/ Contains(wire[n], "shutdown"))
  BY <1>3
<1>4. CASE wire'[n] = wire[n] \o frames
  BY <1>2, <1>4
<1> QED
  BY <1>3, <1>4, SentEffect

LEMMA PreambleContains ==
  ASSUME NEW n \in Turns, NEW e
  PROVE  Contains(Preamble(n), e) <=> e = "header" \/ (turn[n].new /\ e = "sessionId")
<1> DEFINE s == IF turn[n].new THEN <<"sessionId">> ELSE <<>>
<1>0. <<"header">> \in Seq(Frames) /\ <<"sessionId">> \in Seq(Frames) /\ <<>> \in Seq(Frames)
  BY DEF Frames
<1>1. <<"header">> \in Seq(Frames) /\ s \in Seq(Frames)
  BY <1>0
<1>2. Contains(Preamble(n), e) <=> Contains(<<"header">>, e) \/ Contains(s, e)
  BY <1>1, ConcatContains DEF Preamble
<1>3. Contains(s, e) <=> turn[n].new /\ e = "sessionId"
  <2>1. CASE turn[n].new
    BY <2>1, LiteralContains
  <2>2. CASE ~turn[n].new
    BY <2>2, LiteralContains
  <2> QED
    BY <2>1, <2>2
<1> QED
  BY <1>2, <1>3, LiteralContains

LEMMA RunFunctorContains ==
  ASSUME TypeOK, NEW n \in Turns, RunFunctor(n), NEW e
  PROVE  /\ Contains(functors[n], e) <=> e = Head(functors[n]) \/ Contains(functors'[n], e)
         /\ Contains(wire[n], e) => Contains(wire'[n], e)
         /\ Contains(wire'[n], e) => Contains(wire[n], e) \/ e = Head(functors[n])
         /\ n \notin gone /\ ~Contains(wire[n], "shutdown") /\ e = Head(functors[n])
              => Contains(wire'[n], e)
<1>1. /\ functors[n] \in Seq(Frames) /\ functors[n] # <<>>
      /\ functors'[n] = Tail(functors[n])
      /\ <<Head(functors[n])>> \in Seq(Frames)
  BY RunFunctorEffect DEF TypeOK
<1>2. Contains(functors[n], e) <=> e = Head(functors[n]) \/ Contains(Tail(functors[n]), e)
  BY <1>1, TailContains
<1>3. wire' = Sent(n, <<Head(functors[n])>>)
  BY DEF RunFunctor
<1>4. Contains(<<Head(functors[n])>>, e) <=> e = Head(functors[n])
  BY LiteralContains
<1> QED
  BY <1>1, <1>2, <1>3, <1>4, SentContains

-----------------------------------------------------------------------------
(* [DONE] means saved                                                      *)

(* Who sends the mark has published the answer, at each place of the mark. *)
SavedInv ==
  \A n \in Turns :
    Contains(wire[n], "done") \/ Contains(functors[n], "done") \/ At(n, "done")
      => Contains(published, Ans(n))

LEMMA InitSaved == Init => SavedInv
BY LiteralContains DEF Init, SavedInv, At, Silent

(* Every step adds its frames to what the thread had to send.              *)
LEMMA SavedStep ==
  ASSUME IInv, SavedInv, NEW n \in Turns,
         \A e : Contains(published, e) => Contains(published', e),
         \A m \in Turns \ {n} : /\ wire'[m] = wire[m] /\ functors'[m] = functors[m]
                                /\ turn'[m] = turn[m],
         Contains(wire'[n], "done") \/ Contains(functors'[n], "done")
           => Contains(wire[n], "done") \/ Contains(functors[n], "done") \/ At(n, "done"),
         turn'[n].at = "done" => Contains(published', Ans(n)) \/ At(n, "done")
  PROVE  SavedInv'
<1>1. ASSUME NEW m \in Turns,
             Contains(wire'[m], "done") \/ Contains(functors'[m], "done") \/ turn'[m].at = "done"
      PROVE  Contains(published', Ans(m))
  BY <1>1 DEF SavedInv, At
<1> QED
  BY <1>1 DEF SavedInv, At, Ans

LEMMA NextSaved == IInv /\ SavedInv /\ [Next]_vars => SavedInv'
<1> SUFFICES ASSUME IInv, SavedInv, [Next]_vars PROVE SavedInv'
  OBVIOUS
<1>0. /\ TypeOK /\ wire \in [Turns -> Seq(Frames)] /\ functors \in [Turns -> Seq(Frames)]
  BY DEF IInv, TypeOK
<1>1. ASSUME NEW n \in Turns, NEW kind \in Kinds, NEW new \in BOOLEAN, Begin(n, kind, new)
      PROVE  SavedInv'
  <2>1. turn'[n].at # "done" /\ \A m \in Turns \ {n} : turn'[m] = turn[m]
    BY <1>1, BeginEffect DEF Start, Moves
  <2> QED
    BY <1>1, <2>1, SavedStep DEF Begin, streams
<1>2. ASSUME NEW n \in Turns, Leave(n) PROVE SavedInv'
  BY <1>2 DEF SavedInv, Leave, streams, At, Ans
<1>3. ASSUME NEW n \in Turns, RunFunctor(n) PROVE SavedInv'
  <2>1. /\ turn' = turn /\ published' = published
        /\ wire' = Sent(n, <<Head(functors[n])>>)
    BY <1>3 DEF RunFunctor
  <2>2. \A m \in Turns \ {n} : wire'[m] = wire[m] /\ functors'[m] = functors[m]
    BY <1>0, <1>3, <2>1, RunFunctorEffect, SentEffect
  <2>3. /\ Contains(wire'[n], "done") => Contains(wire[n], "done") \/ Head(functors[n]) = "done"
        /\ Contains(functors'[n], "done") \/ Head(functors[n]) = "done"
             => Contains(functors[n], "done")
    BY <1>0, <1>3, RunFunctorContains
  <2> QED
    BY <2>1, <2>2, <2>3, SavedStep DEF At
<1>4. ASSUME NEW n \in Turns, Terminate(n) PROVE SavedInv'
  <2>1. /\ published' = published /\ wire' = wire
        /\ \A m \in Turns : functors'[m] = <<>> /\ turn'[m].at # "done"
    BY <1>4, TerminateEffect DEF Terminate
  <2> QED
    BY <2>1, LiteralContains DEF SavedInv, At, Ans
<1>5. ASSUME NEW n \in Turns, Works(n), Calm(n) PROVE SavedInv'
  BY <1>5, SavedStep DEF Works, Calm, Moves
<1>6. ASSUME NEW n \in Turns, Works(n),
             SendHeader(n) \/ OnChunk(n) \/ StreamThrows(n) \/ Finish(n)
      PROVE  SavedInv'
  <2>1. ASSUME SendHeader(n)
        PROVE  /\ functors' = functors /\ \A m \in Turns \ {n} : wire'[m] = wire[m]
               /\ Contains(wire'[n], "done") => Contains(wire[n], "done")
    <3>1. Preamble(n) \in Seq(Frames) /\ wire' = Sent(n, Preamble(n))
      BY <2>1, FramesTyped DEF SendHeader
    <3>2. ~Contains(Preamble(n), "done")
      BY PreambleContains
    <3> QED
      BY <1>0, <2>1, <3>1, <3>2, SentEffect, SentContains DEF SendHeader
  <2>2. ASSUME OnChunk(n) \/ StreamThrows(n)
        PROVE  /\ wire' = wire /\ \A m \in Turns \ {n} : functors'[m] = functors[m]
               /\ Contains(functors'[n], "done") => Contains(functors[n], "done")
    <3>1. <<"data">> \in Seq(Frames) /\ Post(n, <<"data">>) /\ wire' = wire
      BY <2>2, FramesTyped DEF OnChunk, StreamThrows
    <3>2. ~Contains(<<"data">>, "done")
      BY LiteralContains
    <3> QED
      BY <1>0, <3>1, <3>2, PostEffect, PostContains
  <2>3. ASSUME Finish(n)
        PROVE  /\ wire' = wire /\ \A m \in Turns \ {n} : functors'[m] = functors[m]
               /\ At(n, "done")
    BY <1>0, <2>3, FramesTyped, PostEffect DEF Finish
  <2> QED
    BY <1>6, <2>1, <2>2, <2>3, SavedStep DEF Works, Moves
<1>7. CASE UNCHANGED vars
  BY <1>7 DEF vars, streams, SavedInv, At, Ans
<1> QED
  BY <1>1, <1>2, <1>3, <1>4, <1>5, <1>6, <1>7, StepCases

(* A page that has read the mark finds the answer in the history, since    *)
(* the detached thread publishes it before it queues the mark.             *)
THEOREM SavedCorrect == Spec => []DoneMeansSaved
<1>1. SavedInv => DoneMeansSaved
  BY DEF SavedInv, DoneMeansSaved, Ans
<1> QED
  BY <1>1, InitIInv, NextIInv, InitSaved, NextSaved, PTL DEF Spec

-----------------------------------------------------------------------------
(* Strategies                                                              *)

(* The thread of a stream shuts the connection down as its last act.       *)
ShutInv ==
  \A n \in Turns :
    Contains(wire[n], "shutdown") \/ Contains(functors[n], "shutdown") => At(n, "ended")

(* As long as pages wait, a turn begins when those before it have ended.   *)
OneByOne ==
  gone = {} =>
    /\ \A m, n \in Turns : m < n /\ ~At(n, "idle") => At(m, "ended")
    /\ \A n \in Turns : UsesStrategy(n) => strategy = n

LEMMA InitShut == Init => ShutInv /\ OneByOne
BY LiteralContains DEF Init, ShutInv, OneByOne, UsesStrategy, At, Silent

LEMMA ShutStep ==
  ASSUME IInv, ShutInv, NEW n \in Turns,
         \A m \in Turns \ {n} : /\ wire'[m] = wire[m] /\ functors'[m] = functors[m]
                                /\ turn'[m] = turn[m],
         Contains(wire'[n], "shutdown") \/ Contains(functors'[n], "shutdown")
           => turn'[n].at = "ended"
  PROVE  ShutInv'
  BY DEF ShutInv, At

LEMMA NextShut == IInv /\ ShutInv /\ [Next]_vars => ShutInv'
<1> SUFFICES ASSUME IInv, ShutInv, [Next]_vars PROVE ShutInv'
  OBVIOUS
<1>0. TypeOK
  BY DEF IInv
<1>1. ASSUME NEW n \in Turns, NEW kind \in Kinds, NEW new \in BOOLEAN, Begin(n, kind, new)
      PROVE  ShutInv'
  <2>1. /\ turn[n].at = "idle" /\ wire' = wire /\ functors' = functors
        /\ \A m \in Turns \ {n} : turn'[m] = turn[m]
    BY <1>1, BeginEffect DEF Moves, Begin, streams
  <2> QED
    BY <2>1, ShutStep DEF ShutInv, At
<1>2. ASSUME NEW n \in Turns, Leave(n) PROVE ShutInv'
  BY <1>2 DEF ShutInv, Leave, streams, At
<1>3. ASSUME NEW n \in Turns, RunFunctor(n) PROVE ShutInv'
  <2>1. turn' = turn /\ wire' = Sent(n, <<Head(functors[n])>>)
    BY <1>3 DEF RunFunctor
  <2>2. \A m \in Turns \ {n} : wire'[m] = wire[m] /\ functors'[m] = functors[m]
    BY <1>0, <1>3, <2>1, RunFunctorEffect, SentEffect
  <2>3. Contains(wire'[n], "shutdown") \/ Contains(functors'[n], "shutdown")
          => Contains(wire[n], "shutdown") \/ Contains(functors[n], "shutdown")
    BY <1>0, <1>3, RunFunctorContains
  <2> QED
    BY <2>1, <2>2, <2>3, ShutStep DEF ShutInv, At
<1>4. ASSUME NEW n \in Turns, Terminate(n) PROVE ShutInv'
  <2>1. /\ wire' = wire
        /\ \A m \in Turns : /\ functors'[m] = <<>>
                            /\ turn[m].at = "ended" => turn'[m].at = "ended"
    BY <1>4, TerminateEffect DEF Terminate
  <2> QED
    BY <2>1, LiteralContains DEF ShutInv, At
<1>5. ASSUME NEW n \in Turns, Works(n), Calm(n) PROVE ShutInv'
  <2>1. ~(Contains(wire[n], "shutdown") \/ Contains(functors[n], "shutdown"))
    BY <1>5 DEF ShutInv, At, Works, Running
  <2> QED
    BY <1>5, <2>1, ShutStep DEF Works, Calm, Moves
<1>6. ASSUME NEW n \in Turns, Works(n),
             SendHeader(n) \/ OnChunk(n) \/ StreamThrows(n) \/ Finish(n)
      PROVE  ShutInv'
  <2>0. ~(Contains(wire[n], "shutdown") \/ Contains(functors[n], "shutdown"))
    BY <1>6 DEF ShutInv, At, Works, Running
  <2>1. ASSUME SendHeader(n)
        PROVE  /\ functors' = functors /\ \A m \in Turns \ {n} : wire'[m] = wire[m]
               /\ ~Contains(wire'[n], "shutdown")
    <3>1. Preamble(n) \in Seq(Frames) /\ wire' = Sent(n, Preamble(n))
      BY <2>1, FramesTyped DEF SendHeader
    <3>2. ~Contains(Preamble(n), "shutdown")
      BY PreambleContains
    <3> QED
      BY <1>0, <2>0, <2>1, <3>1, <3>2, SentEffect, SentContains DEF SendHeader
  <2>2. ASSUME OnChunk(n) \/ StreamThrows(n)
        PROVE  /\ wire' = wire /\ \A m \in Turns \ {n} : functors'[m] = functors[m]
               /\ ~Contains(functors'[n], "shutdown")
    <3>1. <<"data">> \in Seq(Frames) /\ Post(n, <<"data">>) /\ wire' = wire
      BY <2>2, FramesTyped DEF OnChunk, StreamThrows
    <3>2. ~Contains(<<"data">>, "shutdown")
      BY LiteralContains
    <3> QED
      BY <1>0, <2>0, <3>1, <3>2, PostEffect, PostContains
  <2>3. ASSUME Finish(n)
        PROVE  /\ wire' = wire /\ \A m \in Turns \ {n} : functors'[m] = functors[m]
               /\ turn'[n].at = "ended"
    BY <1>0, <2>3, FramesTyped, PostEffect, GotoMoves DEF Finish, MovesTo
  <2> QED
    BY <1>6, <2>0, <2>1, <2>2, <2>3, ShutStep DEF Works, Moves
<1>7. CASE UNCHANGED vars
  BY <1>7 DEF vars, streams, ShutInv, At
<1> QED
  BY <1>1, <1>2, <1>3, <1>4, <1>5, <1>6, <1>7, StepCases

(* While a turn runs, no other has a strategy in use.                      *)
LEMMA WorkOneByOne ==
  ASSUME IInv, OneByOne, NEW n \in Turns, Works(n)
  PROVE  OneByOne'
<1> SUFFICES ASSUME gone = {}
             PROVE  /\ \A m, k \in Turns : m < k /\ turn'[k].at # "idle" => turn'[m].at = "ended"
                    /\ \A k \in Turns : UsesStrategy(k)' => strategy' = k
  BY DEF OneByOne, Works, At
<1>0. /\ \A m \in Turns \ {n} : turn'[m] = turn[m]
      /\ turn[n].at # "idle" /\ turn[n].at # "ended"
      /\ \A k \in Turns : k \in Nat
  BY DEF Works, Moves, Running, Turns
<1>1. /\ \A m \in Turns : m < n => turn[m].at = "ended"
      /\ \A k \in Turns : n < k => turn[k].at = "idle"
  BY <1>0 DEF OneByOne, At
<1>2. \A k \in Turns \ {n} : k < n \/ n < k
  BY <1>0
<1>3. ASSUME NEW m \in Turns, NEW k \in Turns, m < k, turn'[k].at # "idle"
      PROVE  turn'[m].at = "ended"
  BY <1>0, <1>1, <1>3 DEF OneByOne, At
<1>4. ASSUME NEW k \in Turns, UsesStrategy(k)' PROVE strategy' = k
  BY <1>0, <1>1, <1>2, <1>4 DEF OneByOne, Works, UsesStrategy
<1> QED
  BY <1>3, <1>4

LEMMA NextOneByOne == IInv /\ ShutInv /\ OneByOne /\ [Next]_vars => OneByOne'
<1> SUFFICES ASSUME IInv, ShutInv, OneByOne, [Next]_vars PROVE OneByOne'
  OBVIOUS
<1>0. \A k \in Turns : k \in Nat /\ 1..(k - 1) \subseteq Turns
  BY ConversationAssumption DEF Turns
<1>1. ASSUME NEW n \in Turns, NEW kind \in Kinds, NEW new \in BOOLEAN, Begin(n, kind, new)
      PROVE  OneByOne'
  <2>1. /\ turn[n].at = "idle" /\ turn'[n].at \in {"ask", "prompt"}
        /\ \A m \in Turns \ {n} : turn'[m] = turn[m]
        /\ gone' = gone /\ strategy' = strategy
    BY <1>1, BeginEffect DEF Begin
  <2> SUFFICES ASSUME gone = {}
               PROVE  /\ \A m, k \in Turns : m < k /\ turn'[k].at # "idle" => turn'[m].at = "ended"
                      /\ \A k \in Turns : UsesStrategy(k)' => strategy' = k
    BY <2>1 DEF OneByOne, At
  <2>2. ASSUME NEW m \in Turns, m < n PROVE turn[m].at = "ended"
    <3>1. m \in 1..(n - 1)
      BY <1>0, <2>2 DEF Turns
    <3>2. Answered(m)
      BY <1>1, <3>1 DEF Begin
    <3> QED
      BY <3>2 DEF Answered, ShutInv, At
  <2>3. ASSUME NEW m \in Turns, NEW k \in Turns, m < k, turn'[k].at # "idle"
        PROVE  turn'[m].at = "ended"
    <3>1. CASE k = n
      BY <1>0, <2>1, <2>2, <2>3, <3>1
    <3>2. CASE k # n
      BY <2>1, <2>3, <3>2 DEF OneByOne, At
    <3> QED
      BY <3>1, <3>2
  <2>4. ASSUME NEW k \in Turns, UsesStrategy(k)' PROVE strategy' = k
    BY <2>1, <2>4 DEF OneByOne, UsesStrategy
  <2> QED
    BY <2>3, <2>4
<1>2. ASSUME NEW n \in Turns, Leave(n) PROVE OneByOne'
  BY <1>2 DEF OneByOne, Leave
<1>3. ASSUME NEW n \in Turns, RunFunctor(n) PROVE OneByOne'
  BY <1>3 DEF OneByOne, RunFunctor, others, UsesStrategy, At
<1>4. ASSUME NEW n \in Turns, Terminate(n) PROVE OneByOne'
  BY <1>4, TerminateEffect DEF OneByOne
<1>5. CASE UNCHANGED vars
  BY <1>5 DEF vars, OneByOne, UsesStrategy, At
<1> QED
  BY <1>1, <1>2, <1>3, <1>4, <1>5, WorkOneByOne, StepCases

(* As long as every page waits, a turn has its own strategy while it uses  *)
(* one, and nobody frees it under a stream.                                *)
THEOREM StrategyCorrect == Spec => []StrategyIsOwn
<1>1. OneByOne => StrategyIsOwn
  BY DEF OneByOne, StrategyIsOwn
<1> QED
  BY <1>1, InitIInv, NextIInv, InitShut, NextShut, NextOneByOne, PTL DEF Spec

-----------------------------------------------------------------------------
(* The order of frames                                                     *)

Before(a, b) == Rank[a] < Rank[b] \/ (a = "data" /\ b = "data")
Ordered(s) == \A i, j \in 1..Len(s) : i < j => Before(s[i], s[j])

LEMMA RankFacts ==
  /\ Rank["header"] = 1 /\ Rank["sessionId"] = 2 /\ Rank["data"] = 3
  /\ Rank["done"] = 4 /\ Rank["shutdown"] = 5
  BY DEF Rank

LEMMA LiteralOrdered ==
  /\ Ordered(<<>>) /\ Ordered(Ending) /\ \A f : Ordered(<<f>>)
<1>1. \A i, j \in 1..2 : i < j => i = 1 /\ j = 2
  OBVIOUS
<1>2. \A i, j \in 1..1 : ~(i < j)
  OBVIOUS
<1>3. Ordered(Ending)
  <2>1. Len(Ending) = 2 /\ Ending[1] = "done" /\ Ending[2] = "shutdown"
    BY DEF Ending
  <2>2. Before("done", "shutdown")
    BY RankFacts DEF Before
  <2> QED
    BY <1>1, <2>1, <2>2 DEF Ordered
<1>4. \A f : Ordered(<<f>>)
  BY <1>2 DEF Ordered
<1>5. Ordered(<<>>)
  BY DEF Ordered
<1> QED
  BY <1>3, <1>4, <1>5

LEMMA ConcatOrdered ==
  ASSUME NEW s \in Seq(Frames), NEW u \in Seq(Frames), Ordered(s), Ordered(u),
         \A a, b \in Frames : Contains(s, a) /\ Contains(u, b) => Before(a, b)
  PROVE  Ordered(s \o u)
<1>0. /\ Len(s) \in Nat /\ Len(u) \in Nat
      /\ Len(s \o u) = Len(s) + Len(u)
      /\ \A i \in 1..(Len(s) + Len(u)) : (s \o u)[i] = IF i <= Len(s) THEN s[i] ELSE u[i - Len(s)]
  BY ConcatProperties, LenProperties
<1>1. ASSUME NEW i \in 1..(Len(s) + Len(u)), NEW j \in 1..(Len(s) + Len(u)), i < j
      PROVE  Before((s \o u)[i], (s \o u)[j])
  <2>1. CASE j <= Len(s)
    <3>1. /\ i \in 1..Len(s) /\ j \in 1..Len(s)
          /\ (s \o u)[i] = s[i] /\ (s \o u)[j] = s[j]
      BY <1>0, <1>1, <2>1
    <3> QED
      BY <1>1, <3>1 DEF Ordered
  <2>2. CASE i <= Len(s) /\ ~(j <= Len(s))
    <3>1. /\ i \in 1..Len(s) /\ j - Len(s) \in 1..Len(u)
          /\ (s \o u)[i] = s[i] /\ (s \o u)[j] = u[j - Len(s)]
      BY <1>0, <1>1, <2>2
    <3>2. s[i] \in Frames /\ u[j - Len(s)] \in Frames
      BY <3>1, ElementOfSeq
    <3>3. Contains(s, s[i]) /\ Contains(u, u[j - Len(s)])
      BY <3>1 DEF Contains
    <3> QED
      BY <3>1, <3>2, <3>3
  <2>3. CASE ~(i <= Len(s))
    <3>1. /\ i - Len(s) \in 1..Len(u) /\ j - Len(s) \in 1..Len(u) /\ i - Len(s) < j - Len(s)
          /\ (s \o u)[i] = u[i - Len(s)] /\ (s \o u)[j] = u[j - Len(s)]
      BY <1>0, <1>1, <2>3
    <3> QED
      BY <3>1 DEF Ordered
  <2> QED
    BY <1>0, <1>1, <2>1, <2>2, <2>3
<1> QED
  BY <1>0, <1>1 DEF Ordered

LEMMA TailOrdered ==
  ASSUME NEW s \in Seq(Frames), s # <<>>, Ordered(s)
  PROVE  /\ Ordered(Tail(s))
         /\ \A b : Contains(Tail(s), b) => Before(Head(s), b)
<1>0. /\ Len(s) \in Nat \ {0} /\ Head(s) = s[1]
      /\ Len(Tail(s)) = Len(s) - 1
      /\ \A i \in 1..(Len(s) - 1) : Tail(s)[i] = s[i + 1]
  BY HeadTailProperties, EmptySeq, LenProperties
<1>1. ASSUME NEW i \in 1..(Len(s) - 1), NEW j \in 1..(Len(s) - 1), i < j
      PROVE  Before(Tail(s)[i], Tail(s)[j])
  <2>1. i + 1 \in 1..Len(s) /\ j + 1 \in 1..Len(s) /\ i + 1 < j + 1
    BY <1>0, <1>1
  <2>2. Before(s[i + 1], s[j + 1])
    BY <2>1 DEF Ordered
  <2> QED
    BY <1>0, <2>2
<1>2. ASSUME NEW i \in 1..(Len(s) - 1) PROVE Before(Head(s), Tail(s)[i])
  <2>1. 1 \in 1..Len(s) /\ i + 1 \in 1..Len(s) /\ 1 < i + 1
    BY <1>0
  <2>2. Before(s[1], s[i + 1])
    BY <2>1 DEF Ordered
  <2> QED
    BY <1>0, <2>2
<1> QED
  BY <1>0, <1>1, <1>2 DEF Ordered, Contains

(* What was sent and what waits of a turn.  Unless the page is gone, what  *)
(* was sent comes before what waits; the thread has sent nothing before    *)
(* its stream begins, and only data until it ends.                         *)
FrameOK(n) ==
  /\ Ordered(wire[n]) /\ Ordered(functors[n])
  /\ n \notin gone => \A a, b \in Frames :
       Contains(wire[n], a) /\ Contains(functors[n], b) => Before(a, b)
  /\ turn[n].at \notin StreamPlaces \cup {"ended"} \/ turn[n].kind # "stream"
       => wire[n] = <<>> /\ functors[n] = <<>>
  /\ turn[n].at \in StreamPlaces =>
       /\ \A a \in Frames : Contains(wire[n], a) => Rank[a] <= 3
       /\ \A a \in Frames : Contains(functors[n], a) => a = "data"
  /\ n \notin gone /\ turn[n].kind = "stream" /\ (turn[n].at \in StreamPlaces \/ functors[n] # <<>>)
       => Contains(wire[n], "header")
  /\ n \notin gone /\ Contains(functors[n], "shutdown")
       => Contains(wire[n], "done") \/ Contains(functors[n], "done")
  /\ Contains(wire[n], "shutdown") => Contains(wire[n], "header") /\ Contains(wire[n], "done")
FrameInv == \A n \in Turns : FrameOK(n)

LEMMA InitFrames == Init => FrameInv
BY LiteralContains, LiteralOrdered DEF Init, FrameInv, FrameOK, Silent, StreamPlaces

(* Turns with nothing sent or to be sent.                                  *)
LEMMA NoFrames ==
  ASSUME NEW n, wire'[n] = <<>>, functors'[n] = <<>>,
         turn'[n].kind = "stream" => turn'[n].at \notin StreamPlaces
  PROVE  FrameOK(n)'
BY LiteralContains, LiteralOrdered DEF FrameOK

LEMMA FrameStep ==
  ASSUME FrameInv, NEW n \in Turns, gone \subseteq gone',
         \A m \in Turns \ {n} : /\ wire'[m] = wire[m] /\ functors'[m] = functors[m]
                                /\ turn'[m].at = turn[m].at /\ turn'[m].kind = turn[m].kind,
         FrameOK(n)'
  PROVE  FrameInv'
<1>1. ASSUME NEW m \in Turns \ {n} PROVE FrameOK(m)'
  BY <1>1 DEF FrameInv, FrameOK
<1> QED
  BY <1>1 DEF FrameInv

(* The loop sends what waited longest.                                     *)
LEMMA RunFunctorFrames ==
  ASSUME TypeOK, FrameInv, NEW n \in Turns, RunFunctor(n)
  PROVE  FrameOK(n)'
<1> DEFINE W == wire[n]  F == functors[n]  h == Head(functors[n])
<1>0. /\ W \in Seq(Frames) /\ F \in Seq(Frames) /\ F # <<>> /\ functors'[n] = Tail(F)
      /\ turn' = turn /\ gone' = gone /\ h \in Frames /\ <<h>> \in Seq(Frames)
  BY RunFunctorEffect, HeadTailProperties DEF TypeOK, RunFunctor, others
<1>1. FrameOK(n)
  BY DEF FrameInv
<1>2. /\ Ordered(functors'[n])
      /\ \A b : Contains(functors'[n], b) => Before(h, b)
  BY <1>0, <1>1, TailOrdered DEF FrameOK
<1>3. \A b : Contains(functors'[n], b) => Contains(F, b)
  BY RunFunctorContains
<1>4. Contains(F, h)
  BY RunFunctorContains
<1>5. turn[n].kind = "stream" /\ turn[n].at \in StreamPlaces \cup {"ended"}
  BY <1>0, <1>1 DEF FrameOK
<1>6. CASE n \in gone
  <2>1. wire'[n] = W
    BY <1>0, <1>6 DEF RunFunctor, Sent
  <2> QED
    BY <1>0, <1>1, <1>2, <1>3, <1>5, <1>6, <2>1 DEF FrameOK
<1>7. CASE n \notin gone
  <2>1. \A a \in Frames : Contains(W, a) => Before(a, h)
    BY <1>0, <1>1, <1>4, <1>7 DEF FrameOK
  <2>2. ~Contains(W, "shutdown")
    <3>1. ~Before("shutdown", h) /\ "shutdown" \in Frames
      BY <1>0, RankFacts DEF Before, Frames
    <3> QED
      BY <2>1, <3>1
  <2>3. wire'[n] = W \o <<h>>
    BY <1>0, <1>7, <2>2, SentEffect DEF RunFunctor
  <2>4. \A e : Contains(wire'[n], e) <=> Contains(W, e) \/ e = h
    BY <1>7, <2>2, RunFunctorContains
  <2>5. Ordered(wire'[n])
    <3>1. \A a, b \in Frames : Contains(W, a) /\ Contains(<<h>>, b) => Before(a, b)
      BY <2>1, LiteralContains
    <3>2. Ordered(W) /\ Ordered(<<h>>)
      BY <1>1, LiteralOrdered DEF FrameOK
    <3>3. Ordered(W \o <<h>>)
      BY <1>0, <3>1, <3>2, ConcatOrdered
    <3> QED
      BY <2>3, <3>3
  <2>6. \A a, b \in Frames : Contains(wire'[n], a) /\ Contains(functors'[n], b) => Before(a, b)
    BY <1>1, <1>2, <1>3, <1>7, <2>4 DEF FrameOK
  <2>7. Contains(W, "header")
    BY <1>0, <1>1, <1>5, <1>7 DEF FrameOK
  <2>8. turn[n].at \in StreamPlaces =>
          /\ \A a \in Frames : Contains(wire'[n], a) => Rank[a] <= 3
          /\ \A a \in Frames : Contains(functors'[n], a) => a = "data"
    BY <1>0, <1>1, <1>3, <1>4, <2>4, RankFacts DEF FrameOK
  <2>9. \A e : Contains(F, e) <=> e = h \/ Contains(functors'[n], e)
    BY RunFunctorContains
  <2>10. Contains(functors'[n], "shutdown")
           => Contains(wire'[n], "done") \/ Contains(functors'[n], "done")
    BY <1>1, <1>7, <2>4, <2>9 DEF FrameOK
  <2>11. Contains(wire'[n], "shutdown") => Contains(wire'[n], "header") /\ Contains(wire'[n], "done")
    <3>1. ASSUME h = "shutdown" PROVE Contains(W, "done")
      <4>1. ~Before(h, "done")
        BY <3>1, RankFacts DEF Before
      <4>2. ~Contains(functors'[n], "done") /\ h # "done"
        BY <1>2, <3>1, <4>1
      <4>3. ~Contains(F, "done")
        BY <2>9, <4>2
      <4> QED
        BY <1>1, <1>4, <1>7, <3>1, <4>3 DEF FrameOK
    <3> QED
      BY <2>2, <2>4, <2>7, <3>1
  <2> QED
    BY <1>0, <1>2, <1>5, <2>4, <2>5, <2>6, <2>7, <2>8, <2>10, <2>11 DEF FrameOK
<1> QED
  BY <1>6, <1>7

LEMMA SendHeaderFrames ==
  ASSUME IInv, FrameInv, NEW n \in Turns, SendHeader(n)
  PROVE  FrameOK(n)'
<1>0. /\ turn[n].at = "header" /\ turn[n].kind = "stream"
      /\ turn'[n].at = "stream" /\ turn'[n].kind = "stream"
      /\ functors' = functors /\ gone' = gone /\ wire' = Sent(n, Preamble(n))
      /\ Preamble(n) \in Seq(Frames) /\ TypeOK
  BY GotoMoves, TurnFacts, FramesTyped DEF SendHeader, At, MovesTo, PlaceOK, others, IInv
<1>1. wire[n] = <<>> /\ functors'[n] = <<>>
  BY <1>0 DEF FrameInv, FrameOK, StreamPlaces
<1>2. ASSUME NEW e, Contains(wire'[n], e) PROVE e = "header" \/ e = "sessionId"
  <2>1. ~Contains(wire[n], e)
    BY <1>1, LiteralContains
  <2>2. Contains(Preamble(n), e)
    BY <1>0, <1>2, <2>1, SentContains
  <2> QED
    BY <2>2, PreambleContains
<1>3. n \notin gone => Contains(wire'[n], "header")
  <2>1. ~Contains(wire[n], "shutdown") /\ Contains(Preamble(n), "header")
    BY <1>1, LiteralContains, PreambleContains
  <2> QED
    BY <1>0, <2>1, SentContains
<1>4. Ordered(wire'[n])
  <2> DEFINE s == IF turn[n].new THEN <<"sessionId">> ELSE <<>>
  <2>1. /\ <<>> \in Seq(Frames) /\ <<"header">> \in Seq(Frames) /\ <<"sessionId">> \in Seq(Frames)
        /\ "header" # "sessionId" /\ Before("header", "sessionId")
    BY RankFacts DEF Frames, Before
  <2>2. s \in Seq(Frames) /\ Ordered(s) /\ Ordered(<<"header">>) /\ Ordered(<<>>)
    BY <2>1, LiteralOrdered
  <2>3. \A a, b \in Frames : Contains(<<"header">>, a) /\ Contains(s, b) => Before(a, b)
    BY <2>1, LiteralContains
  <2>4. Ordered(Preamble(n))
    BY <2>1, <2>2, <2>3, ConcatOrdered DEF Preamble
  <2>5. Ordered(<<>> \o Preamble(n))
    BY <1>0, <2>1, <2>2, <2>4, ConcatOrdered, LiteralContains
  <2> QED
    BY <1>0, <1>1, <2>2, <2>5, SentEffect
<1>5. \A a \in Frames : Contains(wire'[n], a) => Rank[a] <= 3
  BY <1>2, RankFacts
<1>6. Ordered(functors'[n]) /\ \A e : ~Contains(functors'[n], e)
  BY <1>1, LiteralContains, LiteralOrdered
<1> QED
  BY <1>0, <1>2, <1>3, <1>4, <1>5, <1>6 DEF FrameOK, StreamPlaces

LEMMA ChunkFrames ==
  ASSUME IInv, FrameInv, NEW n \in Turns, OnChunk(n) \/ StreamThrows(n)
  PROVE  FrameOK(n)'
<1>0. /\ turn[n].at = "stream" /\ turn[n].kind = "stream"
      /\ turn'[n].at \in {"stream", "answer"} /\ turn'[n].kind = "stream"
      /\ wire' = wire /\ gone' = gone /\ Post(n, <<"data">>)
      /\ <<"data">> \in Seq(Frames) /\ TypeOK
  BY OnChunkEffect, StreamOverEffect, TurnFacts, FramesTyped
  DEF OnChunk, StreamThrows, At, MovesTo, PlaceOK, others, IInv
<1>1. FrameOK(n)
  BY DEF FrameInv
<1>2. \A e : Contains(functors'[n], e) <=> Contains(functors[n], e) \/ e = "data"
  BY <1>0, PostContains, LiteralContains
<1>3. \A a \in Frames : Contains(wire[n], a) => Before(a, "data")
  <2>1. \A a \in Frames : Rank[a] <= 3 => Before(a, "data")
    BY RankFacts DEF Frames, Before
  <2> QED
    BY <1>0, <1>1, <2>1 DEF FrameOK, StreamPlaces
<1>4. Ordered(functors'[n])
  <2>1. \A a, b \in Frames : Contains(functors[n], a) /\ Contains(<<"data">>, b) => Before(a, b)
    BY <1>0, <1>1, LiteralContains DEF FrameOK, StreamPlaces, Before
  <2>2. functors[n] \in Seq(Frames) /\ Ordered(functors[n]) /\ Ordered(<<"data">>)
    BY <1>0, <1>1, LiteralOrdered DEF FrameOK, TypeOK
  <2>3. Ordered(functors[n] \o <<"data">>)
    BY <1>0, <2>1, <2>2, ConcatOrdered
  <2> QED
    BY <1>0, <2>3, PostEffect
<1>5. n \notin gone => \A a, b \in Frames :
        Contains(wire[n], a) /\ Contains(functors'[n], b) => Before(a, b)
  BY <1>1, <1>2, <1>3 DEF FrameOK
<1> QED
  BY <1>0, <1>1, <1>2, <1>4, <1>5 DEF FrameOK, StreamPlaces

LEMMA FinishFrames ==
  ASSUME IInv, FrameInv, NEW n \in Turns, Finish(n)
  PROVE  FrameOK(n)'
<1>0. /\ turn[n].at = "done" /\ turn[n].kind = "stream"
      /\ turn'[n].at = "ended" /\ turn'[n].kind = "stream"
      /\ wire' = wire /\ gone' = gone /\ Post(n, Ending)
      /\ Ending \in Seq(Frames) /\ TypeOK
  BY GotoMoves, TurnFacts, FramesTyped DEF Finish, At, MovesTo, PlaceOK, others, IInv
<1>1. FrameOK(n)
  BY DEF FrameInv
<1>2. \A e : Contains(functors'[n], e) <=> Contains(functors[n], e) \/ e \in {"done", "shutdown"}
  BY <1>0, PostContains, LiteralContains
<1>3. \A a \in Frames : Rank[a] <= 3 => Before(a, "done") /\ Before(a, "shutdown")
  BY RankFacts DEF Frames, Before
<1>4. \A a \in Frames : Contains(wire[n], a) => Before(a, "done") /\ Before(a, "shutdown")
  BY <1>0, <1>1, <1>3 DEF FrameOK, StreamPlaces
<1>5. Ordered(functors'[n])
  <2>1. \A a, b \in Frames : Contains(functors[n], a) /\ Contains(Ending, b) => Before(a, b)
    BY <1>0, <1>1, <1>3, LiteralContains, RankFacts DEF FrameOK, StreamPlaces
  <2>2. functors[n] \in Seq(Frames) /\ Ordered(functors[n]) /\ Ordered(Ending)
    BY <1>0, <1>1, LiteralOrdered DEF FrameOK, TypeOK
  <2>3. Ordered(functors[n] \o Ending)
    BY <1>0, <2>1, <2>2, ConcatOrdered
  <2> QED
    BY <1>0, <2>3, PostEffect
<1>6. n \notin gone => \A a, b \in Frames :
        Contains(wire[n], a) /\ Contains(functors'[n], b) => Before(a, b)
  BY <1>1, <1>2, <1>4 DEF FrameOK
<1> QED
  BY <1>0, <1>1, <1>2, <1>5, <1>6 DEF FrameOK, StreamPlaces

LEMMA NextFrames == IInv /\ FrameInv /\ [Next]_vars => FrameInv'
<1> SUFFICES ASSUME IInv, FrameInv, [Next]_vars PROVE FrameInv'
  OBVIOUS
<1>0. TypeOK
  BY DEF IInv
<1>1. ASSUME NEW n \in Turns, NEW kind \in Kinds, NEW new \in BOOLEAN, Begin(n, kind, new)
      PROVE  FrameInv'
  <2>1. /\ turn[n].at = "idle" /\ turn'[n].at \in {"ask", "prompt"}
        /\ \A m \in Turns \ {n} : turn'[m] = turn[m]
        /\ wire' = wire /\ functors' = functors /\ gone' = gone
    BY <1>1, BeginEffect DEF Begin, streams
  <2>2. wire[n] = <<>> /\ functors[n] = <<>>
    BY <2>1 DEF FrameInv, FrameOK, StreamPlaces
  <2>3. FrameOK(n)'
    BY <2>1, <2>2, NoFrames DEF StreamPlaces
  <2> QED
    BY <2>1, <2>3, FrameStep
<1>2. ASSUME NEW n \in Turns, Leave(n) PROVE FrameInv'
  BY <1>2 DEF FrameInv, FrameOK, Leave, streams
<1>3. ASSUME NEW n \in Turns, RunFunctor(n) PROVE FrameInv'
  <2>1. turn' = turn /\ gone' = gone /\ wire' = Sent(n, <<Head(functors[n])>>)
    BY <1>3 DEF RunFunctor, others
  <2>2. \A m \in Turns \ {n} : wire'[m] = wire[m] /\ functors'[m] = functors[m]
    BY <1>0, <1>3, <2>1, RunFunctorEffect, SentEffect
  <2> QED
    BY <1>0, <1>3, <2>1, <2>2, RunFunctorFrames, FrameStep
<1>4. ASSUME NEW n \in Turns, Terminate(n) PROVE FrameInv'
  <2>1. ASSUME NEW m \in Turns PROVE FrameOK(m)'
    <3>1. /\ wire' = wire /\ functors'[m] = <<>>
          /\ m \notin gone' => functors[m] = <<>> /\ ~Running(m)
          /\ turn'[m].at \in {"idle", "ended"} /\ turn'[m].kind = turn[m].kind
          /\ turn'[m].at = "idle" => turn[m].at = "idle"
      BY <1>4, TerminateEffect DEF Terminate
    <3>2. FrameOK(m)
      BY DEF FrameInv
    <3>3. Ordered(functors'[m]) /\ \A e : ~Contains(functors'[m], e)
      BY <3>1, LiteralContains, LiteralOrdered
    <3> QED
      BY <3>1, <3>2, <3>3 DEF FrameOK, StreamPlaces
  <2> QED
    BY <2>1 DEF FrameInv
<1>5. ASSUME NEW n \in Turns, Works(n), Calm(n) PROVE FrameInv'
  <2>0. /\ FrameOK(n) /\ wire' = wire /\ functors' = functors /\ gone' = gone
        /\ turn'[n].kind = turn[n].kind /\ turn[n].at # "ended"
        /\ \A m \in Turns \ {n} : turn'[m] = turn[m]
    BY <1>5 DEF FrameInv, Works, Calm, Moves, Running
  <2>1. CASE turn[n].kind # "stream"
    <3>1. FrameOK(n)'
      BY <2>0, <2>1, NoFrames DEF FrameOK
    <3> QED
      BY <2>0, <3>1, FrameStep
  <2>2. CASE turn[n].kind = "stream" /\ turn[n].at \notin StreamPlaces
    <3>1. FrameOK(n)'
      BY <1>5, <2>0, <2>2, NoFrames DEF FrameOK, Calm
    <3> QED
      BY <2>0, <3>1, FrameStep
  <2>3. CASE turn[n].kind = "stream" /\ turn[n].at \in StreamPlaces
    <3>1. turn'[n].at \in StreamPlaces
      BY <1>5, <2>3 DEF Calm
    <3>2. FrameOK(n)'
      BY <2>0, <2>3, <3>1 DEF FrameOK
    <3> QED
      BY <2>0, <3>2, FrameStep
  <2> QED
    BY <2>1, <2>2, <2>3
<1>6. ASSUME NEW n \in Turns, Works(n),
             SendHeader(n) \/ OnChunk(n) \/ StreamThrows(n) \/ Finish(n)
      PROVE  FrameInv'
  <2>1. FrameOK(n)'
    BY <1>6, SendHeaderFrames, ChunkFrames, FinishFrames
  <2>2. \A m \in Turns \ {n} : wire'[m] = wire[m]
    BY <1>0, <1>6, FramesTyped, SentEffect DEF SendHeader, OnChunk, StreamThrows, Finish
  <2>3. \A m \in Turns \ {n} : functors'[m] = functors[m]
    BY <1>0, <1>6, FramesTyped, PostEffect DEF SendHeader, OnChunk, StreamThrows, Finish
  <2> QED
    BY <1>6, <2>1, <2>2, <2>3, FrameStep DEF Works, Moves
<1>7. CASE UNCHANGED vars
  BY <1>7 DEF vars, streams, FrameInv, FrameOK
<1> QED
  BY <1>1, <1>2, <1>3, <1>4, <1>5, <1>6, <1>7, StepCases

(* The frames of a stream come in order, and the shutdown behind the       *)
(* header and the mark.                                                    *)
THEOREM FramesCorrect == Spec => []FramesInOrder
<1>1. TypeOK /\ FrameInv => FramesInOrder
  <2> SUFFICES ASSUME TypeOK, FrameInv, NEW n \in Turns
               PROVE  /\ \A i, j \in DOMAIN wire[n] :
                           i < j => \/ Rank[wire[n][i]] < Rank[wire[n][j]]
                                    \/ wire[n][i] = "data" /\ wire[n][j] = "data"
                      /\ Contains(wire[n], "shutdown") => {"header", "done"} \subseteq ToSet(wire[n])
    BY DEF FramesInOrder
  <2>1. DOMAIN wire[n] = 1..Len(wire[n])
    BY LenProperties DEF TypeOK
  <2>2. \A e : Contains(wire[n], e) => e \in ToSet(wire[n])
    BY <2>1 DEF Contains, ToSet
  <2>3. FrameOK(n)
    BY DEF FrameInv
  <2> QED
    BY <2>1, <2>2, <2>3 DEF FrameOK, Ordered, Before
<1> QED
  BY <1>1, InitIInv, NextIInv, InitFrames, NextFrames, PTL DEF Spec, IInv

-----------------------------------------------------------------------------
(* Roles                                                                   *)

(* The places of a turn that has left an odd number of messages.           *)
OddPlaces == {"curl", "second", "header", "stream", "answer"}

Sound == ~overlapped /\ \A n \in Turns : turn[n].threw \in {"no", "early"} /\ turn[n].calls <= 1

AloneInv == ~overlapped => \A m, n \in Turns : Running(m) /\ Running(n) => m = n

(* A native turn has its question, its calls and their one result.         *)
LongEnough(n) ==
  turn[n].kind = "native" =>
    /\ turn[n].at = "second" => Len(messages) >= 3
    /\ turn[n].at = "tools" => Len(messages) >= 2

ParityInv ==
  Sound =>
    /\ ParityTellsRole
    /\ (\E n \in Turns : turn[n].at \in OddPlaces) <=> Len(messages) % 2 = 1
    /\ \A n \in Turns : LongEnough(n)

LEMMA InitParity == Init => AloneInv /\ ParityInv
BY DEF Init, AloneInv, ParityInv, Running, LongEnough, ParityTellsRole, OddPlaces, Silent

LEMMA NextAlone == IInv /\ AloneInv /\ [Next]_vars => AloneInv'
<1> SUFFICES ASSUME IInv, AloneInv, [Next]_vars PROVE AloneInv'
  OBVIOUS
<1>1. ASSUME NEW n \in Turns, NEW kind \in Kinds, NEW new \in BOOLEAN, Begin(n, kind, new)
      PROVE  AloneInv'
  <2>1. \A m \in Turns \ {n} : turn'[m] = turn[m]
    BY <1>1, BeginEffect DEF Moves
  <2>2. ~overlapped' => \A m \in Turns : ~Running(m)
    BY <1>1 DEF Begin
  <2> QED
    BY <2>1, <2>2 DEF AloneInv, Running
<1>2. ASSUME NEW n \in Turns, Leave(n) \/ RunFunctor(n) PROVE AloneInv'
  BY <1>2 DEF AloneInv, Leave, RunFunctor, Running, others
<1>3. ASSUME NEW n \in Turns, Terminate(n) PROVE AloneInv'
  BY <1>3, TerminateEffect DEF AloneInv, Running
<1>4. ASSUME NEW n \in Turns, Works(n) PROVE AloneInv'
  BY <1>4 DEF AloneInv, Works, Moves, Running
<1>5. CASE UNCHANGED vars
  BY <1>5 DEF vars, AloneInv, Running
<1> QED
  BY <1>1, <1>2, <1>3, <1>4, <1>5, StepCases

(* A push or a pop keeps the roles where they are.                         *)
LEMMA PushParity ==
  ASSUME IInv, AloneInv, NEW n \in Turns, Running(n), ~overlapped, ParityTellsRole,
         NEW role \in Roles, Push(n, role),
         role \in {"user", "prompt", "tool"} <=> Len(messages) % 2 = 0
  PROVE  ParityTellsRole' /\ Len(messages') = Len(messages) + 1 /\ Len(messages) \in Nat
<1> DEFINE e == [role |-> role, turn |-> n]
<1>1. ~Racing(n)
  BY DEF AloneInv, Racing, Running
<1>2. messages \in Seq(Message) /\ e \in Message /\ Len(messages) \in Nat
  BY LenProperties DEF IInv, TypeOK, Message
<1>3. messages' = Append(messages, e)
  BY <1>1 DEF Push
<1>4. /\ messages' \in Seq(Message) /\ Len(messages') = Len(messages) + 1
      /\ \A i \in 1..Len(messages) : messages'[i] = messages[i]
      /\ messages'[Len(messages) + 1] = e
  BY <1>2, <1>3, AppendProperties
<1>5. DOMAIN messages = 1..Len(messages) /\ DOMAIN messages' = 1..(Len(messages) + 1)
  BY <1>2, <1>4, LenProperties
<1>6. ASSUME NEW i \in 1..(Len(messages) + 1)
      PROVE  Spoken(messages'[i]) <=> i % 2 = 1
  <2>1. CASE i \in 1..Len(messages)
    BY <1>4, <1>5, <2>1 DEF ParityTellsRole, Spoken
  <2>2. CASE i = Len(messages) + 1
    <3>1. Spoken(messages'[i]) <=> role \in {"user", "prompt", "tool"}
      BY <1>4, <2>2 DEF Spoken
    <3>2. Len(messages) % 2 = 0 <=> i % 2 = 1
      BY <1>2, <2>2
    <3> QED
      BY <3>1, <3>2
  <2> QED
    BY <1>2, <2>1, <2>2
<1> QED
  BY <1>2, <1>4, <1>5, <1>6 DEF ParityTellsRole, Spoken

LEMMA DropParity ==
  ASSUME IInv, ParityTellsRole, NEW k \in Nat, messages' = Without(k), k <= Len(messages)
  PROVE  ParityTellsRole' /\ Len(messages') = Len(messages) - k /\ Len(messages) \in Nat
<1>1. messages \in Seq(Message) /\ Len(messages) \in Nat /\ DOMAIN messages = 1..Len(messages)
  BY LenProperties DEF IInv, TypeOK, Message
<1>2. /\ messages' \in Seq(Message) /\ Len(messages') = Len(messages) - k
      /\ \A i \in 1..(Len(messages) - k) : messages'[i] = messages[i]
  <2>1. /\ Without(k) \in Seq(Message)
        /\ Len(Without(k)) = IF k < Len(messages) THEN Len(messages) - k ELSE 0
        /\ \A i \in 1..(Len(messages) - k) : Without(k)[i] = messages[i]
    BY WithoutTyped DEF IInv
  <2> DEFINE l == Len(messages)
  <2>2. l \in Nat /\ k \in Nat /\ k <= l
    BY <1>1
  <2> HIDE DEF l
  <2>3. (IF k < l THEN l - k ELSE 0) = l - k
    BY <2>2
  <2> USE DEF l
  <2> QED
    BY <2>1, <2>3
<1>3. DOMAIN messages' = 1..(Len(messages) - k)
  BY <1>2, LenProperties
<1>4. \A i \in 1..(Len(messages) - k) : i \in 1..Len(messages)
  BY <1>1
<1> QED
  BY <1>1, <1>2, <1>3, <1>4 DEF ParityTellsRole, Spoken

(* What a step of a turn has to show: where it goes, and what it leaves.   *)
Fits(n) ==
  /\ ParityTellsRole'
  /\ turn'[n].at \in OddPlaces <=> Len(messages') % 2 = 1
  /\ LongEnough(n)'

LEMMA TurnParity ==
  ASSUME IInv, AloneInv, ParityInv, Sound, NEW n \in Turns, Running(n)
  PROVE  /\ ParityTellsRole /\ LongEnough(n) /\ Len(messages) \in Nat
         /\ turn[n].at \in OddPlaces <=> Len(messages) % 2 = 1
         /\ turn[n].at \notin OddPlaces <=> Len(messages) % 2 = 0
         /\ \A m \in Turns \ {n} : ~Running(m)
<1>1. Len(messages) \in Nat
  BY LenProperties DEF IInv, TypeOK
<1>2. \A m \in Turns \ {n} : ~Running(m)
  BY DEF AloneInv, Sound
<1>3. \A m \in Turns \ {n} : turn[m].at \notin OddPlaces
  BY <1>2 DEF Running, OddPlaces
<1>4. turn[n].at \in OddPlaces <=> Len(messages) % 2 = 1
  BY <1>3 DEF ParityInv
<1>5. Len(messages) % 2 = 0 <=> ~(Len(messages) % 2 = 1)
  BY <1>1
<1> QED
  BY <1>1, <1>2, <1>4, <1>5 DEF ParityInv

LEMMA ParityStep ==
  ASSUME IInv, AloneInv, ParityInv, NEW n \in Turns, Works(n),
         turn'[n].calls <= 1 => turn[n].calls <= 1,
         Sound /\ turn'[n].threw \in {"no", "early"} /\ turn'[n].calls <= 1 => Fits(n)
  PROVE  ParityInv'
<1> SUFFICES ASSUME Sound'
             PROVE  /\ ParityTellsRole'
                    /\ (\E m \in Turns : turn'[m].at \in OddPlaces) <=> Len(messages') % 2 = 1
                    /\ \A m \in Turns : LongEnough(m)'
  BY DEF ParityInv
<1>1. /\ \A m \in Turns \ {n} : turn'[m] = turn[m]
      /\ overlapped' = overlapped /\ Running(n)
  BY DEF Works, Moves
<1>2. turn[n].threw = "no"
  BY <1>1, TurnFacts DEF PlaceOK, Running
<1>3. turn'[n].threw \in {"no", "early"} /\ turn'[n].calls <= 1 /\ ~overlapped
  BY <1>1 DEF Sound
<1>4. Sound
  <2>1. ASSUME NEW m \in Turns PROVE turn[m].threw \in {"no", "early"} /\ turn[m].calls <= 1
    BY <1>1, <1>2, <1>3 DEF Sound
  <2> QED
    BY <1>3, <2>1 DEF Sound
<1>5. Fits(n)
  BY <1>3, <1>4
<1>6. ASSUME NEW m \in Turns \ {n}
      PROVE  turn'[m].at \notin OddPlaces /\ LongEnough(m)'
  <2>1. turn'[m].at \in {"idle", "ended"}
    BY <1>1, <1>4, TurnParity DEF Running
  <2> QED
    BY <2>1 DEF OddPlaces, LongEnough
<1> QED
  BY <1>5, <1>6 DEF Fits

(* The steps that push.                                                    *)
LEMMA AskParity ==
  ASSUME IInv, AloneInv, ParityInv, NEW n \in Turns, Ask(n)
  PROVE  ParityInv'
<1>0. /\ turn[n].at = "ask" /\ turn[n].kind \in AllKinds /\ Running(n)
      /\ MovesTo(n, AfterQuestion(turn[n].kind)) /\ Works(n) /\ Push(n, "user")
  BY GotoMoves, TurnFacts, AskWorks, ConversationAssumption
  DEF Ask, At, PlaceOK, AddMessage, Running
<1>1. turn'[n].at \in {"answer", "curl", "header"} /\ turn'[n].calls = turn[n].calls
  BY <1>0 DEF AllKinds, AfterQuestion, MovesTo
<1>2. ASSUME Sound PROVE Fits(n)
  <2>1. ~overlapped /\ ParityTellsRole /\ Len(messages) % 2 = 0 /\ "user" \in Roles
    BY <1>0, <1>2, TurnParity DEF Sound, OddPlaces, Roles
  <2>2. ParityTellsRole' /\ Len(messages') = Len(messages) + 1 /\ Len(messages) \in Nat
    BY <1>0, <2>1, PushParity
  <2>3. Len(messages') % 2 = 1
    BY <2>1, <2>2
  <2> QED
    BY <1>1, <2>2, <2>3 DEF Fits, OddPlaces, LongEnough
<1> QED
  BY <1>0, <1>1, <1>2, ParityStep

LEMMA AnswerParity ==
  ASSUME IInv, AloneInv, ParityInv, NEW n \in Turns, Answer(n)
  PROVE  ParityInv'
<1>0. /\ turn[n].at = "answer" /\ Running(n) /\ Works(n) /\ Push(n, "assistant")
      /\ MovesTo(n, IF turn[n].kind = "stream" THEN "done" ELSE "ended")
  BY GotoMoves, AnswerWorks DEF Answer, At, AddMessage, Running
<1>1. turn'[n].at \in {"done", "ended"} /\ turn'[n].calls = turn[n].calls
  BY <1>0 DEF MovesTo
<1>2. ASSUME Sound PROVE Fits(n)
  <2>1. ~overlapped /\ ParityTellsRole /\ Len(messages) % 2 = 1 /\ "assistant" \in Roles
    BY <1>0, <1>2, TurnParity DEF Sound, OddPlaces, Roles
  <2>2. ~(Len(messages) % 2 = 0)
    BY <2>1
  <2>3. ParityTellsRole' /\ Len(messages') = Len(messages) + 1 /\ Len(messages) \in Nat
    BY <1>0, <2>1, <2>2, PushParity
  <2>4. ~(Len(messages') % 2 = 1)
    BY <2>1, <2>3
  <2> QED
    BY <1>1, <2>3, <2>4 DEF Fits, OddPlaces, LongEnough
<1> QED
  BY <1>0, <1>1, <1>2, ParityStep

LEMMA CallToolsParity ==
  ASSUME IInv, AloneInv, ParityInv, NEW n \in Turns, CallTools(n)
  PROVE  ParityInv'
<1>0. /\ turn[n].at = "curl" /\ Running(n) /\ Works(n) /\ Push(n, "call")
      /\ turn'[n].at = "tools" /\ turn[n].calls = 0
  BY CallToolsEffect, ChatWorks DEF CallTools, At, Running
<1>1. ASSUME Sound PROVE Fits(n)
  <2>1. ~overlapped /\ ParityTellsRole /\ Len(messages) % 2 = 1 /\ "call" \in Roles
    BY <1>0, <1>1, TurnParity DEF Sound, OddPlaces, Roles
  <2>2. ~(Len(messages) % 2 = 0)
    BY <2>1
  <2>3. ParityTellsRole' /\ Len(messages') = Len(messages) + 1 /\ Len(messages) \in Nat
    BY <1>0, <2>1, <2>2, PushParity
  <2>4. ~(Len(messages') % 2 = 1) /\ Len(messages') >= 2
    BY <2>1, <2>3
  <2> QED
    BY <1>0, <2>3, <2>4 DEF Fits, OddPlaces, LongEnough
<1> QED
  BY <1>0, <1>1, ParityStep

LEMMA InvokeToolParity ==
  ASSUME IInv, AloneInv, ParityInv, NEW n \in Turns, InvokeTool(n)
  PROVE  ParityInv'
<1>0. /\ turn[n].at = "tools" /\ turn[n].kind = "native" /\ Running(n) /\ Works(n)
      /\ Push(n, "tool") /\ turn[n].left \in 1..turn[n].calls
      /\ MovesTo(n, IF turn[n].left = 1 THEN "second" ELSE "tools")
  BY InvokeToolEffect, ChatWorks DEF InvokeTool, At, Running
<1>1. turn'[n].calls = turn[n].calls
  BY <1>0 DEF MovesTo
<1>2. ASSUME Sound PROVE Fits(n)
  <2>1. /\ ~overlapped /\ ParityTellsRole /\ Len(messages) % 2 = 0 /\ Len(messages) >= 2
        /\ "tool" \in Roles
    BY <1>0, <1>2, TurnParity DEF Sound, OddPlaces, Roles, LongEnough
  <2>2. turn'[n].at = "second"
    <3>1. turn[n].calls \in Nat /\ turn[n].calls <= 1
      BY <1>2, TurnFacts, ConversationAssumption DEF Sound, TurnSet
    <3>2. turn[n].left = 1
      BY <1>0, <3>1
    <3> QED
      BY <1>0, <3>2 DEF MovesTo
  <2>3. ParityTellsRole' /\ Len(messages') = Len(messages) + 1 /\ Len(messages) \in Nat
    BY <1>0, <2>1, PushParity
  <2>4. Len(messages') % 2 = 1 /\ Len(messages') >= 3
    BY <2>1, <2>3
  <2> QED
    BY <2>2, <2>3, <2>4 DEF Fits, OddPlaces, LongEnough
<1> QED
  BY <1>0, <1>1, <1>2, ParityStep

LEMMA PromptParity ==
  ASSUME IInv, AloneInv, ParityInv, NEW n \in Turns, Prompt(n) \/ PromptWithResult(n)
  PROVE  ParityInv'
<1>0. /\ turn[n].at \in {"prompt", "tools"} /\ turn[n].kind = "mcp" /\ Running(n) /\ Works(n)
      /\ Push(n, "prompt")
      /\ MovesTo(n, "curl") \/ MovesTo(n, "second")
  BY GotoMoves, TurnFacts, ChatWorks DEF Prompt, PromptWithResult, At, Running, PlaceOK
<1>1. /\ turn'[n].calls = turn[n].calls /\ turn'[n].kind = "mcp"
      /\ turn'[n].at \in {"curl", "second"}
  BY <1>0 DEF MovesTo
<1>2. ASSUME Sound PROVE Fits(n)
  <2>1. ~overlapped /\ ParityTellsRole /\ Len(messages) % 2 = 0 /\ "prompt" \in Roles
    BY <1>0, <1>2, TurnParity DEF Sound, OddPlaces, Roles
  <2>2. ParityTellsRole' /\ Len(messages') = Len(messages) + 1 /\ Len(messages) \in Nat
    BY <1>0, <2>1, PushParity
  <2>3. Len(messages') % 2 = 1
    BY <2>1, <2>2
  <2> QED
    BY <1>1, <2>2, <2>3 DEF Fits, OddPlaces, LongEnough
<1> QED
  BY <1>0, <1>1, <1>2, ParityStep

(* The steps that pop.                                                     *)
LEMMA ReplyToPromptParity ==
  ASSUME IInv, AloneInv, ParityInv, NEW n \in Turns,
         ReplyToPrompt(n) \/ ReplyToSecondPrompt(n)
  PROVE  ParityInv'
<1>0. /\ turn[n].at \in {"curl", "second"} /\ turn[n].kind = "mcp" /\ Running(n) /\ Works(n)
      /\ messages' = Without(1)
      /\ MovesTo(n, "ask") \/ MovesTo(n, "tools")
  BY GotoMoves, ChatWorks DEF ReplyToPrompt, ReplyToSecondPrompt, At, Running
<1>1. /\ turn'[n].calls = turn[n].calls /\ turn'[n].kind = "mcp"
      /\ turn'[n].at \in {"ask", "tools"}
  BY <1>0 DEF MovesTo
<1>2. ASSUME Sound PROVE Fits(n)
  <2>1. ParityTellsRole /\ Len(messages) % 2 = 1 /\ Len(messages) \in Nat
    BY <1>0, <1>2, TurnParity DEF OddPlaces
  <2>2. 1 <= Len(messages)
    BY <2>1
  <2>3. ParityTellsRole' /\ Len(messages') = Len(messages) - 1
    BY <1>0, <2>1, <2>2, DropParity
  <2>4. ~(Len(messages') % 2 = 1)
    BY <2>1, <2>2, <2>3
  <2> QED
    BY <1>1, <2>3, <2>4 DEF Fits, OddPlaces, LongEnough
<1> QED
  BY <1>0, <1>1, <1>2, ParityStep

LEMMA ReplyToResultsParity ==
  ASSUME IInv, AloneInv, ParityInv, NEW n \in Turns, ReplyToResults(n)
  PROVE  ParityInv'
<1>0. /\ turn[n].at = "second" /\ turn[n].kind = "native" /\ Running(n) /\ Works(n)
      /\ messages' = Without(2) /\ MovesTo(n, "answer")
  BY GotoMoves, ChatWorks DEF ReplyToResults, At, Running, Cleanup
<1>1. turn'[n].calls = turn[n].calls /\ turn'[n].at = "answer"
  BY <1>0 DEF MovesTo
<1>2. ASSUME Sound PROVE Fits(n)
  <2>1. /\ ParityTellsRole /\ Len(messages) % 2 = 1 /\ Len(messages) \in Nat
        /\ Len(messages) >= 3
    BY <1>0, <1>2, TurnParity DEF OddPlaces, LongEnough
  <2>2. ParityTellsRole' /\ Len(messages') = Len(messages) - 2
    BY <1>0, <2>1, DropParity
  <2>3. Len(messages') % 2 = 1
    BY <2>1, <2>2
  <2> QED
    BY <1>1, <2>2, <2>3 DEF Fits, OddPlaces, LongEnough
<1> QED
  BY <1>0, <1>1, <1>2, ParityStep

(* The steps that leave the messages alone.                                *)
LEMMA IdleParity ==
  ASSUME IInv, AloneInv, ParityInv, NEW n \in Turns, Works(n),
         messages' = messages, turn'[n].calls = turn[n].calls,
         turn[n].at \in OddPlaces <=> turn'[n].at \in OddPlaces,
         turn'[n].at \notin {"second", "tools"}
  PROVE  ParityInv'
<1>1. ASSUME Sound PROVE Fits(n)
  <2>1. Running(n)
    BY DEF Works
  <2>2. ParityTellsRole /\ (turn[n].at \in OddPlaces <=> Len(messages) % 2 = 1)
    BY <1>1, <2>1, TurnParity
  <2> QED
    BY <2>2 DEF Fits, LongEnough, ParityTellsRole, Spoken
<1> QED
  BY <1>1, ParityStep

LEMMA SendParity ==
  ASSUME IInv, AloneInv, ParityInv, NEW n \in Turns,
         \/ Reply(n) \/ ToolFails(n) \/ StreamReturns(n)
         \/ SendHeader(n) \/ OnChunk(n) \/ StreamThrows(n) \/ Finish(n)
  PROVE  ParityInv'
<1>1. /\ messages' = messages /\ Works(n)
      /\ \/ turn[n].at = "curl" /\ MovesTo(n, "answer")
         \/ turn[n].at = "tools" /\ MovesTo(n, "ask")
         \/ turn[n].at = "header" /\ MovesTo(n, "stream")
         \/ turn[n].at = "stream" /\ MovesTo(n, "stream")
         \/ turn[n].at = "stream" /\ MovesTo(n, "answer")
         \/ turn[n].at = "done" /\ MovesTo(n, "ended")
  BY GotoMoves, StreamOverEffect, OnChunkEffect, ChatWorks, StreamReturnsWorks, SendWorks
  DEF Reply, ToolFails, StreamReturns, SendHeader, OnChunk, StreamThrows, Finish, At
<1>2. /\ turn'[n].calls = turn[n].calls
      /\ turn[n].at \in OddPlaces <=> turn'[n].at \in OddPlaces
      /\ turn'[n].at \notin {"second", "tools"}
  BY <1>1 DEF MovesTo, OddPlaces
<1> QED
  BY <1>1, <1>2, IdleParity

LEMMA ThrowParity ==
  ASSUME IInv, AloneInv, ParityInv, NEW n \in Turns,
         Refused(n) \/ CurlThrows(n) \/ AskThrows(n) \/ AnswerThrows(n)
  PROVE  ParityInv'
<1>0. /\ Works(n) /\ turn'[n].at = "ended" /\ turn'[n].calls = turn[n].calls
      /\ Refused(n) \/ turn'[n].threw \in {"curl", "publish"}
  BY ThrowWorks, FailsEffect DEF Refused, CurlThrows, AskThrows, AnswerThrows, At, Start
<1>1. CASE Refused(n)
  <2>1. messages' = messages /\ turn[n].at \in {"ask", "prompt"}
    BY <1>1 DEF Refused, At, Start
  <2> QED
    BY <1>0, <2>1, IdleParity DEF OddPlaces
<1>2. CASE turn'[n].threw \in {"curl", "publish"}
  BY <1>0, <1>2, ParityStep
<1> QED
  BY <1>0, <1>1, <1>2

LEMMA NextParity == IInv /\ AloneInv /\ ParityInv /\ [Next]_vars => ParityInv'
<1> SUFFICES ASSUME IInv, AloneInv, ParityInv, [Next]_vars PROVE ParityInv'
  OBVIOUS
<1>1. ASSUME NEW n \in Turns, NEW kind \in Kinds, NEW new \in BOOLEAN, Begin(n, kind, new)
      PROVE  ParityInv'
  <2>1. /\ \A m \in Turns \ {n} : turn'[m] = turn[m]
        /\ turn[n].at = "idle" /\ turn'[n].at \in {"ask", "prompt"}
        /\ turn[n].calls = 0 /\ turn[n].threw = "no"
        /\ messages' = messages /\ (overlapped => overlapped')
    BY <1>1, BeginEffect DEF Begin
  <2>2. Sound' => Sound
    BY <2>1 DEF Sound
  <2>3. (\E m \in Turns : turn'[m].at \in OddPlaces) <=> (\E m \in Turns : turn[m].at \in OddPlaces)
    BY <2>1 DEF OddPlaces
  <2>4. ParityTellsRole => ParityTellsRole'
    BY <2>1 DEF ParityTellsRole, Spoken
  <2>5. ASSUME NEW m \in Turns, LongEnough(m) PROVE LongEnough(m)'
    BY <2>1, <2>5 DEF LongEnough
  <2> QED
    BY <2>1, <2>2, <2>3, <2>4, <2>5 DEF ParityInv
<1>2. ASSUME NEW n \in Turns, Leave(n) \/ RunFunctor(n) PROVE ParityInv'
  BY <1>2 DEF ParityInv, Sound, LongEnough, ParityTellsRole, Spoken, Leave, RunFunctor, others
<1>3. ASSUME NEW n \in Turns, Terminate(n) PROVE ParityInv'
  BY <1>3, TerminateEffect DEF ParityInv, Sound
<1>4. CASE UNCHANGED vars
  BY <1>4 DEF vars, ParityInv, Sound, LongEnough, ParityTellsRole, Spoken
<1> QED
  BY <1>1, <1>2, <1>3, <1>4, AskParity, AnswerParity, CallToolsParity, InvokeToolParity,
     PromptParity, ReplyToPromptParity, ReplyToResultsParity, SendParity, ThrowParity
  DEF Next, TurnStep

(* Whenever turns did not overlap, none was abandoned behind its first     *)
(* push and no response called two tools, the index tells the role.        *)
THEOREM RolesCorrect == Spec => []RolesByParity
<1>1. ParityInv => RolesByParity
  BY DEF ParityInv, Sound, RolesByParity
<1> QED
  BY <1>1, InitIInv, NextIInv, InitParity, NextAlone, NextParity, PTL DEF Spec

-----------------------------------------------------------------------------
(* History                                                                 *)

(* How many of the first k messages persist, when one more is looked at.   *)
LEMMA PersistentCount ==
  ASSUME NEW s \in Seq(Message), NEW k \in 0..Len(s)
  PROVE  /\ IsFiniteSet(PersistentTo(s, k)) /\ Cardinality(PersistentTo(s, k)) \in Nat
         /\ \A i \in 0..k : Cardinality(PersistentTo(s, i)) <= Cardinality(PersistentTo(s, k))
<1>1. Len(s) \in Nat /\ k \in Nat
  BY LenProperties
<1>2. ASSUME NEW i \in Nat PROVE IsFiniteSet(PersistentTo(s, i))
  <2>1. IsFiniteSet(1..i)
    BY FS_Interval
  <2> QED
    BY <2>1, FS_Subset DEF PersistentTo
<1>3. ASSUME NEW i \in 0..k
      PROVE  Cardinality(PersistentTo(s, i)) <= Cardinality(PersistentTo(s, k))
  <2>1. PersistentTo(s, i) \subseteq PersistentTo(s, k)
    BY <1>1 DEF PersistentTo
  <2> QED
    BY <1>1, <1>2, <2>1, FS_Subset
<1> QED
  BY <1>1, <1>2, <1>3, FS_CardinalityType

LEMMA PersistentNext ==
  ASSUME NEW s \in Seq(Message), NEW k \in 1..Len(s)
  PROVE  Cardinality(PersistentTo(s, k)) =
           IF Persistent(s[k]) THEN Cardinality(PersistentTo(s, k - 1)) + 1
                               ELSE Cardinality(PersistentTo(s, k - 1))
<1>1. Len(s) \in Nat /\ k \in Nat /\ k - 1 \in 0..Len(s)
  BY LenProperties
<1>2. IsFiniteSet(PersistentTo(s, k - 1))
  BY <1>1, PersistentCount
<1>3. CASE Persistent(s[k])
  <2>1. PersistentTo(s, k) = PersistentTo(s, k - 1) \cup {k} /\ k \notin PersistentTo(s, k - 1)
    BY <1>1, <1>3 DEF PersistentTo
  <2> QED
    BY <1>2, <1>3, <2>1, FS_AddElement
<1>4. CASE ~Persistent(s[k])
  <2>1. PersistentTo(s, k) = PersistentTo(s, k - 1)
    BY <1>1, <1>4 DEF PersistentTo
  <2> QED
    BY <1>4, <2>1
<1> QED
  BY <1>3, <1>4

(* Two sequences with one beginning have the same count up to its end.     *)
LEMMA PersistentPrefix ==
  ASSUME NEW s, NEW t, NEW l \in Nat, NEW k \in 0..l, \A i \in 1..l : t[i] = s[i]
  PROVE  PersistentTo(t, k) = PersistentTo(s, k)
BY DEF PersistentTo, Persistent

(* A persistent message finds its row among the rows there are.            *)
LEMMA RowOfMessage ==
  ASSUME NEW s \in Seq(Message), NEW p \in Seq(Row), Agrees(s, p),
         NEW i \in 1..Len(s), Persistent(s[i])
  PROVE  Cardinality(PersistentTo(s, i)) \in 1..Len(p) /\ s[i] = p[Cardinality(PersistentTo(s, i))]
<1>1. /\ Len(s) \in Nat /\ Len(p) \in Nat /\ DOMAIN s = 1..Len(s)
      /\ i - 1 \in 0..Len(s) /\ i \in 0..Len(s) /\ Len(s) \in 0..Len(s)
  BY LenProperties
<1> DEFINE c(k) == Cardinality(PersistentTo(s, k))
<1>2. c(i) = c(i - 1) + 1
  BY PersistentNext
<1>3. c(i - 1) \in Nat /\ c(i) \in Nat
  BY <1>1, PersistentCount
<1>4. c(i) <= c(Len(s)) /\ c(Len(s)) = Len(p)
  BY <1>1, PersistentCount DEF Agrees
<1>5. c(i) \in 1..Len(p)
  <2> HIDE DEF c
  <2> QED
    BY <1>1, <1>2, <1>3, <1>4
<1>6. s[i] = p[c(i)]
  BY <1>1 DEF Agrees
<1> QED
  BY <1>5, <1>6

(* A temporary message changes nothing, a persistent one comes with a row. *)
LEMMA AppendAgrees ==
  ASSUME NEW s \in Seq(Message), NEW p \in Seq(Row), NEW m \in Message, NEW q, Agrees(s, p),
         \/ Persistent(m) /\ m \in Row /\ q = Append(p, m)
         \/ ~Persistent(m) /\ q = p
  PROVE  Agrees(Append(s, m), q)
<1> DEFINE t == Append(s, m)
           l == Len(s)
           c(k) == Cardinality(PersistentTo(s, k))
           d(k) == Cardinality(PersistentTo(t, k))
<1>1. l \in Nat /\ DOMAIN s = 1..l /\ Len(p) \in Nat /\ l \in 0..l
  BY LenProperties
<1>2. /\ t \in Seq(Message) /\ Len(t) = l + 1 /\ \A i \in 1..l : t[i] = s[i]
      /\ t[l + 1] = m /\ DOMAIN t = 1..(l + 1)
  BY AppendProperties, LenProperties
<1>3. ASSUME NEW k \in 0..l PROVE d(k) = c(k)
  BY <1>1, <1>2, PersistentPrefix
<1>4. c(l) = Len(p)
  BY DEF Agrees
<1>5. d(l + 1) = IF Persistent(m) THEN Len(p) + 1 ELSE Len(p)
  <2>1. l + 1 \in 1..Len(t) /\ (l + 1) - 1 = l
    BY <1>1, <1>2
  <2>2. d(l + 1) = IF Persistent(t[l + 1]) THEN d(l) + 1 ELSE d(l)
    BY <1>2, <2>1, PersistentNext
  <2> QED
    BY <1>1, <1>2, <1>3, <1>4, <2>2
<1>6. ASSUME NEW i \in 1..l, Persistent(t[i]) PROVE t[i] = p[d(i)] /\ d(i) \in 1..Len(p)
  <2>1. t[i] = s[i] /\ d(i) = c(i)
    BY <1>1, <1>2, <1>3
  <2>2. c(i) \in 1..Len(p) /\ s[i] = p[c(i)]
    BY <1>6, <2>1, RowOfMessage
  <2> QED
    BY <2>1, <2>2
<1>7. CASE Persistent(m) /\ m \in Row /\ q = Append(p, m)
  <2>1. Len(q) = Len(p) + 1 /\ q[Len(p) + 1] = m /\ \A j \in 1..Len(p) : q[j] = p[j]
    BY <1>7, AppendProperties
  <2>2. ASSUME NEW i \in 1..(l + 1), Persistent(t[i]) PROVE t[i] = q[d(i)]
    <3>1. CASE i \in 1..l
      BY <1>6, <2>1, <2>2, <3>1
    <3>2. CASE i = l + 1
      BY <1>2, <1>5, <1>7, <2>1, <3>2
    <3> QED
      BY <1>1, <3>1, <3>2
  <2> QED
    BY <1>2, <1>5, <1>7, <2>1, <2>2 DEF Agrees
<1>8. CASE ~Persistent(m) /\ q = p
  <2>1. ASSUME NEW i \in 1..(l + 1), Persistent(t[i]) PROVE t[i] = q[d(i)]
    <3>1. i \in 1..l
      BY <1>1, <1>2, <1>8, <2>1
    <3> QED
      BY <1>6, <1>8, <2>1, <3>1
  <2> QED
    BY <1>2, <1>5, <1>8, <2>1 DEF Agrees
<1> QED
  BY <1>7, <1>8

(* The last k messages of s are temporary.                                 *)
EndsTemporary(s, k) ==
  k <= Len(s) /\ \A i \in 1..Len(s) : i > Len(s) - k => ~Persistent(s[i])

(* They may go, at most two at a time.                                     *)
LEMMA DropAgrees ==
  ASSUME NEW s \in Seq(Message), NEW p \in Seq(Row), Agrees(s, p), NEW k \in 1..2,
         EndsTemporary(s, k)
  PROVE  Agrees(SubSeq(s, 1, Len(s) - k), p)
<1> DEFINE t == SubSeq(s, 1, Len(s) - k)
           l == Len(s)
           c(j) == Cardinality(PersistentTo(s, j))
<1>1. l \in Nat /\ DOMAIN s = 1..l /\ k <= l /\ l - k \in Nat
  BY LenProperties DEF EndsTemporary
<1>2. /\ Len(t) = l - k /\ \A i \in 1..(l - k) : t[i] = s[i]
      /\ DOMAIN t = 1..(l - k)
  <2>1. \A i \in 1..(l - k) : s[i] \in Message
    BY <1>1, ElementOfSeq
  <2>2. /\ t \in Seq(Message)
        /\ Len(t) = IF 1 <= l - k THEN l - k - 1 + 1 ELSE 0
        /\ \A i \in 1..(l - k - 1 + 1) : t[i] = s[1 + i - 1]
    BY <1>1, <2>1, SubSeqProperties
  <2>3. Len(t) = l - k
    <3> HIDE DEF t, l
    <3> QED
      BY <1>1, <2>2
  <2>4. ASSUME NEW i \in 1..(l - k) PROVE t[i] = s[i]
    BY <1>1, <2>2
  <2> QED
    BY <2>2, <2>3, <2>4, LenProperties
<1> HIDE DEF t
<1>3. ASSUME NEW j \in 0..(l - k) PROVE Cardinality(PersistentTo(t, j)) = c(j)
  BY <1>1, <1>2, PersistentPrefix
<1>4. c(l - k) = c(l)
  <2>1. l \in 1..l /\ ~Persistent(s[l])
    BY <1>1 DEF EndsTemporary
  <2>2. c(l) = c(l - 1)
    BY <2>1, PersistentNext
  <2>3. CASE k = 1
    BY <2>2, <2>3
  <2>4. CASE k = 2
    <3>1. l - 1 \in 1..l /\ l - 1 > l - k /\ (l - 1) - 1 = l - 2
      BY <1>1, <2>4
    <3>2. ~Persistent(s[l - 1])
      BY <3>1 DEF EndsTemporary
    <3>3. c(l - 1) = c(l - 2)
      BY <3>1, <3>2, PersistentNext
    <3> QED
      BY <2>2, <2>4, <3>3
  <2> QED
    BY <2>3, <2>4
<1>5. Cardinality(PersistentTo(t, Len(t))) = Len(p)
  BY <1>1, <1>2, <1>3, <1>4 DEF Agrees
<1>6. ASSUME NEW i \in DOMAIN t, Persistent(t[i])
      PROVE  t[i] = p[Cardinality(PersistentTo(t, i))]
  <2>1. i \in 1..l /\ i \in 0..(l - k) /\ t[i] = s[i]
    BY <1>1, <1>2
  <2> QED
    BY <1>1, <1>3, <1>6, <2>1 DEF Agrees
<1>7. Agrees(t, p)
  BY <1>5, <1>6 DEF Agrees
<1> QED
  BY <1>7 DEF t

-----------------------------------------------------------------------------
Settled == ~overlapped /\ \A n \in Turns : turn[n].threw # "publish"

(* What a turn will pop is temporary: what a native one pushed for its     *)
(* tools, or the prompt of an MCP one.                                     *)
TemporaryOK(n) ==
  /\ turn[n].kind = "native" /\ turn[n].at = "tools" => EndsTemporary(messages, 1)
  /\ turn[n].kind = "native" /\ turn[n].at = "second" => EndsTemporary(messages, 2)
  /\ turn[n].kind = "mcp" /\ turn[n].at \in {"curl", "second"} => EndsTemporary(messages, 1)

HistoryInv ==
  Settled => Agrees(messages, published) /\ \A n \in Turns : TemporaryOK(n)

LEMMA InitHistory == Init => HistoryInv
<1> SUFFICES ASSUME Init PROVE Agrees(messages, published) /\ \A n \in Turns : TemporaryOK(n)
  BY DEF HistoryInv
<1>1. messages = <<>> /\ published = <<>> /\ Len(messages) = 0 /\ DOMAIN messages = {}
  BY DEF Init
<1>2. PersistentTo(messages, 0) = {}
  BY DEF PersistentTo
<1>3. Agrees(messages, published)
  BY <1>1, <1>2, FS_EmptySet DEF Agrees
<1> QED
  BY <1>3 DEF Init, TemporaryOK, Silent

(* What a step of a turn has to show.                                      *)
Keeps(n) == Agrees(messages, published)' /\ TemporaryOK(n)'

LEMMA HistoryStep ==
  ASSUME IInv, AloneInv, HistoryInv, NEW n \in Turns, Works(n),
         /\ Agrees(messages, published) /\ TemporaryOK(n) /\ ~Racing(n)
         /\ turn'[n].threw # "publish"
         => Keeps(n)
  PROVE  HistoryInv'
<1> SUFFICES ASSUME Settled'
             PROVE  Agrees(messages, published)' /\ \A m \in Turns : TemporaryOK(m)'
  BY DEF HistoryInv
<1>1. /\ \A m \in Turns \ {n} : turn'[m] = turn[m]
      /\ overlapped' = overlapped /\ Running(n)
  BY DEF Works, Moves
<1>2. turn[n].threw = "no"
  BY <1>1, TurnFacts DEF PlaceOK, Running
<1>3. ~overlapped /\ turn'[n].threw # "publish"
  BY <1>1 DEF Settled
<1>4. Settled
  <2>1. ASSUME NEW m \in Turns PROVE turn[m].threw # "publish"
    BY <1>1, <1>2, <1>3 DEF Settled
  <2> QED
    BY <1>3, <2>1 DEF Settled
<1>5. \A m \in Turns \ {n} : ~Running(m)
  BY <1>1, <1>3 DEF AloneInv
<1>6. ~Racing(n)
  BY <1>5 DEF Racing, Running
<1>7. Keeps(n)
  BY <1>3, <1>4, <1>6 DEF HistoryInv
<1>8. ASSUME NEW m \in Turns \ {n} PROVE TemporaryOK(m)'
  <2>1. turn'[m].at \in {"idle", "ended"}
    BY <1>1, <1>5 DEF Running
  <2> QED
    BY <2>1 DEF TemporaryOK
<1> QED
  BY <1>7, <1>8 DEF Keeps

(* A push puts the message at the end, behind what was there.              *)
LEMMA PushEnds ==
  ASSUME IInv, NEW n \in Turns, NEW role \in Roles, Push(n, role), ~Racing(n)
  PROVE  /\ messages \in Seq(Message) /\ published \in Seq(Row)
         /\ [role |-> role, turn |-> n] \in Message
         /\ messages' = Append(messages, [role |-> role, turn |-> n])
         /\ ~Persistent([role |-> role, turn |-> n]) =>
              /\ EndsTemporary(messages', 1)
              /\ EndsTemporary(messages, 1) => EndsTemporary(messages', 2)
<1> DEFINE e == [role |-> role, turn |-> n]
<1>1. /\ messages \in Seq(Message) /\ published \in Seq(Row) /\ e \in Message
      /\ Len(messages) \in Nat
  BY LenProperties DEF IInv, TypeOK, Message, Row
<1>2. messages' = Append(messages, e)
  BY DEF Push
<1>3. /\ Len(messages') = Len(messages) + 1 /\ messages'[Len(messages) + 1] = e
      /\ \A i \in 1..Len(messages) : messages'[i] = messages[i]
  BY <1>1, <1>2, AppendProperties
<1>4. ASSUME ~Persistent(e) PROVE EndsTemporary(messages', 1)
  <2>1. ASSUME NEW i \in 1..Len(messages'), i > Len(messages') - 1
        PROVE  ~Persistent(messages'[i])
    <3>1. i = Len(messages) + 1
      BY <1>1, <1>3, <2>1
    <3> QED
      BY <1>3, <1>4, <3>1
  <2> QED
    BY <1>1, <1>3, <2>1 DEF EndsTemporary
<1>5. ASSUME ~Persistent(e), EndsTemporary(messages, 1) PROVE EndsTemporary(messages', 2)
  <2>1. ASSUME NEW i \in 1..Len(messages'), i > Len(messages') - 2
        PROVE  ~Persistent(messages'[i])
    <3>1. CASE i = Len(messages) + 1
      BY <1>3, <1>5, <3>1
    <3>2. CASE i # Len(messages) + 1
      <4>1. i \in 1..Len(messages) /\ i > Len(messages) - 1
        BY <1>1, <1>3, <2>1, <3>2
      <4> QED
        BY <1>3, <1>5, <4>1 DEF EndsTemporary
    <3> QED
      BY <3>1, <3>2
  <2>2. 2 <= Len(messages')
    BY <1>1, <1>3, <1>5 DEF EndsTemporary
  <2> QED
    BY <2>1, <2>2 DEF EndsTemporary
<1> QED
  BY <1>1, <1>2, <1>4, <1>5

(* Questions and answers come with their rows.                             *)
LEMMA AddHistory ==
  ASSUME IInv, AloneInv, HistoryInv, NEW n \in Turns, Ask(n) \/ Answer(n)
  PROVE  HistoryInv'
<1>1. PICK role \in {"user", "assistant"} : AddMessage(n, role)
  BY DEF Ask, Answer
<1>2. Works(n)
  BY AskWorks, AnswerWorks
<1>3. /\ turn'[n].kind = turn[n].kind
      /\ turn'[n].kind \in {"native", "mcp"} => turn'[n].at \notin {"tools", "second"}
      /\ turn'[n].kind = "mcp" => turn'[n].at # "curl"
  <2>1. CASE Ask(n)
    <3>1. turn[n].kind \in AllKinds /\ MovesTo(n, AfterQuestion(turn[n].kind))
      BY <2>1, GotoMoves, TurnFacts, ConversationAssumption DEF Ask, At, PlaceOK
    <3> QED
      BY <3>1 DEF MovesTo, AfterQuestion, AllKinds
  <2>2. CASE Answer(n)
    BY <2>2, GotoMoves DEF Answer, MovesTo
  <2> QED
    BY <2>1, <2>2
<1>4. ASSUME Agrees(messages, published), ~Racing(n) PROVE Keeps(n)
  <2> DEFINE e == [role |-> role, turn |-> n]
  <2>1. /\ messages \in Seq(Message) /\ published \in Seq(Row) /\ e \in Message
        /\ messages' = Append(messages, e)
    BY <1>1, <1>4, PushEnds DEF AddMessage, Roles
  <2>2. e \in Row /\ Persistent(e) /\ published' = Append(published, e)
    BY <1>1 DEF AddMessage, Row, Persistent
  <2>3. Agrees(messages', published')
    BY <1>4, <2>1, <2>2, AppendAgrees
  <2> QED
    BY <1>3, <2>3 DEF Keeps, TemporaryOK
<1> QED
  BY <1>2, <1>4, HistoryStep

(* Prompts, calls and results are temporary.                               *)
LEMMA PushHistory ==
  ASSUME IInv, AloneInv, HistoryInv, NEW n \in Turns,
         CallTools(n) \/ InvokeTool(n) \/ Prompt(n) \/ PromptWithResult(n)
  PROVE  HistoryInv'
<1>1. PICK role \in {"prompt", "call", "tool"} : Push(n, role)
  BY DEF CallTools, InvokeTool, Prompt, PromptWithResult
<1>2. Works(n) /\ published' = published
  BY ChatWorks DEF CallTools, InvokeTool, Prompt, PromptWithResult
<1>3. \/ turn'[n].kind = "native" /\ turn'[n].at = "tools"
      \/ turn'[n].kind = "native" /\ turn[n].kind = "native" /\ turn[n].at = "tools"
      \/ turn'[n].kind = "mcp"
  <2>1. CASE CallTools(n)
    BY <2>1, CallToolsEffect, <1>2 DEF CallTools, Works
  <2>2. CASE InvokeTool(n)
    BY <2>2, <1>2 DEF InvokeTool, At, Works
  <2>3. CASE Prompt(n) \/ PromptWithResult(n)
    BY <2>3, <1>2, TurnFacts DEF Prompt, PromptWithResult, At, PlaceOK, Works
  <2> QED
    BY <2>1, <2>2, <2>3
<1>4. ASSUME Agrees(messages, published), TemporaryOK(n), ~Racing(n) PROVE Keeps(n)
  <2> DEFINE e == [role |-> role, turn |-> n]
  <2>1. ~Persistent(e)
    BY DEF Persistent
  <2>2. /\ messages \in Seq(Message) /\ published \in Seq(Row) /\ e \in Message
        /\ messages' = Append(messages, e)
        /\ EndsTemporary(messages', 1)
        /\ EndsTemporary(messages, 1) => EndsTemporary(messages', 2)
    BY <1>1, <1>4, <2>1, PushEnds DEF Roles
  <2>3. Agrees(messages', published')
    BY <1>2, <1>4, <2>1, <2>2, AppendAgrees
  <2> QED
    BY <1>3, <1>4, <2>2, <2>3 DEF Keeps, TemporaryOK
<1> QED
  BY <1>2, <1>4, HistoryStep

(* They are popped, before the question of an MCP turn and the answer of a *)
(* native one.                                                             *)
LEMMA PopHistory ==
  ASSUME IInv, AloneInv, HistoryInv, NEW n \in Turns,
         ReplyToResults(n) \/ ReplyToPrompt(n) \/ ReplyToSecondPrompt(n)
  PROVE  HistoryInv'
<1>1. PICK k \in 1..2 :
        /\ messages' = Without(k)
        /\ TemporaryOK(n) => EndsTemporary(messages, k)
  <2>1. CASE ReplyToResults(n)
    BY <2>1 DEF ReplyToResults, Cleanup, At, TemporaryOK
  <2>2. CASE ReplyToPrompt(n) \/ ReplyToSecondPrompt(n)
    BY <2>2 DEF ReplyToPrompt, ReplyToSecondPrompt, At, TemporaryOK
  <2> QED
    BY <2>1, <2>2
<1>2. Works(n) /\ published' = published
  BY ChatWorks DEF ReplyToResults, ReplyToPrompt, ReplyToSecondPrompt
<1>3. /\ turn'[n].kind = "native" => turn'[n].at = "answer"
      /\ turn'[n].kind = "mcp" => turn'[n].at \in {"ask", "tools"}
  <2>1. CASE ReplyToResults(n)
    BY <2>1, GotoMoves DEF ReplyToResults, At, MovesTo
  <2>2. CASE ReplyToPrompt(n) \/ ReplyToSecondPrompt(n)
    BY <2>2, GotoMoves DEF ReplyToPrompt, ReplyToSecondPrompt, At, MovesTo
  <2> QED
    BY <2>1, <2>2
<1>4. ASSUME Agrees(messages, published), TemporaryOK(n) PROVE Keeps(n)
  <2>1. messages \in Seq(Message) /\ published \in Seq(Row)
    BY DEF IInv, TypeOK, Message, Row
  <2>2. Agrees(SubSeq(messages, 1, Len(messages) - k), published)
    BY <1>1, <1>4, <2>1, DropAgrees
  <2>3. Agrees(messages', published')
    BY <1>1, <1>2, <2>2 DEF Without
  <2> QED
    BY <1>3, <2>3 DEF Keeps, TemporaryOK
<1> QED
  BY <1>2, <1>4, HistoryStep

(* The other steps of a turn leave messages and rows alone, or a           *)
(* publication failed.                                                     *)
LEMMA IdleHistory ==
  ASSUME IInv, AloneInv, HistoryInv, NEW n \in Turns,
         \/ Reply(n) \/ ToolFails(n) \/ StreamReturns(n)
         \/ SendHeader(n) \/ OnChunk(n) \/ StreamThrows(n) \/ Finish(n)
         \/ Refused(n) \/ CurlThrows(n) \/ AskThrows(n) \/ AnswerThrows(n)
  PROVE  HistoryInv'
<1>1. /\ Works(n)
      /\ turn'[n].at \notin {"tools", "second", "curl"}
      /\ \/ messages' = messages /\ published' = published
         \/ turn'[n].threw = "publish"
  <2>1. CASE Reply(n) \/ ToolFails(n) \/ StreamReturns(n)
    BY <2>1, GotoMoves, StreamOverEffect, ChatWorks, StreamReturnsWorks
    DEF Reply, ToolFails, StreamReturns, MovesTo
  <2>2. CASE SendHeader(n) \/ OnChunk(n) \/ StreamThrows(n) \/ Finish(n)
    BY <2>2, GotoMoves, StreamOverEffect, OnChunkEffect, SendWorks
    DEF SendHeader, OnChunk, StreamThrows, Finish, MovesTo
  <2>3. CASE Refused(n) \/ CurlThrows(n)
    BY <2>3, ThrowWorks, FailsEffect DEF Refused, CurlThrows, At, Start
  <2>4. CASE AskThrows(n) \/ AnswerThrows(n)
    BY <2>4, ThrowWorks, FailsEffect DEF AskThrows, AnswerThrows, At
  <2> QED
    BY <2>1, <2>2, <2>3, <2>4
<1>2. ASSUME Agrees(messages, published), turn'[n].threw # "publish" PROVE Keeps(n)
  BY <1>1, <1>2 DEF Keeps, TemporaryOK
<1> QED
  BY <1>1, <1>2, HistoryStep

LEMMA NextHistory == IInv /\ AloneInv /\ HistoryInv /\ [Next]_vars => HistoryInv'
<1> SUFFICES ASSUME IInv, AloneInv, HistoryInv, [Next]_vars PROVE HistoryInv'
  OBVIOUS
<1>1. ASSUME NEW n \in Turns, NEW kind \in Kinds, NEW new \in BOOLEAN, Begin(n, kind, new)
      PROVE  HistoryInv'
  <2>0. messages' = messages /\ published' = published /\ (overlapped => overlapped')
    BY <1>1 DEF Begin
  <2>1. /\ \A m \in Turns \ {n} : turn'[m] = turn[m]
        /\ turn'[n].at = Start(turn'[n].kind) /\ turn[n].threw = "no"
    BY <1>1, BeginEffect
  <2>2. Settled' => Settled
    BY <2>0, <2>1 DEF Settled
  <2>3. ASSUME NEW m \in Turns, TemporaryOK(m) PROVE TemporaryOK(m)'
    BY <2>0, <2>1, <2>3 DEF TemporaryOK, Start
  <2> QED
    BY <2>0, <2>1, <2>2, <2>3 DEF HistoryInv
<1>2. ASSUME NEW n \in Turns, Leave(n) \/ RunFunctor(n) PROVE HistoryInv'
  BY <1>2 DEF HistoryInv, Settled, TemporaryOK, Leave, RunFunctor, others
<1>3. ASSUME NEW n \in Turns, Terminate(n) PROVE HistoryInv'
  BY <1>3, TerminateEffect DEF HistoryInv, Settled, Terminate, At, Running
<1>4. CASE UNCHANGED vars
  BY <1>4 DEF vars, HistoryInv, Settled, TemporaryOK
<1> QED
  BY <1>1, <1>2, <1>3, <1>4, AddHistory, PushHistory, PopHistory, IdleHistory DEF Next, TurnStep

(* Unless turns overlapped or a publication failed, the messages that are  *)
(* not temporary are the published rows, in their order.                   *)
THEOREM HistoryCorrect == Spec => []HistoryIsPublished
<1>1. HistoryInv => HistoryIsPublished
  BY DEF HistoryInv, Settled, HistoryIsPublished
<1> QED
  BY <1>1, InitIInv, NextIInv, InitParity, NextAlone, InitHistory, NextHistory, PTL DEF Spec

=============================================================================
