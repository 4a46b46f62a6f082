--------------------------- MODULE HttpConnection ---------------------------
(***************************************************************************)
(* One connection of the HTTP server: HttpServer::onMessage is called with *)
(* what has arrived, HttpContext parses it piece by piece, a complete      *)
(* request goes through the middlewares and the router, and the context is *)
(* reset for the next one.  All of it runs on the connection's event loop. *)
(*                                                                         *)
(* A piece is what the parser consumes at once: a request line, the header *)
(* with the length, the empty line, a body.  (Other headers and incomplete *)
(* lines change nothing.)  A client sends the next request when it has its *)
(* answer; one that does not wait is remembered as hurried.                *)
(***************************************************************************)
EXTENDS Naturals, Sequences

CONSTANTS Shapes,      \* what a client may ask
          MaxRequests  \* bound: requests on the connection

Methods == {"get", "post", "options"}
Lengths == {"none", "malformed", "zero", "body", "negative"}

(* Only what is posted has a body.                                         *)
ASSUME HttpConnectionAssumption ==
  /\ Shapes \subseteq [method : Methods, version : BOOLEAN, length : Lengths]
  /\ \A shape \in Shapes : shape.length = "body" => shape.method = "post"
  /\ MaxRequests \in Nat

VARIABLES
  asked,     \* the requests the client began to send
  unsent,    \* pieces of the last of them the client still holds
  arriving,  \* pieces in the socket
  buffer,    \* pieces muduo has read
  parsing,   \* onMessage runs
  state_, request_,  \* the HttpContext
  handled,   \* the requests given to handlers
  out,       \* what was sent, and for which request
  streaming, \* the requests detached threads are answering
  up,        \* shutdown() was not called
  hurried    \* the client did not wait for an answer

client == <<asked, unsent, hurried>>
context == <<buffer, state_, request_>>
vars == <<client, arriving, parsing, context, handled, out, streaming, up>>

Requests == 1..MaxRequests

(* line, headers, body: the requests of the client these come from.        *)
Blank == [method |-> "none", line |-> 0, length |-> "none", headers |-> 0,
          contentLength |-> 0, body |-> 0]

Init ==
  /\ asked = <<>> /\ unsent = <<>> /\ arriving = <<>> /\ buffer = <<>>
  /\ parsing = FALSE /\ state_ = "kExpectRequestLine" /\ request_ = Blank
  /\ handled = <<>> /\ out = <<>> /\ streaming = {} /\ up = TRUE /\ hurried = FALSE

-----------------------------------------------------------------------------
(* The client                                                              *)

Pieces(k, shape) ==
  LET piece(part) == <<[of |-> k, part |-> part]>>
  IN piece("line") \o (IF shape.length = "none" THEN <<>> ELSE piece("length"))
       \o piece("empty") \o (IF shape.length = "body" THEN piece("body") ELSE <<>>)

Answered(k) ==
  \E i \in DOMAIN out : out[i].of = k /\ out[i].what \in {"response", "badRequest", "done"}

BeginRequest(shape) ==
  /\ Len(asked) < MaxRequests
  /\ unsent = <<>>
  /\ asked' = Append(asked, shape)
  /\ unsent' = Pieces(Len(asked) + 1, shape)
  /\ hurried' = (hurried \/ ~up \/ (asked # <<>> /\ ~Answered(Len(asked))))
  /\ UNCHANGED <<arriving, parsing, context, handled, out, streaming, up>>

SendPiece ==
  /\ unsent # <<>>
  /\ arriving' = Append(arriving, Head(unsent))
  /\ unsent' = Tail(unsent)
  /\ UNCHANGED <<asked, hurried, parsing, context, handled, out, streaming, up>>

-----------------------------------------------------------------------------
(* HttpServer::onMessage and HttpContext::parseRequest                     *)

(* muduo reads the socket; what a shut down connection receives is read    *)
(* like anything else.                                                     *)
OnMessage ==
  /\ ~parsing
  /\ arriving # <<>>
  /\ buffer' = buffer \o arriving
  /\ arriving' = <<>>
  /\ parsing' = TRUE
  /\ UNCHANGED <<client, state_, request_, handled, out, streaming, up>>

Front == Head(buffer)
Retrieve == buffer' = Tail(buffer)
Parsing(state) == parsing /\ state_ = state
Next_(state) == Parsing(state) /\ buffer # <<>>

(* conn->send does nothing behind shutdown().                              *)
Sent(k, what) == IF up THEN Append(out, [of |-> k, what |-> what]) ELSE out

(* 400 and shutdown(), for a parse error and for an exception.             *)
Reject ==
  /\ out' = Sent(Front.of, "badRequest")
  /\ up' = FALSE
  /\ parsing' = FALSE
  /\ UNCHANGED <<client, arriving, handled, streaming>>

Continue == UNCHANGED <<client, arriving, parsing, handled, out, streaming, up>>

ReadLine ==
  /\ Next_("kExpectRequestLine")
  /\ Front.part = "line" /\ asked[Front.of].version
  /\ request_' = [request_ EXCEPT !.method = asked[Front.of].method, !.line = Front.of]
  /\ state_' = "kExpectHeaders"
  /\ Retrieve /\ Continue

(* The version is wrong: the method is set, the line stays in the buffer.  *)
(* (A later piece runs setMethod on it again, whose assertion fails then;  *)
(* the documented Release build has none.)                                 *)
RejectLine ==
  /\ Next_("kExpectRequestLine")
  /\ Front.part = "line" /\ ~asked[Front.of].version
  /\ request_' = [request_ EXCEPT !.method = asked[Front.of].method]
  /\ UNCHANGED <<buffer, state_>>
  /\ Reject

ReadHeader ==
  /\ Next_("kExpectHeaders")
  /\ Front.part = "length"
  /\ request_' = [request_ EXCEPT !.length = asked[Front.of].length, !.headers = Front.of]
  /\ UNCHANGED state_
  /\ Retrieve /\ Continue

(* A line without a colon: an error, but the line is retrieved.            *)
RejectHeader ==
  /\ Next_("kExpectHeaders")
  /\ Front.part = "line"
  /\ UNCHANGED <<state_, request_>>
  /\ Retrieve /\ Reject

HasBody == request_.method = "post"
EndOfHeaders == Next_("kExpectHeaders") /\ Front.part = "empty"

EndWithoutBody ==
  /\ EndOfHeaders
  /\ ~HasBody
  /\ state_' = "kGotAll"
  /\ UNCHANGED request_
  /\ Retrieve /\ Continue

(* A POST needs a length; the state stays at the headers.                  *)
RejectPost ==
  /\ EndOfHeaders
  /\ HasBody /\ request_.length = "none"
  /\ UNCHANGED <<state_, request_>>
  /\ Retrieve /\ Reject

(* stoi throws, before the empty line is retrieved.                        *)
StoiThrows ==
  /\ EndOfHeaders
  /\ HasBody /\ request_.length = "malformed"
  /\ UNCHANGED context
  /\ Reject

(* stoi to uint64_t, in pieces: a negative length becomes more than any    *)
(* connection carries.                                                     *)
Converted == [zero |-> 0, body |-> 1, negative |-> 4 * MaxRequests + 1]

StartBody ==
  /\ EndOfHeaders
  /\ HasBody /\ request_.length \in DOMAIN Converted
  /\ LET n == Converted[request_.length]
     IN /\ request_' = [request_ EXCEPT !.contentLength = n]
        /\ state_' = IF n > 0 THEN "kExpectBody" ELSE "kGotAll"
  /\ Retrieve

(* A bug: hasMore is cleared, as it is when no body follows.               *)
EndWithLength_Stops ==
  /\ StartBody
  /\ parsing' = (state_' = "kGotAll")
  /\ UNCHANGED <<client, arriving, handled, out, streaming, up>>

EndWithLength == StartBody /\ Continue

Short == Len(buffer) < request_.contentLength

(* A bug: the body is not retrieved.                                       *)
ReadBody_NotRetrieved ==
  /\ Next_("kExpectBody")
  /\ ~Short
  /\ request_' = [request_ EXCEPT !.body = Front.of]
  /\ state_' = "kGotAll"
  /\ UNCHANGED buffer /\ Continue

ReadBody ==
  /\ Next_("kExpectBody")
  /\ ~Short
  /\ request_' = [request_ EXCEPT !.body = Front.of]
  /\ state_' = "kGotAll"
  /\ Retrieve /\ Continue

WaitForMore ==
  /\ \/ buffer = <<>> /\ (Parsing("kExpectRequestLine") \/ Parsing("kExpectHeaders"))
     \/ Parsing("kExpectBody") /\ Short
  /\ parsing' = FALSE
  /\ UNCHANGED <<client, arriving, context, handled, out, streaming, up>>

-----------------------------------------------------------------------------
(* HttpServer::onRequest, handleRequest, and HttpContext::reset            *)

(* A bug: the headers are not swapped either.                              *)
AfterReset_KeepsHeaders(request) ==
  [Blank EXCEPT !.length = request.length, !.headers = request.headers,
                !.contentLength = request.contentLength, !.body = request.body]

(* HttpRequest::swap leaves the body and its length where they are.        *)
AfterReset(request) ==
  [Blank EXCEPT !.contentLength = request.contentLength, !.body = request.body]

(* One request is taken from the buffer; a second one in it waits until    *)
(* something arrives.                                                      *)
Dispatched ==
  /\ Parsing("kGotAll")
  /\ state_' = "kExpectRequestLine"
  /\ request_' = AfterReset(request_)
  /\ parsing' = FALSE
  /\ UNCHANGED <<client, arriving, buffer>>

Respond(close) ==
  /\ out' = Sent(request_.line, "response")
  /\ up' = (up /\ ~close)
  /\ UNCHANGED streaming

(* CorsMiddleware::before throws the response to a preflight; no handler.  *)
Preflight ==
  /\ Dispatched
  /\ request_.method = "options"
  /\ Respond(TRUE)
  /\ UNCHANGED handled

Handler == handled' = Append(handled, request_)

(* A handler returns: it has decided whether the connection stays.         *)
HandlerReturns(close) ==
  /\ Dispatched
  /\ request_.method # "options"
  /\ Handler
  /\ Respond(close)

(* A handler throws: 500.                                                  *)
HandlerThrows ==
  /\ Dispatched
  /\ request_.method # "options"
  /\ Handler
  /\ Respond(TRUE)

(* No route: 404.                                                          *)
NotFound ==
  /\ Dispatched
  /\ request_.method # "options"
  /\ Respond(TRUE)
  /\ UNCHANGED handled

(* A bug: markStreamed is forgotten.                                       *)
HandlerStreams_AndResponds ==
  /\ Dispatched
  /\ request_.method = "post"
  /\ Handler
  /\ out' = IF up THEN out \o <<[of |-> request_.line, what |-> "header"],
                                [of |-> request_.line, what |-> "response"]>> ELSE out
  /\ streaming' = streaming \cup {request_.line}
  /\ UNCHANGED up

(* ChatStreamHandler sends its header itself and marks the response as     *)
(* streamed; a detached thread goes on.                                    *)
HandlerStreams ==
  /\ Dispatched
  /\ request_.method = "post"
  /\ Handler
  /\ out' = Sent(request_.line, "header")
  /\ streaming' = streaming \cup {request_.line}
  /\ UNCHANGED up

(* The loop runs what that thread queued last.                             *)
StreamEnds(k) ==
  /\ k \in streaming
  /\ out' = Sent(k, "done")
  /\ up' = FALSE
  /\ streaming' = streaming \ {k}
  /\ UNCHANGED <<client, arriving, parsing, context, handled>>

-----------------------------------------------------------------------------
Parse ==
  \/ ReadLine \/ RejectLine \/ ReadHeader \/ RejectHeader
  \/ EndWithoutBody \/ RejectPost \/ StoiThrows \/ EndWithLength
  \/ ReadBody \/ WaitForMore

Dispatch ==
  \/ Preflight \/ NotFound \/ HandlerThrows \/ HandlerStreams
  \/ \E close \in BOOLEAN : HandlerReturns(close)

Next ==
  \/ \E shape \in Shapes : BeginRequest(shape)
  \/ SendPiece \/ OnMessage \/ Parse \/ Dispatch
  \/ \E k \in Requests : StreamEnds(k)

(* The event loop runs, a client sends what it began to send, handlers     *)
(* return, streams end.                                                    *)
Fairness ==
  /\ WF_vars(SendPiece) /\ WF_vars(OnMessage) /\ WF_vars(Parse \/ Dispatch)
  /\ \A k \in Requests : WF_vars(StreamEnds(k))

Spec == Init /\ [][Next]_vars /\ Fairness

-----------------------------------------------------------------------------
States == {"kExpectRequestLine", "kExpectHeaders", "kExpectBody", "kGotAll"}
PieceSet == [of : Requests, part : {"line", "length", "empty", "body"}]
RequestSet == [method : Methods \cup {"none"}, line : {0} \cup Requests, length : Lengths,
               headers : {0} \cup Requests, contentLength : Nat, body : {0} \cup Requests]

(* Types, and the pieces a state may find in front: the parser is never    *)
(* left in the middle of a request by the one before.                      *)
TypeOK ==
  /\ asked \in Seq(Shapes) /\ unsent \in Seq(PieceSet) /\ arriving \in Seq(PieceSet)
  /\ buffer \in Seq(PieceSet) /\ handled \in Seq(RequestSet)
  /\ request_ \in RequestSet /\ state_ \in States
  /\ \A i \in DOMAIN out :
       out[i] \in [of : Requests, what : {"response", "badRequest", "header", "done"}]
  /\ streaming \subseteq Requests
  /\ parsing \in BOOLEAN /\ up \in BOOLEAN /\ hurried \in BOOLEAN
  /\ buffer # <<>> /\ state_ = "kExpectRequestLine" => Front.part = "line"
  /\ buffer # <<>> /\ state_ = "kExpectHeaders" => Front.part # "body"

(* However a request is cut into pieces and whatever came before it on the *)
(* connection, a handler gets the line, the length and (if the length says *)
(* there is one) the body of one request, unless the client did not wait;  *)
(* and behind a 400 nothing that still arrives reaches a handler, although *)
(* the connection is read on and the context is not reset.                 *)
Whole(request) ==
  /\ request.method = asked[request.line].method
  /\ request.length = asked[request.line].length
  /\ request.headers \in {0, request.line}
  /\ request.length = "body" => request.body = request.line
Rejected(k) == \E i \in DOMAIN out : out[i].of <= k /\ out[i].what = "badRequest"
RequestsAreWhole ==
  ~hurried => \A i \in DOMAIN handled : Whole(handled[i]) /\ ~Rejected(handled[i].line)

(* Answers come in the order of the requests, one for each, and nothing is *)
(* sent into the middle of a stream.                                       *)
AnswersInOrder ==
  ~hurried =>
    \A i, j \in DOMAIN out :
      i < j => \/ out[i].of < out[j].of
               \/ out[i].of = out[j].of /\ out[i].what = "header" /\ out[j].what = "done"

(* A request that was sent is answered, unless the client did not wait     *)
(* for the answer before, or announced a negative length.                  *)
Endless == \E i \in DOMAIN asked : asked[i].length = "negative"
AnswerComes ==
  \A k \in Requests :
    (Len(asked) = k /\ unsent = <<>>) ~> (Answered(k) \/ hurried \/ Endless)

=============================================================================
