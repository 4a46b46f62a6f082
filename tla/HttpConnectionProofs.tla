------------------------ MODULE HttpConnectionProofs ------------------------
(***************************************************************************)
(* Theorems about a connection, for any number of requests of any shapes.  *)
(***************************************************************************)
EXTENDS HttpConnection, SequenceTheorems, TLAPS

(* What is still to be parsed, at the client, in the socket or in muduo.   *)
Pending == (buffer \o arriving) \o unsent

(* The pieces of the requests a, one request behind the other.             *)
Closes(a, p) == p.part = "body" \/ (p.part = "empty" /\ a[p.of].length # "body")
Rest(a, p) ==
  IF p.part = "line" /\ a[p.of].length # "none" THEN "length"
  ELSE IF p.part \in {"line", "length"} THEN "empty" ELSE "body"
Follows(a, p, q) ==
  IF Closes(a, p) THEN q.part = "line" /\ q.of = p.of + 1
                  ELSE q.part = Rest(a, p) /\ q.of = p.of
Chain(a, s) ==
  /\ Len(s) <= 4 * Len(a)
  /\ \A i \in 1..Len(s) : s[i].of <= Len(a)
  /\ \A i \in 1..(Len(s) - 1) : Follows(a, s[i], s[i + 1])
  /\ s # <<>> => Closes(a, s[Len(s)]) /\ s[Len(s)].of = Len(a)

(* Where the parser is, against the first piece of s.                      *)
Starts(s) == s # <<>> => s[1].part = "line"
AtHeaders(a, s) ==
  \/ Starts(s) /\ request_.method = "post" /\ request_.length = "none"
  \/ /\ s # <<>> /\ s[1].part \in {"length", "empty"}
     /\ a[s[1].of].length = "body" => request_.method = "post"
     /\ s[1].part = "empty" => request_.length = a[s[1].of].length
AtBody(s) ==
  \/ request_.contentLength > 4 * MaxRequests
  \/ request_.contentLength = 1 /\ s # <<>> /\ s[1].part = "body"
Fits(a, s) ==
  /\ state_ \in {"kExpectRequestLine", "kGotAll"} => Starts(s)
  /\ state_ = "kExpectRequestLine" => request_.length = "none"
  /\ state_ = "kExpectHeaders" => AtHeaders(a, s)
  /\ state_ = "kExpectBody" => AtBody(s)
  /\ state_ # "kExpectRequestLine" => request_.line \in 1..Len(a)

OutSet == [of : Requests, what : {"response", "badRequest", "header", "done"}]

Types ==
  /\ asked \in Seq(Shapes) /\ Len(asked) <= MaxRequests
  /\ unsent \in Seq(PieceSet) /\ arriving \in Seq(PieceSet) /\ buffer \in Seq(PieceSet)
  /\ handled \in Seq(RequestSet) /\ out \in Seq(OutSet)
  /\ request_ \in RequestSet /\ state_ \in States
  /\ streaming \subseteq Requests
  /\ parsing \in BOOLEAN /\ up \in BOOLEAN /\ hurried \in BOOLEAN

IInv == Types /\ Chain(asked, Pending) /\ Fits(asked, Pending)

-----------------------------------------------------------------------------
(* Sequences of pieces                                                     *)

LEMMA ConcatFirst ==
  ASSUME NEW s \in Seq(PieceSet), NEW t \in Seq(PieceSet), s # <<>>
  PROVE  /\ s \o t # <<>> /\ (s \o t)[1] = s[1]
         /\ Tail(s \o t) = Tail(s) \o t
         /\ Tail(s \o t) \in Seq(PieceSet)
<1>1. s \o t \in Seq(PieceSet) /\ Len(s \o t) = Len(s) + Len(t)
      /\ \A i \in 1..(Len(s) + Len(t)) :
           (s \o t)[i] = IF i <= Len(s) THEN s[i] ELSE t[i - Len(s)]
  BY ConcatProperties
<1>2. Len(s) \in Nat \ {0} /\ Len(t) \in Nat /\ Len(<<>>) = 0
  BY EmptySeq, LenProperties
<1>3. s \o t # <<>> /\ (s \o t)[1] = s[1]
  BY <1>1, <1>2
<1>4. /\ Tail(s) \in Seq(PieceSet) /\ Len(Tail(s)) = Len(s) - 1
      /\ \A i \in 1..Len(Tail(s)) : Tail(s)[i] = s[i + 1]
  BY HeadTailProperties
<1>5. /\ Tail(s \o t) \in Seq(PieceSet) /\ Len(Tail(s \o t)) = Len(s \o t) - 1
      /\ \A i \in 1..Len(Tail(s \o t)) : Tail(s \o t)[i] = (s \o t)[i + 1]
  BY <1>1, <1>3, HeadTailProperties
<1>6. /\ Tail(s) \o t \in Seq(PieceSet) /\ Len(Tail(s) \o t) = Len(Tail(s)) + Len(t)
      /\ \A i \in 1..(Len(Tail(s)) + Len(t)) :
           (Tail(s) \o t)[i] = IF i <= Len(Tail(s)) THEN Tail(s)[i] ELSE t[i - Len(Tail(s))]
  BY <1>4, ConcatProperties
<1>7. ASSUME NEW i \in 1..Len(Tail(s \o t))
      PROVE  Tail(s \o t)[i] = (Tail(s) \o t)[i]
  <2>1. i \in Nat /\ i + 1 \in 1..(Len(s) + Len(t)) /\ i \in 1..(Len(Tail(s)) + Len(t))
    BY <1>1, <1>2, <1>4, <1>5
  <2>2. Tail(s \o t)[i] = IF i + 1 <= Len(s) THEN s[i + 1] ELSE t[(i + 1) - Len(s)]
    BY <1>1, <1>5, <2>1
  <2>3. (Tail(s) \o t)[i] = IF i <= Len(s) - 1 THEN Tail(s)[i] ELSE t[i - (Len(s) - 1)]
    BY <1>4, <1>6, <2>1
  <2>4. (i + 1) - Len(s) = i - (Len(s) - 1)
    BY <1>2, <2>1
  <2>5. CASE i + 1 <= Len(s)
    BY <1>2, <1>4, <2>1, <2>2, <2>3, <2>5
  <2>6. CASE ~(i + 1 <= Len(s))
    BY <1>2, <2>1, <2>2, <2>3, <2>4, <2>6
  <2> QED
    BY <2>5, <2>6
<1>8. Len(Tail(s \o t)) = Len(Tail(s) \o t)
  BY <1>1, <1>2, <1>4, <1>5, <1>6
<1>9. Tail(s \o t) = Tail(s) \o t
  BY <1>5, <1>6, <1>7, <1>8, SeqEqual
<1> QED
  BY <1>3, <1>5, <1>9

LEMMA HeadIsFirst ==
  ASSUME NEW s \in Seq(PieceSet), s # <<>>
  PROVE  /\ Head(s) = s[1] /\ s[1] \in PieceSet /\ Len(s) \in Nat \ {0}
         /\ Tail(s) \in Seq(PieceSet)
<1>1. Len(s) \in Nat \ {0}
  BY EmptySeq
<1> QED
  BY <1>1, ElementOfSeq, HeadTailProperties

LEMMA PendingType ==
  ASSUME Types
  PROVE  /\ Pending \in Seq(PieceSet)
         /\ Len(Pending) = Len(buffer) + Len(arriving) + Len(unsent)
         /\ Len(buffer) \in Nat /\ Len(arriving) \in Nat /\ Len(unsent) \in Nat
<1>1. buffer \in Seq(PieceSet) /\ arriving \in Seq(PieceSet) /\ unsent \in Seq(PieceSet)
  BY DEF Types
<1>2. buffer \o arriving \in Seq(PieceSet) /\ Len(buffer \o arriving) = Len(buffer) + Len(arriving)
  BY <1>1, ConcatProperties
<1> QED
  BY <1>1, <1>2, ConcatProperties, LenProperties DEF Pending

(* What the parser sees is the first of the pending pieces.                *)
LEMMA FrontIsFirst ==
  ASSUME Types, buffer # <<>>
  PROVE  /\ Pending # <<>> /\ Front = Pending[1] /\ Front \in PieceSet
         /\ Tail(buffer) \in Seq(PieceSet)
         /\ Tail(Pending) = (Tail(buffer) \o arriving) \o unsent
<1>1. buffer \in Seq(PieceSet) /\ arriving \in Seq(PieceSet) /\ unsent \in Seq(PieceSet)
  BY DEF Types
<1>2. /\ buffer \o arriving # <<>> /\ (buffer \o arriving)[1] = buffer[1]
      /\ Tail(buffer \o arriving) = Tail(buffer) \o arriving
  BY <1>1, ConcatFirst
<1>3. buffer \o arriving \in Seq(PieceSet)
  BY <1>1, ConcatProperties
<1>4. /\ Pending # <<>> /\ Pending[1] = (buffer \o arriving)[1]
      /\ Tail(Pending) = Tail(buffer \o arriving) \o unsent
  BY <1>1, <1>2, <1>3, ConcatFirst DEF Pending
<1> QED
  BY <1>1, <1>2, <1>4, HeadIsFirst DEF Front

LEMMA RetrievedIsTail ==
  ASSUME Types, buffer # <<>>, Retrieve, arriving' = arriving, unsent' = unsent
  PROVE  Pending' = Tail(Pending)
  BY FrontIsFirst DEF Pending, Retrieve

(* Sending and reading move pieces and change nothing of their order.      *)
LEMMA SendKeepsPending ==
  ASSUME Types, SendPiece
  PROVE  Pending' = Pending /\ arriving' \in Seq(PieceSet) /\ unsent' \in Seq(PieceSet)
<1>1. buffer \in Seq(PieceSet) /\ arriving \in Seq(PieceSet) /\ unsent \in Seq(PieceSet)
      /\ unsent # <<>>
  BY DEF Types, SendPiece
<1>2. Head(unsent) = unsent[1] /\ unsent[1] \in PieceSet /\ Tail(unsent) \in Seq(PieceSet)
  BY <1>1, HeadIsFirst
<1> DEFINE h == <<Head(unsent)>>
<1>3. h \in Seq(PieceSet) /\ h # <<>> /\ Len(h) = 1 /\ h[1] = unsent[1]
  BY <1>2
<1>4. arriving' = arriving \o h /\ arriving' \in Seq(PieceSet)
  BY <1>1, <1>2, AppendProperties, AppendIsConcat DEF SendPiece
<1>5. h \o Tail(unsent) = unsent
  <2>1. /\ h \o Tail(unsent) \in Seq(PieceSet)
        /\ Len(h \o Tail(unsent)) = Len(h) + Len(Tail(unsent))
        /\ \A i \in 1..(Len(h) + Len(Tail(unsent))) :
             (h \o Tail(unsent))[i] = IF i <= Len(h) THEN h[i] ELSE Tail(unsent)[i - Len(h)]
    BY <1>2, <1>3, ConcatProperties
  <2>2. /\ Len(Tail(unsent)) = Len(unsent) - 1 /\ Len(unsent) \in Nat \ {0}
        /\ \A i \in 1..Len(Tail(unsent)) : Tail(unsent)[i] = unsent[i + 1]
    BY <1>1, HeadTailProperties, HeadIsFirst
  <2>3. Len(h \o Tail(unsent)) = Len(unsent)
    BY <1>3, <2>1, <2>2
  <2>4. ASSUME NEW i \in 1..Len(unsent)
        PROVE  (h \o Tail(unsent))[i] = unsent[i]
    <3> HIDE DEF h
    <3>1. CASE i = 1
      BY <1>3, <2>1, <2>2, <3>1
    <3>2. CASE i # 1
      <4>1. i \in Nat /\ i - 1 \in 1..Len(Tail(unsent)) /\ (i - 1) + 1 = i /\ ~(i <= 1)
        BY <2>2, <3>2
      <4> QED
        BY <1>3, <2>1, <2>2, <4>1
    <3> QED
      BY <3>1, <3>2
  <2> QED
    BY <1>1, <2>1, <2>3, <2>4, SeqEqual
<1> HIDE DEF h
<1>6. (buffer \o arriving) \o h = buffer \o (arriving \o h)
  BY <1>1, <1>3, ConcatAssociative
<1> DEFINE q == buffer \o arriving
           u == Tail(unsent)
<1>7. (q \o h) \o u = q \o (h \o u)
  <2>1. q \in Seq(PieceSet) /\ u \in Seq(PieceSet)
    BY <1>1, <1>2, ConcatProperties
  <2> HIDE DEF q, u
  <2> QED
    BY <1>3, <2>1, ConcatAssociative
<1>8. buffer' = buffer /\ unsent' = Tail(unsent)
  BY DEF SendPiece, context
<1> QED
  BY <1>2, <1>4, <1>5, <1>6, <1>7, <1>8 DEF Pending

LEMMA ReadKeepsPending ==
  ASSUME Types, OnMessage
  PROVE  Pending' = Pending /\ buffer' \in Seq(PieceSet) /\ arriving' \in Seq(PieceSet)
<1>1. buffer \in Seq(PieceSet) /\ arriving \in Seq(PieceSet)
  BY DEF Types
<1>2. buffer \o arriving \in Seq(PieceSet)
  BY <1>1, ConcatProperties
<1>3. (buffer \o arriving) \o <<>> = buffer \o arriving
  BY <1>2, ConcatEmptySeq
<1>4. <<>> \in Seq(PieceSet)
  BY EmptySeq
<1> QED
  BY <1>2, <1>3, <1>4 DEF OnMessage, Pending, client

-----------------------------------------------------------------------------
(* The pieces of one request, and chains of them                           *)

LEMMA Snoc ==
  ASSUME NEW s \in Seq(PieceSet), NEW x \in PieceSet, NEW n \in Nat, Len(s) = n
  PROVE  /\ s \o <<x>> \in Seq(PieceSet) /\ Len(s \o <<x>>) = n + 1
         /\ \A i \in 1..n : (s \o <<x>>)[i] = s[i]
         /\ (s \o <<x>>)[n + 1] = x
<1>1. s \o <<x>> = Append(s, x)
  BY AppendIsConcat
<1> QED
  BY <1>1, AppendProperties

(* r is the m pieces of request k.                                         *)
CutInto(r, m, k, shape) ==
  /\ r \in Seq(PieceSet) /\ Len(r) = m
  /\ \A i \in 1..m : r[i].of = k
  /\ r[1].part = "line"
  /\ r[2].part = IF shape.length = "none" THEN "empty" ELSE "length"
  /\ m > 2 => shape.length # "none" /\ r[3].part = "empty"
  /\ m = 4 => shape.length = "body" /\ r[4].part = "body"
  /\ m = 3 => shape.length # "body"
  /\ m = 2 => shape.length = "none"

LEMMA PiecesFacts ==
  ASSUME NEW k \in Requests, NEW shape \in Shapes
  PROVE  \E m \in 2..4 : CutInto(Pieces(k, shape), m, k, shape)
<1> DEFINE p(part) == [of |-> k, part |-> part]
<1>1. \A part \in {"line", "length", "empty", "body"} :
        p(part) \in PieceSet /\ p(part).of = k /\ p(part).part = part
  BY DEF PieceSet
<1>2. <<p("line")>> \in Seq(PieceSet) /\ Len(<<p("line")>>) = 1 /\ <<p("line")>>[1] = p("line")
  BY <1>1
<1>3. /\ shape.length = "none" =>
           Pieces(k, shape) = ((<<p("line")>> \o <<>>) \o <<p("empty")>>) \o <<>>
      /\ shape.length = "body" =>
           Pieces(k, shape) =
             ((<<p("line")>> \o <<p("length")>>) \o <<p("empty")>>) \o <<p("body")>>
      /\ shape.length \notin {"none", "body"} =>
           Pieces(k, shape) = ((<<p("line")>> \o <<p("length")>>) \o <<p("empty")>>) \o <<>>
  BY DEF Pieces
<1> HIDE DEF p
<1>4. CASE shape.length = "none"
  <2>1. <<p("line")>> \o <<>> = <<p("line")>>
    BY <1>2, ConcatEmptySeq
  <2> DEFINE u == <<p("line")>> \o <<p("empty")>>
  <2>2. /\ u \in Seq(PieceSet) /\ Len(u) = 2 /\ u[1] = p("line") /\ u[2] = p("empty")
    BY <1>1, <1>2, Snoc
  <2>3. Pieces(k, shape) = u
    BY <1>3, <1>4, <2>1, <2>2, ConcatEmptySeq
  <2> HIDE DEF u
  <2>4. \A i \in 1..2 : u[i].of = k
    <3> TAKE i \in 1..2
    <3>1. i = 1 \/ i = 2
      OBVIOUS
    <3> QED
      BY <1>1, <2>2, <3>1
  <2>5. u[1].part = "line" /\ u[2].part = "empty"
    BY <1>1, <2>2
  <2>6. CutInto(u, 2, k, shape)
    BY <1>4, <2>2, <2>4, <2>5 DEF CutInto
  <2> QED
    BY <2>3, <2>6
<1>5. CASE shape.length # "none"
  <2> DEFINE u == <<p("line")>> \o <<p("length")>>
             v == u \o <<p("empty")>>
             w == v \o <<p("body")>>
  <2>1. /\ u \in Seq(PieceSet) /\ Len(u) = 2 /\ u[1] = p("line") /\ u[2] = p("length")
    BY <1>1, <1>2, Snoc
  <2> HIDE DEF u
  <2>2. /\ v \in Seq(PieceSet) /\ Len(v) = 3 /\ v[1] = p("line") /\ v[2] = p("length")
        /\ v[3] = p("empty")
    <3>1. /\ v \in Seq(PieceSet) /\ Len(v) = 2 + 1 /\ v[2 + 1] = p("empty")
          /\ \A i \in 1..2 : v[i] = u[i]
      <4> 2 \in Nat
        OBVIOUS
      <4> QED
        BY <1>1, <2>1, Snoc
    <3> HIDE DEF v
    <3> QED
      BY <2>1, <3>1
  <2> HIDE DEF v
  <2>3. /\ w \in Seq(PieceSet) /\ Len(w) = 4 /\ w[1] = p("line") /\ w[2] = p("length")
        /\ w[3] = p("empty") /\ w[4] = p("body")
    <3>1. /\ w \in Seq(PieceSet) /\ Len(w) = 3 + 1 /\ w[3 + 1] = p("body")
          /\ \A i \in 1..3 : w[i] = v[i]
      BY <1>1, <2>2, Snoc
    <3> HIDE DEF w
    <3> QED
      BY <2>2, <3>1
  <2>4. Pieces(k, shape) = IF shape.length = "body" THEN w ELSE v
    BY <1>3, <1>5, <2>2, ConcatEmptySeq DEF u, v, w
  <2> HIDE DEF w
  <2>5. CASE shape.length = "body"
    <3>1. \A i \in 1..4 : w[i].of = k
      <4> TAKE i \in 1..4
      <4>1. i = 1 \/ i = 2 \/ i = 3 \/ i = 4
        OBVIOUS
      <4> QED
        BY <1>1, <2>3, <4>1
    <3>2. w[1].part = "line" /\ w[2].part = "length" /\ w[3].part = "empty" /\ w[4].part = "body"
      BY <1>1, <2>3
    <3>3. CutInto(w, 4, k, shape)
      BY <2>3, <2>5, <3>1, <3>2 DEF CutInto
    <3> QED
      BY <2>4, <2>5, <3>3
  <2>6. CASE shape.length # "body"
    <3>1. \A i \in 1..3 : v[i].of = k
      <4> TAKE i \in 1..3
      <4>1. i = 1 \/ i = 2 \/ i = 3
        OBVIOUS
      <4> QED
        BY <1>1, <2>2, <4>1
    <3>2. v[1].part = "line" /\ v[2].part = "length" /\ v[3].part = "empty"
      BY <1>1, <2>2
    <3>3. CutInto(v, 3, k, shape)
      BY <1>5, <2>2, <2>6, <3>1, <3>2 DEF CutInto
    <3> QED
      BY <2>4, <2>6, <3>3
  <2> QED
    BY <2>5, <2>6
<1> QED
  BY <1>4, <1>5

(* The rest of a chain is a chain, and begins where its first piece ended. *)
LEMMA TailOfChain ==
  ASSUME NEW a \in Seq(Shapes), NEW s \in Seq(PieceSet), Chain(a, s), s # <<>>
  PROVE  /\ Chain(a, Tail(s)) /\ Tail(s) \in Seq(PieceSet)
         /\ Tail(s) # <<>> => Follows(a, s[1], Tail(s)[1])
         /\ Tail(s) = <<>> => Closes(a, s[1]) /\ s[1].of = Len(a)
<1> DEFINE t == Tail(s)
<1>1. /\ t \in Seq(PieceSet) /\ Len(t) = Len(s) - 1
      /\ \A i \in 1..Len(t) : t[i] = s[i + 1]
  BY HeadTailProperties
<1>2. Len(s) \in Nat \ {0} /\ Len(a) \in Nat /\ Len(<<>>) = 0
  BY EmptySeq, LenProperties
<1> HIDE DEF t
<1>3. t # <<>> <=> Len(s) > 1
  <2>1. t # <<>> => Len(t) \in Nat \ {0}
    BY <1>1, EmptySeq
  <2>2. t = <<>> => Len(t) = 0
    BY <1>2
  <2> QED
    BY <1>1, <1>2, <2>1, <2>2
<1>4. Len(t) <= 4 * Len(a)
  BY <1>1, <1>2 DEF Chain
<1>5. \A i \in 1..Len(t) : t[i].of <= Len(a)
  <2> TAKE i \in 1..Len(t)
  <2>1. i + 1 \in 1..Len(s)
    BY <1>1, <1>2
  <2> QED
    BY <1>1, <2>1 DEF Chain
<1>6. \A i \in 1..(Len(t) - 1) : Follows(a, t[i], t[i + 1])
  <2> TAKE i \in 1..(Len(t) - 1)
  <2>1. i + 1 \in 1..(Len(s) - 1) /\ i \in 1..Len(t) /\ i + 1 \in 1..Len(t)
    BY <1>1, <1>2
  <2>2. Follows(a, s[i + 1], s[(i + 1) + 1])
    BY <2>1 DEF Chain
  <2> QED
    BY <1>1, <2>1, <2>2
<1>7. t # <<>> => Closes(a, t[Len(t)]) /\ t[Len(t)].of = Len(a)
  <2>1. t # <<>> => Len(t) \in 1..Len(t) /\ t[Len(t)] = s[Len(s)]
    BY <1>1, <1>2, <1>3
  <2> QED
    BY <2>1 DEF Chain
<1>8. t # <<>> => Follows(a, s[1], t[1])
  <2>1. t # <<>> => 1 \in 1..(Len(s) - 1) /\ 1 \in 1..Len(t) /\ t[1] = s[1 + 1]
    BY <1>1, <1>2, <1>3
  <2> QED
    BY <2>1 DEF Chain
<1>9. t = <<>> => Closes(a, s[1]) /\ s[1].of = Len(a)
  BY <1>2, <1>3 DEF Chain
<1> QED
  BY <1>1, <1>4, <1>5, <1>6, <1>7, <1>8, <1>9 DEF Chain, t

LEMMA Places ==
  ASSUME NEW m \in Nat, NEW n \in 2..4, NEW i \in 1..((m + n) - 1), i > m
  PROVE  LET j == i - m
         IN /\ j \in 1..3 /\ j \in 1..(n - 1) /\ j \in 1..n /\ j + 1 \in 1..n
            /\ m + j = i /\ m + (j + 1) = i + 1
            /\ j = 2 => n # 2
            /\ j = 3 => n = 4
  OBVIOUS

(* t is the n pieces of s and, behind them, the m pieces of r.             *)
Joins(t, s, n, r, m) ==
  /\ t \in Seq(PieceSet) /\ Len(t) = n + m /\ Len(s) = n
  /\ \A i \in 1..(n + m) : t[i] = IF i <= n THEN s[i] ELSE r[i - n]
Extends(b, a, shape) ==
  /\ b \in Seq(Shapes) /\ Len(b) = Len(a) + 1 /\ b[Len(a) + 1] = shape
  /\ \A i \in 1..Len(a) : b[i] = a[i]

Continues(t, s, r, b) ==
  Chain(b, t) /\ t # <<>> /\ t[1] = IF s = <<>> THEN r[1] ELSE s[1]

(* Where one chain ends, the pieces of the next request may follow.        *)
LEMMA JoinChains ==
  ASSUME NEW a \in Seq(Shapes), NEW s \in Seq(PieceSet), Chain(a, s),
         NEW b, NEW shape \in Shapes, Extends(b, a, shape),
         NEW r, NEW m \in 2..4, CutInto(r, m, Len(a) + 1, shape),
         NEW t, NEW n \in Nat, Joins(t, s, n, r, m)
  PROVE  Continues(t, s, r, b)
<1> DEFINE k == Len(a) + 1
<1>1. Len(a) \in Nat /\ k = Len(a) + 1
  BY LenProperties
<1> HIDE DEF k
<1>2. /\ b \in Seq(Shapes) /\ Len(b) = k /\ b[k] = shape
      /\ \A i \in 1..Len(a) : b[i] = a[i]
  BY <1>1 DEF Extends
<1>3. /\ t \in Seq(PieceSet) /\ Len(t) = n + m /\ Len(s) = n
      /\ \A i \in 1..(n + m) : t[i] = IF i <= n THEN s[i] ELSE r[i - n]
  BY DEF Joins
<1>4. /\ Len(r) = m /\ \A i \in 1..m : r[i].of = k
      /\ r[1].part = "line"
      /\ r[2].part = IF shape.length = "none" THEN "empty" ELSE "length"
      /\ m > 2 => shape.length # "none" /\ r[3].part = "empty"
      /\ m = 4 => shape.length = "body" /\ r[4].part = "body"
      /\ m = 3 => shape.length # "body"
      /\ m = 2 => shape.length = "none"
  BY DEF CutInto, k
<1>5. /\ \A i \in 1..n : t[i] = s[i]
      /\ \A i \in 1..m : t[n + i] = r[i]
  <2>1. \A i \in 1..n : t[i] = s[i]
    BY <1>3
  <2>2. ASSUME NEW i \in 1..m
        PROVE  t[n + i] = r[i]
    <3>1. n + i \in 1..(n + m) /\ ~(n + i <= n) /\ (n + i) - n = i
      BY <1>3
    <3> QED
      BY <1>3, <3>1
  <2> QED
    BY <2>1, <2>2
<1>6. \A i \in 1..n : s[i] \in PieceSet /\ s[i].of \in 1..Len(a) /\ b[s[i].of] = a[s[i].of]
  <2> TAKE i \in 1..n
  <2>1. s[i] \in PieceSet /\ s[i].of <= Len(a)
    BY <1>3, ElementOfSeq DEF Chain
  <2>2. s[i].of \in 1..Len(a)
    BY <1>1, <2>1 DEF PieceSet, Requests
  <2> QED
    BY <1>2, <2>1, <2>2
<1>7. Len(t) <= 4 * Len(b)
  <2>1. n <= 4 * Len(a)
    BY <1>3 DEF Chain
  <2> QED
    BY <1>1, <1>2, <1>3, <2>1
<1>8. \A i \in 1..Len(t) : t[i].of <= Len(b)
  <2> TAKE i \in 1..Len(t)
  <2>1. CASE i <= n
    <3>1. i \in 1..n
      BY <2>1
    <3> QED
      BY <1>1, <1>2, <1>5, <1>6, <3>1
  <2>2. CASE ~(i <= n)
    <3>1. i - n \in 1..m /\ n + (i - n) = i
      BY <1>3, <2>2
    <3>2. t[i].of = k
      BY <1>4, <1>5, <3>1
    <3> QED
      BY <1>2, <3>2
  <2> QED
    BY <2>1, <2>2
<1>9. \A i \in 1..(Len(t) - 1) : Follows(b, t[i], t[i + 1])
  <2> TAKE i \in 1..(Len(t) - 1)
  <2>1. CASE i < n
    <3>1. /\ i \in 1..(n - 1) /\ i \in 1..n /\ i + 1 \in 1..n
      BY <2>1
    <3>2. Follows(a, s[i], s[i + 1])
      BY <1>3, <3>1 DEF Chain
    <3>3. Follows(b, s[i], s[i + 1])
      BY <1>6, <3>1, <3>2 DEF Follows, Closes, Rest
    <3> QED
      BY <1>5, <3>1, <3>3
  <2>2. CASE i = n
    <3>1. s # <<>> /\ i \in 1..n /\ 1 \in 1..m
      BY <1>3, <2>2
    <3>2. Closes(a, s[i]) /\ s[i].of = Len(a)
      BY <1>3, <2>2, <3>1 DEF Chain
    <3>3. Closes(b, s[i])
      BY <1>6, <3>1, <3>2 DEF Closes
    <3>4. t[i] = s[i] /\ t[i + 1] = r[1]
      BY <1>5, <2>2, <3>1
    <3>5. r[1].of = s[i].of + 1
      BY <1>1, <1>4, <3>1, <3>2
    <3> QED
      BY <1>4, <3>3, <3>4, <3>5 DEF Follows
  <2>3. CASE i > n
    <3> DEFINE j == i - n
    <3>1. /\ j \in 1..3 /\ j \in 1..m /\ j + 1 \in 1..m /\ n + j = i /\ n + (j + 1) = i + 1
          /\ j = 2 => m > 2
          /\ j = 3 => m = 4
      BY <1>3, <2>3
    <3> HIDE DEF j
    <3>2. t[i] = r[j] /\ t[i + 1] = r[j + 1] /\ r[j].of = k /\ r[j + 1].of = k
      BY <1>4, <1>5, <3>1
    <3>3. Follows(b, r[j], r[j + 1])
      <4>1. CASE j = 1
        <5>1. r[1].of = k /\ r[2].of = k
          BY <1>4, <3>1, <4>1
        <5> QED
          BY <1>2, <1>4, <4>1, <5>1 DEF Follows, Closes, Rest
      <4>2. CASE j = 2
        <5>1. r[2].of = k /\ r[3].of = k /\ shape.length # "none" /\ r[3].part = "empty"
          <6>1. m > 2 /\ 2 \in 1..m /\ 3 \in 1..m
            BY <3>1, <4>2
          <6> QED
            BY <1>4, <6>1
        <5> QED
          BY <1>2, <1>4, <4>2, <5>1 DEF Follows, Closes, Rest
      <4>3. CASE j = 3
        <5>1. /\ r[3].of = k /\ r[4].of = k /\ shape.length = "body"
              /\ r[3].part = "empty" /\ r[4].part = "body"
          BY <1>4, <3>1, <4>3
        <5> QED
          BY <1>2, <4>3, <5>1 DEF Follows, Closes, Rest
      <4> QED
        BY <3>1, <4>1, <4>2, <4>3
    <3> QED
      BY <3>2, <3>3
  <2> QED
    BY <2>1, <2>2, <2>3
<1>10. Closes(b, t[Len(t)]) /\ t[Len(t)].of = Len(b)
  <2>1. m \in 1..m /\ t[Len(t)] = r[m] /\ r[m].of = k
    BY <1>3, <1>4, <1>5
  <2>2. Closes(b, r[m])
    <3>1. CASE m = 2
      BY <1>2, <1>4, <2>1, <3>1 DEF Closes
    <3>2. CASE m = 3
      BY <1>2, <1>4, <2>1, <3>2 DEF Closes
    <3>3. CASE m = 4
      BY <1>4, <2>1, <3>3 DEF Closes
    <3> QED
      BY <3>1, <3>2, <3>3
  <2> QED
    BY <1>2, <2>1, <2>2
<1>11. t # <<>>
  <2>1. Len(t) # 0
    BY <1>3
  <2> QED
    BY <2>1
<1>12. t[1] = IF s = <<>> THEN r[1] ELSE s[1]
  <2>1. CASE s = <<>>
    <3>1. n = 0 /\ 1 \in 1..m
      BY <1>3, <2>1
    <3> QED
      BY <1>5, <2>1, <3>1
  <2>2. CASE s # <<>>
    <3>1. 1 \in 1..n
      BY <1>3, <2>2, EmptySeq
    <3> QED
      BY <1>5, <2>2, <3>1
  <2> QED
    BY <2>1, <2>2
<1> QED
  BY <1>7, <1>8, <1>9, <1>10, <1>11, <1>12 DEF Chain, Continues

LEMMA ChainGrows ==
  ASSUME NEW a \in Seq(Shapes), NEW s \in Seq(PieceSet), Chain(a, s),
         NEW shape \in Shapes, Len(a) < MaxRequests
  PROVE  LET r == Pieces(Len(a) + 1, shape)
             t == s \o r
         IN /\ Chain(Append(a, shape), t) /\ t \in Seq(PieceSet) /\ t # <<>>
            /\ IF s = <<>> THEN t[1].part = "line" ELSE t[1] = s[1]
            /\ Append(a, shape) \in Seq(Shapes) /\ Len(Append(a, shape)) = Len(a) + 1
            /\ r \in Seq(PieceSet)
            /\ s # <<>> => s[1].of \in 1..Len(a) /\ Append(a, shape)[s[1].of] = a[s[1].of]
<1> DEFINE b == Append(a, shape)
           k == Len(a) + 1
           r == Pieces(k, shape)
           t == s \o r
<1>1. Len(a) \in Nat /\ k \in Requests
  BY LenProperties, HttpConnectionAssumption DEF Requests
<1>2. Extends(b, a, shape)
  BY AppendProperties DEF Extends
<1> HIDE DEF b
<1>3. \E m \in 2..4 : CutInto(r, m, k, shape)
  BY <1>1, PiecesFacts
<1> HIDE DEF r
<1>4. PICK m \in 2..4 : CutInto(r, m, Len(a) + 1, shape)
  BY <1>3
<1>5. r \in Seq(PieceSet) /\ Len(r) = m
  BY <1>4 DEF CutInto
<1>6. PICK n \in Nat : Len(s) = n
  BY LenProperties
<1>7. Joins(t, s, n, r, m)
  BY <1>5, <1>6, ConcatProperties DEF Joins
<1>8. t \in Seq(PieceSet)
  BY <1>7 DEF Joins
<1>9. r[1].part = "line"
  BY <1>4 DEF CutInto
<1>10. b \in Seq(Shapes) /\ Len(b) = Len(a) + 1
  BY <1>2 DEF Extends
<1>11. ASSUME s # <<>>
       PROVE  s[1].of \in 1..Len(a) /\ b[s[1].of] = a[s[1].of]
  <2>1. 1 \in 1..Len(s) /\ s[1] \in PieceSet
    BY <1>11, HeadIsFirst
  <2>2. s[1].of \in 1..Len(a)
    BY <1>1, <2>1 DEF Chain, PieceSet, Requests
  <2> QED
    BY <1>2, <2>2 DEF Extends
<1> HIDE DEF t, k
<1>12. Continues(t, s, r, b)
  BY <1>2, <1>4, <1>6, <1>7, JoinChains
<1> QED
  BY <1>5, <1>8, <1>9, <1>10, <1>11, <1>12 DEF b, k, r, t, Continues

-----------------------------------------------------------------------------
(* Types, and where the parser is                                          *)

LEMMA TypesSuffice ==
  ASSUME IInv
  PROVE  TypeOK
<1>1. Types
  BY DEF IInv
<1>2. \A i \in DOMAIN out : out[i] \in OutSet
  BY <1>1, ElementOfSeq, LenProperties DEF Types
<1>3. ASSUME buffer # <<>>, state_ = "kExpectRequestLine"
      PROVE  Front.part = "line"
  BY <1>1, <1>3, FrontIsFirst DEF IInv, Fits, Starts
<1>4. ASSUME buffer # <<>>, state_ = "kExpectHeaders"
      PROVE  Front.part # "body"
  BY <1>1, <1>4, FrontIsFirst DEF IInv, Fits, AtHeaders, Starts
<1> QED
  BY <1>1, <1>2, <1>3, <1>4 DEF Types, TypeOK, OutSet

(* The piece in front, and the request it comes from.                      *)
LEMMA FrontFacts ==
  ASSUME IInv, buffer # <<>>
  PROVE  /\ Front = Pending[1] /\ Pending # <<>> /\ Front \in PieceSet
         /\ Front.of \in 1..Len(asked) /\ Front.of \in Requests
         /\ asked[Front.of] \in Shapes
         /\ asked[Front.of] \in [method : Methods, version : BOOLEAN, length : Lengths]
         /\ asked[Front.of].length = "body" => asked[Front.of].method = "post"
<1>1. Types /\ Chain(asked, Pending)
  BY DEF IInv
<1>2. Front = Pending[1] /\ Pending # <<>> /\ Front \in PieceSet /\ Pending \in Seq(PieceSet)
  BY <1>1, FrontIsFirst, PendingType
<1>3. 1 \in 1..Len(Pending)
  BY <1>2, HeadIsFirst
<1>4. asked \in Seq(Shapes) /\ Len(asked) \in Nat
  BY <1>1, LenProperties DEF Types
<1>5. Front.of \in 1..Len(asked) /\ Front.of \in Requests
  BY <1>1, <1>2, <1>3, <1>4 DEF Chain, PieceSet, Requests
<1>6. asked[Front.of] \in Shapes
  BY <1>4, <1>5, ElementOfSeq
<1> QED
  BY <1>2, <1>5, <1>6, HttpConnectionAssumption

(* What retrieving the piece in front leaves.                              *)
LEMMA RetrieveFacts ==
  ASSUME IInv, buffer # <<>>, Retrieve, arriving' = arriving, unsent' = unsent
  PROVE  /\ buffer' \in Seq(PieceSet)
         /\ Chain(asked, Pending')
         /\ Pending' # <<>> => Follows(asked, Front, Pending'[1])
         /\ Pending' = <<>> => Closes(asked, Front) /\ Front.of = Len(asked)
<1>1. Types /\ Chain(asked, Pending)
  BY DEF IInv
<1>2. Pending' = Tail(Pending) /\ Pending \in Seq(PieceSet) /\ Pending # <<>>
      /\ Front = Pending[1] /\ Tail(buffer) \in Seq(PieceSet)
  BY <1>1, RetrievedIsTail, FrontIsFirst, PendingType
<1>3. asked \in Seq(Shapes)
  BY <1>1 DEF Types
<1> QED
  BY <1>1, <1>2, <1>3, TailOfChain DEF Retrieve

LEMMA BoundedBuffer ==
  ASSUME IInv
  PROVE  Len(buffer) <= 4 * MaxRequests /\ Len(buffer) \in Nat
<1>1. Types /\ Len(Pending) <= 4 * Len(asked)
  BY DEF IInv, Chain
<1>2. Len(asked) \in Nat /\ Len(asked) <= MaxRequests /\ MaxRequests \in Nat
  BY <1>1, LenProperties, HttpConnectionAssumption DEF Types
<1>3. /\ Len(Pending) = Len(buffer) + Len(arriving) + Len(unsent)
      /\ Len(buffer) \in Nat /\ Len(arriving) \in Nat /\ Len(unsent) \in Nat
  BY <1>1, PendingType
<1> QED
  BY <1>1, <1>2, <1>3

LEMMA SentType ==
  ASSUME Types, NEW k \in Requests,
         NEW what \in {"response", "badRequest", "header", "done"}
  PROVE  Sent(k, what) \in Seq(OutSet)
<1>1. [of |-> k, what |-> what] \in OutSet
  BY DEF OutSet
<1>2. out \in Seq(OutSet)
  BY DEF Types
<1> QED
  BY <1>1, <1>2, AppendProperties DEF Sent

LEMMA RequestLine ==
  ASSUME IInv, state_ # "kExpectRequestLine"
  PROVE  request_.line \in 1..Len(asked) /\ request_.line \in Requests
<1>1. asked \in Seq(Shapes) /\ Len(asked) <= MaxRequests /\ MaxRequests \in Nat
  BY HttpConnectionAssumption DEF IInv, Types
<1>2. Len(asked) \in Nat
  BY <1>1, LenProperties
<1>3. request_.line \in 1..Len(asked)
  BY DEF IInv, Fits
<1> QED
  BY <1>1, <1>2, <1>3 DEF Requests

-----------------------------------------------------------------------------
(* Each action                                                             *)

LEMMA InitInv == Init => IInv
<1> SUFFICES ASSUME Init PROVE IInv
  OBVIOUS
<1>1. /\ <<>> \in Seq(Shapes) /\ <<>> \in Seq(PieceSet) /\ <<>> \in Seq(RequestSet)
      /\ <<>> \in Seq(OutSet) /\ Len(<<>>) = 0
  BY EmptySeq
<1>2. Types
  <2>1. Blank \in RequestSet
    BY DEF Blank, RequestSet, Lengths
  <2>2. Len(asked) <= MaxRequests
    BY <1>1, HttpConnectionAssumption DEF Init
  <2> QED
    BY <1>1, <2>1, <2>2 DEF Init, Types, States
<1>3. Pending = <<>>
  <2>1. <<>> \o <<>> = <<>>
    BY <1>1, ConcatEmptySeq
  <2> QED
    BY <2>1 DEF Init, Pending
<1>4. Chain(asked, Pending)
  BY <1>1, <1>3 DEF Init, Chain
<1>5. Fits(asked, Pending)
  BY <1>3 DEF Init, Fits, Starts, Blank
<1> QED
  BY <1>2, <1>4, <1>5 DEF IInv

LEMMA BeginRequestInv ==
  ASSUME IInv, NEW shape \in Shapes, BeginRequest(shape)
  PROVE  IInv'
<1>1. Types /\ Chain(asked, Pending) /\ Fits(asked, Pending) /\ asked \in Seq(Shapes)
      /\ Pending \in Seq(PieceSet) /\ Len(asked) < MaxRequests
  BY PendingType DEF IInv, Types, BeginRequest
<1> DEFINE r == Pieces(Len(asked) + 1, shape)
           a == Append(asked, shape)
           t == Pending \o r
<1>2. /\ Chain(a, t) /\ t # <<>>
      /\ IF Pending = <<>> THEN t[1].part = "line" ELSE t[1] = Pending[1]
      /\ a \in Seq(Shapes) /\ Len(a) = Len(asked) + 1
      /\ r \in Seq(PieceSet)
      /\ Pending # <<>> => /\ Pending[1].of \in 1..Len(asked)
                           /\ a[Pending[1].of] = asked[Pending[1].of]
  BY <1>1, ChainGrows
<1> HIDE DEF r, a, t
<1>3. Pending' = t
  <2>1. buffer \o arriving \in Seq(PieceSet)
    BY <1>1, ConcatProperties DEF Types
  <2>2. Pending = buffer \o arriving
    BY <2>1, ConcatEmptySeq DEF Pending, BeginRequest
  <2> QED
    BY <2>2 DEF BeginRequest, Pending, context, r, t
<1>4. asked' = a /\ unsent' = r
  BY DEF BeginRequest, a, r
<1>5. Len(asked) \in Nat /\ Len(a) <= MaxRequests
  BY <1>1, <1>2, LenProperties, HttpConnectionAssumption
<1>6. Types'
  <2>1. hurried' \in BOOLEAN
    BY DEF BeginRequest
  <2> QED
    BY <1>1, <1>2, <1>4, <1>5, <2>1 DEF BeginRequest, Types, context
<1>7. Fits(a, t)
  <2>1. Starts(Pending) => Starts(t)
    BY <1>2 DEF Starts
  <2>2. AtHeaders(asked, Pending) => AtHeaders(a, t)
    BY <1>2, <2>1 DEF AtHeaders
  <2>3. AtBody(Pending) => AtBody(t)
    BY <1>2 DEF AtBody
  <2>4. request_.line \in 1..Len(asked) => request_.line \in 1..Len(a)
    BY <1>2, <1>5
  <2> QED
    BY <1>1, <2>1, <2>2, <2>3, <2>4 DEF Fits
<1>8. Fits(asked, Pending)'
  <2>1. state_' = state_ /\ request_' = request_
    BY DEF BeginRequest, context
  <2> QED
    BY <1>3, <1>4, <1>7, <2>1 DEF Fits, Starts, AtHeaders, AtBody
<1> QED
  BY <1>2, <1>3, <1>4, <1>6, <1>8 DEF IInv

(* The context, the requests asked and the pieces are as they were.        *)
LEMMA KeptInv ==
  ASSUME IInv, Types', Pending' = Pending, asked' = asked, state_' = state_,
         request_'.method = request_.method, request_'.length = request_.length,
         request_'.contentLength = request_.contentLength, request_'.line = request_.line
  PROVE  IInv'
<1>1. Chain(asked, Pending)'
  BY DEF IInv
<1>2. Fits(asked, Pending)'
  BY DEF IInv, Fits, Starts, AtHeaders, AtBody
<1> QED
  BY <1>1, <1>2 DEF IInv

LEMMA SendPieceInv == ASSUME IInv, SendPiece PROVE IInv'
<1>1. Types
  BY DEF IInv
<1>2. Pending' = Pending /\ arriving' \in Seq(PieceSet) /\ unsent' \in Seq(PieceSet)
  BY <1>1, SendKeepsPending
<1>3. Types'
  BY <1>1, <1>2 DEF Types, SendPiece, context
<1> QED
  BY <1>2, <1>3, KeptInv DEF SendPiece, context

LEMMA OnMessageInv == ASSUME IInv, OnMessage PROVE IInv'
<1>1. Types
  BY DEF IInv
<1>2. Pending' = Pending /\ buffer' \in Seq(PieceSet) /\ arriving' \in Seq(PieceSet)
  BY <1>1, ReadKeepsPending
<1>3. Types'
  BY <1>1, <1>2 DEF Types, OnMessage, client
<1> QED
  BY <1>2, <1>3, KeptInv DEF OnMessage, client

(* A step that takes the piece in front.                                   *)
LEMMA TakenInv ==
  ASSUME IInv, buffer # <<>>, Retrieve, UNCHANGED <<client, arriving>>,
         request_' \in RequestSet, state_' \in States, out' \in Seq(OutSet),
         UNCHANGED <<handled, streaming>>, parsing' \in BOOLEAN, up' \in BOOLEAN,
         Fits(asked, Pending)'
  PROVE  IInv'
<1>1. buffer' \in Seq(PieceSet) /\ Chain(asked, Pending')
  BY RetrieveFacts DEF client
<1>2. Types'
  BY <1>1 DEF IInv, Types, client
<1> QED
  BY <1>1, <1>2 DEF IInv, client

LEMMA ReadLineInv == ASSUME IInv, ReadLine PROVE IInv'
<1>1. Types /\ buffer # <<>> /\ Front.part = "line" /\ Retrieve /\ Continue
  BY DEF IInv, ReadLine, Next_
<1>2. UNCHANGED <<client, arriving, handled, out, streaming, parsing, up>> /\ asked' = asked
  BY <1>1 DEF Continue, client
<1>3. /\ Front.of \in 1..Len(asked) /\ Front.of \in Requests
      /\ asked[Front.of] \in [method : Methods, version : BOOLEAN, length : Lengths]
      /\ asked[Front.of].length = "body" => asked[Front.of].method = "post"
  BY <1>1, FrontFacts
<1>4. /\ request_' = [request_ EXCEPT !.method = asked[Front.of].method, !.line = Front.of]
      /\ state_' = "kExpectHeaders"
  BY DEF ReadLine
<1>5. /\ request_' \in RequestSet /\ request_'.method = asked[Front.of].method
      /\ request_'.line = Front.of /\ request_'.length = request_.length
  BY <1>1, <1>3, <1>4 DEF Types, RequestSet
<1>6. ~Closes(asked, Front)
  BY <1>1 DEF Closes
<1>7. /\ Pending' # <<>> /\ Pending'[1].of = Front.of
      /\ Pending'[1].part = IF asked[Front.of].length # "none" THEN "length" ELSE "empty"
  BY <1>1, <1>2, <1>6, RetrieveFacts DEF Follows, Rest, client
<1>8. AtHeaders(asked, Pending)'
  <2>1. request_.length = "none"
    BY DEF IInv, Fits, ReadLine, Next_, Parsing
  <2> QED
    BY <1>2, <1>3, <1>5, <1>7, <2>1 DEF AtHeaders
<1>9. Fits(asked, Pending)'
  BY <1>2, <1>3, <1>4, <1>5, <1>8 DEF Fits
<1> QED
  BY <1>1, <1>2, <1>4, <1>5, <1>9, TakenInv DEF IInv, Types, States

(* The context and the buffer are as they were, or the method is set.      *)
LEMMA RejectLineInv == ASSUME IInv, RejectLine PROVE IInv'
<1>1. Types /\ buffer # <<>> /\ Reject /\ UNCHANGED <<buffer, state_>>
      /\ state_ = "kExpectRequestLine"
  BY DEF IInv, RejectLine, Next_, Parsing
<1>2. /\ Front.of \in Requests
      /\ asked[Front.of] \in [method : Methods, version : BOOLEAN, length : Lengths]
  BY <1>1, FrontFacts
<1>3. request_' = [request_ EXCEPT !.method = asked[Front.of].method]
  BY DEF RejectLine
<1>4. request_' \in RequestSet /\ request_'.length = request_.length
  BY <1>1, <1>2, <1>3 DEF Types, RequestSet
<1>5. out' \in Seq(OutSet)
  BY <1>1, <1>2, SentType DEF Reject
<1>6. Types'
  BY <1>1, <1>4, <1>5 DEF Types, Reject, client
<1>7. Pending' = Pending
  BY <1>1 DEF Pending, Reject, client
<1>8. Fits(asked, Pending)'
  BY <1>1, <1>4, <1>7 DEF IInv, Fits, Starts
<1> QED
  BY <1>1, <1>6, <1>7, <1>8 DEF IInv, Reject, client

LEMMA HeadersFacts ==
  ASSUME IInv, Next_("kExpectHeaders")
  PROVE  /\ Types /\ buffer # <<>> /\ state_ = "kExpectHeaders"
         /\ \/ Front.part = "line" /\ request_.method = "post" /\ request_.length = "none"
            \/ /\ Front.part \in {"length", "empty"}
               /\ asked[Front.of].length = "body" => request_.method = "post"
               /\ Front.part = "empty" => request_.length = asked[Front.of].length
         /\ request_.line \in 1..Len(asked)
<1>1. IInv /\ buffer # <<>> /\ state_ = "kExpectHeaders"
  BY DEF Next_, Parsing
<1>2. Front = Pending[1] /\ Pending # <<>>
  BY <1>1, FrontFacts
<1> QED
  BY <1>1, <1>2 DEF IInv, Fits, AtHeaders, Starts

LEMMA ReadHeaderInv == ASSUME IInv, ReadHeader PROVE IInv'
<1>1. Types /\ buffer # <<>> /\ Front.part = "length" /\ Retrieve /\ Continue
      /\ state_ = "kExpectHeaders" /\ state_' = state_
  BY DEF IInv, ReadHeader, Next_, Parsing
<1>2. UNCHANGED <<client, arriving, handled, out, streaming, parsing, up>> /\ asked' = asked
  BY <1>1 DEF Continue, client
<1>3. /\ Front.of \in Requests
      /\ asked[Front.of] \in [method : Methods, version : BOOLEAN, length : Lengths]
  BY <1>1, FrontFacts
<1>4. request_' = [request_ EXCEPT !.length = asked[Front.of].length, !.headers = Front.of]
  BY DEF ReadHeader
<1>5. /\ request_' \in RequestSet /\ request_'.method = request_.method
      /\ request_'.line = request_.line /\ request_'.length = asked[Front.of].length
  BY <1>1, <1>3, <1>4 DEF Types, RequestSet
<1>6. ~Closes(asked, Front)
  BY <1>1 DEF Closes
<1>7. Pending' # <<>> /\ Pending'[1].of = Front.of /\ Pending'[1].part = "empty"
  BY <1>1, <1>2, <1>6, RetrieveFacts DEF Follows, Rest, client
<1>8. /\ asked[Front.of].length = "body" => request_.method = "post"
      /\ request_.line \in 1..Len(asked)
  BY <1>1, HeadersFacts DEF ReadHeader
<1>9. Fits(asked, Pending)'
  BY <1>1, <1>2, <1>5, <1>7, <1>8 DEF Fits, AtHeaders
<1> QED
  BY <1>1, <1>2, <1>5, <1>9, TakenInv DEF IInv, Types

(* Behind a request that was rejected for its length the next one begins.  *)
LEMMA StillAtHeaders ==
  ASSUME IInv, buffer # <<>>, Retrieve, Reject, UNCHANGED <<state_, request_>>,
         state_ = "kExpectHeaders", request_.line \in 1..Len(asked),
         request_.method = "post", request_.length = "none",
         \/ Front.part = "line"
         \/ Front.part = "empty" /\ asked[Front.of].length = "none"
  PROVE  IInv'
<1>1. Types /\ UNCHANGED <<client, arriving, handled, streaming>> /\ asked' = asked
  BY DEF IInv, Reject, client
<1>2. Front.of \in Requests
  BY FrontFacts
<1>3. out' \in Seq(OutSet)
  BY <1>1, <1>2, SentType DEF Reject
<1>4. Pending' # <<>> => Follows(asked, Front, Pending'[1])
  BY <1>1, RetrieveFacts DEF client
<1>5. AtHeaders(asked, Pending)'
  <2>1. CASE Front.part = "line"
    <3>1. Pending' # <<>> => Pending'[1].of = Front.of
          /\ Pending'[1].part = IF asked[Front.of].length # "none" THEN "length" ELSE "empty"
      BY <1>4, <2>1 DEF Follows, Closes, Rest
    <3>2. Pending' = <<>> => Starts(Pending)'
      BY DEF Starts
    <3> QED
      BY <1>1, <3>1, <3>2 DEF AtHeaders
  <2>2. CASE Front.part = "empty" /\ asked[Front.of].length = "none"
    <3>1. Starts(Pending)'
      BY <1>4, <2>2 DEF Starts, Follows, Closes
    <3> QED
      BY <3>1 DEF AtHeaders
  <2> QED
    BY <2>1, <2>2
<1>6. Fits(asked, Pending)'
  BY <1>1, <1>5 DEF Fits
<1> QED
  BY <1>1, <1>3, <1>6, TakenInv DEF IInv, Types, Reject

LEMMA RejectHeaderInv == ASSUME IInv, RejectHeader PROVE IInv'
<1>1. Next_("kExpectHeaders") /\ Front.part = "line" /\ Retrieve /\ Reject
      /\ UNCHANGED <<state_, request_>>
  BY DEF RejectHeader
<1> QED
  BY <1>1, HeadersFacts, StillAtHeaders

LEMMA RejectPostInv == ASSUME IInv, RejectPost PROVE IInv'
<1>1. Next_("kExpectHeaders") /\ Front.part = "empty" /\ Retrieve /\ Reject
      /\ UNCHANGED <<state_, request_>>
      /\ request_.method = "post" /\ request_.length = "none"
  BY DEF RejectPost, EndOfHeaders, HasBody
<1> QED
  BY <1>1, HeadersFacts, StillAtHeaders

LEMMA StoiThrowsInv == ASSUME IInv, StoiThrows PROVE IInv'
<1>1. Types /\ buffer # <<>> /\ Reject /\ UNCHANGED <<buffer, state_, request_>>
  BY DEF IInv, StoiThrows, EndOfHeaders, Next_, context
<1>2. Front.of \in Requests
  BY <1>1, FrontFacts
<1>3. out' \in Seq(OutSet)
  BY <1>1, <1>2, SentType DEF Reject
<1>4. Types'
  BY <1>1, <1>3 DEF Types, Reject, client
<1>5. Pending' = Pending /\ asked' = asked
  BY <1>1 DEF Pending, Reject, client
<1> QED
  BY <1>1, <1>4, <1>5, KeptInv

LEMMA EndWithoutBodyInv == ASSUME IInv, EndWithoutBody PROVE IInv'
<1>1. Next_("kExpectHeaders") /\ Front.part = "empty" /\ Retrieve /\ Continue
      /\ request_.method # "post" /\ request_' = request_ /\ state_' = "kGotAll"
  BY DEF EndWithoutBody, EndOfHeaders, HasBody
<1>2. UNCHANGED <<client, arriving, handled, out, streaming, parsing, up>> /\ asked' = asked
  BY <1>1 DEF Continue, client
<1>3. /\ Types /\ buffer # <<>> /\ request_.line \in 1..Len(asked)
      /\ asked[Front.of].length # "body"
  BY <1>1, HeadersFacts
<1>4. Starts(Pending)'
  BY <1>1, <1>2, <1>3, RetrieveFacts DEF Starts, Follows, Closes, client
<1>5. Fits(asked, Pending)'
  BY <1>1, <1>2, <1>3, <1>4 DEF Fits
<1> QED
  BY <1>1, <1>2, <1>3, <1>5, TakenInv DEF Types, States

LEMMA EndWithLengthInv == ASSUME IInv, EndWithLength PROVE IInv'
<1> DEFINE n == Converted[request_.length]
<1>1. Next_("kExpectHeaders") /\ Front.part = "empty" /\ Retrieve /\ Continue
      /\ request_.length \in DOMAIN Converted
      /\ request_' = [request_ EXCEPT !.contentLength = n]
      /\ state_' = IF n > 0 THEN "kExpectBody" ELSE "kGotAll"
  BY DEF EndWithLength, StartBody, EndOfHeaders
<1>2. UNCHANGED <<client, arriving, handled, out, streaming, parsing, up>> /\ asked' = asked
  BY <1>1 DEF Continue, client
<1>3. /\ Types /\ buffer # <<>> /\ request_.line \in 1..Len(asked)
      /\ request_.length = asked[Front.of].length
  BY <1>1, HeadersFacts
<1>4. /\ request_.length \in {"zero", "body", "negative"} /\ MaxRequests \in Nat
      /\ n = IF request_.length = "zero" THEN 0
             ELSE IF request_.length = "body" THEN 1 ELSE 4 * MaxRequests + 1
  BY <1>1, HttpConnectionAssumption DEF Converted
<1> HIDE DEF n
<1>5. n \in Nat
  BY <1>4
<1>6. /\ request_' \in RequestSet /\ request_'.line = request_.line
      /\ request_'.contentLength = n
  BY <1>1, <1>3, <1>5 DEF Types, RequestSet
<1>7. /\ Pending' # <<>> => Follows(asked, Front, Pending'[1])
      /\ Pending' = <<>> => Closes(asked, Front)
  BY <1>1, <1>2, <1>3, RetrieveFacts DEF client
<1>8. CASE request_.length = "zero"
  <2>1. Starts(Pending)' /\ state_' = "kGotAll"
    BY <1>1, <1>3, <1>4, <1>7, <1>8 DEF Starts, Follows, Closes
  <2>2. Fits(asked, Pending)'
    BY <1>2, <1>3, <1>6, <2>1 DEF Fits
  <2> QED
    BY <1>1, <1>2, <1>3, <1>6, <2>1, <2>2, TakenInv DEF Types, States
<1>9. CASE request_.length = "body"
  <2>1. Pending' # <<>> /\ Pending'[1].part = "body" /\ n = 1 /\ state_' = "kExpectBody"
    BY <1>1, <1>3, <1>4, <1>7, <1>9 DEF Follows, Closes, Rest
  <2>2. Fits(asked, Pending)'
    BY <1>2, <1>3, <1>6, <2>1 DEF Fits, AtBody
  <2> QED
    BY <1>1, <1>2, <1>3, <1>6, <2>1, <2>2, TakenInv DEF Types, States
<1>10. CASE request_.length = "negative"
  <2>1. n > 4 * MaxRequests /\ state_' = "kExpectBody"
    BY <1>1, <1>4, <1>10
  <2>2. Fits(asked, Pending)'
    BY <1>2, <1>3, <1>6, <2>1 DEF Fits, AtBody
  <2> QED
    BY <1>1, <1>2, <1>3, <1>6, <2>1, <2>2, TakenInv DEF Types, States
<1> QED
  BY <1>4, <1>8, <1>9, <1>10

(* A body that is there is in front, a negative length is never reached.   *)
LEMMA BodyFacts ==
  ASSUME IInv, Next_("kExpectBody"), ~Short
  PROVE  /\ Front.part = "body" /\ buffer # <<>> /\ Types
         /\ request_.line \in 1..Len(asked)
<1>1. buffer # <<>> /\ state_ = "kExpectBody" /\ Types /\ AtBody(Pending)
      /\ request_.line \in 1..Len(asked)
  BY DEF Next_, Parsing, IInv, Fits
<1>2. Len(buffer) <= 4 * MaxRequests /\ Len(buffer) \in Nat /\ MaxRequests \in Nat
      /\ request_.contentLength \in Nat
  BY <1>1, BoundedBuffer, HttpConnectionAssumption DEF Types, RequestSet
<1>3. ~(request_.contentLength > 4 * MaxRequests)
  BY <1>2 DEF Short
<1>4. Front = Pending[1]
  BY <1>1, FrontFacts
<1> QED
  BY <1>1, <1>3, <1>4 DEF AtBody

LEMMA ReadBodyInv == ASSUME IInv, ReadBody PROVE IInv'
<1>1. Next_("kExpectBody") /\ ~Short /\ Retrieve /\ Continue /\ state_' = "kGotAll"
      /\ request_' = [request_ EXCEPT !.body = Front.of]
  BY DEF ReadBody
<1>2. UNCHANGED <<client, arriving, handled, out, streaming, parsing, up>> /\ asked' = asked
  BY <1>1 DEF Continue, client
<1>3. Front.part = "body" /\ buffer # <<>> /\ Types /\ request_.line \in 1..Len(asked)
  BY <1>1, BodyFacts
<1>4. Front.of \in Requests
  BY <1>3, FrontFacts
<1>5. request_' \in RequestSet /\ request_'.line = request_.line
  BY <1>1, <1>3, <1>4 DEF Types, RequestSet
<1>6. Starts(Pending)'
  BY <1>1, <1>2, <1>3, RetrieveFacts DEF Starts, Follows, Closes, client
<1>7. Fits(asked, Pending)'
  BY <1>1, <1>2, <1>3, <1>5, <1>6 DEF Fits
<1> QED
  BY <1>1, <1>2, <1>3, <1>5, <1>7, TakenInv DEF Types, States

LEMMA WaitForMoreInv == ASSUME IInv, WaitForMore PROVE IInv'
<1>1. Types'
  BY DEF IInv, Types, WaitForMore, client, context
<1>2. Pending' = Pending
  BY DEF Pending, WaitForMore, client, context
<1> QED
  BY <1>1, <1>2, KeptInv DEF WaitForMore, client, context

(* What a dispatch leaves of the context, whatever the handler did.        *)
LEMMA DispatchedFacts ==
  ASSUME IInv, Dispatched
  PROVE  /\ Types /\ state_ = "kGotAll" /\ state_' = "kExpectRequestLine"
         /\ request_.line \in Requests /\ request_.line \in 1..Len(asked)
         /\ request_' \in RequestSet /\ request_'.length = "none" /\ request_'.headers = 0
         /\ Append(handled, request_) \in Seq(RequestSet)
         /\ Pending' = Pending /\ asked' = asked
         /\ Chain(asked, Pending)' /\ Fits(asked, Pending)'
         /\ parsing' \in BOOLEAN /\ UNCHANGED <<client, arriving, buffer>>
<1>1. Types /\ state_ = "kGotAll" /\ state_' = "kExpectRequestLine"
      /\ request_' = AfterReset(request_) /\ parsing' = FALSE
      /\ UNCHANGED <<client, arriving, buffer>>
  BY DEF IInv, Dispatched, Parsing
<1>2. request_.line \in Requests /\ request_.line \in 1..Len(asked)
  BY <1>1, RequestLine
<1>3. /\ request_' \in RequestSet /\ request_'.length = "none" /\ request_'.headers = 0
  BY <1>1 DEF Types, RequestSet, AfterReset, Blank, Lengths
<1>4. Append(handled, request_) \in Seq(RequestSet)
  BY <1>1, AppendProperties DEF Types
<1>5. Pending' = Pending /\ asked' = asked
  BY <1>1 DEF Pending, client
<1>6. Chain(asked, Pending)'
  BY <1>5 DEF IInv
<1>7. Fits(asked, Pending)'
  BY <1>1, <1>3, <1>5 DEF IInv, Fits, Starts
<1> QED
  BY <1>1, <1>2, <1>3, <1>4, <1>5, <1>6, <1>7

LEMMA DispatchInv == ASSUME IInv, Dispatch PROVE IInv'
<1>1. Dispatched
  BY DEF Dispatch, Preflight, NotFound, HandlerThrows, HandlerStreams, HandlerReturns
<1>2. /\ Types /\ request_.line \in Requests
      /\ state_' \in States /\ request_' \in RequestSet
      /\ Append(handled, request_) \in Seq(RequestSet) /\ asked' = asked
      /\ Chain(asked, Pending)' /\ Fits(asked, Pending)'
      /\ parsing' \in BOOLEAN /\ UNCHANGED <<client, arriving, buffer>>
  BY <1>1, DispatchedFacts DEF States
<1>3. handled' \in Seq(RequestSet)
  <2>1. handled' = handled \/ handled' = Append(handled, request_)
    BY DEF Dispatch, Preflight, NotFound, HandlerThrows, HandlerStreams, HandlerReturns, Handler
  <2> QED
    BY <1>2, <2>1 DEF Types
<1>4. out' \in Seq(OutSet) /\ streaming' \subseteq Requests /\ up' \in BOOLEAN
  <2>1. CASE HandlerStreams
    BY <1>2, <2>1, SentType DEF HandlerStreams, Types
  <2>2. CASE \E close \in BOOLEAN : Respond(close)
    <3>1. out' = Sent(request_.line, "response") /\ streaming' = streaming /\ up' \in BOOLEAN
      BY <1>2, <2>2 DEF Respond, Types
    <3> QED
      BY <1>2, <3>1, SentType DEF Types
  <2> QED
    BY <2>1, <2>2 DEF Dispatch, Preflight, NotFound, HandlerThrows, HandlerReturns
<1>5. Types'
  BY <1>2, <1>3, <1>4 DEF Types, client
<1> QED
  BY <1>2, <1>5 DEF IInv

LEMMA StreamEndsInv ==
  ASSUME IInv, NEW k \in Requests, StreamEnds(k)
  PROVE  IInv'
<1>1. Types
  BY DEF IInv
<1>2. out' \in Seq(OutSet)
  BY <1>1, SentType DEF StreamEnds
<1>3. Types'
  BY <1>1, <1>2 DEF Types, StreamEnds, client, context
<1>4. Pending' = Pending
  BY DEF Pending, StreamEnds, client, context
<1> QED
  BY <1>3, <1>4, KeptInv DEF StreamEnds, client, context

LEMMA StepInv == IInv /\ [Next]_vars => IInv'
<1> SUFFICES ASSUME IInv, [Next]_vars PROVE IInv'
  OBVIOUS
<1>1. CASE \E shape \in Shapes : BeginRequest(shape)
  BY <1>1, BeginRequestInv
<1>2. CASE SendPiece
  BY <1>2, SendPieceInv
<1>3. CASE OnMessage
  BY <1>3, OnMessageInv
<1>4. CASE Parse
  BY <1>4, ReadLineInv, RejectLineInv, ReadHeaderInv, RejectHeaderInv, EndWithoutBodyInv,
     RejectPostInv, StoiThrowsInv, EndWithLengthInv, ReadBodyInv, WaitForMoreInv DEF Parse
<1>5. CASE Dispatch
  BY <1>5, DispatchInv
<1>6. CASE \E k \in Requests : StreamEnds(k)
  BY <1>6, StreamEndsInv
<1>7. CASE UNCHANGED vars
  <2>1. Types'
    BY <1>7 DEF IInv, Types, vars, client, context
  <2>2. Pending' = Pending
    BY <1>7 DEF Pending, vars, client, context
  <2> QED
    BY <1>7, <2>1, <2>2, KeptInv DEF vars, client, context
<1> QED
  BY <1>1, <1>2, <1>3, <1>4, <1>5, <1>6, <1>7 DEF Next

LEMMA Invariance == Spec => []IInv
<1> QED
  BY InitInv, StepInv, PTL DEF Spec

(* TypeOK, with the pieces a state may find in front: however requests are *)
(* cut and whatever was rejected, onMessage finds the parser where the     *)
(* next piece belongs.                                                     *)
THEOREM TypeCorrect == Spec => []TypeOK
  BY Invariance, TypesSuffice, PTL

-----------------------------------------------------------------------------
(* A client that waits: everything is about its last request.              *)
Last == Len(asked)
Bad == \E i \in DOMAIN out : out[i].what = "badRequest"
Open == Pending # <<>> \/ state_ # "kExpectRequestLine"
Untouched ==
  /\ \A i \in DOMAIN handled : handled[i].line # Last
  /\ Last \notin streaming
  /\ \A i \in DOMAIN out : out[i].of = Last => out[i].what = "badRequest"

OnlyTheLast ==
  /\ \A i \in 1..Len(Pending) : Pending[i].of = Last
  /\ \A i \in DOMAIN out : /\ out[i].of <= Last
                           /\ out[i].what = "badRequest" => out[i].of = Last /\ ~up
  /\ \A i \in DOMAIN handled : Whole(handled[i]) /\ handled[i].line \in 1..Last
  /\ streaming \subseteq {Last}
Ordered(o) ==
  \A i, j \in DOMAIN o :
    i < j => \/ o[i].of < o[j].of
             \/ o[i].of = o[j].of /\ o[i].what = "header" /\ o[j].what = "done"
Streamed ==
  Last \in streaming => \A i \in DOMAIN out : out[i].of = Last => out[i].what = "header"
Refused == Bad => \A i \in DOMAIN handled : handled[i].line # Last

ReadsLine ==
  /\ request_.length = "none" /\ request_.headers = 0
  /\ Pending # <<>> /\ Bad => ~asked[Last].version
ReadsHeaders ==
  /\ request_.line = Last /\ request_.method = asked[Last].method
  /\ request_.headers \in {0, Last}
  /\ Pending # <<>> => Pending[1].part # "line"
  /\ Pending = <<>> => request_.length = "none" /\ request_.method = "post"
  /\ Bad => /\ request_.method = "post"
            /\ Pending # <<>> => /\ Pending[1].part = "empty"
                                 /\ request_.length = "malformed"
ReadsBody ==
  /\ ~Bad
  /\ request_.line = Last /\ request_.method = asked[Last].method
  /\ request_.length = asked[Last].length /\ request_.headers \in {0, Last}
HasAll == ~Bad /\ request_.line = Last /\ Whole(request_) /\ Pending = <<>>
InPlace ==
  /\ state_ = "kExpectRequestLine" => ReadsLine
  /\ state_ = "kExpectHeaders" => ReadsHeaders
  /\ state_ = "kExpectBody" => ReadsBody
  /\ state_ = "kGotAll" => HasAll

Polite ==
  /\ OnlyTheLast
  /\ Ordered(out)
  /\ Streamed
  /\ Refused
  /\ Open => Untouched
  /\ InPlace
WaitInv == ~hurried => Polite

LEMMA OutFacts ==
  ASSUME Types, NEW k \in Requests,
         NEW what \in {"response", "badRequest", "header", "done"}
  PROVE  LET o == Sent(k, what)
         IN /\ DOMAIN out = 1..Len(out) /\ Len(out) \in Nat
            /\ ~up => o = out
            /\ up => /\ DOMAIN o = 1..(Len(out) + 1)
                     /\ \A i \in 1..Len(out) : o[i] = out[i]
                     /\ o[Len(out) + 1] = [of |-> k, what |-> what]
            /\ \A i \in DOMAIN out : out[i] \in OutSet
<1>1. out \in Seq(OutSet) /\ Len(out) \in Nat /\ DOMAIN out = 1..Len(out)
  BY LenProperties DEF Types
<1>2. [of |-> k, what |-> what] \in OutSet
  BY DEF OutSet
<1>3. \A i \in DOMAIN out : out[i] \in OutSet
  BY <1>1, ElementOfSeq
<1>4. ASSUME up
      PROVE  LET o == Sent(k, what)
             IN /\ DOMAIN o = 1..(Len(out) + 1)
                /\ \A i \in 1..Len(out) : o[i] = out[i]
                /\ o[Len(out) + 1] = [of |-> k, what |-> what]
  <2>1. Sent(k, what) = Append(out, [of |-> k, what |-> what])
    BY <1>4 DEF Sent
  <2>2. Sent(k, what) \in Seq(OutSet) /\ Len(Sent(k, what)) = Len(out) + 1
    BY <1>1, <1>2, <2>1, AppendProperties
  <2>3. DOMAIN Sent(k, what) = 1..(Len(out) + 1)
    BY <2>2, LenProperties
  <2> QED
    BY <1>1, <1>2, <2>1, <2>3, AppendProperties
<1>5. ~up => Sent(k, what) = out
  BY DEF Sent
<1> QED
  BY <1>1, <1>3, <1>4, <1>5

LEMMA LastFacts ==
  ASSUME Types
  PROVE  Last \in Nat /\ \A k \in Requests : k <= Last => k \in 1..Last
<1>1. Last \in Nat
  BY LenProperties DEF Types, Last
<1> QED
  BY <1>1 DEF Requests

(* What a send adds for the last request.                                  *)
LEMMA SentOrdered ==
  ASSUME Types, Polite, Last \in Requests,
         NEW what \in {"response", "badRequest", "header", "done"},
         \A i \in DOMAIN out :
           out[i].of = Last => ~up \/ (out[i].what = "header" /\ what = "done")
  PROVE  LET o == Sent(Last, what)
         IN /\ Ordered(o)
            /\ \A i \in DOMAIN o : \/ i \in DOMAIN out /\ o[i] = out[i]
                                   \/ up /\ o[i] = [of |-> Last, what |-> what]
<1> DEFINE o == Sent(Last, what)
           n == Len(out)
<1>1. /\ DOMAIN out = 1..n /\ n \in Nat
      /\ ~up => o = out
      /\ up => /\ DOMAIN o = 1..(n + 1)
               /\ \A i \in 1..n : o[i] = out[i]
               /\ o[n + 1] = [of |-> Last, what |-> what]
      /\ \A i \in DOMAIN out : out[i] \in OutSet
  BY OutFacts
<1>2. Last \in Nat /\ Ordered(out) /\ \A i \in DOMAIN out : out[i].of <= Last
  BY LastFacts DEF Polite, OnlyTheLast
<1> HIDE DEF o, n
<1>3. CASE ~up
  BY <1>1, <1>2, <1>3 DEF o
<1>4. CASE up
  <2>1. \A i \in 1..n : \/ out[i].of < Last
                        \/ out[i].of = Last /\ out[i].what = "header" /\ what = "done"
    <3> TAKE i \in 1..n
    <3>1. out[i] \in OutSet /\ out[i].of <= Last
      BY <1>1, <1>2
    <3>2. out[i].of \in Nat
      BY <3>1 DEF OutSet, Requests
    <3> QED
      BY <1>1, <1>2, <1>4, <3>1, <3>2
  <2>2. ASSUME NEW i \in DOMAIN o, NEW j \in DOMAIN o, i < j
        PROVE  \/ o[i].of < o[j].of
               \/ o[i].of = o[j].of /\ o[i].what = "header" /\ o[j].what = "done"
    <3>1. i \in 1..n /\ (j \in 1..n \/ j = n + 1)
      BY <1>1, <1>4, <2>2
    <3>2. CASE j \in 1..n
      BY <1>1, <1>2, <1>4, <2>2, <3>1, <3>2 DEF Ordered
    <3>3. CASE j = n + 1
      <4>1. o[i] = out[i] /\ o[j].of = Last /\ o[j].what = what
        BY <1>1, <1>4, <3>1, <3>3
      <4> QED
        BY <2>1, <3>1, <4>1
    <3> QED
      BY <3>1, <3>2, <3>3
  <2>3. Ordered(o)
    BY <2>2 DEF Ordered
  <2>4. \A i \in DOMAIN o : \/ i \in DOMAIN out /\ o[i] = out[i]
                            \/ up /\ o[i] = [of |-> Last, what |-> what]
    <3> TAKE i \in DOMAIN o
    <3>1. i \in 1..n \/ i = n + 1
      BY <1>1, <1>4
    <3> QED
      BY <1>1, <1>4, <3>1
  <2> QED
    BY <2>3, <2>4 DEF o
<1> QED
  BY <1>3, <1>4

(* Everything pending is of the last request, and stays so.                *)
LEMMA PendingIsLast ==
  ASSUME IInv, Polite, buffer # <<>>
  PROVE  Front.of = Last /\ Last \in Requests /\ Last \in Nat /\ Open
<1>1. Front = Pending[1] /\ Pending # <<>> /\ Pending \in Seq(PieceSet) /\ Front.of \in Requests
  BY FrontFacts, PendingType DEF IInv
<1>2. 1 \in 1..Len(Pending)
  BY <1>1, HeadIsFirst
<1> QED
  BY <1>1, <1>2, LastFacts DEF IInv, Polite, OnlyTheLast, Open

LEMMA RetrievedIsLast ==
  ASSUME IInv, Polite, buffer # <<>>, Retrieve, UNCHANGED <<arriving, unsent>>
  PROVE  /\ \A i \in 1..Len(Pending') : Pending'[i].of = Last
         /\ Closes(asked, Front) => Pending' = <<>>
         /\ ~Closes(asked, Front) => Pending' # <<>> /\ Pending'[1].part = Rest(asked, Front)
<1>1. Pending' = Tail(Pending) /\ Pending \in Seq(PieceSet) /\ Pending # <<>>
  BY RetrievedIsTail, FrontIsFirst, PendingType DEF IInv
<1>2. /\ Tail(Pending) \in Seq(PieceSet) /\ Len(Tail(Pending)) = Len(Pending) - 1
      /\ \A i \in 1..Len(Tail(Pending)) : Tail(Pending)[i] = Pending[i + 1]
  BY <1>1, HeadTailProperties
<1>3. Len(Pending) \in Nat \ {0}
  BY <1>1, HeadIsFirst
<1>4. \A i \in 1..Len(Pending') : Pending'[i].of = Last
  <2> TAKE i \in 1..Len(Pending')
  <2>1. i \in 1..Len(Tail(Pending)) /\ i + 1 \in 1..Len(Pending)
    BY <1>1, <1>2, <1>3
  <2> QED
    BY <1>1, <1>2, <2>1 DEF Polite, OnlyTheLast
<1>5. /\ Pending' # <<>> => Follows(asked, Front, Pending'[1])
      /\ Pending' = <<>> => Closes(asked, Front)
  BY RetrieveFacts
<1>6. Pending' # <<>> => Pending'[1].of = Last
  <2>1. Pending' # <<>> => 1 \in 1..Len(Pending')
    BY <1>1, <1>2, HeadIsFirst
  <2> QED
    BY <1>4, <2>1
<1>7. Front.of = Last /\ Last \in Nat
  BY PendingIsLast
<1>8. Closes(asked, Front) => Pending' = <<>>
  <2>1. Last # Last + 1
    BY <1>7
  <2> QED
    BY <1>5, <1>6, <1>7, <2>1 DEF Follows
<1> QED
  BY <1>4, <1>5, <1>8 DEF Follows

-----------------------------------------------------------------------------
(* The kinds of steps                                                      *)

(* Nothing but the place of pieces changes.                                *)
LEMMA MovedWait ==
  ASSUME Polite, Pending' = Pending,
         UNCHANGED <<asked, out, up, handled, streaming, state_, request_>>
  PROVE  Polite'
  BY DEF Polite, OnlyTheLast, Ordered, Streamed, Refused, Open, Untouched, InPlace,
         ReadsLine, ReadsHeaders, ReadsBody, HasAll, Whole, Bad, Last

(* A piece is parsed.                                                      *)
LEMMA ParsedWait ==
  ASSUME IInv, Polite, buffer # <<>>, Retrieve, Continue, InPlace'
  PROVE  Polite'
<1>1. UNCHANGED <<client, arriving, handled, out, streaming, up>> /\ asked' = asked
      /\ unsent' = unsent /\ Last' = Last
  BY DEF Continue, client, Last
<1>2. \A i \in 1..Len(Pending') : Pending'[i].of = Last
  BY <1>1, RetrievedIsLast
<1>3. Untouched
  BY PendingIsLast DEF Polite
<1>4. OnlyTheLast'
  BY <1>1, <1>2 DEF Polite, OnlyTheLast, Whole
<1>5. Ordered(out)' /\ Streamed' /\ Refused' /\ Untouched'
  BY <1>1, <1>3 DEF Polite, Ordered, Streamed, Refused, Untouched, Bad
<1> QED
  BY <1>4, <1>5 DEF Polite

(* The request in front is rejected.                                       *)
LEMMA RejectedWait ==
  ASSUME IInv, Polite, buffer # <<>>, Reject, InPlace',
         \A i \in 1..Len(Pending') : Pending'[i].of = Last
  PROVE  Polite'
<1>1. /\ Front.of = Last /\ Last \in Requests /\ Last \in Nat /\ Types /\ Untouched
      /\ OnlyTheLast
  BY PendingIsLast DEF Polite, IInv
<1>2. out' = Sent(Last, "badRequest") /\ up' = FALSE /\ UNCHANGED <<handled, streaming>>
      /\ asked' = asked /\ Last' = Last
  BY <1>1 DEF Reject, client, Last
<1>3. \A i \in DOMAIN out : out[i].of = Last => ~up
  BY <1>1 DEF Untouched, OnlyTheLast
<1>4. /\ Ordered(out)'
      /\ \A i \in DOMAIN out' : \/ i \in DOMAIN out /\ out'[i] = out[i]
                                \/ out'[i] = [of |-> Last, what |-> "badRequest"]
  BY <1>1, <1>2, <1>3, SentOrdered DEF Ordered
<1>5. OnlyTheLast'
  <2>1. ASSUME NEW i \in DOMAIN out'
        PROVE  out'[i].of <= Last /\ (out'[i].what = "badRequest" => out'[i].of = Last)
    <3>1. CASE i \in DOMAIN out /\ out'[i] = out[i]
      BY <1>1, <3>1 DEF OnlyTheLast
    <3>2. CASE out'[i] = [of |-> Last, what |-> "badRequest"]
      BY <1>1, <3>2
    <3> QED
      BY <1>4, <3>1, <3>2
  <2>2. \A i \in DOMAIN handled : Whole(handled[i])' /\ handled[i].line \in 1..Last
    BY <1>1, <1>2 DEF OnlyTheLast, Whole
  <2> QED
    BY <1>1, <1>2, <2>1, <2>2 DEF OnlyTheLast
<1>6. Untouched'
  <2>1. ASSUME NEW i \in DOMAIN out', out'[i].of = Last
        PROVE  out'[i].what = "badRequest"
    BY <1>1, <1>4, <2>1 DEF Untouched
  <2> QED
    BY <1>1, <1>2, <2>1 DEF Untouched
<1>7. Streamed' /\ Refused'
  BY <1>6 DEF Streamed, Refused, Untouched
<1> QED
  BY <1>4, <1>5, <1>6, <1>7 DEF Polite

(* The request is dispatched: what is sent is the first sent for it.       *)
LEMMA DispatchedWait ==
  ASSUME IInv, Polite, Dispatched, NEW what \in {"response", "header"},
         out' = Sent(request_.line, what),
         handled' = handled \/ handled' = Append(handled, request_),
         streaming' = streaming \/ (streaming' = streaming \cup {request_.line} /\ what = "header")
  PROVE  Polite'
<1>1. /\ Types /\ state_ = "kGotAll" /\ state_' = "kExpectRequestLine"
      /\ request_.line \in Requests /\ request_'.length = "none" /\ request_'.headers = 0
      /\ Pending' = Pending /\ asked' = asked /\ Last' = Last
  BY DispatchedFacts DEF Last
<1>2. HasAll /\ Untouched /\ OnlyTheLast
  BY <1>1 DEF Polite, InPlace, Open
<1>3. /\ request_.line = Last /\ Last \in Requests /\ Pending = <<>> /\ Whole(request_)
      /\ ~Bad /\ Last \in Nat
  BY <1>1, <1>2, LastFacts DEF HasAll
<1>4. \A i \in DOMAIN out : out[i].of # Last /\ out[i].what # "badRequest"
  BY <1>2, <1>3 DEF Untouched, Bad
<1>5. /\ Ordered(out)'
      /\ \A i \in DOMAIN out' : \/ i \in DOMAIN out /\ out'[i] = out[i]
                                \/ out'[i] = [of |-> Last, what |-> what]
  <2>1. \A i \in DOMAIN out :
          out[i].of = Last => ~up \/ (out[i].what = "header" /\ what = "done")
    BY <1>4
  <2> QED
    BY <1>1, <1>3, <2>1, SentOrdered DEF Ordered
<1>6. \A i \in DOMAIN out' : /\ out'[i].what # "badRequest" /\ out'[i].of <= Last
                             /\ out'[i].of = Last => out'[i].what = what
  <2> TAKE i \in DOMAIN out'
  <2>1. CASE i \in DOMAIN out /\ out'[i] = out[i]
    BY <1>2, <1>4, <2>1 DEF OnlyTheLast
  <2>2. CASE out'[i] = [of |-> Last, what |-> what]
    BY <1>3, <2>2
  <2> QED
    BY <1>5, <2>1, <2>2
<1>7. (\A i \in DOMAIN handled : Whole(handled[i]) /\ handled[i].line \in 1..Last)'
  <2>1. \A i \in DOMAIN handled : Whole(handled[i]) /\ handled[i].line \in 1..Last
    BY <1>2 DEF OnlyTheLast
  <2>2. CASE handled' = handled
    BY <1>1, <2>1, <2>2 DEF Whole
  <2>3. CASE handled' = Append(handled, request_)
    <3>1. /\ handled \in Seq(RequestSet) /\ request_ \in RequestSet /\ Len(handled) \in Nat
          /\ DOMAIN handled = 1..Len(handled)
      BY <1>1, LenProperties DEF Types
    <3>2. /\ handled' \in Seq(RequestSet) /\ Len(handled') = Len(handled) + 1
          /\ \A i \in 1..Len(handled) : handled'[i] = handled[i]
          /\ handled'[Len(handled) + 1] = request_
      BY <2>3, <3>1, AppendProperties
    <3>3. DOMAIN handled' = 1..(Len(handled) + 1)
      BY <3>2, LenProperties
    <3>4. Last \in 1..Last
      BY <1>3 DEF Requests
    <3>5. \A i \in DOMAIN handled' : \/ i \in DOMAIN handled /\ handled'[i] = handled[i]
                                     \/ handled'[i] = request_
      BY <3>1, <3>2, <3>3
    <3> QED
      BY <1>1, <1>3, <2>1, <3>4, <3>5 DEF Whole
  <2> QED
    BY <2>2, <2>3
<1>8. streaming' \subseteq {Last} /\ (Last \in streaming' => what = "header")
  <2>1. streaming = {}
    BY <1>2 DEF OnlyTheLast, Untouched
  <2>2. CASE streaming' = streaming
    BY <2>1, <2>2
  <2>3. CASE streaming' = streaming \cup {request_.line} /\ what = "header"
    BY <1>3, <2>1, <2>3
  <2> QED
    BY <2>2, <2>3
<1>9. OnlyTheLast'
  BY <1>1, <1>2, <1>6, <1>7, <1>8 DEF OnlyTheLast
<1>10. Streamed' /\ Refused'
  BY <1>1, <1>6, <1>8 DEF Streamed, Refused, Bad
<1>11. ~Open'
  BY <1>1, <1>3 DEF Open
<1>12. InPlace'
  BY <1>1, <1>3 DEF InPlace, ReadsLine
<1> QED
  BY <1>5, <1>9, <1>10, <1>11, <1>12 DEF Polite

-----------------------------------------------------------------------------
(* Each action, while the client waits                                     *)

LEMMA BeginRequestWait ==
  ASSUME IInv, WaitInv, NEW shape \in Shapes, BeginRequest(shape), ~hurried'
  PROVE  Polite'
<1>1. /\ Polite /\ up /\ (asked = <<>> \/ Answered(Last)) /\ unsent = <<>>
      /\ asked' = Append(asked, shape) /\ unsent' = Pieces(Len(asked) + 1, shape)
      /\ UNCHANGED <<buffer, arriving, state_, request_, handled, out, streaming, up>>
      /\ Len(asked) < MaxRequests
  BY DEF WaitInv, BeginRequest, context, Last
<1>2. Types /\ asked \in Seq(Shapes) /\ Last \in Nat /\ Pending \in Seq(PieceSet)
  BY LastFacts, PendingType DEF IInv, Types
<1>3. OnlyTheLast /\ (Open => Untouched) /\ InPlace /\ Streamed /\ Ordered(out)
  BY <1>1 DEF Polite
<1>4. ~Bad
  BY <1>1, <1>3 DEF Bad, OnlyTheLast
<1>5. /\ Pending = <<>> /\ state_ = "kExpectRequestLine" /\ streaming = {}
  <2>1. CASE asked = <<>>
    <3>1. Last = 0 /\ 1..Last = {}
      BY <1>2, <2>1, EmptySeq DEF Last
    <3>2. Pending = <<>>
      <4>1. SUFFICES ASSUME Pending # <<>> PROVE FALSE
        OBVIOUS
      <4>2. 1 \in 1..Len(Pending) /\ Pending[1] \in PieceSet
        BY <1>2, <4>1, HeadIsFirst
      <4> QED
        BY <1>3, <3>1, <4>2 DEF OnlyTheLast, PieceSet, Requests
    <3>3. state_ = "kExpectRequestLine"
      BY <3>1, RequestLine DEF Last
    <3>4. streaming = {}
      BY <1>2, <1>3, <3>1 DEF OnlyTheLast, Types, Requests
    <3> QED
      BY <3>2, <3>3, <3>4
  <2>2. CASE Answered(Last)
    <3>1. PICK i \in DOMAIN out :
            out[i].of = Last /\ out[i].what \in {"response", "badRequest", "done"}
      BY <2>2 DEF Answered
    <3>2. out[i].what # "badRequest" /\ out[i].what # "header"
      BY <1>4, <3>1 DEF Bad
    <3>3. ~Open
      BY <1>3, <3>1, <3>2 DEF Untouched
    <3>4. Last \notin streaming
      BY <1>3, <3>1, <3>2 DEF Streamed
    <3> QED
      BY <1>3, <3>3, <3>4 DEF Open, OnlyTheLast
  <2> QED
    BY <1>1, <2>1, <2>2
<1> DEFINE r == Pieces(Len(asked) + 1, shape)
           k == Last + 1
<1>6. k \in Requests
  BY <1>1, <1>2, HttpConnectionAssumption DEF Requests, Last
<1>7. PICK m \in 2..4 : CutInto(r, m, k, shape)
  BY <1>6, PiecesFacts DEF Last
<1>8. Pending' = r
  <2>1. buffer = <<>> /\ arriving = <<>>
    <3>1. /\ Len(Pending) = Len(buffer) + Len(arriving) + Len(unsent)
          /\ Len(buffer) \in Nat /\ Len(arriving) \in Nat /\ Len(unsent) \in Nat
      BY <1>2, PendingType
    <3>2. Len(buffer) = 0 /\ Len(arriving) = 0
      <4>1. \A b, a, u \in Nat : (b + a) + u = 0 => b = 0 /\ a = 0
        OBVIOUS
      <4>2. Len(Pending) = 0
        BY <1>5
      <4>3. (Len(buffer) + Len(arriving)) + Len(unsent) = 0
        BY <3>1, <4>2
      <4> QED
        BY <3>1, <4>1, <4>3
    <3>3. buffer \in Seq(PieceSet) /\ arriving \in Seq(PieceSet)
      BY <1>2 DEF Types
    <3> QED
      BY <3>2, <3>3, EmptySeq
  <2>2. r \in Seq(PieceSet)
    BY <1>7 DEF CutInto
  <2>3. <<>> \o <<>> = <<>> /\ <<>> \o r = r
    BY <2>2, EmptySeq, ConcatEmptySeq
  <2> QED
    BY <1>1, <2>1, <2>3 DEF Pending
<1> HIDE DEF r
<1>9. /\ Len(r) = m /\ (\A i \in 1..m : r[i].of = k) /\ r[1].part = "line"
  BY <1>7 DEF CutInto
<1>10. Last' = k /\ k \in Nat /\ Last < k /\ \A i \in 1..Last : asked'[i] = asked[i]
  BY <1>1, <1>2, AppendProperties DEF Last
<1> HIDE DEF k
<1>11. \A i \in DOMAIN out : out[i].of < k /\ out[i].what # "badRequest"
  <2> TAKE i \in DOMAIN out
  <2>1. out[i].of <= Last /\ out[i] \in OutSet
    BY <1>2, <1>3, ElementOfSeq, LenProperties DEF OnlyTheLast, Types
  <2>2. out[i].of \in Nat
    BY <2>1 DEF OutSet, Requests
  <2> QED
    BY <1>2, <1>4, <1>10, <2>1, <2>2 DEF Bad
<1>12. \A i \in DOMAIN handled : /\ Whole(handled[i])' /\ handled[i].line \in 1..k
                                 /\ handled[i].line # k
  <2> TAKE i \in DOMAIN handled
  <2>1. Whole(handled[i]) /\ handled[i].line \in 1..Last
    BY <1>3 DEF OnlyTheLast
  <2>2. asked'[handled[i].line] = asked[handled[i].line]
    BY <1>10, <2>1
  <2> QED
    BY <1>1, <1>2, <1>10, <2>1, <2>2 DEF Whole
<1>13. OnlyTheLast'
  <2>1. \A i \in DOMAIN out : out[i].of <= k
    <3> TAKE i \in DOMAIN out
    <3>1. out[i].of < k /\ out[i] \in OutSet
      BY <1>2, <1>11, ElementOfSeq, LenProperties DEF Types
    <3> QED
      BY <1>10, <3>1 DEF OutSet, Requests
  <2> QED
    BY <1>1, <1>5, <1>8, <1>9, <1>10, <1>11, <1>12, <2>1 DEF OnlyTheLast
<1>14. Untouched'
  <2>1. \A i \in DOMAIN out : out[i].of # k
    <3> TAKE i \in DOMAIN out
    <3>1. out[i].of < k /\ out[i] \in OutSet
      BY <1>2, <1>11, ElementOfSeq, LenProperties DEF Types
    <3> QED
      BY <1>10, <3>1 DEF OutSet, Requests
  <2> QED
    BY <1>1, <1>5, <1>10, <1>12, <2>1 DEF Untouched
<1>15. ~Bad'
  BY <1>1, <1>11 DEF Bad
<1>16. Ordered(out)' /\ Streamed' /\ Refused'
  BY <1>1, <1>3, <1>5, <1>15 DEF Ordered, Streamed, Refused
<1>17. InPlace'
  BY <1>1, <1>3, <1>5, <1>15 DEF InPlace, ReadsLine
<1> QED
  BY <1>13, <1>14, <1>16, <1>17 DEF Polite

LEMMA ReadLineWait ==
  ASSUME IInv, Polite, ReadLine
  PROVE  Polite'
<1>1. /\ buffer # <<>> /\ Front.part = "line" /\ asked[Front.of].version /\ Retrieve /\ Continue
      /\ state_ = "kExpectRequestLine" /\ state_' = "kExpectHeaders"
      /\ request_' = [request_ EXCEPT !.method = asked[Front.of].method, !.line = Front.of]
      /\ request_ \in RequestSet
  BY DEF IInv, Types, ReadLine, Next_, Parsing
<1>2. Front.of = Last /\ Last \in Requests /\ Pending # <<>>
  BY <1>1, PendingIsLast, FrontFacts
<1>3. UNCHANGED <<asked, arriving, unsent, out>> /\ Last' = Last
  BY <1>1 DEF Continue, client, Last
<1>4. ReadsLine /\ ~Bad
  BY <1>1, <1>2 DEF Polite, InPlace, ReadsLine
<1>5. /\ request_'.line = Last /\ request_'.method = asked[Last].method
      /\ request_'.length = "none" /\ request_'.headers = 0
  BY <1>1, <1>2, <1>4 DEF ReadsLine, RequestSet
<1>6. Pending' # <<>> /\ Pending'[1].part # "line"
  BY <1>1, <1>3, RetrievedIsLast DEF Closes, Rest
<1>7. ReadsHeaders'
  BY <1>3, <1>4, <1>5, <1>6 DEF ReadsHeaders, Bad
<1>8. InPlace'
  BY <1>1, <1>7 DEF InPlace
<1> QED
  BY <1>1, <1>8, ParsedWait

LEMMA RejectLineWait ==
  ASSUME IInv, Polite, RejectLine
  PROVE  Polite'
<1>1. /\ buffer # <<>> /\ ~asked[Front.of].version /\ UNCHANGED <<buffer, state_>> /\ Reject
      /\ state_ = "kExpectRequestLine"
      /\ request_' = [request_ EXCEPT !.method = asked[Front.of].method]
      /\ request_ \in RequestSet
  BY DEF IInv, Types, RejectLine, Next_, Parsing
<1>2. Front.of = Last
  BY <1>1, PendingIsLast
<1>3. Pending' = Pending /\ asked' = asked /\ Last' = Last
  BY <1>1 DEF Reject, client, Pending, Last
<1>4. request_'.length = "none" /\ request_'.headers = 0
  BY <1>1 DEF Polite, InPlace, ReadsLine, RequestSet
<1>5. InPlace'
  BY <1>1, <1>2, <1>3, <1>4 DEF InPlace, ReadsLine
<1>6. \A i \in 1..Len(Pending') : Pending'[i].of = Last
  BY <1>3 DEF Polite, OnlyTheLast
<1> QED
  BY <1>1, <1>5, <1>6, RejectedWait

(* At the headers: of the last request, and no line.                       *)
LEMMA HeadersWait ==
  ASSUME IInv, Polite, Next_("kExpectHeaders")
  PROVE  /\ buffer # <<>> /\ state_ = "kExpectHeaders" /\ request_ \in RequestSet
         /\ Front = Pending[1] /\ Front.of = Last /\ Last \in Requests /\ Pending # <<>>
         /\ ReadsHeaders /\ Front.part \in {"length", "empty"}
         /\ Front.part = "empty" => request_.length = asked[Last].length
<1>1. buffer # <<>> /\ state_ = "kExpectHeaders" /\ request_ \in RequestSet
  BY DEF Next_, Parsing, IInv, Types
<1>2. Front = Pending[1] /\ Front.of = Last /\ Last \in Requests /\ Pending # <<>>
  BY <1>1, FrontFacts, PendingIsLast
<1>3. ReadsHeaders
  BY <1>1 DEF Polite, InPlace
<1>4. Front.part # "line"
  BY <1>2, <1>3 DEF ReadsHeaders
<1> QED
  BY <1>1, <1>2, <1>3, <1>4, HeadersFacts

LEMMA ReadHeaderWait ==
  ASSUME IInv, Polite, ReadHeader
  PROVE  Polite'
<1>1. /\ Next_("kExpectHeaders") /\ Front.part = "length" /\ Retrieve /\ Continue
      /\ state_' = state_
      /\ request_' = [request_ EXCEPT !.length = asked[Front.of].length, !.headers = Front.of]
  BY DEF ReadHeader
<1>2. /\ buffer # <<>> /\ state_ = "kExpectHeaders" /\ request_ \in RequestSet
      /\ Front = Pending[1] /\ Front.of = Last /\ Pending # <<>> /\ ReadsHeaders
  BY <1>1, HeadersWait
<1>3. UNCHANGED <<asked, arriving, unsent, out>> /\ Last' = Last
  BY <1>1 DEF Continue, client, Last
<1>4. /\ request_'.line = Last /\ request_'.method = asked[Last].method
      /\ request_'.headers = Last
  BY <1>1, <1>2 DEF ReadsHeaders, RequestSet
<1>5. Pending' # <<>> /\ Pending'[1].part # "line"
  BY <1>1, <1>2, <1>3, RetrievedIsLast DEF Closes, Rest
<1>6. ~Bad
  BY <1>1, <1>2 DEF ReadsHeaders
<1>7. ReadsHeaders'
  BY <1>3, <1>4, <1>5, <1>6 DEF ReadsHeaders, Bad
<1>8. InPlace'
  BY <1>1, <1>2, <1>7 DEF InPlace
<1> QED
  BY <1>1, <1>2, <1>8, ParsedWait

LEMMA RejectHeaderWait ==
  ASSUME IInv, Polite, RejectHeader
  PROVE  Polite'
<1>1. Next_("kExpectHeaders") /\ Front.part = "line"
  BY DEF RejectHeader
<1> QED
  BY <1>1, HeadersWait

LEMMA RejectPostWait ==
  ASSUME IInv, Polite, RejectPost
  PROVE  Polite'
<1>1. /\ Next_("kExpectHeaders") /\ Front.part = "empty" /\ Retrieve /\ Reject
      /\ UNCHANGED <<state_, request_>>
      /\ request_.method = "post" /\ request_.length = "none"
  BY DEF RejectPost, EndOfHeaders, HasBody
<1>2. /\ buffer # <<>> /\ state_ = "kExpectHeaders" /\ Front.of = Last /\ ReadsHeaders
      /\ asked[Last].length = "none"
  BY <1>1, HeadersWait
<1>3. UNCHANGED <<asked, arriving, unsent>> /\ Last' = Last
  BY <1>1 DEF Reject, client, Last
<1>4. Pending' = <<>> /\ \A i \in 1..Len(Pending') : Pending'[i].of = Last
  BY <1>1, <1>2, <1>3, RetrievedIsLast DEF Closes
<1>5. ReadsHeaders'
  BY <1>1, <1>2, <1>3, <1>4 DEF ReadsHeaders
<1>6. InPlace'
  BY <1>1, <1>2, <1>5 DEF InPlace
<1> QED
  BY <1>1, <1>2, <1>4, <1>6, RejectedWait

LEMMA StoiThrowsWait ==
  ASSUME IInv, Polite, StoiThrows
  PROVE  Polite'
<1>1. /\ Next_("kExpectHeaders") /\ Front.part = "empty" /\ Reject
      /\ UNCHANGED <<buffer, state_, request_>>
      /\ request_.method = "post" /\ request_.length = "malformed"
  BY DEF StoiThrows, EndOfHeaders, HasBody, context
<1>2. /\ buffer # <<>> /\ state_ = "kExpectHeaders" /\ Front = Pending[1] /\ Pending # <<>>
      /\ ReadsHeaders
  BY <1>1, HeadersWait
<1>3. Pending' = Pending /\ asked' = asked /\ Last' = Last
  BY <1>1 DEF Reject, client, Last, Pending
<1>4. \A i \in 1..Len(Pending') : Pending'[i].of = Last
  BY <1>3 DEF Polite, OnlyTheLast
<1>5. ReadsHeaders'
  BY <1>1, <1>2, <1>3 DEF ReadsHeaders
<1>6. InPlace'
  BY <1>1, <1>2, <1>5 DEF InPlace
<1> QED
  BY <1>1, <1>2, <1>4, <1>6, RejectedWait

LEMMA EndWithoutBodyWait ==
  ASSUME IInv, Polite, EndWithoutBody
  PROVE  Polite'
<1>1. /\ Next_("kExpectHeaders") /\ Front.part = "empty" /\ Retrieve /\ Continue
      /\ request_.method # "post" /\ request_' = request_ /\ state_' = "kGotAll"
  BY DEF EndWithoutBody, EndOfHeaders, HasBody
<1>2. /\ buffer # <<>> /\ Front.of = Last /\ ReadsHeaders
      /\ request_.length = asked[Last].length
  BY <1>1, HeadersWait
<1>3. UNCHANGED <<asked, arriving, unsent, out>> /\ Last' = Last
  BY <1>1 DEF Continue, client, Last
<1>4. asked[Last].length # "body"
  BY <1>1, <1>2, HeadersFacts
<1>5. Pending' = <<>>
  BY <1>1, <1>2, <1>3, <1>4, RetrievedIsLast DEF Closes
<1>6. ~Bad
  BY <1>1, <1>2 DEF ReadsHeaders
<1>7. HasAll'
  BY <1>1, <1>2, <1>3, <1>4, <1>5, <1>6 DEF HasAll, Whole, ReadsHeaders, Bad
<1>8. InPlace'
  BY <1>1, <1>7 DEF InPlace
<1> QED
  BY <1>1, <1>2, <1>8, ParsedWait

LEMMA EndWithLengthWait ==
  ASSUME IInv, Polite, EndWithLength
  PROVE  Polite'
<1> DEFINE n == Converted[request_.length]
<1>1. /\ Next_("kExpectHeaders") /\ Front.part = "empty" /\ Retrieve /\ Continue
      /\ request_.length \in DOMAIN Converted
      /\ request_' = [request_ EXCEPT !.contentLength = n]
      /\ state_' = IF n > 0 THEN "kExpectBody" ELSE "kGotAll"
  BY DEF EndWithLength, StartBody, EndOfHeaders
<1>2. /\ buffer # <<>> /\ Front.of = Last /\ ReadsHeaders /\ request_ \in RequestSet
      /\ request_.length = asked[Last].length /\ Pending # <<>> /\ Front = Pending[1]
  BY <1>1, HeadersWait
<1>3. UNCHANGED <<asked, arriving, unsent, out>> /\ Last' = Last
  BY <1>1 DEF Continue, client, Last
<1>4. request_.length \in {"zero", "body", "negative"} /\ (request_.length = "body" => n = 1)
  BY <1>1 DEF Converted
<1> HIDE DEF n
<1>5. ~Bad
  BY <1>2, <1>4 DEF ReadsHeaders
<1>6. /\ request_'.line = Last /\ request_'.method = asked[Last].method
      /\ request_'.length = asked[Last].length /\ request_'.headers \in {0, Last}
  BY <1>1, <1>2 DEF ReadsHeaders, RequestSet
<1>7. CASE n > 0
  <2>1. ReadsBody'
    BY <1>3, <1>5, <1>6 DEF ReadsBody, Bad
  <2>2. InPlace'
    BY <1>1, <1>7, <2>1 DEF InPlace
  <2> QED
    BY <1>1, <1>2, <2>2, ParsedWait
<1>8. CASE ~(n > 0)
  <2>1. asked[Last].length # "body"
    BY <1>2, <1>4, <1>8
  <2>2. Pending' = <<>>
    BY <1>1, <1>2, <1>3, <2>1, RetrievedIsLast DEF Closes
  <2>3. HasAll'
    BY <1>3, <1>5, <1>6, <2>1, <2>2 DEF HasAll, Whole, Bad
  <2>4. InPlace'
    BY <1>1, <1>8, <2>3 DEF InPlace
  <2> QED
    BY <1>1, <1>2, <2>4, ParsedWait
<1> QED
  BY <1>7, <1>8

LEMMA ReadBodyWait ==
  ASSUME IInv, Polite, ReadBody
  PROVE  Polite'
<1>1. /\ Next_("kExpectBody") /\ ~Short /\ Retrieve /\ Continue /\ state_' = "kGotAll"
      /\ request_' = [request_ EXCEPT !.body = Front.of] /\ state_ = "kExpectBody"
  BY DEF ReadBody, Next_, Parsing
<1>2. Front.part = "body" /\ buffer # <<>> /\ request_ \in RequestSet
  BY <1>1, BodyFacts DEF Types
<1>3. Front.of = Last /\ ReadsBody
  BY <1>1, <1>2, PendingIsLast DEF Polite, InPlace
<1>4. UNCHANGED <<asked, arriving, unsent, out>> /\ Last' = Last
  BY <1>1 DEF Continue, client, Last
<1>5. Pending' = <<>>
  BY <1>1, <1>2, <1>4, RetrievedIsLast DEF Closes
<1>6. /\ request_'.line = Last /\ request_'.method = asked[Last].method
      /\ request_'.length = asked[Last].length /\ request_'.headers \in {0, Last}
      /\ request_'.body = Last
  BY <1>1, <1>2, <1>3 DEF ReadsBody, RequestSet
<1>7. HasAll'
  BY <1>3, <1>4, <1>5, <1>6 DEF HasAll, Whole, ReadsBody, Bad
<1>8. InPlace'
  BY <1>1, <1>7 DEF InPlace
<1> QED
  BY <1>1, <1>2, <1>8, ParsedWait

LEMMA DispatchWait ==
  ASSUME IInv, Polite, Dispatch
  PROVE  Polite'
<1>1. CASE HandlerStreams
  BY <1>1, DispatchedWait DEF HandlerStreams, Handler
<1>2. CASE ~HandlerStreams
  <2>1. /\ Dispatched /\ \E close \in BOOLEAN : Respond(close)
        /\ handled' = handled \/ handled' = Append(handled, request_)
    BY <1>2 DEF Dispatch, Preflight, NotFound, HandlerThrows, HandlerReturns, Handler
  <2>2. out' = Sent(request_.line, "response") /\ streaming' = streaming
    BY <2>1 DEF Respond
  <2> QED
    BY <2>1, <2>2, DispatchedWait
<1> QED
  BY <1>1, <1>2

LEMMA StreamEndsWait ==
  ASSUME IInv, Polite, NEW k \in Requests, StreamEnds(k)
  PROVE  Polite'
<1>1. /\ Types /\ k \in streaming /\ out' = Sent(k, "done") /\ up' = FALSE
      /\ streaming' = streaming \ {k}
      /\ UNCHANGED <<client, arriving, parsing, context, handled>>
  BY DEF IInv, StreamEnds
<1>2. /\ OnlyTheLast /\ Streamed /\ InPlace /\ (Open => Untouched)
  BY DEF Polite
<1>3. k = Last /\ Last \in Requests /\ Last \in Nat
  BY <1>1, <1>2, LastFacts DEF OnlyTheLast
<1>4. ~Open /\ ~Bad
  BY <1>1, <1>2, <1>3 DEF Untouched, Streamed, OnlyTheLast, Bad
<1>5. Pending' = Pending /\ asked' = asked /\ Last' = Last
      /\ UNCHANGED <<state_, request_, handled>>
  BY <1>1 DEF Pending, client, context, Last
<1>6. /\ Ordered(out)'
      /\ \A i \in DOMAIN out' : \/ i \in DOMAIN out /\ out'[i] = out[i]
                                \/ out'[i] = [of |-> Last, what |-> "done"]
  <2>1. \A i \in DOMAIN out : out[i].of = Last => out[i].what = "header"
    BY <1>1, <1>2, <1>3 DEF Streamed
  <2> QED
    BY <1>1, <1>3, <2>1, SentOrdered DEF Ordered
<1>7. \A i \in DOMAIN out' : out'[i].what # "badRequest" /\ out'[i].of <= Last
  <2> TAKE i \in DOMAIN out'
  <2>1. CASE i \in DOMAIN out /\ out'[i] = out[i]
    BY <1>2, <1>4, <2>1 DEF OnlyTheLast, Bad
  <2>2. CASE out'[i] = [of |-> Last, what |-> "done"]
    BY <1>3, <2>2
  <2> QED
    BY <1>6, <2>1, <2>2
<1>8. OnlyTheLast'
  <2>1. \A i \in DOMAIN handled : Whole(handled[i])' /\ handled[i].line \in 1..Last
    BY <1>2, <1>5 DEF OnlyTheLast, Whole
  <2> QED
    BY <1>1, <1>2, <1>5, <1>7, <2>1 DEF OnlyTheLast
<1>9. Streamed' /\ Refused' /\ ~Bad'
  BY <1>1, <1>3, <1>5, <1>7 DEF Streamed, Refused, Bad
<1>10. ~Open' /\ InPlace'
  BY <1>2, <1>4, <1>5 DEF Open, InPlace, ReadsLine
<1> QED
  BY <1>6, <1>8, <1>9, <1>10 DEF Polite

LEMMA WaitStep == IInv /\ WaitInv /\ [Next]_vars => WaitInv'
<1> SUFFICES ASSUME IInv, WaitInv, [Next]_vars, ~hurried'
             PROVE  Polite'
  BY DEF WaitInv
<1>1. CASE \E shape \in Shapes : BeginRequest(shape)
  BY <1>1, BeginRequestWait
<1>2. CASE SendPiece
  <2>1. Polite /\ Pending' = Pending
    BY <1>2, SendKeepsPending DEF SendPiece, WaitInv, IInv
  <2> QED
    BY <1>2, <2>1, MovedWait DEF SendPiece, context
<1>3. CASE OnMessage
  <2>1. Polite /\ Pending' = Pending
    BY <1>3, ReadKeepsPending DEF OnMessage, client, WaitInv, IInv
  <2> QED
    BY <1>3, <2>1, MovedWait DEF OnMessage, client
<1>4. CASE Parse
  <2>1. CASE WaitForMore
    <3>1. Polite /\ Pending' = Pending
      BY <2>1 DEF WaitForMore, client, context, WaitInv, Pending
    <3> QED
      BY <2>1, <3>1, MovedWait DEF WaitForMore, client, context
  <2>2. CASE ~WaitForMore
    <3>1. hurried' = hurried
      BY <1>4, <2>2 DEF Parse, ReadLine, RejectLine, ReadHeader, RejectHeader, EndWithoutBody,
        RejectPost, StoiThrows, EndWithLength, ReadBody, Continue, Reject, client
    <3>2. Polite
      BY <3>1 DEF WaitInv
    <3> QED
      BY <1>4, <2>2, <3>2, ReadLineWait, RejectLineWait, ReadHeaderWait, RejectHeaderWait,
         EndWithoutBodyWait, RejectPostWait, StoiThrowsWait, EndWithLengthWait, ReadBodyWait
         DEF Parse
  <2> QED
    BY <2>1, <2>2
<1>5. CASE Dispatch
  <2>1. Dispatched
    BY <1>5 DEF Dispatch, Preflight, NotFound, HandlerThrows, HandlerStreams, HandlerReturns
  <2>2. Polite
    BY <2>1 DEF Dispatched, client, WaitInv
  <2> QED
    BY <1>5, <2>2, DispatchWait
<1>6. CASE \E k \in Requests : StreamEnds(k)
  <2>1. Polite
    BY <1>6 DEF StreamEnds, client, WaitInv
  <2> QED
    BY <1>6, <2>1, StreamEndsWait
<1>7. CASE UNCHANGED vars
  <2>1. Polite /\ Pending' = Pending
    BY <1>7 DEF vars, client, context, WaitInv, Pending
  <2> QED
    BY <1>7, <2>1, MovedWait DEF vars, client, context
<1> QED
  BY <1>1, <1>2, <1>3, <1>4, <1>5, <1>6, <1>7 DEF Next

LEMMA InitWait == Init => WaitInv
<1> SUFFICES ASSUME Init PROVE Polite
  BY DEF WaitInv
<1>1. Pending = <<>> /\ Len(<<>>) = 0 /\ DOMAIN <<>> = {}
  <2>1. <<>> \in Seq(PieceSet) /\ Len(<<>>) = 0
    BY EmptySeq
  <2>2. <<>> \o <<>> = <<>>
    BY <2>1, ConcatEmptySeq
  <2> QED
    BY <2>1, <2>2 DEF Init, Pending
<1>2. Last = 0 /\ ~Open /\ ~Bad
  BY <1>1 DEF Init, Last, Open, Bad
<1>3. OnlyTheLast
  BY <1>1 DEF Init, OnlyTheLast
<1>4. Ordered(out) /\ Streamed /\ Refused
  BY <1>1, <1>2 DEF Init, Ordered, Streamed, Refused
<1>5. InPlace
  BY <1>1 DEF Init, InPlace, ReadsLine, Blank
<1> QED
  BY <1>2, <1>3, <1>4, <1>5 DEF Polite

LEMMA WaitInvariance == Spec => [](IInv /\ WaitInv)
<1> QED
  BY InitInv, StepInv, InitWait, WaitStep, PTL DEF Spec

-----------------------------------------------------------------------------

(* What a handler is given is one request, whole, and no request from one  *)
(* that was rejected on, unless the client did not wait.                   *)
THEOREM RequestsCorrect == Spec => []RequestsAreWhole
<1>1. ASSUME IInv, WaitInv
      PROVE  RequestsAreWhole
  <2> SUFFICES ASSUME ~hurried, NEW i \in DOMAIN handled
               PROVE  Whole(handled[i]) /\ ~Rejected(handled[i].line)
    BY DEF RequestsAreWhole
  <2>1. OnlyTheLast /\ Refused /\ Last \in Nat
    BY <1>1, LastFacts DEF WaitInv, Polite, IInv
  <2>2. Whole(handled[i]) /\ handled[i].line \in 1..Last
    BY <2>1 DEF OnlyTheLast
  <2>3. ASSUME Rejected(handled[i].line)
        PROVE  FALSE
    <3>1. PICK j \in DOMAIN out : out[j].of <= handled[i].line /\ out[j].what = "badRequest"
      BY <2>3 DEF Rejected
    <3>2. out[j].of = Last /\ Bad
      BY <2>1, <3>1 DEF OnlyTheLast, Bad
    <3>3. handled[i].line = Last
      BY <2>1, <2>2, <3>1, <3>2
    <3> QED
      BY <2>1, <3>2, <3>3 DEF Refused
  <2> QED
    BY <2>2, <2>3
<1> QED
  BY <1>1, WaitInvariance, PTL

(* Answers come in the order of the requests, one for each, and nothing is *)
(* sent between the header and the end of a stream.                        *)
THEOREM AnswersCorrect == Spec => []AnswersInOrder
<1>1. ASSUME WaitInv
      PROVE  AnswersInOrder
  BY <1>1 DEF WaitInv, Polite, Ordered, AnswersInOrder
<1> QED
  BY <1>1, WaitInvariance, PTL

=============================================================================
