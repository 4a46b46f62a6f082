------------------------ MODULE MetricsAndSearchProofs ------------------------
(***************************************************************************)
(* The two components that work for themselves.  The invariants of         *)
(* QpsMetrics and its property of steps, for any number of threads, any    *)
(* windows and any time before() keeps hits for; below them the invariant  *)
(* of WebSearch, for pages of any pieces and any length.                   *)
(***************************************************************************)
EXTENDS QpsMetrics, WebSearch, SequenceTheorems, FiniteSetTheorems, WellFoundedInduction, TLAPS

IInv == TypeOK /\ OnlyOldIsLost /\ SpansFitWindows

(* What PurgeOld does to the deque it gets: it takes off n old hits and    *)
(* stops at one that is not; reach follows the cutoffs upwards.            *)
LEMMA Purging ==
  ASSUME NEW hits \in Seq(Nat), NEW cutoff \in Int, reach \in Nat, PurgeOld(hits, cutoff)
  PROVE  /\ gHits' \in Seq(Nat)
         /\ reach' \in Nat /\ reach' >= reach /\ reach' >= cutoff
         /\ gHits' # <<>> => gHits'[1] >= cutoff
         /\ \E n \in 0..Len(hits) :
              /\ Len(gHits') = Len(hits) - n
              /\ \A i \in 1..n : hits[i] < cutoff
              /\ \A i \in 1..Len(gHits') : gHits'[i] = hits[n + i]
<1>1. reach' \in Nat /\ reach' >= reach /\ reach' >= cutoff
  BY DEF PurgeOld
<1>2. PICK n \in 0..Len(hits) :
        /\ \A i \in 1..n : hits[i] < cutoff
        /\ n < Len(hits) => hits[n + 1] >= cutoff
        /\ gHits' = SubSeq(hits, n + 1, Len(hits))
  BY DEF PurgeOld
<1>3. /\ gHits' \in Seq(Nat)
      /\ Len(gHits') = Len(hits) - n
      /\ \A i \in 1..Len(gHits') : gHits'[i] = hits[n + i]
  <2>1. \A i \in (n + 1)..Len(hits) : hits[i] \in Nat
    OBVIOUS
  <2>2. /\ SubSeq(hits, n + 1, Len(hits)) \in Seq(Nat)
        /\ Len(SubSeq(hits, n + 1, Len(hits)))
             = IF n + 1 <= Len(hits) THEN Len(hits) - (n + 1) + 1 ELSE 0
        /\ \A i \in 1..(Len(hits) - (n + 1) + 1) :
             SubSeq(hits, n + 1, Len(hits))[i] = hits[(n + 1) + i - 1]
    BY <2>1, SubSeqProperties
  <2> QED
    BY <1>2, <2>2
<1>4. gHits' # <<>> => gHits'[1] >= cutoff
  BY <1>2, <1>3
<1> QED
  BY <1>1, <1>2, <1>3, <1>4

(* The window a reader is about to read exists.                            *)
LEMMA WindowType ==
  ASSUME TypeOK, NEW t \in Threads, req[t].at \in {"now", "count"}
  PROVE  Window(t) \in Nat \ {0}
<1>1. Windows \in Seq(Nat \ {0})
  BY QpsMetricsAssumption
<1>2. /\ Len(req[t].rates) \in Nat
      /\ Len(req[t].rates) < Len(Windows)
  BY DEF TypeOK, RequestOK, RequestSet
<1> QED
  BY <1>1, <1>2 DEF Window

(* One request changes, to one that is as it should be.                    *)
LEMMA RequestChanges ==
  ASSUME TypeOK, NEW t \in Threads, NEW new \in RequestSet, RequestOK(new),
         req' = [req EXCEPT ![t] = new]
  PROVE  req' \in [Threads -> RequestSet] /\ \A u \in Threads : RequestOK(req'[u])
  BY DEF TypeOK

(* What a request record is before and after a request.                    *)
LEMMA FreeType == Free \in RequestSet /\ RequestOK(Free) /\ Free.at = "idle"
  BY QpsMetricsAssumption DEF Free, RequestSet, RequestOK, Places

(* The rate of a deque that holds nothing older than the window.           *)
LEMMA RateFits ==
  ASSUME NEW hits \in Seq(Nat), NEW now \in Nat, NEW w \in Nat \ {0},
         hits # <<>> => hits[1] >= now - w
  PROVE  Rate(hits, now) \in RateSet /\ Rate(hits, now).span \in 1..w
<1>1. CASE hits = <<>> \/ now - Head(hits) <= 0
  BY <1>1 DEF Rate, NoRate, RateSet
<1>2. CASE ~(hits = <<>> \/ now - Head(hits) <= 0)
  <2>1. Head(hits) = hits[1] /\ hits[1] \in Nat /\ Len(hits) \in Nat
    BY <1>2
  <2> QED
    BY <1>2, <2>1 DEF Rate, RateSet
<1> QED
  BY <1>1, <1>2

-----------------------------------------------------------------------------
(* What the two steps that use the deque make of it.                       *)
LEMMA RecordEffect ==
  ASSUME TypeOK, NEW t \in Threads, Record(t)
  PROVE  /\ req[t].ts \in Nat
         /\ Append(gHits, req[t].ts) \in Seq(Nat)
         /\ req[t].ts - Kept \in Int
         /\ PurgeOld(Append(gHits, req[t].ts), req[t].ts - Kept)
         /\ recorded' = Append(recorded, req[t].ts)
         /\ recorded' \in Seq(Nat)
  BY QpsMetricsAssumption DEF TypeOK, RequestSet, Record, At

(* The same for a reader of a window.                                      *)
LEMMA CountEffect ==
  ASSUME TypeOK, NEW t \in Threads, Count(t)
  PROVE  /\ req[t].ts \in Nat
         /\ Window(t) \in Nat \ {0}
         /\ req[t].ts - Window(t) \in Int
         /\ PurgeOld(gHits, req[t].ts - Window(t))
         /\ recorded' = recorded
<1>1. Window(t) \in Nat \ {0}
  BY WindowType DEF Count, At
<1> QED
  BY <1>1 DEF TypeOK, RequestSet, Count, At

(* Every step keeps the types.                                             *)
LEMMA TypeStep == TypeOK /\ [Next]_vars => TypeOK'
<1> SUFFICES ASSUME TypeOK, [Next]_vars
             PROVE  TypeOK'
  OBVIOUS
<1>0. \A t \in Threads : req[t] \in RequestSet /\ RequestOK(req[t])
  BY DEF TypeOK
<1>1. CASE Tick
  BY <1>1 DEF TypeOK, Tick
<1>2. ASSUME NEW t \in Threads, NEW metrics \in BOOLEAN, Before(t, metrics)
      PROVE  TypeOK'
  <2> DEFINE new == [req[t] EXCEPT !.at = "stamp", !.metrics = metrics]
  <2>1. new \in RequestSet /\ RequestOK(new)
    BY <1>0, <1>2 DEF Before, At, RequestSet, RequestOK, Places
  <2>2. req' = [req EXCEPT ![t] = new]
    BY <1>2 DEF Before
  <2> HIDE DEF new
  <2>3. req' \in [Threads -> RequestSet] /\ \A u \in Threads : RequestOK(req'[u])
    BY <2>1, <2>2, RequestChanges
  <2> QED
    BY <1>2, <2>3, QpsMetricsAssumption DEF TypeOK, Before
<1>3. ASSUME NEW t \in Threads, Stamp(t)
      PROVE  TypeOK'
  <2> DEFINE new == [req[t] EXCEPT !.at = "record", !.ts = clock]
  <2>1. new \in RequestSet /\ RequestOK(new)
    BY <1>0, <1>3 DEF Stamp, At, TypeOK, RequestSet, RequestOK, Places
  <2>2. req' = [req EXCEPT ![t] = new]
    BY <1>3 DEF Stamp
  <2> HIDE DEF new
  <2>3. req' \in [Threads -> RequestSet] /\ \A u \in Threads : RequestOK(req'[u])
    BY <2>1, <2>2, RequestChanges
  <2> QED
    BY <1>3, <2>3 DEF TypeOK, Stamp
<1>4. ASSUME NEW t \in Threads, Record(t)
      PROVE  TypeOK'
  <2> DEFINE new == IF req[t].metrics THEN [req[t] EXCEPT !.at = "now"] ELSE Free
  <2>1. gHits' \in Seq(Nat) /\ recorded' \in Seq(Nat) /\ reach' \in Nat
    BY <1>4, RecordEffect, Purging DEF TypeOK
  <2>2. new \in RequestSet /\ RequestOK(new)
    <3>1. req[t].rates = <<>> /\ 0 < Len(Windows)
      BY <1>0, <1>4, QpsMetricsAssumption DEF Record, At, RequestOK
    <3>2. CASE req[t].metrics
      <4>1. [req[t] EXCEPT !.at = "now"] \in RequestSet
        BY <1>0 DEF RequestSet, Places
      <4>2. RequestOK([req[t] EXCEPT !.at = "now"])
        BY <1>0, <3>1, QpsMetricsAssumption DEF RequestOK, RequestSet
      <4> QED
        BY <3>2, <4>1, <4>2
    <3>3. CASE ~req[t].metrics
      BY <3>3, FreeType
    <3> QED
      BY <3>2, <3>3
  <2>3. req' = [req EXCEPT ![t] = new]
    BY <1>4 DEF Record, Goto
  <2> HIDE DEF new
  <2>4. req' \in [Threads -> RequestSet] /\ \A u \in Threads : RequestOK(req'[u])
    BY <2>2, <2>3, RequestChanges
  <2> QED
    BY <1>4, <2>1, <2>4 DEF TypeOK, Record
<1>5. ASSUME NEW t \in Threads, ReadClock(t)
      PROVE  TypeOK'
  <2> DEFINE new == [req[t] EXCEPT !.at = "count", !.ts = clock]
  <2>1. new \in RequestSet /\ RequestOK(new)
    BY <1>0, <1>5 DEF TypeOK, RequestSet, RequestOK, Places, ReadClock, At
  <2>2. req' = [req EXCEPT ![t] = new]
    BY <1>5 DEF ReadClock
  <2> HIDE DEF new
  <2>3. req' \in [Threads -> RequestSet] /\ \A u \in Threads : RequestOK(req'[u])
    BY <2>1, <2>2, RequestChanges
  <2> QED
    BY <1>5, <2>3 DEF TypeOK, ReadClock
<1>6. ASSUME NEW t \in Threads, Count(t)
      PROVE  TypeOK'
  <2> DEFINE rate == Rate(gHits', req[t].ts)
             new == [req[t] EXCEPT
                       !.at = IF Len(req[t].rates) + 1 < Len(Windows) THEN "now" ELSE "reply",
                       !.rates = Append(@, rate)]
  <2>1. /\ gHits' \in Seq(Nat) /\ reach' \in Nat
        /\ gHits' # <<>> => gHits'[1] >= req[t].ts - Window(t)
    BY <1>6, CountEffect, Purging DEF TypeOK
  <2>2. rate \in RateSet
    BY <1>6, <2>1, CountEffect, RateFits
  <2>3. req' = [req EXCEPT ![t] = new]
    BY <1>6 DEF Count
  <2> HIDE DEF rate
  <2>4. Len(req[t].rates) < Len(Windows)
    BY <1>0, <1>6 DEF Count, At, RequestOK
  <2>5. new \in RequestSet /\ RequestOK(new)
    <3>1. new \in RequestSet
      <4>1. Append(req[t].rates, rate) \in Seq(RateSet)
        BY <1>0, <2>2 DEF RequestSet
      <4>2. (IF Len(req[t].rates) + 1 < Len(Windows) THEN "now" ELSE "reply") \in Places
        BY DEF Places
      <4> QED
        BY <1>0, <4>1, <4>2 DEF RequestSet
    <3>2. Len(Windows) \in Nat /\ Len(req[t].rates) \in Nat
      BY <1>0, QpsMetricsAssumption DEF RequestSet
    <3>3. Len(new.rates) = Len(req[t].rates) + 1
      BY <1>0, <2>2 DEF RequestSet
    <3>4. new.at = IF Len(req[t].rates) + 1 < Len(Windows) THEN "now" ELSE "reply"
      BY <1>0 DEF RequestSet
    <3> QED
      BY <2>4, <3>1, <3>2, <3>3, <3>4 DEF RequestOK
  <2> HIDE DEF new
  <2>6. req' \in [Threads -> RequestSet] /\ \A u \in Threads : RequestOK(req'[u])
    BY <2>3, <2>5, RequestChanges
  <2> QED
    BY <1>6, <2>1, <2>6 DEF TypeOK, Count
<1>7. ASSUME NEW t \in Threads, Reply(t)
      PROVE  TypeOK'
  <2>1. req' \in [Threads -> RequestSet] /\ \A u \in Threads : RequestOK(req'[u])
    BY <1>7, FreeType, RequestChanges DEF Reply
  <2> QED
    BY <1>7, <2>1 DEF TypeOK, Reply
<1>8. CASE UNCHANGED vars
  BY <1>8 DEF TypeOK, vars
<1> QED
  BY <1>1, <1>2, <1>3, <1>4, <1>5, <1>6, <1>7, <1>8 DEF Next

-----------------------------------------------------------------------------
(* Purging the deque hits, which ends the sequence of the pushes.          *)
LEMMA Loss ==
  ASSUME TypeOK, recorded' \in Seq(Nat),
         NEW hits \in Seq(Nat), NEW cutoff \in Int, PurgeOld(hits, cutoff),
         NEW p \in Nat, p + Len(hits) = Len(recorded'),
         \A i \in 1..Len(hits) : hits[i] = recorded'[p + i],
         \A i \in 1..p : recorded'[i] < reach
  PROVE  OnlyOldIsLost'
<1>1. PICK n \in 0..Len(hits) :
        /\ Len(gHits') = Len(hits) - n
        /\ \A i \in 1..n : hits[i] < cutoff
        /\ \A i \in 1..Len(gHits') : gHits'[i] = hits[n + i]
  BY Purging DEF TypeOK
<1>2. reach' \in Nat /\ reach' >= reach /\ reach' >= cutoff /\ gHits' \in Seq(Nat)
  BY Purging DEF TypeOK
<1>3. Len(hits) \in Nat /\ Popped' = p + n
  <2>1. Len(hits) \in Nat /\ Len(recorded') \in Nat /\ n \in Nat
    OBVIOUS
  <2>2. Popped' = Len(recorded') - Len(gHits')
    BY DEF Popped
  <2> QED
    BY <1>1, <2>1, <2>2
<1>4. ASSUME NEW i \in 1..Len(gHits')
      PROVE  gHits'[i] = recorded'[p + n + i]
  <2>1. n + i \in 1..Len(hits) /\ p + (n + i) = p + n + i
    BY <1>1, <1>2, <1>3
  <2> QED
    BY <1>1, <2>1
<1>5. ASSUME NEW i \in 1..(p + n)
      PROVE  recorded'[i] < reach'
  <2>1. CASE i <= p
    <3>1. i \in 1..p /\ i \in 1..Len(recorded')
      BY <1>3, <2>1
    <3>2. recorded'[i] \in Nat /\ recorded'[i] < reach
      BY <3>1
    <3> QED
      BY <1>2, <3>2 DEF TypeOK
  <2>2. CASE i > p
    <3>1. i - p \in 1..n /\ i - p \in 1..Len(hits) /\ p + (i - p) = i
      BY <1>1, <1>3, <2>2
    <3>2. hits[i - p] \in Nat /\ hits[i - p] < cutoff /\ hits[i - p] = recorded'[i]
      <4>1. hits[i - p] = recorded'[p + (i - p)]
        BY <3>1
      <4> QED
        BY <1>1, <3>1, <4>1
    <3> QED
      BY <1>2, <3>2
  <2> QED
    BY <2>1, <2>2
<1> QED
  BY <1>3, <1>4, <1>5 DEF OnlyOldIsLost

(* Every step keeps the deque an end of the pushes, less old hits.         *)
LEMMA LostStep == TypeOK /\ OnlyOldIsLost /\ [Next]_vars => OnlyOldIsLost'
<1> SUFFICES ASSUME TypeOK, OnlyOldIsLost, [Next]_vars
             PROVE  OnlyOldIsLost'
  OBVIOUS
<1>0. /\ Popped \in Nat /\ Popped + Len(gHits) = Len(recorded)
      /\ Len(gHits) \in Nat /\ Len(recorded) \in Nat
  BY DEF TypeOK, OnlyOldIsLost, Popped
<1>1. ASSUME NEW t \in Threads, Record(t)
      PROVE  OnlyOldIsLost'
  <2> DEFINE hits == Append(gHits, req[t].ts)
  <2>1. /\ req[t].ts \in Nat /\ hits \in Seq(Nat) /\ req[t].ts - Kept \in Int
        /\ PurgeOld(hits, req[t].ts - Kept)
        /\ recorded' = Append(recorded, req[t].ts) /\ recorded' \in Seq(Nat)
    BY <1>1, RecordEffect
  <2>2. /\ Len(hits) = Len(gHits) + 1
        /\ \A i \in 1..Len(gHits) : hits[i] = gHits[i]
        /\ hits[Len(gHits) + 1] = req[t].ts
    BY <2>1 DEF TypeOK
  <2>3. /\ Len(recorded') = Len(recorded) + 1
        /\ \A i \in 1..Len(recorded) : recorded'[i] = recorded[i]
        /\ recorded'[Len(recorded) + 1] = req[t].ts
    BY <2>1 DEF TypeOK
  <2> HIDE DEF hits
  <2>4. ASSUME NEW i \in 1..Len(hits)
        PROVE  hits[i] = recorded'[Popped + i]
    <3>1. CASE i \in 1..Len(gHits)
      <4>1. Popped + i \in 1..Len(recorded)
        BY <1>0, <3>1
      <4> QED
        BY <2>2, <2>3, <3>1, <4>1 DEF OnlyOldIsLost
    <3>2. CASE i = Len(gHits) + 1
      <4>1. Popped + i = Len(recorded) + 1
        BY <1>0, <3>2
      <4> QED
        BY <2>2, <2>3, <3>2, <4>1
    <3> QED
      BY <1>0, <2>2, <3>1, <3>2
  <2>5. ASSUME NEW i \in 1..Popped
        PROVE  recorded'[i] < reach
    <3>1. i \in 1..Len(recorded)
      BY <1>0
    <3> QED
      BY <2>3, <3>1 DEF OnlyOldIsLost
  <2>6. Popped + Len(hits) = Len(recorded')
    BY <1>0, <2>2, <2>3
  <2> QED
    BY <1>0, <2>1, <2>4, <2>5, <2>6, Loss
<1>2. ASSUME NEW t \in Threads, Count(t)
      PROVE  OnlyOldIsLost'
  <2>1. /\ req[t].ts - Window(t) \in Int
        /\ PurgeOld(gHits, req[t].ts - Window(t)) /\ recorded' = recorded
    BY <1>2, CountEffect
  <2>2. /\ gHits \in Seq(Nat) /\ recorded' \in Seq(Nat)
        /\ Popped + Len(gHits) = Len(recorded')
        /\ \A i \in 1..Len(gHits) : gHits[i] = recorded'[Popped + i]
        /\ \A i \in 1..Popped : recorded'[i] < reach
    BY <1>0, <2>1 DEF TypeOK, OnlyOldIsLost
  <2> QED
    BY <1>0, <2>1, <2>2, Loss
<1>3. CASE UNCHANGED <<gHits, recorded, reach>>
  BY <1>3 DEF OnlyOldIsLost, Popped
<1>4. CASE UNCHANGED vars
  BY <1>3, <1>4 DEF vars
<1> QED
  BY <1>1, <1>2, <1>3, <1>4 DEF Next, Tick, Before, Stamp, ReadClock, Reply

-----------------------------------------------------------------------------
(* Only Count adds a rate, and its span fits.                              *)
LEMMA SpanStep == TypeOK /\ SpansFitWindows /\ [Next]_vars => SpansFitWindows'
<1> SUFFICES ASSUME TypeOK, SpansFitWindows, [Next]_vars
             PROVE  SpansFitWindows'
  OBVIOUS
<1>0. req \in [Threads -> RequestSet]
  BY DEF TypeOK
<1>1. ASSUME NEW t \in Threads, Count(t)
      PROVE  SpansFitWindows'
  <2> DEFINE rate == Rate(gHits', req[t].ts)
             k == Len(req[t].rates) + 1
  <2>1. /\ gHits' \in Seq(Nat)
        /\ gHits' # <<>> => gHits'[1] >= req[t].ts - Window(t)
    BY <1>1, CountEffect, Purging DEF TypeOK
  <2>2. rate \in RateSet /\ rate.span \in 1..Windows[k]
    BY <1>1, <2>1, CountEffect, RateFits DEF Window
  <2> HIDE DEF rate
  <2>3. /\ req' \in [Threads -> RequestSet]
        /\ req'[t].rates = Append(req[t].rates, rate)
        /\ \A u \in Threads \ {t} : req'[u] = req[u]
    BY <1>0, <1>1, TypeStep DEF Count, TypeOK, RequestSet, rate
  <2>4. req[t].rates \in Seq(RateSet)
    BY <1>0 DEF RequestSet
  <2>5. ASSUME NEW i \in 1..Len(req'[t].rates)
        PROVE  req'[t].rates[i].span \in 1..Windows[i]
    <3>1. Len(req'[t].rates) = k /\ k - 1 \in Nat
      BY <2>2, <2>3, <2>4
    <3>2. CASE i = k
      BY <2>2, <2>3, <2>4, <3>2
    <3>3. CASE i \in 1..(k - 1)
      BY <2>2, <2>3, <2>4, <3>3 DEF SpansFitWindows
    <3> QED
      BY <3>1, <3>2, <3>3
  <2> QED
    BY <2>3, <2>5 DEF SpansFitWindows
<1>2. ASSUME NEW t \in Threads,
             \A u \in Threads : req'[u].rates = req[u].rates \/ req'[u].rates = <<>>
      PROVE  SpansFitWindows'
  BY <1>2 DEF SpansFitWindows
<1>3. ASSUME NEW t \in Threads, NEW metrics \in BOOLEAN,
             Before(t, metrics) \/ Stamp(t) \/ Record(t) \/ ReadClock(t) \/ Reply(t)
      PROVE  \A u \in Threads : req'[u].rates = req[u].rates \/ req'[u].rates = <<>>
  <2>1. CASE Before(t, metrics) \/ Stamp(t) \/ ReadClock(t)
    <3>0. ASSUME NEW new, req' = [req EXCEPT ![t] = new], new.rates = req[t].rates
          PROVE  \A u \in Threads : req'[u].rates = req[u].rates
      BY <1>0, <3>0
    <3>1. CASE Before(t, metrics)
      <4>1. req' = [req EXCEPT ![t] = [req[t] EXCEPT !.at = "stamp", !.metrics = metrics]]
        BY <3>1 DEF Before
      <4> QED
        BY <1>0, <3>0, <4>1 DEF RequestSet
    <3>2. CASE Stamp(t)
      <4>1. req' = [req EXCEPT ![t] = [req[t] EXCEPT !.at = "record", !.ts = clock]]
        BY <3>2 DEF Stamp
      <4> QED
        BY <1>0, <3>0, <4>1 DEF RequestSet
    <3>3. CASE ReadClock(t)
      <4>1. req' = [req EXCEPT ![t] = [req[t] EXCEPT !.at = "count", !.ts = clock]]
        BY <3>3 DEF ReadClock
      <4> QED
        BY <1>0, <3>0, <4>1 DEF RequestSet
    <3> QED
      BY <2>1, <3>1, <3>2, <3>3
  <2>2. CASE Record(t)
    <3>1. CASE Goto(t, "now")
      BY <1>0, <3>1 DEF Goto, RequestSet
    <3>2. CASE req' = [req EXCEPT ![t] = Free]
      BY <1>0, <3>2 DEF Free
    <3> QED
      BY <2>2, <3>1, <3>2 DEF Record
  <2>3. CASE Reply(t)
    BY <1>0, <2>3 DEF Reply, Free
  <2> QED
    BY <1>3, <2>1, <2>2, <2>3
<1>4. CASE Tick \/ UNCHANGED vars
  BY <1>4 DEF SpansFitWindows, Tick, vars
<1> QED
  BY <1>1, <1>2, <1>3, <1>4 DEF Next

-----------------------------------------------------------------------------
(* The invariant holds at first.                                           *)
LEMMA Initially == Init => IInv
<1> SUFFICES ASSUME Init
             PROVE  IInv
  OBVIOUS
<1>1. TypeOK
  BY FreeType, QpsMetricsAssumption DEF Init, TypeOK
<1>2. OnlyOldIsLost
  BY DEF Init, OnlyOldIsLost, Popped
<1>3. SpansFitWindows
  BY DEF Init, SpansFitWindows, Free
<1> QED
  BY <1>1, <1>2, <1>3 DEF IInv

(* The invariant of every reachable state.                                 *)
THEOREM InvariantCorrect == Spec => []IInv
<1>1. IInv /\ [Next]_vars => IInv'
  BY TypeStep, LostStep, SpanStep DEF IInv
<1> QED
  BY <1>1, Initially, PTL DEF Spec

(* Every variable has its type, and a window is read only if there is one  *)
(* left: the loop of getMetricsJson.                                       *)
THEOREM TypeCorrect == Spec => []TypeOK
<1>1. IInv => TypeOK
  BY DEF IInv
<1> QED
  BY <1>1, InvariantCorrect, PTL

(* However pushes and readings of different windows interleave, the deque  *)
(* lacks nothing but hits older than a cutoff in use.                      *)
THEOREM LossCorrect == Spec => []OnlyOldIsLost
<1>1. IInv => OnlyOldIsLost
  BY DEF IInv
<1> QED
  BY <1>1, InvariantCorrect, PTL

(* No rate is divided by nothing, by a negative time or by more than its   *)
(* window, whatever was pushed since the reader looked at the clock.       *)
THEOREM SpansCorrect == Spec => []SpansFitWindows
<1>1. IInv => SpansFitWindows
  BY DEF IInv
<1> QED
  BY <1>1, InvariantCorrect, PTL

-----------------------------------------------------------------------------
(* WebSearch.  The page is any sequence of pieces, and what is said of     *)
(* them is said by induction, as of the least piece that would not be so.  *)

(* Induction: a set of numbers has a least one.                            *)
LEMMA LeastNumber ==
  ASSUME NEW T, T \subseteq Nat, T # {}
  PROVE  \E n \in T : \A m \in T : n <= m
<1>1. \E n \in T : \A m \in T : ~(<<m, n>> \in OpToRel(<, Nat))
  BY WFMin, NatLessThanWellFounded, Zenon
<1>2. \A n, m \in Nat : m < n => <<m, n>> \in OpToRel(<, Nat)
  BY DEF OpToRel
<1>3. \A n, m \in T : n <= m \/ m < n
  <2>1. \A n, m \in Nat : n <= m \/ m < n
    OBVIOUS
  <2> QED
    BY <2>1
<1> QED
  BY <1>1, <1>2, <1>3, Zenon

LEMMA MinIs ==
  ASSUME NEW S, S \subseteq Nat, NEW x \in S, \A y \in S : x <= y
  PROVE  Min(S) = x
<1>1. Min(S) \in S /\ \A y \in S : Min(S) <= y
  BY DEF Min
<1>2. \A m, n \in Nat : m <= n /\ n <= m => m = n
  OBVIOUS
<1> QED
  BY <1>1, <1>2

LEMMA MaxIs ==
  ASSUME NEW S, S \subseteq Nat, NEW x \in S, \A y \in S : x >= y
  PROVE  Max(S) = x
<1>1. Max(S) \in S /\ \A y \in S : Max(S) >= y
  BY DEF Max
<1>2. \A m, n \in Nat : m >= n /\ n >= m => m = n
  OBVIOUS
<1> QED
  BY <1>1, <1>2

-----------------------------------------------------------------------------
(* The recursive function in the definition of FlattenSeq.                 *)
IsFlatten(s, n, f) == f = [i \in 1..n |-> IF i = 1 THEN s[i] ELSE f[i - 1] \o s[i]]

LEMMA FlattenExists ==
  ASSUME NEW s, NEW n \in Nat
  PROVE  \E f : IsFlatten(s, n, f)
<1> DEFINE T == {k \in Nat : ~\E f : IsFlatten(s, k, f)}
<1>1. SUFFICES ASSUME T # {} PROVE FALSE
  OBVIOUS
<1>2. PICK k \in T : \A m \in T : k <= m
  <2>1. T \subseteq Nat
    OBVIOUS
  <2> HIDE DEF T
  <2> QED
    BY <1>1, <2>1, LeastNumber
<1>3. k # 0
  <2>1. IsFlatten(s, 0, [i \in 1..0 |-> 0])
    BY DEF IsFlatten
  <2> QED
    BY <1>2, <2>1
<1>4. k \in Nat \ {0} /\ k - 1 \in Nat /\ k - 1 \notin T
  BY <1>2, <1>3
<1>5. PICK g : IsFlatten(s, k - 1, g)
  BY <1>4
<1> DEFINE f == [i \in 1..k |-> IF i < k THEN g[i] ELSE IF k = 1 THEN s[1] ELSE g[k - 1] \o s[k]]
<1>6. \A i \in 1..k : f[i] = IF i = 1 THEN s[i] ELSE f[i - 1] \o s[i]
  <2> TAKE i \in 1..k
  <2>1. CASE i < k
    <3>1. i \in 1..(k - 1) /\ (i # 1 => i - 1 \in 1..k /\ i - 1 < k)
      BY <1>4, <2>1
    <3>2. g[i] = IF i = 1 THEN s[i] ELSE g[i - 1] \o s[i]
      BY <1>5, <3>1 DEF IsFlatten
    <3> QED
      BY <2>1, <3>1, <3>2
  <2>2. CASE i = k
    <3>1. k # 1 => k - 1 \in 1..k /\ k - 1 < k
      BY <1>4
    <3> QED
      BY <2>2, <3>1, <1>4
  <2> QED
    BY <1>4, <2>1, <2>2
<1>7. IsFlatten(s, k, f)
  <2>1. f = [i \in 1..k |-> f[i]]
    OBVIOUS
  <2> HIDE DEF f
  <2> QED
    BY <1>6, <2>1 DEF IsFlatten
<1> QED
  BY <1>2, <1>7

LEMMA FlattenUnique ==
  ASSUME NEW s, NEW n \in Nat, NEW f, NEW g, IsFlatten(s, n, f), IsFlatten(s, n, g)
  PROVE  \A i \in 1..n : f[i] = g[i]
<1> DEFINE T == {i \in 1..n : f[i] # g[i]}
<1>1. SUFFICES ASSUME T # {} PROVE FALSE
  OBVIOUS
<1>2. PICK i \in T : \A j \in T : i <= j
  <2>1. T \subseteq Nat
    OBVIOUS
  <2> HIDE DEF T
  <2> QED
    BY <1>1, <2>1, LeastNumber
<1>3. /\ i \in 1..n /\ f[i] # g[i]
      /\ i # 1 => i - 1 \in 1..n /\ i - 1 \notin T
  BY <1>2
<1>4. /\ f[i] = IF i = 1 THEN s[i] ELSE f[i - 1] \o s[i]
      /\ g[i] = IF i = 1 THEN s[i] ELSE g[i - 1] \o s[i]
  BY <1>3 DEF IsFlatten
<1> QED
  BY <1>3, <1>4

(* FlattenSeq is that function at its end.                                 *)
LEMMA FlattenIs ==
  ASSUME NEW s, NEW f, Len(s) \in Nat \ {0}, IsFlatten(s, Len(s), f)
  PROVE  FlattenSeq(s) = f[Len(s)]
<1> DEFINE h == CHOOSE g : IsFlatten(s, Len(s), g)
<1>1. IsFlatten(s, Len(s), h)
  OBVIOUS
<1>2. FlattenSeq(s) = h[Len(s)]
  BY DEF FlattenSeq, IsFlatten
<1> HIDE DEF h
<1>3. \A i \in 1..Len(s) : h[i] = f[i]
  BY <1>1, FlattenUnique
<1> QED
  BY <1>2, <1>3

(* A sequence is flattened piece by piece.                                 *)
LEMMA FlattenGrows ==
  ASSUME NEW S, NEW s \in Seq(Seq(S)), NEW i \in 1..Len(s)
  PROVE  FlattenSeq(SubSeq(s, 1, i)) = FlattenSeq(SubSeq(s, 1, i - 1)) \o s[i]
<1> DEFINE p == SubSeq(s, 1, i)
           q == SubSeq(s, 1, i - 1)
<1>1. /\ Len(p) = i /\ \A j \in 1..i : p[j] = s[j]
      /\ Len(q) = i - 1 /\ \A j \in 1..(i - 1) : q[j] = s[j]
      /\ i \in Nat \ {0} /\ s[i] \in Seq(S)
  OBVIOUS
<1>2. i = 1 => q = <<>>
  OBVIOUS
<1> HIDE DEF p, q
<1>3. PICK f : IsFlatten(p, i, f)
  BY <1>1, FlattenExists
<1>4. FlattenSeq(p) = f[i]
  BY <1>1, <1>3, FlattenIs
<1>5. f[i] = IF i = 1 THEN p[i] ELSE f[i - 1] \o p[i]
  <2>1. i \in 1..i
    BY <1>1
  <2> QED
    BY <1>3, <2>1, Zenon DEF IsFlatten
<1>6. CASE i = 1
  <2>1. FlattenSeq(q) = <<>>
    BY <1>2, <1>6 DEF FlattenSeq
  <2>2. p[i] = s[i]
    BY <1>1
  <2>3. <<>> \o s[i] = s[i]
    BY <1>1
  <2> QED
    BY <1>4, <1>5, <1>6, <2>1, <2>2, <2>3 DEF p, q
<1>7. CASE i # 1
  <2>1. PICK k \in Nat : k = i - 1
    BY <1>1
  <2>2. k \in Nat \ {0} /\ k \in 1..k /\ k \in 1..i
    BY <1>1, <1>7, <2>1
  <2> DEFINE g == [j \in 1..k |-> f[j]]
  <2>3. \A j \in 1..k : g[j] = IF j = 1 THEN q[j] ELSE g[j - 1] \o q[j]
    <3> TAKE j \in 1..k
    <3>1. /\ j \in 1..i /\ j \in 1..(i - 1)
          /\ j # 1 => j - 1 \in 1..k
      BY <1>1, <2>1
    <3>2. f[j] = IF j = 1 THEN p[j] ELSE f[j - 1] \o p[j]
      BY <1>3, <3>1, Zenon DEF IsFlatten
    <3>3. p[j] = q[j]
      BY <1>1, <3>1, Zenon
    <3> QED
      BY <3>1, <3>2, <3>3
  <2>4. IsFlatten(q, k, g)
    <3>1. g = [j \in 1..k |-> g[j]]
      OBVIOUS
    <3> HIDE DEF g
    <3> QED
      BY <2>3, <3>1 DEF IsFlatten
  <2>5. FlattenSeq(q) = g[k] /\ g[k] = f[k]
    <3>1. g[k] = f[k]
      BY <2>2
    <3> HIDE DEF g
    <3> QED
      BY <1>1, <2>1, <2>2, <2>4, <3>1, FlattenIs, ZenonT(60)
  <2>6. p[i] = s[i]
    BY <1>1
  <2> QED
    BY <1>4, <1>5, <1>7, <2>1, <2>5, <2>6 DEF p, q
<1> QED
  BY <1>6, <1>7

LEMMA FlattenType ==
  ASSUME NEW S, NEW s \in Seq(Seq(S)), NEW i \in 0..Len(s)
  PROVE  FlattenSeq(SubSeq(s, 1, i)) \in Seq(S)
<1> DEFINE F(k) == FlattenSeq(SubSeq(s, 1, k))
           T == {k \in 0..Len(s) : F(k) \notin Seq(S)}
<1>1. SUFFICES ASSUME T # {} PROVE FALSE
  OBVIOUS
<1>2. PICK k \in T : \A m \in T : k <= m
  <2>1. T \subseteq Nat
    OBVIOUS
  <2> HIDE DEF T
  <2> QED
    BY <1>1, <2>1, LeastNumber
<1>3. k \in 0..Len(s) /\ F(k) \notin Seq(S) /\ (k # 0 => k - 1 \in 0..Len(s) /\ k - 1 \notin T)
  BY <1>2
<1>4. k # 0
  <2>1. SubSeq(s, 1, 0) = <<>> /\ <<>> \in Seq(S)
    OBVIOUS
  <2>2. FlattenSeq(SubSeq(s, 1, 0)) = <<>>
    BY <2>1 DEF FlattenSeq
  <2> QED
    BY <1>3, <2>1, <2>2
<1>5. F(k - 1) \in Seq(S)
  BY <1>3, <1>4
<1>6. k \in 1..Len(s) /\ s[k] \in Seq(S)
  BY <1>3, <1>4
<1>7. F(k) = F(k - 1) \o s[k]
  BY <1>6, FlattenGrows
<1> HIDE DEF F
<1> QED
  BY <1>3, <1>5, <1>6, <1>7
-----------------------------------------------------------------------------
(* r is the pieces p one behind the other; o[i] is the length in front of  *)
(* the piece i.                                                            *)
Layout(p, r, o) ==
  /\ p \in Seq(Seq(Strings)) /\ r \in Seq(Strings)
  /\ o \in [1..(Len(p) + 1) -> Nat] /\ o[1] = 0 /\ o[Len(p) + 1] = Len(r)
  /\ \A i \in 1..Len(p) : o[i + 1] = o[i] + Len(p[i])
  /\ \A i \in 1..Len(p) : \A k \in 1..Len(p[i]) : r[o[i] + k] = p[i][k]
  /\ \A i, j \in 1..(Len(p) + 1) : i <= j => o[i] <= o[j]

(* Sequences F each of which is the one before with another piece; what a  *)
(* later one has of the piece i.                                           *)
Joins(S, n, p, F) ==
  /\ \A k \in 0..n : F[k] \in Seq(S)
  /\ \A k \in 1..n : p[k] \in Seq(S) /\ F[k] = F[k - 1] \o p[k]

HasPiece(p, F, i, k) == \A j \in 1..Len(p[i]) : F[k][Len(F[i - 1]) + j] = p[i][j]

LEMMA OneJoins ==
  ASSUME NEW S, NEW n \in Nat, NEW p, NEW F, Joins(S, n, p, F), NEW k \in 1..n
  PROVE  /\ Len(F[k]) = Len(F[k - 1]) + Len(p[k])
         /\ Len(F[k]) \in Nat /\ Len(F[k - 1]) \in Nat /\ Len(p[k]) \in Nat
<1>1. k - 1 \in 0..n
  OBVIOUS
<1>2. F[k - 1] \in Seq(S) /\ p[k] \in Seq(S) /\ F[k] = F[k - 1] \o p[k]
  BY <1>1, Zenon DEF Joins
<1>3. Len(F[k]) = Len(F[k - 1]) + Len(p[k])
  BY <1>2, ConcatProperties, ZenonT(60)
<1>4. Len(F[k - 1]) \in Nat /\ Len(p[k]) \in Nat
  BY <1>2
<1>5. \A x, y \in Nat : x + y \in Nat
  OBVIOUS
<1> QED
  BY <1>3, <1>4, <1>5, Zenon

LEMMA JoinedElements ==
  ASSUME NEW S, NEW n \in Nat, NEW p, NEW F, Joins(S, n, p, F), NEW k \in 1..n
  PROVE  /\ \A j \in 1..Len(F[k - 1]) : F[k][j] = F[k - 1][j]
         /\ \A j \in 1..Len(p[k]) : F[k][Len(F[k - 1]) + j] = p[k][j]
<1>1. k - 1 \in 0..n
  OBVIOUS
<1>2. F[k - 1] \in Seq(S) /\ p[k] \in Seq(S) /\ F[k] = F[k - 1] \o p[k]
  BY <1>1, Zenon DEF Joins
<1>3. PICK a \in Seq(S), b \in Seq(S) : a = F[k - 1] /\ b = p[k]
  BY <1>2
<1>4. /\ \A j \in 1..Len(a) : (a \o b)[j] = a[j]
      /\ \A j \in 1..Len(b) : (a \o b)[Len(a) + j] = b[j]
  OBVIOUS
<1> QED
  BY <1>2, <1>3, <1>4, Zenon

LEMMA PiecesStay ==
  ASSUME NEW S, NEW n \in Nat, NEW p, NEW F, Joins(S, n, p, F), NEW i \in 1..n
  PROVE  \A k \in i..n : Len(F[k]) >= Len(F[i]) /\ HasPiece(p, F, i, k)
<1> DEFINE T == {k \in i..n : ~(Len(F[k]) >= Len(F[i]) /\ HasPiece(p, F, i, k))}
<1>1. SUFFICES ASSUME T # {} PROVE FALSE
  OBVIOUS
<1>2. PICK k \in T : \A m \in T : k <= m
  <2>1. T \subseteq Nat
    OBVIOUS
  <2> HIDE DEF T
  <2> QED
    BY <1>1, <2>1, LeastNumber
<1>3. /\ k \in i..n /\ k \in 1..n /\ ~(Len(F[k]) >= Len(F[i]) /\ HasPiece(p, F, i, k))
      /\ k # i => Len(F[k - 1]) >= Len(F[i]) /\ HasPiece(p, F, i, k - 1)
  BY <1>2
<1> HIDE DEF T
<1> DEFINE w == Len(F[k])
           x == Len(F[k - 1])
           v == Len(F[i])
           z == Len(F[i - 1])
           u == Len(p[i])
<1>4. \E y \in Nat : x \in Nat /\ w = x + y
  <2>1. /\ Len(F[k]) = Len(F[k - 1]) + Len(p[k])
        /\ Len(F[k]) \in Nat /\ Len(F[k - 1]) \in Nat /\ Len(p[k]) \in Nat
    BY <1>3, OneJoins, Zenon
  <2> QED
    BY <2>1, Zenon
<1>5. /\ v = z + u
      /\ v \in Nat /\ z \in Nat /\ u \in Nat
  BY OneJoins, Zenon
<1>6. /\ \A j \in 1..x : F[k][j] = F[k - 1][j]
      /\ k = i => w = v /\ HasPiece(p, F, i, k)
  <2>1. /\ \A j \in 1..Len(F[k - 1]) : F[k][j] = F[k - 1][j]
        /\ \A j \in 1..Len(p[k]) : F[k][Len(F[k - 1]) + j] = p[k][j]
    BY <1>3, JoinedElements
  <2> QED
    BY <2>1, Zenon DEF HasPiece
<1>7. /\ ~(w >= v /\ HasPiece(p, F, i, k))
      /\ k # i => x >= v /\ HasPiece(p, F, i, k - 1)
  BY <1>3, Zenon
<1>8. HasPiece(p, F, i, k - 1) => \A j \in 1..u : F[k - 1][z + j] = p[i][j]
  BY Zenon DEF HasPiece
<1>9. (\A j \in 1..u : F[k][z + j] = p[i][j]) => HasPiece(p, F, i, k)
  BY Zenon DEF HasPiece
<1> HIDE DEF w, x, v, z, u
<1>10. v >= v
  BY <1>5
<1>11. x >= v /\ HasPiece(p, F, i, k - 1)
  BY <1>6, <1>7, <1>10, Zenon
<1>12. w >= v
  BY <1>4, <1>5, <1>11
<1>13. \A j \in 1..u : z + j \in 1..x
  BY <1>4, <1>5, <1>11
<1>14. \A j \in 1..u : F[k][z + j] = p[i][j]
  BY <1>6, <1>8, <1>11, <1>13, Zenon
<1> QED
  BY <1>7, <1>9, <1>12, <1>14, Zenon

LEMMA PiecesLaidOut ==
  ASSUME NEW p \in Seq(Seq(Strings))
  PROVE  Layout(p, FlattenSeq(p), [i \in 1..(Len(p) + 1) |-> Len(FlattenSeq(SubSeq(p, 1, i - 1)))])
<1> DEFINE F == [k \in 0..Len(p) |-> FlattenSeq(SubSeq(p, 1, k))]
           o == [i \in 1..(Len(p) + 1) |-> Len(FlattenSeq(SubSeq(p, 1, i - 1)))]
<1>1. \A k \in 0..Len(p) : F[k] \in Seq(Strings)
  BY FlattenType
<1>2. \A k \in 1..Len(p) : F[k] = F[k - 1] \o p[k]
  <2> TAKE k \in 1..Len(p)
  <2>1. k \in 0..Len(p) /\ k - 1 \in 0..Len(p)
    OBVIOUS
  <2>2. FlattenSeq(SubSeq(p, 1, k)) = FlattenSeq(SubSeq(p, 1, k - 1)) \o p[k]
    BY FlattenGrows
  <2> QED
    BY <2>1, <2>2
<1>3. F[0] = <<>>
  <2>1. SubSeq(p, 1, 0) = <<>> /\ 0 \in 0..Len(p)
    OBVIOUS
  <2> QED
    BY <2>1 DEF FlattenSeq
<1>4. FlattenSeq(p) = F[Len(p)]
  <2>1. SubSeq(p, 1, Len(p)) = p /\ Len(p) \in 0..Len(p)
    OBVIOUS
  <2> QED
    BY <2>1
<1>5. \A i \in 1..(Len(p) + 1) : i - 1 \in 0..Len(p) /\ o[i] = Len(F[i - 1])
  OBVIOUS
<1>6. Len(p) \in Nat /\ \A i \in 1..Len(p) : p[i] \in Seq(Strings)
  OBVIOUS
<1>7. DOMAIN o = 1..(Len(p) + 1) /\ o = [i \in 1..(Len(p) + 1) |-> o[i]]
  OBVIOUS
<1> HIDE DEF F, o
<1>8. Joins(Strings, Len(p), p, F)
  BY <1>1, <1>2, <1>6 DEF Joins
<1>9. \A i \in 1..(Len(p) + 1) : o[i] \in Nat
  BY <1>1, <1>5
<1>10. o[1] = 0 /\ o[Len(p) + 1] = Len(F[Len(p)])
  BY <1>3, <1>5, <1>6
<1>11. \A i \in 1..Len(p) : o[i] = Len(F[i - 1]) /\ o[i + 1] = Len(F[i])
  <2> TAKE i \in 1..Len(p)
  <2>1. i \in 1..(Len(p) + 1) /\ i + 1 \in 1..(Len(p) + 1) /\ (i + 1) - 1 = i
    BY <1>6
  <2> QED
    BY <1>5, <2>1
<1>12. \A i \in 1..Len(p) : o[i + 1] = o[i] + Len(p[i])
  <2> TAKE i \in 1..Len(p)
  <2>0. Len(p) \in Nat
    BY <1>6
  <2>1. /\ Len(F[i]) = Len(F[i - 1]) + Len(p[i])
        /\ Len(F[i]) \in Nat /\ Len(F[i - 1]) \in Nat /\ Len(p[i]) \in Nat
    BY <2>0, <1>8, OneJoins, Zenon
  <2> QED
    BY <1>11, <2>1, Zenon
<1>13. \A i \in 1..Len(p) : \A k \in i..Len(p) : Len(F[k]) >= Len(F[i]) /\ HasPiece(p, F, i, k)
  BY <1>6, <1>8, PiecesStay
<1>14. \A i \in 1..Len(p) : \A k \in 1..Len(p[i]) : F[Len(p)][o[i] + k] = p[i][k]
  <2>1. \A i \in 1..Len(p) : Len(p) \in i..Len(p)
    BY <1>6
  <2> QED
    BY <1>11, <1>13, <2>1, ZenonT(60) DEF HasPiece
<1>15. \A i, j \in 1..(Len(p) + 1) : i <= j => o[i] <= o[j]
  <2> TAKE i, j \in 1..(Len(p) + 1)
  <2> HAVE i <= j
  <2>1. CASE i = 1
    BY <1>9, <1>10, <2>1
  <2>2. CASE i # 1
    <3>1. i - 1 \in 1..Len(p) /\ j - 1 \in (i - 1)..Len(p)
      BY <1>6, <2>2
    <3>2. Len(F[j - 1]) >= Len(F[i - 1])
      BY <1>13, <3>1, Zenon
    <3> QED
      BY <1>5, <1>9, <3>2
  <2> QED
    BY <2>1, <2>2
<1>16. Len(p) \in 0..Len(p)
  BY <1>6
<1>17. o \in [1..(Len(p) + 1) -> Nat]
  BY <1>7, <1>9
<1>18. Layout(p, F[Len(p)], o)
  BY <1>1, <1>10, <1>12, <1>14, <1>15, <1>16, <1>17 DEF Layout
<1> QED
  BY <1>4, <1>18 DEF o

LEMMA Offsets ==
  ASSUME NEW p, NEW r, NEW o, Layout(p, r, o)
  PROVE  /\ Len(p) \in Nat /\ o[1] = 0 /\ r \in Seq(Strings) /\ o[Len(p) + 1] = Len(r)
         /\ \A i \in 1..(Len(p) + 1) : o[i] \in Nat
         /\ \A i \in 1..Len(p) : o[i + 1] = o[i] + Len(p[i]) /\ Len(p[i]) \in Nat
         /\ \A i \in 1..Len(p) : p[i] \in Seq(Strings)
         /\ \A i, j \in 1..(Len(p) + 1) : i <= j => o[i] <= o[j]
<1>1. p \in Seq(Seq(Strings))
  BY DEF Layout
<1>2. Len(p) \in Nat /\ \A i \in 1..Len(p) : p[i] \in Seq(Strings)
  BY <1>1
<1>3. \A i \in 1..Len(p) : Len(p[i]) \in Nat
  BY <1>2
<1>4. \A i \in 1..(Len(p) + 1) : o[i] \in Nat
  <2>1. o \in [1..(Len(p) + 1) -> Nat]
    BY Zenon DEF Layout
  <2> QED
    BY <2>1, Zenon
<1> QED
  BY <1>2, <1>3, <1>4, Zenon DEF Layout

(* Every position is one of a piece.                                       *)
LEMMA PieceOf ==
  ASSUME NEW p, NEW r, NEW o, Layout(p, r, o),
         NEW m \in 1..(Len(p) + 1), NEW n \in 1..(Len(p) + 1),
         NEW q \in (o[m] + 1)..o[n]
  PROVE  \E i \in m..(n - 1) : \E k \in 1..Len(p[i]) : q = o[i] + k /\ r[q] = p[i][k]
<1>1. /\ Len(p) \in Nat /\ o[1] = 0
      /\ \A i \in 1..(Len(p) + 1) : o[i] \in Nat
      /\ \A i \in 1..Len(p) : o[i + 1] = o[i] + Len(p[i]) /\ Len(p[i]) \in Nat
      /\ \A i, j \in 1..(Len(p) + 1) : i <= j => o[i] <= o[j]
  BY Offsets
<1> DEFINE T == {i \in 1..Len(p) : q <= o[i + 1]}
<1>2. o[m] \in Nat /\ o[n] \in Nat /\ q \in Nat /\ o[m] < q /\ q <= o[n]
  BY <1>1
<1>3. n - 1 \in T
  <2>1. m < n
    BY <1>1, <1>2
  <2>2. n - 1 \in 1..Len(p) /\ (n - 1) + 1 = n
    BY <1>1, <2>1
  <2> QED
    BY <1>2, <2>2
<1>4. PICK i \in T : \A j \in T : i <= j
  <2>1. T \subseteq Nat
    BY <1>1
  <2> HIDE DEF T
  <2> QED
    BY <1>3, <2>1, LeastNumber
<1>5. i \in 1..Len(p) /\ q <= o[i + 1] /\ i <= n - 1
  BY <1>3, <1>4
<1>6. o[i] < q
  <2>1. CASE i = 1
    BY <1>1, <1>2, <2>1
  <2>2. CASE i # 1
    <3>1. i - 1 \in 1..Len(p) /\ (i - 1) + 1 = i /\ ~(i <= i - 1) /\ i \in 1..(Len(p) + 1)
      BY <1>1, <1>5, <2>2
    <3>2. i - 1 \notin T
      BY <1>4, <3>1, Zenon
    <3>3. ~(q <= o[i]) /\ o[i] \in Nat
      BY <1>1, <3>1, <3>2
    <3> QED
      BY <1>2, <3>3
  <2> QED
    BY <2>1, <2>2
<1>7. m <= i
  <2>1. SUFFICES ASSUME i < m PROVE FALSE
    BY <1>5
  <2>2. i + 1 \in 1..(Len(p) + 1) /\ i + 1 <= m
    BY <1>1, <1>5, <2>1
  <2> QED
    BY <1>1, <1>2, <1>5, <2>2, SMTT(30)
<1>8. i \in m..(n - 1)
  BY <1>1, <1>5, <1>7
<1>9. PICK k \in 1..Len(p[i]) : q = o[i] + k
  <2>1. o[i] \in Nat /\ Len(p[i]) \in Nat /\ q <= o[i] + Len(p[i])
    BY <1>1, <1>5
  <2>2. q - o[i] \in 1..Len(p[i]) /\ q = o[i] + (q - o[i])
    BY <1>2, <1>6, <2>1, SMTT(30)
  <2> QED
    BY <2>2
<1>10. r[o[i] + k] = p[i][k]
  BY <1>5 DEF Layout
<1> QED
  BY <1>8, <1>9, <1>10

-----------------------------------------------------------------------------
(* std::string::find and rfind.                                            *)
LEMMA FindFirst ==
  ASSUME response \in Seq(Strings), NEW S, NEW i \in Nat \ {0}, NEW j \in i..Len(response),
         response[j] \in S, \A k \in i..(j - 1) : response[k] \notin S
  PROVE  Find(S, i) = j
<1> DEFINE I == {k \in i..Len(response) : response[k] \in S}
<1>1. I \subseteq Nat /\ j \in I /\ \A k \in I : j <= k
  OBVIOUS
<1>2. Find(S, i) = IF I # {} THEN Min(I) ELSE 0
  BY DEF Find, SelectInSubSeq
<1> HIDE DEF I
<1> QED
  BY <1>1, <1>2, MinIs

LEMMA FindNothing ==
  ASSUME NEW S, NEW i \in Nat \ {0}, \A k \in i..Len(response) : response[k] \notin S
  PROVE  Find(S, i) = 0
<1>1. {k \in i..Len(response) : response[k] \in S} = {}
  OBVIOUS
<1> QED
  BY <1>1 DEF Find, SelectInSubSeq

LEMMA RFindLast ==
  ASSUME NEW S, NEW i \in Nat, NEW j \in 1..i,
         response[j] \in S, \A k \in (j + 1)..i : response[k] \notin S
  PROVE  RFind(S, i) = j
<1> DEFINE I == {k \in 1..i : response[k] \in S}
<1>1. I \subseteq Nat /\ j \in I /\ \A k \in I : j >= k
  OBVIOUS
<1>2. RFind(S, i) = IF I # {} THEN Max(I) ELSE 0
  BY DEF RFind, SelectLastInSubSeq
<1> HIDE DEF I
<1> QED
  BY <1>1, <1>2, MaxIs

LEMMA FindBehindNothing == TagStart(0) = 0 /\ TagEnd(0) = 0 /\ ContentEnd(0) = 0
<1>1. {k \in 1..0 : response[k] \in {"<a"}} = {}
  OBVIOUS
<1> QED
  BY <1>1 DEF TagStart, RFind, SelectLastInSubSeq, TagEnd, Find, ContentEnd


-----------------------------------------------------------------------------
(* An anchor in the page, and what the loop finds from a place in its tag. *)
Attributes == {"result__a", "result__snippet", "href"}

LEMMA AnchorAt ==
  ASSUME NEW o, Layout(page, response, o), NEW i \in 1..Len(page),
         NEW g \in Nat, TagEndsAt(page[i], g)
  PROVE  /\ o[i] \in Nat /\ g \in Nat /\ o[i + 1] \in Nat /\ o[i + 1] <= Len(response)
         /\ Len(response) \in Nat /\ 1 < g /\ o[i] + g < o[i + 1]
         /\ response[o[i] + 1] = "<a" /\ response[o[i] + g] = ">" /\ response[o[i + 1]] = "</a>"
         /\ \A q \in (o[i] + 2)..(o[i] + g - 1) : response[q] \in Attributes
         /\ \A q \in (o[i] + g + 1)..(o[i + 1] - 1) : response[q] \in {"text", ">"}
<1> DEFINE n == Len(page[i])
<1>1. /\ Len(page) \in Nat /\ response \in Seq(Strings) /\ o[Len(page) + 1] = Len(response)
      /\ \A j \in 1..(Len(page) + 1) : o[j] \in Nat
      /\ \A j, k \in 1..(Len(page) + 1) : j <= k => o[j] <= o[k]
  BY Offsets
<1>2. \A k \in 1..n : response[o[i] + k] = page[i][k]
  BY DEF Layout
<1>3. /\ page[i][1] = "<a" /\ page[i][g] = ">" /\ page[i][n] = "</a>"
      /\ \A k \in 2..(g - 1) : page[i][k] \in Attributes
      /\ \A k \in (g + 1)..(n - 1) : page[i][k] \in {"text", ">"}
      /\ 1 < g /\ g < n
  BY DEF TagEndsAt, Attributes
<1>4. o[i + 1] = o[i] + n /\ n \in Nat
  BY Offsets
<1> HIDE DEF n
<1>5. /\ i \in 1..(Len(page) + 1) /\ i + 1 \in 1..(Len(page) + 1) /\ i + 1 <= Len(page) + 1
      /\ Len(page) + 1 \in 1..(Len(page) + 1)
  BY <1>1
<1>9. /\ o[i] \in Nat /\ o[i + 1] \in Nat /\ Len(response) \in Nat /\ o[i + 1] <= Len(response)
  BY <1>1, <1>5
<1>10. /\ o[i] + g < o[i + 1] /\ 1 \in 1..n /\ g \in 1..n /\ n \in 1..n
  BY <1>3, <1>4, <1>9
<1>6. response[o[i] + 1] = "<a" /\ response[o[i] + g] = ">" /\ response[o[i + 1]] = "</a>"
  BY <1>2, <1>3, <1>4, <1>10, Zenon
<1> DEFINE a == o[i]
           b == o[i + 1]
<1>11. /\ a \in Nat /\ b = a + n
       /\ \A k \in 1..n : response[a + k] = page[i][k]
  BY <1>2, <1>4, <1>9, Zenon
<1>12. /\ \A q : q \in (o[i] + 2)..(o[i] + g - 1) <=> q \in (a + 2)..(a + g - 1)
       /\ \A q : q \in (o[i] + g + 1)..(o[i + 1] - 1) <=> q \in (a + g + 1)..(b - 1)
  BY Zenon
<1> HIDE DEF a, b
<1>7. \A q \in (a + 2)..(a + g - 1) : response[q] \in Attributes
  <2> TAKE q \in (a + 2)..(a + g - 1)
  <2>1. PICK k \in 2..(g - 1) : k \in 1..n /\ q = a + k
    <3>1. q - a \in 2..(g - 1) /\ q - a \in 1..n /\ q = a + (q - a)
      BY <1>3, <1>4, <1>11
    <3> QED
      BY <3>1
  <2> QED
    BY <1>3, <1>11, <2>1, Zenon
<1>8. \A q \in (a + g + 1)..(b - 1) : response[q] \in {"text", ">"}
  <2> TAKE q \in (a + g + 1)..(b - 1)
  <2>1. PICK k \in (g + 1)..(n - 1) : k \in 1..n /\ q = a + k
    <3>1. q - a \in (g + 1)..(n - 1) /\ q - a \in 1..n /\ q = a + (q - a)
      BY <1>3, <1>4, <1>11
    <3> QED
      BY <3>1
  <2> QED
    BY <1>3, <1>11, <2>1, Zenon
<1> QED
  BY <1>3, <1>9, <1>10, <1>6, <1>7, <1>8, <1>12, Zenon

LEMMA AnchorFound ==
  ASSUME NEW o, Layout(page, response, o), NEW i \in 1..Len(page),
         NEW g \in Nat, TagEndsAt(page[i], g)
  PROVE  /\ \A q \in (o[i] + 1)..(o[i] + g) : TagStart(q) = o[i] + 1
         /\ TagEnd(o[i] + 1) = o[i] + g
         /\ ContentEnd(o[i] + g) = o[i + 1]
<1> DEFINE a == o[i]
           b == o[i + 1]
<1>1. /\ a \in Nat /\ g \in Nat /\ b \in Nat /\ b <= Len(response)
      /\ Len(response) \in Nat /\ 1 < g /\ a + g < b
      /\ response[a + 1] = "<a" /\ response[a + g] = ">" /\ response[b] = "</a>"
      /\ \A q \in (a + 2)..(a + g - 1) : response[q] \in Attributes
      /\ \A q \in (a + g + 1)..(b - 1) : response[q] \in {"text", ">"}
  BY AnchorAt
<1>2. response \in Seq(Strings)
  BY DEF Layout
<1> HIDE DEF a, b
<1>3. \A q \in (a + 1)..(a + g) : TagStart(q) = a + 1
  <2> TAKE q \in (a + 1)..(a + g)
  <2>1. q \in Nat /\ a + 1 \in 1..q
    BY <1>1
  <2>2. \A k \in (a + 2)..q : response[k] \notin {"<a"}
    <3> TAKE k \in (a + 2)..q
    <3>1. k = a + g \/ k \in (a + 2)..(a + g - 1)
      BY <1>1, <2>1
    <3> QED
      BY <1>1, <3>1 DEF Attributes
  <2>3. RFind({"<a"}, q) = a + 1
    <3>1. \A k \in ((a + 1) + 1)..q : response[k] \notin {"<a"}
      BY <1>1, <2>2
    <3>2. response[a + 1] \in {"<a"}
      BY <1>1
    <3> QED
      BY <2>1, <3>1, <3>2, RFindLast
  <2> QED
    BY <2>3 DEF TagStart
<1>4. TagEnd(a + 1) = a + g
  <2>1. \A k \in (a + 1)..((a + g) - 1) : response[k] \notin {">", "</a>"}
    <3> TAKE k \in (a + 1)..((a + g) - 1)
    <3>1. k = a + 1 \/ k \in (a + 2)..(a + g - 1)
      BY <1>1
    <3> QED
      BY <1>1, <3>1 DEF Attributes
  <2>2. /\ a + 1 \in Nat \ {0} /\ a + g \in (a + 1)..Len(response)
        /\ response[a + g] \in {">", "</a>"}
    BY <1>1
  <2>3. Find({">", "</a>"}, a + 1) = a + g
    BY <1>2, <2>1, <2>2, FindFirst
  <2> QED
    BY <2>3, Zenon DEF TagEnd
<1>5. ContentEnd(a + g) = b
  <2>1. \A k \in (a + g + 1)..(b - 1) : response[k] \notin {"</a>"}
    BY <1>1
  <2>2. /\ a + g + 1 \in Nat \ {0} /\ b \in (a + g + 1)..Len(response)
        /\ response[b] \in {"</a>"}
    BY <1>1
  <2>3. Find({"</a>"}, a + g + 1) = b
    BY <1>2, <2>1, <2>2, FindFirst
  <2>4. a + g # 0
    BY <1>1
  <2> QED
    BY <2>3, <2>4, Zenon DEF ContentEnd
<1> QED
  BY <1>3, <1>4, <1>5 DEF a, b

-----------------------------------------------------------------------------
(* Where the loop finds a name of a class.                                 *)
Names == {"result__a", "result__snippet"}

LEMMA FirstName ==
  ASSUME NEW e \in Seq(Strings), NEW g \in Nat, TagEndsAt(e, g), NEW c \in Names, Has(e, c)
  PROVE  /\ FirstOf(e, c) \in 2..(g - 1) /\ FirstOf(e, c) \in 1..Len(e) /\ e[FirstOf(e, c)] = c
         /\ \A k \in 1..(FirstOf(e, c) - 1) : e[k] # c
<1> DEFINE I == {k \in 1..Len(e) : e[k] = c}
<1>1. I \subseteq Nat /\ I # {}
  BY DEF Has
<1>2. FirstOf(e, c) = IF I # {} THEN Min(I) ELSE 0
  BY DEF FirstOf, SelectInSeq
<1>3. \A k \in 1..Len(e) : e[k] = c <=> k \in I
  OBVIOUS
<1>4. I \subseteq 1..Len(e)
  OBVIOUS
<1> HIDE DEF I
<1>5. PICK x \in I : \A y \in I : x <= y
  BY <1>1, LeastNumber
<1>6. FirstOf(e, c) = x
  BY <1>1, <1>2, <1>5, MinIs
<1>7. x \in 1..Len(e) /\ e[x] = c
  BY <1>3, <1>4, <1>5
<1>8. x \in 2..(g - 1)
  <2>1. /\ e[1] = "<a" /\ e[g] = ">" /\ e[Len(e)] = "</a>" /\ 1 < g /\ g < Len(e)
        /\ \A k \in (g + 1)..(Len(e) - 1) : e[k] \in {"text", ">"}
    BY DEF TagEndsAt
  <2>2. x # 1 /\ x # g /\ x # Len(e) /\ x \notin (g + 1)..(Len(e) - 1)
    BY <1>7, <2>1 DEF Names
  <2>3. PICK n \in Nat : n = Len(e)
    OBVIOUS
  <2> QED
    BY <1>7, <2>1, <2>2, <2>3
<1>9. \A k \in 1..(x - 1) : e[k] # c
  <2>1. \A k \in 1..(x - 1) : k \in 1..Len(e) /\ ~(x <= k)
    BY <1>7
  <2> QED
    BY <1>3, <1>5, <2>1
<1> QED
  BY <1>6, <1>7, <1>8, <1>9

(* From the end of a piece m, or a place behind which no name is before    *)
(* that end, the first name is the one in the next piece that has it.      *)
LEMMA NameFound ==
  ASSUME NEW o, Layout(page, response, o), NEW c \in Names,
         NEW m \in 0..Len(page), NEW q \in Nat \ {0}, q <= o[m + 1] + 1,
         \A k \in q..o[m + 1] : response[k] # c,
         NEW n \in (m + 1)..Len(page), NEW g \in Nat, TagEndsAt(page[n], g), Has(page[n], c),
         \A j \in (m + 1)..(n - 1) : ~Has(page[j], c)
  PROVE  Find({c}, q) = o[n] + FirstOf(page[n], c)
<1>1. /\ Len(page) \in Nat /\ response \in Seq(Strings) /\ o[Len(page) + 1] = Len(response)
      /\ \A j \in 1..(Len(page) + 1) : o[j] \in Nat
      /\ \A j \in 1..Len(page) : o[j + 1] = o[j] + Len(page[j]) /\ Len(page[j]) \in Nat
      /\ \A j \in 1..Len(page) : page[j] \in Seq(Strings)
      /\ \A j, k \in 1..(Len(page) + 1) : j <= k => o[j] <= o[k]
  BY Offsets
<1>2. /\ n \in 1..Len(page) /\ n \in 1..(Len(page) + 1) /\ n + 1 \in 1..(Len(page) + 1)
      /\ m + 1 \in 1..(Len(page) + 1) /\ m + 1 <= n /\ n + 1 <= Len(page) + 1
      /\ Len(page) + 1 \in 1..(Len(page) + 1) /\ (n + 1) - 1 = n
  BY <1>1
<1> DEFINE x == FirstOf(page[n], c)
           a == o[n]
           b == o[n + 1]
           s == o[m + 1]
           l == Len(page[n])
<1>3. /\ x \in 1..l /\ page[n][x] = c
      /\ \A k \in 1..(x - 1) : page[n][k] # c
  BY <1>1, <1>2, FirstName
<1>4. /\ a \in Nat /\ b \in Nat /\ s \in Nat /\ l \in Nat /\ Len(response) \in Nat
      /\ s <= a /\ b = a + l /\ b <= Len(response)
  BY <1>1, <1>2
<1>5. \A k \in 1..l : response[a + k] = page[n][k]
  BY <1>2 DEF Layout
<1>6. \A k \in (s + 1)..b :
        \E i \in (m + 1)..n : \E z \in 1..Len(page[i]) : k = o[i] + z /\ response[k] = page[i][z]
  <2> TAKE k \in (s + 1)..b
  <2>2. PICK u \in 1..(Len(page) + 1), v \in 1..(Len(page) + 1) : u = m + 1 /\ v = n + 1
    BY <1>2
  <2>3. k \in (o[u] + 1)..o[v]
    BY <2>2
  <2>4. \E i \in u..(v - 1) : \E z \in 1..Len(page[i]) : k = o[i] + z /\ response[k] = page[i][z]
    BY <2>3, PieceOf, SMTT(30)
  <2>1. \E i \in (m + 1)..((n + 1) - 1) :
          \E z \in 1..Len(page[i]) : k = o[i] + z /\ response[k] = page[i][z]
    BY <2>2, <2>4
  <2> QED
    BY <1>2, <2>1, Zenon
<1>7. \A i \in 1..Len(page) : ~Has(page[i], c) => \A z \in 1..Len(page[i]) : page[i][z] # c
  BY <1>1, SMTT(30) DEF Has
<1>8. \A i \in (m + 1)..n : i = n \/ (i \in (m + 1)..(n - 1) /\ i \in 1..Len(page))
  BY <1>1, <1>2
<1>9. /\ \A k \in q..s : response[k] # c
      /\ q <= s + 1
  OBVIOUS
<1>10. \A z : z \in 1..Len(page[n]) => z \in 1..l /\ o[n] + z = a + z
  OBVIOUS
<1> HIDE DEF x, a, b, s, l
<1>11. response[a + x] = c /\ a + x \in q..Len(response)
  BY <1>3, <1>4, <1>5, <1>9, SMTT(30)
<1>12. \A k \in q..((a + x) - 1) : response[k] # c
  <2> TAKE k \in q..((a + x) - 1)
  <2>1. CASE k <= s
    BY <1>4, <1>9, <2>1
  <2>2. CASE ~(k <= s)
    <3>1. k \in (s + 1)..b
      BY <1>3, <1>4, <2>2
    <3>2. PICK i \in (m + 1)..n :
            \E z \in 1..Len(page[i]) : k = o[i] + z /\ response[k] = page[i][z]
      BY <1>6, <3>1
    <3>3. PICK z \in 1..Len(page[i]) : k = o[i] + z /\ response[k] = page[i][z]
      BY <3>2
    <3>4. CASE i = n
      <4>1. z \in 1..l /\ k = a + z /\ response[k] = page[n][z]
        BY <1>10, <3>3, <3>4, Zenon
      <4>2. z \in 1..(x - 1)
        BY <1>3, <1>4, <4>1
      <4> QED
        BY <1>3, <4>1, <4>2
    <3>5. CASE i # n
      BY <1>7, <1>8, <3>3, <3>5, Zenon
    <3> QED
      BY <3>4, <3>5
  <2> QED
    BY <2>1, <2>2
<1>13. Find({c}, q) = a + x
  <2>1. response[a + x] \in {c} /\ \A k \in q..((a + x) - 1) : response[k] \notin {c}
    BY <1>11, <1>12, Zenon
  <2> QED
    BY <1>1, <1>11, <2>1, FindFirst, Zenon
<1> QED
  BY <1>13 DEF a, x

LEMMA NoNameFound ==
  ASSUME NEW o, Layout(page, response, o), NEW c \in Names,
         NEW m \in 0..Len(page), NEW q \in Nat \ {0}, q <= o[m + 1] + 1,
         \A k \in q..o[m + 1] : response[k] # c,
         \A j \in (m + 1)..Len(page) : ~Has(page[j], c)
  PROVE  Find({c}, q) = 0
<1>1. /\ Len(page) \in Nat /\ response \in Seq(Strings) /\ o[Len(page) + 1] = Len(response)
      /\ \A j \in 1..(Len(page) + 1) : o[j] \in Nat
      /\ \A j \in 1..Len(page) : page[j] \in Seq(Strings)
  BY Offsets
<1>2. /\ m + 1 \in 1..(Len(page) + 1) /\ Len(page) + 1 \in 1..(Len(page) + 1)
      /\ (Len(page) + 1) - 1 = Len(page)
      /\ \A i \in (m + 1)..Len(page) : i \in 1..Len(page)
  BY <1>1
<1> DEFINE s == o[m + 1]
<1>3. \A k \in (s + 1)..Len(response) :
        \E i \in (m + 1)..Len(page) :
          \E z \in 1..Len(page[i]) : k = o[i] + z /\ response[k] = page[i][z]
  <2> TAKE k \in (s + 1)..Len(response)
  <2>1. k \in (o[m + 1] + 1)..o[Len(page) + 1]
    BY <1>1, Zenon
  <2>3. PICK u \in 1..(Len(page) + 1), v \in 1..(Len(page) + 1) : u = m + 1 /\ v = Len(page) + 1
    BY <1>2
  <2>4. k \in (o[u] + 1)..o[v]
    BY <2>1, <2>3
  <2>5. \E i \in u..(v - 1) : \E z \in 1..Len(page[i]) : k = o[i] + z /\ response[k] = page[i][z]
    BY <2>4, PieceOf
  <2>2. \E i \in (m + 1)..((Len(page) + 1) - 1) :
          \E z \in 1..Len(page[i]) : k = o[i] + z /\ response[k] = page[i][z]
    BY <2>3, <2>5
  <2> QED
    BY <1>2, <2>2, Zenon
<1>4. \A i \in 1..Len(page) : ~Has(page[i], c) => \A z \in 1..Len(page[i]) : page[i][z] # c
  BY <1>1 DEF Has
<1>5. s \in Nat /\ Len(response) \in Nat /\ q <= s + 1 /\ \A k \in q..s : response[k] # c
  BY <1>1, <1>2
<1> HIDE DEF s
<1>6. \A k \in q..Len(response) : response[k] # c
  <2> TAKE k \in q..Len(response)
  <2>1. CASE k <= s
    BY <1>5, <2>1
  <2>2. CASE ~(k <= s)
    <3>1. k \in (s + 1)..Len(response)
      BY <1>5, <2>2
    <3> QED
      BY <1>2, <1>3, <1>4, <3>1, Zenon
  <2> QED
    BY <2>1, <2>2
<1> QED
  BY <1>6, FindNothing

-----------------------------------------------------------------------------
(* On a regular page the names are those of results and snippets.          *)
IsOffset(o) == \A i \in 1..(Len(page) + 1) : o[i] = OffsetOf(i)

LEMMA RegularNames ==
  ASSUME Regular, page \in Seq(Seq(Strings)), NEW i \in 1..Len(page)
  PROVE  /\ Has(page[i], "result__a") <=> IsResult(page[i])
         /\ Has(page[i], "result__snippet") <=> IsSnippet(page[i])
<1>1. DOMAIN page = 1..Len(page)
  OBVIOUS
<1>2. IsAnchor(page[i]) \/ IsOther(page[i])
  BY <1>1, Zenon DEF Regular
<1>3. IsOther(page[i]) => ~Has(page[i], "result__a") /\ ~Has(page[i], "result__snippet")
  BY DEF IsOther, Has
<1> QED
  BY <1>2, <1>3, Zenon DEF IsResult, IsSnippet

LEMMA AnchorTag ==
  ASSUME page \in Seq(Seq(Strings)), NEW i \in 1..Len(page), IsAnchor(page[i])
  PROVE  \E g \in Nat : TagEndsAt(page[i], g)
<1>1. page[i] \in Seq(Strings)
  OBVIOUS
<1>2. DOMAIN page[i] \subseteq Nat
  BY <1>1
<1> QED
  BY <1>2, Zenon DEF IsAnchor

(* The next result, and what the loop has found of it.                     *)
LEMMA ResultFound ==
  ASSUME NEW o, Layout(page, response, o), NEW m \in 0..Len(page),
         NEW n \in (m + 1)..Len(page), NEW g \in Nat, TagEndsAt(page[n], g),
         Has(page[n], "result__a"), \A j \in (m + 1)..(n - 1) : ~Has(page[j], "result__a")
  PROVE  \E q \in Nat \ {0} :
           /\ Find({"result__a"}, o[m + 1] + 1) = q /\ TagStart(q) = o[n] + 1 /\ o[n] \in Nat
           /\ TagEnd(o[n] + 1) = o[n] + g /\ ContentEnd(o[n] + g) = o[n + 1]
           /\ o[n + 1] \in Nat \ {0}
<1>1. /\ Len(page) \in Nat /\ \A j \in 1..(Len(page) + 1) : o[j] \in Nat
      /\ \A j \in 1..Len(page) : page[j] \in Seq(Strings)
  BY Offsets
<1>2. m + 1 \in 1..(Len(page) + 1) /\ n \in 1..Len(page)
  BY <1>1
<1>3. o[m + 1] \in Nat
  BY <1>1, <1>2
<1>4. PICK x : x = FirstOf(page[n], "result__a")
  OBVIOUS
<1>5. PICK c \in Names : c = "result__a"
  BY DEF Names
<1>6. x \in 2..(g - 1)
  <2>1. FirstOf(page[n], c) \in 2..(g - 1)
    BY <1>1, <1>2, <1>5, FirstName
  <2> QED
    BY <1>4, <1>5, <2>1
<1>7. Find({c}, o[m + 1] + 1) = o[n] + FirstOf(page[n], c)
  <2>1. PICK q \in Nat \ {0} : q = o[m + 1] + 1
    BY <1>3
  <2>2. q <= o[m + 1] + 1 /\ \A k \in q..o[m + 1] : response[k] # c
    BY <1>3, <2>1
  <2>3. Find({c}, q) = o[n] + FirstOf(page[n], c)
    BY <1>5, <2>2, NameFound, ZenonT(60)
  <2> QED
    BY <2>1, <2>3
<1>8. /\ o[n] \in Nat /\ o[n + 1] \in Nat /\ o[n] + g < o[n + 1]
      /\ \A q \in (o[n] + 1)..(o[n] + g) : TagStart(q) = o[n] + 1
      /\ TagEnd(o[n] + 1) = o[n] + g /\ ContentEnd(o[n] + g) = o[n + 1]
  BY <1>2, AnchorAt, AnchorFound
<1>9. PICK a, b : a = o[n] /\ b = o[n + 1]
  OBVIOUS
<1>10. a + x \in Nat \ {0} /\ a + x \in (a + 1)..(a + g) /\ b \in Nat \ {0}
  BY <1>6, <1>8, <1>9, SMTT(30)
<1>11. TagStart(a + x) = a + 1
  BY <1>8, <1>9, <1>10
<1> QED
  BY <1>4, <1>5, <1>7, <1>8, <1>9, <1>10, <1>11

(* What is found behind a result.                                          *)
LEMMA SnippetFound ==
  ASSUME Regular, NEW o, Layout(page, response, o), IsOffset(o),
         NEW i \in 1..Len(page), IsResult(page[i])
  PROVE  SnippetBehind(o[i + 1]) =
           IF SnippetsOf(i) = {} THEN 0 ELSE OffsetOf(CHOOSE j \in SnippetsOf(i) : TRUE) + 1
<1>1. /\ Len(page) \in Nat /\ \A j \in 1..(Len(page) + 1) : o[j] \in Nat
      /\ \A j \in 1..Len(page) : page[j] \in Seq(Strings)
      /\ page \in Seq(Seq(Strings)) /\ DOMAIN page = 1..Len(page)
  <2>1. page \in Seq(Seq(Strings))
    BY DEF Layout
  <2>2. DOMAIN page = 1..Len(page)
    BY <2>1
  <2> QED
    BY <2>1, <2>2, Offsets
<1>2. i \in 0..Len(page) /\ i + 1 \in 1..(Len(page) + 1)
  BY <1>1
<1>3. PICK q \in Nat : q = o[i + 1]
  BY <1>1, <1>2
<1>4. q \in Nat \ {0} /\ q <= o[i + 1] + 1 /\ \A k \in q..o[i + 1] : response[k] # "result__snippet"
  <2>1. PICK g \in Nat : TagEndsAt(page[i], g)
    BY <1>1, AnchorTag DEF IsResult
  <2>2. o[i] \in Nat /\ o[i] + g < o[i + 1] /\ response[o[i + 1]] = "</a>"
    BY <2>1, AnchorAt
  <2> QED
    BY <1>3, <2>2
<1> DEFINE T == {j \in (i + 1)..Len(page) : IsSnippet(page[j])}
           P == Find({"result__snippet"}, q)
<1>5. T \subseteq Nat
  BY <1>1
<1>6. \A j \in (i + 1)..Len(page) :
        j \in 1..Len(page) /\ (Has(page[j], "result__snippet") <=> IsSnippet(page[j]))
  BY <1>1, RegularNames
<1>7. \A j \in SnippetsOf(i) :
        j \in T /\ IsNear(i, j) /\ \A k \in (i + 1)..(j - 1) : ~IsSnippet(page[k])
  BY DEF SnippetsOf
<1>8. SnippetBehind(q) =
        IF P # 0 /\ P - q < Near /\ ContentEnd(TagEnd(TagStart(P))) # 0 THEN TagStart(P) ELSE 0
  BY Zenon DEF SnippetBehind
<1>9. PICK c \in Names : c = "result__snippet"
  BY DEF Names
<1>10. CASE T = {}
  <2>1. \A j \in (i + 1)..Len(page) : ~Has(page[j], c)
    BY <1>6, <1>9, <1>10
  <2>2. Find({c}, q) = 0
    BY <1>2, <1>4, <1>9, <2>1, NoNameFound
  <2>3. SnippetsOf(i) = {}
    BY <1>7, <1>10
  <2> HIDE DEF T, P
  <2>4. P = 0
    BY <1>9, <2>2 DEF P
  <2> QED
    BY <1>3, <1>8, <2>3, <2>4
<1>11. CASE T # {}
  <2>1. PICK n \in T : \A j \in T : n <= j
    <3> HIDE DEF T
    <3> QED
      BY <1>5, <1>11, LeastNumber
  <2>2. /\ n \in (i + 1)..Len(page) /\ n \in 1..Len(page) /\ n \in 1..(Len(page) + 1)
        /\ IsSnippet(page[n])
    BY <1>1, <2>1
  <2>3. \A j \in (i + 1)..(n - 1) : ~IsSnippet(page[j]) /\ ~Has(page[j], c)
    <3>1. \A j \in (i + 1)..(n - 1) : j \in (i + 1)..Len(page) /\ ~(n <= j)
      BY <1>1, <2>2
    <3> QED
      BY <1>6, <1>9, <2>1, <3>1
  <2>4. PICK g \in Nat : TagEndsAt(page[n], g)
    BY <1>1, <2>2, AnchorTag DEF IsSnippet
  <2>5. PICK x : x = FirstOf(page[n], c)
    OBVIOUS
  <2>6. Has(page[n], c)
    BY <1>9, <2>2 DEF IsSnippet
  <2>7. x \in 2..(g - 1)
    BY <1>1, <2>2, <2>4, <2>5, <2>6, FirstName
  <2>8. Find({c}, q) = o[n] + FirstOf(page[n], c)
    BY <1>2, <1>4, <1>9, <2>2, <2>3, <2>4, <2>6, NameFound, ZenonT(60)
  <2>9. /\ o[n] \in Nat /\ o[n + 1] \in Nat /\ o[n] + g < o[n + 1]
        /\ \A z \in (o[n] + 1)..(o[n] + g) : TagStart(z) = o[n] + 1
        /\ TagEnd(o[n] + 1) = o[n] + g /\ ContentEnd(o[n] + g) = o[n + 1]
    BY <2>2, <2>4, AnchorAt, AnchorFound
  <2>10. PICK a, b : a = o[n] /\ b = o[n + 1]
    OBVIOUS
  <2>11. P = a + x
    BY <1>9, <2>5, <2>8, <2>10
  <2>12. a + x \in (a + 1)..(a + g) /\ a + x # 0 /\ b # 0
    BY <2>7, <2>9, <2>10, SMTT(30)
  <2>13. TagStart(P) = a + 1 /\ ContentEnd(TagEnd(TagStart(P))) = b
    BY <2>9, <2>10, <2>11, <2>12
  <2>14. a = OffsetOf(n) /\ q = OffsetOf(i + 1)
    BY <1>2, <1>3, <2>2, <2>10 DEF IsOffset
  <2>15. P - q < Near <=> IsNear(i, n)
    BY <1>9, <2>5, <2>11, <2>14 DEF IsNear
  <2>16. \A j \in SnippetsOf(i) : j = n
    <3> TAKE j \in SnippetsOf(i)
    <3>1. j \in T /\ n <= j /\ ~(n \in (i + 1)..(j - 1))
      BY <1>7, <2>1, <2>2
    <3> QED
      BY <1>1, <2>2, <3>1
  <2> HIDE DEF T, P
  <2>17. SnippetBehind(q) = IF IsNear(i, n) THEN a + 1 ELSE 0
    BY <1>8, <2>11, <2>12, <2>13, <2>15
  <2>18. CASE IsNear(i, n)
    <3>1. SnippetsOf(i) # {}
      BY <1>1, <2>2, <2>18 DEF Regular
    <3>2. SnippetsOf(i) = {n}
      BY <2>16, <3>1
    <3>3. (CHOOSE j \in SnippetsOf(i) : TRUE) = n
      BY <3>2
    <3> QED
      BY <1>3, <2>14, <2>17, <2>18, <3>1, <3>3
  <2>19. CASE ~IsNear(i, n)
    <3>1. SnippetsOf(i) = {}
      BY <1>7, <2>16, <2>19
    <3> QED
      BY <1>3, <2>17, <2>19, <3>1
  <2> QED
    BY <2>18, <2>19
<1> QED
  BY <1>10, <1>11

(* What the loop pushes for a result.                                      *)
LEMMA ResultIs ==
  ASSUME Regular, NEW o, Layout(page, response, o), IsOffset(o),
         NEW i \in 1..Len(page), IsResult(page[i]), NEW g \in Nat, TagEndsAt(page[i], g)
  PROVE  Result(o[i] + 1, o[i] + g, o[i + 1]) = Expected(i)
<1>1. /\ o[i] \in Nat /\ g \in Nat /\ o[i + 1] \in Nat /\ 1 < g /\ o[i] + g < o[i + 1]
      /\ response[o[i] + 1] = "<a"
      /\ \A q \in (o[i] + 2)..(o[i] + g - 1) : response[q] \in Attributes
      /\ \A q \in (o[i] + g + 1)..(o[i + 1] - 1) : response[q] \in {"text", ">"}
  BY AnchorAt
<1>2. \A k \in 1..Len(page[i]) : response[o[i] + k] = page[i][k]
  BY DEF Layout
<1>3. o[i + 1] = o[i] + Len(page[i]) /\ Len(page[i]) \in Nat /\ page[i] \in Seq(Strings)
  BY Offsets
<1>4. /\ page[i][1] = "<a" /\ page[i][g] = ">" /\ page[i][Len(page[i])] = "</a>"
      /\ \A k \in 2..(g - 1) : page[i][k] \in Attributes
      /\ \A k \in (g + 1)..(Len(page[i]) - 1) : page[i][k] \in {"text", ">"}
  BY DEF TagEndsAt, Attributes
<1>5. \A c : Has(page[i], c) <=> \E k \in 1..Len(page[i]) : page[i][k] = c
  BY <1>3 DEF Has
<1> DEFINE a == o[i]
           b == o[i + 1]
           n == Len(page[i])
<1>6. /\ a \in Nat /\ b \in Nat /\ n \in Nat /\ 1 < g /\ a + g < b /\ b = a + n
      /\ response[a + 1] = "<a"
      /\ \A q \in (a + 2)..(a + g - 1) : response[q] \in Attributes
      /\ \A q \in (a + g + 1)..(b - 1) : response[q] \in {"text", ">"}
      /\ \A k \in 1..n : response[a + k] = page[i][k]
  BY <1>1, <1>2, <1>3, Zenon
<1>7. /\ page[i][1] = "<a" /\ page[i][g] = ">" /\ page[i][n] = "</a>"
      /\ \A k \in 2..(g - 1) : page[i][k] \in Attributes
      /\ \A k \in (g + 1)..(n - 1) : page[i][k] \in {"text", ">"}
      /\ \A c : Has(page[i], c) <=> \E k \in 1..n : page[i][k] = c
  BY <1>4, <1>5, Zenon
<1>8. SnippetBehind(b) = Expected(i).snippet /\ a + 1 = Expected(i).tag
  <2>1. i \in 1..(Len(page) + 1)
    <3>1. Len(page) \in Nat
      BY Offsets
    <3> QED
      BY <3>1
  <2>2. o[i] = OffsetOf(i)
    BY <2>1, Zenon DEF IsOffset
  <2> QED
    BY <2>2, SnippetFound DEF Expected
<1> HIDE DEF a, b, n
<1>9. Visible(a + g + 1, b - 1) <=> Has(page[i], "text")
  <2>1. ASSUME NEW q \in (a + g + 1)..(b - 1)
        PROVE  ~InTag(q, a + g + 1)
    <3>1. \A j \in (a + g + 1)..(q - 1) : response[j] # "<a"
      <4> TAKE j \in (a + g + 1)..(q - 1)
      <4>1. j \in (a + g + 1)..(b - 1)
        BY <1>6
      <4> QED
        BY <1>6, <4>1
    <3> QED
      BY <3>1 DEF InTag
  <2>2. Visible(a + g + 1, b - 1) <=> \E q \in (a + g + 1)..(b - 1) : response[q] = "text"
    BY <1>6, <2>1 DEF Visible
  <2>3. ASSUME NEW q \in (a + g + 1)..(b - 1), response[q] = "text"
        PROVE  Has(page[i], "text")
    <3>1. q - a \in 1..n /\ q = a + (q - a)
      BY <1>6
    <3>2. page[i][q - a] = "text"
      BY <1>6, <2>3, <3>1
    <3> QED
      BY <1>7, <3>1, <3>2
  <2>4. ASSUME NEW k \in 1..n, page[i][k] = "text"
        PROVE  \E q \in (a + g + 1)..(b - 1) : response[q] = "text"
    <3>1. k # 1 /\ k # g /\ k # n /\ k \notin 2..(g - 1)
      BY <1>7, <2>4 DEF Attributes
    <3>2. a + k \in (a + g + 1)..(b - 1)
      BY <1>6, <3>1
    <3>3. response[a + k] = "text"
      BY <1>6, <2>4
    <3> QED
      BY <3>2, <3>3
  <2> QED
    BY <1>7, <2>2, <2>3, <2>4
<1>10. (\E q \in (a + 1)..((a + g) - 1) : response[q] = "href") <=> Has(page[i], "href")
  <2>1. ASSUME NEW q \in (a + 1)..((a + g) - 1), response[q] = "href"
        PROVE  Has(page[i], "href")
    <3>1. q - a \in 1..n /\ q = a + (q - a)
      BY <1>6
    <3>2. page[i][q - a] = "href"
      BY <1>6, <2>1, <3>1
    <3> QED
      BY <1>7, <3>1, <3>2
  <2>2. ASSUME NEW k \in 1..n, page[i][k] = "href"
        PROVE  \E q \in (a + 1)..((a + g) - 1) : response[q] = "href"
    <3>1. k # g /\ k # n /\ k \notin (g + 1)..(n - 1)
      BY <1>7, <2>2
    <3>2. a + k \in (a + 1)..((a + g) - 1)
      BY <1>6, <3>1
    <3>3. response[a + k] = "href"
      BY <1>6, <2>2
    <3> QED
      BY <3>2, <3>3
  <2> QED
    BY <1>7, <2>1, <2>2
<1>11. Visible(a + g + 1, b - 1) = Has(page[i], "text")
  BY <1>9 DEF Visible, Has
<1>12. (\E q \in (a + 1)..((a + g) - 1) : response[q] = "href") = Has(page[i], "href")
  BY <1>10 DEF Has
<1>13. Result(a + 1, a + g, b) =
         [tag |-> a + 1, title |-> Has(page[i], "text"),
          url |-> Has(page[i], "href"), snippet |-> SnippetBehind(b)]
  BY <1>11, <1>12, Zenon DEF Result
<1>14. Expected(i) =
         [tag |-> Expected(i).tag, title |-> Has(page[i], "text"),
          url |-> Has(page[i], "href"), snippet |-> Expected(i).snippet]
  BY DEF Expected
<1>15. Result(a + 1, a + g, b) = Expected(i)
  BY <1>8, <1>13, <1>14, Zenon
<1> QED
  BY <1>15 DEF a, b

LEMMA EmptyIs ==
  ASSUME NEW i, IsAnchor(page[i])
  PROVE  Expected(i).title \/ Expected(i).url <=> ~IsEmpty(page[i])
BY DEF Expected, IsEmpty

-----------------------------------------------------------------------------
(* The results of the page up to a piece.                                  *)
LEMMA NumberType ==
  ASSUME NEW i \in Nat
  PROVE  Number(i) \in Nat /\ IsFiniteSet({k \in 1..i : Listed(k)})
<1>1. IsFiniteSet(1..i)
  BY FS_Interval
<1>2. {k \in 1..i : Listed(k)} \in SUBSET (1..i)
  OBVIOUS
<1>3. IsFiniteSet({k \in 1..i : Listed(k)})
  BY <1>1, <1>2, FS_Subset
<1> QED
  BY <1>3, FS_CardinalityType DEF Number

LEMMA NumberZero == Number(0) = 0
<1>1. {k \in 1..0 : Listed(k)} = {}
  OBVIOUS
<1> QED
  BY <1>1, FS_EmptySet DEF Number

LEMMA NumberGrows ==
  ASSUME NEW i \in Nat \ {0}
  PROVE  Number(i) = IF Listed(i) THEN Number(i - 1) + 1 ELSE Number(i - 1)
<1>1. {k \in 1..i : Listed(k)} =
        IF Listed(i) THEN {k \in 1..(i - 1) : Listed(k)} \cup {i}
        ELSE {k \in 1..(i - 1) : Listed(k)}
  <2>1. \A k : k \in 1..i <=> k \in 1..(i - 1) \/ k = i
    OBVIOUS
  <2> QED
    BY <2>1, Zenon
<1>2. i - 1 \in Nat /\ i \notin {k \in 1..(i - 1) : Listed(k)}
  OBVIOUS
<1>3. IsFiniteSet({k \in 1..(i - 1) : Listed(k)})
  BY <1>2, NumberType
<1>4. Cardinality({k \in 1..(i - 1) : Listed(k)} \cup {i}) =
        Cardinality({k \in 1..(i - 1) : Listed(k)}) + 1
  BY <1>2, <1>3, FS_AddElement
<1> QED
  BY <1>1, <1>4 DEF Number

LEMMA NumberMonotone ==
  ASSUME NEW i \in Nat, NEW j \in Nat, i <= j
  PROVE  Number(i) <= Number(j)
<1>1. {k \in 1..i : Listed(k)} \in SUBSET {k \in 1..j : Listed(k)}
  OBVIOUS
<1>2. IsFiniteSet({k \in 1..j : Listed(k)})
  BY NumberType
<1> QED
  BY <1>1, <1>2, FS_Subset DEF Number

LEMMA NumberStays ==
  ASSUME NEW i \in Nat, NEW j \in Nat, i <= j, \A k \in (i + 1)..j : ~Listed(k)
  PROVE  Number(i) = Number(j)
<1>1. {k \in 1..i : Listed(k)} = {k \in 1..j : Listed(k)}
  <2>1. \A k \in 1..j : k \in 1..i \/ k \in (i + 1)..j
    OBVIOUS
  <2>2. \A k \in 1..i : k \in 1..j
    OBVIOUS
  <2> QED
    BY <2>1, <2>2
<1> QED
  BY <1>1 DEF Number

-----------------------------------------------------------------------------
(* What is said of the page stays while the page does.                     *)
LEMMA PageStays ==
  ASSUME page' = page
  PROVE  /\ Regular' <=> Regular
         /\ \A i : /\ Listed(i)' <=> Listed(i)
                   /\ Number(i)' = Number(i) /\ OffsetOf(i)' = OffsetOf(i)
                   /\ Expected(i)' = Expected(i)
<1>1. \A i : OffsetOf(i)' = OffsetOf(i)
  BY DEF OffsetOf
<1>2. \A i, j : IsNear(i, j)' <=> IsNear(i, j)
  BY <1>1 DEF IsNear
<1>3. \A i : SnippetsOf(i)' = SnippetsOf(i)
  BY <1>2 DEF SnippetsOf
<1>4. Regular' <=> Regular
  BY <1>2, <1>3 DEF Regular
<1>5. \A i : Listed(i)' <=> Listed(i)
  BY DEF Listed
<1>6. \A i : Number(i)' = Number(i)
  BY <1>5 DEF Number
<1>7. \A i : Expected(i)' = Expected(i)
  <2> TAKE i
  <2>1. (CHOOSE j \in SnippetsOf(i) : TRUE)' = CHOOSE j \in SnippetsOf(i) : TRUE
    BY <1>3, Zenon
  <2>2. OffsetOf(CHOOSE j \in SnippetsOf(i) : TRUE)' = OffsetOf(CHOOSE j \in SnippetsOf(i) : TRUE)
    BY <2>1, Zenon DEF OffsetOf
  <2> QED
    BY <1>1, <1>3, <2>2 DEF Expected
<1> QED
  BY <1>1, <1>4, <1>5, <1>6, <1>7

(* The results are those of the first m pieces.                            *)
FoundUpTo(m) ==
  /\ results \in Seq({Expected(i) : i \in DOMAIN page})
  /\ Len(results) = Number(m) /\ Number(m) <= MaxResults
  /\ \A i \in 1..m : Listed(i) => results[Number(i)] = Expected(i)

(* On a regular page the search continues at the end of a piece and has    *)
(* found the results up to there.                                          *)
SearchInv ==
  /\ page \in Seq(Seq(Strings))
  /\ response = FlattenSeq(page)
  /\ Regular /\ at = "search" => \E m \in 0..Len(page) : pos = OffsetOf(m + 1) + 1 /\ FoundUpTo(m)
  /\ FindsTheResults

LEMMA SearchInit_Inv == ASSUME SearchInit PROVE SearchInv
<1>1. page \in Seq(Seq(Strings))
  <2>1. PICK m \in Nat : page \in [1..m -> Elements]
    BY WebSearchAssumption DEF SearchInit, SeqOf
  <2>2. page \in [1..m -> Seq(Strings)]
    BY <2>1, WebSearchAssumption
  <2> QED
    BY <2>2
<1>2. /\ response = FlattenSeq(page) /\ at = "search" /\ pos = 1 /\ results = <<>>
  BY DEF SearchInit
<1>3. OffsetOf(1) = 0
  <2>1. SubSeq(page, 1, 1 - 1) = <<>>
    BY <1>1
  <2>2. FlattenSeq(<<>>) = <<>>
    BY DEF FlattenSeq
  <2> QED
    BY <2>1, <2>2, Len(<<>>) = 0, Zenon DEF OffsetOf
<1>4. FoundUpTo(0)
  <2>1. MaxResults \in Nat
    BY WebSearchAssumption
  <2>2. results \in Seq({Expected(i) : i \in DOMAIN page})
    BY <1>2
  <2> QED
    BY <1>2, <2>1, <2>2, NumberZero DEF FoundUpTo
<1>5. 0 \in 0..Len(page) /\ pos = OffsetOf(0 + 1) + 1
  BY <1>1, <1>2, <1>3
<1>6. FindsTheResults
  BY <1>2 DEF FindsTheResults
<1> QED
  BY <1>1, <1>2, <1>4, <1>5, <1>6 DEF SearchInv

(* The search is left with all results, or as many as it may return.       *)
LEMMA FoundAll ==
  ASSUME page \in Seq(Seq(Strings)), NEW m \in 0..Len(page), FoundUpTo(m),
         Len(results) = MaxResults \/ \A i \in (m + 1)..Len(page) : ~Listed(i)
  PROVE  /\ Len(results) = Min({Number(Len(page)), MaxResults})
         /\ \A i \in DOMAIN page :
              Listed(i) /\ Number(i) <= MaxResults => results[Number(i)] = Expected(i)
<1>1. /\ MaxResults \in Nat /\ Len(page) \in Nat /\ m \in Nat /\ m <= Len(page)
      /\ DOMAIN page = 1..Len(page)
  BY WebSearchAssumption
<1>2. Number(m) \in Nat /\ Number(Len(page)) \in Nat /\ Number(m) <= Number(Len(page))
  BY <1>1, NumberType, NumberMonotone
<1>3. /\ Len(results) = Number(m) /\ Number(m) <= MaxResults
      /\ \A i \in 1..m : Listed(i) => results[Number(i)] = Expected(i)
  BY DEF FoundUpTo
<1>4. \A i \in (m + 1)..Len(page) : Listed(i) => Number(m) + 1 <= Number(i)
  <2> TAKE i \in (m + 1)..Len(page)
  <2> HAVE Listed(i)
  <2>1. i \in Nat \ {0} /\ i - 1 \in Nat /\ m <= i - 1
    BY <1>1
  <2>2. Number(i) = Number(i - 1) + 1 /\ Number(m) <= Number(i - 1) /\ Number(i - 1) \in Nat
    BY <1>1, <2>1, NumberGrows, NumberMonotone, NumberType
  <2> QED
    BY <1>2, <2>2
<1>5. (\A i \in (m + 1)..Len(page) : ~Listed(i)) => Number(Len(page)) = Number(m)
  BY <1>1, NumberStays
<1> DEFINE a == Number(Len(page))
           b == Len(results)
           S == {a, MaxResults}
<1>6. a \in Nat /\ b \in Nat /\ b <= a /\ b <= MaxResults /\ (b = MaxResults \/ b = a)
  BY <1>2, <1>3, <1>5
<1> HIDE DEF a, b
<1>7. b = Min(S)
  <2>1. S \subseteq Nat /\ b \in S /\ \A y \in S : b <= y
    BY <1>1, <1>6
  <2> HIDE DEF S
  <2> QED
    BY <2>1, MinIs
<1>8. \A i \in DOMAIN page :
        Listed(i) /\ Number(i) <= MaxResults => results[Number(i)] = Expected(i)
  <2> TAKE i \in DOMAIN page
  <2> HAVE Listed(i) /\ Number(i) <= MaxResults
  <2>1. i \in 1..m \/ i \in (m + 1)..Len(page)
    BY <1>1
  <2>2. ASSUME i \in (m + 1)..Len(page) PROVE FALSE
    <3>1. Number(m) + 1 <= Number(i) /\ Number(i) \in Nat /\ Number(m) = MaxResults
      <4>1. i \in Nat /\ Number(m) = MaxResults
        BY <1>1, <1>3, <2>2
      <4> QED
        BY <1>4, <2>2, <4>1, NumberType, Zenon
    <3> QED
      BY <1>1, <3>1
  <2> QED
    BY <1>3, <2>1, <2>2
<1> QED
  BY <1>7, <1>8 DEF a, b

(* The next result behind a piece, if there is one.                        *)
LEMMA NextResult ==
  ASSUME page \in Seq(Seq(Strings)), NEW m \in 0..Len(page)
  PROVE  \/ \A j \in (m + 1)..Len(page) : ~Has(page[j], "result__a")
         \/ \E n \in (m + 1)..Len(page) :
              Has(page[n], "result__a") /\ \A j \in (m + 1)..(n - 1) : ~Has(page[j], "result__a")
<1> DEFINE T == {j \in (m + 1)..Len(page) : Has(page[j], "result__a")}
<1>1. T \subseteq Nat /\ Len(page) \in Nat
  OBVIOUS
<1>2. SUFFICES ASSUME T # {}
               PROVE  \E n \in (m + 1)..Len(page) :
                        /\ Has(page[n], "result__a")
                        /\ \A j \in (m + 1)..(n - 1) : ~Has(page[j], "result__a")
  OBVIOUS
<1>3. PICK n \in T : \A j \in T : n <= j
  <2> HIDE DEF T
  <2> QED
    BY <1>1, <1>2, LeastNumber
<1>4. n \in (m + 1)..Len(page) /\ Has(page[n], "result__a")
  BY <1>3
<1>5. \A j \in (m + 1)..(n - 1) : j \in (m + 1)..Len(page) /\ ~(n <= j)
  BY <1>1, <1>4
<1>6. \A j \in (m + 1)..(n - 1) : ~Has(page[j], "result__a")
  BY <1>3, <1>5
<1> QED
  BY <1>4, <1>6, Zenon

LEMMA SearchNext_Inv == ASSUME SearchInv, [SearchNext]_searchVars PROVE SearchInv'
<1>1. /\ page \in Seq(Seq(Strings)) /\ response = FlattenSeq(page) /\ FindsTheResults
      /\ Regular /\ at = "search" =>
           \E m \in 0..Len(page) : pos = OffsetOf(m + 1) + 1 /\ FoundUpTo(m)
  BY DEF SearchInv
<1>2. page' = page /\ response' = response
  BY DEF SearchNext, searchVars, Full, Search, Break, SkipName, TakeAnchor
<1>3. /\ Regular' <=> Regular
      /\ \A i : /\ Listed(i)' <=> Listed(i)
                /\ Number(i)' = Number(i) /\ OffsetOf(i)' = OffsetOf(i)
                /\ Expected(i)' = Expected(i)
  BY <1>2, PageStays
<1>4. page' \in Seq(Seq(Strings)) /\ response' = FlattenSeq(page')
  BY <1>1, <1>2
<1>5. CASE ~Regular
  BY <1>3, <1>4, <1>5, Zenon DEF SearchInv, FindsTheResults
<1>6. CASE UNCHANGED searchVars
  <2>1. pos' = pos /\ results' = results /\ at' = at
    BY <1>6 DEF searchVars
  <2>2. \A m : FoundUpTo(m)' <=> FoundUpTo(m)
    BY <1>2, <1>3, <2>1 DEF FoundUpTo
  <2>3. FindsTheResults'
    BY <1>1, <1>2, <1>3, <2>1 DEF FindsTheResults
  <2> QED
    BY <1>1, <1>2, <1>3, <1>4, <2>1, <2>2, <2>3 DEF SearchInv
<1>7. CASE Regular /\ SearchNext
  <2>1. at = "search"
    BY <1>7 DEF SearchNext, Full, Search, Break, SkipName, TakeAnchor, Searching
  <2>2. PICK m \in 0..Len(page) : pos = OffsetOf(m + 1) + 1 /\ FoundUpTo(m)
    BY <1>1, <1>7, <2>1
  <2>3. PICK o : Layout(page, response, o) /\ IsOffset(o)
    <3>1. Layout(page, response,
                 [i \in 1..(Len(page) + 1) |-> Len(FlattenSeq(SubSeq(page, 1, i - 1)))])
      BY <1>1, PiecesLaidOut
    <3>2. IsOffset([i \in 1..(Len(page) + 1) |-> Len(FlattenSeq(SubSeq(page, 1, i - 1)))])
      BY DEF IsOffset, OffsetOf
    <3> QED
      BY <3>1, <3>2
  <2>4. Len(page) \in Nat /\ m \in Nat /\ m + 1 \in 1..(Len(page) + 1) /\ DOMAIN page = 1..Len(page)
    BY <1>1
  <2>5. pos = o[m + 1] + 1 /\ o[m + 1] \in Nat
    BY <2>2, <2>3, <2>4, Offsets DEF IsOffset
  (* Left with all results, or as many as it may return.                   *)
  <2>6. ASSUME at' = "returned", results' = results,
               Len(results) = MaxResults \/ \A i \in (m + 1)..Len(page) : ~Listed(i)
        PROVE  SearchInv'
    <3>1. /\ Len(results) = Min({Number(Len(page)), MaxResults})
          /\ \A i \in DOMAIN page :
               Listed(i) /\ Number(i) <= MaxResults => results[Number(i)] = Expected(i)
      BY <1>1, <2>2, <2>6, FoundAll
    <3>2. FindsTheResults'
      BY <1>2, <1>3, <2>6, <3>1 DEF FindsTheResults
    <3> QED
      BY <1>4, <2>6, <3>2 DEF SearchInv
  <2>7. ASSUME \A j \in (m + 1)..Len(page) : ~Has(page[j], "result__a")
        PROVE  /\ \A i \in (m + 1)..Len(page) : ~Listed(i)
               /\ Find({"result__a"}, pos) = 0
    <3>1. \A i \in (m + 1)..Len(page) : ~Listed(i)
      BY <2>7 DEF Listed, IsResult
    <3>2. PICK c \in Names : c = "result__a"
      BY DEF Names
    <3>3. pos \in Nat \ {0} /\ pos <= o[m + 1] + 1 /\ \A k \in pos..o[m + 1] : response[k] # c
      BY <2>5
    <3>4. Find({c}, pos) = 0
      BY <2>3, <2>7, <3>2, <3>3, NoNameFound
    <3> QED
      BY <3>1, <3>2, <3>4
  <2>8. CASE Full
    BY <2>6, <2>8 DEF Full
  <2>9. CASE Search
    <3>1. PICK aPos, aTagStart, aTagEnd, contentEnd :
            /\ aPos = Find({"result__a"}, pos) /\ aTagStart = TagStart(aPos)
            /\ aTagEnd = TagEnd(aTagStart) /\ contentEnd = ContentEnd(aTagEnd)
            /\ \/ Break(aPos, aTagStart, contentEnd)
               \/ SkipName(aPos, aTagStart)
               \/ TakeAnchor(aTagStart, aTagEnd, contentEnd)
      BY <2>9 DEF Search
    <3>2. CASE \A j \in (m + 1)..Len(page) : ~Has(page[j], "result__a")
      <4>1. aPos = 0 /\ contentEnd = 0 /\ \A i \in (m + 1)..Len(page) : ~Listed(i)
        BY <2>7, <3>1, <3>2, FindBehindNothing
      <4>2. Break(aPos, aTagStart, contentEnd)
        BY <3>1, <4>1 DEF SkipName, TakeAnchor
      <4> QED
        BY <2>6, <4>1, <4>2 DEF Break
    <3>3. ASSUME NEW n \in (m + 1)..Len(page), Has(page[n], "result__a"),
                 \A j \in (m + 1)..(n - 1) : ~Has(page[j], "result__a")
          PROVE  SearchInv'
      <4>1. n \in 1..Len(page) /\ n \in Nat \ {0} /\ n \in 0..Len(page) /\ n \in 1..(Len(page) + 1)
            /\ n + 1 \in 1..(Len(page) + 1) /\ n - 1 \in Nat /\ m <= n - 1
        BY <2>4
      <4>2. IsResult(page[n]) /\ IsAnchor(page[n])
        BY <1>1, <1>7, <3>3, <4>1, RegularNames DEF IsResult
      <4>3. PICK g \in Nat : TagEndsAt(page[n], g)
        BY <1>1, <4>1, <4>2, AnchorTag
      <4>4. /\ aPos # 0 /\ aTagStart = o[n] + 1 /\ aTagStart # 0
            /\ aTagEnd = o[n] + g /\ contentEnd = o[n + 1] /\ contentEnd # 0
        <5>1. \E q \in Nat \ {0} :
                /\ Find({"result__a"}, o[m + 1] + 1) = q /\ TagStart(q) = o[n] + 1 /\ o[n] \in Nat
                /\ TagEnd(o[n] + 1) = o[n] + g /\ ContentEnd(o[n] + g) = o[n + 1]
                /\ o[n + 1] \in Nat \ {0}
          BY <2>3, <3>3, <4>3, ResultFound
        <5> QED
          BY <2>5, <3>1, <5>1, SMTT(30)
      <4>5. TakeAnchor(aTagStart, aTagEnd, contentEnd)
        BY <3>1, <4>4 DEF Break, SkipName
      <4>6. Result(aTagStart, aTagEnd, contentEnd) = Expected(n)
        BY <1>7, <2>3, <4>1, <4>2, <4>3, <4>4, ResultIs
      <4>7. /\ results' = IF Listed(n) THEN Append(results, Expected(n)) ELSE results
            /\ pos' = contentEnd + 1 /\ at' = at /\ Len(results) < MaxResults
        <5>1. results' = IF Expected(n).title \/ Expected(n).url
                         THEN Append(results, Expected(n)) ELSE results
          BY <4>5, <4>6 DEF TakeAnchor
        <5>2. Expected(n).title \/ Expected(n).url <=> Listed(n)
          BY <4>2, EmptyIs DEF Listed
        <5> QED
          BY <4>5, <5>1, <5>2 DEF TakeAnchor, Searching
      <4>8. Number(n) = IF Listed(n) THEN Number(m) + 1 ELSE Number(m)
        <5>1. \A k \in (m + 1)..(n - 1) : ~Listed(k)
          BY <3>3 DEF Listed, IsResult
        <5>2. Number(m) = Number(n - 1)
          BY <2>4, <4>1, <5>1, NumberStays
        <5> QED
          BY <4>1, <5>2, NumberGrows
      <4> DEFINE E == {Expected(i) : i \in DOMAIN page}
      <4>9. /\ results \in Seq(E) /\ Len(results) = Number(m) /\ Number(m) \in Nat
            /\ \A i \in 1..m : Listed(i) => results[Number(i)] = Expected(i)
            /\ Expected(n) \in E /\ MaxResults \in Nat
        <5>1. Expected(n) \in E
          BY <2>4, <4>1
        <5>2. Number(m) \in Nat /\ MaxResults \in Nat
          <6>1. m \in Nat
            BY <2>4
          <6>2. MaxResults \in Nat
            BY WebSearchAssumption
          <6> QED
            BY <6>1, <6>2, NumberType, Zenon
        <5> QED
          BY <2>2, <5>1, <5>2, Zenon DEF FoundUpTo
      <4> HIDE DEF E
      <4>10. results' \in Seq(E) /\ Len(results') = Number(n) /\ Number(n) <= MaxResults
        BY <4>7, <4>8, <4>9
      <4>11. \A i \in 1..m : Listed(i) => results'[Number(i)] = Expected(i)
        <5> TAKE i \in 1..m
        <5> HAVE Listed(i)
        <5>1. Number(i) \in 1..Len(results)
          <6>1. i \in Nat \ {0} /\ i - 1 \in Nat /\ i <= m
            BY <2>4
          <6>2. Number(i) = Number(i - 1) + 1 /\ Number(i - 1) \in Nat /\ Number(i) <= Number(m)
            BY <2>4, <6>1, NumberGrows, NumberType, NumberMonotone
          <6> QED
            BY <4>9, <6>2
        <5>2. Append(results, Expected(n))[Number(i)] = results[Number(i)]
          BY <4>9, <5>1
        <5> QED
          BY <4>7, <4>9, <5>2
      <4>12. Listed(n) => results'[Number(n)] = Expected(n)
        BY <4>7, <4>8, <4>9
      <4>13. \A i \in 1..n : Listed(i) => results'[Number(i)] = Expected(i)
        <5> TAKE i \in 1..n
        <5> HAVE Listed(i)
        <5>1. i \in 1..m \/ i \in (m + 1)..(n - 1) \/ i = n
          BY <2>4, <4>1
        <5>2. i \notin (m + 1)..(n - 1)
          BY <3>3 DEF Listed, IsResult
        <5> QED
          BY <4>11, <4>12, <5>1, <5>2
      <4>14. FoundUpTo(n)'
        <5>1. E = {Expected(i)' : i \in DOMAIN page'}
          BY <1>2, <1>3 DEF E
        <5>2. \A i \in 1..n : Listed(i)' => results'[Number(i)'] = Expected(i)'
          BY <1>3, <4>13
        <5> QED
          BY <1>3, <4>10, <5>1, <5>2 DEF FoundUpTo
      <4>15. pos' = OffsetOf(n + 1)' + 1
        BY <1>3, <2>3, <4>1, <4>4, <4>7 DEF IsOffset
      <4>16. FindsTheResults'
        BY <2>1, <4>7 DEF FindsTheResults
      <4> QED
        BY <1>2, <1>4, <4>1, <4>14, <4>15, <4>16 DEF SearchInv
    <3>4. \/ \A j \in (m + 1)..Len(page) : ~Has(page[j], "result__a")
          \/ \E n \in (m + 1)..Len(page) :
               Has(page[n], "result__a") /\ \A j \in (m + 1)..(n - 1) : ~Has(page[j], "result__a")
      BY <1>1, NextResult
    <3> QED
      BY <3>2, <3>3, <3>4
  <2> QED
    BY <1>7, <2>8, <2>9 DEF SearchNext
<1> QED
  BY <1>5, <1>6, <1>7

(* On a regular page of any length the search returns the results that are *)
(* not empty, each once, in their order and with its own link, text and    *)
(* snippet, for the loop of AIToolRegistry::webSearch stands at the end of *)
(* a piece whenever it searches, and has found the results up to there.    *)
THEOREM ResultsCorrect == SearchSpec => []FindsTheResults
<1>1. SearchInit => SearchInv
  BY SearchInit_Inv
<1>2. SearchInv /\ [SearchNext]_searchVars => SearchInv'
  BY SearchNext_Inv
<1>3. SearchInv => FindsTheResults
  BY DEF SearchInv
<1> QED
  BY <1>1, <1>2, <1>3, PTL DEF SearchSpec

-----------------------------------------------------------------------------
(* The search does not stay where it is.                                   *)

LEMMA FindBounds ==
  ASSUME response \in Seq(Strings), NEW S, NEW i \in Nat, Find(S, i) # 0
  PROVE  i # 0 /\ Find(S, i) \in i..Len(response) /\ response[Find(S, i)] \in S
<1> DEFINE I == {k \in i..Len(response) : response[k] \in S}
<1>1. i # 0
  BY DEF Find
<1>2. Find(S, i) = IF I # {} THEN Min(I) ELSE 0
  BY <1>1 DEF Find, SelectInSubSeq
<1>3. I \subseteq Nat /\ \A k \in I : k \in i..Len(response) /\ response[k] \in S
  OBVIOUS
<1> HIDE DEF I
<1>4. I # {}
  BY <1>2
<1>5. PICK x \in I : \A y \in I : x <= y
  BY <1>3, <1>4, LeastNumber
<1>6. Find(S, i) = x
  BY <1>2, <1>3, <1>4, <1>5, MinIs
<1> QED
  BY <1>1, <1>3, <1>5, <1>6

LEMMA TagStartType ==
  ASSUME NEW i \in Nat
  PROVE  TagStart(i) \in Nat
<1> DEFINE I == {k \in 1..i : response[k] \in {"<a"}}
<1>1. TagStart(i) = IF I # {} THEN Max(I) ELSE 0
  BY DEF TagStart, RFind, SelectLastInSubSeq
<1>2. I \subseteq Nat
  OBVIOUS
<1>3. \A k \in I : k <= i
  OBVIOUS
<1> HIDE DEF I
<1>4. CASE I # {}
  <2> DEFINE T == {i - k : k \in I}
  <2>2. \A k \in I : i - k \in T
    OBVIOUS
  <2>1. T \subseteq Nat /\ T # {}
    <3>1. \A k \in I : i - k \in Nat
      BY <1>2, <1>3
    <3>2. T \subseteq Nat
      BY <3>1
    <3>3. T # {}
      BY <1>4
    <3> QED
      BY <3>2, <3>3
  <2>3. \A n \in T : \E k \in I : n = i - k
    OBVIOUS
  <2> HIDE DEF T
  <2>4. PICK n \in T : \A m \in T : n <= m
    BY <2>1, LeastNumber
  <2>5. PICK k \in I : n = i - k
    BY <2>3
  <2>6. \A j \in I : k >= j
    <3> TAKE j \in I
    <3>1. i - k <= i - j
      BY <2>2, <2>4, <2>5
    <3> QED
      BY <1>2, <3>1
  <2>7. Max(I) = k
    BY <1>2, <2>6, MaxIs
  <2> QED
    BY <1>1, <1>2, <1>4, <2>7
<1> QED
  BY <1>1, <1>4

LEMMA ContentEndBounds ==
  ASSUME response \in Seq(Strings), NEW i \in Nat, ContentEnd(TagEnd(i)) # 0
  PROVE  i # 0 /\ ContentEnd(TagEnd(i)) \in 1..Len(response)
<1>1. TagEnd(i) # 0
  BY DEF ContentEnd
<1>2. i # 0 /\ TagEnd(i) \in i..Len(response)
  <2>1. Find({">", "</a>"}, i) # 0
    BY <1>1 DEF TagEnd
  <2>2. i # 0 /\ Find({">", "</a>"}, i) \in i..Len(response)
    BY <2>1, FindBounds
  <2> QED
    BY <2>2 DEF TagEnd
<1>3. PICK e \in Nat : e = TagEnd(i) + 1 /\ e >= 1
  BY <1>2
<1>4. ContentEnd(TagEnd(i)) = Find({"</a>"}, e)
  BY <1>1, <1>3 DEF ContentEnd
<1>5. Find({"</a>"}, e) \in e..Len(response)
  BY <1>4, FindBounds
<1> QED
  BY <1>2, <1>3, <1>4, <1>5

(* The search is within the page, and the results are within their limit.  *)
SearchBounds ==
  /\ response \in Seq(Strings)
  /\ pos \in 1..(Len(response) + 1)
  /\ Len(results) \in 0..MaxResults
  /\ \E S : results \in Seq(S)

(* What the step of the loop keeps, and what it does if it is one that     *)
(* does not go round.                                                      *)
LEMMA SearchMoves ==
  ASSUME SearchBounds, SearchNext
  PROVE  SearchBounds' /\ (~GoesRound => MovesOn)
<1>1. /\ response \in Seq(Strings) /\ pos \in 1..(Len(response) + 1) /\ pos \in Nat
      /\ Len(response) \in Nat /\ MaxResults \in Nat
      /\ Len(results) \in 0..MaxResults
  <2>1. MaxResults \in Nat
    BY WebSearchAssumption
  <2>2. /\ response \in Seq(Strings) /\ pos \in 1..(Len(response) + 1)
        /\ Len(results) \in 0..MaxResults
    BY DEF SearchBounds
  <2>3. Len(response) \in Nat
    BY <2>2
  <2> QED
    BY <2>1, <2>2, <2>3
<1>2. PICK S : results \in Seq(S)
  BY DEF SearchBounds
<1>3. CASE Full
  BY <1>3 DEF Full, SearchBounds, MovesOn
<1>4. CASE Search
  <2>1. PICK aPos, aTagStart, aTagEnd, contentEnd :
          /\ aPos = Find({"result__a"}, pos) /\ aTagStart = TagStart(aPos)
          /\ aTagEnd = TagEnd(aTagStart) /\ contentEnd = ContentEnd(aTagEnd)
          /\ \/ Break(aPos, aTagStart, contentEnd)
             \/ SkipName(aPos, aTagStart)
             \/ TakeAnchor(aTagStart, aTagEnd, contentEnd)
    BY <1>4 DEF Search
  <2>2. aPos # 0 => aPos \in pos..Len(response) /\ response[aPos] = "result__a"
    <3>1. Find({"result__a"}, pos) # 0 =>
            /\ Find({"result__a"}, pos) \in pos..Len(response)
            /\ response[Find({"result__a"}, pos)] \in {"result__a"}
      BY <1>1, FindBounds
    <3> QED
      BY <2>1, <3>1
  <2>3. CASE Break(aPos, aTagStart, contentEnd)
    BY <2>3 DEF Break, SearchBounds, MovesOn
  <2>4. CASE SkipName(aPos, aTagStart)
    <3>1. aPos # 0 /\ pos' = aPos + 1 /\ UNCHANGED <<response, results>>
      BY <2>4 DEF SkipName
    <3>2. pos' \in 1..(Len(response) + 1) /\ pos' > pos
      BY <1>1, <2>2, <3>1
    <3> QED
      BY <1>1, <1>2, <3>1, <3>2 DEF SearchBounds, MovesOn
  <2>5. CASE TakeAnchor(aTagStart, aTagEnd, contentEnd)
    <3> DEFINE r == Result(aTagStart, aTagEnd, contentEnd)
    <3>1. /\ Len(results) < MaxResults /\ contentEnd # 0 /\ pos' = contentEnd + 1
          /\ results' = IF r.title \/ r.url THEN Append(results, r) ELSE results
          /\ response' = response
      BY <2>5 DEF TakeAnchor, Searching
    <3>2. aPos # 0
      BY <2>1, <3>1, FindBehindNothing
    <3>3. aTagStart \in Nat
      <4>1. aPos \in Nat
        BY <1>1, <2>2, <3>2
      <4> QED
        BY <2>1, <4>1, TagStartType
    <3>4. contentEnd \in 1..Len(response)
      BY <1>1, <2>1, <3>1, <3>3, ContentEndBounds
    <3>5. ASSUME NEW x
          PROVE  /\ Append(results, x) \in Seq(S \cup {x})
                 /\ Len(Append(results, x)) = Len(results) + 1
      <4>1. results \in Seq(S \cup {x})
        BY <1>2
      <4> QED
        BY <4>1, AppendProperties
    <3>6. contentEnd \in 1..(aPos - 1) => GoesRound \/ r.title \/ r.url
      <4>1. aPos \in DOMAIN response
        BY <1>1, <2>2, <3>2
      <4> QED
        BY <2>1, <2>2, <3>2, <4>1 DEF GoesRound
    <3> HIDE DEF r
    <3>7. (\E T : results' \in Seq(T)) /\ Len(results') \in 0..MaxResults
      <4>1. CASE r.title \/ r.url
        <5>1. results' \in Seq(S \cup {r}) /\ Len(results') = Len(results) + 1
          BY <3>1, <3>5, <4>1
        <5>2. Len(results) + 1 \in 0..MaxResults
          BY <1>1, <3>1
        <5> QED
          BY <5>1, <5>2
      <4>2. CASE ~(r.title \/ r.url)
        BY <1>1, <1>2, <3>1, <4>2
      <4> QED
        BY <4>1, <4>2
    <3>8. pos' \in 1..(Len(response) + 1)
      BY <1>1, <3>1, <3>4
    <3>9. ASSUME ~GoesRound PROVE MovesOn
      <4>1. CASE r.title \/ r.url
        <5>1. Len(results') = Len(results) + 1
          BY <3>1, <3>5, <4>1
        <5>2. Len(results') > Len(results)
          BY <1>1, <5>1
        <5> QED
          BY <5>2 DEF MovesOn
      <4>2. CASE ~(r.title \/ r.url)
        <5>1. contentEnd \notin 1..(aPos - 1)
          BY <3>6, <3>9, <4>2
        <5>2. pos' > pos
          BY <1>1, <2>2, <3>1, <3>2, <3>4, <5>1
        <5> QED
          BY <3>1, <4>2, <5>2 DEF MovesOn
      <4> QED
        BY <4>1, <4>2
    <3> QED
      BY <1>1, <3>1, <3>7, <3>8, <3>9 DEF SearchBounds
  <2> QED
    BY <2>1, <2>3, <2>4, <2>5
<1> QED
  BY <1>3, <1>4 DEF SearchNext

LEMMA BoundsCorrect == SearchSpec => []SearchBounds
<1>1. SearchInit => SearchBounds
  <2> SUFFICES ASSUME SearchInit PROVE SearchBounds
    OBVIOUS
  <2>1. page \in Seq(Seq(Strings)) /\ response = FlattenSeq(page)
    BY SearchInit_Inv DEF SearchInv
  <2>2. response \in Seq(Strings)
    BY <2>1, PiecesLaidOut DEF Layout
  <2>3. pos = 1 /\ results = <<>> /\ MaxResults \in Nat
    BY WebSearchAssumption DEF SearchInit
  <2>4. Len(response) \in Nat /\ <<>> \in Seq({})
    BY <2>2
  <2> QED
    BY <2>2, <2>3, <2>4 DEF SearchBounds
<1>2. SearchBounds /\ [SearchNext]_searchVars => SearchBounds'
  <2>1. ASSUME SearchBounds, UNCHANGED searchVars PROVE SearchBounds'
    BY <2>1 DEF SearchBounds, searchVars
  <2> QED
    BY <2>1, SearchMoves
<1> QED
  BY <1>1, <1>2, PTL DEF SearchSpec

(* On a regular page a class name is within a tag: the search finds this   *)
(* tag, and its anchor ends behind the name.                               *)
LEMMA RegularGoesOn ==
  ASSUME page \in Seq(Seq(Strings)), response = FlattenSeq(page), Regular
  PROVE  ~GoesRound
<1>1. PICK o : Layout(page, response, o)
  BY PiecesLaidOut
<1>2. /\ Len(page) \in Nat /\ o[1] = 0
      /\ response \in Seq(Strings) /\ o[Len(page) + 1] = Len(response)
      /\ \A j \in 1..Len(page) : page[j] \in Seq(Strings) /\ Len(page[j]) \in Nat
  BY <1>1, Offsets
<1>3. SUFFICES ASSUME NEW i \in DOMAIN response, response[i] = "result__a",
                      ContentEnd(TagEnd(TagStart(i))) \in 1..(i - 1)
               PROVE  FALSE
  BY DEF GoesRound
<1>4. PICK n \in 1..Len(page) : \E k \in 1..Len(page[n]) : i = o[n] + k /\ response[i] = page[n][k]
  <2>1. PICK u \in 1..(Len(page) + 1), v \in 1..(Len(page) + 1) : u = 1 /\ v = Len(page) + 1
    BY <1>2
  <2>2. i \in (o[u] + 1)..o[v]
    BY <1>2, <2>1
  <2>3. \E n \in u..(v - 1) : \E k \in 1..Len(page[n]) : i = o[n] + k /\ response[i] = page[n][k]
    BY <1>1, <2>2, PieceOf
  <2>4. v - 1 = Len(page)
    BY <1>2, <2>1
  <2> QED
    BY <2>1, <2>3, <2>4, Zenon
<1>5. PICK k \in 1..Len(page[n]) : i = o[n] + k /\ response[i] = page[n][k]
  BY <1>4
<1>6. Has(page[n], "result__a")
  BY <1>2, <1>3, <1>5 DEF Has
<1>7. PICK g \in Nat : TagEndsAt(page[n], g)
  BY <1>6, RegularNames, AnchorTag DEF IsResult
<1>8. PICK a, b : a = o[n] /\ b = o[n + 1]
  OBVIOUS
<1>9. a \in Nat /\ b \in Nat /\ a + g < b
  BY <1>1, <1>7, <1>8, AnchorAt
<1>10. k \in 1..g
  <2>1. page[n][k] = "result__a"
    BY <1>3, <1>5
  <2>2. /\ page[n][Len(page[n])] = "</a>"
        /\ \A z \in (g + 1)..(Len(page[n]) - 1) : page[n][z] \in {"text", ">"}
    BY <1>7 DEF TagEndsAt
  <2>3. PICK l \in Nat : l = Len(page[n])
    BY <1>2
  <2>4. k # l /\ k \notin (g + 1)..(l - 1) /\ k \in 1..l
    BY <2>1, <2>2, <2>3
  <2> QED
    BY <2>3, <2>4
<1>11. i \in (a + 1)..(a + g) /\ i = a + k
  BY <1>5, <1>8, <1>9, <1>10, SMTT(30)
<1>12. /\ \A q \in (a + 1)..(a + g) : TagStart(q) = a + 1
       /\ TagEnd(a + 1) = a + g /\ ContentEnd(a + g) = b
  BY <1>1, <1>7, <1>8, AnchorFound
<1>13. ContentEnd(TagEnd(TagStart(i))) = b
  BY <1>11, <1>12
<1> QED
  BY <1>3, <1>9, <1>10, <1>11, <1>13

(* Unless the page leads it round, no iteration of the loop is lost: it    *)
(* leaves the loop, pushes a result or goes forward in the page.  Since    *)
(* neither can be done for ever, the loop ends.                            *)
THEOREM SearchMovesOn ==
  SearchSpec => []SearchBounds /\ [][~GoesRound => MovesOn]_searchVars
<1>1. SearchBounds /\ [SearchNext]_searchVars => [~GoesRound => MovesOn]_searchVars
  BY SearchMoves
<1> QED
  BY <1>1, BoundsCorrect, PTL DEF SearchSpec

(* A regular page never leads the search round.                            *)
THEOREM RegularReturns == SearchSpec => [](Regular => ~GoesRound)
<1>1. SearchInv => (Regular => ~GoesRound)
  BY RegularGoesOn DEF SearchInv
<1>2. SearchInit => SearchInv
  BY SearchInit_Inv
<1>3. SearchInv /\ [SearchNext]_searchVars => SearchInv'
  BY SearchNext_Inv
<1> QED
  BY <1>1, <1>2, <1>3, PTL DEF SearchSpec

=============================================================================
