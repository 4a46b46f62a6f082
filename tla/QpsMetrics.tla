------------------------------ MODULE QpsMetrics ------------------------------
(***************************************************************************)
(* QpsMetricsMiddleware: requests of every event loop leave their time     *)
(* stamps in one shared deque; GET /metrics turns the deque into rates     *)
(* over several windows.  The clock is read before the mutex is locked,    *)
(* and reading a window pops, for everybody, the hits that are too old for *)
(* it.  Only requests that get this far count: the middleware in front,    *)
(* CORS, answers preflights itself.                                        *)
(***************************************************************************)
EXTENDS Integers, Sequences

CONSTANTS Threads,      \* event loops
          Windows,      \* the windows /metrics asks for, in its order
          Kept,         \* the time before() keeps hits for
          MaxRequests,  \* bound: requests
          MaxTime       \* bound: time

ASSUME QpsMetricsAssumption ==
  /\ Windows \in Seq(Nat \ {0}) /\ Windows # <<>>
  /\ Kept \in Nat \ {0} /\ MaxRequests \in Nat /\ MaxTime \in Nat

VARIABLES
  clock,     \* nowMs()
  gTotal,
  gHits,     \* time stamps, oldest entry first
  req,       \* req[t]: the request thread t serves
  recorded,  \* every time stamp ever pushed, in the order of the pushes
  reach      \* the highest cutoff hits were purged with

vars == <<clock, gTotal, gHits, req, recorded, reach>>

Free == [at |-> "idle", metrics |-> FALSE, ts |-> 0, rates |-> <<>>]

Init ==
  /\ clock = 0 /\ gTotal = 0 /\ gHits = <<>> /\ recorded = <<>> /\ reach = 0
  /\ req = [t \in Threads |-> Free]

At(t, l) == req[t].at = l
Goto(t, l) == req' = [req EXCEPT ![t].at = l]

Tick ==
  /\ clock < MaxTime
  /\ clock' = clock + 1
  /\ UNCHANGED <<gTotal, gHits, req, recorded, reach>>

(* A bug: <= for <.                                                        *)
PurgeOld_Inclusive(hits, cutoff) ==
  /\ \E n \in 0..Len(hits) :
       /\ \A i \in 1..n : hits[i] <= cutoff
       /\ n < Len(hits) => hits[n + 1] > cutoff
       /\ gHits' = SubSeq(hits, n + 1, Len(hits))
  /\ reach' = IF cutoff > reach THEN cutoff ELSE reach

(* Pops hits from the front up to the first that is not older.             *)
PurgeOld(hits, cutoff) ==
  /\ \E n \in 0..Len(hits) :
       /\ \A i \in 1..n : hits[i] < cutoff
       /\ n < Len(hits) => hits[n + 1] >= cutoff
       /\ gHits' = SubSeq(hits, n + 1, Len(hits))
  /\ reach' = IF cutoff > reach THEN cutoff ELSE reach

-----------------------------------------------------------------------------
(* before(), for a request that CORS lets through                          *)

Before(t, metrics) ==
  /\ At(t, "idle")
  /\ gTotal < MaxRequests
  /\ gTotal' = gTotal + 1
  /\ req' = [req EXCEPT ![t].at = "stamp", ![t].metrics = metrics]
  /\ UNCHANGED <<clock, gHits, recorded, reach>>

Stamp(t) ==
  /\ At(t, "stamp")
  /\ req' = [req EXCEPT ![t].at = "record", ![t].ts = clock]
  /\ UNCHANGED <<clock, gTotal, gHits, recorded, reach>>

Record(t) ==
  /\ At(t, "record")
  /\ recorded' = Append(recorded, req[t].ts)
  /\ PurgeOld(Append(gHits, req[t].ts), req[t].ts - Kept)
  /\ IF req[t].metrics THEN Goto(t, "now") ELSE req' = [req EXCEPT ![t] = Free]
  /\ UNCHANGED <<clock, gTotal>>

-----------------------------------------------------------------------------
(* getMetricsJson: getQps for one window after the other                   *)

ReadClock(t) ==
  /\ At(t, "now")
  /\ req' = [req EXCEPT ![t].at = "count", ![t].ts = clock]
  /\ UNCHANGED <<clock, gTotal, gHits, recorded, reach>>

(* hits requests in a span of time; 0.0 is written as none in one unit.    *)
NoRate == [hits |-> 0, span |-> 1]

(* A bug: a deque that is not empty is taken to have a span.               *)
Rate_Unguarded(hits, now) ==
  IF hits = <<>> THEN NoRate ELSE [hits |-> Len(hits), span |-> now - Head(hits)]

Rate(hits, now) ==
  IF hits = <<>> \/ now - Head(hits) <= 0 THEN NoRate
  ELSE [hits |-> Len(hits), span |-> now - Head(hits)]

Window(t) == Windows[Len(req[t].rates) + 1]

(* A bug: one window too many.                                             *)
Count_OneMore(t) ==
  /\ At(t, "count")
  /\ PurgeOld(gHits, req[t].ts - Window(t))
  /\ req' = [req EXCEPT
       ![t].at = IF Len(req[t].rates) < Len(Windows) THEN "now" ELSE "reply",
       ![t].rates = Append(@, Rate(gHits', req[t].ts))]
  /\ UNCHANGED <<clock, gTotal, recorded>>

Count(t) ==
  /\ At(t, "count")
  /\ PurgeOld(gHits, req[t].ts - Window(t))
  /\ req' = [req EXCEPT
       ![t].at = IF Len(req[t].rates) + 1 < Len(Windows) THEN "now" ELSE "reply",
       ![t].rates = Append(@, Rate(gHits', req[t].ts))]
  /\ UNCHANGED <<clock, gTotal, recorded>>

Reply(t) ==
  /\ At(t, "reply")
  /\ req' = [req EXCEPT ![t] = Free]
  /\ UNCHANGED <<clock, gTotal, gHits, recorded, reach>>

Next ==
  \/ Tick
  \/ \E t \in Threads :
       \/ \E metrics \in BOOLEAN : Before(t, metrics)
       \/ Stamp(t) \/ Record(t) \/ ReadClock(t) \/ Count(t) \/ Reply(t)

Spec == Init /\ [][Next]_vars

-----------------------------------------------------------------------------
Places == {"idle", "stamp", "record", "now", "count", "reply"}
RateSet == [hits : Nat, span : Int]

RequestSet == [at : Places, metrics : BOOLEAN, ts : Nat, rates : Seq(RateSet)]
RequestOK(r) ==
  /\ r.at \in {"idle", "stamp", "record"} => r.rates = <<>>
  /\ Len(r.rates) <= Len(Windows)
  /\ r.at \in {"now", "count"} => Len(r.rates) < Len(Windows)

(* Types, and that a window is read only if there is one left.             *)
TypeOK ==
  /\ clock \in Nat /\ gTotal \in 0..MaxRequests
  /\ gHits \in Seq(Nat) /\ recorded \in Seq(Nat) /\ reach \in Nat
  /\ req \in [Threads -> RequestSet]
  /\ \A t \in Threads : RequestOK(req[t])

(* How many hits purgeOld has popped: they are the first of recorded.      *)
Popped == Len(recorded) - Len(gHits)

(* The deque is what was pushed last, without a gap, and what is missing   *)
(* is older than some cutoff in use: neither a delayed push nor two        *)
(* readers with different windows make anything younger disappear.         *)
OnlyOldIsLost ==
  /\ Popped \in Nat
  /\ \A i \in 1..Len(gHits) : gHits[i] = recorded[Popped + i]
  /\ \A i \in 1..Popped : recorded[i] < reach

(* A rate is over a span that is neither empty, nor negative (a hit may be *)
(* younger than the reader's clock), nor longer than the window.           *)
SpansFitWindows ==
  \A t \in Threads : \A k \in 1..Len(req[t].rates) :
    req[t].rates[k].span \in 1..Windows[k]

=============================================================================
