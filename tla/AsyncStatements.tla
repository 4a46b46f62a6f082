--------------------------- MODULE AsyncStatements ---------------------------
(***************************************************************************)
(* What the handlers may expect of a SQL statement they publish and do not *)
(* wait for: it is executed at least once, at any later time and in any    *)
(* order with the others, unless the broker loses it.  The statements are  *)
(* those of one user on chat_message: an "insert" adds a row to a session, *)
(* a "delete" removes every row of a session.                              *)
(***************************************************************************)
EXTENDS Naturals, Sequences

CONSTANTS Sessions

VARIABLES log,          \* the statements in the order of publication
          outstanding,  \* positions of log that may still be executed
          applied,      \* applied[i]: how often statement i was executed
          rows,         \* rows[i]: how many rows of statement i the table has
          lost          \* positions a restart of the broker made unreliable

vars == <<log, outstanding, applied, rows, lost>>

Statements == [kind : {"insert", "delete"}, session : Sessions]

Init ==
  /\ log = <<>>
  /\ outstanding = {}
  /\ applied = <<>>
  /\ rows = <<>>
  /\ lost = {}

Record(sql) ==
  /\ log' = Append(log, sql)
  /\ applied' = Append(applied, 0)
  /\ rows' = Append(rows, 0)

(* The broker accepts a published statement.                               *)
Submit(sql) ==
  /\ Record(sql)
  /\ outstanding' = outstanding \cup {Len(log) + 1}
  /\ UNCHANGED lost

(* There is no queue yet: the broker drops it silently.                    *)
SubmitToNobody(sql) ==
  /\ Record(sql)
  /\ lost' = lost \cup {Len(log) + 1}
  /\ UNCHANGED outstanding

(* What executing statement i does to the table.                           *)
RowsAfter(i) ==
  IF log[i].kind = "insert"
  THEN [rows EXCEPT ![i] = @ + 1]
  ELSE [j \in DOMAIN rows |-> IF log[j].session = log[i].session THEN 0 ELSE rows[j]]

(* An outstanding statement is executed, and forgotten then or later.      *)
Apply(i) ==
  /\ i \in outstanding
  /\ applied' = [applied EXCEPT ![i] = @ + 1]
  /\ rows' = RowsAfter(i)
  /\ outstanding' \in {outstanding, outstanding \ {i}}
  /\ UNCHANGED <<log, lost>>

(* Statements are forgotten only when executed or lost.                    *)
Settle(S) ==
  /\ \A i \in S : applied[i] > 0 \/ i \in lost
  /\ outstanding' = outstanding \ S
  /\ UNCHANGED <<log, applied, rows, lost>>

(* A restart of the broker: none of what was outstanding is sure to run.   *)
Lose ==
  /\ lost' = lost \cup outstanding
  /\ outstanding' \in SUBSET outstanding
  /\ UNCHANGED <<log, applied, rows>>

Next ==
  \/ \E sql \in Statements : Submit(sql) \/ SubmitToNobody(sql)
  \/ \E i \in outstanding : Apply(i)
  \/ \E S \in SUBSET outstanding : Settle(S)
  \/ Lose

Spec == Init /\ [][Next]_vars

=============================================================================
