----------------------------- MODULE MCSqlQueue -----------------------------
(* Two publishers on two channels, two workers: statements overtake each   *)
(* other, workers die and the process or the broker restarts meanwhile.    *)
EXTENDS SqlQueue

(* Two messages of a session are written, then the session is deleted.     *)
CONSTANT s1
Insert == [kind |-> "insert", session |-> s1]
Delete == [kind |-> "delete", session |-> s1]
WriteWriteDelete == <<Insert, Insert, Delete>>

=============================================================================
