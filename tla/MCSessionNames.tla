---------------------------- MODULE MCSessionNames ----------------------------
(* Two requests at a time on a session stored with a question and a new     *)
(* one; names that blanks make empty.                                      *)
EXTENDS SessionNames, TLC

CONSTANTS s1, s2, n1, blank

OldSession == <<s1>>
Trimmed == [raw \in Inputs |-> IF raw = blank THEN NoName ELSE raw]

Symmetric == Permutations(Threads)

=============================================================================
