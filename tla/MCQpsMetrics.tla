----------------------------- MODULE MCQpsMetrics -----------------------------
EXTENDS QpsMetrics, TLC

(* One window below Kept and one above it, as 1 s and 60 s are.            *)
MCWindows == <<1, 3>>

Symmetric == Permutations(Threads)

=============================================================================
