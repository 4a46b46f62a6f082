--------------------------- MODULE MCHttpSession ---------------------------
EXTENDS HttpSession, TLC

Symmetric == Permutations(Threads) \cup Permutations(Users)

=============================================================================
