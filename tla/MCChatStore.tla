----------------------------- MODULE MCChatStore -----------------------------
(* Two requests at a time on a stored session, whose row may be there      *)
(* twice, and a new one, with one exception, restart or repeated execution *)
(* (MCChatStore.cfg); loads of two stored messages (MCChatStoreLoaders.cfg)*)
EXTENDS ChatStore, TLC

CONSTANTS s1, s2

OldSession == <<s1, s1>>
OneMessage == <<s1>>

Symmetric == Permutations(Threads)

=============================================================================
