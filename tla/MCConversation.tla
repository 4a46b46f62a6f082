--------------------------- MODULE MCConversation ---------------------------
(* Two turns of any kinds, with an exception and a page that does not wait. *)
EXTENDS Conversation

=============================================================================
