--------------------------- MODULE MCConversation ---------------------------
(* Two texts, a request and a reset keyword in one session, two at a time. *)
EXTENDS Conversation
=============================================================================
