--------------------------- MODULE MCConversation ---------------------------
(* An instance of Conversation for TLC: a window of three messages and a     *)
(* limit of sixteen tokens, so that a session compacts more than once.       *)
EXTENDS Conversation

MCResultSizes == {1, 5}
MCSummarySizes == {1, 3}
=============================================================================
