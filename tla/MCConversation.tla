--------------------------- MODULE MCConversation ---------------------------
(* Instances of Conversation.                                                *)
EXTENDS Conversation, TLC

(* An earlier chat; its rows are among those that a window may hold.         *)
MCHistory == {Row("user", "earlier", -1, FALSE), Row("assistant", "earlier", 0, FALSE)}

MCMaxCalls == "a" :> 1 @@ "b" :> 0
=============================================================================
