-------------------------- MODULE MCConversationRun --------------------------
(* A response holds the call "edit", then perhaps "read", which may be rerun. *)
EXTENDS ConversationRun
EditRead == <<"edit", "read">>
OneEdit == <<"edit">>
Read == {"read"}
Nothing == {}
=============================================================================
