--------------------------- MODULE MCContextView ---------------------------
(* One file that is read again and again; results whose reduction pays off  *)
(* at once, only after a pause, or never; models with and without a cache   *)
(* that survives the pause.                                                 *)
EXTENDS ContextView
=============================================================================
