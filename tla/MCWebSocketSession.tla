------------------------- MODULE MCWebSocketSession -------------------------
(***************************************************************************)
(* Model-checking instance of WebSocketSession.                            *)
(***************************************************************************)
EXTENDS WebSocketSession

=============================================================================
