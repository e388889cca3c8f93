------------------------- MODULE MCWebSocketClient -------------------------
(***************************************************************************)
(* Model-checking instance of WebSocketClient.                             *)
(***************************************************************************)
EXTENDS WebSocketClient

Request(valid, tls, reconnect) ==
    [valid |-> valid, tls |-> tls, reconnect |-> reconnect]

\* Reconnecting without TLS, TLS without reconnecting, and a bad URL
MCRequests == {Request(TRUE, FALSE, TRUE), Request(TRUE, TRUE, FALSE),
               Request(FALSE, FALSE, TRUE)}

=============================================================================
