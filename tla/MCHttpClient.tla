---------------------------- MODULE MCHttpClient ----------------------------
(***************************************************************************)
(* The HTTP client for TLC.                                                *)
(***************************************************************************)
EXTENDS HttpClient, TLC

CONSTANTS c1, c2

\* Either may come first and leave its connection to the other
MCRequests == c1 :> {"get"} @@ c2 :> {"post", "bad_url"}

=============================================================================
