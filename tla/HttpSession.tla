---------------------------- MODULE HttpSession ----------------------------
(***************************************************************************)
(* The server's HTTP connections: include/cppgate/HttpSession.h, the       *)
(* registry they share (SessionRegistry.h) and the upgrade that hands a    *)
(* connection to a WebSocketSession.                                       *)
(*                                                                         *)
(* A session is a chain of handlers on its strand, a FIFO queue of tasks.  *)
(* Each handler starts at most one asynchronous operation of the stream,   *)
(* whose completion is the next task; on_stop() is posted between them by  *)
(* another thread.  The stream (Beast, OpenSSL, the client) is external:   *)
(* an operation completes with some of what it waits for ("ok"), with the  *)
(* end of the stream ("eof"), a failure ("error") or because it was        *)
(* cancelled ("aborted").  What the bytes mean is the handler's choice     *)
(* among the outcomes the parser has.                                      *)
(***************************************************************************)
EXTENDS Integers, Sequences, FiniteSets, SequencesExt

CONSTANT Connections

VARIABLES
    mode,        \* the protocols of Listener::run(): "plain", "ssl" or "both"
    session,     \* one HttpSession per connection, see Fresh
    ws,          \* the WebSocketSession the connection was handed to
    items_,      \* SessionRegistry: <<connection, "http" or "ws">>
    stopping_    \* SessionRegistry

httpVars == <<mode, session, ws, items_, stopping_>>

Operations == {"detect", "handshake", "header", "continue", "body", "write",
               "shutdown", "linger"}

Results == {"ok", "eof", "error", "aborted"}

\* The operations that read a request
Requests == {"header", "body"}

Task(op, res) == [op |-> op, res |-> res]

Tasks == [op : Operations, res : Results]
         \cup {Task(op, "ok") : op \in {"on_run", "on_stop", "do_write"}}

Fresh ==
    [life           |-> "none",    \* none, accepted, launching, live, gone
     strand         |-> <<>>,      \* tasks waiting, first = next to run
     ops            |-> {},        \* asynchronous operations outstanding
     timer          |-> "armed",   \* expires_after(): armed, passed, closed
     tls            |-> mode = "ssl",  \* stream_ holds the TLS stream
     swapping       |-> FALSE,     \* stream_ is being replaced
     waiting_       |-> FALSE,
     parser_        |-> "none",    \* none, empty, some = got_some()
     response_queue_ |-> <<>>,     \* keep_alive() of each response
     keep_alive     |-> FALSE,     \* ... of the response being written, on_write()'s
     linger_        |-> FALSE,
     lingering_     |-> FALSE,
     answered       |-> FALSE,     \* a response was written
     late           |-> 0]         \* responses written while stopping

HttpInit ==
    /\ session = [c \in Connections |-> Fresh]
    /\ ws = [c \in Connections |-> "none"]
    /\ items_ = {}
    /\ stopping_ = FALSE

(***************************************************************************)
(* Steps shared by the handlers, on the session r                          *)
(***************************************************************************)
Start(r, op) == [r EXCEPT !.ops = @ \cup {op}]

Post(r, op) == [r EXCEPT !.strand = Append(@, Task(op, "ok"))]

\* expires_after(): a stream closed by a timeout stays closed
Rearm(r) == [r EXCEPT !.timer = IF @ = "closed" THEN @ ELSE "armed"]

\* do_read(): what buffer_ already holds ("none", "part" or "whole" of the
\* header) is parsed at once
DoRead(r, buffered) ==
    LET reading == [Rearm(r) EXCEPT
                      !.waiting_ = TRUE,
                      !.parser_ = IF buffered = "none" THEN "empty" ELSE "some"]
    IN  IF buffered = "whole" THEN Post(reading, "header") ELSE Start(reading, "header")

\* queue_write() and its do_write(), which posts the write
QueueWrite(r, keep) ==
    LET queued == [r EXCEPT !.response_queue_ = Append(@, keep)]
    IN  IF Len(queued.response_queue_) = 1 THEN Post(queued, "do_write") ELSE queued

SendError(r) == QueueWrite([r EXCEPT !.linger_ = TRUE], FALSE)

DoLinger(r) == Start([Rearm(r) EXCEPT !.lingering_ = TRUE], "linger")

\* do_eof(): drain, TLS shutdown, or nothing left to do
DoEof(r) ==
    CASE r.linger_ -> DoLinger(r)
      [] ~r.linger_ /\ r.tls -> Start(Rearm(r), "shutdown")
      [] OTHER -> r

\* A handler for op with one of the results is the next task; running it
\* takes it off the strand, and leaves the session as r
Running(c, op, results) ==
    /\ ~session[c].swapping
    /\ session[c].strand # <<>>
    /\ Head(session[c].strand).op = op
    /\ Head(session[c].strand).res \in results

Rest(c) == [session[c] EXCEPT !.strand = Tail(@)]

Failed == Results \ {"ok"}

Become(c, r) ==
    /\ session' = [session EXCEPT ![c] = r]
    /\ UNCHANGED <<mode, ws, items_, stopping_>>

(***************************************************************************)
(* Faulty variants.  Each changes one definition below the way a slip in   *)
(* the code would; they are not part of the specification and only show    *)
(* that the properties can fail.                                           *)
(***************************************************************************)
\* on_stop() that forgets got_some()
OnStopCutsRequests(c) ==
    /\ Running(c, "on_stop", {"ok"})
    /\ LET r == Rest(c)
       IN  Become(c, IF r.lingering_ \/ r.waiting_
                     THEN [r EXCEPT !.ops = {},
                                    !.strand = @ \o SetToSeq({Task(op, "aborted") : op \in r.ops})]
                     ELSE r)

\* on_stop() that leaves an idle connection to its timeout
OnStopPatient(c) ==
    /\ Running(c, "on_stop", {"ok"})
    /\ Become(c, Rest(c))

\* on_read() that reads the next request before this one is answered
OnRequestPipelines(c, keep) ==
    /\ Running(c, "body", {"ok"})
    /\ LET r == [Rest(c) EXCEPT !.waiting_ = FALSE]
       IN  Become(c, DoRead(QueueWrite(r, keep /\ ~stopping_), "none"))

\* on_linger() that starts the timeout again for every piece
OnLingerRearms(c) ==
    /\ Running(c, "linger", {"ok"})
    /\ Become(c, DoLinger(Rest(c)))

(***************************************************************************)
(* Handlers, on the strand                                                 *)
(***************************************************************************)
\* Only a session that waits for the client with nothing received, or that
\* lingers, is cut short
OnStop(c) ==
    /\ Running(c, "on_stop", {"ok"})
    /\ LET r == Rest(c)
       IN  Become(c, IF r.lingering_ \/ (r.waiting_ /\ r.parser_ # "some")
                     THEN [r EXCEPT !.ops = {},
                                    !.strand = @ \o SetToSeq({Task(op, "aborted") : op \in r.ops})]
                     ELSE r)

OnRun(c) ==
    /\ Running(c, "on_run", {"ok"})
    /\ LET r == [Rearm(Rest(c)) EXCEPT !.waiting_ = TRUE]
       IN  Become(c, Start(r, IF r.tls THEN "handshake" ELSE "detect"))

\* async_detect_ssl or async_handshake needs more bytes
OnBytes(c) ==
    \E op \in {"detect", "handshake"} :
        /\ Running(c, op, {"ok"})
        /\ Become(c, Start(Rest(c), op))

\* on_detect() and on_handshake() with an error
OnStartFailed(c) ==
    \E op \in {"detect", "handshake"} :
        /\ Running(c, op, Failed)
        /\ Become(c, [Rest(c) EXCEPT !.waiting_ = FALSE])

\* on_detect(): not TLS; what was read is the start of the request
OnDetectPlain(c, buffered) ==
    /\ Running(c, "detect", {"ok"})
    /\ buffered # "none"
    /\ Become(c, DoRead([Rest(c) EXCEPT !.waiting_ = FALSE], buffered))

\* on_detect(): a TLS client on a listener without HTTPS
OnDetectRefused(c) ==
    /\ Running(c, "detect", {"ok"})
    /\ mode = "plain"
    /\ Become(c, [Rest(c) EXCEPT !.waiting_ = FALSE])

\* on_detect(): TLS; on_ssl_session() begins to replace stream_ ...
OnDetectTls(c) ==
    /\ Running(c, "detect", {"ok"})
    /\ mode = "both"
    /\ Become(c, [Rest(c) EXCEPT !.waiting_ = FALSE, !.swapping = TRUE])

\* ... and starts the handshake on the new one
OnSslSession(c) ==
    /\ session[c].swapping
    /\ LET r == [Rearm(session[c]) EXCEPT !.swapping = FALSE, !.tls = TRUE, !.waiting_ = TRUE]
       IN  Become(c, Start(r, "handshake"))

OnHandshake(c) ==
    /\ Running(c, "handshake", {"ok"})
    /\ Become(c, DoRead([Rest(c) EXCEPT !.waiting_ = FALSE], "none"))

\* The header or the body is not complete yet
OnMore(c) ==
    \E op \in Requests :
        /\ Running(c, op, {"ok"})
        /\ Become(c, Start([Rest(c) EXCEPT !.parser_ = "some"], op))

\* on_read_header(): the body next, after 100 Continue if the client waits
OnReadHeader(c, expect) ==
    /\ Running(c, "header", {"ok"})
    /\ Become(c, Start([Rest(c) EXCEPT !.parser_ = "some"],
                       IF expect THEN "continue" ELSE "body"))

OnContinue(c) ==
    /\ Running(c, "continue", Results)
    /\ Become(c, IF Head(session[c].strand).res = "ok"
                 THEN Start(Rest(c), "body")
                 ELSE Rest(c))

\* on_read(): the parser refused the request (400, 413, 414, 431)
OnReadRefused(c) ==
    \E op \in Requests :
        /\ Running(c, op, {"ok"})
        /\ Become(c, SendError([Rest(c) EXCEPT !.waiting_ = FALSE, !.parser_ = "some"]))

\* on_read(): the client closed, between requests or in the middle of one
OnReadEnd(c) ==
    \E op \in Requests :
        /\ Running(c, op, {"eof"})
        /\ LET r == [Rest(c) EXCEPT !.waiting_ = FALSE]
           IN  Become(c, IF r.parser_ = "some" THEN r ELSE DoEof(r))

\* on_read(): timeout, reset or stopped, nobody to answer
OnReadFailed(c) ==
    \E op \in Requests :
        /\ Running(c, op, {"error", "aborted"})
        /\ Become(c, [Rest(c) EXCEPT !.waiting_ = FALSE])

\* on_read(): routed; the response keeps the connection unless stopping
OnRequest(c, keep) ==
    /\ Running(c, "body", {"ok"})
    /\ Become(c, QueueWrite([Rest(c) EXCEPT !.waiting_ = FALSE], keep /\ ~stopping_))

\* on_read(): an upgrade; WebSocketSession::run() registers the new session
\* and accepts or refuses, or answers 503 when the server is stopping
OnUpgrade(c, accepted) ==
    /\ Running(c, "body", {"ok"})
    /\ session' = [session EXCEPT ![c] = [Rest(c) EXCEPT !.waiting_ = FALSE]]
    /\ ws' = [ws EXCEPT ![c] = IF accepted /\ ~stopping_ THEN "live" ELSE "rejecting"]
    /\ items_' = IF stopping_ THEN items_ ELSE items_ \cup {<<c, "ws">>}
    /\ UNCHANGED <<mode, stopping_>>

\* The task do_write() posts
DoWrite(c) ==
    /\ Running(c, "do_write", {"ok"})
    /\ LET r == Rest(c)
       IN  Become(c, IF r.response_queue_ = <<>>
                     THEN r
                     ELSE Start([r EXCEPT !.response_queue_ = Tail(@),
                                          !.keep_alive = Head(r.response_queue_)], "write"))

\* A response was written, while stopping or before
Answered(r) ==
    [r EXCEPT !.answered = TRUE,
              !.keep_alive = FALSE,
              !.late = IF stopping_ THEN IF @ = 0 THEN 1 ELSE 2 ELSE @]

\* on_write(): the next request
OnWrite(c, buffered) ==
    /\ Running(c, "write", {"ok"})
    /\ session[c].response_queue_ = <<>>
    /\ session[c].keep_alive
    /\ ~stopping_
    /\ Become(c, DoRead(Answered(Rest(c)), buffered))

\* on_write(): the next queued response, or the end of the connection
OnWriteLast(c) ==
    /\ Running(c, "write", {"ok"})
    /\ \/ session[c].response_queue_ # <<>>
       \/ ~session[c].keep_alive
       \/ stopping_
    /\ LET r == Answered(Rest(c))
       IN  Become(c, IF r.response_queue_ # <<>> THEN Post(r, "do_write") ELSE DoEof(r))

OnWriteFailed(c) ==
    /\ Running(c, "write", Failed)
    /\ Become(c, DoEof(Rest(c)))

OnShutdown(c) ==
    /\ Running(c, "shutdown", Results)
    /\ Become(c, Rest(c))

\* on_linger(): discard and read on, under the same deadline
OnLinger(c) ==
    /\ Running(c, "linger", {"ok"})
    /\ Become(c, Start(Rest(c), "linger"))

OnLingerEnd(c) ==
    /\ Running(c, "linger", Failed)
    /\ Become(c, Rest(c))

(***************************************************************************)
(* Stream (external)                                                       *)
(***************************************************************************)
\* The operation completes: progress before its deadline, the end of the
\* stream (a read only) or an error
Completes(c, op, res) ==
    /\ op \in session[c].ops
    /\ res = "ok" => session[c].timer = "armed"
    /\ res = "eof" => op \in Requests /\ session[c].timer = "armed"
    /\ Become(c, [session[c] EXCEPT !.ops = @ \ {op},
                                    !.strand = Append(@, Task(op, res))])

\* The time given by the last expires_after() is over; without a pending
\* operation, the next one fails at once
Expires(c) ==
    /\ session[c].life = "live"
    /\ session[c].timer = "armed"
    /\ Become(c, [session[c] EXCEPT !.timer = "passed"])

\* The stream closes itself and the operation fails
TimesOut(c) ==
    \E op \in session[c].ops :
        /\ session[c].timer # "armed"
        /\ Become(c, [session[c] EXCEPT !.ops = @ \ {op},
                                        !.timer = "closed",
                                        !.strand = Append(@, Task(op, "error"))])

Buffered == {"none", "part", "whole"}

\* One handler of the strand of c
Handler(c) ==
    \/ OnStop(c)
    \/ OnRun(c)
    \/ OnBytes(c)
    \/ OnStartFailed(c)
    \/ \E buffered \in Buffered : OnDetectPlain(c, buffered)
    \/ OnDetectRefused(c)
    \/ OnDetectTls(c)
    \/ OnSslSession(c)
    \/ OnHandshake(c)
    \/ OnMore(c)
    \/ \E expect \in BOOLEAN : OnReadHeader(c, expect)
    \/ OnContinue(c)
    \/ OnReadRefused(c)
    \/ OnReadEnd(c)
    \/ OnReadFailed(c)
    \/ \E keep \in BOOLEAN : OnRequest(c, keep)
    \/ \E accepted \in BOOLEAN : OnUpgrade(c, accepted)
    \/ DoWrite(c)
    \/ \E buffered \in Buffered : OnWrite(c, buffered)
    \/ OnWriteLast(c)
    \/ OnWriteFailed(c)
    \/ OnShutdown(c)
    \/ OnLinger(c)
    \/ OnLingerEnd(c)

Stream(c) ==
    \/ \E op \in Operations, res \in {"ok", "eof", "error"} : Completes(c, op, res)
    \/ Expires(c)
    \/ TimesOut(c)
=============================================================================
