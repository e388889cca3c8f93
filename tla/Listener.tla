------------------------------ MODULE Listener ------------------------------
(***************************************************************************)
(* The server: include/cppgate/Listener.h accepts connections and launches *)
(* an HttpSession for each, and stop(), called from any thread, shuts all  *)
(* of them down through SessionRegistry::stopAll().                        *)
(*                                                                         *)
(* The acceptor has a strand of its own (accepting).  The thread that      *)
(* calls stop() is not on any strand: it runs between the two steps of an  *)
(* on_accept() and between the sessions' handlers.  A connection handed to *)
(* a WebSocketSession is here what that module promises: it lives until    *)
(* the peer ends it or stop() reaches it.                                  *)
(***************************************************************************)
EXTENDS HttpSession

CONSTANTS
    Modes,       \* the protocols to consider
    NoConnection,
    MaxStops     \* bound: calls of Listener::stop()

ASSUME ListenerAssumption ==
    /\ Modes \subseteq {"plain", "ssl", "both"}
    /\ NoConnection \notin Connections
    /\ MaxStops \in Nat

VARIABLES
    is_open,     \* acceptor_.is_open()
    accepting,   \* async_accept operations outstanding
    retrying,    \* accept_retry_timer_ is being waited for
    acceptor,    \* tasks on the acceptor's strand
    launching,   \* the session on_accept() registered, not launched yet
    stops,       \* calls of stop()
    stopper,     \* idle, posted (the close), telling (the sessions), threw
    alive,       \* stopAll(): the sessions it holds
    todo,        \* ... and has not called stop() of yet
    told         \* sessions whose stop() was called

acceptVars == <<is_open, accepting, retrying, acceptor, launching>>
stopVars == <<stops, stopper, alive, todo, told>>
vars == <<httpVars, acceptVars, stopVars>>

\* After run(): the first do_accept() is done
Init ==
    /\ mode \in Modes
    /\ HttpInit
    /\ is_open = TRUE
    /\ accepting = 1
    /\ retrying = FALSE
    /\ acceptor = <<>>
    /\ launching = NoConnection
    /\ stops = 0
    /\ stopper = "idle"
    /\ alive = {}
    /\ todo = {}
    /\ told = {}

AcceptTask(res, c) == [op |-> "on_accept", res |-> res, c |-> c]
RetryTask(res) == [op |-> "retry", res |-> res, c |-> NoConnection]
CloseTask == [op |-> "close", res |-> "ok", c |-> NoConnection]

\* What ends an async_accept: a connection, the client gone again, no
\* resources, the acceptor closed
AcceptResults == {"ok", "reset", "resources", "aborted"}

AcceptTasks == [op : {"on_accept"}, res : AcceptResults, c : Connections \cup {NoConnection}]
               \cup {RetryTask("ok"), RetryTask("aborted"), CloseTask}

Accepting(op) ==
    /\ launching = NoConnection
    /\ acceptor # <<>>
    /\ Head(acceptor).op = op
    /\ acceptor' = Tail(acceptor)

(***************************************************************************)
(* Faulty variants, not part of the specification                          *)
(***************************************************************************)
\* on_accept() that ends the loop when a client gave up
OnAcceptResetEnds ==
    /\ Accepting("on_accept")
    /\ is_open
    /\ Head(acceptor).res = "reset"
    /\ UNCHANGED <<httpVars, is_open, accepting, retrying, launching, stopVars>>

\* SessionRegistry::add() that does not look at stopping_
OnAcceptAlways(c) ==
    /\ Accepting("on_accept")
    /\ is_open
    /\ Head(acceptor).res = "ok"
    /\ Head(acceptor).c = c
    /\ items_' = items_ \cup {<<c, "http">>}
    /\ session' = [session EXCEPT ![c].life = "launching"]
    /\ launching' = c
    /\ UNCHANGED <<mode, ws, stopping_, is_open, accepting, retrying, stopVars>>

(***************************************************************************)
(* The acceptor (external): a connection arrives, or the accept fails      *)
(***************************************************************************)
Arrives(c) ==
    /\ accepting > 0
    /\ session[c].life = "none"
    /\ accepting' = accepting - 1
    /\ acceptor' = Append(acceptor, AcceptTask("ok", c))
    /\ session' = [session EXCEPT ![c].life = "accepted"]
    /\ UNCHANGED <<mode, ws, items_, stopping_, is_open, retrying, launching, stopVars>>

AcceptFails(res) ==
    /\ accepting > 0
    /\ accepting' = accepting - 1
    /\ acceptor' = Append(acceptor, AcceptTask(res, NoConnection))
    /\ UNCHANGED <<httpVars, is_open, retrying, launching, stopVars>>

RetryExpires ==
    /\ retrying
    /\ retrying' = FALSE
    /\ acceptor' = Append(acceptor, RetryTask("ok"))
    /\ UNCHANGED <<httpVars, is_open, accepting, launching, stopVars>>

(***************************************************************************)
(* Handlers of the acceptor's strand                                       *)
(***************************************************************************)
\* on_accept() after stop(): the socket, if any, is dropped
OnAcceptClosed ==
    /\ Accepting("on_accept")
    /\ ~is_open \/ Head(acceptor).res = "aborted"
    /\ session' = [c \in Connections |->
                     IF c = Head(acceptor).c THEN [session[c] EXCEPT !.life = "gone"]
                                             ELSE session[c]]
    /\ UNCHANGED <<mode, ws, items_, stopping_, is_open, accepting, retrying,
                   launching, stopVars>>

\* The client gave up before: accept another
OnAcceptReset ==
    /\ Accepting("on_accept")
    /\ is_open
    /\ Head(acceptor).res = "reset"
    /\ accepting' = accepting + 1
    /\ UNCHANGED <<httpVars, is_open, retrying, launching, stopVars>>

\* Out of resources: accept again in 100 ms
OnAcceptError ==
    /\ Accepting("on_accept")
    /\ is_open
    /\ Head(acceptor).res = "resources"
    /\ retrying' = TRUE
    /\ UNCHANGED <<httpVars, is_open, accepting, launching, stopVars>>

\* HttpSession::run() of a new session: registered ...
OnAccept(c) ==
    /\ Accepting("on_accept")
    /\ is_open
    /\ Head(acceptor).res = "ok"
    /\ Head(acceptor).c = c
    /\ ~stopping_
    /\ items_' = items_ \cup {<<c, "http">>}
    /\ session' = [session EXCEPT ![c].life = "launching"]
    /\ launching' = c
    /\ UNCHANGED <<mode, ws, stopping_, is_open, accepting, retrying, stopVars>>

\* ... then on_run() dispatched to its strand; accept another
Launch ==
    /\ launching # NoConnection
    /\ session' = [session EXCEPT ![launching] = [Post(@, "on_run") EXCEPT !.life = "live"]]
    /\ launching' = NoConnection
    /\ accepting' = accepting + 1
    /\ UNCHANGED <<mode, ws, items_, stopping_, is_open, retrying, acceptor, stopVars>>

\* run(): the registry refuses a session when stopping, it is dropped
OnAcceptStopping(c) ==
    /\ Accepting("on_accept")
    /\ is_open
    /\ Head(acceptor).res = "ok"
    /\ Head(acceptor).c = c
    /\ stopping_
    /\ session' = [session EXCEPT ![c].life = "gone"]
    /\ accepting' = accepting + 1
    /\ UNCHANGED <<mode, ws, items_, stopping_, is_open, retrying, launching, stopVars>>

OnRetry ==
    /\ Accepting("retry")
    /\ accepting' = IF Head(acceptor).res = "ok" /\ is_open THEN accepting + 1 ELSE accepting
    /\ UNCHANGED <<httpVars, is_open, retrying, launching, stopVars>>

\* The task stop() posts: the timer and the accept complete as aborted
OnClose ==
    /\ launching = NoConnection
    /\ acceptor # <<>>
    /\ Head(acceptor) = CloseTask
    /\ is_open' = FALSE
    /\ accepting' = 0
    /\ retrying' = FALSE
    /\ acceptor' = Tail(acceptor)
                   \o (IF retrying THEN <<RetryTask("aborted")>> ELSE <<>>)
                   \o [i \in 1..accepting |-> AcceptTask("aborted", NoConnection)]
    /\ UNCHANGED <<httpVars, launching, stopVars>>

(***************************************************************************)
(* stop(), on a thread of its own                                          *)
(***************************************************************************)
Stop ==
    /\ stopper \in {"idle", "threw"}
    /\ stops < MaxStops
    /\ stops' = stops + 1
    /\ stopper' = "posted"
    /\ acceptor' = Append(acceptor, CloseTask)
    /\ UNCHANGED <<httpVars, is_open, accepting, retrying, launching, alive, todo, told>>

\* stopAll(), under the lock
StopAll ==
    /\ stopper = "posted"
    /\ stopper' = "telling"
    /\ stopping_' = TRUE
    /\ alive' = items_
    /\ todo' = items_
    /\ UNCHANGED <<mode, session, ws, items_, acceptVars, stops, told>>

\* HttpSession::stop(): on_stop() is posted to the strand of the connection
TellHttp(c) ==
    /\ <<c, "http">> \in todo
    /\ todo' = todo \ {<<c, "http">>}
    /\ told' = told \cup {<<c, "http">>}
    /\ session' = [session EXCEPT ![c] = Post(@, "on_stop")]
    /\ UNCHANGED <<mode, ws, items_, stopping_, acceptVars, stops, stopper, alive>>

\* HttpSession::stop() visits stream_ while on_ssl_session() replaces it, a
\* data race: besides the above it may find the variant without a value and
\* throw out of stop(), which leaves the rest untold
TellRaces(c) ==
    /\ <<c, "http">> \in todo
    /\ session[c].swapping
    /\ stopper' = "threw"
    /\ todo' = {}
    /\ alive' = {}
    /\ UNCHANGED <<httpVars, acceptVars, stops, told>>

\* WebSocketSession::stop(): a close with 1001 is posted
TellWs(c) ==
    /\ <<c, "ws">> \in todo
    /\ todo' = todo \ {<<c, "ws">>}
    /\ told' = told \cup {<<c, "ws">>}
    /\ UNCHANGED <<httpVars, acceptVars, stops, stopper, alive>>

StopReturns ==
    /\ stopper = "telling"
    /\ todo = {}
    /\ stopper' = "idle"
    /\ alive' = {}
    /\ UNCHANGED <<httpVars, acceptVars, stops, todo, told>>

(***************************************************************************)
(* The end of a session                                                    *)
(***************************************************************************)
\* Nothing refers to the session any more: ~HttpSession()
Destroy(c) ==
    /\ session[c].life = "live"
    /\ session[c].strand = <<>>
    /\ session[c].ops = {}
    /\ ~session[c].swapping
    /\ <<c, "http">> \notin alive
    /\ session' = [session EXCEPT ![c] = [Fresh EXCEPT !.life = "gone"]]
    /\ items_' = items_ \ {<<c, "http">>}
    /\ UNCHANGED <<mode, ws, stopping_, acceptVars, stopVars>>

\* The WebSocketSession is over: the peer left, or the application closed it
WsEnds(c) ==
    /\ ws[c] \in {"live", "rejecting"}
    /\ <<c, "ws">> \notin alive
    /\ ws' = [ws EXCEPT ![c] = "gone"]
    /\ items_' = items_ \ {<<c, "ws">>}
    /\ UNCHANGED <<mode, session, stopping_, acceptVars, stopVars>>

AcceptorHandler ==
    \/ OnAcceptClosed
    \/ OnAcceptReset
    \/ OnAcceptError
    \/ \E c \in Connections : OnAccept(c) \/ OnAcceptStopping(c)
    \/ Launch
    \/ OnRetry
    \/ OnClose

Stopping ==
    \/ StopAll
    \/ \E c \in Connections : TellHttp(c) \/ TellRaces(c) \/ TellWs(c)
    \/ StopReturns

SessionStep(c) ==
    /\ Handler(c) \/ Stream(c)
    /\ UNCHANGED <<acceptVars, stopVars>>

\* Everything is over and io_context::run() returned
Terminated ==
    /\ ~is_open
    /\ acceptor = <<>>
    /\ stopper \in {"idle", "threw"}
    /\ stops = MaxStops
    /\ \A c \in Connections : session[c].life \in {"none", "gone"} /\ ws[c] \in {"none", "gone"}
    /\ UNCHANGED vars

Next ==
    \/ \E c \in Connections : SessionStep(c) \/ Arrives(c) \/ Destroy(c) \/ WsEnds(c)
    \/ \E res \in {"reset", "resources"} : AcceptFails(res)
    \/ RetryExpires
    \/ AcceptorHandler
    \/ Stop
    \/ Stopping
    \/ Terminated

Spec == Init /\ [][Next]_vars

(***************************************************************************)
(* Fairness.  io_context threads run every queued handler; a timer set     *)
(* with expires_after() expires and an operation past it fails; stop()     *)
(* runs to its end; an object nobody refers to is destroyed; a             *)
(* WebSocketSession that was refused or told to stop ends, which           *)
(* WebSocketSession.tla shows (EndsReported).  Nothing is assumed of       *)
(* the clients.                                                            *)
(***************************************************************************)
Fairness ==
    /\ \A c \in Connections :
          /\ WF_vars(Handler(c) /\ UNCHANGED <<acceptVars, stopVars>>)
          /\ WF_vars(Expires(c) /\ UNCHANGED <<acceptVars, stopVars>>)
          /\ WF_vars(TimesOut(c) /\ UNCHANGED <<acceptVars, stopVars>>)
          /\ WF_vars(Destroy(c))
          /\ WF_vars(WsEnds(c) /\ (ws[c] = "rejecting" \/ <<c, "ws">> \in told))
    /\ WF_vars(AcceptorHandler)
    /\ WF_vars(Stopping)

FairSpec == Spec /\ Fairness

(***************************************************************************)
(* Properties                                                              *)
(***************************************************************************)
Names == Connections \X {"http", "ws"}

\* Every variable has its type: the strands hold known tasks, the response
\* queue of a session holds at most one response, the accept loop at most one
\* async_accept
TypeOK ==
    /\ mode \in Modes
    /\ session \in [Connections ->
         [life : {"none", "accepted", "launching", "live", "gone"},
          strand : Seq(Tasks), ops : SUBSET Operations,
          timer : {"armed", "passed", "closed"}, tls : BOOLEAN, swapping : BOOLEAN,
          waiting_ : BOOLEAN, parser_ : {"none", "empty", "some"},
          response_queue_ : {<<>>, <<TRUE>>, <<FALSE>>}, keep_alive : BOOLEAN,
          linger_ : BOOLEAN, lingering_ : BOOLEAN, answered : BOOLEAN, late : 0..2]]
    /\ ws \in [Connections -> {"none", "rejecting", "live", "gone"}]
    /\ items_ \subseteq Names
    /\ stopping_ \in BOOLEAN
    /\ is_open \in BOOLEAN
    /\ accepting \in 0..1
    /\ retrying \in BOOLEAN
    /\ acceptor \in Seq(AcceptTasks)
    /\ launching \in Connections \cup {NoConnection}
    /\ stops \in 0..MaxStops
    /\ stopper \in {"idle", "posted", "telling", "threw"}
    /\ todo \subseteq alive
    /\ alive \subseteq Names
    /\ told \subseteq Names

\* The tasks of a strand that carry the session on
Carrying(c) == {i \in DOMAIN session[c].strand : session[c].strand[i].op # "on_stop"}

\* A session is one chain: never two asynchronous operations or continuations
\* at once, so a read never overlaps a write, parser_ and buffer_ have one
\* user, and a queued response has the task that will write it (queue_write,
\* do_write, on_write and do_read calling each other)
OneContinuation ==
    \A c \in Connections :
        /\ Cardinality(Carrying(c)) + Cardinality(session[c].ops)
             + (IF session[c].swapping THEN 1 ELSE 0) <= 1
        /\ session[c].response_queue_ # <<>> =>
               \E i \in Carrying(c) : session[c].strand[i] = Task("do_write", "ok")

\* A request that began to arrive is read and answered: on_stop() only cancels
\* an operation that has received nothing, or the linger after an answer.  It is
\* the last: on_read() and on_write() leave no room for another after stop()
StopSparesRequests ==
    \A c \in Connections :
        /\ \A i \in DOMAIN session[c].strand :
            LET t == session[c].strand[i]
            IN  t.res = "aborted" =>
                    \/ t.op \in {"detect", "handshake", "linger"}
                    \/ t.op = "header" /\ session[c].parser_ = "empty"
        /\ session[c].late <= 1

\* No connection escapes stop(): whatever is registered while stopAll() runs
\* or once it returned is among the sessions it holds or has told, in
\* particular a session accepted or upgraded in the meantime
StopMissesNone ==
    stopping_ /\ stopper \in {"telling", "idle"} => items_ \subseteq todo \cup told

\* Exactly one thing keeps the accept loop going until stop() closes the
\* acceptor, then nothing does: no error ends it and none doubles it
AcceptLoop ==
    LET loop == accepting + (IF retrying THEN 1 ELSE 0)
                + Cardinality({i \in DOMAIN acceptor : acceptor[i].op # "close"})
                + (IF launching # NoConnection THEN 1 ELSE 0)
    IN  /\ is_open => loop = 1
        /\ ~is_open => accepting = 0 /\ ~retrying

\* The stop reached the session and nothing is left for its strand to do
Settled(c) ==
    /\ stopping_
    /\ stopper = "idle"
    /\ session[c].life = "live"
    /\ session[c].strand = <<>>
    /\ ~session[c].swapping

\* Nothing of a request has been received, and the session waits for it
Idle(c) == session[c].waiting_ /\ session[c].parser_ # "some"

\* A keep-alive connection between two requests is closed by stop() itself,
\* without the help of http_timeout (on_stop and the stopping() check of
\* on_write; the first test of tests/listener checks one schedule of it)
KeepAliveClosed ==
    \A c \in Connections : Settled(c) /\ session[c].answered => ~Idle(c)

\* stop() ends everything, whatever the clients do: the acceptor is closed,
\* every connection gone, so that io_context::run() returns (unless the data
\* race on stream_ made stop() throw)
ServerStops ==
    stops > 0 ~> \/ /\ ~is_open /\ accepting = 0 /\ ~retrying
                    /\ items_ = {}
                    /\ \A c \in Connections : session[c].life \in {"none", "gone"}
                 \/ stopper = "threw"

\* As the comments of Listener::stop() and HttpSession::stop() put it: stop()
\* closes every connection that waits for a request, not only after the first
IdleClosed ==
    \A c \in Connections : Settled(c) => ~Idle(c)
=============================================================================
