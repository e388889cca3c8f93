----------------------------- MODULE HttpClient -----------------------------
(***************************************************************************)
(* The HTTP client: sources/Client/HttpClient.cpp.                         *)
(*                                                                         *)
(* A call (CallState) runs on a strand of its own: begin(), the            *)
(* completions of its one operation, the deadline, and aborts posted by    *)
(* cancel() and by ~HttpClient().  Calls meet in the client's list of kept *)
(* alive connections and its flag closed, both under a mutex.  onComplete  *)
(* runs on the strand and may send() another call, also while the          *)
(* destructor waits.                                                       *)
(*                                                                         *)
(* A connection is the value its unique_ptr owns: whether our socket is    *)
(* open, whether the server still is, and the calls whose requests went    *)
(* out completely and were not answered, the order in which a server       *)
(* answers.  The list is that of one host.  External, under "Network": the *)
(* resolver, the timer, the streams and the server.                        *)
(***************************************************************************)
EXTENDS Integers, Sequences, FiniteSets, SequencesExt

CONSTANTS
    Calls,              \* the calls of send()
    Requests,           \* what each may be: "get", "post", "bad_url"
    Cancelled,          \* calls the application may cancel
    Schemes,            \* values of tls
    max_idle_per_host,
    NoConn              \* a unique_ptr that owns nothing

\* What a connection carries
Links == [open : BOOLEAN, peer : BOOLEAN, owed : Seq(Calls)]

ASSUME HttpClientAssumption ==
    /\ IsFiniteSet(Calls)
    /\ Requests \in [Calls -> SUBSET {"get", "post", "bad_url"}]
    /\ Cancelled \subseteq Calls
    /\ Schemes \subseteq BOOLEAN
    /\ max_idle_per_host \in Nat
    /\ NoConn \notin Links

VARIABLES
    tls,        \* target.tls, of the host
    call,       \* the calls, see CallState
    idle,       \* ClientImpl::idle of the host, last = used last
    closed,     \* ClientImpl::closed
    destroyer,  \* ~HttpClient(): none, aborting, joining, done
    in_flight   \* the calls it holds

vars == <<tls, call, idle, closed, destroyer, in_flight>>

Ops == {"resolve", "connect", "tls", "write", "read"}

Fresh ==
    [at       |-> "unused",     \* where send(), the call and its callback are
     method   |-> "get",
     strand   |-> <<>>,         \* tasks, first = next to run
     ops      |-> {},           \* operations outstanding
     deadline |-> FALSE,        \* the deadline timer is set
     conn     |-> NoConn,
     reused   |-> FALSE,
     retried  |-> FALSE,
     got      |-> FALSE,        \* parser->got_some()
     aborted  |-> FALSE,        \* timeout, cancelled or closed
     result   |-> "none",       \* none: not finished; else response or error
     sent     |-> 0,            \* ghost: times the whole request was written
     from     |-> {}]           \* ghost: whose answer was read

Init ==
    /\ tls \in Schemes
    /\ call = [c \in Calls |-> Fresh]
    /\ idle = <<>>
    /\ closed = FALSE
    /\ destroyer = "none"
    /\ in_flight = {}

Task(op, arg) == [op |-> op, arg |-> arg]
Post(s, task) == [s EXCEPT !.strand = Append(@, task)]
Begins(s, op) == [s EXCEPT !.ops = @ \cup {op}]
Update(c, s) == call' = [call EXCEPT ![c] = s]

(***************************************************************************)
(* Network (external)                                                      *)
(***************************************************************************)
NetworkFrame == UNCHANGED <<tls, idle, closed, destroyer, in_flight>>

\* An operation ends; its handler is queued
Completed(s, op, arg) == Post([s EXCEPT !.ops = @ \ {op}], Task(op, arg))

\* A resolve may succeed after it was cancelled: its results were there already
ResolveEnds(c, arg) ==
    /\ "resolve" \in call[c].ops
    /\ Update(c, Completed(call[c], "resolve", arg))
    /\ NetworkFrame

\* async_connect or the TLS handshake succeeds
ConnectOk(c, op) ==
    /\ op \in call[c].ops
    /\ call[c].conn.open /\ call[c].conn.peer
    /\ Update(c, Completed(call[c], op, "ok"))
    /\ NetworkFrame

\* ... or fails: refused, connect_timeout, socket closed by abort()
ConnectFails(c, op) ==
    /\ op \in call[c].ops
    /\ Update(c, Completed(call[c], op, "error"))
    /\ NetworkFrame

\* A part of the request is written
WriteSome(c) ==
    /\ "write" \in call[c].ops
    /\ call[c].conn.open
    /\ Update(c, Completed(call[c], "write", "more"))
    /\ NetworkFrame

\* The rest of it is, the server will see all of it
WriteRest(c) ==
    /\ "write" \in call[c].ops
    /\ call[c].conn.open
    /\ Update(c, [Completed(call[c], "write", "done") EXCEPT
                     !.sent = @ + 1, !.conn.owed = Append(@, c)])
    /\ NetworkFrame

WriteFails(c) ==
    /\ "write" \in call[c].ops
    /\ ~call[c].conn.open \/ ~call[c].conn.peer
    /\ Update(c, Completed(call[c], "write", "error"))
    /\ NetworkFrame

Answering(c) ==
    /\ "read" \in call[c].ops
    /\ call[c].conn.open /\ call[c].conn.peer
    /\ call[c].conn.owed # <<>>

\* A part of the oldest answer arrives
ReadSome(c) ==
    /\ Answering(c)
    /\ Update(c, [Completed(call[c], "read", "more") EXCEPT !.got = TRUE])
    /\ NetworkFrame

\* The rest of it does, with or without keep-alive
ReadRest(c, arg) ==
    /\ Answering(c)
    /\ Update(c, [Completed(call[c], "read", arg) EXCEPT
                     !.got = TRUE, !.conn.owed = Tail(@),
                     !.from = {Head(call[c].conn.owed)}])
    /\ NetworkFrame

\* The answer is malformed ("error") or too large ("final")
ReadRefused(c, arg) ==
    /\ Answering(c)
    /\ Update(c, [Completed(call[c], "read", arg) EXCEPT !.got = TRUE])
    /\ NetworkFrame

ReadFails(c) ==
    /\ "read" \in call[c].ops
    /\ ~call[c].conn.open \/ ~call[c].conn.peer
    /\ Update(c, Completed(call[c], "read", "error"))
    /\ NetworkFrame

\* The server closes a connection, while an operation can see it or kept alive
PeerCloses(c) ==
    /\ call[c].ops \cap {"write", "read"} # {}
    /\ Update(c, [call[c] EXCEPT !.conn.peer = FALSE])
    /\ NetworkFrame

PeerClosesIdle(i) ==
    /\ idle' = [idle EXCEPT ![i].peer = FALSE]
    /\ UNCHANGED <<tls, call, closed, destroyer, in_flight>>

DeadlinePasses(c) ==
    /\ call[c].deadline
    /\ Update(c, Post([call[c] EXCEPT !.deadline = FALSE], Task("abort", "none")))
    /\ NetworkFrame

Network(c) ==
    \/ \E arg \in {"ok", "error"} : ResolveEnds(c, arg)
    \/ \E op \in {"connect", "tls"} :
           ConnectOk(c, op) \/ ConnectFails(c, op)
    \/ WriteSome(c) \/ WriteRest(c) \/ WriteFails(c)
    \/ \E arg \in {"keep", "close"} : ReadRest(c, arg)
    \/ \E arg \in {"error", "final"} : ReadRefused(c, arg)
    \/ ReadSome(c) \/ ReadFails(c)
    \/ PeerCloses(c) \/ DeadlinePasses(c)

(***************************************************************************)
(* The functions of CallState, on the state s of one call                  *)
(***************************************************************************)
\* finish(): once; the timer is cancelled, the connection closed, onComplete
\* called.  What nobody reads of a finished call is not kept
finish(s, result) ==
    IF s.result # "none" THEN s
    ELSE [Fresh EXCEPT !.at = "callback", !.result = result, !.method = s.method,
                       !.strand = s.strand, !.ops = s.ops, !.sent = s.sent, !.from = s.from]

\* abort(): the pending operation fails, the handler finds aborted
abort(s) ==
    IF s.result # "none" \/ s.aborted THEN s
    ELSE [s EXCEPT !.aborted = TRUE,
                   !.conn = IF @ = NoConn THEN NoConn ELSE [@ EXCEPT !.open = FALSE]]

resolve(s) == Begins(s, "resolve")

idempotent(method) == method = "get"

\* Faulty variant: fail() that retries whatever the method
retryAnything(s, during_write) == s.reused /\ ~s.retried /\ ~s.got

\* fail(): a kept alive connection the server closed in the meantime
retryable(s, during_write) ==
    /\ s.reused /\ ~s.retried /\ ~s.got
    /\ idempotent(s.method) \/ during_write

\* Faulty variant: no return after the resolve()
retryFallsThrough(s) ==
    finish(resolve([s EXCEPT !.retried = TRUE, !.reused = FALSE, !.conn = NoConn]), "error")

\* Faulty variant: a retry that is not remembered
retryForgets(s) == resolve([s EXCEPT !.conn = NoConn])

retry(s) ==
    resolve([s EXCEPT !.retried = TRUE, !.reused = FALSE, !.conn = NoConn])

fail(s, ec, during_write) ==
    IF s.aborted \/ ec = "final" THEN finish(s, "error")
    ELSE IF retryable(s, during_write) THEN retry(s)
    ELSE finish(s, "error")

\* Faulty variant: begin() that sets no deadline
startNoDeadline(s) == s

\* begin(): the deadline timer
start(s) == [s EXCEPT !.deadline = TRUE]

\* Faulty variant: succeed() that keeps a connection abort() closed
keepsAborted(s, arg) == arg = "keep"

\* succeed(): the connection can be used again
keeps(s, arg) == arg = "keep" /\ ~s.aborted

\* putIdle()
putIdle(conn) ==
    idle' = IF closed \/ Len(idle) >= max_idle_per_host THEN idle ELSE Append(idle, conn)

(***************************************************************************)
(* Handlers, on the strand of call c                                       *)
(***************************************************************************)
\* The next task is op; the strand is busy while the callback runs
Runs(c, op) ==
    /\ destroyer # "done"
    /\ call[c].at # "callback"
    /\ call[c].strand # <<>> /\ Head(call[c].strand).op = op
    /\ UNCHANGED <<tls, closed, destroyer, in_flight>>

Arg(c) == Head(call[c].strand).arg

Popped(c) == [call[c] EXCEPT !.strand = Tail(@)]

BeginBadUrl(c) ==
    /\ Runs(c, "begin") /\ call[c].method = "bad_url"
    /\ Update(c, finish(Popped(c), "error"))
    /\ UNCHANGED idle

\* begin(), connect(): nothing usable in takeIdle(), what is there expired.  The
\* last one was put there last: if it expired, all did
BeginNew(c) ==
    /\ Runs(c, "begin") /\ call[c].method # "bad_url"
    /\ Update(c, resolve(start(Popped(c))))
    /\ idle' = <<>>

\* begin(), connect(): on the connection used last
BeginReused(c) ==
    /\ Runs(c, "begin") /\ call[c].method # "bad_url"
    /\ idle # <<>>
    /\ Update(c, Begins([start(Popped(c)) EXCEPT !.conn = Last(idle), !.reused = TRUE],
                        "write"))
    /\ idle' = Front(idle)

\* send() found the client closed
Refuse(c) ==
    /\ Runs(c, "refuse")
    /\ Update(c, finish(Popped(c), "error"))
    /\ UNCHANGED idle

\* The deadline, cancel(), ~HttpClient()
Abort(c) ==
    /\ Runs(c, "abort")
    /\ Update(c, abort(Popped(c)))
    /\ UNCHANGED idle

OnFailed(c, op) ==
    /\ Runs(c, op) /\ Arg(c) \in {"error", "final"}
    /\ Update(c, fail(Popped(c), Arg(c), op = "write"))
    /\ UNCHANGED idle

\* onResolve()
OnResolve(c) ==
    /\ Runs(c, "resolve") /\ Arg(c) = "ok"
    /\ Update(c, IF call[c].aborted THEN finish(Popped(c), "error")
                 ELSE Begins([Popped(c) EXCEPT
                                 !.conn = [open |-> TRUE, peer |-> TRUE, owed |-> <<>>]],
                             "connect"))
    /\ UNCHANGED idle

\* onConnect()
OnConnect(c) ==
    /\ Runs(c, "connect") /\ Arg(c) = "ok"
    /\ Update(c, Begins(Popped(c), IF tls THEN "tls" ELSE "write"))
    /\ UNCHANGED idle

\* onConnect(): the host name cannot be set for SNI
OnConnectNoSni(c) ==
    /\ Runs(c, "connect") /\ Arg(c) = "ok" /\ tls
    /\ Update(c, finish(Popped(c), "error"))
    /\ UNCHANGED idle

OnTls(c) ==
    /\ Runs(c, "tls") /\ Arg(c) = "ok"
    /\ Update(c, Begins(Popped(c), "write"))
    /\ UNCHANGED idle

\* writeHeader(), writeBody(): the next part, or the answer; readHeader() has a
\* new parser
OnWrite(c) ==
    /\ Runs(c, "write") /\ Arg(c) \in {"more", "done"}
    /\ Update(c, IF Arg(c) = "more" THEN Begins(Popped(c), "write")
                 ELSE Begins([Popped(c) EXCEPT !.got = FALSE], "read"))
    /\ UNCHANGED idle

\* readHeader(), readBody(): the next part
OnRead(c) ==
    /\ Runs(c, "read") /\ Arg(c) = "more"
    /\ Update(c, Begins(Popped(c), "read"))
    /\ UNCHANGED idle

\* readBody(), succeed()
Succeed(c) ==
    /\ Runs(c, "read") /\ Arg(c) \in {"keep", "close"}
    /\ IF keeps(call[c], Arg(c)) THEN putIdle(call[c].conn) ELSE UNCHANGED idle
    /\ Update(c, finish(Popped(c), "response"))

\* onComplete returns; what it sends, it has sent
CallbackReturns(c) ==
    /\ call[c].at = "callback"
    /\ \A d \in Calls : call[d].at \notin {"registered", "refused"}
    /\ Update(c, [call[c] EXCEPT !.at = "done"])
    /\ NetworkFrame

Handlers(c) ==
    \/ BeginBadUrl(c) \/ BeginNew(c) \/ BeginReused(c) \/ Refuse(c) \/ Abort(c)
    \/ \E op \in Ops : OnFailed(c, op)
    \/ OnResolve(c) \/ OnConnect(c) \/ OnConnectNoSni(c) \/ OnTls(c)
    \/ OnWrite(c) \/ OnRead(c) \/ Succeed(c) \/ CallbackReturns(c)

(***************************************************************************)
(* Other threads                                                           *)
(***************************************************************************)
InCallback == \E c \in Calls : call[c].at = "callback"

\* send(), under the mutex.  The application does not use a client it is
\* destroying, but callbacks still do
Register(c, method) ==
    /\ call[c].at = "unused"
    /\ destroyer = "none" \/ InCallback
    /\ Update(c, [call[c] EXCEPT !.at = IF closed THEN "refused" ELSE "registered",
                                 !.method = method])
    /\ NetworkFrame

\* send(), after it: dispatch to the strand
Dispatch(c) ==
    /\ call[c].at \in {"registered", "refused"}
    /\ Update(c, Post([call[c] EXCEPT !.at = "running"],
                      Task(IF call[c].at = "refused" THEN "refuse" ELSE "begin", "none")))
    /\ NetworkFrame

\* Call::cancel(), once a call
Cancel(c) ==
    /\ c \in Cancelled
    /\ call[c].at = "running" /\ destroyer # "done"
    /\ ~call[c].aborted /\ Task("abort", "none") \notin Range(call[c].strand)
    /\ Update(c, Post(call[c], Task("abort", "none")))
    /\ NetworkFrame

\* ~HttpClient(), under the mutex
Destroy ==
    /\ destroyer = "none"
    /\ InCallback \/ \A c \in Calls : call[c].at \notin {"registered", "refused"}
    /\ destroyer' = "aborting"
    /\ closed' = TRUE
    /\ idle' = <<>>
    /\ in_flight' = {c \in Calls : call[c].at \in {"registered", "running", "callback"}}
    /\ UNCHANGED <<tls, call>>

\* ~HttpClient(), after it
DestroyAborts(c) ==
    /\ destroyer = "aborting" /\ c \in in_flight
    /\ Update(c, Post(call[c], Task("abort", "none")))
    /\ in_flight' = in_flight \ {c}
    /\ UNCHANGED <<tls, idle, closed, destroyer>>

\* The work guard goes, then the threads leave ioc.run() and are joined
DestroyResets ==
    /\ destroyer = "aborting" /\ in_flight = {}
    /\ destroyer' = "joining"
    /\ UNCHANGED <<tls, call, idle, closed, in_flight>>

DestroyJoins ==
    /\ destroyer = "joining"
    /\ ~InCallback
    /\ \A c \in Calls : call[c].strand = <<>> /\ call[c].ops = {} /\ ~call[c].deadline
    /\ destroyer' = "done"
    /\ UNCHANGED <<tls, call, idle, closed, in_flight>>

Destroyed == destroyer = "done" /\ UNCHANGED vars

Destruction == (\E c \in Calls : DestroyAborts(c)) \/ DestroyResets \/ DestroyJoins

Next ==
    \/ \E c \in Calls :
           \/ Network(c) \/ Handlers(c)
           \/ \E method \in Requests[c] : Register(c, method)
           \/ Dispatch(c) \/ Cancel(c)
    \/ \E i \in DOMAIN idle : PeerClosesIdle(i)
    \/ Destroy \/ Destruction \/ Destroyed

Spec == Init /\ [][Next]_vars

(***************************************************************************)
(* Fairness.  Threads run on and callbacks return; the resolver answers;   *)
(* connecting ends by connect_timeout; operations on a closed socket fail; *)
(* the deadline passes.  A server may stay silent for ever.                *)
(***************************************************************************)
FailsClosed(c) ==
    /\ call[c].conn # NoConn /\ ~call[c].conn.open
    /\ WriteFails(c) \/ ReadFails(c)

\* What a call waits for, but the server and its deadline
Progress(c) ==
    \/ Handlers(c) \/ Dispatch(c) \/ FailsClosed(c)
    \/ \E arg \in {"ok", "error"} : ResolveEnds(c, arg)
    \/ \E op \in {"connect", "tls"} : ConnectFails(c, op)

Fairness ==
    /\ \A c \in Calls : WF_vars(Progress(c)) /\ WF_vars(DeadlinePasses(c))
    /\ WF_vars(Destruction)

FairSpec == Spec /\ Fairness

----------------------------------------------------------------------------
\* Types, and no more than two attempts
TypeOK ==
    /\ tls \in BOOLEAN
    /\ \A c \in Calls :
           LET s == call[c]
           IN  /\ DOMAIN s = DOMAIN Fresh
               /\ s.at \in {"unused", "registered", "refused", "running", "callback", "done"}
               /\ s.method \in Requests[c] \cup {"get"}
               /\ s.ops \subseteq Ops
               /\ s.conn = NoConn \/ s.conn \in Links
               /\ {s.deadline, s.reused, s.retried, s.got, s.aborted} \subseteq BOOLEAN
               /\ s.result \in {"none", "error", "response"}
               /\ s.sent \in 0 .. 2
    /\ idle \in Seq(Links)
    /\ closed \in BOOLEAN
    /\ destroyer \in {"none", "aborting", "joining", "done"}
    /\ in_flight \subseteq Calls

\* A call that was started and did not complete waits for exactly one thing that
\* takes it further, and a call that completed for none: no request is forgotten
\* and none is driven twice, also by a retry.  Each is bounded: its deadline is
\* set or on the strand, unless it was aborted (begin(), fail(), abort()).
OneContinuation ==
    \A c \in Calls :
        LET s == call[c]
            queued == {i \in DOMAIN s.strand : s.strand[i].op # "abort"}
        IN  /\ Cardinality(s.ops) + Cardinality(queued) = IF s.at = "running" THEN 1 ELSE 0
            /\ s.ops # {} => \/ s.deadline \/ s.aborted
                             \/ Task("abort", "none") \in Range(s.strand)

\* A request that is not idempotent is sent completely at most once, whenever
\* the server closes a kept alive connection; the others at most twice (fail()).
AtMostOnce ==
    \A c \in Calls : call[c].sent <= IF idempotent(call[c].method) THEN 2 ELSE 1

\* The response a call completes with is the answer to its own request, on
\* whatever connection earlier calls timed out or were cancelled; and the
\* connections kept for later are those nothing is owed on and no abort, come with
\* the last completion, closed; max_idle_per_host of them at most, none once the
\* client is closed (finish(), succeed(), putIdle(), takeIdle()).
OwnAnswer ==
    /\ \A c \in Calls :
           /\ call[c].from \subseteq {c}
           /\ call[c].result = "response" => call[c].from = {c}
    /\ \A i \in DOMAIN idle : idle[i].open /\ idle[i].owed = <<>>
    /\ Len(idle) <= IF closed THEN 0 ELSE max_idle_per_host

\* Every call completes, whatever the server does, when it is cancelled and when
\* it is sent from a callback while the client is destroyed; and the destructor
\* returns.
Completes ==
    LET busy == \/ \E c \in Calls : call[c].at \notin {"unused", "done"}
                \/ destroyer \notin {"none", "done"}
    IN  busy ~> ~busy

=============================================================================
