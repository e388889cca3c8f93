-------------------------- MODULE WebSocketClient --------------------------
(***************************************************************************)
(* One connection of the WebSocket client and the client that owns it:     *)
(* sources/Client/WebSocketClient.cpp.                                     *)
(*                                                                         *)
(* WsConnection runs on a strand: a queue of tasks posted by close() and   *)
(* send*() on other threads and of completions of asynchronous operations. *)
(* The operations outstanding are a bag, since nothing but the code keeps  *)
(* two reads or two writes from being started on one stream; each carries  *)
(* the generation its handler captured.  send() is a thread of its own     *)
(* between its atomic accesses, and so is ~WebSocketClient().              *)
(*                                                                         *)
(* External, under "Stream": the resolver, the timer and the Beast stream, *)
(* as the code uses them.  A message is the generation its send() loaded.  *)
(***************************************************************************)
EXTENDS Integers, Sequences, FiniteSets, BagsExt, Bags, SequencesExt

CONSTANTS
    Requests,           \* what connect() may be given: [valid, tls, reconnect]
    Senders,            \* threads that call send*()
    send_queue_limit,
    max_attempts,       \* Reconnect::max_attempts, 0 = no limit
    initial_delay,
    max_delay,
    MaxEvents,          \* bound: handshakes accepted, messages read and send*() calls
    MaxCloses,          \* bound: close() calls and drops of the handle
    MaxOpens            \* bound: handshakes the server accepts

ASSUME ClientAssumption ==
    /\ Requests \subseteq [valid : BOOLEAN, tls : BOOLEAN, reconnect : BOOLEAN]
    /\ IsFiniteSet(Senders)
    /\ {send_queue_limit, max_attempts, initial_delay, max_delay,
        MaxEvents, MaxCloses, MaxOpens} \subseteq Nat

VARIABLES
    request,        \* valid URL, wss://, reconnect.enabled
    strand,         \* tasks waiting on the strand, first = next to run
    ops,            \* bag of operations outstanding: [op, gen]
    timer,          \* retry_timer has a wait outstanding
    link,           \* the transport of ws: "none" (no ws yet), "up", "down"
    state,          \* WsConnection::state
    generation,
    failures,
    connected,
    pending,
    write_queue,
    stop_requested,
    requested_code,
    close_done,
    read_done,
    closed,         \* WsClientImpl::closed
    destroyer,      \* ~WebSocketClient(): not called, holds the connection, joins, returned
    handle,         \* the application holds the shared_ptr connect() returned
    sender,         \* where each sender is, and the generation it loaded
    calls,          \* ghost: callbacks invoked since the last onOpen, that one included
    asked,          \* ghost: the code of the close() that took effect
    traffic, closes, opens      \* ghosts: bounded events so far

queueVars == <<pending, write_queue>>
closeVars == <<stop_requested, asked, requested_code, close_done, read_done>>
lifeVars == <<state, failures, connected, timer, calls>>
streamVars == <<ops, link, opens>>
appVars == <<closed, destroyer, handle, sender, traffic, closes>>

vars == <<request, strand, generation, queueVars, closeVars, lifeVars, streamVars,
          appVars>>

States == {"idle", "connecting", "open", "closing", "waiting", "stopped"}

Steps == {"resolve", "connect", "tls", "upgrade"}   \* of an attempt, in order

Op(op, gen) == [op |-> op, gen |-> gen]

Task(op, gen, arg) == [op |-> op, gen |-> gen, arg |-> arg]

\* The next task on the strand is op; the strand runs until the threads end
Running(op) == destroyer # "done" /\ strand # <<>> /\ Head(strand).op = op

Gen == Head(strand).gen
Arg == Head(strand).arg

stale(gen) == gen # generation \/ state = "stopped"

Init ==
    /\ request \in Requests
    /\ strand = <<Task("start", 0, "none")>>
    /\ ops = EmptyBag
    /\ timer = FALSE
    /\ link = "none"
    /\ state = "idle"
    /\ generation = 0
    /\ failures = 0
    /\ connected = FALSE
    /\ pending = 0
    /\ write_queue = <<>>
    /\ stop_requested = FALSE
    /\ requested_code = "normal"
    /\ close_done = FALSE
    /\ read_done = FALSE
    /\ closed = FALSE
    /\ destroyer = "none"
    /\ handle = TRUE
    /\ sender = [t \in Senders |-> [at |-> "idle", gen |-> 0]]
    /\ calls = <<>>
    /\ asked = "none"
    /\ traffic = 0 /\ closes = 0 /\ opens = 0

(***************************************************************************)
(* Stream (external)                                                       *)
(***************************************************************************)
\* An operation ends and its completion handler is queued
Completes(op, gen, result) ==
    /\ BagIn(Op(op, gen), ops)
    /\ ops' = BagRemove(ops, Op(op, gen))
    /\ strand' = Append(strand, Task(op, gen, result))

StreamFrame ==
    UNCHANGED <<request, generation, queueVars, closeVars, lifeVars, appVars>>

\* A resolve that was not cancelled, or a step on an open socket, succeeds
StepOk(step) ==
    /\ Completes(step, generation, "ok")
    /\ IF step = "resolve" THEN ~stop_requested ELSE link = "up"
    /\ IF step = "upgrade"
       THEN /\ opens < MaxOpens
            /\ opens + traffic < MaxEvents
            /\ opens' = opens + 1
       ELSE UNCHANGED opens
    /\ UNCHANGED link
    /\ StreamFrame

\* A step fails: error, connect_timeout, cancelled or its socket closed
StepFails(step) ==
    /\ Completes(step, generation, "error")
    /\ link' = IF link = "none" THEN "none" ELSE "down"
    /\ UNCHANGED opens
    /\ StreamFrame

\* The server answers the upgrade with an HTTP status
UpgradeDeclined ==
    /\ Completes("upgrade", generation, "declined")
    /\ link = "up"
    /\ link' = "down"
    /\ UNCHANGED opens
    /\ StreamFrame

MessageRead ==
    /\ Completes("read", generation, "message")
    /\ link = "up"
    /\ opens + traffic < MaxEvents
    /\ traffic' = traffic + 1
    /\ UNCHANGED <<request, generation, queueVars, closeVars, lifeVars, link, opens,
                   closed, destroyer, handle, sender, closes>>

\* The peer closes, or the stream fails or times out
StreamEnds(result) ==
    /\ Completes("read", generation, result)
    /\ link = "up"
    /\ link' = "down"
    /\ UNCHANGED opens
    /\ StreamFrame

\* A read on a stream that ended: cancelled, or failed
ReadFails(result) ==
    /\ Completes("read", generation, result)
    /\ link = "down"
    /\ UNCHANGED <<link, opens>>
    /\ StreamFrame

WriteOk ==
    /\ Completes("write", generation, "ok")
    /\ link = "up"
    /\ UNCHANGED <<link, opens>>
    /\ StreamFrame

\* A write on a stream that ended, was replaced, or is being closed
WriteFails(gen) ==
    /\ Completes("write", gen, "error")
    /\ gen # generation \/ link = "down" \/ state = "closing"
    /\ UNCHANGED <<link, opens>>
    /\ StreamFrame

\* The close handshake ends, fails or times out; it takes the stream down
CloseEnds ==
    /\ Completes("close", generation, "none")
    /\ link' = "down"
    /\ UNCHANGED opens
    /\ StreamFrame

\* The retry delay passed
TimerExpires ==
    /\ timer
    /\ timer' = FALSE
    /\ strand' = Append(strand, Task("retry", generation, "ok"))
    /\ UNCHANGED <<request, generation, queueVars, closeVars, state, failures,
                   connected, calls, streamVars, appVars>>

Stream ==
    \/ \E step \in Steps : StepOk(step) \/ StepFails(step)
    \/ UpgradeDeclined
    \/ MessageRead
    \/ \E result \in {"closed", "error"} : StreamEnds(result)
    \/ \E result \in {"aborted", "error"} : ReadFails(result)
    \/ WriteOk
    \/ \E gen \in 1 .. generation : WriteFails(gen)
    \/ CloseEnds
    \/ TimerExpires

(***************************************************************************)
(* Helpers of the handlers                                                 *)
(***************************************************************************)
\* retryDelay(), without its jitter: doubling, capped
retryDelay(attempt) ==
    LET doubled[i \in 1 .. attempt] ==
            IF i = 1 THEN initial_delay
            ELSE IF doubled[i - 1] < max_delay THEN 2 * doubled[i - 1]
            ELSE doubled[i - 1]
    IN  IF doubled[attempt] < max_delay THEN doubled[attempt] ELSE max_delay

Call(event) == [event |-> event, attempt |-> 0, delay |-> 0]

Reconnecting(attempt) ==
    [event |-> "reconnecting", attempt |-> attempt, delay |-> retryDelay(attempt)]

\* The emit functions: stop() released the callbacks
deliver(events) ==
    calls' = IF state = "stopped" THEN calls
             ELSE IF events = <<Call("open")>> THEN events
             ELSE calls \o events

\* stop(), after the callbacks in events
stop(events) ==
    /\ deliver(events)
    /\ state' = "stopped"
    /\ connected' = FALSE
    /\ UNCHANGED <<failures, timer>>

\* scheduleRetry(); connected is FALSE already in every caller
scheduleRetry(events) ==
    IF ~request.reconnect \/ stop_requested \/ closed
    THEN stop(events)
    ELSE /\ failures' = failures + 1
         /\ connected' = FALSE
         /\ IF max_attempts > 0 /\ failures' > max_attempts
            THEN /\ deliver(events \o <<Call("gave_up")>>)
                 /\ state' = "stopped"
                 /\ UNCHANGED timer
            ELSE /\ deliver(events \o <<Reconnecting(failures')>>)
                 /\ state' = "waiting"
                 /\ timer' = TRUE

attemptFailed ==
    IF stop_requested THEN stop(<<>>) ELSE scheduleRetry(<<Call("error")>>)

\* attempt()
attempt ==
    IF stop_requested \/ closed
    THEN /\ stop(<<>>)
         /\ UNCHANGED <<generation, ops>>
    ELSE /\ state' = "connecting"
         /\ generation' = generation + 1
         /\ ops' = BagAdd(ops, Op("resolve", generation'))
         /\ UNCHANGED <<failures, connected, timer, calls>>

\* Faulty variant: closed() that leaves pending alone
dropQueueUncounted ==
    /\ write_queue' = <<>>
    /\ UNCHANGED pending

\* closed(): messages not written are lost with their connection
dropQueue ==
    /\ pending' = pending - Len(write_queue)
    /\ write_queue' = <<>>

\* Faulty variant: closed() that does not report a close we asked for
closedSilent(events) ==
    /\ dropQueue
    /\ IF stop_requested \/ closed
       THEN stop(events)
       ELSE scheduleRetry(events \o <<Call("close")>>)

\* closed(): the connection is over, whoever ended it
closedNow(events) ==
    /\ dropQueue
    /\ IF stop_requested \/ closed
       THEN stop(events \o <<Call("close")>>)
       ELSE scheduleRetry(events \o <<Call("close")>>)

\* closeOpen(), with the operations started before it in started
closeOpen(code, started) ==
    /\ state' = "closing"
    /\ requested_code' = code
    /\ ops' = BagAdd(started, Op("close", generation))

\* Faulty variant: no generation check in the lambda send() posts
acceptsAnyGeneration(gen) == state = "open"

\* The lambda send() posts: its connection is still the open one
accepts(gen) == state = "open" /\ gen = generation

\* The lambda send() posts: no write is outstanding
startsWrite(queue) == Len(queue) = 1

\* doClose(): takes effect once
requestStop(code) ==
    /\ asked' = code
    /\ stop_requested' = TRUE

(***************************************************************************)
(* Handlers, on the strand                                                 *)
(***************************************************************************)
\* Every handler: the task leaves the strand
Runs(op) ==
    /\ Running(op)
    /\ strand' = Tail(strand)
    /\ UNCHANGED <<request, appVars>>

\* A completion of the current attempt
Completed(op) == Runs(op) /\ ~stale(Gen)

\* start(): an invalid URL is an error and the end
Start ==
    /\ Runs("start")
    /\ IF request.valid
       THEN attempt
       ELSE stop(<<Call("error")>>) /\ UNCHANGED <<generation, ops>>
    /\ UNCHANGED <<queueVars, closeVars, link, opens>>

\* The retry timer's handler
OnRetry ==
    /\ Runs("retry")
    /\ IF Arg = "aborted" \/ state # "waiting"
       THEN UNCHANGED <<lifeVars, generation, ops>>
       ELSE attempt
    /\ UNCHANGED <<queueVars, closeVars, link, opens>>

\* A completion of an earlier attempt, or after stop(): dropped
OnStale(op) ==
    /\ Runs(op) /\ stale(Gen)
    /\ UNCHANGED <<generation, queueVars, closeVars, lifeVars, streamVars>>

OnStepFailed(step) ==
    /\ Completed(step) /\ Arg = "error"
    /\ attemptFailed
    /\ UNCHANGED <<generation, queueVars, closeVars, streamVars>>

\* onResolve(): a new stream replaces ws
OnResolve ==
    /\ Completed("resolve") /\ Arg = "ok"
    /\ link' = "up"
    /\ ops' = BagAdd(ops, Op("connect", generation))
    /\ UNCHANGED <<generation, queueVars, closeVars, lifeVars, opens>>

\* onConnect(): TLS, or the upgrade at once
OnConnect ==
    /\ Completed("connect") /\ Arg = "ok"
    /\ ops' = BagAdd(ops, Op(IF request.tls THEN "tls" ELSE "upgrade", generation))
    /\ UNCHANGED <<generation, queueVars, closeVars, lifeVars, link, opens>>

\* onConnect(): the host name cannot be set for SNI
OnConnectNoSni ==
    /\ Completed("connect") /\ Arg = "ok" /\ request.tls
    /\ attemptFailed
    /\ UNCHANGED <<generation, queueVars, closeVars, streamVars>>

\* The TLS handshake is done: upgrade()
OnTls ==
    /\ Completed("tls") /\ Arg = "ok"
    /\ ops' = BagAdd(ops, Op("upgrade", generation))
    /\ UNCHANGED <<generation, queueVars, closeVars, lifeVars, link, opens>>

\* onUpgrade(), declined: not retried
OnDeclined ==
    /\ Completed("upgrade") /\ Arg = "declined"
    /\ stop(IF stop_requested THEN <<>> ELSE <<Call("rejected")>>)
    /\ UNCHANGED <<generation, queueVars, closeVars, streamVars>>

\* onUpgrade(): what both branches do
opened ==
    /\ failures' = 0
    /\ connected' = TRUE
    /\ deliver(<<Call("open")>>)
    /\ UNCHANGED timer

OnUpgraded ==
    /\ Completed("upgrade") /\ Arg = "ok" /\ ~stop_requested
    /\ opened
    /\ state' = "open"
    /\ ops' = BagAdd(ops, Op("read", generation))
    /\ UNCHANGED <<generation, queueVars, closeVars, link, opens>>

\* Faulty variant: onUpgrade() that forgets a close() during the handshake
OnUpgradedForgets ==
    /\ Completed("upgrade") /\ Arg = "ok" /\ stop_requested
    /\ opened
    /\ state' = "open"
    /\ ops' = BagAdd(ops, Op("read", generation))
    /\ UNCHANGED <<generation, queueVars, closeVars, link, opens>>

\* close() came during the handshake: close again at once
OnUpgradedClosing ==
    /\ Completed("upgrade") /\ Arg = "ok" /\ stop_requested
    /\ opened
    /\ closeOpen("normal", BagAdd(ops, Op("read", generation)))
    /\ UNCHANGED <<generation, queueVars, stop_requested, asked, close_done, read_done,
                   link, opens>>

OnMessage ==
    /\ Completed("read") /\ Arg = "message"
    /\ deliver(<<Call("message")>>)
    /\ ops' = BagAdd(ops, Op("read", generation))
    /\ UNCHANGED <<generation, queueVars, closeVars, state, failures, connected, timer,
                   link, opens>>

\* ended(), the read cancelled by our own close: whichever ends last reports
EndedOwnClose ==
    /\ Completed("read") /\ state = "closing" /\ Arg = "aborted"
    /\ read_done' = TRUE
    /\ IF close_done THEN closedNow(<<>>) ELSE UNCHANGED <<queueVars, lifeVars>>
    /\ UNCHANGED <<generation, stop_requested, asked, requested_code, close_done,
                   streamVars>>

\* ended(), otherwise: the read side reports
Ended ==
    /\ Completed("read") /\ Arg # "message"
    /\ ~(state = "closing" /\ Arg = "aborted")
    /\ closedNow(IF Arg = "error" /\ ~stop_requested THEN <<Call("error")>> ELSE <<>>)
    /\ UNCHANGED <<generation, closeVars, streamVars>>

\* The handler of async_close, with finishOwnClose()
OnClose ==
    /\ Completed("close")
    /\ close_done' = TRUE
    /\ IF read_done THEN closedNow(<<>>) ELSE UNCHANGED <<queueVars, lifeVars>>
    /\ UNCHANGED <<generation, stop_requested, asked, requested_code, read_done,
                   streamVars>>

\* The lambda send() posts
SendTask ==
    /\ Runs("send")
    /\ IF accepts(Gen)
       THEN /\ write_queue' = Append(write_queue, Gen)
            /\ ops' = IF startsWrite(write_queue')
                      THEN BagAdd(ops, Op("write", generation)) ELSE ops
            /\ UNCHANGED pending
       ELSE /\ pending' = pending - 1
            /\ UNCHANGED <<write_queue, ops>>
    /\ UNCHANGED <<generation, closeVars, lifeVars, link, opens>>

\* The handler of async_write, when there is nothing to do or the write failed:
\* the read side reports it
OnWriteFailed ==
    /\ Completed("write")
    /\ write_queue = <<>> \/ Arg = "error"
    /\ UNCHANGED <<generation, queueVars, closeVars, lifeVars, streamVars>>

\* Faulty variant: the handler of async_write that forgets to remove the message
OnWriteKeeps ==
    /\ Completed("write")
    /\ write_queue # <<>> /\ Arg = "ok"
    /\ pending' = pending - 1
    /\ ops' = BagAdd(ops, Op("write", generation))
    /\ UNCHANGED <<generation, write_queue, closeVars, lifeVars, link, opens>>

OnWrite ==
    /\ Completed("write")
    /\ write_queue # <<>> /\ Arg = "ok"
    /\ write_queue' = Tail(write_queue)
    /\ pending' = pending - 1
    /\ ops' = IF write_queue' # <<>> THEN BagAdd(ops, Op("write", generation)) ELSE ops
    /\ UNCHANGED <<generation, closeVars, lifeVars, link, opens>>

\* doClose() again, or after the end
DoCloseAgain ==
    /\ Runs("doClose")
    /\ stop_requested \/ state = "stopped"
    /\ UNCHANGED <<generation, queueVars, closeVars, lifeVars, streamVars>>

\* Faulty variant: another read, to see the close handshake through
DoCloseOpenReads ==
    /\ Runs("doClose") /\ ~stop_requested /\ state = "open"
    /\ requestStop(Arg)
    /\ closeOpen(Arg, BagAdd(ops, Op("read", generation)))
    /\ UNCHANGED <<generation, queueVars, close_done, read_done, failures, connected,
                   timer, calls, link, opens>>

DoCloseOpen ==
    /\ Runs("doClose") /\ ~stop_requested /\ state = "open"
    /\ requestStop(Arg)
    /\ closeOpen(Arg, ops)
    /\ UNCHANGED <<generation, queueVars, close_done, read_done, failures, connected,
                   timer, calls, link, opens>>

\* Connecting: the resolve is cancelled (see StepOk) and the socket closed
DoCloseConnecting ==
    /\ Runs("doClose") /\ ~stop_requested /\ state = "connecting"
    /\ requestStop(Arg)
    /\ link' = IF link = "none" THEN "none" ELSE "down"
    /\ UNCHANGED <<generation, queueVars, requested_code, close_done, read_done,
                   lifeVars, ops, opens>>

\* Waiting for a retry: the timer is cancelled, unless it has expired already
DoCloseWaiting ==
    /\ Running("doClose") /\ ~stop_requested /\ state = "waiting"
    /\ strand' = IF timer THEN Append(Tail(strand), Task("retry", generation, "aborted"))
                          ELSE Tail(strand)
    /\ requestStop(Arg)
    /\ timer' = FALSE
    /\ state' = "stopped"
    /\ connected' = FALSE
    /\ UNCHANGED <<request, generation, queueVars, requested_code, close_done, read_done,
                   failures, calls, streamVars, appVars>>

Handlers ==
    \/ Start \/ OnRetry
    \/ \E op \in Steps \cup {"read", "write", "close"} : OnStale(op)
    \/ \E step \in Steps : OnStepFailed(step)
    \/ OnResolve \/ OnConnect \/ OnConnectNoSni \/ OnTls
    \/ OnDeclined \/ OnUpgraded \/ OnUpgradedClosing
    \/ OnMessage \/ EndedOwnClose \/ Ended \/ OnClose
    \/ SendTask \/ OnWriteFailed \/ OnWrite
    \/ DoCloseAgain \/ DoCloseOpen \/ DoCloseConnecting \/ DoCloseWaiting

(***************************************************************************)
(* Other threads: the application and ~WebSocketClient()                   *)
(***************************************************************************)
\* They touch the connection through its atomics and its strand only
ThreadFrame ==
    UNCHANGED <<request, generation, write_queue, closeVars, lifeVars, streamVars>>

PostClose(code) == strand' = Append(strand, Task("doClose", 0, code))

\* close() on the handle, with the default code
AppClose ==
    /\ handle
    /\ closes < MaxCloses
    /\ closes' = closes + 1
    /\ PostClose("normal")
    /\ UNCHANGED <<pending, closed, destroyer, handle, sender, traffic>>
    /\ ThreadFrame

\* The last shared_ptr goes away; no thread is inside send()
DropHandle ==
    /\ handle
    /\ \A t \in Senders : sender[t].at = "idle"
    /\ closes < MaxCloses
    /\ closes' = closes + 1
    /\ handle' = FALSE
    /\ PostClose("normal")
    /\ UNCHANGED <<pending, closed, destroyer, sender, traffic>>
    /\ ThreadFrame

\* send(): connected is read
SendCheck(t) ==
    /\ handle
    /\ sender[t].at = "idle"
    /\ connected
    /\ opens + traffic < MaxEvents
    /\ traffic' = traffic + 1
    /\ sender' = [sender EXCEPT ![t].at = "checked"]
    /\ UNCHANGED <<pending, strand, closed, destroyer, handle, closes>>
    /\ ThreadFrame

\* send(): a place is reserved, or the queue is full and send() returns false
SendReserve(t) ==
    /\ sender[t].at = "checked"
    /\ IF pending >= send_queue_limit
       THEN /\ sender' = [sender EXCEPT ![t].at = "idle"]
            /\ UNCHANGED pending
       ELSE /\ sender' = [sender EXCEPT ![t].at = "reserved"]
            /\ pending' = pending + 1
    /\ UNCHANGED <<strand, closed, destroyer, handle, traffic, closes>>
    /\ ThreadFrame

\* send(): generation.load() for the capture of the lambda
SendLoad(t) ==
    /\ sender[t].at = "reserved"
    /\ sender' = [sender EXCEPT ![t] = [at |-> "loaded", gen |-> generation]]
    /\ UNCHANGED <<pending, strand, closed, destroyer, handle, traffic, closes>>
    /\ ThreadFrame

\* send(): the lambda is posted, send() returns true
SendPost(t) ==
    /\ sender[t].at = "loaded"
    /\ strand' = Append(strand, Task("send", sender[t].gen, "none"))
    /\ sender' = [sender EXCEPT ![t] = [at |-> "idle", gen |-> 0]]
    /\ UNCHANGED <<pending, closed, destroyer, handle, traffic, closes>>
    /\ ThreadFrame

\* Nothing is left for the io_context to do
OutOfWork == strand = <<>> /\ ops = EmptyBag /\ ~timer

\* ~WebSocketClient(), under the mutex: closed, and the connection if it lives
Destroy ==
    /\ destroyer = "none"
    /\ closed' = TRUE
    /\ destroyer' = IF handle \/ ~OutOfWork THEN "holding" ELSE "joining"
    /\ UNCHANGED <<pending, strand, handle, sender, traffic, closes>>
    /\ ThreadFrame

\* ~WebSocketClient(), after it: close(going_away), then work.reset()
DestroyCloses ==
    /\ destroyer = "holding"
    /\ destroyer' = "joining"
    /\ PostClose("going_away")
    /\ UNCHANGED <<pending, closed, handle, sender, traffic, closes>>
    /\ ThreadFrame

\* The threads leave ioc.run() and are joined
DestroyJoins ==
    /\ destroyer = "joining"
    /\ OutOfWork
    /\ destroyer' = "done"
    /\ UNCHANGED <<pending, strand, closed, handle, sender, traffic, closes>>
    /\ ThreadFrame

\* Nothing runs after the destructor
Destroyed == destroyer = "done" /\ UNCHANGED vars

Sending(t) == SendReserve(t) \/ SendLoad(t) \/ SendPost(t)

Next ==
    \/ Stream
    \/ Handlers
    \/ AppClose \/ DropHandle
    \/ \E t \in Senders : SendCheck(t) \/ Sending(t)
    \/ Destroy \/ DestroyCloses \/ DestroyJoins \/ Destroyed

Spec == Init /\ [][Next]_vars

(***************************************************************************)
(* Fairness.  The io_context runs the strand; resolving, connecting and    *)
(* the handshakes end, at the latest by their timeouts; operations on a    *)
(* stream that ended complete; a timer expires; send() and the destructor  *)
(* run on.  An open connection may stay open and quiet, a write on it may  *)
(* stay outstanding, and nobody has to close anything.                     *)
(***************************************************************************)
Fairness ==
    /\ WF_vars(Handlers)
    /\ WF_vars(\E step \in Steps : StepFails(step))
    /\ WF_vars(\E result \in {"aborted", "error"} : ReadFails(result))
    /\ WF_vars(\E gen \in 1 .. generation : WriteFails(gen))
    /\ WF_vars(CloseEnds)
    /\ WF_vars(TimerExpires)
    /\ WF_vars(DestroyCloses)
    /\ WF_vars(DestroyJoins)
    /\ \A t \in Senders : WF_vars(Sending(t))

FairSpec == Spec /\ Fairness

----------------------------------------------------------------------------
\* Attempts are bounded by max_attempts, if that is
Generations ==
    IF max_attempts = 0 THEN Nat ELSE 0 .. (MaxOpens + 1) * (max_attempts + 1)

Codes == {"none", "normal", "going_away"}

\* Types, and the limit of the send queue: reservations never exceed it
TypeOK ==
    /\ request \in Requests
    /\ \A i \in 1 .. Len(strand) : strand[i].gen \in Generations
    /\ IsABag(ops)
    /\ \A o \in DOMAIN ops :
           o \in [op : Steps \cup {"read", "write", "close"}, gen : Generations]
    /\ link \in {"none", "up", "down"}
    /\ state \in States
    /\ generation \in Generations
    /\ failures \in Nat
    /\ max_attempts > 0 => failures <= max_attempts + 1
    /\ pending \in 0 .. send_queue_limit
    /\ Len(write_queue) <= send_queue_limit
    /\ {timer, connected, stop_requested, close_done, read_done, closed, handle}
           \subseteq BOOLEAN
    /\ {requested_code, asked} \subseteq Codes
    /\ destroyer \in {"none", "holding", "joining", "done"}
    /\ sender \in [Senders ->
           [at : {"idle", "checked", "reserved", "loaded"}, gen : Generations]]

InStrand(op, gen) ==
    Cardinality({i \in 1 .. Len(strand) : strand[i].op = op /\ strand[i].gen = gen})

\* How often a bag holds an operation (CopiesIn, which the prover's Bags lacks)
Copies(o, bag) == IF BagIn(o, bag) THEN bag[o] ELSE 0

\* Operations of this kind outstanding, or completed and waiting for the strand
InFlight(op, gen) == Copies(Op(op, gen), ops) + InStrand(op, gen)

Flag(b) == IF b THEN 1 ELSE 0

\* A connection that is not stopped waits for exactly one thing that takes it
\* further: it can neither be forgotten nor driven by two chains at once.
\* While our own close() runs that is the read, or the close once the read
\* was cancelled (attempt(), scheduleRetry(), read(), ended(), closeOpen()).
OneContinuation ==
    LET attempts == InFlight("resolve", generation) + InFlight("connect", generation)
                    + InFlight("tls", generation) + InFlight("upgrade", generation)
        reads    == InFlight("read", generation)
        retries  == Flag(timer) +
                    Cardinality({i \in 1 .. Len(strand) :
                        strand[i].op = "retry" /\ strand[i].arg = "ok"})
    IN  /\ state = "idle" => InStrand("start", 0) = 1
        /\ attempts = Flag(state = "connecting")
        /\ reads = Flag(state = "open" \/ (state = "closing" /\ ~read_done))
        /\ state = "closing" /\ read_done => InFlight("close", generation) = 1
        /\ state = "waiting" => retries = 1

\* pendingMessages() is exact: messages reserved by a thread inside send(),
\* in a posted lambda, or queued; whichever way a connection ends, at most
\* one decrement each (send(), closed(), the handler of async_write).
PendingExact ==
    pending = Cardinality({t \in Senders : sender[t].at \in {"reserved", "loaded"}})
              + Cardinality({i \in 1 .. Len(strand) : strand[i].op = "send"})
              + Len(write_queue)

\* Beast allows one async_write at a time on a stream; a queue that is not empty
\* is being written unless the stream is ending (write()); and a message accepted
\* for one connection is never written on a later one: it is lost with its
\* connection, as Connection::sendText() documents (the generation in send()).
OneWriteLoop ==
    /\ InFlight("write", generation) <= 1
    /\ state = "open" /\ link = "up" /\ write_queue # <<>>
           => InFlight("write", generation) = 1
    /\ \A i \in 1 .. Len(write_queue) : write_queue[i] = generation

Called(event) == {i \in 1 .. Len(calls) : calls[i].event = event}

capped(delay) == IF delay < max_delay THEN delay ELSE max_delay

\* onOpen, messages and exactly one onClose, in this order, and only then the
\* next onOpen; a stopped connection has reported the close of what it opened
\* (onUpgrade(), onRead(), ended(), finishOwnClose(), closed()).  A retry follows
\* a failed attempt, reported with onError, or a close; retries are numbered from
\* 1 after every successful connect, the first waits for initial_delay and each
\* twice as long as the one before, none longer than max_delay, and max_attempts
\* of them are made before giving up (scheduleRetry(), retryDelay()).
CallbackOrder ==
    LET up == Called("open") # {} /\ Called("close") = {}
    IN  /\ Called("open") \subseteq {1}
        /\ Cardinality(Called("close")) = IF Called("open") = {} \/ up THEN 0 ELSE 1
        /\ \A i \in Called("message") :
               Called("open") = {1} /\ \A j \in Called("close") : i < j
        /\ up = (state \in {"open", "closing"})
        /\ connected = up
        /\ \A i \in Called("reconnecting") :
               LET n == Cardinality({j \in Called("reconnecting") : j <= i})
               IN  /\ i > 1 /\ calls[i - 1].event \in {"error", "close"}
                   /\ calls[i].attempt = n
                   /\ max_attempts > 0 => n <= max_attempts
                   /\ n = 1 => calls[i].delay = capped(initial_delay)
                   /\ \A j \in Called("reconnecting") : calls[j].attempt = n - 1 =>
                          calls[i].delay = capped(2 * calls[j].delay)
        /\ \A i \in Called("gave_up") :
               /\ i = Len(calls)
               /\ max_attempts > 0
               /\ Cardinality(Called("reconnecting")) = max_attempts

\* No attempt starts once close() took effect
ClosedForGood == [][asked # "none" => generation' = generation]_vars

\* No attempt starts once close() took effect, whatever was queued or running at
\* that time (doClose(), attempt()); dropping the handle closes the connection
\* for good, whatever it was doing; and the destructor returns, whatever the
\* server does, and leaves no connection half way.
CloseIsFinal ==
    /\ ClosedForGood
    /\ ~handle \/ destroyer # "none" ~> state = "stopped" /\ destroyer \in {"none", "done"}

=============================================================================
