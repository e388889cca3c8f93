-------------------------- MODULE WebSocketSession --------------------------
(***************************************************************************)
(* One server-side WebSocket connection: include/cppgate/WebSocketSession.h *)
(* with the callbacks of WebSocketContext.h and the part of                *)
(* SessionRegistry.h and Router.cpp it meets.                              *)
(*                                                                         *)
(* Handlers of a connection run one at a time on its strand, a FIFO queue  *)
(* of tasks: lambdas posted by send*() and close(), and completions of the *)
(* asynchronous operations.  Other threads (senders, Listener::stop()) run *)
(* between handlers and only post tasks.                                   *)
(*                                                                         *)
(* The Beast stream is external: what it does is the actions under         *)
(* "Stream", taken from how the session uses it.  A message is its number  *)
(* in the order its send*() call posted it.                                *)
(***************************************************************************)
EXTENDS Integers, Sequences, FiniteSets, SequencesExt

CONSTANTS
    websocket_send_queue_limit,
    MaxSends,       \* bound: send*() calls of the application
    MaxMessages,    \* bound: messages read from the peer
    MaxCloses       \* bound: close() calls of the application

ASSUME SessionAssumption ==
    /\ websocket_send_queue_limit \in Nat
    /\ MaxSends \in Nat
    /\ MaxMessages \in Nat
    /\ MaxCloses \in Nat

VARIABLES
    phase,          \* life of the connection, see Phases
    strand,         \* tasks waiting on the strand, first = next to run
    calling,        \* send*() calls that counted their message, not posted yet
    sent,           \* messages posted
    pending_,       \* what pendingMessages() returns
    write_queue_,
    closing_,       \* async_close was started
    closed_,        \* WebSocketContext::closed_
    reading,        \* an async_read is outstanding
    writing,        \* number of async_writes outstanding in the stream
    lateWrite,      \* the outstanding async_write started after async_close
    closeOp,        \* an async_close is outstanding
    calls,          \* application callbacks invoked so far
    written,        \* messages the stream wrote
    overflow,       \* a message was refused because the queue was full
    stopping,       \* SessionRegistry::stopping_
    registered,     \* the session is in SessionRegistry::items_
    stopper,        \* Listener::stop(): not called, holds the session, done
    messages,       \* messages read
    closes          \* close() calls of the application

queueVars == <<calling, sent, pending_, write_queue_>>
streamVars == <<reading, writing, lateWrite, closeOp, written, messages>>
contextVars == <<closed_, calls>>
registryVars == <<stopping, registered, stopper>>

vars == <<phase, strand, queueVars, closing_, contextVars, streamVars, overflow,
          registryVars, closes>>

Phases == {"new",        \* created by HttpSession, run() not called yet
           "rejecting",  \* the HTTP refusal is being written
           "accepting",  \* async_accept outstanding
           "open",       \* handshake done
           "down",       \* the stream ended: closed, failed or timed out
           "gone"}       \* destroyed

Codes == {"going_away", "internal_error", "policy_error", "application"}

Task(op, arg) == [op |-> op, arg |-> arg]

Post(task) == strand' = Append(strand, task)

\* The next task on the strand is op; running it removes it
Running(op) == strand # <<>> /\ Head(strand).op = op

Init ==
    /\ phase = "new"
    /\ strand = <<>>
    /\ calling = 0
    /\ sent = 0
    /\ pending_ = 0
    /\ write_queue_ = <<>>
    /\ closing_ = FALSE
    /\ closed_ = FALSE
    /\ reading = FALSE
    /\ writing = 0
    /\ lateWrite = FALSE
    /\ closeOp = FALSE
    /\ calls = <<>>
    /\ written = <<>>
    /\ overflow = FALSE
    /\ stopping = FALSE
    /\ registered = FALSE
    /\ stopper = "none"
    /\ messages = 0
    /\ closes = 0

(***************************************************************************)
(* run(), on the strand, called by HttpSession                             *)
(***************************************************************************)
\* sessions_->add() failed: 503 instead of the handshake
RunStopping ==
    /\ phase = "new"
    /\ stopping
    /\ phase' = "rejecting"
    /\ UNCHANGED <<strand, queueVars, closing_, contextVars, streamVars, overflow,
                   registryVars, closes>>

\* Registered; Router::upgrade() accepts the request, or refuses it (404, a
\* middleware, an exception)
Run ==
    /\ phase = "new"
    /\ ~stopping
    /\ registered' = TRUE
    /\ phase' \in {"accepting", "rejecting"}
    /\ UNCHANGED <<strand, queueVars, closing_, contextVars, streamVars, overflow,
                   stopping, stopper, closes>>

\* on_reject(): the refusal was written or failed, the stream is shut down
OnReject ==
    /\ phase = "rejecting"
    /\ phase' = "down"
    /\ UNCHANGED <<strand, queueVars, closing_, contextVars, streamVars, overflow,
                   registryVars, closes>>

(***************************************************************************)
(* Stream (external)                                                       *)
(***************************************************************************)
AcceptDone(ok) ==
    /\ phase = "accepting"
    /\ phase' = IF ok THEN "open" ELSE "down"
    /\ Post(Task("on_accept", ok))
    /\ UNCHANGED <<queueVars, closing_, contextVars, streamVars, overflow,
                   registryVars, closes>>

\* The stream ends: close handshake done, peer gone, error or timeout
StreamDown ==
    /\ phase = "open"
    /\ phase' = "down"
    /\ UNCHANGED <<strand, queueVars, closing_, contextVars, streamVars, overflow,
                   registryVars, closes>>

\* A message arrives for the outstanding read, also while closing
MessageRead ==
    /\ phase = "open"
    /\ reading
    /\ messages < MaxMessages
    /\ messages' = messages + 1
    /\ reading' = FALSE
    /\ Post(Task("on_read", "message"))
    /\ UNCHANGED <<phase, queueVars, closing_, contextVars, writing, lateWrite,
                   closeOp, written, overflow, registryVars, closes>>

\* The outstanding read learns that the stream ended
ReadEnds(result) ==
    /\ phase = "down"
    /\ reading
    /\ reading' = FALSE
    /\ Post(Task("on_read", result))
    /\ UNCHANGED <<phase, queueVars, closing_, contextVars, writing, lateWrite,
                   closeOp, written, messages, overflow, registryVars, closes>>

\* A write that started before the close frame can succeed
WriteOk ==
    /\ phase = "open"
    /\ writing > 0
    /\ ~lateWrite
    /\ writing' = writing - 1
    /\ written' = Append(written, Head(write_queue_))
    /\ Post(Task("on_write", TRUE))
    /\ UNCHANGED <<phase, queueVars, closing_, contextVars, reading, lateWrite,
                   closeOp, messages, overflow, registryVars, closes>>

\* One that started after it, or whose stream ended, fails
WriteFails ==
    /\ phase = "down" \/ lateWrite
    /\ writing > 0
    /\ writing' = writing - 1
    /\ Post(Task("on_write", FALSE))
    /\ UNCHANGED <<phase, queueVars, closing_, contextVars, reading, lateWrite,
                   closeOp, written, messages, overflow, registryVars, closes>>

CloseDone ==
    /\ phase = "down"
    /\ closeOp
    /\ closeOp' = FALSE
    /\ Post(Task("on_close", "none"))
    /\ UNCHANGED <<phase, queueVars, closing_, contextVars, reading, writing,
                   lateWrite, written, messages, overflow, registryVars, closes>>

(***************************************************************************)
(* Callbacks of WebSocketContext: emitMessage(), emitError(), emitClose()  *)
(***************************************************************************)
\* The route handler ran: it is where the callbacks are set
Opened == calls # <<>>

Emit(event) == IF Opened /\ ~closed_ THEN Append(calls, event) ELSE calls

\* Faulty variant: emitClose() without its closed_ guard
EmitCloseTwice(before) ==
    /\ calls' = IF Opened THEN Append(before, "close") ELSE before
    /\ closed_' = TRUE

\* emitClose(), after the calls in before
EmitClose(before) ==
    /\ calls' = IF Opened /\ ~closed_ THEN Append(before, "close") ELSE before
    /\ closed_' = TRUE

\* do_write() with a message queued: async_write of the first one
DoWrite ==
    /\ writing' = writing + 1
    /\ lateWrite' = closing_

(***************************************************************************)
(* Faulty variants.  Each changes one definition below the way a slip in   *)
(* the code would; they are not part of the specification and only show    *)
(* that the properties can fail.                                           *)
(***************************************************************************)
\* on_accept() that forgets close() when stopping
OnAcceptStoppingLost ==
    /\ Running("on_accept")
    /\ Head(strand).arg
    /\ stopping
    /\ strand' = Tail(strand)
    /\ reading' = TRUE
    /\ UNCHANGED <<phase, queueVars, closing_, contextVars, writing, lateWrite,
                   closeOp, written, messages, overflow, registryVars, closes>>

\* send_internal() that forgets --pending_ when closing
SendClosingKeepsPending ==
    /\ Running("send")
    /\ closing_
    /\ strand' = Tail(strand)
    /\ UNCHANGED <<phase, queueVars, closing_, contextVars, streamVars, overflow,
                   registryVars, closes>>

\* send_internal() comparing with > instead of >=
SendQueuedOffByOne ==
    /\ Running("send")
    /\ ~closing_
    /\ Len(write_queue_) <= websocket_send_queue_limit
    /\ write_queue_' = Append(write_queue_, Head(strand).arg)
    /\ IF Len(write_queue_') = 1 THEN DoWrite ELSE UNCHANGED <<writing, lateWrite>>
    /\ strand' = Tail(strand)
    /\ UNCHANGED <<phase, calling, sent, pending_, closing_, contextVars, reading,
                   closeOp, written, messages, overflow, registryVars, closes>>

\* send_internal() that calls do_write() for every message
SendQueuedAlwaysWrites ==
    /\ Running("send")
    /\ ~closing_
    /\ Len(write_queue_) < websocket_send_queue_limit
    /\ write_queue_' = Append(write_queue_, Head(strand).arg)
    /\ DoWrite
    /\ strand' = Tail(strand)
    /\ UNCHANGED <<phase, calling, sent, pending_, closing_, contextVars, reading,
                   closeOp, written, messages, overflow, registryVars, closes>>

(***************************************************************************)
(* Handlers, on the strand                                                 *)
(***************************************************************************)
OnAcceptFailed ==
    /\ Running("on_accept")
    /\ ~Head(strand).arg
    /\ strand' = Tail(strand)
    /\ UNCHANGED <<phase, queueVars, closing_, contextVars, streamVars, overflow,
                   registryVars, closes>>

\* stop() came during the handshake: say goodbye instead of opening
OnAcceptStopping ==
    /\ Running("on_accept")
    /\ Head(strand).arg
    /\ stopping
    /\ strand' = Append(Tail(strand), Task("close", "going_away"))
    /\ reading' = TRUE
    /\ UNCHANGED <<phase, queueVars, closing_, contextVars, writing, lateWrite,
                   closeOp, written, messages, overflow, registryVars, closes>>

\* router->open(): the route handler runs; close() if it throws
OnAccept ==
    /\ Running("on_accept")
    /\ Head(strand).arg
    /\ ~stopping
    /\ calls' = Append(calls, "open")
    /\ \/ strand' = Tail(strand)
       \/ strand' = Append(Tail(strand), Task("close", "internal_error"))
    /\ reading' = TRUE
    /\ UNCHANGED <<phase, queueVars, closing_, closed_, writing, lateWrite,
                   closeOp, written, messages, overflow, registryVars, closes>>

\* on_read(): a message; close() if onMessage throws; read again in any case
OnReadMessage ==
    /\ Running("on_read")
    /\ Head(strand).arg = "message"
    /\ calls' = Emit("message")
    /\ \/ strand' = Tail(strand)
       \/ /\ Emit("message") # calls
          /\ strand' = Append(Tail(strand), Task("close", "internal_error"))
    /\ reading' = TRUE
    /\ UNCHANGED <<phase, queueVars, closing_, closed_, writing, lateWrite,
                   closeOp, written, messages, overflow, registryVars, closes>>

\* on_read(): the end of the stream; onError unless it was closed or aborted
OnReadEnd ==
    /\ Running("on_read")
    /\ Head(strand).arg # "message"
    /\ strand' = Tail(strand)
    /\ EmitClose(IF Head(strand).arg = "error" THEN Emit("error") ELSE calls)
    /\ UNCHANGED <<phase, queueVars, closing_, streamVars, overflow, registryVars, closes>>

\* send_internal()'s lambda
\* - closing: the message is dropped
SendClosing ==
    /\ Running("send")
    /\ closing_
    /\ pending_' = pending_ - 1
    /\ strand' = Tail(strand)
    /\ UNCHANGED <<phase, calling, sent, write_queue_, closing_, contextVars,
                   streamVars, overflow, registryVars, closes>>

\* - slow consumer: the message is dropped and the connection closed
SendOverflow ==
    /\ Running("send")
    /\ ~closing_
    /\ Len(write_queue_) >= websocket_send_queue_limit
    /\ pending_' = pending_ - 1
    /\ overflow' = TRUE
    /\ strand' = Append(Tail(strand), Task("close", "policy_error"))
    /\ UNCHANGED <<phase, calling, sent, write_queue_, closing_, contextVars,
                   streamVars, registryVars, closes>>

\* - queued; the write loop is started if it was idle
SendQueued ==
    /\ Running("send")
    /\ ~closing_
    /\ Len(write_queue_) < websocket_send_queue_limit
    /\ write_queue_' = Append(write_queue_, Head(strand).arg)
    /\ IF Len(write_queue_') = 1 THEN DoWrite ELSE UNCHANGED <<writing, lateWrite>>
    /\ strand' = Tail(strand)
    /\ UNCHANGED <<phase, calling, sent, pending_, closing_, contextVars, reading,
                   closeOp, written, messages, overflow, registryVars, closes>>

\* on_write() without error: the next message, if any
OnWrite ==
    /\ Running("on_write")
    /\ Head(strand).arg
    /\ write_queue_' = Tail(write_queue_)
    /\ pending_' = pending_ - 1
    /\ IF write_queue_' # <<>> THEN DoWrite ELSE UNCHANGED <<writing, lateWrite>>
    /\ strand' = Tail(strand)
    /\ UNCHANGED <<phase, calling, sent, closing_, contextVars, reading, closeOp,
                   written, messages, overflow, registryVars, closes>>

\* on_write() with an error: everything queued is dropped
OnWriteFailed ==
    /\ Running("on_write")
    /\ ~Head(strand).arg
    /\ pending_' = pending_ - Len(write_queue_)
    /\ write_queue_' = <<>>
    /\ strand' = Tail(strand)
    /\ UNCHANGED <<phase, calling, sent, closing_, contextVars, streamVars,
                   overflow, registryVars, closes>>

\* close()'s lambda: only the first one on an open stream has an effect
CloseStarts ==
    /\ Running("close")
    /\ ~closing_
    /\ phase = "open"
    /\ closing_' = TRUE
    /\ closeOp' = TRUE
    /\ strand' = Tail(strand)
    /\ UNCHANGED <<phase, queueVars, contextVars, reading, writing, lateWrite,
                   written, messages, overflow, registryVars, closes>>

CloseIgnored ==
    /\ Running("close")
    /\ closing_ \/ phase # "open"
    /\ strand' = Tail(strand)
    /\ UNCHANGED <<phase, queueVars, closing_, contextVars, streamVars, overflow,
                   registryVars, closes>>

OnClose ==
    /\ Running("on_close")
    /\ strand' = Tail(strand)
    /\ EmitClose(calls)
    /\ UNCHANGED <<phase, queueVars, closing_, streamVars, overflow, registryVars, closes>>

(***************************************************************************)
(* Other threads                                                           *)
(***************************************************************************)
\* send*(): ++pending_, then the post
SendCall ==
    /\ Opened
    /\ phase # "gone"
    /\ sent + calling < MaxSends
    /\ pending_' = pending_ + 1
    /\ calling' = calling + 1
    /\ UNCHANGED <<phase, strand, sent, write_queue_, closing_, contextVars,
                   streamVars, overflow, registryVars, closes>>

SendPost ==
    /\ calling > 0
    /\ calling' = calling - 1
    /\ sent' = sent + 1
    /\ Post(Task("send", sent'))
    /\ UNCHANGED <<phase, pending_, write_queue_, closing_, contextVars, streamVars,
                   overflow, registryVars, closes>>

\* close() by the application
CloseCall ==
    /\ Opened
    /\ phase # "gone"
    /\ closes < MaxCloses
    /\ closes' = closes + 1
    /\ Post(Task("close", "application"))
    /\ UNCHANGED <<phase, queueVars, closing_, contextVars, streamVars, overflow,
                   registryVars>>

\* SessionRegistry::stopAll(): under the lock it takes a reference, then ...
StopAll ==
    /\ stopper = "none"
    /\ stopping' = TRUE
    /\ stopper' = IF registered THEN "holds" ELSE "done"
    /\ UNCHANGED <<phase, strand, queueVars, closing_, contextVars, streamVars,
                   overflow, registered, closes>>

\* ... session->stop(), outside it, posts close(going_away)
StopSession ==
    /\ stopper = "holds"
    /\ stopper' = "done"
    /\ Post(Task("close", "going_away"))
    /\ UNCHANGED <<phase, queueVars, closing_, contextVars, streamVars, overflow,
                   stopping, registered, closes>>

\* ~WebSocketSession(): no task, no operation and no caller refers to it
Destroy ==
    /\ phase = "down"
    /\ strand = <<>>
    /\ calling = 0
    /\ ~reading /\ writing = 0 /\ ~closeOp
    /\ stopper # "holds"
    /\ phase' = "gone"
    /\ registered' = FALSE
    /\ UNCHANGED <<strand, queueVars, closing_, contextVars, streamVars, overflow,
                   stopping, stopper, closes>>

\* A destroyed session stays destroyed
Gone == phase = "gone" /\ UNCHANGED vars

(***************************************************************************)
(* Specification                                                           *)
(***************************************************************************)
Handler ==
    \/ OnAcceptFailed \/ OnAcceptStopping \/ OnAccept
    \/ OnReadMessage \/ OnReadEnd
    \/ SendClosing \/ SendOverflow \/ SendQueued
    \/ OnWrite \/ OnWriteFailed
    \/ CloseStarts \/ CloseIgnored \/ OnClose

Start == RunStopping \/ Run \/ OnReject

AcceptEnds == \E ok \in BOOLEAN : AcceptDone(ok)

ReadEnd == \E r \in {"closed", "error", "aborted"} : ReadEnds(r)

Next ==
    \/ Start \/ AcceptEnds
    \/ StreamDown \/ MessageRead \/ ReadEnd \/ WriteOk \/ WriteFails \/ CloseDone
    \/ Handler
    \/ SendCall \/ SendPost \/ CloseCall \/ StopAll \/ StopSession
    \/ Destroy \/ Gone

Spec == Init /\ [][Next]_vars

(***************************************************************************)
(* Fairness: the io_context runs the strand, operations on a stream that   *)
(* ended complete, a handshake and a close handshake end within their      *)
(* timeouts, a call that started returns.  An open connection may stay     *)
(* open and a write to a slow peer may never complete.                     *)
(***************************************************************************)
Fairness ==
    /\ WF_vars(Handler)
    /\ WF_vars(Start)
    /\ WF_vars(AcceptEnds)
    /\ WF_vars(ReadEnd)
    /\ WF_vars(WriteFails)
    /\ WF_vars(CloseDone)
    /\ WF_vars(closing_ /\ StreamDown)
    /\ WF_vars(SendPost)
    /\ WF_vars(StopSession)
    /\ WF_vars(Destroy)

FairSpec == Spec /\ Fairness

(***************************************************************************)
(* Properties                                                              *)
(***************************************************************************)
Tasks == [op : {"on_accept"}, arg : BOOLEAN]
         \cup [op : {"on_read"}, arg : {"message", "closed", "error", "aborted"}]
         \cup [op : {"send"}, arg : 1 .. MaxSends]
         \cup [op : {"on_write"}, arg : BOOLEAN]
         \cup [op : {"close"}, arg : Codes]
         \cup [op : {"on_close"}, arg : {"none"}]

\* Every variable stays in its type; pending_, unsigned, never wraps below
\* zero and the write queue never exceeds websocket_send_queue_limit.
TypeOK ==
    /\ phase \in Phases
    /\ strand \in Seq(Tasks)
    /\ calling \in 0 .. MaxSends
    /\ sent \in 0 .. MaxSends
    /\ pending_ \in 0 .. MaxSends
    /\ write_queue_ \in Seq(1 .. MaxSends)
    /\ Len(write_queue_) <= websocket_send_queue_limit
    /\ closing_ \in BOOLEAN
    /\ closed_ \in BOOLEAN
    /\ reading \in BOOLEAN
    /\ writing \in 0 .. 1
    /\ lateWrite \in BOOLEAN
    /\ closeOp \in BOOLEAN
    /\ calls \in Seq({"open", "message", "error", "close"})
    /\ written \in Seq(1 .. MaxSends)
    /\ overflow \in BOOLEAN
    /\ stopping \in BOOLEAN
    /\ registered \in BOOLEAN
    /\ stopper \in {"none", "holds", "done"}
    /\ messages \in 0 .. MaxMessages
    /\ closes \in 0 .. MaxCloses

TasksOf(op) == {i \in 1 .. Len(strand) : strand[i].op = op}

\* pendingMessages() is exactly the messages sent and neither written nor
\* dropped: on every path (closing, overflow, write error) each message is
\* taken off the counter once.
PendingExact ==
    pending_ = calling + Cardinality(TasksOf("send")) + Len(write_queue_)

\* One write and one read are outstanding or being handled at a time, as Beast
\* requires.  The write loop runs exactly while messages are queued; the paths
\* into do_read() (handshake, a message, a handler that throws while a close is
\* under way) never start a second loop.  So messages are written in the order
\* they were sent.
OneLoopEach ==
    /\ writing + Cardinality(TasksOf("on_write")) = IF write_queue_ = <<>> THEN 0 ELSE 1
    /\ (IF reading THEN 1 ELSE 0) + Cardinality(TasksOf("on_read")) <= 1
    /\ \A i, j \in 1 .. Len(written) : i < j => written[i] < written[j]

\* Callbacks come in the documented order: onOpen first, then messages, then
\* at most one onError, then onClose once, and nothing after it.
CallbackOrder ==
    \A i \in 1 .. Len(calls) :
        /\ i = 1 <=> calls[i] = "open"
        /\ calls[i] = "close" => i = Len(calls)
        /\ calls[i] = "error" => i < Len(calls) /\ calls[i + 1] = "close"

\* "silently dropping would corrupt what the application thinks was
\* delivered": what was written is what was sent, up to some point.
WrittenWithoutGap == \A i \in 1 .. Len(written) : written[i] = i

\* stop() is never lost, whether it comes before, during or after the
\* handshake: the connection ends without waiting for the peer.  A slow consumer
\* is disconnected once a message was refused.  However an opened connection
\* ends, onClose is reported, exactly once by CallbackOrder.
EndsReported ==
    /\ stopping ~> phase = "gone"
    /\ overflow ~> phase \in {"down", "gone"}
    /\ Opened /\ phase = "down" ~> Opened /\ Last(calls) = "close"

=============================================================================
