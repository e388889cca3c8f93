----------------------- MODULE WebSocketSessionProofs -----------------------
(***************************************************************************)
(* Proofs about WebSocketSession, for any queue limit and any number of    *)
(* sends, messages and closes.                                             *)
(***************************************************************************)
EXTENDS WebSocketSession, SeqLemmas

(***************************************************************************)
(* The inductive invariant                                                 *)
(***************************************************************************)
\* TypeOK without the bounds that the counting below implies
Types ==
    /\ phase \in Phases
    /\ strand \in Seq(Tasks)
    /\ calling \in Nat
    /\ sent \in Nat
    /\ pending_ \in Int
    /\ write_queue_ \in Seq(1 .. MaxSends)
    /\ Len(write_queue_) <= websocket_send_queue_limit
    /\ writing \in Nat
    /\ calls \in Seq({"open", "message", "error", "close"})
    /\ written \in Seq(1 .. MaxSends)
    /\ stopper \in {"none", "holds", "done"}
    /\ messages \in 0 .. MaxMessages
    /\ closes \in 0 .. MaxCloses

Flags ==
    /\ closing_ \in BOOLEAN /\ closed_ \in BOOLEAN
    /\ reading \in BOOLEAN /\ lateWrite \in BOOLEAN /\ closeOp \in BOOLEAN
    /\ overflow \in BOOLEAN /\ stopping \in BOOLEAN /\ registered \in BOOLEAN

\* Tasks of a kind on the strand
N(op) == Cardinality(TasksOf(op))

\* No message is counted twice: it is being posted, on the strand or queued
Counting ==
    /\ sent + calling <= MaxSends
    /\ N("send") + Len(write_queue_) <= sent
    /\ PendingExact

WriteLoop == writing + N("on_write") = IF write_queue_ = <<>> THEN 0 ELSE 1

\* The handshake turns into the read loop, so that there is at most one of it
ReadLoop ==
    /\ (IF phase \in {"new", "accepting"} THEN 1 ELSE 0) + N("on_accept")
           + (IF reading THEN 1 ELSE 0) + N("on_read") <= 1
    /\ Opened => phase \notin {"new", "accepting"} /\ N("on_accept") = 0

Callbacks ==
    /\ CallbackOrder
    /\ \A i \in 1 .. Len(calls) : calls[i] = "close" => closed_

\* What was written, is queued and is still to be queued are numbered upwards
\* in this order; the first of the queue may have been written already
QueueUp ==
    /\ \A i, j \in 1 .. Len(written) : i < j => written[i] < written[j]
    /\ \A i, j \in 1 .. Len(write_queue_) : i < j => write_queue_[i] < write_queue_[j]
    /\ \A i \in 1 .. Len(written), j \in 1 .. Len(write_queue_) :
           \/ written[i] < write_queue_[j]
           \/ j = 1 /\ written[i] = write_queue_[1] /\ writing = 0
    /\ \A i \in 1 .. Len(written) : written[i] <= sent
    /\ \A i \in 1 .. Len(write_queue_) : write_queue_[i] <= sent

SendsUp ==
    /\ \A i, j \in TasksOf("send") : i < j => strand[i].arg < strand[j].arg
    /\ \A i \in 1 .. Len(written), j \in TasksOf("send") : written[i] < strand[j].arg
    /\ \A i \in 1 .. Len(write_queue_), j \in TasksOf("send") :
           write_queue_[i] < strand[j].arg
    /\ \A i \in TasksOf("send") : strand[i].arg <= sent

Numbered == QueueUp /\ SendsUp

IInv == Types /\ Flags /\ Counting /\ WriteLoop /\ ReadLoop /\ Callbacks /\ Numbered

(***************************************************************************)
(* The strand                                                              *)
(***************************************************************************)
One(b) == IF b THEN 1 ELSE 0

Kind(op) == {t \in Tasks : t.op = op}

\* Tasks are counted as the elements of a kind.
LEMMA Counted ==
    ASSUME NEW s \in Seq(Tasks), NEW op
    PROVE  {i \in 1 .. Len(s) : s[i].op = op} = Places(s, Kind(op))
  BY DEF Places, Kind

\* The counts are natural numbers.
LEMMA CountTypes ==
    ASSUME Types
    PROVE  \A op : N(op) \in Nat /\ (N(op) = 0 <=> TasksOf(op) = {})
<1> SUFFICES ASSUME NEW op PROVE N(op) \in Nat /\ (N(op) = 0 <=> TasksOf(op) = {})
  OBVIOUS
<1>1. strand \in Seq(Tasks) BY DEF Types
<1>2. TasksOf(op) = Places(strand, Kind(op)) BY <1>1, Counted DEF TasksOf
<1> QED BY <1>1, <1>2, PlacesFinite DEF N

\* A task is posted.
LEMMA Posted ==
    ASSUME Types, NEW x \in Tasks, strand' = Append(strand, x)
    PROVE  /\ strand' \in Seq(Tasks)
           /\ \A op : N(op)' = N(op) + One(x.op = op)
<1>1. strand \in Seq(Tasks) /\ strand' \in Seq(Tasks) BY DEF Types
<1>2. ASSUME NEW op PROVE N(op)' = N(op) + One(x.op = op)
  <2>1. /\ N(op) = Cardinality(Places(strand, Kind(op)))
        /\ N(op)' = Cardinality(Places(strand', Kind(op)))
    BY <1>1, Counted DEF N, TasksOf
  <2>2. x \in Kind(op) <=> x.op = op BY DEF Kind
  <2> QED BY <1>1, <2>1, <2>2, PlacesAppend DEF One
<1> QED BY <1>1, <1>2

\* The first task runs.
LEMMA Ran ==
    ASSUME Types, strand # <<>>, strand' = Tail(strand)
    PROVE  /\ strand' \in Seq(Tasks) /\ Head(strand) \in Tasks
           /\ \A op : N(op) = N(op)' + One(Head(strand).op = op)
           /\ \A op : N(op)' \in Nat
<1>1. strand \in Seq(Tasks) /\ strand' \in Seq(Tasks) /\ Head(strand) \in Tasks
  BY DEF Types
<1>2. ASSUME NEW op
      PROVE  N(op) = N(op)' + One(Head(strand).op = op) /\ N(op)' \in Nat
  <2>1. /\ N(op) = Cardinality(Places(strand, Kind(op)))
        /\ N(op)' = Cardinality(Places(strand', Kind(op)))
    BY <1>1, Counted DEF N, TasksOf
  <2>2. Head(strand) \in Kind(op) <=> Head(strand).op = op BY <1>1 DEF Kind
  <2> QED BY <1>1, <2>1, <2>2, PlacesTail, PlacesFinite DEF One
<1> QED BY <1>1, <1>2

\* The first task runs and posts another one.
LEMMA RanPosted ==
    ASSUME Types, strand # <<>>, NEW x \in Tasks, strand' = Append(Tail(strand), x)
    PROVE  /\ strand' \in Seq(Tasks) /\ Head(strand) \in Tasks
           /\ \A op : N(op)' + One(Head(strand).op = op) = N(op) + One(x.op = op)
           /\ \A op : N(op)' \in Nat
<1>1. /\ strand \in Seq(Tasks) /\ strand' \in Seq(Tasks) /\ Head(strand) \in Tasks
      /\ Tail(strand) \in Seq(Tasks)
  BY DEF Types
<1>2. ASSUME NEW op
      PROVE  /\ N(op)' + One(Head(strand).op = op) = N(op) + One(x.op = op)
             /\ N(op)' \in Nat
  <2> DEFINE m == Cardinality(Places(Tail(strand), Kind(op)))
  <2>1. /\ N(op) = Cardinality(Places(strand, Kind(op)))
        /\ N(op)' = Cardinality(Places(strand', Kind(op)))
    BY <1>1, Counted DEF N, TasksOf
  <2>2. (Head(strand) \in Kind(op) <=> Head(strand).op = op) /\ (x \in Kind(op) <=> x.op = op)
    BY <1>1 DEF Kind
  <2>3. N(op) = m + One(Head(strand).op = op)
    BY <1>1, <2>1, <2>2, PlacesTail DEF One
  <2>4. N(op)' = m + One(x.op = op)
    <3>1. Cardinality(Places(Append(Tail(strand), x), Kind(op)))
              = m + IF x \in Kind(op) THEN 1 ELSE 0
      BY <1>1, PlacesAppend
    <3> QED BY <2>1, <2>2, <3>1 DEF One
  <2>5. m \in Nat /\ One(x.op = op) \in Nat /\ One(Head(strand).op = op) \in Nat
    BY <1>1, PlacesFinite DEF One
  <2> HIDE DEF m
  <2> QED BY <2>3, <2>4, <2>5
<1> QED BY <1>1, <1>2

\* The tasks that are posted.
LEMMA TaskTypes ==
    /\ \A ok \in BOOLEAN : Task("on_accept", ok) \in Tasks /\ Task("on_write", ok) \in Tasks
    /\ \A r \in {"message", "closed", "error", "aborted"} : Task("on_read", r) \in Tasks
    /\ \A m \in 1 .. MaxSends : Task("send", m) \in Tasks
    /\ \A c \in Codes : Task("close", c) \in Tasks
    /\ Task("on_close", "none") \in Tasks
    /\ \A op, arg : Task(op, arg).op = op /\ Task(op, arg).arg = arg
    /\ \A t \in Tasks : /\ t.op \in {"on_accept", "on_write"} => t.arg \in BOOLEAN
                        /\ t.op = "send" => t.arg \in 1 .. MaxSends
  BY DEF Task, Tasks

(***************************************************************************)
(* Steps, grouped by what they do to the strand                            *)
(***************************************************************************)
Quiet == RunStopping \/ Run \/ OnReject \/ StreamDown \/ SendCall \/ StopAll \/ Destroy \/ Gone

\* The task a step posts
Posting(x) ==
    /\ strand' = Append(strand, x)
    /\ \/ \E ok \in BOOLEAN : x = Task("on_accept", ok) /\ AcceptDone(ok)
       \/ x = Task("on_read", "message") /\ MessageRead
       \/ \E r \in {"closed", "error", "aborted"} : x = Task("on_read", r) /\ ReadEnds(r)
       \/ x = Task("on_write", TRUE) /\ WriteOk
       \/ x = Task("on_write", FALSE) /\ WriteFails
       \/ x = Task("on_close", "none") /\ CloseDone
       \/ x = Task("send", sent + 1) /\ SendPost
       \/ x = Task("close", "application") /\ CloseCall
       \/ x = Task("close", "going_away") /\ StopSession

\* Every step but those of the strand.
LEMMA Steps ==
    ASSUME Next
    PROVE  \/ Quiet /\ strand' = strand
           \/ \E x : Posting(x)
           \/ Handler
<1>1. CASE Start \/ StreamDown \/ SendCall \/ StopAll \/ Destroy \/ Gone
  BY <1>1 DEF Quiet, Start, RunStopping, Run, OnReject, StreamDown, SendCall, StopAll,
              Destroy, Gone, vars
<1>2. ASSUME NEW ok \in BOOLEAN, AcceptDone(ok) PROVE Posting(Task("on_accept", ok))
  BY <1>2 DEF Posting, AcceptDone, Post
<1>3. MessageRead => Posting(Task("on_read", "message"))
  BY DEF Posting, MessageRead, Post
<1>4. ASSUME NEW r \in {"closed", "error", "aborted"}, ReadEnds(r)
      PROVE  Posting(Task("on_read", r))
  BY <1>4 DEF Posting, ReadEnds, Post
<1>5. WriteOk => Posting(Task("on_write", TRUE))
  BY DEF Posting, WriteOk, Post
<1>6. WriteFails => Posting(Task("on_write", FALSE))
  BY DEF Posting, WriteFails, Post
<1>7. CloseDone => Posting(Task("on_close", "none"))
  BY DEF Posting, CloseDone, Post
<1>8. SendPost => Posting(Task("send", sent + 1))
  BY DEF Posting, SendPost, Post
<1>9. CloseCall => Posting(Task("close", "application"))
  BY DEF Posting, CloseCall, Post
<1>10. StopSession => Posting(Task("close", "going_away"))
  BY DEF Posting, StopSession, Post
<1> QED BY <1>1, <1>2, <1>3, <1>4, <1>5, <1>6, <1>7, <1>8, <1>9, <1>10
        DEF Next, AcceptEnds, ReadEnd

\* What is posted is a task.
LEMMA PostsTasks ==
    ASSUME IInv, NEW x, Posting(x)
    PROVE  x \in Tasks
<1>1. SendPost => sent + 1 \in 1 .. MaxSends
  BY SessionAssumption DEF SendPost, IInv, Types, Counting
<1>2. "application" \in Codes /\ "going_away" \in Codes
  BY DEF Codes
<1> QED BY <1>1, <1>2, TaskTypes DEF Posting

\* What handlers do to the strand.
LEMMA HandlerStrand ==
    ASSUME Types, Handler
    PROVE  /\ strand # <<>>
           /\ \/ strand' = Tail(strand)
              \/ \E c \in Codes : strand' = Append(Tail(strand), Task("close", c))
<1>1. {"internal_error", "going_away", "policy_error"} \subseteq Codes
  BY DEF Codes
<1> QED BY <1>1 DEF Handler, Running, OnAcceptFailed, OnAcceptStopping, OnAccept, OnReadMessage,
       OnReadEnd, SendClosing, SendOverflow, SendQueued, OnWrite, OnWriteFailed, CloseStarts,
       CloseIgnored, OnClose

(***************************************************************************)
(* What steps do to the messages, apart from the flags                     *)
(***************************************************************************)
messageVars == <<calling, sent, pending_, write_queue_, writing, written>>

\* The first task, of kind op, runs; it may post a close
Runs(op) ==
    /\ strand # <<>>
    /\ Head(strand).op = op
    /\ \/ strand' = Tail(strand)
       \/ \E c \in Codes : strand' = Append(Tail(strand), Task("close", c))

\* A step that is neither about messages nor about their writes
Elsewhere ==
    /\ UNCHANGED messageVars
    /\ \/ strand' = strand
       \/ \E x \in Tasks : x.op \notin {"send", "on_write"} /\ strand' = Append(strand, x)
       \/ \E op \in {"on_accept", "on_read", "close", "on_close"} : Runs(op)

Counts ==
    /\ strand' = strand
    /\ sent + calling < MaxSends
    /\ calling' = calling + 1 /\ pending_' = pending_ + 1
    /\ UNCHANGED <<sent, write_queue_, writing, written>>

Posts ==
    /\ strand' = Append(strand, Task("send", sent + 1))
    /\ calling > 0
    /\ calling' = calling - 1 /\ sent' = sent + 1
    /\ UNCHANGED <<pending_, write_queue_, writing, written>>

Writes ==
    /\ \E ok \in BOOLEAN : strand' = Append(strand, Task("on_write", ok))
    /\ writing > 0
    /\ writing' = writing - 1
    /\ written' \in {written, Append(written, Head(write_queue_))}
    /\ UNCHANGED <<calling, sent, pending_, write_queue_>>

Drops ==
    /\ Runs("send")
    /\ pending_' = pending_ - 1
    /\ UNCHANGED <<calling, sent, write_queue_, writing, written>>

Queues ==
    /\ Runs("send")
    /\ Len(write_queue_) < websocket_send_queue_limit
    /\ write_queue_' = Append(write_queue_, Head(strand).arg)
    /\ writing' = IF Len(write_queue_') = 1 THEN writing + 1 ELSE writing
    /\ UNCHANGED <<calling, sent, pending_, written>>

Advances ==
    /\ Runs("on_write")
    /\ write_queue_' = Tail(write_queue_)
    /\ pending_' = pending_ - 1
    /\ writing' = IF write_queue_' # <<>> THEN writing + 1 ELSE writing
    /\ UNCHANGED <<calling, sent, written>>

Clears ==
    /\ Runs("on_write")
    /\ pending_' = pending_ - Len(write_queue_)
    /\ write_queue_' = <<>>
    /\ UNCHANGED <<calling, sent, writing, written>>

\* A task that runs is counted no longer; a close may be new.
LEMMA RunsCounts ==
    ASSUME Types, NEW op, Runs(op)
    PROVE  /\ strand' \in Seq(Tasks) /\ Head(strand) \in Tasks
           /\ \A k : N(k)' \in Nat
           /\ \A k : k \notin {op, "close"} => N(k)' = N(k)
           /\ op # "close" => N(op) = N(op)' + 1
<1>0. strand # <<>> /\ Head(strand).op = op
  BY DEF Runs
<1>1. ASSUME strand' = Tail(strand)
      PROVE  /\ strand' \in Seq(Tasks) /\ Head(strand) \in Tasks
             /\ \A k : N(k)' \in Nat
             /\ \A k : k # "close" => N(k) = N(k)' + One(op = k)
  BY <1>0, <1>1, Ran
<1>2. ASSUME NEW c \in Codes, strand' = Append(Tail(strand), Task("close", c))
      PROVE  /\ strand' \in Seq(Tasks) /\ Head(strand) \in Tasks
             /\ \A k : N(k)' \in Nat
             /\ \A k : k # "close" => N(k) = N(k)' + One(op = k)
  <2>1. Task("close", c) \in Tasks /\ Task("close", c).op = "close"
    BY TaskTypes
  <2>2. /\ strand' \in Seq(Tasks) /\ Head(strand) \in Tasks
        /\ \A k : N(k)' \in Nat
        /\ \A k : N(k)' + One(op = k) = N(k) + One(Task("close", c).op = k)
    BY <1>0, <1>2, <2>1, RanPosted
  <2>3. ASSUME NEW k, k # "close" PROVE N(k) = N(k)' + One(op = k)
    <3>1. N(k) \in Nat /\ One(Task("close", c).op = k) = 0
      BY <2>1, <2>3, CountTypes DEF One
    <3> QED BY <2>2, <3>1
  <2> QED BY <2>2, <2>3
<1>3. /\ strand' \in Seq(Tasks) /\ Head(strand) \in Tasks
      /\ \A k : N(k)' \in Nat
      /\ \A k : k # "close" => N(k) = N(k)' + One(op = k)
  BY <1>1, <1>2 DEF Runs
<1>4. ASSUME NEW k, k \notin {op, "close"} PROVE N(k)' = N(k)
  <2>1. N(k) = N(k)' + One(op = k) /\ N(k)' \in Nat BY <1>3, <1>4
  <2>2. One(op = k) = 0 BY <1>4 DEF One
  <2> QED BY <2>1, <2>2
<1>5. ASSUME op # "close" PROVE N(op) = N(op)' + 1
  <2>1. N(op) = N(op)' + One(op = op) BY <1>3, <1>5
  <2> QED BY <2>1 DEF One
<1> QED BY <1>3, <1>4, <1>5

\* A task that is posted is counted.
LEMMA PostsCounts ==
    ASSUME Types, NEW op, NEW arg, Task(op, arg) \in Tasks,
           strand' = Append(strand, Task(op, arg))
    PROVE  /\ strand' \in Seq(Tasks)
           /\ \A k : k # op => N(k)' = N(k)
           /\ N(op)' = N(op) + 1
<1>1. /\ strand' \in Seq(Tasks)
      /\ \A k : N(k)' = N(k) + One(Task(op, arg).op = k)
  BY Posted
<1>2. Task(op, arg).op = op BY TaskTypes
<1>3. \A k : N(k) \in Nat BY CountTypes
<1>4. ASSUME NEW k, k # op PROVE N(k)' = N(k)
  <2>1. One(Task(op, arg).op = k) = 0 BY <1>2, <1>4 DEF One
  <2> QED BY <1>1, <1>3, <2>1
<1>5. N(op)' = N(op) + 1
  BY <1>1, <1>2 DEF One
<1> QED BY <1>1, <1>4, <1>5

\* Steps elsewhere leave the tasks about messages alone.
LEMMA ElsewhereCounts ==
    ASSUME Types, Elsewhere
    PROVE  strand' \in Seq(Tasks) /\ N("send")' = N("send") /\ N("on_write")' = N("on_write")
<1>1. CASE strand' = strand
  BY <1>1 DEF Types, N, TasksOf
<1>2. ASSUME NEW x \in Tasks, x.op \notin {"send", "on_write"}, strand' = Append(strand, x)
      PROVE  strand' \in Seq(Tasks) /\ N("send")' = N("send") /\ N("on_write")' = N("on_write")
  <2>1. strand' \in Seq(Tasks) /\ \A k : N(k)' = N(k) + One(x.op = k)
    BY <1>2, Posted
  <2>2. One(x.op = "send") = 0 /\ One(x.op = "on_write") = 0
    BY <1>2 DEF One
  <2>3. N("send") \in Nat /\ N("on_write") \in Nat
    BY CountTypes
  <2> QED BY <2>1, <2>2, <2>3
<1>3. ASSUME NEW op \in {"on_accept", "on_read", "close", "on_close"}, Runs(op)
      PROVE  strand' \in Seq(Tasks) /\ N("send")' = N("send") /\ N("on_write")' = N("on_write")
  BY <1>3, RunsCounts
<1> QED BY <1>1, <1>2, <1>3 DEF Elsewhere

\* Handlers other than those of messages.
LEMMA OtherHandlers ==
    ASSUME Types, \/ OnAcceptFailed \/ OnAcceptStopping \/ OnAccept \/ OnReadMessage \/ OnReadEnd
                  \/ CloseStarts \/ CloseIgnored \/ OnClose
    PROVE  Elsewhere
<1> USE DEF queueVars, streamVars, contextVars, registryVars
<1>0. Handler
  BY DEF Handler
<1>1. UNCHANGED messageVars
  BY Zenon DEF messageVars, OnAcceptFailed, OnAcceptStopping, OnAccept, OnReadMessage, OnReadEnd,
               CloseStarts, CloseIgnored, OnClose
<1>2. Head(strand).op \in {"on_accept", "on_read", "close", "on_close"}
  BY DEF Running, OnAcceptFailed, OnAcceptStopping, OnAccept, OnReadMessage, OnReadEnd,
         CloseStarts, CloseIgnored, OnClose
<1> QED BY <1>0, <1>1, <1>2, HandlerStrand DEF Elsewhere, Runs

\* Every step does one of these.
LEMMA MessageSteps ==
    ASSUME IInv, [Next]_vars
    PROVE  Elsewhere \/ Counts \/ Posts \/ Writes \/ Drops \/ Queues \/ Advances \/ Clears
<1> USE DEF queueVars, streamVars, contextVars, registryVars
<1>0. Types
  BY DEF IInv
<1>1. CASE Quiet /\ strand' = strand
  <2>1. CASE SendCall
    BY <1>1, <2>1, Zenon DEF SendCall, Counts
  <2>2. CASE ~SendCall
    BY <1>1, <2>2, Zenon DEF Quiet, Elsewhere, messageVars, RunStopping, Run, OnReject, StreamDown,
                             StopAll, Destroy, Gone, vars
  <2> QED BY <2>1, <2>2
<1>2. ASSUME NEW x, Posting(x)
      PROVE  Elsewhere \/ Posts \/ Writes
  <2>1. x \in Tasks /\ strand' = Append(strand, x)
    BY <1>2, PostsTasks DEF Posting
  <2>2. CASE SendPost
    BY <2>2 DEF SendPost, Post, Posts
  <2>3. CASE WriteOk
    <3>1. /\ writing > 0 /\ writing' = writing - 1
          /\ written' = Append(written, Head(write_queue_))
          /\ UNCHANGED <<calling, sent, pending_, write_queue_>>
          /\ strand' = Append(strand, Task("on_write", TRUE))
      BY <2>3, Zenon DEF WriteOk, Post
    <3> QED BY <3>1 DEF Writes
  <2>4. CASE WriteFails
    <3>1. /\ writing > 0 /\ writing' = writing - 1
          /\ UNCHANGED <<calling, sent, pending_, write_queue_, written>>
          /\ strand' = Append(strand, Task("on_write", FALSE))
      BY <2>4, Zenon DEF WriteFails, Post
    <3> QED BY <3>1 DEF Writes
  <2>5. CASE \E ok \in BOOLEAN : x = Task("on_accept", ok) /\ AcceptDone(ok)
    <3>1. UNCHANGED messageVars BY <2>5, Zenon DEF AcceptDone, messageVars
    <3>2. x.op = "on_accept" BY <2>5, TaskTypes
    <3> QED BY <2>1, <3>1, <3>2 DEF Elsewhere
  <2>6. CASE \/ x = Task("on_read", "message") /\ MessageRead
             \/ \E r \in {"closed", "error", "aborted"} : x = Task("on_read", r) /\ ReadEnds(r)
    <3>1. UNCHANGED messageVars BY <2>6, Zenon DEF MessageRead, ReadEnds, messageVars
    <3>2. x.op = "on_read" BY <2>6, TaskTypes
    <3> QED BY <2>1, <3>1, <3>2 DEF Elsewhere
  <2>7. CASE x = Task("on_close", "none") /\ CloseDone
    <3>1. UNCHANGED messageVars BY <2>7, Zenon DEF CloseDone, messageVars
    <3>2. x.op = "on_close" BY <2>7, TaskTypes
    <3> QED BY <2>1, <3>1, <3>2 DEF Elsewhere
  <2>8. CASE \/ x = Task("close", "application") /\ CloseCall
             \/ x = Task("close", "going_away") /\ StopSession
    <3>1. UNCHANGED messageVars BY <2>8, Zenon DEF CloseCall, StopSession, messageVars
    <3>2. x.op = "close" BY <2>8, TaskTypes
    <3> QED BY <2>1, <3>1, <3>2 DEF Elsewhere
  <2> QED BY <1>2, <2>2, <2>3, <2>4, <2>5, <2>6, <2>7, <2>8, Zenon DEF Posting
<1>3. CASE Handler
  <2>0. Running("send") => Runs("send")
    BY <1>0, <1>3, HandlerStrand DEF Running, Runs
  <2>1. Running("on_write") => Runs("on_write")
    BY <1>0, <1>3, HandlerStrand DEF Running, Runs
  <2>2. CASE \/ OnAcceptFailed \/ OnAcceptStopping \/ OnAccept \/ OnReadMessage \/ OnReadEnd
             \/ CloseStarts \/ CloseIgnored \/ OnClose
    BY <1>0, <2>2, OtherHandlers
  <2>3. CASE SendClosing \/ SendOverflow
    BY <2>0, <2>3, Zenon DEF SendClosing, SendOverflow, Drops
  <2>4. CASE SendQueued
    <3>1. writing' = IF Len(write_queue_') = 1 THEN writing + 1 ELSE writing
      BY <2>4, Zenon DEF SendQueued, DoWrite
    <3> QED BY <2>0, <2>4, <3>1, Zenon DEF SendQueued, Queues
  <2>5. CASE OnWrite
    <3>1. writing' = IF write_queue_' # <<>> THEN writing + 1 ELSE writing
      BY <2>5, Zenon DEF OnWrite, DoWrite
    <3> QED BY <2>1, <2>5, <3>1, Zenon DEF OnWrite, Advances
  <2>6. CASE OnWriteFailed
    BY <2>1, <2>6, Zenon DEF OnWriteFailed, Clears
  <2> QED BY <1>3, <2>2, <2>3, <2>4, <2>5, <2>6 DEF Handler
<1>4. CASE UNCHANGED vars
  BY <1>4, Zenon DEF vars, Elsewhere, messageVars
<1> QED BY <1>1, <1>2, <1>3, <1>4, Steps

(***************************************************************************)
(* Types                                                                   *)
(***************************************************************************)
\* A write or a write completion means that a message is queued.
LEMMA Queued ==
    ASSUME Types, WriteLoop, writing > 0 \/ N("on_write") > 0
    PROVE  write_queue_ # <<>>
<1>1. N("on_write") \in Nat /\ writing \in Nat
  BY CountTypes DEF Types
<1>2. writing + N("on_write") > 0
  BY <1>1
<1> QED BY <1>2 DEF WriteLoop

\* The flags are TRUE or FALSE.
LEMMA FlagsNext == IInv /\ [Next]_vars => Flags'
<1> SUFFICES ASSUME IInv, [Next]_vars PROVE Flags'
  OBVIOUS
<1> USE DEF queueVars, streamVars, contextVars, registryVars
<1>0. Flags
  BY DEF IInv
<1>1. CASE Quiet
  BY <1>0, <1>1, ZenonT(30)
  DEF Flags, Quiet, RunStopping, Run, OnReject, StreamDown, SendCall, StopAll, Destroy, Gone, vars
<1>2. ASSUME NEW x, Posting(x) PROVE Flags'
  BY <1>0, <1>2, ZenonT(30)
  DEF Flags, Posting, AcceptDone, MessageRead, ReadEnds, WriteOk, WriteFails, CloseDone,
      SendPost, CloseCall, StopSession
<1>3. CASE Handler
  <2>1. CASE OnAcceptFailed \/ OnAcceptStopping \/ OnAccept \/ OnReadMessage
    BY <1>0, <2>1, Zenon DEF Flags, OnAcceptFailed, OnAcceptStopping, OnAccept, OnReadMessage
  <2>2. CASE OnReadEnd \/ OnClose
    BY <1>0, <2>2, Zenon DEF Flags, OnReadEnd, OnClose, EmitClose
  <2>3. CASE SendClosing \/ SendOverflow \/ OnWriteFailed \/ CloseStarts \/ CloseIgnored
    BY <1>0, <2>3, Zenon DEF Flags, SendClosing, SendOverflow, OnWriteFailed, CloseStarts,
                            CloseIgnored
  <2>4. CASE SendQueued \/ OnWrite
    <3>1. lateWrite' = lateWrite \/ lateWrite' = closing_
      BY <2>4, Zenon DEF SendQueued, OnWrite, DoWrite
    <3> QED BY <1>0, <2>4, <3>1, Zenon DEF Flags, SendQueued, OnWrite
  <2> QED BY <1>3, <2>1, <2>2, <2>3, <2>4 DEF Handler
<1>4. CASE UNCHANGED vars
  BY <1>0, <1>4, Zenon DEF Flags, vars
<1> QED BY <1>1, <1>2, <1>3, <1>4, Steps

\* The types of what concerns messages.
LEMMA MessageTypesNext ==
    ASSUME IInv, [Next]_vars
    PROVE  /\ strand' \in Seq(Tasks)
           /\ calling' \in Nat /\ sent' \in Nat /\ pending_' \in Int
           /\ write_queue_' \in Seq(1 .. MaxSends)
           /\ Len(write_queue_') <= websocket_send_queue_limit
           /\ writing' \in Nat
           /\ written' \in Seq(1 .. MaxSends)
<1>0. Types /\ WriteLoop /\ Counting
  BY DEF IInv
<1>1. CASE Elsewhere
  BY <1>0, <1>1, ElsewhereCounts DEF Types, Elsewhere, messageVars
<1>2. CASE Counts
  BY <1>0, <1>2 DEF Types, Counts
<1>3. CASE Posts
  <2>1. sent + 1 \in 1 .. MaxSends
    BY <1>0, <1>3, SessionAssumption DEF Types, Counting, Posts
  <2>2. strand' \in Seq(Tasks)
    BY <1>0, <1>3, <2>1, TaskTypes, PostsCounts DEF Posts
  <2> QED BY <1>0, <1>3, <2>2 DEF Types, Posts
<1>4. CASE Writes
  <2>1. strand' \in Seq(Tasks)
    BY <1>0, <1>4, TaskTypes, PostsCounts DEF Writes
  <2>2. Head(write_queue_) \in 1 .. MaxSends
    <3>1. write_queue_ # <<>> BY <1>0, <1>4, Queued DEF Writes
    <3>2. write_queue_ \in Seq(1 .. MaxSends) BY <1>0 DEF Types
    <3> QED BY <3>1, <3>2, TailFacts
  <2>3. written' \in Seq(1 .. MaxSends)
    <3>1. written \in Seq(1 .. MaxSends) BY <1>0 DEF Types
    <3>2. CASE written' = written BY <3>1, <3>2
    <3>3. CASE written' = Append(written, Head(write_queue_))
      BY <2>2, <3>1, <3>3, AppendFacts
    <3> QED BY <1>4, <3>2, <3>3 DEF Writes
  <2> QED BY <1>0, <1>4, <2>1, <2>3 DEF Types, Writes
<1>5. CASE Drops
  <2>1. strand' \in Seq(Tasks) BY <1>0, <1>5, RunsCounts DEF Drops
  <2> QED BY <1>0, <1>5, <2>1 DEF Types, Drops
<1>6. CASE Queues
  <2>1. strand' \in Seq(Tasks) /\ Head(strand) \in Tasks /\ Head(strand).op = "send"
    BY <1>0, <1>6, RunsCounts DEF Queues, Runs
  <2>2. Head(strand).arg \in 1 .. MaxSends
    BY <2>1, TaskTypes
  <2>3. write_queue_' \in Seq(1 .. MaxSends) /\ Len(write_queue_') <= websocket_send_queue_limit
    BY <1>0, <1>6, <2>2, SessionAssumption DEF Types, Queues
  <2> QED BY <1>0, <1>6, <2>1, <2>3 DEF Types, Queues
<1>7. CASE Advances
  <2>1. strand' \in Seq(Tasks) /\ N("on_write") > 0
    BY <1>0, <1>7, RunsCounts DEF Advances
  <2>2. write_queue_ # <<>>
    BY <1>0, <2>1, Queued
  <2>3. write_queue_' \in Seq(1 .. MaxSends) /\ Len(write_queue_') <= websocket_send_queue_limit
    BY <1>0, <1>7, <2>2, SessionAssumption DEF Types, Advances
  <2> QED BY <1>0, <1>7, <2>1, <2>3 DEF Types, Advances
<1>8. CASE Clears
  <2>1. strand' \in Seq(Tasks) BY <1>0, <1>8, RunsCounts DEF Clears
  <2>2. Len(<<>>) = 0 /\ <<>> \in Seq(1 .. MaxSends) OBVIOUS
  <2> QED BY <1>0, <1>8, <2>1, <2>2, SessionAssumption DEF Types, Clears
<1> QED BY <1>1, <1>2, <1>3, <1>4, <1>5, <1>6, <1>7, <1>8, MessageSteps

\* Each message is counted once.
LEMMA CountingNext == IInv /\ [Next]_vars => Counting'
<1> SUFFICES ASSUME IInv, [Next]_vars PROVE Counting'
  OBVIOUS
<1>0. Types /\ WriteLoop /\ Counting
  BY DEF IInv
<1>1. /\ calling \in Nat /\ sent \in Nat /\ pending_ \in Int
      /\ write_queue_ \in Seq(1 .. MaxSends) /\ Len(write_queue_) \in Nat
      /\ N("send") \in Nat
      /\ sent + calling <= MaxSends /\ N("send") + Len(write_queue_) <= sent
      /\ pending_ = calling + N("send") + Len(write_queue_)
      /\ MaxSends \in Nat
  BY <1>0, CountTypes, SessionAssumption DEF Types, Counting, PendingExact, N
<1> DEFINE W == Len(write_queue_)
           S == N("send")
<1> SUFFICES /\ sent' + calling' <= MaxSends
             /\ S' + W' <= sent'
             /\ pending_' = calling' + S' + W'
  BY DEF Counting, PendingExact, N
<1>2. CASE Elsewhere
  <2>1. UNCHANGED <<calling, sent, pending_, write_queue_>> /\ S' = S
    BY <1>0, <1>2, ElsewhereCounts DEF Elsewhere, messageVars
  <2> QED BY <1>1, <2>1
<1>3. CASE Counts
  <2>1. S' = S BY <1>3 DEF Counts, N, TasksOf
  <2> QED BY <1>1, <1>3, <2>1 DEF Counts
<1>4. CASE Posts
  <2>1. sent + 1 \in 1 .. MaxSends
    BY <1>1, <1>4 DEF Posts
  <2>2. S' = S + 1
    BY <1>0, <1>4, <2>1, TaskTypes, PostsCounts DEF Posts
  <2> QED BY <1>1, <1>4, <2>2, SMTT(30) DEF Posts
<1>5. CASE Writes
  <2>1. S' = S BY <1>0, <1>5, TaskTypes, PostsCounts DEF Writes
  <2>2. UNCHANGED <<calling, sent, pending_, write_queue_>> BY <1>5 DEF Writes
  <2> QED BY <1>1, <2>1, <2>2
<1>6. CASE Drops
  <2>1. S = S' + 1 /\ S' \in Nat BY <1>0, <1>6, RunsCounts DEF Drops
  <2> QED BY <1>1, <1>6, <2>1, SMTT(30) DEF Drops
<1>7. CASE Queues
  <2>1. S = S' + 1 /\ S' \in Nat BY <1>0, <1>7, RunsCounts DEF Queues
  <2>2. W' = W + 1
    BY <1>1, <1>7 DEF Queues
  <2>3. UNCHANGED <<calling, sent, pending_>> BY <1>7 DEF Queues
  <2> QED BY <1>1, <2>1, <2>2, <2>3, SMTT(30)
<1>8. CASE Advances
  <2>1. S' = S /\ N("on_write") > 0 BY <1>0, <1>8, RunsCounts DEF Advances
  <2>2. write_queue_ # <<>> BY <1>0, <2>1, Queued
  <2>3. W' = W - 1
    BY <1>1, <1>8, <2>2 DEF Advances
  <2>4. UNCHANGED <<calling, sent>> /\ pending_' = pending_ - 1 BY <1>8 DEF Advances
  <2> QED BY <1>1, <2>1, <2>3, <2>4, SMTT(30)
<1>9. CASE Clears
  <2>1. S' = S BY <1>0, <1>9, RunsCounts DEF Clears
  <2>2. W' = 0 BY <1>9 DEF Clears
  <2> QED BY <1>1, <1>9, <2>1, <2>2 DEF Clears
<1> QED BY <1>2, <1>3, <1>4, <1>5, <1>6, <1>7, <1>8, <1>9, MessageSteps

\* One write at a time, exactly while messages are queued.
LEMMA WriteLoopNext == IInv /\ [Next]_vars => WriteLoop'
<1> SUFFICES ASSUME IInv, [Next]_vars PROVE WriteLoop'
  OBVIOUS
<1>0. Types /\ WriteLoop /\ Counting
  BY DEF IInv
<1>1. /\ write_queue_ \in Seq(1 .. MaxSends) /\ writing \in Nat /\ N("on_write") \in Nat
      /\ writing + N("on_write") = IF write_queue_ = <<>> THEN 0 ELSE 1
  BY <1>0, CountTypes DEF Types, WriteLoop
<1> SUFFICES writing' + N("on_write")' = IF write_queue_' = <<>> THEN 0 ELSE 1
  BY DEF WriteLoop
<1> DEFINE O == N("on_write")
<1>2. CASE Elsewhere
  <2>1. UNCHANGED <<writing, write_queue_>> /\ O' = O
    BY <1>0, <1>2, ElsewhereCounts DEF Elsewhere, messageVars
  <2> QED BY <1>1, <2>1
<1>3. CASE Counts
  <2>1. UNCHANGED <<writing, write_queue_>> /\ O' = O BY <1>3 DEF Counts, N, TasksOf
  <2> QED BY <1>1, <2>1
<1>4. CASE Posts
  <2>1. sent + 1 \in 1 .. MaxSends
    BY <1>0, <1>4, SessionAssumption DEF Types, Counting, Posts
  <2>2. UNCHANGED <<writing, write_queue_>> /\ O' = O
    BY <1>0, <1>4, <2>1, TaskTypes, PostsCounts DEF Posts
  <2> QED BY <1>1, <2>2
<1>5. CASE Writes
  <2>1. O' = O + 1 BY <1>0, <1>5, TaskTypes, PostsCounts DEF Writes
  <2>2. writing' = writing - 1 /\ write_queue_' = write_queue_ BY <1>5 DEF Writes
  <2> QED BY <1>1, <2>1, <2>2
<1>6. CASE Drops
  <2>1. UNCHANGED <<writing, write_queue_>> /\ O' = O BY <1>0, <1>6, RunsCounts DEF Drops
  <2> QED BY <1>1, <2>1
<1>7. CASE Queues
  <2>1. O' = O BY <1>0, <1>7, RunsCounts DEF Queues
  <2>2. write_queue_' # <<>> /\ (Len(write_queue_') = 1 <=> write_queue_ = <<>>)
    BY <1>1, <1>7 DEF Queues
  <2>3. writing' = IF Len(write_queue_') = 1 THEN writing + 1 ELSE writing
    BY <1>7 DEF Queues
  <2> QED BY <1>1, <2>1, <2>2, <2>3
<1>8. CASE Advances
  <2>1. O = O' + 1 /\ O' \in Nat BY <1>0, <1>8, RunsCounts DEF Advances
  <2>2. writing' = IF write_queue_' # <<>> THEN writing + 1 ELSE writing
    BY <1>8 DEF Advances
  <2> QED BY <1>1, <2>1, <2>2
<1>9. CASE Clears
  <2>1. O = O' + 1 /\ O' \in Nat BY <1>0, <1>9, RunsCounts DEF Clears
  <2>2. write_queue_' = <<>> /\ writing' = writing BY <1>9 DEF Clears
  <2> QED BY <1>1, <2>1, <2>2
<1> QED BY <1>2, <1>3, <1>4, <1>5, <1>6, <1>7, <1>8, <1>9, MessageSteps

(***************************************************************************)
(* The order of the messages                                               *)
(***************************************************************************)
\* The sends on the strand were there before, d places further back
Later(d) == \A i \in TasksOf("send")' : i + d \in TasksOf("send") /\ strand'[i] = strand[i + d]

\* What sends there are, and how they are numbered
LEMMA SendTypes ==
    ASSUME Types
    PROVE  \A i \in TasksOf("send") : i \in Nat /\ strand[i].arg \in 1 .. MaxSends
<1> SUFFICES ASSUME NEW i \in TasksOf("send")
             PROVE  i \in Nat /\ strand[i].arg \in 1 .. MaxSends
  OBVIOUS
<1>1. i \in 1 .. Len(strand) /\ strand[i].op = "send" /\ strand \in Seq(Tasks)
  BY DEF TasksOf, Types
<1>2. i \in Nat /\ strand[i] \in Tasks
  BY <1>1
<1> QED BY <1>1, <1>2, TaskTypes

\* Running a task moves the others up.
LEMMA RunsLater ==
    ASSUME Types, NEW op, Runs(op)
    PROVE  Later(1)
<1> SUFFICES ASSUME NEW i \in TasksOf("send")'
             PROVE  i + 1 \in TasksOf("send") /\ strand'[i] = strand[i + 1]
  BY DEF Later
<1>0. strand \in Seq(Tasks) /\ strand # <<>>
  BY DEF Types, Runs
<1>1. /\ i \in 1 .. Len(strand') /\ strand'[i].op = "send"
  BY DEF TasksOf
<1>2. CASE strand' = Tail(strand)
  <2>1. i + 1 \in 1 .. Len(strand) /\ strand'[i] = strand[i + 1]
    BY <1>0, <1>1, <1>2
  <2> QED BY <1>1, <2>1 DEF TasksOf
<1>3. ASSUME NEW c \in Codes, strand' = Append(Tail(strand), Task("close", c))
      PROVE  i + 1 \in TasksOf("send") /\ strand'[i] = strand[i + 1]
  <2>1. Task("close", c) \in Tasks /\ Task("close", c).op = "close"
    BY TaskTypes
  <2>2. Tail(strand) \in Seq(Tasks) /\ Len(Tail(strand)) = Len(strand) - 1 /\ Len(strand) \in Nat
    BY <1>0
  <2>3. Len(strand') = Len(strand) /\ strand'[Len(strand)] = Task("close", c)
    BY <1>0, <1>3, <2>1, <2>2
  <2>4. i # Len(strand)
    BY <1>1, <2>1, <2>3
  <2>5. i \in 1 .. Len(strand) - 1
    <3>1. Len(strand) \in Nat /\ i \in 1 .. Len(strand) BY <1>1, <2>2, <2>3
    <3> QED BY <2>4, <3>1
  <2>6. strand'[i] = Tail(strand)[i]
    BY <1>3, <2>1, <2>2, <2>5
  <2>7. i + 1 \in 1 .. Len(strand) /\ strand'[i] = strand[i + 1]
    BY <1>0, <2>5, <2>6
  <2> QED BY <1>1, <2>7 DEF TasksOf
<1> QED BY <1>2, <1>3 DEF Runs

\* Posting another task leaves the sends where they are.
LEMMA PostsLater ==
    ASSUME Types, NEW x \in Tasks, x.op # "send", strand' = Append(strand, x)
    PROVE  Later(0)
<1> SUFFICES ASSUME NEW i \in TasksOf("send")'
             PROVE  i + 0 \in TasksOf("send") /\ strand'[i] = strand[i + 0]
  BY DEF Later
<1>0. strand \in Seq(Tasks) /\ Len(strand) \in Nat
  BY DEF Types
<1>1. i \in 1 .. Len(strand') /\ strand'[i].op = "send"
  BY DEF TasksOf
<1>2. Len(strand') = Len(strand) + 1 /\ strand'[Len(strand) + 1] = x
  BY <1>0
<1>3. i # Len(strand) + 1
  BY <1>1, <1>2
<1>4. i \in 1 .. Len(strand) /\ i + 0 = i
  BY <1>0, <1>1, <1>2, <1>3
<1>5. strand'[i] = strand[i]
  BY <1>0, <1>4
<1> QED BY <1>1, <1>4, <1>5 DEF TasksOf

\* Steps elsewhere do one or the other.
LEMMA ElsewhereLater ==
    ASSUME Types, Elsewhere
    PROVE  Later(0) \/ Later(1)
<1>1. CASE strand' = strand
  <2>1. TasksOf("send")' = TasksOf("send") BY <1>1 DEF TasksOf
  <2>2. \A i \in TasksOf("send") : i + 0 = i BY SendTypes
  <2> QED BY <1>1, <2>1, <2>2 DEF Later
<1> QED BY <1>1, PostsLater, RunsLater DEF Elsewhere

\* When nothing new is queued or written, the sends stay above what is.
LEMMA SendsKept ==
    ASSUME Types, SendsUp, Later(0) \/ Later(1), sent' = sent,
           \A i \in 1 .. Len(written') : \/ \E k \in 1 .. Len(written) : written'[i] = written[k]
                                         \/ \E k \in 1 .. Len(write_queue_) :
                                                written'[i] = write_queue_[k],
           \A i \in 1 .. Len(write_queue_') : \/ \E k \in 1 .. Len(write_queue_) :
                                                    write_queue_'[i] = write_queue_[k]
                                              \/ /\ 1 \in TasksOf("send") /\ Later(1)
                                                 /\ write_queue_'[i] = strand[1].arg
    PROVE  SendsUp'
<1>1. PICK d \in {0, 1} : Later(d) /\ (Later(1) => d = 1)
  OBVIOUS
<1>2. ASSUME NEW i \in TasksOf("send")'
      PROVE  i \in Nat /\ i + d \in TasksOf("send") /\ strand'[i].arg = strand[i + d].arg
  <2>1. i \in 1 .. Len(strand') BY DEF TasksOf
  <2> QED BY <1>1, <2>1 DEF Later
<1>3. \A i, j \in TasksOf("send")' : i < j => strand'[i].arg < strand'[j].arg
  BY <1>1, <1>2 DEF SendsUp
<1>4. \A i \in TasksOf("send")' : strand'[i].arg <= sent'
  BY <1>2 DEF SendsUp
<1>5. \A i \in 1 .. Len(written'), j \in TasksOf("send")' : written'[i] < strand'[j].arg
  BY <1>2 DEF SendsUp
<1>6. ASSUME NEW i \in 1 .. Len(write_queue_'), NEW j \in TasksOf("send")'
      PROVE  write_queue_'[i] < strand'[j].arg
  <2>1. ASSUME NEW k \in 1 .. Len(write_queue_), write_queue_'[i] = write_queue_[k]
        PROVE  write_queue_'[i] < strand'[j].arg
    BY <1>2, <2>1 DEF SendsUp
  <2>2. ASSUME 1 \in TasksOf("send"), Later(1), write_queue_'[i] = strand[1].arg
        PROVE  write_queue_'[i] < strand'[j].arg
    <3>1. d = 1 BY <1>1, <2>2
    <3>2. 1 < j + d
      <4>1. j \in 1 .. Len(strand') BY DEF TasksOf
      <4> QED BY <3>1, <4>1
    <3> QED BY <1>2, <2>2, <3>2 DEF SendsUp
  <2> QED BY <2>1, <2>2
<1> QED BY <1>3, <1>4, <1>5, <1>6 DEF SendsUp

\* The facts about numbers as the proofs use them.
LEMMA UpTypes ==
    ASSUME Types
    PROVE  /\ sent \in Nat /\ writing \in Nat /\ Len(written) \in Nat /\ Len(write_queue_) \in Nat
           /\ \A i \in 1 .. Len(written) : written[i] \in Nat
           /\ \A i \in 1 .. Len(write_queue_) : write_queue_[i] \in Nat
  BY SessionAssumption DEF Types

\* The order of what was written and is queued.
LEMMA QueueUpNext == IInv /\ [Next]_vars => QueueUp'
<1> SUFFICES ASSUME IInv, [Next]_vars PROVE QueueUp'
  OBVIOUS
<1>0. Types /\ WriteLoop /\ Counting /\ QueueUp /\ SendsUp
  BY DEF IInv, Numbered
<1>1. /\ sent \in Nat /\ writing \in Nat /\ Len(written) \in Nat /\ Len(write_queue_) \in Nat
      /\ \A i \in 1 .. Len(written) : written[i] \in Nat
      /\ \A i \in 1 .. Len(write_queue_) : write_queue_[i] \in Nat
  BY <1>0, UpTypes
<1>2. CASE UNCHANGED <<sent, write_queue_, writing, written>>
  BY <1>0, <1>2 DEF QueueUp
<1>3. CASE Posts
  <2>1. UNCHANGED <<write_queue_, writing, written>> /\ sent' = sent + 1
    BY <1>3 DEF Posts
  <2>2. /\ \A i \in 1 .. Len(written) : written[i] <= sent'
        /\ \A i \in 1 .. Len(write_queue_) : write_queue_[i] <= sent'
    BY <1>0, <1>1, <2>1 DEF QueueUp
  <2> QED BY <1>0, <2>1, <2>2 DEF QueueUp
<1>4. CASE Writes
  <2>1. write_queue_ # <<>> /\ write_queue_ \in Seq(1 .. MaxSends) /\ written \in Seq(1 .. MaxSends)
    BY <1>0, <1>4, Queued DEF Writes, Types
  <2>2. 1 \in 1 .. Len(write_queue_) /\ Head(write_queue_) = write_queue_[1]
    BY <2>1
  <2>3. writing > 0 /\ UNCHANGED <<sent, write_queue_>>
    BY <1>4 DEF Writes
  <2>4. writing' = 0
    <3>1. writing' = writing - 1 /\ N("on_write") \in Nat BY <1>0, <1>4, CountTypes DEF Writes
    <3> QED BY <1>0, <1>1, <2>1, <2>3, <3>1 DEF WriteLoop
  <2>5. \A i \in 1 .. Len(written), j \in 1 .. Len(write_queue_) : written[i] < write_queue_[j]
    BY <1>0, <1>1, <2>3 DEF QueueUp
  <2>6. CASE written' = written
    BY <1>0, <2>3, <2>5, <2>6 DEF QueueUp
  <2>7. CASE written' = Append(written, write_queue_[1])
    <3>1. /\ Len(written') = Len(written) + 1
          /\ \A i \in 1 .. Len(written) : written'[i] = written[i]
          /\ written'[Len(written) + 1] = write_queue_[1]
      BY <2>1, <2>7
    <3>2. ASSUME NEW i \in 1 .. Len(written'), NEW j \in 1 .. Len(written'), i < j
          PROVE  written'[i] < written'[j]
      <4>1. i \in 1 .. Len(written) /\ (j \in 1 .. Len(written) \/ j = Len(written) + 1)
        <5>1. Len(written) \in Nat /\ i \in 1 .. Len(written) + 1 /\ j \in 1 .. Len(written) + 1
          BY <1>1, <3>1
        <5> QED BY <3>2, <5>1
      <4>2. CASE j \in 1 .. Len(written) BY <1>0, <3>1, <3>2, <4>1, <4>2 DEF QueueUp
      <4>3. CASE j = Len(written) + 1 BY <2>2, <2>5, <3>1, <4>1, <4>3
      <4> QED BY <4>1, <4>2, <4>3
    <3>3. ASSUME NEW i \in 1 .. Len(written'), NEW j \in 1 .. Len(write_queue_)
          PROVE  \/ written'[i] < write_queue_[j]
                 \/ j = 1 /\ written'[i] = write_queue_[1]
      <4>1. CASE i \in 1 .. Len(written) BY <2>5, <3>1, <4>1
      <4>2. CASE i = Len(written) + 1
        <5>1. j = 1 \/ 1 < j BY <1>1
        <5> QED BY <1>0, <2>2, <3>1, <4>2, <5>1 DEF QueueUp
      <4> QED BY <1>1, <3>1, <4>1, <4>2
    <3>4. ASSUME NEW i \in 1 .. Len(written') PROVE written'[i] <= sent
      <4>1. i \in 1 .. Len(written) \/ i = Len(written) + 1 BY <1>1, <3>1
      <4> QED BY <1>0, <2>2, <3>1, <4>1 DEF QueueUp
    <3> QED BY <1>0, <2>3, <2>4, <3>2, <3>3, <3>4 DEF QueueUp
  <2> QED BY <1>4, <2>2, <2>6, <2>7 DEF Writes
<1>5. CASE Queues
  <2> DEFINE m == Head(strand).arg
  <2>1. 1 \in TasksOf("send") /\ m = strand[1].arg
    <3>1. strand \in Seq(Tasks) /\ strand # <<>> /\ Head(strand).op = "send"
      BY <1>0, <1>5 DEF Types, Queues, Runs
    <3>2. 1 \in 1 .. Len(strand) /\ Head(strand) = strand[1] BY <3>1
    <3> QED BY <3>1, <3>2 DEF TasksOf
  <2>2. m \in 1 .. MaxSends BY <1>0, <2>1, SendTypes
  <2>3. /\ \A i \in 1 .. Len(written) : written[i] < m
        /\ \A i \in 1 .. Len(write_queue_) : write_queue_[i] < m
        /\ m <= sent
    BY <1>0, <2>1 DEF SendsUp
  <2>4. /\ Len(write_queue_') = Len(write_queue_) + 1
        /\ \A i \in 1 .. Len(write_queue_) : write_queue_'[i] = write_queue_[i]
        /\ write_queue_'[Len(write_queue_) + 1] = m
    <3>1. write_queue_ \in Seq(1 .. MaxSends) /\ write_queue_' = Append(write_queue_, m)
      BY <1>0, <1>5 DEF Types, Queues
    <3> HIDE DEF m
    <3> QED BY <2>2, <3>1
  <2>5. UNCHANGED <<sent, written>>
    BY <1>5 DEF Queues
  <2>6. writing' = IF Len(write_queue_') = 1 THEN writing + 1 ELSE writing
    BY <1>5 DEF Queues
  <2> HIDE DEF m
  <2>7. \A i, j \in 1 .. Len(write_queue_') : i < j => write_queue_'[i] < write_queue_'[j]
    BY <1>0, <1>1, <2>3, <2>4, SMTT(30) DEF QueueUp
  <2>8. ASSUME NEW i \in 1 .. Len(written), NEW j \in 1 .. Len(write_queue_')
        PROVE  \/ written[i] < write_queue_'[j]
               \/ j = 1 /\ written[i] = write_queue_'[1] /\ writing' = 0
    <3>1. CASE j = Len(write_queue_) + 1 BY <2>3, <2>4, <3>1
    <3>2. CASE j \in 1 .. Len(write_queue_)
      <4>1. writing' = writing BY <1>1, <2>4, <2>6, <3>2
      <4> QED BY <1>0, <2>4, <3>2, <4>1 DEF QueueUp
    <3> QED BY <1>1, <2>4, <3>1, <3>2
  <2>9. \A i \in 1 .. Len(write_queue_') : write_queue_'[i] <= sent
    BY <1>0, <1>1, <2>3, <2>4 DEF QueueUp
  <2> QED BY <1>0, <2>5, <2>7, <2>8, <2>9 DEF QueueUp
<1>6. CASE Advances
  <2>1. N("on_write") > 0 BY <1>0, <1>6, RunsCounts DEF Advances
  <2>2. write_queue_ # <<>> BY <1>0, <2>1, Queued
  <2>3. /\ Len(write_queue_') = Len(write_queue_) - 1
        /\ \A j \in 1 .. Len(write_queue_') : write_queue_'[j] = write_queue_[j + 1]
    <3>1. write_queue_ \in Seq(1 .. MaxSends) /\ write_queue_' = Tail(write_queue_)
      BY <1>0, <1>6 DEF Types, Advances
    <3> QED BY <2>2, <3>1
  <2>4. UNCHANGED <<sent, written>>
    BY <1>6 DEF Advances
  <2>5. \A j \in 1 .. Len(write_queue_') : j + 1 \in 1 .. Len(write_queue_) /\ j + 1 # 1
    BY <1>1, <2>3
  <2>6. ASSUME NEW i \in 1 .. Len(write_queue_'), NEW j \in 1 .. Len(write_queue_'), i < j
        PROVE  write_queue_'[i] < write_queue_'[j]
    <3>1. i + 1 < j + 1 BY <2>6
    <3> QED BY <1>0, <2>3, <2>5, <3>1 DEF QueueUp
  <2>7. \A i \in 1 .. Len(written), j \in 1 .. Len(write_queue_') : written[i] < write_queue_'[j]
    BY <1>0, <1>1, <2>3, <2>5 DEF QueueUp
  <2>8. \A j \in 1 .. Len(write_queue_') : write_queue_'[j] <= sent
    BY <1>0, <2>3, <2>5 DEF QueueUp
  <2> QED BY <1>0, <2>4, <2>6, <2>7, <2>8 DEF QueueUp
<1>7. CASE Clears
  <2>1. Len(write_queue_') = 0 /\ UNCHANGED <<sent, written>>
    BY <1>7 DEF Clears
  <2>2. 1 .. Len(write_queue_') = {} BY <2>1
  <2> QED BY <1>0, <2>1, <2>2 DEF QueueUp
<1> QED BY <1>2, <1>3, <1>4, <1>5, <1>6, <1>7, MessageSteps
        DEF Elsewhere, messageVars, Counts, Drops

\* The sends on the strand come after what was written and is queued.
LEMMA SendsUpNext == IInv /\ [Next]_vars => SendsUp'
<1> SUFFICES ASSUME IInv, [Next]_vars PROVE SendsUp'
  OBVIOUS
<1>0. Types /\ WriteLoop /\ Counting /\ QueueUp /\ SendsUp
  BY DEF IInv, Numbered
<1>1. /\ sent \in Nat /\ writing \in Nat /\ Len(written) \in Nat /\ Len(write_queue_) \in Nat
      /\ \A i \in 1 .. Len(written) : written[i] \in Nat
      /\ \A i \in 1 .. Len(write_queue_) : write_queue_[i] \in Nat
  BY <1>0, UpTypes
<1>2. CASE Elsewhere
  <2>1. UNCHANGED <<sent, written, write_queue_>> BY <1>2 DEF Elsewhere, messageVars
  <2> QED BY <1>0, <1>2, <2>1, ElsewhereLater, SendsKept
<1>3. CASE Counts
  <2>1. UNCHANGED <<sent, written, write_queue_, strand>> BY <1>3 DEF Counts
  <2>2. TasksOf("send")' = TasksOf("send") BY <2>1 DEF TasksOf
  <2> QED BY <1>0, <2>1, <2>2 DEF SendsUp
<1>4. CASE Posts
  <2> DEFINE x == Task("send", sent + 1)
             n == Len(strand) + 1
  <2>1. x \in Tasks /\ x.arg = sent + 1
    <3>1. sent + 1 \in 1 .. MaxSends
      BY <1>0, <1>4, SessionAssumption DEF Types, Counting, Posts
    <3> QED BY <3>1, TaskTypes
  <2>2. strand \in Seq(Tasks) /\ Len(strand) \in Nat /\ strand' = Append(strand, x)
    BY <1>0, <1>4 DEF Types, Posts
  <2>3. UNCHANGED <<written, write_queue_>> /\ sent' = sent + 1
    BY <1>4 DEF Posts
  <2> HIDE DEF x
  <2>4. /\ Len(strand') = n /\ strand'[n] = x
        /\ \A i \in 1 .. Len(strand) : strand'[i] = strand[i]
    BY <2>1, <2>2
  <2>5. ASSUME NEW i \in TasksOf("send")'
        PROVE  \/ i \in TasksOf("send") /\ strand'[i] = strand[i]
               \/ i = n /\ strand'[i].arg = sent + 1
    <3>1. i \in 1 .. Len(strand') /\ strand'[i].op = "send" BY DEF TasksOf
    <3>2. i \in 1 .. Len(strand) \/ i = n BY <2>2, <2>4, <3>1
    <3> QED BY <2>1, <2>4, <3>1, <3>2 DEF TasksOf
  <2>6. \A i \in TasksOf("send") : i \in Nat /\ i < n /\ strand[i].arg \in Nat
    <3>1. \A i \in TasksOf("send") : i \in Nat /\ strand[i].arg \in 1 .. MaxSends
      BY <1>0, SendTypes
    <3>2. \A i \in TasksOf("send") : i \in 1 .. Len(strand) BY DEF TasksOf
    <3> QED BY <2>2, <3>1, <3>2, SessionAssumption
  <2> HIDE DEF n
  <2>7. ASSUME NEW i \in TasksOf("send")', NEW j \in TasksOf("send")', i < j
        PROVE  strand'[i].arg < strand'[j].arg
    <3>0. n \in Nat BY <2>2 DEF n
    <3>1. i \in TasksOf("send") /\ strand'[i] = strand[i]
      BY <2>5, <2>6, <2>7, <3>0
    <3>2. CASE j \in TasksOf("send") /\ strand'[j] = strand[j]
      BY <1>0, <2>7, <3>1, <3>2 DEF SendsUp
    <3>3. CASE strand'[j].arg = sent + 1
      <4>1. strand[i].arg <= sent BY <1>0, <3>1 DEF SendsUp
      <4> QED BY <1>1, <2>6, <3>1, <3>3, <4>1
    <3> QED BY <2>5, <3>2, <3>3
  <2>8. ASSUME NEW i \in 1 .. Len(written), NEW j \in TasksOf("send")'
        PROVE  written[i] < strand'[j].arg
    <3>1. CASE j \in TasksOf("send") /\ strand'[j] = strand[j] BY <1>0, <3>1 DEF SendsUp
    <3>2. CASE strand'[j].arg = sent + 1 BY <1>0, <1>1, <3>2 DEF QueueUp
    <3> QED BY <2>5, <3>1, <3>2
  <2>9. ASSUME NEW i \in 1 .. Len(write_queue_), NEW j \in TasksOf("send")'
        PROVE  write_queue_[i] < strand'[j].arg
    <3>1. CASE j \in TasksOf("send") /\ strand'[j] = strand[j] BY <1>0, <3>1 DEF SendsUp
    <3>2. CASE strand'[j].arg = sent + 1 BY <1>0, <1>1, <3>2 DEF QueueUp
    <3> QED BY <2>5, <3>1, <3>2
  <2>10. ASSUME NEW j \in TasksOf("send")' PROVE strand'[j].arg <= sent + 1
    <3>1. CASE j \in TasksOf("send") /\ strand'[j] = strand[j]
      <4>1. strand[j].arg <= sent BY <1>0, <3>1 DEF SendsUp
      <4> QED BY <1>1, <2>6, <3>1, <4>1
    <3>2. CASE strand'[j].arg = sent + 1 BY <1>1, <3>2
    <3> QED BY <2>5, <3>1, <3>2
  <2> QED BY <2>3, <2>7, <2>8, <2>9, <2>10 DEF SendsUp
<1>5. CASE Writes
  <2>1. Later(0)
    <3>1. PICK ok \in BOOLEAN : strand' = Append(strand, Task("on_write", ok))
      BY <1>5 DEF Writes
    <3>2. Task("on_write", ok) \in Tasks /\ Task("on_write", ok).op # "send"
      BY TaskTypes
    <3> QED BY <1>0, <3>1, <3>2, PostsLater
  <2>2. UNCHANGED <<sent, write_queue_>>
    BY <1>5 DEF Writes
  <2>3. 1 \in 1 .. Len(write_queue_) /\ Head(write_queue_) = write_queue_[1]
    <3>1. write_queue_ # <<>> /\ write_queue_ \in Seq(1 .. MaxSends)
      BY <1>0, <1>5, Queued DEF Writes, Types
    <3> QED BY <3>1
  <2>4. ASSUME NEW i \in 1 .. Len(written')
        PROVE  \/ \E k \in 1 .. Len(written) : written'[i] = written[k]
               \/ \E k \in 1 .. Len(write_queue_) : written'[i] = write_queue_[k]
    <3>1. CASE written' = written BY <3>1
    <3>2. CASE written' = Append(written, write_queue_[1])
      <4>1. written \in Seq(1 .. MaxSends) BY <1>0 DEF Types
      <4>2. CASE i \in 1 .. Len(written)
        <5>1. written'[i] = written[i] BY <3>2, <4>1, <4>2
        <5> QED BY <4>2, <5>1
      <4>3. CASE i = Len(written) + 1
        <5>1. written'[i] = write_queue_[1] BY <3>2, <4>1, <4>3
        <5> QED BY <2>3, <5>1
      <4>4. Len(written') = Len(written) + 1 BY <3>2, <4>1
      <4> QED BY <1>1, <4>2, <4>3, <4>4
    <3> QED BY <1>5, <2>3, <3>1, <3>2 DEF Writes
  <2> QED BY <1>0, <2>1, <2>2, <2>4, SendsKept
<1>6. CASE Drops
  <2>1. Later(1) /\ UNCHANGED <<sent, write_queue_, written>>
    BY <1>0, <1>6, RunsLater DEF Drops
  <2> QED BY <1>0, <2>1, SendsKept
<1>7. CASE Queues
  <2>1. Later(1) /\ UNCHANGED <<sent, written>>
    BY <1>0, <1>7, RunsLater DEF Queues
  <2>2. 1 \in TasksOf("send") /\ Head(strand).arg = strand[1].arg
    <3>1. strand \in Seq(Tasks) /\ strand # <<>> /\ Head(strand).op = "send"
      BY <1>0, <1>7 DEF Types, Queues, Runs
    <3>2. 1 \in 1 .. Len(strand) /\ Head(strand) = strand[1] BY <3>1
    <3> QED BY <3>1, <3>2 DEF TasksOf
  <2>3. ASSUME NEW i \in 1 .. Len(write_queue_')
        PROVE  \/ \E k \in 1 .. Len(write_queue_) : write_queue_'[i] = write_queue_[k]
               \/ write_queue_'[i] = strand[1].arg
    <3> DEFINE m == strand[1].arg
    <3>1. write_queue_ \in Seq(1 .. MaxSends) /\ write_queue_' = Append(write_queue_, m)
      BY <1>0, <1>7, <2>2 DEF Types, Queues
    <3> HIDE DEF m
    <3>2. CASE i \in 1 .. Len(write_queue_)
      <4>1. write_queue_'[i] = write_queue_[i] BY <3>1, <3>2
      <4> QED BY <3>2, <4>1
    <3>3. CASE i = Len(write_queue_) + 1
      <4>1. write_queue_'[i] = m BY <3>1, <3>3
      <4> QED BY <4>1 DEF m
    <3>4. Len(write_queue_') = Len(write_queue_) + 1 BY <3>1
    <3> QED BY <1>1, <3>2, <3>3, <3>4
  <2> QED BY <1>0, <2>1, <2>2, <2>3, SendsKept
<1>8. CASE Advances
  <2>1. Later(1) /\ UNCHANGED <<sent, written>> /\ N("on_write") > 0
    BY <1>0, <1>8, RunsLater, RunsCounts DEF Advances
  <2>2. write_queue_ # <<>> BY <1>0, <2>1, Queued
  <2>3. ASSUME NEW i \in 1 .. Len(write_queue_')
        PROVE  \E k \in 1 .. Len(write_queue_) : write_queue_'[i] = write_queue_[k]
    <3>1. write_queue_ \in Seq(1 .. MaxSends) /\ write_queue_' = Tail(write_queue_)
      BY <1>0, <1>8 DEF Types, Advances
    <3>2. i + 1 \in 1 .. Len(write_queue_) /\ write_queue_'[i] = write_queue_[i + 1]
      BY <2>2, <3>1
    <3> QED BY <3>2
  <2> QED BY <1>0, <2>1, <2>3, SendsKept
<1>9. CASE Clears
  <2>1. Later(1) /\ UNCHANGED <<sent, written>> /\ write_queue_' = <<>>
    BY <1>0, <1>9, RunsLater DEF Clears
  <2>2. 1 .. Len(write_queue_') = {} BY <2>1
  <2> QED BY <1>0, <2>1, <2>2, SendsKept
<1> QED BY <1>2, <1>3, <1>4, <1>5, <1>6, <1>7, <1>8, <1>9, MessageSteps

(***************************************************************************)
(* The read loop and the callbacks                                         *)
(***************************************************************************)
\* What a handler calls: nothing, the route handler, or the next callbacks
\* unless onClose was called
CallsMade ==
    \/ UNCHANGED <<calls, closed_>>
    \/ /\ Runs("on_accept")
       /\ calls' = Append(calls, "open") /\ closed_' = closed_
    \/ /\ Opened /\ ~closed_
       /\ calls' = Append(calls, "message") /\ closed_' = closed_
    \/ /\ closed_' = TRUE
       /\ \/ calls' = calls
          \/ /\ Opened /\ ~closed_
             /\ calls' \in {Append(calls, "close"), Append(Append(calls, "error"), "close")}

\* What becomes of the handshake and of the read
ReadsMade ==
    \/ /\ \/ UNCHANGED <<phase, reading>>
          \/ phase' \notin {"new", "accepting"} /\ reading' = reading
       /\ \/ strand' = strand
          \/ \E x \in Tasks : x.op \notin {"on_accept", "on_read"} /\ strand' = Append(strand, x)
          \/ \E op \in {"on_accept", "on_read", "send", "on_write", "close", "on_close"} : Runs(op)
    \/ phase = "new" /\ phase' = "accepting" /\ UNCHANGED <<reading, strand>>
    \/ /\ phase = "accepting" /\ phase' \in {"open", "down"} /\ reading' = reading
       /\ \E ok \in BOOLEAN : strand' = Append(strand, Task("on_accept", ok))
    \/ /\ reading /\ reading' = FALSE /\ phase' = phase
       /\ \E r \in {"message", "closed", "error", "aborted"} :
             strand' = Append(strand, Task("on_read", r))
    \/ /\ reading' = TRUE /\ phase' = phase
       /\ Runs("on_accept") \/ Runs("on_read")

\* Every step makes one of these calls.
LEMMA CallSteps == ASSUME IInv, [Next]_vars PROVE CallsMade
<1> USE DEF queueVars, streamVars, contextVars, registryVars
<1>0. Types BY DEF IInv
<1>1. CASE Quiet
  BY <1>1, Zenon DEF Quiet, RunStopping, Run, OnReject, StreamDown, SendCall, StopAll, Destroy,
                     Gone, vars, CallsMade
<1>2. ASSUME NEW x, Posting(x) PROVE CallsMade
  BY <1>2, Zenon DEF Posting, AcceptDone, MessageRead, ReadEnds, WriteOk, WriteFails, CloseDone,
                     SendPost, CloseCall, StopSession, CallsMade
<1>3. CASE Handler
  <2>1. CASE OnAcceptFailed \/ OnAcceptStopping \/ SendClosing \/ SendOverflow \/ SendQueued
             \/ OnWrite \/ OnWriteFailed \/ CloseStarts \/ CloseIgnored
    BY <2>1, Zenon DEF OnAcceptFailed, OnAcceptStopping, SendClosing, SendOverflow, SendQueued,
                       OnWrite, OnWriteFailed, CloseStarts, CloseIgnored, CallsMade
  <2>2. CASE OnAccept
    <3>1. Runs("on_accept") BY <1>0, <1>3, <2>2, HandlerStrand DEF OnAccept, Running, Runs
    <3> QED BY <2>2, <3>1, Zenon DEF OnAccept, CallsMade
  <2>3. CASE OnReadMessage
    <3>1. calls' = Emit("message") /\ closed_' = closed_
      BY <2>3, Zenon DEF OnReadMessage
    <3> QED BY <3>1, Zenon DEF Emit, CallsMade
  <2>4. CASE OnReadEnd
    <3>1. \/ EmitClose(calls)
          \/ EmitClose(Emit("error"))
      BY <2>4, Zenon DEF OnReadEnd
    <3>2. \/ calls' = calls
          \/ Opened /\ ~closed_ /\ calls' = Append(calls, "close")
          \/ Opened /\ ~closed_ /\ calls' = Append(Append(calls, "error"), "close")
      BY <3>1, Zenon DEF EmitClose, Emit
    <3>3. closed_' = TRUE
      BY <3>1, Zenon DEF EmitClose
    <3> QED BY <3>2, <3>3, Zenon DEF CallsMade
  <2>5. CASE OnClose
    <3>1. EmitClose(calls) BY <2>5, Zenon DEF OnClose
    <3> QED BY <3>1, Zenon DEF EmitClose, CallsMade
  <2> QED BY <1>3, <2>1, <2>2, <2>3, <2>4, <2>5 DEF Handler
<1>4. CASE UNCHANGED vars
  BY <1>4, Zenon DEF vars, CallsMade
<1> QED BY <1>1, <1>2, <1>3, <1>4, Steps

\* Every step does one of these to the handshake and the read.
LEMMA ReadSteps == ASSUME IInv, [Next]_vars PROVE ReadsMade
<1> USE DEF queueVars, streamVars, contextVars, registryVars
<1>0. Types BY DEF IInv
<1>1. CASE Quiet /\ strand' = strand
  <2>1. CASE Run
    <3>1. phase = "new" /\ reading' = reading /\ phase' \in {"accepting", "rejecting"}
      BY <2>1, Zenon DEF Run
    <3>2. CASE phase' = "accepting" BY <1>1, <3>1, <3>2, Zenon DEF ReadsMade
    <3>3. CASE phase' = "rejecting" BY <1>1, <3>1, <3>3 DEF ReadsMade
    <3> QED BY <3>1, <3>2, <3>3
  <2>2. CASE RunStopping \/ OnReject \/ StreamDown \/ Destroy
    <3>1. reading' = reading /\ phase' \in {"rejecting", "down", "gone"}
      BY <2>2, Zenon DEF RunStopping, OnReject, StreamDown, Destroy
    <3> QED BY <1>1, <3>1 DEF ReadsMade
  <2>3. CASE SendCall \/ StopAll \/ Gone
    BY <1>1, <2>3, Zenon DEF SendCall, StopAll, Gone, vars, ReadsMade
  <2> QED BY <1>1, <2>1, <2>2, <2>3 DEF Quiet
<1>2. ASSUME NEW x, Posting(x) PROVE ReadsMade
  <2>1. x \in Tasks /\ strand' = Append(strand, x)
    BY <1>2, PostsTasks DEF Posting
  <2>2. CASE \E ok \in BOOLEAN : x = Task("on_accept", ok) /\ AcceptDone(ok)
    <3>1. phase = "accepting" /\ phase' \in {"open", "down"} /\ reading' = reading
      BY <2>2, Zenon DEF AcceptDone
    <3> QED BY <2>1, <2>2, <3>1, Zenon DEF ReadsMade
  <2>3. CASE \/ x = Task("on_read", "message") /\ MessageRead
             \/ \E r \in {"closed", "error", "aborted"} : x = Task("on_read", r) /\ ReadEnds(r)
    <3>1. reading /\ reading' = FALSE /\ phase' = phase
      BY <2>3, Zenon DEF MessageRead, ReadEnds
    <3>2. \E r \in {"message", "closed", "error", "aborted"} : x = Task("on_read", r)
      BY <2>3, Zenon
    <3> QED BY <2>1, <3>1, <3>2, Zenon DEF ReadsMade
  <2>4. CASE \/ x = Task("on_write", TRUE) /\ WriteOk
             \/ x = Task("on_write", FALSE) /\ WriteFails
             \/ x = Task("on_close", "none") /\ CloseDone
             \/ x = Task("send", sent + 1) /\ SendPost
             \/ x = Task("close", "application") /\ CloseCall
             \/ x = Task("close", "going_away") /\ StopSession
    <3>1. UNCHANGED <<phase, reading>>
      BY <2>4, Zenon DEF WriteOk, WriteFails, CloseDone, SendPost, CloseCall, StopSession
    <3>2. x.op \in {"on_write", "on_close", "send", "close"}
      <4>1. \E arg : \/ x = Task("on_write", arg) \/ x = Task("on_close", arg)
                     \/ x = Task("send", arg) \/ x = Task("close", arg)
        BY <2>4, Zenon
      <4> QED BY <4>1, TaskTypes
    <3>3. x.op \notin {"on_accept", "on_read"}
      BY <3>2
    <3> QED BY <2>1, <3>1, <3>3, Zenon DEF ReadsMade
  <2> QED BY <1>2, <2>2, <2>3, <2>4, Zenon DEF Posting
<1>3. CASE Handler
  <2>1. /\ Head(strand).op \in {"on_accept", "on_read", "send", "on_write", "close", "on_close"}
        /\ Runs(Head(strand).op)
    <3>1. Head(strand).op \in {"on_accept", "on_read", "send", "on_write", "close", "on_close"}
      BY <1>3 DEF Handler, Running, OnAcceptFailed, OnAcceptStopping, OnAccept, OnReadMessage,
              OnReadEnd, SendClosing, SendOverflow, SendQueued, OnWrite, OnWriteFailed,
              CloseStarts, CloseIgnored, OnClose
    <3> QED BY <1>0, <1>3, <3>1, HandlerStrand DEF Runs
  <2>2. CASE OnAcceptStopping \/ OnAccept \/ OnReadMessage
    <3>1. reading' = TRUE /\ phase' = phase /\ Head(strand).op \in {"on_accept", "on_read"}
      BY <2>2, Zenon DEF OnAcceptStopping, OnAccept, OnReadMessage, Running
    <3>2. Runs("on_accept") \/ Runs("on_read")
      BY <2>1, <3>1
    <3> QED BY <3>1, <3>2, Zenon DEF ReadsMade
  <2>3. CASE ~(OnAcceptStopping \/ OnAccept \/ OnReadMessage)
    <3>1. UNCHANGED <<phase, reading>>
      BY <1>3, <2>3, Zenon
      DEF Handler, OnAcceptFailed, OnReadEnd, SendClosing, SendOverflow, SendQueued, OnWrite,
          OnWriteFailed, CloseStarts, CloseIgnored, OnClose
    <3> QED BY <2>1, <3>1, Zenon DEF ReadsMade
  <2> QED BY <2>2, <2>3
<1>4. CASE UNCHANGED vars
  BY <1>4, Zenon DEF vars, ReadsMade
<1> QED BY <1>1, <1>2, <1>3, <1>4, Steps

\* The handshake, the read and the handlers that start a read: one at a time.
LEMMA ReadLoopNext == IInv /\ [Next]_vars => ReadLoop'
<1> SUFFICES ASSUME IInv, [Next]_vars PROVE ReadLoop'
  OBVIOUS
<1> DEFINE P == IF phase \in {"new", "accepting"} THEN 1 ELSE 0
           A == N("on_accept")
           R == IF reading THEN 1 ELSE 0
           D == N("on_read")
<1>0. Types /\ ReadLoop /\ ReadsMade /\ CallsMade
  BY CallSteps, ReadSteps DEF IInv
<1>1. /\ P \in Nat /\ A \in Nat /\ R \in Nat /\ D \in Nat
      /\ P' \in Nat /\ R' \in Nat /\ R' <= 1
  BY <1>0, CountTypes
<1>2. P + A + R + D <= 1 /\ (Opened => P = 0 /\ A = 0)
  BY <1>0 DEF ReadLoop
<1>3. ASSUME NEW op, Runs(op)
      PROVE  /\ A' \in Nat /\ D' \in Nat /\ A' <= A /\ D' <= D
             /\ op = "on_accept" => A = A' + 1 /\ D' = D
             /\ op = "on_read" => D = D' + 1 /\ A' = A
  <2>1. /\ \A k : N(k)' \in Nat
        /\ \A k : k \notin {op, "close"} => N(k)' = N(k)
        /\ op # "close" => N(op) = N(op)' + 1
    BY <1>0, <1>3, RunsCounts
  <2> HIDE DEF P, R
  <2>2. CASE op = "on_accept" BY <1>1, <2>1, <2>2
  <2>3. CASE op = "on_read" BY <1>1, <2>1, <2>3
  <2>4. CASE op \notin {"on_accept", "on_read"} BY <1>1, <2>1, <2>4
  <2> QED BY <2>2, <2>3, <2>4
<1>4. /\ A' \in Nat /\ D' \in Nat
      /\ \/ P' + A' + R' + D' <= P + A + R + D
         \/ (Runs("on_accept") \/ Runs("on_read")) /\ P' = P /\ R' = 1
      /\ P = 0 => P' = 0
      /\ P = 0 => A' <= A
  <2>1. CASE /\ \/ UNCHANGED <<phase, reading>>
                \/ phase' \notin {"new", "accepting"} /\ reading' = reading
             /\ \/ strand' = strand
                \/ \E x \in Tasks : x.op \notin {"on_accept", "on_read"}
                                    /\ strand' = Append(strand, x)
                \/ \E op \in {"on_accept", "on_read", "send", "on_write", "close", "on_close"} :
                      Runs(op)
    <3>1. P' <= P
      BY <2>1
    <3>2. R' = R
      BY <2>1
    <3>3. A' \in Nat /\ D' \in Nat /\ A' <= A /\ D' <= D
      <4>1. CASE strand' = strand
        <5>1. A' = A /\ D' = D BY <4>1 DEF N, TasksOf
        <5> HIDE DEF P, R, A, D
        <5> QED BY <1>1, <5>1
      <4>2. ASSUME NEW x \in Tasks, x.op \notin {"on_accept", "on_read"},
                   strand' = Append(strand, x)
            PROVE  A' \in Nat /\ D' \in Nat /\ A' <= A /\ D' <= D
        <5>1. A' = A + One(x.op = "on_accept") /\ D' = D + One(x.op = "on_read")
          BY <1>0, <4>2, Posted
        <5>2. One(x.op = "on_accept") = 0 /\ One(x.op = "on_read") = 0
          BY <4>2 DEF One
        <5> HIDE DEF P, R, A, D
        <5> QED BY <1>1, <5>1, <5>2
      <4> QED BY <1>3, <2>1, <4>1, <4>2
    <3> HIDE DEF P, R, A, D
    <3>4. P' + A' + R' + D' <= P + A + R + D
      <4>2. PICK q \in Nat, b \in Nat, e \in Nat : q = P' /\ b = A' /\ e = D'
        BY <1>1, <3>3
      <4>3. q <= P /\ b <= A /\ e <= D
        BY <3>1, <3>3, <4>2
      <4>4. P \in Nat /\ A \in Nat /\ R \in Nat /\ D \in Nat
        BY <1>1
      <4>5. q + b + R + e <= P + A + R + D
        BY <4>3, <4>4
      <4> QED BY <3>2, <4>2, <4>5
    <3>5. P = 0 => P' = 0 BY <1>1, <3>1
    <3> QED BY <3>3, <3>4, <3>5, Zenon
  <2>2. CASE phase = "new" /\ phase' = "accepting" /\ UNCHANGED <<reading, strand>>
    <3>1. P = 1 /\ P' = 1 /\ R' = R /\ A' = A /\ D' = D
      BY <2>2 DEF N, TasksOf
    <3> HIDE DEF P, R, A, D
    <3> QED BY <1>1, <3>1
  <2>3. CASE /\ phase = "accepting" /\ phase' \in {"open", "down"} /\ reading' = reading
             /\ \E ok \in BOOLEAN : strand' = Append(strand, Task("on_accept", ok))
    <3>1. P = 1 /\ P' = 0 /\ R' = R
      BY <2>3
    <3>2. A' = A + 1 /\ D' = D
      BY <1>0, <2>3, TaskTypes, PostsCounts
    <3> HIDE DEF P, R, A, D
    <3> QED BY <1>1, <3>1, <3>2
  <2>4. CASE /\ reading /\ reading' = FALSE /\ phase' = phase
             /\ \E r \in {"message", "closed", "error", "aborted"} :
                   strand' = Append(strand, Task("on_read", r))
    <3>1. R = 1 /\ R' = 0 /\ P' = P
      BY <2>4
    <3>2. A' = A /\ D' = D + 1
      BY <1>0, <2>4, TaskTypes, PostsCounts
    <3> HIDE DEF P, R, A, D
    <3> QED BY <1>1, <3>1, <3>2
  <2>5. CASE reading' = TRUE /\ phase' = phase /\ (Runs("on_accept") \/ Runs("on_read"))
    <3>1. R' = 1 /\ P' = P
      BY <2>5
    <3> HIDE DEF P, R, A, D
    <3> QED BY <1>1, <1>3, <2>5, <3>1
  <2> QED BY <1>0, <2>1, <2>2, <2>3, <2>4, <2>5, Zenon DEF ReadsMade
<1>5. P' + A' + R' + D' <= 1
  <2>1. CASE P' + A' + R' + D' <= P + A + R + D
    <3> HIDE DEF P, R, A, D
    <3>1. A' \in Nat /\ D' \in Nat BY <1>4, Zenon
    <3>2. P + A + R + D <= 1 BY <1>2, Zenon
    <3> HIDE DEF P, R, A, D
    <3>3. \A x, y \in Int : x <= y /\ y <= 1 => x <= 1 OBVIOUS
    <3>4. P' + A' + R' + D' \in Int /\ P + A + R + D \in Int BY <1>1, <3>1
    <3> QED BY <2>1, <3>2, <3>3, <3>4, Zenon
  <2>2. CASE (Runs("on_accept") \/ Runs("on_read")) /\ P' = P /\ R' = 1
    <3> HIDE DEF P, R, A, D
    <3>1. P + A + R + D <= 1 /\ P' = P /\ R' = 1 BY <1>2, <2>2, Zenon
    <3>2. /\ A' \in Nat /\ D' \in Nat
          /\ (A = A' + 1 /\ D' = D) \/ (D = D' + 1 /\ A' = A)
      BY <1>3, <2>2, Zenon
    <3>3. PICK b \in Nat, e \in Nat : b = A' /\ e = D'
      BY <3>2
    <3>4. /\ P \in Nat /\ A \in Nat /\ R \in Nat /\ D \in Nat
          /\ P + A + R + D <= 1
          /\ (A = b + 1 /\ e = D) \/ (D = e + 1 /\ b = A)
      BY <1>1, <3>1, <3>2, <3>3
    <3>5. P + b + 1 + e <= 1
      BY <3>4
    <3> QED BY <3>1, <3>3, <3>5
  <2> QED BY <1>4, <2>1, <2>2
<1>6. ASSUME Opened' PROVE P' = 0 /\ A' = 0
  <2>1. CASE Opened
    <3> HIDE DEF P, R, A, D
    <3> QED BY <1>1, <1>2, <1>4, <2>1
  <2>2. CASE ~Opened
    <3>1. Runs("on_accept")
      BY <1>0, <1>6, <2>2, Zenon DEF CallsMade, Opened
    <3> HIDE DEF P, R, A, D
    <3>2. A' \in Nat /\ A = A' + 1 BY <1>3, <3>1, Zenon
    <3>3. P + A + R + D <= 1 BY <1>2, Zenon
    <3>4. PICK b \in Nat : b = A'
      BY <3>2
    <3>5. b = 0 /\ P = 0
      <4>1. P \in Nat /\ A \in Nat /\ R \in Nat /\ D \in Nat /\ A = b + 1
        BY <1>1, <3>2, <3>4
      <4> QED BY <3>3, <4>1
    <3> QED BY <1>4, <3>4, <3>5, Zenon
  <2> QED BY <2>1, <2>2
<1>7. P' = 0 => phase' \notin {"new", "accepting"}
  OBVIOUS
<1> HIDE DEF P, R
<1>8. Opened' => phase' \notin {"new", "accepting"} /\ N("on_accept")' = 0
  BY <1>6, <1>7
<1> QED BY <1>5, <1>8 DEF ReadLoop, P, R

\* A sequence of calls that may go on
Ongoing(c) == c # <<>> /\ \A i \in 1 .. Len(c) : c[i] \notin {"error", "close"}

InOrder(c) ==
    \A i \in 1 .. Len(c) :
        /\ i = 1 <=> c[i] = "open"
        /\ c[i] = "close" => i = Len(c)
        /\ c[i] = "error" => i < Len(c) /\ c[i + 1] = "close"

Events == {"open", "message", "error", "close"}

\* Callbacks that may follow keep the order.
LEMMA OrderKept ==
    ASSUME NEW c \in Seq(Events), InOrder(c), Ongoing(c)
    PROVE  /\ InOrder(Append(c, "message")) /\ InOrder(Append(c, "close"))
           /\ InOrder(Append(Append(c, "error"), "close"))
<1>0. Len(c) \in Nat /\ Len(c) > 0 /\ \A i \in 1 .. Len(c) : c[i] \in Events
  BY DEF Ongoing
<1>1. ASSUME NEW e \in {"message", "close"} PROVE InOrder(Append(c, e))
  <2> DEFINE a == Append(c, e)
  <2>1. /\ Len(a) = Len(c) + 1 /\ a[Len(c) + 1] = e
        /\ \A i \in 1 .. Len(c) : a[i] = c[i]
    BY DEF Events
  <2> HIDE DEF a
  <2>2. ASSUME NEW i \in 1 .. Len(a)
        PROVE  /\ i = 1 <=> a[i] = "open"
               /\ a[i] = "close" => i = Len(a)
               /\ a[i] # "error"
    <3>1. CASE i \in 1 .. Len(c) BY <2>1, <3>1 DEF InOrder, Ongoing
    <3>2. CASE i = Len(c) + 1 BY <1>0, <2>1, <3>2
    <3> QED BY <1>0, <2>1, <3>1, <3>2
  <2> QED BY <2>2 DEF InOrder, a
<1>2. InOrder(Append(Append(c, "error"), "close"))
  <2> DEFINE b == Append(c, "error")
             a == Append(b, "close")
  <2>1. /\ b \in Seq(Events) /\ Len(b) = Len(c) + 1 /\ b[Len(c) + 1] = "error"
        /\ \A i \in 1 .. Len(c) : b[i] = c[i]
    BY DEF Events
  <2> HIDE DEF b
  <2>2. /\ Len(a) = Len(c) + 2 /\ a[Len(c) + 2] = "close" /\ a[Len(c) + 1] = "error"
        /\ \A i \in 1 .. Len(c) : a[i] = c[i]
    <3>1. /\ Len(a) = Len(b) + 1 /\ a[Len(b) + 1] = "close"
          /\ \A i \in 1 .. Len(b) : a[i] = b[i]
      BY <2>1
    <3> HIDE DEF a
    <3> QED BY <1>0, <2>1, <3>1
  <2> HIDE DEF a
  <2>3. ASSUME NEW i \in 1 .. Len(a)
        PROVE  /\ i = 1 <=> a[i] = "open"
               /\ a[i] = "close" => i = Len(a)
               /\ a[i] = "error" => i < Len(a) /\ a[i + 1] = "close"
    <3>1. CASE i \in 1 .. Len(c) BY <2>2, <3>1 DEF InOrder, Ongoing
    <3>2. CASE i = Len(c) + 1 BY <1>0, <2>2, <3>2
    <3>3. CASE i = Len(c) + 2 BY <1>0, <2>2, <3>3
    <3> QED BY <1>0, <2>2, <3>1, <3>2, <3>3
  <2> QED BY <2>3 DEF InOrder, a, b
<1> QED BY <1>1, <1>2

\* The callbacks come in order.
LEMMA CallbacksNext ==
    IInv /\ [Next]_vars => Callbacks' /\ calls' \in Seq(Events)
<1> SUFFICES ASSUME IInv, [Next]_vars PROVE Callbacks' /\ calls' \in Seq(Events)
  OBVIOUS
<1>0. /\ Types /\ ReadLoop /\ InOrder(calls) /\ calls \in Seq(Events) /\ CallsMade
      /\ \A i \in 1 .. Len(calls) : calls[i] = "close" => closed_
  BY CallSteps, Zenon DEF IInv, Callbacks, CallbackOrder, InOrder, Types, Events
<1>1. ASSUME Opened, ~closed_ PROVE Ongoing(calls)
  <2>1. \A i \in 1 .. Len(calls) : calls[i] # "close"
    BY <1>0, <1>1, Zenon
  <2>2. calls # <<>> BY <1>1 DEF Opened
  <2>3. Len(calls) \in Nat BY <1>0
  <2> QED BY <1>0, <2>1, <2>2, <2>3 DEF InOrder, Ongoing
<1> SUFFICES /\ InOrder(calls') /\ calls' \in Seq(Events)
             /\ \A i \in 1 .. Len(calls') : calls'[i] = "close" => closed_'
  BY Zenon DEF Callbacks, CallbackOrder, InOrder
<1>2. CASE UNCHANGED <<calls, closed_>>
  BY <1>0, <1>2, Zenon
<1>3. CASE Runs("on_accept") /\ calls' = Append(calls, "open")
  <2>1. ~Opened
    <3>1. N("on_accept")' \in Nat /\ N("on_accept") = N("on_accept")' + 1
      BY <1>0, <1>3, RunsCounts
    <3> QED BY <1>0, <3>1 DEF ReadLoop
  <2>2. calls' = <<"open">>
    BY <1>3, <2>1 DEF Opened
  <2>3. Len(calls') = 1 /\ calls'[1] = "open" /\ calls' \in Seq(Events)
    BY <2>2 DEF Events
  <2>4. \A i \in 1 .. Len(calls') : i = 1 /\ calls'[i] = "open"
    BY <2>3
  <2> QED BY <2>3, <2>4 DEF InOrder
<1>4. CASE Opened /\ ~closed_ /\ calls' = Append(calls, "message")
  <2>1. Ongoing(calls) BY <1>1, <1>4
  <2>2. InOrder(calls') /\ calls' \in Seq(Events) BY <1>0, <1>4, <2>1, OrderKept DEF Events
  <2>3. \A i \in 1 .. Len(calls') : calls'[i] # "close"
    <3>1. Len(calls) \in Nat /\ Len(calls') = Len(calls) + 1 /\ calls'[Len(calls) + 1] = "message"
          /\ \A i \in 1 .. Len(calls) : calls'[i] = calls[i]
      BY <1>0, <1>4
    <3> QED BY <2>1, <3>1 DEF Ongoing
  <2> QED BY <2>2, <2>3
<1>5. CASE /\ closed_' = TRUE
           /\ \/ calls' = calls
              \/ /\ Opened /\ ~closed_
                 /\ calls' \in {Append(calls, "close"), Append(Append(calls, "error"), "close")}
  <2>1. CASE calls' = calls BY <1>0, <1>5, <2>1, Zenon
  <2>2. CASE /\ Opened /\ ~closed_
             /\ calls' \in {Append(calls, "close"), Append(Append(calls, "error"), "close")}
    <3>1. Ongoing(calls) BY <1>1, <2>2
    <3>2. InOrder(calls') BY <1>0, <2>2, <3>1, OrderKept
    <3>3. calls' \in Seq(Events)
      <4>1. Append(calls, "error") \in Seq(Events) /\ Append(calls, "close") \in Seq(Events)
        BY <1>0, AppendFacts DEF Events
      <4>2. Append(Append(calls, "error"), "close") \in Seq(Events)
        BY <4>1, AppendFacts DEF Events
      <4> QED BY <2>2, <4>1, <4>2
    <3> QED BY <1>5, <3>2, <3>3, Zenon
  <2> QED BY <1>5, <2>1, <2>2
<1> QED BY <1>0, <1>2, <1>3, <1>4, <1>5, Zenon DEF CallsMade

(***************************************************************************)
(* The theorems                                                            *)
(***************************************************************************)
\* The types of the variables left.
LEMMA OtherTypesNext ==
    ASSUME IInv, [Next]_vars
    PROVE  /\ phase' \in Phases /\ stopper' \in {"none", "holds", "done"}
           /\ messages' \in 0 .. MaxMessages /\ closes' \in 0 .. MaxCloses
<1> USE DEF queueVars, streamVars, contextVars, registryVars
<1>0. /\ phase \in Phases /\ stopper \in {"none", "holds", "done"}
      /\ messages \in 0 .. MaxMessages /\ closes \in 0 .. MaxCloses
  BY DEF IInv, Types
<1> DEFINE Moves == phase' = phase \/ phase' \in {"accepting", "rejecting", "open", "down", "gone"}
           Ticks == \/ UNCHANGED <<stopper, messages, closes>>
                    \/ stopper' \in {"holds", "done"} /\ UNCHANGED <<messages, closes>>
                    \/ /\ messages < MaxMessages /\ messages' = messages + 1
                       /\ UNCHANGED <<stopper, closes>>
                    \/ /\ closes < MaxCloses /\ closes' = closes + 1
                       /\ UNCHANGED <<stopper, messages>>
<1>1. ASSUME Quiet PROVE Moves /\ Ticks
  BY <1>1, Zenon DEF Quiet, RunStopping, Run, OnReject, StreamDown, SendCall, StopAll, Destroy,
                     Gone, vars
<1>2. ASSUME NEW x, Posting(x) PROVE Moves /\ Ticks
  BY <1>2, Zenon DEF Posting, AcceptDone, MessageRead, ReadEnds, WriteOk, WriteFails, CloseDone,
                     SendPost, CloseCall, StopSession
<1>3. ASSUME Handler PROVE Moves /\ Ticks
  BY <1>3, Zenon DEF Handler, OnAcceptFailed, OnAcceptStopping, OnAccept, OnReadMessage,
            OnReadEnd, SendClosing, SendOverflow, SendQueued, OnWrite, OnWriteFailed,
            CloseStarts, CloseIgnored, OnClose
<1>4. ASSUME UNCHANGED vars PROVE Moves /\ Ticks
  BY <1>4, Zenon DEF vars
<1>5. Moves /\ Ticks
  <2> HIDE DEF Moves, Ticks
  <2> QED BY <1>1, <1>2, <1>3, <1>4, Steps
<1>6. phase' \in Phases
  BY <1>0, <1>5 DEF Phases
<1> QED BY <1>0, <1>5, <1>6, SessionAssumption

\* Every step keeps the invariant.
LEMMA IInvNext == IInv /\ [Next]_vars => IInv'
<1> SUFFICES ASSUME IInv, [Next]_vars PROVE IInv'
  OBVIOUS
<1>1. Types'
  BY MessageTypesNext, OtherTypesNext, CallbacksNext DEF Types, Events
<1>2. Flags' /\ Counting' /\ WriteLoop' /\ ReadLoop' /\ Callbacks' /\ Numbered'
  BY FlagsNext, CountingNext, WriteLoopNext, ReadLoopNext, CallbacksNext, QueueUpNext, SendsUpNext
  DEF Numbered
<1> QED BY <1>1, <1>2 DEF IInv

\* A new session satisfies it.
LEMMA IInvInit == Init => IInv
<1> SUFFICES ASSUME Init PROVE IInv
  OBVIOUS
<1>1. /\ strand = <<>> /\ write_queue_ = <<>> /\ written = <<>> /\ calls = <<>>
      /\ phase = "new" /\ calling = 0 /\ sent = 0 /\ pending_ = 0 /\ writing = 0
      /\ stopper = "none" /\ messages = 0 /\ closes = 0
  BY DEF Init
<1>2. Types
  BY <1>1, SessionAssumption DEF Types, Phases
<1>3. Flags /\ ~reading
  BY Zenon DEF Init, Flags
<1>4. \A op : TasksOf(op) = {} /\ N(op) = 0
  BY <1>1, FS_EmptySet DEF TasksOf, N
<1>5. Counting
  <2>1. N("send") = 0 /\ Len(write_queue_) = 0 BY <1>1, <1>4
  <2> QED BY <1>1, <2>1, SessionAssumption DEF Counting, PendingExact, N
<1>6. WriteLoop
  BY <1>1, <1>4 DEF WriteLoop
<1>7. ReadLoop
  <2>1. N("on_accept") = 0 /\ N("on_read") = 0 BY <1>4
  <2> QED BY <1>1, <1>3, <2>1 DEF ReadLoop, Opened
<1>8. 1 .. Len(calls) = {} /\ 1 .. Len(written) = {} /\ 1 .. Len(write_queue_) = {}
  BY <1>1
<1>9. Callbacks
  BY <1>8, Zenon DEF Callbacks, CallbackOrder
<1>10. Numbered
  BY <1>4, <1>8, Zenon DEF Numbered, QueueUp, SendsUp
<1> QED BY <1>2, <1>3, <1>5, <1>6, <1>7, <1>9, <1>10 DEF IInv

\* It implies the invariants that runs check.
LEMMA IInvImplies == IInv => TypeOK /\ PendingExact /\ OneLoopEach /\ CallbackOrder
<1> SUFFICES ASSUME IInv PROVE TypeOK /\ PendingExact /\ OneLoopEach /\ CallbackOrder
  OBVIOUS
<1>0. Types /\ Flags /\ Counting /\ WriteLoop /\ ReadLoop /\ Callbacks /\ QueueUp
  BY DEF IInv, Numbered
<1>1. \A op : N(op) \in Nat
  BY <1>0, CountTypes
<1>2. Len(write_queue_) \in Nat /\ calling \in Nat /\ sent \in Nat /\ writing \in Nat
  BY <1>0 DEF Types
<1>3. PendingExact
  BY <1>0 DEF Counting
<1>4. calling \in 0 .. MaxSends /\ sent \in 0 .. MaxSends /\ pending_ \in 0 .. MaxSends
  <2>1. /\ sent + calling <= MaxSends /\ N("send") + Len(write_queue_) <= sent
        /\ pending_ = calling + N("send") + Len(write_queue_)
        /\ N("send") \in Nat
    BY <1>0, <1>1 DEF Counting, PendingExact, N
  <2> QED BY <1>2, <2>1, SessionAssumption
<1>5. writing \in 0 .. 1
  <2>1. N("on_write") \in Nat BY <1>1
  <2>2. writing + N("on_write") <= 1 BY <1>0 DEF WriteLoop
  <2> QED BY <1>2, <2>1, <2>2
<1>6. TypeOK
  BY <1>0, <1>4, <1>5, Zenon DEF TypeOK, Types, Flags
<1>7. OneLoopEach
  <2>1. writing + Cardinality(TasksOf("on_write")) = IF write_queue_ = <<>> THEN 0 ELSE 1
    BY <1>0 DEF WriteLoop, N
  <2>2. (IF reading THEN 1 ELSE 0) + Cardinality(TasksOf("on_read")) <= 1
    <3>1. /\ N("on_accept") \in Nat /\ N("on_read") \in Nat
          /\ (IF phase \in {"new", "accepting"} THEN 1 ELSE 0) + N("on_accept")
                 + (IF reading THEN 1 ELSE 0) + N("on_read") <= 1
      BY <1>0, <1>1 DEF ReadLoop
    <3>2. (IF reading THEN 1 ELSE 0) + N("on_read") <= 1
      BY <3>1
    <3> QED BY <3>2 DEF N
  <2> QED BY <1>0, <2>1, <2>2, Zenon DEF OneLoopEach, QueueUp
<1>8. CallbackOrder
  BY <1>0 DEF Callbacks
<1> QED BY <1>3, <1>6, <1>7, <1>8

\* For every queue limit and every number of sends, messages and closes, the
\* counters of WebSocketSession.h stay in their ranges: pending_, an unsigned
\* atomic, never wraps and the queue never exceeds websocket_send_queue_limit.
THEOREM TypeCorrect == Spec => []TypeOK
<1>1. IInv => TypeOK BY IInvImplies
<1> QED BY <1>1, IInvInit, IInvNext, PTL DEF Spec

\* send_internal(), on_write() and their error paths take every message off
\* pending_ exactly once: pendingMessages() counts what is neither written nor
\* dropped.
THEOREM PendingIsExact == Spec => []PendingExact
<1>1. IInv => PendingExact BY IInvImplies
<1> QED BY <1>1, IInvInit, IInvNext, PTL DEF Spec

\* do_write() and do_read() never overlap with themselves, as Beast requires,
\* and messages reach the stream in the order their send*() posted them.
THEOREM LoopsNeverOverlap == Spec => []OneLoopEach
<1>1. IInv => OneLoopEach BY IInvImplies
<1> QED BY <1>1, IInvInit, IInvNext, PTL DEF Spec

\* WebSocketContext calls the application's callbacks in the documented order,
\* onClose at most once and last.
THEOREM CallbacksInOrder == Spec => []CallbackOrder
<1>1. IInv => CallbackOrder BY IInvImplies
<1> QED BY <1>1, IInvInit, IInvNext, PTL DEF Spec

=============================================================================
