--------------------------- MODULE ListenerProofs ---------------------------
(***************************************************************************)
(* Proofs about Listener and HttpSession, for any number of connections:   *)
(* every session is one chain of handlers, the accept loop goes on until   *)
(* stop(), and stop() misses no session and cuts no request short.         *)
(***************************************************************************)
EXTENDS Listener, SeqLemmas, SequenceTheorems

(***************************************************************************)
(* The inductive invariant.  A session waits for one operation, or for one *)
(* task among any number of on_stop(), or replaces its stream, or is at    *)
(* its end.  Stage says what else is true then.                            *)
(***************************************************************************)
StopTask == Task("on_stop", "ok")

\* The tasks that carry a session on
Moving == [op : Operations, res : Results] \cup {Task("on_run", "ok"), Task("do_write", "ok")}

States ==
    [life : {"none", "accepted", "launching", "live", "gone"},
     strand : Seq(Tasks), ops : SUBSET Operations,
     timer : {"armed", "passed", "closed"}, tls : BOOLEAN, swapping : BOOLEAN,
     waiting_ : BOOLEAN, parser_ : {"none", "empty", "some"},
     response_queue_ : {<<>>, <<TRUE>>, <<FALSE>>}, keep_alive : BOOLEAN,
     linger_ : BOOLEAN, lingering_ : BOOLEAN, answered : BOOLEAN, late : 0 .. 2]

Quiet(q) == AllIn(q, {StopTask})
Only(q, t) == OneBut(q, {StopTask}, t)

\* Waiting for a client that sent nothing of the next request
Silent(r) == r.waiting_ = TRUE /\ r.parser_ # "some"

\* The session comes to the handler of op next, with res; "none": to no handler
Stage(r, op, res) ==
    /\ op # "do_write" => r.response_queue_ = <<>>
    /\ op \in {"write", "do_write"} => r.waiting_ = FALSE
    /\ r.late \in {0, 1} /\ (r.late = 1 => op \in {"none", "linger", "shutdown"})
    /\ r.lingering_ = TRUE => op \in {"none", "linger"}
    /\ Silent(r) => op \in {"detect", "handshake", "header"}
    /\ op = "header" => r.parser_ # "none"
    /\ op \in {"on_run", "detect", "handshake", "swap"} => r.answered = FALSE
    /\ res = "aborted" => \/ op \in {"detect", "handshake", "linger"}
                          \/ op = "header" /\ r.parser_ = "empty"

Resting(r) == r.ops = {} /\ r.swapping = FALSE /\ Quiet(r.strand)

Waiting(r, op) ==
    r.ops = {op} /\ r.swapping = FALSE /\ Quiet(r.strand) /\ Stage(r, op, "pending")

Queued(r, t) ==
    r.ops = {} /\ r.swapping = FALSE /\ Only(r.strand, t) /\ Stage(r, t.op, t.res)

Swapping(r) ==
    r.ops = {} /\ r.swapping = TRUE /\ Quiet(r.strand) /\ Stage(r, "swap", "none")

SessionInv(r) ==
    /\ r \in States
    /\ \/ r.life \in {"none", "accepted", "launching"} /\ Resting(r) /\ Stage(r, "on_run", "none")
       \/ r.life = "live" /\ \E op \in Operations : Waiting(r, op)
       \/ r.life = "live" /\ \E t \in Moving : Queued(r, t)
       \/ r.life = "live" /\ Swapping(r)
       \/ r.life \in {"live", "gone"} /\ Resting(r) /\ Stage(r, "none", "none")

\* A kept alive connection does not wait for a client unless on_stop() is ahead
Hears(r) ==
    r.answered = TRUE /\ Silent(r) =>
        r.ops = {} \/ \E i \in 1 .. Len(r.strand) : r.strand[i] = StopTask

Heard(c) == stopping_ = TRUE /\ <<c, "http">> \in told => Hears(session[c])

Sessions ==
    /\ session \in [Connections -> States]
    /\ \A c \in Connections : SessionInv(session[c]) /\ Heard(c)

Registry ==
    /\ \A c \in Connections :
          session[c].life \in {"launching", "live"} => <<c, "http">> \in items_
    /\ stopping_ = FALSE => told = {} /\ todo = {}
    /\ stopper # "telling" => todo = {}
    /\ StopMissesNone

\* The accept loop: one accept, wait, task or session being launched
AcceptMoving == AcceptTasks \ {CloseTask}

AcceptStage(t) ==
    /\ t.res = "aborted" => is_open = FALSE
    /\ t.op = "on_accept" /\ t.c \in Connections => session[t.c].life = "accepted"
    /\ t.op = "on_accept" /\ t.res = "ok" => t.c \in Connections

Loop ==
    \/ /\ accepting = 1 /\ retrying = FALSE /\ launching = NoConnection /\ is_open = TRUE
       /\ AllIn(acceptor, {CloseTask})
    \/ /\ accepting = 0 /\ retrying = TRUE /\ launching = NoConnection /\ is_open = TRUE
       /\ AllIn(acceptor, {CloseTask})
    \/ /\ accepting = 0 /\ retrying = FALSE /\ launching = NoConnection
       /\ \E t \in AcceptMoving : OneBut(acceptor, {CloseTask}, t) /\ AcceptStage(t)
    \/ /\ accepting = 0 /\ retrying = FALSE /\ is_open = TRUE
       /\ launching \in Connections /\ session[launching].life = "launching"
       /\ AllIn(acceptor, {CloseTask})
    \/ /\ accepting = 0 /\ retrying = FALSE /\ launching = NoConnection /\ is_open = FALSE
       /\ AllIn(acceptor, {CloseTask})

Typed ==
    /\ mode \in Modes
    /\ ws \in [Connections -> {"none", "rejecting", "live", "gone"}]
    /\ items_ \subseteq Names
    /\ stopping_ \in BOOLEAN
    /\ is_open \in BOOLEAN
    /\ acceptor \in Seq(AcceptTasks)
    /\ stops \in 0 .. MaxStops
    /\ stopper \in {"idle", "posted", "telling", "threw"}
    /\ todo \subseteq alive
    /\ alive \subseteq Names
    /\ told \subseteq Names

IInv == Sessions /\ Registry /\ Loop /\ Typed

(***************************************************************************)
(* The strand                                                              *)
(***************************************************************************)
\* on_stop() and another task are told apart by op.
LEMMA TaskFacts ==
    /\ StopTask \in Tasks /\ StopTask.op = "on_stop" /\ StopTask.res = "ok"
    /\ \A t \in Moving : /\ t \in Tasks /\ t.op # "on_stop" /\ t # StopTask
                         /\ t.op \in Operations \cup {"on_run", "do_write"} /\ t.res \in Results
                         /\ t.op = "do_write" => t = Task("do_write", "ok")
    /\ \A t \in Tasks : t \in Moving \/ t = StopTask
    /\ \A op \in Operations, res \in Results :
          Task(op, res) \in Moving /\ Task(op, res).op = op /\ Task(op, res).res = res
    /\ \A op \in {"on_run", "do_write"} :
          Task(op, "ok") \in Moving /\ Task(op, "ok").op = op /\ Task(op, "ok").res = "ok"
<1>1. StopTask \in Tasks /\ StopTask.op = "on_stop" /\ StopTask.res = "ok"
  BY DEF Tasks, StopTask, Task
<1>2. \A op \in {"on_run", "do_write"} :
          /\ Task(op, "ok") \in Moving /\ Task(op, "ok") \in Tasks
          /\ Task(op, "ok").op = op /\ Task(op, "ok").res = "ok"
  BY DEF Tasks, Moving, Task
<1>3. ASSUME NEW t \in Moving
      PROVE  /\ t \in Tasks /\ t.op # "on_stop"
             /\ t.op \in Operations \cup {"on_run", "do_write"} /\ t.res \in Results
             /\ t.op = "do_write" => t = Task("do_write", "ok")
  <2>1. CASE t \in [op : Operations, res : Results]
    BY <2>1 DEF Tasks, Operations
  <2>2. CASE t \in {Task("on_run", "ok"), Task("do_write", "ok")}
    BY <2>2 DEF Tasks, Task, Operations, Results
  <2> QED BY <2>1, <2>2 DEF Moving
<1>4. \A op \in Operations, res \in Results :
          Task(op, res) \in Moving /\ Task(op, res).op = op /\ Task(op, res).res = res
  BY DEF Task, Moving
<1>5. \A t \in Tasks : t \in Moving \/ t = StopTask
  BY DEF Tasks, Moving, StopTask
<1> QED BY <1>1, <1>2, <1>3, <1>4, <1>5

\* on_stop() is posted.
LEMMA PostStop ==
    ASSUME NEW q \in Seq(Tasks)
    PROVE  /\ Append(q, StopTask) \in Seq(Tasks)
           /\ Quiet(q) => Quiet(Append(q, StopTask))
           /\ \A t : Only(q, t) => Only(Append(q, StopTask), t)
           /\ \E i \in 1 .. Len(Append(q, StopTask)) : Append(q, StopTask)[i] = StopTask
<1> DEFINE A == {StopTask}
<1>1. StopTask \in Tasks /\ StopTask \in A
  BY TaskFacts
<1> HIDE DEF A
<1>2. /\ Append(q, StopTask) \in Seq(Tasks)
      /\ AllIn(q, A) => AllIn(Append(q, StopTask), A)
      /\ \A t : OneBut(q, A, t) => OneBut(Append(q, StopTask), A, t)
      /\ \E i \in 1 .. Len(Append(q, StopTask)) : Append(q, StopTask)[i] = StopTask
  BY <1>1, PostAside
<1> QED BY <1>2, Zenon DEF Quiet, Only, A

\* A task that carries the session on is posted.
LEMMA PostTask ==
    ASSUME NEW q \in Seq(Tasks), Quiet(q), NEW t \in Moving
    PROVE  Append(q, t) \in Seq(Tasks) /\ Only(Append(q, t), t)
<1>1. t \in Tasks
  BY TaskFacts
<1> QED BY <1>1, PostMain DEF Quiet, Only

\* The first task is taken.
LEMMA PopTask ==
    ASSUME NEW q \in Seq(Tasks), q # <<>>
    PROVE  /\ Head(q) \in Tasks /\ Tail(q) \in Seq(Tasks)
           /\ Quiet(q) => Head(q) = StopTask /\ Quiet(Tail(q))
           /\ \A t \in Moving : Only(q, t) =>
                 IF Head(q) = StopTask THEN Only(Tail(q), t)
                 ELSE Head(q) = t /\ Quiet(Tail(q))
<1> DEFINE A == {StopTask}
<1>1. \A x : x \in A <=> x = StopTask
  OBVIOUS
<1>2. \A t \in Moving : t \notin A
  BY TaskFacts
<1> HIDE DEF A
<1>3. /\ Head(q) \in Tasks /\ Tail(q) \in Seq(Tasks)
      /\ AllIn(q, A) => Head(q) \in A /\ AllIn(Tail(q), A)
      /\ \A t : t \notin A /\ OneBut(q, A, t) =>
            IF Head(q) \in A THEN OneBut(Tail(q), A, t)
            ELSE Head(q) = t /\ AllIn(Tail(q), A)
  BY PopOne
<1>4. Quiet(q) => Head(q) = StopTask /\ Quiet(Tail(q))
  BY <1>1, <1>3 DEF Quiet, A
<1>5. ASSUME NEW t \in Moving, Only(q, t)
      PROVE  IF Head(q) = StopTask THEN Only(Tail(q), t) ELSE Head(q) = t /\ Quiet(Tail(q))
  BY <1>1, <1>2, <1>3, <1>5 DEF Quiet, Only, A
<1> QED BY <1>3, <1>4, <1>5

(***************************************************************************)
(* One session: what a handler or an operation may make of it              *)
(***************************************************************************)
Pop(s) == [s EXCEPT !.strand = Tail(@)]

\* A step of the session s to r that the invariant allows
Goes(s, r) == SessionInv(r) /\ r.life = s.life /\ (stopping_ = TRUE /\ Hears(s) => Hears(r))

\* A handler other than on_stop() may run
Runs(s) ==
    SessionInv(s) /\ s.swapping = FALSE /\ s.strand # <<>> /\ Head(s.strand).op # "on_stop"

\* A session with an operation outstanding waits for that one.
LEMMA WaitsFor ==
    ASSUME NEW s, SessionInv(s), NEW op \in s.ops
    PROVE  op \in Operations /\ s.life = "live" /\ s \in States /\ Waiting(s, op)
<1>1. s \in States /\ op \in Operations
  BY DEF SessionInv, States
<1>2. s.ops # {} OBVIOUS
<1>3. s.life = "live" /\ \E o \in Operations : Waiting(s, o)
  BY <1>2 DEF SessionInv, Resting, Queued, Swapping
<1>4. PICK o \in Operations : Waiting(s, o) BY <1>3
<1>5. o = op BY <1>4 DEF Waiting
<1> QED BY <1>1, <1>3, <1>4, <1>5

\* A task that is no on_stop() is the one the session waits for.
LEMMA RunsTask ==
    ASSUME NEW s, Runs(s)
    PROVE  LET t == Head(s.strand) IN
           /\ s \in States /\ s.life = "live" /\ s.ops = {}
           /\ t \in Moving /\ Stage(s, t.op, t.res)
           /\ Tail(s.strand) \in Seq(Tasks) /\ Quiet(Tail(s.strand))
<1> DEFINE q == s.strand
           t == Head(q)
<1>1. s \in States /\ q \in Seq(Tasks) /\ q # <<>>
  BY DEF Runs, SessionInv, States
<1> HIDE DEF q, t
<1>2. t # StopTask
  BY TaskFacts DEF t, q, Runs
<1>3. ~Quiet(q)
  BY <1>1, <1>2, PopTask DEF t
<1>4. s.life = "live" /\ \E m \in Moving : Queued(s, m)
  BY <1>3 DEF Runs, SessionInv, Resting, Waiting, Swapping, q
<1>5. PICK m \in Moving : Queued(s, m) BY <1>4
<1>6. Only(q, m) /\ s.ops = {} BY <1>5 DEF Queued, q
<1>7. t = m /\ Tail(q) \in Seq(Tasks) /\ Quiet(Tail(q))
  BY <1>1, <1>2, <1>6, PopTask DEF t
<1>8. t \in Moving /\ Stage(s, t.op, t.res)
  BY <1>5, <1>7 DEF Queued
<1> QED BY <1>1, <1>4, <1>6, <1>7, <1>8 DEF q, t

\* A handler starts an operation.
LEMMA ToOp ==
    ASSUME NEW s, Runs(s), NEW op \in Operations, NEW r \in States,
           r.life = s.life, r.swapping = s.swapping,
           r.strand = Tail(s.strand), r.ops = s.ops \cup {op},
           Stage(r, op, "pending"),
           ~(stopping_ = TRUE /\ r.answered = TRUE /\ Silent(r))
    PROVE  Goes(s, r)
<1>1. s.life = "live" /\ s.ops = {} /\ Quiet(r.strand) /\ s.swapping = FALSE
  BY RunsTask DEF Runs
<1>2. r.ops = {op}
  BY <1>1
<1>3. Waiting(r, op)
  BY <1>1, <1>2 DEF Waiting
<1> QED BY <1>1, <1>3 DEF Goes, SessionInv, Hears

\* A handler posts a task.
LEMMA ToTask ==
    ASSUME NEW s, Runs(s), NEW t \in Moving, NEW r \in States,
           r.life = s.life, r.swapping = s.swapping,
           r.strand = Append(Tail(s.strand), t), r.ops = s.ops,
           Stage(r, t.op, t.res)
    PROVE  Goes(s, r)
<1>1. /\ s.life = "live" /\ s.ops = {} /\ s.swapping = FALSE
      /\ Tail(s.strand) \in Seq(Tasks) /\ Quiet(Tail(s.strand))
  BY RunsTask DEF Runs
<1>2. Only(r.strand, t)
  BY <1>1, PostTask
<1>3. Queued(r, t)
  BY <1>1, <1>2 DEF Queued
<1> QED BY <1>1, <1>3 DEF Goes, SessionInv, Hears

\* A handler does neither: the session is at its end.
LEMMA ToEnd ==
    ASSUME NEW s, Runs(s), NEW r \in States,
           r.life = s.life, r.swapping = s.swapping,
           r.strand = Tail(s.strand), r.ops = s.ops,
           Stage(r, "none", "none")
    PROVE  Goes(s, r)
<1>1. s.life = "live" /\ s.ops = {} /\ s.swapping = FALSE /\ Quiet(r.strand)
  BY RunsTask DEF Runs
<1>2. Resting(r)
  BY <1>1 DEF Resting
<1> QED BY <1>1, <1>2 DEF Goes, SessionInv, Hears

\* on_ssl_session() begins.
LEMMA ToSwap ==
    ASSUME NEW s, Runs(s), NEW r \in States,
           r.life = s.life, r.swapping = TRUE,
           r.strand = Tail(s.strand), r.ops = s.ops,
           Stage(r, "swap", "none")
    PROVE  Goes(s, r)
<1>1. s.life = "live" /\ s.ops = {} /\ Quiet(r.strand)
  BY RunsTask DEF Runs
<1>2. Swapping(r)
  BY <1>1 DEF Swapping
<1> QED BY <1>1, <1>2 DEF Goes, SessionInv, Hears

\* The operation ends, and its handler is queued.
LEMMA EndsInv ==
    ASSUME NEW s, SessionInv(s), NEW op \in s.ops, NEW res \in Results, res # "aborted",
           NEW r \in States,
           r.life = s.life, r.swapping = s.swapping, r.waiting_ = s.waiting_,
           r.parser_ = s.parser_, r.response_queue_ = s.response_queue_,
           r.lingering_ = s.lingering_, r.answered = s.answered, r.late = s.late,
           r.ops = s.ops \ {op}, r.strand = Append(s.strand, Task(op, res))
    PROVE  Goes(s, r)
<1> DEFINE t == Task(op, res)
<1>1. /\ op \in Operations /\ s.life = "live" /\ s \in States /\ s.ops = {op}
      /\ s.swapping = FALSE /\ Quiet(s.strand) /\ Stage(s, op, "pending")
  BY WaitsFor DEF Waiting
<1>2. t \in Moving /\ t.op = op /\ t.res = res
  BY <1>1, TaskFacts
<1>3. s.strand \in Seq(Tasks)
  BY <1>1 DEF States
<1> HIDE DEF t
<1>4. Only(r.strand, t)
  BY <1>1, <1>2, <1>3, PostTask DEF t
<1>5. r.ops = {}
  BY <1>1
<1>6. Stage(r, op, res)
  BY <1>1 DEF Stage, Silent
<1>7. Queued(r, t)
  BY <1>1, <1>2, <1>4, <1>5, <1>6 DEF Queued
<1> QED BY <1>1, <1>2, <1>5, <1>7 DEF Goes, SessionInv, Hears

(***************************************************************************)
(* What the handlers share                                                 *)
(***************************************************************************)
\* The session s without its first task, and perhaps other changes
Left(s, p) ==
    /\ p \in States
    /\ p.life = s.life /\ p.swapping = s.swapping
    /\ p.ops = s.ops /\ p.strand = Tail(s.strand)

\* A task is taken off the strand, and nothing else.
LEMMA PopFields ==
    ASSUME NEW s, Runs(s)
    PROVE  LET p == Pop(s) IN
           /\ s \in States /\ Left(s, p)
           /\ p.timer = s.timer /\ p.tls = s.tls /\ p.waiting_ = s.waiting_
           /\ p.parser_ = s.parser_ /\ p.response_queue_ = s.response_queue_
           /\ p.keep_alive = s.keep_alive /\ p.linger_ = s.linger_
           /\ p.lingering_ = s.lingering_ /\ p.answered = s.answered /\ p.late = s.late
<1>1. s \in States /\ Tail(s.strand) \in Seq(Tasks)
  BY RunsTask
<1> QED BY <1>1 DEF Pop, States, Left

\* A handler leaves the session as p and starts op.
LEMMA StartInv ==
    ASSUME NEW s, Runs(s), NEW p, Left(s, p), NEW op \in Operations,
           Stage(p, op, "pending"),
           ~(stopping_ = TRUE /\ p.answered = TRUE /\ Silent(p))
    PROVE  Goes(s, Start(p, op))
<1> DEFINE r == Start(p, op)
<1>1. p \in States
  BY DEF Left
<1>2. /\ r \in States /\ r.life = p.life /\ r.swapping = p.swapping
      /\ r.ops = p.ops \cup {op} /\ r.strand = p.strand
      /\ r.waiting_ = p.waiting_ /\ r.parser_ = p.parser_
      /\ r.response_queue_ = p.response_queue_ /\ r.lingering_ = p.lingering_
      /\ r.answered = p.answered /\ r.late = p.late
  BY <1>1 DEF Start, States
<1> HIDE DEF r
<1>3. Stage(r, op, "pending") /\ ~(stopping_ = TRUE /\ r.answered = TRUE /\ Silent(r))
  BY <1>2 DEF Stage, Silent
<1>4. Goes(s, r)
  BY <1>2, <1>3, ToOp DEF Left
<1> QED BY <1>4 DEF r

\* A handler leaves the session as p and posts op.
LEMMA PostInv ==
    ASSUME NEW s, Runs(s), NEW p, Left(s, p), NEW op,
           Task(op, "ok") \in Moving, Task(op, "ok").op = op, Task(op, "ok").res = "ok",
           Stage(p, op, "ok")
    PROVE  Goes(s, Post(p, op))
<1> DEFINE r == Post(p, op)
           t == Task(op, "ok")
<1>1. p \in States /\ p.strand \in Seq(Tasks) /\ t \in Tasks
  BY TaskFacts DEF Left, States
<1>2. Append(p.strand, t) \in Seq(Tasks)
  BY <1>1
<1>3. r = [p EXCEPT !.strand = Append(p.strand, t)]
  BY <1>1 DEF Post, States
<1>4. t \in Moving /\ t.op = op /\ t.res = "ok"
  OBVIOUS
<1> HIDE DEF r, t
<1>5. /\ r \in States /\ r.life = p.life /\ r.swapping = p.swapping
      /\ r.ops = p.ops /\ r.strand = Append(p.strand, t)
      /\ r.waiting_ = p.waiting_ /\ r.parser_ = p.parser_
      /\ r.response_queue_ = p.response_queue_ /\ r.lingering_ = p.lingering_
      /\ r.answered = p.answered /\ r.late = p.late
  BY <1>1, <1>2, <1>3 DEF States
<1>6. Stage(r, t.op, t.res)
  BY <1>4, <1>5 DEF Stage, Silent
<1>7. Goes(s, r)
  BY <1>4, <1>5, <1>6, ToTask DEF Left
<1> QED BY <1>7 DEF r

\* do_read().
LEMMA DoReadInv ==
    ASSUME NEW s, Runs(s), NEW p, Left(s, p), NEW buffered \in Buffered,
           p.response_queue_ = <<>>, p.late = 0, p.lingering_ = FALSE,
           p.answered = FALSE \/ stopping_ = FALSE
    PROVE  Goes(s, DoRead(p, buffered))
<1> DEFINE r == [Rearm(p) EXCEPT !.waiting_ = TRUE,
                                 !.parser_ = IF buffered = "none" THEN "empty" ELSE "some"]
<1>1. p \in States
  BY DEF Left
<1>2. /\ r \in States /\ r.life = p.life /\ r.swapping = p.swapping
      /\ r.ops = p.ops /\ r.strand = p.strand
      /\ r.waiting_ = TRUE /\ r.parser_ \in {"empty", "some"}
      /\ r.response_queue_ = p.response_queue_ /\ r.lingering_ = p.lingering_
      /\ r.answered = p.answered /\ r.late = p.late
  BY <1>1 DEF Rearm, States
<1>3. DoRead(p, buffered) = IF buffered = "whole" THEN Post(r, "header") ELSE Start(r, "header")
  BY DEF DoRead
<1> HIDE DEF r
<1>4. Left(s, r) /\ Stage(r, "header", "pending") /\ Stage(r, "header", "ok")
  BY <1>2 DEF Left, Stage, Silent
<1>5. "header" \in Operations /\ "ok" \in Results
  BY DEF Operations, Results
<1>6. Goes(s, Post(r, "header"))
  BY <1>4, <1>5, TaskFacts, PostInv
<1>7. Goes(s, Start(r, "header"))
  BY <1>2, <1>4, <1>5, StartInv
<1> QED BY <1>3, <1>6, <1>7

\* queue_write() and do_write().
LEMMA QueueInv ==
    ASSUME NEW s, Runs(s), NEW p, Left(s, p), NEW keep \in BOOLEAN,
           p.response_queue_ = <<>>, p.waiting_ = FALSE, p.late = 0, p.lingering_ = FALSE
    PROVE  Goes(s, QueueWrite(p, keep))
<1> DEFINE r == [p EXCEPT !.response_queue_ = <<keep>>]
<1>1. p \in States
  BY DEF Left
<1>2. Append(<<>>, keep) = <<keep>> /\ Len(<<keep>>) = 1
  OBVIOUS
<1>3. <<keep>> \in {<<>>, <<TRUE>>, <<FALSE>>}
  OBVIOUS
<1>4. /\ r \in States /\ r.life = p.life /\ r.swapping = p.swapping
      /\ r.ops = p.ops /\ r.strand = p.strand
      /\ r.waiting_ = FALSE /\ r.parser_ = p.parser_
      /\ r.response_queue_ = <<keep>> /\ r.lingering_ = FALSE
      /\ r.answered = p.answered /\ r.late = 0
  BY <1>1, <1>3 DEF States
<1>5. QueueWrite(p, keep) = Post(r, "do_write")
  BY <1>1, <1>2, <1>4 DEF QueueWrite, States
<1> HIDE DEF r
<1>6. Left(s, r) /\ Stage(r, "do_write", "ok")
  BY <1>4 DEF Left, Stage, Silent
<1>7. Goes(s, Post(r, "do_write"))
  BY <1>6, TaskFacts, PostInv
<1> QED BY <1>5, <1>7

\* do_eof().
LEMMA EofInv ==
    ASSUME NEW s, Runs(s), NEW p, Left(s, p),
           p.response_queue_ = <<>>, p.waiting_ = FALSE, p.late \in {0, 1}, p.lingering_ = FALSE
    PROVE  Goes(s, DoEof(p))
<1> DEFINE a == Rearm(p)
           l == [a EXCEPT !.lingering_ = TRUE]
<1>1. p \in States
  BY DEF Left
<1>2. /\ a \in States /\ a.life = p.life /\ a.swapping = p.swapping
      /\ a.ops = p.ops /\ a.strand = p.strand
      /\ a.waiting_ = p.waiting_ /\ a.parser_ = p.parser_
      /\ a.response_queue_ = p.response_queue_ /\ a.lingering_ = p.lingering_
      /\ a.answered = p.answered /\ a.late = p.late
  BY <1>1 DEF Rearm, States
<1>3. /\ l \in States /\ l.life = a.life /\ l.swapping = a.swapping
      /\ l.ops = a.ops /\ l.strand = a.strand
      /\ l.waiting_ = a.waiting_ /\ l.parser_ = a.parser_
      /\ l.response_queue_ = a.response_queue_ /\ l.lingering_ = TRUE
      /\ l.answered = a.answered /\ l.late = a.late
  <2> HIDE DEF a
  <2> QED BY <1>2 DEF States
<1>4. /\ p.linger_ => DoEof(p) = Start(l, "linger")
      /\ ~p.linger_ /\ p.tls => DoEof(p) = Start(a, "shutdown")
      /\ ~p.linger_ /\ ~p.tls => DoEof(p) = p
  BY DEF DoEof, DoLinger
<1> HIDE DEF a, l
<1>5. "linger" \in Operations /\ "shutdown" \in Operations
  BY DEF Operations
<1>6. Left(s, l) /\ Stage(l, "linger", "pending") /\ ~Silent(l)
  BY <1>2, <1>3 DEF Left, Stage, Silent
<1>7. Left(s, a) /\ Stage(a, "shutdown", "pending") /\ ~Silent(a)
  BY <1>2 DEF Left, Stage, Silent
<1>8. Stage(p, "none", "none")
  BY DEF Stage, Silent
<1>9. Goes(s, Start(l, "linger")) BY <1>5, <1>6, StartInv
<1>10. Goes(s, Start(a, "shutdown")) BY <1>5, <1>7, StartInv
<1>11. Goes(s, p) BY <1>1, <1>8, ToEnd DEF Left
<1> QED BY <1>4, <1>9, <1>10, <1>11

(***************************************************************************)
(* The handlers                                                            *)
(***************************************************************************)
\* What Pop(s) is, for the lemmas below: t is the task that is run
Popped(s, p, t) ==
    /\ s \in States /\ t \in Moving /\ Left(s, p)
    /\ Stage(s, t.op, t.res)
    /\ p.timer = s.timer /\ p.tls = s.tls /\ p.waiting_ = s.waiting_
    /\ p.parser_ = s.parser_ /\ p.response_queue_ = s.response_queue_
    /\ p.keep_alive = s.keep_alive /\ p.linger_ = s.linger_
    /\ p.lingering_ = s.lingering_ /\ p.answered = s.answered /\ p.late = s.late

LEMMA PoppedFacts ==
    ASSUME NEW s, Runs(s)
    PROVE  Popped(s, Pop(s), Head(s.strand))
<1>1. s \in States /\ Head(s.strand) \in Moving /\ Stage(s, Head(s.strand).op, Head(s.strand).res)
  BY RunsTask
<1> QED BY <1>1, PopFields DEF Popped

\* on_run().
LEMMA OnRunInv ==
    ASSUME NEW s, Runs(s), Head(s.strand).op = "on_run", NEW op \in {"handshake", "detect"}
    PROVE  Goes(s, Start([Rearm(Pop(s)) EXCEPT !.waiting_ = TRUE], op))
<1> DEFINE p == Pop(s)
           r == [Rearm(p) EXCEPT !.waiting_ = TRUE]
<1>1. Popped(s, p, Head(s.strand)) BY PoppedFacts
<1>2. Stage(s, "on_run", Head(s.strand).res) /\ Left(s, p) BY <1>1 DEF Popped
<1> HIDE DEF p
<1>3. /\ Left(s, r) /\ r.waiting_ = TRUE /\ r.parser_ = s.parser_
      /\ r.response_queue_ = s.response_queue_ /\ r.lingering_ = s.lingering_
      /\ r.answered = s.answered /\ r.late = s.late
  BY <1>1 DEF Popped, Left, Rearm, States
<1> HIDE DEF r
<1>4. Stage(r, op, "pending") /\ r.answered = FALSE /\ op \in Operations
  BY <1>2, <1>3 DEF Stage, Silent, Operations
<1>5. Goes(s, Start(r, op)) BY <1>3, <1>4, StartInv
<1> QED BY <1>5 DEF r, p

\* More bytes for the operation that was run, or a further piece to discard.
LEMMA AgainInv ==
    ASSUME NEW s, Runs(s), NEW op \in {"detect", "handshake", "linger"},
           Head(s.strand).op = op
    PROVE  Goes(s, Start(Pop(s), op))
<1> DEFINE p == Pop(s)
<1>1. Popped(s, p, Head(s.strand)) BY PoppedFacts
<1> HIDE DEF p
<1>2. /\ Stage(s, op, Head(s.strand).res) /\ Left(s, p)
      /\ p.waiting_ = s.waiting_ /\ p.parser_ = s.parser_
      /\ p.response_queue_ = s.response_queue_ /\ p.lingering_ = s.lingering_
      /\ p.answered = s.answered /\ p.late = s.late
  BY <1>1 DEF Popped
<1>3. Stage(p, op, "pending") /\ ~(p.answered = TRUE /\ Silent(p)) /\ op \in Operations
  BY <1>2 DEF Stage, Silent, Operations
<1>4. Goes(s, Start(p, op)) BY <1>2, <1>3, StartInv
<1> QED BY <1>4 DEF p

\* The session waits for the client no longer.
LEMMA DoneWaiting ==
    ASSUME NEW s, Runs(s)
    PROVE  LET r == [Pop(s) EXCEPT !.waiting_ = FALSE]
               t == Head(s.strand)
           IN  /\ Left(s, r) /\ r.waiting_ = FALSE /\ r.parser_ = s.parser_
               /\ r.response_queue_ = s.response_queue_ /\ r.lingering_ = s.lingering_
               /\ r.answered = s.answered /\ r.late = s.late
               /\ Stage(s, t.op, t.res) /\ t \in Moving
<1> DEFINE p == Pop(s)
           r == [p EXCEPT !.waiting_ = FALSE]
<1>1. Popped(s, p, Head(s.strand)) BY PoppedFacts
<1>2. Stage(s, Head(s.strand).op, Head(s.strand).res) /\ Head(s.strand) \in Moving
  BY <1>1 DEF Popped
<1> HIDE DEF p
<1>3. /\ Left(s, r) /\ r.waiting_ = FALSE /\ r.parser_ = s.parser_
      /\ r.response_queue_ = s.response_queue_ /\ r.lingering_ = s.lingering_
      /\ r.answered = s.answered /\ r.late = s.late
  BY <1>1 DEF Popped, Left, States
<1> QED BY <1>2, <1>3 DEF p

\* The start failed, the client speaks TLS on a plain port, reading failed, or
\* the connection is handed to a WebSocketSession.
LEMMA GiveUpInv ==
    ASSUME NEW s, Runs(s), Head(s.strand).op \in {"detect", "handshake", "header", "body"}
    PROVE  Goes(s, [Pop(s) EXCEPT !.waiting_ = FALSE])
<1> DEFINE r == [Pop(s) EXCEPT !.waiting_ = FALSE]
           t == Head(s.strand)
<1>1. /\ Left(s, r) /\ r.waiting_ = FALSE
      /\ r.response_queue_ = s.response_queue_ /\ r.lingering_ = s.lingering_
      /\ r.late = s.late /\ Stage(s, t.op, t.res)
  BY DoneWaiting
<1> HIDE DEF r
<1>2. Stage(r, "none", "none")
  BY <1>1 DEF Stage, Silent
<1>3. Goes(s, r) BY <1>1, <1>2, ToEnd DEF Left
<1> QED BY <1>3 DEF r

\* on_detect() of a plain connection, on_handshake().
LEMMA FirstReadInv ==
    ASSUME NEW s, Runs(s), Head(s.strand).op \in {"detect", "handshake"},
           NEW buffered \in Buffered
    PROVE  Goes(s, DoRead([Pop(s) EXCEPT !.waiting_ = FALSE], buffered))
<1> DEFINE r == [Pop(s) EXCEPT !.waiting_ = FALSE]
           t == Head(s.strand)
<1>1. /\ Left(s, r) /\ r.waiting_ = FALSE
      /\ r.response_queue_ = s.response_queue_ /\ r.lingering_ = s.lingering_
      /\ r.late = s.late /\ Stage(s, t.op, t.res) /\ r.answered = s.answered
  BY DoneWaiting
<1> HIDE DEF r
<1>2. /\ r.response_queue_ = <<>> /\ r.late = 0 /\ r.answered = FALSE
      /\ r.lingering_ = FALSE
  BY <1>1 DEF Stage, Left, States
<1>3. Goes(s, DoRead(r, buffered)) BY <1>1, <1>2, DoReadInv
<1> QED BY <1>3 DEF r

\* on_detect() of a TLS connection.
LEMMA OnDetectTlsInv ==
    ASSUME NEW s, Runs(s), Head(s.strand).op = "detect"
    PROVE  Goes(s, [Pop(s) EXCEPT !.waiting_ = FALSE, !.swapping = TRUE])
<1> DEFINE p == Pop(s)
           r == [p EXCEPT !.waiting_ = FALSE, !.swapping = TRUE]
<1>1. Popped(s, p, Head(s.strand)) BY PoppedFacts
<1> HIDE DEF p
<1>2. Stage(s, "detect", Head(s.strand).res) BY <1>1 DEF Popped
<1>3. /\ r \in States /\ r.life = s.life /\ r.swapping = TRUE
      /\ r.strand = Tail(s.strand) /\ r.ops = s.ops /\ r.waiting_ = FALSE
      /\ r.response_queue_ = s.response_queue_ /\ r.lingering_ = s.lingering_
      /\ r.answered = s.answered /\ r.late = s.late
  BY <1>1 DEF Popped, Left, States
<1> HIDE DEF r
<1>4. Stage(r, "swap", "none")
  BY <1>2, <1>3 DEF Stage, Silent
<1>5. Goes(s, r) BY <1>3, <1>4, ToSwap
<1> QED BY <1>5 DEF r, p

\* on_ssl_session() ends: the handshake on the new stream.
LEMMA OnSslSessionInv ==
    ASSUME NEW s, SessionInv(s), s.swapping
    PROVE  Goes(s, Start([Rearm(s) EXCEPT !.swapping = FALSE, !.tls = TRUE, !.waiting_ = TRUE],
                         "handshake"))
<1> DEFINE p == [Rearm(s) EXCEPT !.swapping = FALSE, !.tls = TRUE, !.waiting_ = TRUE]
           r == Start(p, "handshake")
<1>1. s \in States /\ s.swapping = TRUE
  BY DEF SessionInv, States
<1>2. s.life = "live" /\ Swapping(s)
  BY <1>1 DEF SessionInv, Resting, Waiting, Queued
<1>3. s.ops = {} /\ Quiet(s.strand) /\ Stage(s, "swap", "none")
  BY <1>2 DEF Swapping
<1>4. /\ p \in States /\ p.life = s.life /\ p.swapping = FALSE
      /\ p.strand = s.strand /\ p.ops = {} /\ p.waiting_ = TRUE /\ p.parser_ = s.parser_
      /\ p.response_queue_ = s.response_queue_ /\ p.lingering_ = s.lingering_
      /\ p.answered = s.answered /\ p.late = s.late
  BY <1>1, <1>3 DEF Rearm, States
<1> HIDE DEF p
<1>5. "handshake" \in Operations BY DEF Operations
<1>6. /\ r \in States /\ r.life = s.life /\ r.swapping = FALSE
      /\ r.strand = s.strand /\ r.ops = {"handshake"} /\ r.waiting_ = TRUE
      /\ r.parser_ = s.parser_
      /\ r.response_queue_ = s.response_queue_ /\ r.lingering_ = s.lingering_
      /\ r.answered = s.answered /\ r.late = s.late
  BY <1>4, <1>5 DEF Start, States
<1> HIDE DEF r
<1>7. Waiting(r, "handshake") /\ r.answered = FALSE
  BY <1>3, <1>6 DEF Waiting, Stage, Silent
<1>8. Goes(s, r)
  BY <1>2, <1>5, <1>6, <1>7 DEF Goes, SessionInv, Hears
<1> QED BY <1>8 DEF r, p

\* A piece of the request was read; the next, the body or 100 Continue follows.
LEMMA OnMoreInv ==
    ASSUME NEW s, Runs(s), Head(s.strand).op \in Requests,
           NEW op \in {"header", "body", "continue"}
    PROVE  Goes(s, Start([Pop(s) EXCEPT !.parser_ = "some"], op))
<1> DEFINE p == Pop(s)
           r == [p EXCEPT !.parser_ = "some"]
           t == Head(s.strand)
<1>1. Popped(s, p, t) BY PoppedFacts
<1> HIDE DEF p
<1>2. Stage(s, t.op, t.res) BY <1>1 DEF Popped
<1>3. /\ Left(s, r) /\ r.parser_ = "some"
      /\ r.response_queue_ = s.response_queue_ /\ r.lingering_ = s.lingering_
      /\ r.answered = s.answered /\ r.late = s.late
  BY <1>1 DEF Popped, Left, States
<1> HIDE DEF r
<1>4. Stage(r, op, "pending") /\ ~Silent(r) /\ op \in Operations
  BY <1>2, <1>3 DEF Stage, Silent, Operations, Requests
<1>5. Goes(s, Start(r, op)) BY <1>3, <1>4, StartInv
<1> QED BY <1>5 DEF r, p

\* on_continue().
LEMMA OnContinueInv ==
    ASSUME NEW s, Runs(s), Head(s.strand).op = "continue"
    PROVE  Goes(s, Start(Pop(s), "body")) /\ Goes(s, Pop(s))
<1> DEFINE p == Pop(s)
<1>1. Popped(s, p, Head(s.strand)) BY PoppedFacts
<1> HIDE DEF p
<1>2. /\ Stage(s, "continue", Head(s.strand).res) /\ Left(s, p)
      /\ p.waiting_ = s.waiting_ /\ p.parser_ = s.parser_
      /\ p.response_queue_ = s.response_queue_ /\ p.lingering_ = s.lingering_
      /\ p.answered = s.answered /\ p.late = s.late
  BY <1>1 DEF Popped
<1>3. /\ Stage(p, "body", "pending") /\ ~Silent(p) /\ "body" \in Operations
      /\ Stage(p, "none", "none")
  BY <1>2 DEF Stage, Silent, Operations
<1>4. Goes(s, Start(p, "body")) BY <1>2, <1>3, StartInv
<1>5. Goes(s, p) BY <1>2, <1>3, ToEnd DEF Left
<1> QED BY <1>4, <1>5 DEF p

\* on_read() of a request the parser refused.
LEMMA RefusedInv ==
    ASSUME NEW s, Runs(s), Head(s.strand).op \in Requests
    PROVE  Goes(s, SendError([Pop(s) EXCEPT !.waiting_ = FALSE, !.parser_ = "some"]))
<1> DEFINE p == Pop(s)
           x == [p EXCEPT !.waiting_ = FALSE, !.parser_ = "some"]
           r == [x EXCEPT !.linger_ = TRUE]
           t == Head(s.strand)
<1>1. Popped(s, p, t) BY PoppedFacts
<1> HIDE DEF p
<1>2. Stage(s, t.op, t.res) BY <1>1 DEF Popped
<1>3. /\ Left(s, r) /\ r.waiting_ = FALSE
      /\ r.response_queue_ = s.response_queue_ /\ r.lingering_ = s.lingering_
      /\ r.late = s.late
  BY <1>1 DEF Popped, Left, States
<1> HIDE DEF r
<1>4. r.response_queue_ = <<>> /\ r.late = 0 /\ r.lingering_ = FALSE
  BY <1>2, <1>3 DEF Stage, Left, States, Requests
<1>5. Goes(s, QueueWrite(r, FALSE)) BY <1>3, <1>4, QueueInv
<1> QED BY <1>5 DEF r, x, p, SendError

\* on_read() of a request that was routed.
LEMMA OnRequestInv ==
    ASSUME NEW s, Runs(s), Head(s.strand).op = "body", NEW keep \in BOOLEAN
    PROVE  Goes(s, QueueWrite([Pop(s) EXCEPT !.waiting_ = FALSE], keep))
<1> DEFINE r == [Pop(s) EXCEPT !.waiting_ = FALSE]
           t == Head(s.strand)
<1>1. /\ Left(s, r) /\ r.waiting_ = FALSE
      /\ r.response_queue_ = s.response_queue_ /\ r.lingering_ = s.lingering_
      /\ r.late = s.late /\ Stage(s, t.op, t.res)
  BY DoneWaiting
<1> HIDE DEF r
<1>2. r.response_queue_ = <<>> /\ r.late = 0 /\ r.lingering_ = FALSE
  BY <1>1 DEF Stage, Left, States
<1>3. Goes(s, QueueWrite(r, keep)) BY <1>1, <1>2, QueueInv
<1> QED BY <1>3 DEF r

\* on_read() at the end of the stream, between two requests.
LEMMA ReadEndInv ==
    ASSUME NEW s, Runs(s), Head(s.strand).op \in Requests
    PROVE  Goes(s, DoEof([Pop(s) EXCEPT !.waiting_ = FALSE]))
<1> DEFINE r == [Pop(s) EXCEPT !.waiting_ = FALSE]
           t == Head(s.strand)
<1>1. /\ Left(s, r) /\ r.waiting_ = FALSE
      /\ r.response_queue_ = s.response_queue_ /\ r.lingering_ = s.lingering_
      /\ r.late = s.late /\ Stage(s, t.op, t.res)
  BY DoneWaiting
<1> HIDE DEF r
<1>2. r.response_queue_ = <<>> /\ r.late = 0 /\ r.lingering_ = FALSE
  BY <1>1 DEF Stage, Left, States, Requests
<1>3. Goes(s, DoEof(r)) BY <1>1, <1>2, EofInv
<1> QED BY <1>3 DEF r

\* The task do_write() posted.
LEMMA DoWriteInv ==
    ASSUME NEW s, Runs(s), Head(s.strand).op = "do_write"
    PROVE  /\ Pop(s).response_queue_ = <<>> => Goes(s, Pop(s))
           /\ Pop(s).response_queue_ # <<>> =>
                 Goes(s, Start([Pop(s) EXCEPT !.response_queue_ = Tail(@),
                                              !.keep_alive = Head(Pop(s).response_queue_)],
                               "write"))
<1> DEFINE p == Pop(s)
           r == [p EXCEPT !.response_queue_ = Tail(@), !.keep_alive = Head(p.response_queue_)]
<1>1. Popped(s, p, Head(s.strand)) BY PoppedFacts
<1> HIDE DEF p
<1>2. /\ Stage(s, "do_write", Head(s.strand).res) /\ Left(s, p)
      /\ p.waiting_ = s.waiting_ /\ p.parser_ = s.parser_
      /\ p.response_queue_ = s.response_queue_ /\ p.lingering_ = s.lingering_
      /\ p.answered = s.answered /\ p.late = s.late
  BY <1>1 DEF Popped
<1>3. p \in States /\ p.response_queue_ \in {<<>>, <<TRUE>>, <<FALSE>>}
  BY <1>2 DEF Left, States
<1>4. ASSUME p.response_queue_ = <<>> PROVE Goes(s, p)
  <2>1. Stage(p, "none", "none")
    BY <1>2, <1>4 DEF Stage, Silent
  <2> QED BY <1>2, <2>1, ToEnd DEF Left
<1>5. ASSUME p.response_queue_ # <<>> PROVE Goes(s, Start(r, "write"))
  <2>1. PICK b \in BOOLEAN : p.response_queue_ = <<b>>
    BY <1>3, <1>5
  <2>2. Tail(<<b>>) = <<>> /\ Head(<<b>>) = b
    OBVIOUS
  <2>3. r = [p EXCEPT !.response_queue_ = <<>>, !.keep_alive = b]
    BY <1>3, <2>1, <2>2 DEF States
  <2> HIDE DEF r
  <2>4. /\ Left(s, r) /\ r.waiting_ = p.waiting_ /\ r.response_queue_ = <<>>
        /\ r.lingering_ = p.lingering_ /\ r.answered = p.answered /\ r.late = p.late
    BY <1>2, <2>3 DEF Left, States
  <2>5. Stage(r, "write", "pending") /\ ~Silent(r) /\ "write" \in Operations
    BY <1>2, <2>4 DEF Stage, Silent, Operations
  <2> QED BY <2>4, <2>5, StartInv
<1> QED BY <1>4, <1>5 DEF p, r

\* on_write(): what Answered leaves.
LEMMA AnsweredFacts ==
    ASSUME NEW s, Runs(s), Head(s.strand).op = "write"
    PROVE  LET r == Answered(Pop(s)) IN
           /\ Left(s, r) /\ r.waiting_ = FALSE /\ r.lingering_ = FALSE
           /\ r.response_queue_ = <<>> /\ r.late \in {0, 1}
           /\ s.response_queue_ = <<>>
           /\ ~stopping_ => r.late = 0
<1> DEFINE p == Pop(s)
           n == IF stopping_ THEN IF p.late = 0 THEN 1 ELSE 2 ELSE p.late
           r == Answered(p)
<1>1. Popped(s, p, Head(s.strand)) BY PoppedFacts
<1> HIDE DEF p
<1>2. /\ Stage(s, "write", Head(s.strand).res) /\ Left(s, p) /\ s \in States
      /\ p.waiting_ = s.waiting_ /\ p.lingering_ = s.lingering_
      /\ p.response_queue_ = s.response_queue_ /\ p.late = s.late
  BY <1>1 DEF Popped
<1>3. /\ p.waiting_ = FALSE /\ p.lingering_ = FALSE /\ p.response_queue_ = <<>>
      /\ p.late = 0 /\ p \in States
  BY <1>2 DEF Stage, States, Left
<1>4. n \in {0, 1} /\ n \in 0 .. 2 /\ (~stopping_ => n = 0)
  BY <1>3
<1>5. r = [p EXCEPT !.answered = TRUE, !.keep_alive = FALSE, !.late = n]
  BY <1>3 DEF Answered, States
<1> HIDE DEF n, r
<1>6. /\ Left(s, r) /\ r.waiting_ = p.waiting_ /\ r.lingering_ = p.lingering_
      /\ r.response_queue_ = p.response_queue_ /\ r.late = n
  BY <1>2, <1>3, <1>4, <1>5 DEF Left, States
<1>7. r.late \in {0, 1} /\ (~stopping_ => r.late = 0)
  BY <1>4, <1>6
<1> QED BY <1>2, <1>3, <1>6, <1>7 DEF r, p

\* on_write() that reads the next request, or ends the connection.
LEMMA OnWriteInv ==
    ASSUME NEW s, Runs(s), Head(s.strand).op = "write"
    PROVE  /\ stopping_ = FALSE => \A buffered \in Buffered : Goes(s, DoRead(Answered(Pop(s)), buffered))
           /\ Goes(s, DoEof(Answered(Pop(s))))
           /\ Answered(Pop(s)).response_queue_ = <<>>
<1> DEFINE r == Answered(Pop(s))
<1>1. /\ Left(s, r) /\ r.waiting_ = FALSE /\ r.lingering_ = FALSE
      /\ r.response_queue_ = <<>> /\ r.late \in {0, 1}
      /\ ~stopping_ => r.late = 0
  BY AnsweredFacts
<1> HIDE DEF r
<1>2. Goes(s, DoEof(r)) BY <1>1, EofInv
<1>3. ASSUME stopping_ = FALSE, NEW buffered \in Buffered PROVE Goes(s, DoRead(r, buffered))
  BY <1>1, <1>3, DoReadInv
<1> QED BY <1>1, <1>2, <1>3 DEF r

\* on_write() with an error.
LEMMA OnWriteFailedInv ==
    ASSUME NEW s, Runs(s), Head(s.strand).op = "write"
    PROVE  Goes(s, DoEof(Pop(s)))
<1> DEFINE p == Pop(s)
<1>1. Popped(s, p, Head(s.strand)) BY PoppedFacts
<1> HIDE DEF p
<1>2. /\ Stage(s, "write", Head(s.strand).res) /\ Left(s, p) /\ s \in States
      /\ p.waiting_ = s.waiting_ /\ p.lingering_ = s.lingering_
      /\ p.response_queue_ = s.response_queue_ /\ p.late = s.late
  BY <1>1 DEF Popped
<1>3. p.waiting_ = FALSE /\ p.lingering_ = FALSE /\ p.response_queue_ = <<>> /\ p.late \in {0, 1}
  BY <1>2 DEF Stage, States, Left
<1>4. Goes(s, DoEof(p)) BY <1>2, <1>3, EofInv
<1> QED BY <1>4 DEF p

\* on_shutdown(), on_linger() at its end.
LEMMA LastInv ==
    ASSUME NEW s, Runs(s), Head(s.strand).op \in {"shutdown", "linger"}
    PROVE  Goes(s, Pop(s))
<1> DEFINE p == Pop(s)
           t == Head(s.strand)
<1>1. Popped(s, p, t) BY PoppedFacts
<1> HIDE DEF p
<1>2. /\ Stage(s, t.op, t.res) /\ Left(s, p)
      /\ p.waiting_ = s.waiting_ /\ p.parser_ = s.parser_ /\ p.lingering_ = s.lingering_
      /\ p.response_queue_ = s.response_queue_ /\ p.late = s.late
  BY <1>1 DEF Popped
<1>3. Stage(p, "none", "none")
  BY <1>2 DEF Stage, Silent
<1>4. Goes(s, p) BY <1>2, <1>3, ToEnd DEF Left
<1> QED BY <1>4 DEF p

\* The deadline passes.
LEMMA ExpiresInv ==
    ASSUME NEW s, SessionInv(s)
    PROVE  Goes(s, [s EXCEPT !.timer = "passed"])
<1> DEFINE r == [s EXCEPT !.timer = "passed"]
<1>1. s \in States BY DEF SessionInv
<1>2. /\ r \in States /\ r.life = s.life /\ r.swapping = s.swapping
      /\ r.ops = s.ops /\ r.strand = s.strand
      /\ r.waiting_ = s.waiting_ /\ r.parser_ = s.parser_
      /\ r.response_queue_ = s.response_queue_ /\ r.lingering_ = s.lingering_
      /\ r.answered = s.answered /\ r.late = s.late
  BY <1>1 DEF States
<1> HIDE DEF r
<1>3. \A op, res : Stage(s, op, res) => Stage(r, op, res)
  BY <1>2 DEF Stage, Silent
<1>4. /\ \A op : Waiting(s, op) => Waiting(r, op)
      /\ \A t : Queued(s, t) => Queued(r, t)
      /\ Resting(s) => Resting(r)
      /\ Swapping(s) => Swapping(r)
      /\ Hears(s) => Hears(r)
  BY <1>2, <1>3 DEF Waiting, Queued, Resting, Swapping, Hears, Silent
<1>5. SessionInv(r)
  BY <1>2, <1>3, <1>4 DEF SessionInv
<1> QED BY <1>2, <1>4, <1>5 DEF Goes, r

\* An operation completes or times out.
LEMMA CompletesInv ==
    ASSUME NEW s, SessionInv(s), NEW op \in s.ops, NEW res \in {"ok", "eof", "error"},
           NEW timer \in {"armed", "passed", "closed"}
    PROVE  Goes(s, [s EXCEPT !.ops = @ \ {op}, !.timer = timer,
                             !.strand = Append(@, Task(op, res))])
<1> DEFINE t == Task(op, res)
           r == [s EXCEPT !.ops = @ \ {op}, !.timer = timer, !.strand = Append(@, t)]
<1>0. s \in States /\ op \in Operations
  BY WaitsFor
<1>1. s \in States /\ op \in Operations /\ s.strand \in Seq(Tasks)
  BY <1>0 DEF States
<1>2. t \in Tasks
  BY <1>1, TaskFacts DEF Results
<1> HIDE DEF t
<1>3. Append(s.strand, t) \in Seq(Tasks)
  BY <1>1, <1>2
<1>4. /\ r \in States /\ r.life = s.life /\ r.swapping = s.swapping
      /\ r.ops = s.ops \ {op} /\ r.strand = Append(s.strand, t)
      /\ r.waiting_ = s.waiting_ /\ r.parser_ = s.parser_
      /\ r.response_queue_ = s.response_queue_ /\ r.lingering_ = s.lingering_
      /\ r.answered = s.answered /\ r.late = s.late
  BY <1>1, <1>3 DEF States
<1> HIDE DEF r
<1>5. res \in Results /\ res # "aborted" BY DEF Results
<1>6. Goes(s, r) BY <1>4, <1>5, EndsInv DEF t
<1> QED BY <1>6 DEF r, t

(***************************************************************************)
(* on_stop()                                                               *)
(***************************************************************************)
\* The handlers of the operations that on_stop() cancels, at most one.
LEMMA CancelledTasks ==
    /\ SetToSeq({}) = <<>>
    /\ \A t : SetToSeq({t}) = <<t>>
<1>1. SetToSeq({}) = <<>>
  <2>1. Cardinality({}) = 0 BY FS_EmptySet
  <2>2. \E f \in [1 .. 0 -> {}] : IsInjective(f)
    <3>1. [i \in 1 .. 0 |-> i] \in [1 .. 0 -> {}] OBVIOUS
    <3>2. IsInjective([i \in 1 .. 0 |-> i]) BY DEF IsInjective
    <3> QED BY <3>1, <3>2
  <2>3. SetToSeq({}) \in [1 .. 0 -> {}]
    BY <2>1, <2>2, Zenon DEF SetToSeq
  <2> QED BY <2>3
<1>2. ASSUME NEW t PROVE SetToSeq({t}) = <<t>>
  <2>1. Cardinality({t}) = 1 BY FS_Singleton
  <2>2. \E f \in [1 .. 1 -> {t}] : IsInjective(f)
    <3>1. [i \in 1 .. 1 |-> t] \in [1 .. 1 -> {t}] OBVIOUS
    <3>2. \A a, b \in 1 .. 1 : a = b OBVIOUS
    <3>3. IsInjective([i \in 1 .. 1 |-> t]) BY <3>2 DEF IsInjective
    <3> QED BY <3>1, <3>3
  <2>3. SetToSeq({t}) \in [1 .. 1 -> {t}]
    BY <2>1, <2>2, Zenon DEF SetToSeq
  <2> QED BY <2>3
<1> QED BY <1>1, <1>2

\* A session cut short, or left alone.
Cut(p) ==
    [p EXCEPT !.ops = {}, !.strand = @ \o SetToSeq({Task(op, "aborted") : op \in p.ops})]

\* on_stop() takes itself off the strand, and the rest is as before.
LEMMA StopPops ==
    ASSUME NEW s, SessionInv(s), s.strand # <<>>, Head(s.strand).op = "on_stop"
    PROVE  LET p == Pop(s) IN
           /\ s \in States /\ p \in States /\ p.life = s.life /\ p.swapping = s.swapping
           /\ p.ops = s.ops /\ p.strand = Tail(s.strand)
           /\ p.waiting_ = s.waiting_ /\ p.parser_ = s.parser_
           /\ p.response_queue_ = s.response_queue_ /\ p.lingering_ = s.lingering_
           /\ p.answered = s.answered /\ p.late = s.late
           /\ SessionInv(p)
<1> DEFINE p == Pop(s)
           q == s.strand
<1>1. s \in States
  BY DEF SessionInv
<1>2. q \in Seq(Tasks) /\ q # <<>>
  BY <1>1 DEF States
<1> HIDE DEF q
<1>3. Head(q) = StopTask
  BY <1>2, PopTask, TaskFacts DEF q
<1>4. /\ Tail(q) \in Seq(Tasks)
      /\ Quiet(q) => Quiet(Tail(q))
      /\ \A t \in Moving : Only(q, t) => Only(Tail(q), t)
  BY <1>2, <1>3, PopTask
<1>5. /\ p \in States /\ p.life = s.life /\ p.swapping = s.swapping
      /\ p.ops = s.ops /\ p.strand = Tail(q)
      /\ p.waiting_ = s.waiting_ /\ p.parser_ = s.parser_
      /\ p.response_queue_ = s.response_queue_ /\ p.lingering_ = s.lingering_
      /\ p.answered = s.answered /\ p.late = s.late
  BY <1>1, <1>4 DEF Pop, States, q
<1> HIDE DEF p
<1>6. \A op, res : Stage(s, op, res) => Stage(p, op, res)
  BY <1>5 DEF Stage, Silent
<1>7. /\ \A op : Waiting(s, op) => Waiting(p, op)
      /\ \A t \in Moving : Queued(s, t) => Queued(p, t)
      /\ Resting(s) => Resting(p)
      /\ Swapping(s) => Swapping(p)
  BY <1>4, <1>5, <1>6 DEF Waiting, Queued, Resting, Swapping, q
<1>8. SessionInv(p)
  BY <1>5, <1>6, <1>7 DEF SessionInv
<1> QED BY <1>1, <1>5, <1>8 DEF p, q

\* The operation is cancelled, if there is one: its handler is queued.
LEMMA CutInv ==
    ASSUME NEW p, SessionInv(p), p.lingering_ \/ (p.waiting_ /\ p.parser_ # "some"),
           p.swapping = FALSE
    PROVE  SessionInv(Cut(p)) /\ Cut(p).life = p.life /\ Cut(p).ops = {}
<1> DEFINE r == Cut(p)
           q == p.strand
<1>1. p \in States /\ q \in Seq(Tasks)
  BY DEF SessionInv, States
<1>2. p.lingering_ = TRUE \/ Silent(p)
  BY <1>1 DEF States, Silent
<1> HIDE DEF q
<1>3. CASE p.ops = {}
  <2>1. {Task(op, "aborted") : op \in p.ops} = {}
    BY <1>3
  <2>2. q \o <<>> = q
    BY <1>1, ConcatEmptySeq
  <2>3. r = [p EXCEPT !.ops = {}, !.strand = q]
    BY <1>1, <2>1, <2>2, CancelledTasks DEF q, States, Cut
  <2>4. r = p
    <3>1. [p EXCEPT !.ops = p.ops] = p
      BY <1>1 DEF States
    <3>2. [p EXCEPT !.strand = p.strand] = p
      BY <1>1 DEF States
    <3>3. r = [[p EXCEPT !.ops = p.ops] EXCEPT !.strand = p.strand]
      BY <1>3, <2>3 DEF q
    <3> QED BY <3>1, <3>2, <3>3
  <2> QED BY <1>3, <2>4
<1>4. CASE p.ops # {}
  <2>1. PICK op \in p.ops : TRUE BY <1>4
  <2>2. /\ op \in Operations /\ p.life = "live" /\ p.ops = {op} /\ Quiet(q)
        /\ Stage(p, op, "pending")
    BY WaitsFor DEF Waiting, q
  <2> DEFINE t == Task(op, "aborted")
  <2>3. {Task(o, "aborted") : o \in p.ops} = {t}
    BY <2>2
  <2>4. t \in Moving /\ t.op = op /\ t.res = "aborted" /\ t \in Tasks
    BY <2>2, TaskFacts DEF Results
  <2> HIDE DEF t
  <2>5. q \o <<t>> = Append(q, t)
    BY <1>1, <2>4, AppendIsConcat
  <2>6. Append(q, t) \in Seq(Tasks) /\ Only(Append(q, t), t)
    BY <1>1, <2>2, <2>4, PostTask
  <2>7. SetToSeq({t}) = <<t>>
    BY CancelledTasks
  <2>8. r = [p EXCEPT !.ops = {}, !.strand = Append(q, t)]
    BY <1>1, <2>3, <2>5, <2>7 DEF q, States, Cut
  <2> HIDE DEF r
  <2>9. /\ r \in States /\ r.life = p.life /\ r.swapping = p.swapping
        /\ r.ops = {} /\ r.strand = Append(q, t)
        /\ r.waiting_ = p.waiting_ /\ r.parser_ = p.parser_
        /\ r.response_queue_ = p.response_queue_ /\ r.lingering_ = p.lingering_
        /\ r.answered = p.answered /\ r.late = p.late
    BY <1>1, <2>6, <2>8 DEF States
  <2>10. op \in {"detect", "handshake", "linger"} \/ (op = "header" /\ p.parser_ = "empty")
    BY <1>1, <1>2, <2>2 DEF Stage, Silent, States, Operations
  <2>11. Stage(r, op, "aborted")
    BY <2>2, <2>9, <2>10 DEF Stage, Silent
  <2>12. Queued(r, t)
    BY <2>4, <2>6, <2>9, <2>11 DEF Queued
  <2> QED BY <2>2, <2>4, <2>9, <2>12 DEF SessionInv, r
<1> QED BY <1>3, <1>4

\* on_stop(): a session that was answered and waits is cut short.
LEMMA OnStopInv ==
    ASSUME NEW s, SessionInv(s), s.swapping = FALSE, s.strand # <<>>,
           Head(s.strand).op = "on_stop"
    PROVE  LET p == Pop(s) IN
           Goes(s, IF p.lingering_ \/ (p.waiting_ /\ p.parser_ # "some") THEN Cut(p) ELSE p)
<1> DEFINE p == Pop(s)
           b == p.lingering_ \/ (p.waiting_ /\ p.parser_ # "some")
<1>1. SessionInv(p) /\ p.life = s.life /\ p.swapping = FALSE /\ p \in States
  BY StopPops
<1> HIDE DEF p
<1>2. CASE b
  <2>1. SessionInv(Cut(p)) /\ Cut(p).life = p.life /\ Cut(p).ops = {}
    BY <1>1, <1>2, CutInv
  <2>2. Goes(s, Cut(p))
    BY <1>1, <2>1 DEF Goes, Hears
  <2> QED BY <1>2, <2>2 DEF p
<1>3. CASE ~b
  <2>1. ~Silent(p)
    BY <1>3 DEF Silent
  <2>2. Goes(s, p)
    BY <1>1, <2>1 DEF Goes, Hears
  <2> QED BY <1>3, <2>2 DEF p
<1> QED BY <1>2, <1>3

\* stop() posts on_stop().
LEMMA TellInv ==
    ASSUME NEW s, SessionInv(s)
    PROVE  LET r == Post(s, "on_stop") IN SessionInv(r) /\ r.life = s.life /\ Hears(r)
<1> DEFINE r == Post(s, "on_stop")
           q == s.strand
<1>1. s \in States
  BY DEF SessionInv
<1>2. q \in Seq(Tasks)
  BY <1>1 DEF States
<1> HIDE DEF q
<1>3. /\ Append(q, StopTask) \in Seq(Tasks)
      /\ Quiet(q) => Quiet(Append(q, StopTask))
      /\ \A t : Only(q, t) => Only(Append(q, StopTask), t)
      /\ \E i \in 1 .. Len(Append(q, StopTask)) : Append(q, StopTask)[i] = StopTask
  BY <1>2, PostStop
<1>4. /\ r \in States /\ r.life = s.life /\ r.swapping = s.swapping
      /\ r.ops = s.ops /\ r.strand = Append(q, StopTask)
      /\ r.waiting_ = s.waiting_ /\ r.parser_ = s.parser_
      /\ r.response_queue_ = s.response_queue_ /\ r.lingering_ = s.lingering_
      /\ r.answered = s.answered /\ r.late = s.late
  BY <1>1, <1>3 DEF Post, StopTask, States, q
<1> HIDE DEF r
<1>5. \A op, res : Stage(s, op, res) => Stage(r, op, res)
  BY <1>4 DEF Stage, Silent
<1>6. /\ \A op : Waiting(s, op) => Waiting(r, op)
      /\ \A t : Queued(s, t) => Queued(r, t)
      /\ Resting(s) => Resting(r)
      /\ Swapping(s) => Swapping(r)
  BY <1>3, <1>4, <1>5 DEF Waiting, Queued, Resting, Swapping, q
<1>7. SessionInv(r)
  BY <1>4, <1>5, <1>6 DEF SessionInv
<1>8. Hears(r)
  BY <1>3, <1>4 DEF Hears
<1> QED BY <1>4, <1>7, <1>8 DEF r

(***************************************************************************)
(* The steps of a session                                                  *)
(***************************************************************************)
\* The session of c takes a step that the invariant allows
Moved(c) == \E r : Goes(session[c], r) /\ session' = [session EXCEPT ![c] = r]

\* What a step of a session may change besides: the upgrade
Framed(c) ==
    /\ mode' = mode /\ stopping_' = stopping_
    /\ \/ ws' = ws
       \/ \E w \in {"live", "rejecting"} : ws' = [ws EXCEPT ![c] = w]
    /\ \/ items_' = items_
       \/ stopping_ = FALSE /\ items_' = items_ \cup {<<c, "ws">>}

\* A handler is the next task.
LEMMA CanRun ==
    ASSUME Sessions, NEW c \in Connections, NEW op, NEW results, Running(c, op, results)
    PROVE  LET s == session[c] IN
           /\ s \in States /\ SessionInv(s) /\ s.swapping = FALSE
           /\ s.strand # <<>> /\ Head(s.strand).op = op /\ Head(s.strand).res \in results
           /\ op # "on_stop" => Runs(s)
           /\ Rest(c) = Pop(s)
<1> DEFINE s == session[c]
<1>1. /\ ~s.swapping /\ s.strand # <<>> /\ Head(s.strand).op = op
      /\ Head(s.strand).res \in results
  BY DEF Running
<1>2. s \in States /\ SessionInv(s)
  BY DEF Sessions
<1>3. s.swapping = FALSE
  BY <1>1, <1>2 DEF States
<1>4. Rest(c) = Pop(s)
  BY DEF Rest, Pop
<1> HIDE DEF s
<1>5. op # "on_stop" => Runs(s)
  BY <1>1, <1>2, <1>3 DEF Runs
<1> QED BY <1>1, <1>2, <1>3, <1>4, <1>5 DEF s

\* Nothing but the session changes.
LEMMA BecomeMoves ==
    ASSUME NEW c \in Connections, NEW r, Goes(session[c], r), Become(c, r)
    PROVE  Moved(c) /\ Framed(c)
<1>1. /\ session' = [session EXCEPT ![c] = r]
      /\ mode' = mode /\ ws' = ws /\ items_' = items_ /\ stopping_' = stopping_
  BY Zenon DEF Become
<1> QED BY <1>1 DEF Moved, Framed

\* Handlers up to the first request.
LEMMA StartHandlers ==
    ASSUME Sessions, NEW c \in Connections,
           \/ OnStop(c) \/ OnRun(c) \/ OnBytes(c) \/ OnStartFailed(c)
           \/ \E buffered \in Buffered : OnDetectPlain(c, buffered)
           \/ OnDetectRefused(c) \/ OnDetectTls(c) \/ OnSslSession(c) \/ OnHandshake(c)
    PROVE  Moved(c) /\ Framed(c)
<1> DEFINE s == session[c]
           t == Head(s.strand)
<1>0. s \in States /\ SessionInv(s)
  BY DEF Sessions
<1>1. CASE OnStop(c)
  <2> DEFINE p == Pop(s)
             r == IF p.lingering_ \/ (p.waiting_ /\ p.parser_ # "some") THEN Cut(p) ELSE p
  <2>1. Running(c, "on_stop", {"ok"})
    BY <1>1 DEF OnStop
  <2>2. Rest(c) = p
    BY DEF Rest, Pop
  <2>3. Become(c, r)
    BY <1>1, <2>2 DEF OnStop, Cut
  <2>4. Goes(s, r)
    BY <2>1, CanRun, OnStopInv
  <2> HIDE DEF r
  <2> QED BY <2>3, <2>4, BecomeMoves
<1>2. CASE OnRun(c)
  <2> DEFINE p == [Rearm(Pop(s)) EXCEPT !.waiting_ = TRUE]
  <2>1. Running(c, "on_run", {"ok"}) /\ Become(c, Start(p, IF p.tls THEN "handshake" ELSE "detect"))
    BY <1>2 DEF OnRun, Rest, Pop
  <2> DEFINE op == IF p.tls THEN "handshake" ELSE "detect"
  <2>2. op \in {"handshake", "detect"}
    OBVIOUS
  <2>3. Become(c, Start(p, op))
    BY <2>1
  <2> HIDE DEF op
  <2>4. Goes(s, Start(p, op))
    <3>1. Runs(s) /\ Head(s.strand).op = "on_run"
      BY <2>1, <2>2, CanRun
    <3> HIDE DEF s
    <3> QED BY <3>1, <2>2, OnRunInv
  <2> HIDE DEF p
  <2> QED BY <2>3, <2>4, BecomeMoves
<1>3. CASE OnBytes(c)
  <2>1. PICK op \in {"detect", "handshake"} : Running(c, op, {"ok"}) /\ Become(c, Start(Pop(s), op))
    BY <1>3 DEF OnBytes, Rest, Pop
  <2>2. Goes(s, Start(Pop(s), op))
    BY <2>1, CanRun, AgainInv
  <2> QED BY <2>1, <2>2, BecomeMoves
<1>4. CASE OnStartFailed(c)
  <2>1. PICK op \in {"detect", "handshake"} :
            Running(c, op, Failed) /\ Become(c, [Pop(s) EXCEPT !.waiting_ = FALSE])
    BY <1>4 DEF OnStartFailed, Rest, Pop
  <2>2. Goes(s, [Pop(s) EXCEPT !.waiting_ = FALSE])
    BY <2>1, CanRun, GiveUpInv
  <2> QED BY <2>1, <2>2, BecomeMoves
<1>5. ASSUME NEW buffered \in Buffered, OnDetectPlain(c, buffered) PROVE Moved(c) /\ Framed(c)
  <2>1. /\ Running(c, "detect", {"ok"})
        /\ Become(c, DoRead([Pop(s) EXCEPT !.waiting_ = FALSE], buffered))
    BY <1>5 DEF OnDetectPlain, Rest, Pop
  <2>2. Goes(s, DoRead([Pop(s) EXCEPT !.waiting_ = FALSE], buffered))
    <3>1. Runs(s) /\ Head(s.strand).op = "detect"
      BY <2>1, CanRun
    <3> HIDE DEF s
    <3> QED BY <3>1, FirstReadInv
  <2> QED BY <2>1, <2>2, BecomeMoves
<1>6. CASE OnDetectRefused(c)
  <2>1. Running(c, "detect", {"ok"}) /\ Become(c, [Pop(s) EXCEPT !.waiting_ = FALSE])
    BY <1>6 DEF OnDetectRefused, Rest, Pop
  <2>2. Goes(s, [Pop(s) EXCEPT !.waiting_ = FALSE])
    <3>1. Runs(s) /\ Head(s.strand).op = "detect"
      BY <2>1, CanRun
    <3> HIDE DEF s
    <3> QED BY <3>1, GiveUpInv
  <2> QED BY <2>1, <2>2, BecomeMoves
<1>7. CASE OnDetectTls(c)
  <2>1. /\ Running(c, "detect", {"ok"})
        /\ Become(c, [Pop(s) EXCEPT !.waiting_ = FALSE, !.swapping = TRUE])
    BY <1>7 DEF OnDetectTls, Rest, Pop
  <2>2. Goes(s, [Pop(s) EXCEPT !.waiting_ = FALSE, !.swapping = TRUE])
    <3>1. Runs(s) /\ Head(s.strand).op = "detect"
      BY <2>1, CanRun
    <3> HIDE DEF s
    <3> QED BY <3>1, OnDetectTlsInv
  <2> QED BY <2>1, <2>2, BecomeMoves
<1>8. CASE OnSslSession(c)
  <2> DEFINE p == [Rearm(s) EXCEPT !.swapping = FALSE, !.tls = TRUE, !.waiting_ = TRUE]
  <2>1. s.swapping /\ Become(c, Start(p, "handshake"))
    BY <1>8 DEF OnSslSession
  <2>2. Goes(s, Start(p, "handshake"))
    BY <1>0, <2>1, OnSslSessionInv
  <2> HIDE DEF p
  <2> QED BY <2>1, <2>2, BecomeMoves
<1>9. CASE OnHandshake(c)
  <2>1. /\ Running(c, "handshake", {"ok"})
        /\ Become(c, DoRead([Pop(s) EXCEPT !.waiting_ = FALSE], "none"))
    BY <1>9 DEF OnHandshake, Rest, Pop
  <2>2. "none" \in Buffered
    BY DEF Buffered
  <2>3. Goes(s, DoRead([Pop(s) EXCEPT !.waiting_ = FALSE], "none"))
    <3>1. Runs(s) /\ Head(s.strand).op = "handshake"
      BY <2>1, CanRun
    <3> HIDE DEF s
    <3> QED BY <2>2, <3>1, FirstReadInv
  <2> QED BY <2>1, <2>3, BecomeMoves
<1> QED BY <1>1, <1>2, <1>3, <1>4, <1>5, <1>6, <1>7, <1>8, <1>9

\* Handlers that read a request.
LEMMA ReadHandlers ==
    ASSUME Sessions, stopping_ \in BOOLEAN, NEW c \in Connections,
           \/ OnMore(c) \/ (\E expect \in BOOLEAN : OnReadHeader(c, expect)) \/ OnContinue(c)
           \/ OnReadRefused(c) \/ OnReadEnd(c) \/ OnReadFailed(c)
           \/ \E keep \in BOOLEAN : OnRequest(c, keep)
           \/ \E accepted \in BOOLEAN : OnUpgrade(c, accepted)
    PROVE  Moved(c) /\ Framed(c)
<1> DEFINE s == session[c]
           t == Head(s.strand)
           q == [Pop(s) EXCEPT !.waiting_ = FALSE]
<1>0. s \in States /\ SessionInv(s)
  BY DEF Sessions
<1>r. \A op \in Requests : op # "on_stop" /\ op \in {"header", "body"}
  BY DEF Requests
<1>1. CASE OnMore(c)
  <2>1. PICK op \in Requests :
            Running(c, op, {"ok"}) /\ Become(c, Start([Pop(s) EXCEPT !.parser_ = "some"], op))
    BY <1>1 DEF OnMore, Rest, Pop
  <2>2. Goes(s, Start([Pop(s) EXCEPT !.parser_ = "some"], op))
    <3>1. Runs(s) /\ Head(s.strand).op \in Requests
      BY <1>r, <2>1, CanRun
    <3>2. op \in {"header", "body", "continue"}
      BY <1>r
    <3> HIDE DEF s
    <3> QED BY <3>1, <3>2, OnMoreInv
  <2> QED BY <2>1, <2>2, BecomeMoves
<1>2. ASSUME NEW expect \in BOOLEAN, OnReadHeader(c, expect) PROVE Moved(c) /\ Framed(c)
  <2> DEFINE op == IF expect THEN "continue" ELSE "body"
  <2>1. /\ Running(c, "header", {"ok"})
        /\ Become(c, Start([Pop(s) EXCEPT !.parser_ = "some"], op))
    BY <1>2 DEF OnReadHeader, Rest, Pop
  <2>2. op \in {"header", "body", "continue"} /\ "header" \in Requests
    BY DEF Requests
  <2> HIDE DEF op
  <2>3. Goes(s, Start([Pop(s) EXCEPT !.parser_ = "some"], op))
    <3>1. Runs(s) /\ Head(s.strand).op \in Requests
      BY <2>1, <2>2, CanRun
    <3> HIDE DEF s
    <3> QED BY <3>1, <2>2, OnMoreInv
  <2> QED BY <2>1, <2>3, BecomeMoves
<1>3. CASE OnContinue(c)
  <2>1. /\ Running(c, "continue", Results)
        /\ Become(c, IF t.res = "ok" THEN Start(Pop(s), "body") ELSE Pop(s))
    BY <1>3 DEF OnContinue, Rest, Pop
  <2>2. Goes(s, Start(Pop(s), "body")) /\ Goes(s, Pop(s))
    <3>1. Runs(s) /\ Head(s.strand).op = "continue"
      BY <2>1, CanRun
    <3> HIDE DEF s
    <3> QED BY <3>1, OnContinueInv
  <2>3. Become(c, Start(Pop(s), "body")) \/ Become(c, Pop(s))
    BY <2>1
  <2> QED BY <2>2, <2>3, BecomeMoves
<1>4. CASE OnReadRefused(c)
  <2> DEFINE r == SendError([Pop(s) EXCEPT !.waiting_ = FALSE, !.parser_ = "some"])
  <2>1. PICK op \in Requests : Running(c, op, {"ok"}) /\ Become(c, r)
    BY <1>4 DEF OnReadRefused, Rest, Pop
  <2>2. Goes(s, r)
    <3>1. Runs(s) /\ Head(s.strand).op \in Requests
      BY <1>r, <2>1, CanRun
    <3> HIDE DEF s
    <3> QED BY <3>1, RefusedInv
  <2> HIDE DEF r
  <2> QED BY <2>1, <2>2, BecomeMoves
<1>5. CASE OnReadEnd(c)
  <2>1. PICK op \in Requests :
            Running(c, op, {"eof"}) /\ Become(c, IF q.parser_ = "some" THEN q ELSE DoEof(q))
    BY <1>5 DEF OnReadEnd, Rest, Pop
  <2>2. Goes(s, q) /\ Goes(s, DoEof(q))
    <3>1. Runs(s) /\ Head(s.strand).op \in Requests
      BY <1>r, <2>1, CanRun
    <3>2. Head(s.strand).op \in {"detect", "handshake", "header", "body"}
      BY <1>r, <3>1
    <3> HIDE DEF s
    <3> QED BY <3>1, <3>2, GiveUpInv, ReadEndInv
  <2> HIDE DEF q
  <2>3. Become(c, q) \/ Become(c, DoEof(q))
    BY <2>1
  <2> QED BY <2>2, <2>3, BecomeMoves
<1>6. CASE OnReadFailed(c)
  <2>1. PICK op \in Requests : Running(c, op, {"error", "aborted"}) /\ Become(c, q)
    BY <1>6 DEF OnReadFailed, Rest, Pop
  <2>2. Goes(s, q)
    BY <1>r, <2>1, CanRun, GiveUpInv
  <2> HIDE DEF q
  <2> QED BY <2>1, <2>2, BecomeMoves
<1>7. ASSUME NEW keep \in BOOLEAN, OnRequest(c, keep) PROVE Moved(c) /\ Framed(c)
  <2> DEFINE k == keep /\ ~stopping_
  <2>1. Running(c, "body", {"ok"}) /\ Become(c, QueueWrite(q, k))
    BY <1>7 DEF OnRequest, Rest, Pop
  <2>2. k \in BOOLEAN
    OBVIOUS
  <2> HIDE DEF k
  <2>3. Goes(s, QueueWrite(q, k))
    <3>1. Runs(s) /\ Head(s.strand).op = "body"
      BY <2>1, <2>2, CanRun
    <3> HIDE DEF s
    <3> QED BY <3>1, <2>2, OnRequestInv
  <2> HIDE DEF q
  <2> QED BY <2>1, <2>3, BecomeMoves
<1>8. ASSUME NEW accepted \in BOOLEAN, OnUpgrade(c, accepted) PROVE Moved(c) /\ Framed(c)
  <2>1. /\ Running(c, "body", {"ok"}) /\ session' = [session EXCEPT ![c] = q]
        /\ ws' = [ws EXCEPT ![c] = IF accepted /\ ~stopping_ THEN "live" ELSE "rejecting"]
        /\ items_' = (IF stopping_ THEN items_ ELSE items_ \cup {<<c, "ws">>})
        /\ mode' = mode /\ stopping_' = stopping_
    BY <1>8, Zenon DEF OnUpgrade, Rest, Pop
  <2>2. Goes(s, q)
    <3>1. Runs(s) /\ Head(s.strand).op = "body"
      BY <2>1, CanRun
    <3> HIDE DEF s
    <3> QED BY <3>1, GiveUpInv
  <2> HIDE DEF q
  <2>3. Moved(c)
    BY <2>1, <2>2 DEF Moved
  <2>4. ws' = [ws EXCEPT ![c] = "live"] \/ ws' = [ws EXCEPT ![c] = "rejecting"]
    BY <2>1
  <2>5. items_' = items_ \/ (stopping_ = FALSE /\ items_' = items_ \cup {<<c, "ws">>})
    BY <2>1
  <2> QED BY <2>1, <2>3, <2>4, <2>5 DEF Framed
<1> QED BY <1>1, <1>2, <1>3, <1>4, <1>5, <1>6, <1>7, <1>8

\* Handlers that write a response, or end the connection.
LEMMA WriteHandlers ==
    ASSUME Sessions, stopping_ \in BOOLEAN, NEW c \in Connections,
           \/ DoWrite(c) \/ (\E buffered \in Buffered : OnWrite(c, buffered))
           \/ OnWriteLast(c) \/ OnWriteFailed(c) \/ OnShutdown(c) \/ OnLinger(c)
           \/ OnLingerEnd(c)
    PROVE  Moved(c) /\ Framed(c)
<1> DEFINE s == session[c]
           p == Pop(s)
<1>0. s \in States /\ SessionInv(s)
  BY DEF Sessions
<1>1. CASE DoWrite(c)
  <2> DEFINE r == Start([p EXCEPT !.response_queue_ = Tail(@),
                                  !.keep_alive = Head(p.response_queue_)], "write")
  <2>1. Running(c, "do_write", {"ok"}) /\ Become(c, IF p.response_queue_ = <<>> THEN p ELSE r)
    BY <1>1 DEF DoWrite, Rest, Pop
  <2>2. /\ p.response_queue_ = <<>> => Goes(s, p)
        /\ p.response_queue_ # <<>> => Goes(s, r)
    <3>1. Runs(s) /\ Head(s.strand).op = "do_write"
      BY <2>1, CanRun
    <3> HIDE DEF s
    <3> QED BY <3>1, DoWriteInv
  <2> HIDE DEF r, p
  <2>3. \/ Become(c, p) /\ Goes(s, p)
        \/ Become(c, r) /\ Goes(s, r)
    BY <2>1, <2>2
  <2> QED BY <2>3, BecomeMoves
<1>2. ASSUME NEW buffered \in Buffered, OnWrite(c, buffered) PROVE Moved(c) /\ Framed(c)
  <2>1. /\ Running(c, "write", {"ok"}) /\ ~stopping_
        /\ Become(c, DoRead(Answered(p), buffered))
    BY <1>2 DEF OnWrite, Rest, Pop
  <2>2. Goes(s, DoRead(Answered(p), buffered))
    <3>1. Runs(s) /\ Head(s.strand).op = "write" /\ stopping_ = FALSE
      BY <2>1, CanRun
    <3> HIDE DEF s
    <3> QED BY <3>1, OnWriteInv
  <2> HIDE DEF p
  <2> QED BY <2>1, <2>2, BecomeMoves
<1>3. CASE OnWriteLast(c)
  <2> DEFINE a == Answered(p)
  <2>1. /\ Running(c, "write", {"ok"})
        /\ Become(c, IF a.response_queue_ # <<>> THEN Post(a, "do_write") ELSE DoEof(a))
    BY <1>3 DEF OnWriteLast, Rest, Pop
  <2>2. Goes(s, DoEof(a)) /\ a.response_queue_ = <<>>
    <3>0. Running(c, "write", {"ok"})
      BY <1>3, Zenon DEF OnWriteLast
    <3>1. Runs(s) /\ Head(s.strand).op = "write"
      BY <3>0, CanRun
    <3> HIDE DEF s
    <3> QED BY <3>1, OnWriteInv
  <2> HIDE DEF a, p
  <2>3. Become(c, DoEof(a))
    BY <2>1, <2>2
  <2> QED BY <2>2, <2>3, BecomeMoves
<1>4. CASE OnWriteFailed(c)
  <2>1. Running(c, "write", Failed) /\ Become(c, DoEof(p))
    BY <1>4 DEF OnWriteFailed, Rest, Pop
  <2>2. Goes(s, DoEof(p))
    BY <2>1, CanRun, OnWriteFailedInv
  <2> HIDE DEF p
  <2> QED BY <2>1, <2>2, BecomeMoves
<1>5. CASE OnShutdown(c) \/ OnLingerEnd(c)
  <2>1. PICK op \in {"shutdown", "linger"} :
            (\E results : Running(c, op, results)) /\ Become(c, p)
    BY <1>5 DEF OnShutdown, OnLingerEnd, Rest, Pop
  <2>2. Goes(s, p)
    BY <2>1, CanRun, LastInv
  <2> HIDE DEF p
  <2> QED BY <2>1, <2>2, BecomeMoves
<1>6. CASE OnLinger(c)
  <2>1. Running(c, "linger", {"ok"}) /\ Become(c, Start(p, "linger"))
    BY <1>6 DEF OnLinger, Rest, Pop
  <2>2. Goes(s, Start(p, "linger"))
    BY <2>1, CanRun, AgainInv
  <2> HIDE DEF p
  <2> QED BY <2>1, <2>2, BecomeMoves
<1> QED BY <1>1, <1>2, <1>3, <1>4, <1>5, <1>6

\* The stream.
LEMMA StreamMoves ==
    ASSUME Sessions, NEW c \in Connections, Stream(c)
    PROVE  Moved(c) /\ Framed(c)
<1> DEFINE s == session[c]
           Ended(op, res, timer) == [s EXCEPT !.ops = @ \ {op}, !.timer = timer,
                                              !.strand = Append(@, Task(op, res))]
<1>0. s \in States /\ SessionInv(s)
  BY DEF Sessions
<1>1. ASSUME NEW op \in Operations, NEW res \in {"ok", "eof", "error"}, Completes(c, op, res)
      PROVE  Moved(c) /\ Framed(c)
  <2> DEFINE r == [s EXCEPT !.ops = @ \ {op}, !.strand = Append(@, Task(op, res))]
  <2>1. op \in s.ops /\ Become(c, r)
    BY <1>1 DEF Completes
  <2>2. r = Ended(op, res, s.timer)
    <3> HIDE DEF s
    <3> QED BY <1>0 DEF States
  <2>3. s.timer \in {"armed", "passed", "closed"}
    BY <1>0 DEF States
  <2>4. Goes(s, Ended(op, res, s.timer))
    BY <1>0, <2>1, <2>3, CompletesInv
  <2>5. Goes(s, r)
    BY <2>2, <2>4
  <2> HIDE DEF r, Ended
  <2> QED BY <2>1, <2>5, BecomeMoves
<1>2. CASE Expires(c)
  <2>1. Become(c, [s EXCEPT !.timer = "passed"])
    BY <1>2 DEF Expires
  <2>2. Goes(s, [s EXCEPT !.timer = "passed"])
    BY <1>0, ExpiresInv
  <2> QED BY <2>1, <2>2, BecomeMoves
<1>3. CASE TimesOut(c)
  <2>1. PICK op \in s.ops : Become(c, Ended(op, "error", "closed"))
    BY <1>3 DEF TimesOut
  <2>2. Goes(s, Ended(op, "error", "closed"))
    BY <1>0, CompletesInv
  <2> HIDE DEF Ended
  <2> QED BY <2>1, <2>2, BecomeMoves
<1> QED BY <1>1, <1>2, <1>3 DEF Stream

(***************************************************************************)
(* The sessions and the acceptor together                                  *)
(***************************************************************************)
\* A session of a new connection, before it runs.
LEMMA LifeInv ==
    ASSUME NEW s, SessionInv(s), s.life \in {"none", "accepted", "launching"},
           NEW l \in {"accepted", "launching", "gone"}
    PROVE  LET r == [s EXCEPT !.life = l] IN SessionInv(r) /\ Hears(r) /\ r.life = l
<1> DEFINE r == [s EXCEPT !.life = l]
<1>1. s \in States /\ Resting(s) /\ Stage(s, "on_run", "none")
  BY DEF SessionInv
<1>2. /\ r \in States /\ r.life = l /\ r.swapping = s.swapping
      /\ r.ops = s.ops /\ r.strand = s.strand
      /\ r.waiting_ = s.waiting_ /\ r.parser_ = s.parser_
      /\ r.response_queue_ = s.response_queue_ /\ r.lingering_ = s.lingering_
      /\ r.answered = s.answered /\ r.late = s.late
  BY <1>1 DEF States
<1> HIDE DEF r
<1>3. Resting(r) /\ Stage(r, "on_run", "none") /\ Stage(r, "none", "none") /\ r.answered = FALSE
  BY <1>1, <1>2 DEF Resting, Stage, Silent
<1>4. SessionInv(r) /\ Hears(r)
  BY <1>2, <1>3 DEF SessionInv, Hears
<1> QED BY <1>2, <1>4 DEF r

\* on_run() is dispatched.
LEMMA LaunchInv ==
    ASSUME NEW s, SessionInv(s), s.life = "launching"
    PROVE  LET r == [Post(s, "on_run") EXCEPT !.life = "live"] IN
           SessionInv(r) /\ Hears(r) /\ r.life = "live"
<1> DEFINE t == Task("on_run", "ok")
           q == s.strand
           r == [Post(s, "on_run") EXCEPT !.life = "live"]
<1>1. s \in States /\ Resting(s) /\ Stage(s, "on_run", "none")
  BY DEF SessionInv
<1>2. q \in Seq(Tasks) /\ Quiet(q)
  BY <1>1 DEF States, Resting
<1>3. t \in Moving /\ t.op = "on_run" /\ t.res = "ok"
  BY TaskFacts
<1>4. Post(s, "on_run") = [s EXCEPT !.strand = Append(q, t)]
  BY <1>1 DEF Post, States
<1> HIDE DEF t, q
<1>5. Append(q, t) \in Seq(Tasks) /\ Only(Append(q, t), t)
  BY <1>2, <1>3, PostTask
<1>6. /\ r \in States /\ r.life = "live" /\ r.swapping = s.swapping
      /\ r.ops = s.ops /\ r.strand = Append(q, t)
      /\ r.waiting_ = s.waiting_ /\ r.parser_ = s.parser_
      /\ r.response_queue_ = s.response_queue_ /\ r.lingering_ = s.lingering_
      /\ r.answered = s.answered /\ r.late = s.late
  BY <1>1, <1>4, <1>5 DEF States
<1> HIDE DEF r
<1>7. Stage(r, "on_run", "ok") /\ r.answered = FALSE /\ r.ops = {} /\ r.swapping = FALSE
  BY <1>1, <1>6 DEF Stage, Silent, Resting
<1>8. Queued(r, t)
  BY <1>3, <1>5, <1>6, <1>7 DEF Queued
<1>9. SessionInv(r) /\ Hears(r)
  BY <1>3, <1>6, <1>7, <1>8 DEF SessionInv, Hears
<1> QED BY <1>6, <1>9 DEF r

\* The session before its connection, and after it.
LEMMA FreshInv ==
    /\ SessionInv(Fresh) /\ Fresh.life = "none" /\ Hears(Fresh)
    /\ LET r == [Fresh EXCEPT !.life = "gone"] IN
       SessionInv(r) /\ Hears(r) /\ r.life = "gone"
<1> DEFINE s == Fresh
           r == [s EXCEPT !.life = "gone"]
<1>1. <<>> \in Seq(Tasks) /\ Len(<<>>) = 0 /\ 0 \in 0 .. 2
  OBVIOUS
<1>2. Quiet(<<>>)
  BY DEF Quiet, AllIn
<1>3. /\ s \in States /\ s.life = "none" /\ s.swapping = FALSE
      /\ s.ops = {} /\ s.strand = <<>> /\ s.waiting_ = FALSE
      /\ s.response_queue_ = <<>> /\ s.lingering_ = FALSE
      /\ s.answered = FALSE /\ s.late = 0
  BY <1>1 DEF Fresh, States
<1> HIDE DEF s
<1>4. /\ r \in States /\ r.life = "gone" /\ r.swapping = FALSE
      /\ r.ops = {} /\ r.strand = <<>> /\ r.waiting_ = FALSE
      /\ r.response_queue_ = <<>> /\ r.lingering_ = FALSE
      /\ r.answered = FALSE /\ r.late = 0
  BY <1>3 DEF States
<1> HIDE DEF r
<1>5. Resting(s) /\ Stage(s, "on_run", "none")
  BY <1>2, <1>3 DEF Resting, Stage, Silent
<1>6. Resting(r) /\ Stage(r, "none", "none")
  BY <1>2, <1>4 DEF Resting, Stage, Silent
<1>7. SessionInv(s) /\ Hears(s) /\ SessionInv(r) /\ Hears(r)
  BY <1>3, <1>4, <1>5, <1>6 DEF SessionInv, Hears
<1> QED BY <1>3, <1>4, <1>7 DEF r, s

\* One session changes.
LEMMA UpdateSessions ==
    ASSUME Sessions, NEW c \in Connections, NEW r, SessionInv(r),
           session' = [session EXCEPT ![c] = r],
           (stopping_ = TRUE)' /\ (<<c, "http">> \in told)' => Hears(r),
           (stopping_ = TRUE)' => (stopping_ = TRUE \/ told' = {}),
           told' \subseteq told \cup {<<c, "http">>}
    PROVE  /\ Sessions'
           /\ session'[c] = r /\ \A d \in Connections \ {c} : session'[d] = session[d]
<1>1. r \in States BY DEF SessionInv
<1>2. /\ session' \in [Connections -> States]
      /\ session'[c] = r /\ \A d \in Connections \ {c} : session'[d] = session[d]
  BY <1>1 DEF Sessions
<1>3. \A d \in Connections : SessionInv(session'[d])
  BY <1>2 DEF Sessions
<1>4. ASSUME NEW d \in Connections, stopping_' = TRUE, <<d, "http">> \in told'
      PROVE  Hears(session'[d])
  <2>1. CASE d = c BY <1>2, <1>4, <2>1
  <2>2. CASE d # c
    <3>1. <<d, "http">> \in told /\ stopping_ = TRUE
      BY <1>4, <2>2
    <3> QED BY <1>2, <2>2, <3>1 DEF Sessions, Heard
  <2> QED BY <2>1, <2>2
<1>5. Sessions' = (/\ session' \in [Connections -> States]
                   /\ \A d \in Connections :
                         /\ SessionInv(session'[d])
                         /\ stopping_' = TRUE /\ <<d, "http">> \in told' => Hears(session'[d]))
  BY DEF Sessions, Heard
<1> QED BY <1>2, <1>3, <1>4, <1>5

\* The acceptor is left alone, and so are the lives it depends on.
LEMMA LoopKept ==
    ASSUME Loop,
           is_open' = is_open, accepting' = accepting, retrying' = retrying,
           acceptor' = acceptor, launching' = launching,
           \A d \in Connections :
              session[d].life \in {"accepted", "launching"} => session'[d].life = session[d].life
    PROVE  Loop'
<1>1. CASE launching \in Connections /\ session[launching].life = "launching"
  <2>1. session'[launching].life = "launching" BY <1>1
  <2>2. launching # NoConnection BY <1>1, ListenerAssumption
  <2> QED BY <1>1, <2>1, <2>2 DEF Loop
<1>2. ASSUME NEW t \in AcceptMoving, OneBut(acceptor, {CloseTask}, t), AcceptStage(t),
             accepting = 0, retrying = FALSE, launching = NoConnection
      PROVE  Loop'
  <2>1. /\ t.res = "aborted" => is_open' = FALSE
        /\ (t.op = "on_accept" /\ t.c \in Connections) => session'[t.c].life = "accepted"
        /\ (t.op = "on_accept" /\ t.res = "ok") => t.c \in Connections
    BY <1>2 DEF AcceptStage
  <2>2. AcceptStage(t)' BY <2>1 DEF AcceptStage
  <2>3. OneBut(acceptor, {CloseTask}, t)' BY <1>2
  <2> QED BY <1>2, <2>2, <2>3 DEF Loop
<1>3. CASE /\ ~(launching \in Connections /\ session[launching].life = "launching")
           /\ ~\E t \in AcceptMoving : OneBut(acceptor, {CloseTask}, t) /\ AcceptStage(t)
  <2>1. \/ /\ accepting' = 1 /\ retrying' = FALSE /\ launching' = NoConnection /\ is_open' = TRUE
           /\ AllIn(acceptor', {CloseTask})
        \/ /\ accepting' = 0 /\ retrying' = TRUE /\ launching' = NoConnection /\ is_open' = TRUE
           /\ AllIn(acceptor', {CloseTask})
        \/ /\ accepting' = 0 /\ retrying' = FALSE /\ launching' = NoConnection /\ is_open' = FALSE
           /\ AllIn(acceptor', {CloseTask})
    BY <1>3, Zenon DEF Loop
  <2> QED BY <2>1, Zenon DEF Loop
<1>4. CASE /\ ~(launching \in Connections /\ session[launching].life = "launching")
           /\ \E t \in AcceptMoving : OneBut(acceptor, {CloseTask}, t) /\ AcceptStage(t)
           /\ ~(accepting = 0 /\ retrying = FALSE /\ launching = NoConnection)
  <2>1. \/ /\ accepting' = 1 /\ retrying' = FALSE /\ launching' = NoConnection /\ is_open' = TRUE
           /\ AllIn(acceptor', {CloseTask})
        \/ /\ accepting' = 0 /\ retrying' = TRUE /\ launching' = NoConnection /\ is_open' = TRUE
           /\ AllIn(acceptor', {CloseTask})
    BY <1>4, Zenon DEF Loop
  <2> QED BY <2>1, Zenon DEF Loop
<1> QED BY <1>1, <1>2, <1>3, <1>4

\* A step of a session.
LEMMA SessionStepInv ==
    ASSUME IInv, NEW c \in Connections, SessionStep(c)
    PROVE  IInv'
<1>0. Sessions /\ Registry /\ Loop /\ Typed /\ stopping_ \in BOOLEAN
  BY DEF IInv, Typed
<1>1. Moved(c) /\ Framed(c)
  <2>1. Handler(c) \/ Stream(c)
    BY DEF SessionStep
  <2>2. CASE Handler(c)
    BY <1>0, <2>2, StartHandlers, ReadHandlers, WriteHandlers DEF Handler
  <2>3. CASE Stream(c)
    BY <1>0, <2>3, StreamMoves
  <2> QED BY <2>1, <2>2, <2>3
<1>2. /\ is_open' = is_open /\ accepting' = accepting /\ retrying' = retrying
      /\ acceptor' = acceptor /\ launching' = launching
      /\ stops' = stops /\ stopper' = stopper /\ alive' = alive /\ todo' = todo /\ told' = told
  BY Zenon DEF SessionStep, acceptVars, stopVars
<1>3. PICK r : Goes(session[c], r) /\ session' = [session EXCEPT ![c] = r]
  BY <1>1 DEF Moved
<1>4. stopping_' = stopping_ /\ mode' = mode
  BY <1>1 DEF Framed
<1>5. Sessions' /\ session'[c] = r /\ \A d \in Connections \ {c} : session'[d] = session[d]
  <2>1. SessionInv(r) /\ (stopping_ = TRUE /\ <<c, "http">> \in told => Hears(r))
    BY <1>0, <1>3 DEF Goes, Sessions, Heard
  <2> QED BY <1>0, <1>2, <1>3, <1>4, <2>1, UpdateSessions
<1>6. \A d \in Connections : session'[d].life = session[d].life
  BY <1>3, <1>5 DEF Goes
<1>7. Loop'
  BY <1>0, <1>2, <1>6, LoopKept
<1>8. items_' = items_ \/ (stopping_ = FALSE /\ items_' = items_ \cup {<<c, "ws">>})
  BY <1>1 DEF Framed
<1>9. Registry'
  <2>1. \A d \in Connections :
           session'[d].life \in {"launching", "live"} => <<d, "http">> \in items_'
    BY <1>0, <1>6, <1>8 DEF Registry
  <2>2. (stopping_' = FALSE => told' = {} /\ todo' = {}) /\ (stopper' # "telling" => todo' = {})
    BY <1>0, <1>2, <1>4 DEF Registry
  <2>3. stopping_' /\ stopper' \in {"telling", "idle"} => items_' \subseteq todo' \cup told'
    BY <1>0, <1>2, <1>4, <1>8 DEF Registry, StopMissesNone
  <2> QED BY <2>1, <2>2, <2>3 DEF Registry, StopMissesNone
<1>10. Typed'
  <2>1. ws' \in [Connections -> {"none", "rejecting", "live", "gone"}]
    BY <1>0, <1>1 DEF Framed, Typed
  <2>2. items_' \subseteq Names
    BY <1>0, <1>8 DEF Typed, Names
  <2>3. stopping_' \in BOOLEAN /\ is_open' \in BOOLEAN /\ mode' \in Modes
    BY <1>0, <1>2, <1>4, Zenon DEF Typed
  <2>4. /\ acceptor' \in Seq(AcceptTasks) /\ stops' \in 0 .. MaxStops
        /\ stopper' \in {"idle", "posted", "telling", "threw"}
        /\ todo' \subseteq alive' /\ alive' \subseteq Names /\ told' \subseteq Names
    BY <1>0, <1>2 DEF Typed
  <2> QED BY <2>1, <2>2, <2>3, <2>4 DEF Typed
<1> QED BY <1>5, <1>7, <1>9, <1>10 DEF IInv

(***************************************************************************)
(* The acceptor                                                            *)
(***************************************************************************)
\* The tasks of the acceptor's strand.
LEMMA AcceptFacts ==
    /\ CloseTask \in AcceptTasks /\ CloseTask \notin AcceptMoving
    /\ \A t \in AcceptTasks : t \in AcceptMoving <=> t # CloseTask
    /\ \A t \in AcceptTasks : t.op = "close" <=> t = CloseTask
    /\ \A res \in AcceptResults, c \in Connections \cup {NoConnection} :
          LET t == AcceptTask(res, c) IN
          t \in AcceptMoving /\ t.op = "on_accept" /\ t.res = res /\ t.c = c
    /\ \A res \in {"ok", "aborted"} :
          LET t == RetryTask(res) IN t \in AcceptMoving /\ t.op = "retry" /\ t.res = res
    /\ \A t \in AcceptMoving : /\ t.op = "on_accept" => t.res \in AcceptResults
                               /\ t.op = "retry" => t.res \in {"ok", "aborted"}
<1>1. CloseTask \in AcceptTasks /\ CloseTask.op = "close"
  BY DEF AcceptTasks, CloseTask
<1>2. \A res \in AcceptResults, c \in Connections \cup {NoConnection} :
          LET t == AcceptTask(res, c) IN
          t \in AcceptTasks /\ t.op = "on_accept" /\ t.res = res /\ t.c = c
  BY DEF AcceptTasks, AcceptTask
<1>3. \A res \in {"ok", "aborted"} :
          LET t == RetryTask(res) IN t \in AcceptTasks /\ t.op = "retry" /\ t.res = res
  BY DEF AcceptTasks, RetryTask
<1>4. ASSUME NEW t \in AcceptTasks
      PROVE  /\ t.op = "close" => t = CloseTask
             /\ t.op = "on_accept" => t.res \in AcceptResults
             /\ t.op = "retry" => t.res \in {"ok", "aborted"}
  <2>1. CASE t \in [op : {"on_accept"}, res : AcceptResults, c : Connections \cup {NoConnection}]
    BY <2>1
  <2>2. CASE t \in {RetryTask("ok"), RetryTask("aborted"), CloseTask}
    BY <2>2 DEF RetryTask, CloseTask
  <2> QED BY <2>1, <2>2 DEF AcceptTasks
<1>5. \A t \in AcceptTasks : t \in AcceptMoving <=> t # CloseTask
  BY DEF AcceptMoving
<1>6. \A t \in AcceptMoving : t \in AcceptTasks
  BY DEF AcceptMoving
<1>7. \A t \in AcceptTasks : t.op = "close" <=> t = CloseTask
  BY <1>1, <1>4
<1>8. CloseTask \notin AcceptMoving
  BY <1>1, <1>5
<1>9. \A res \in AcceptResults, c \in Connections \cup {NoConnection} :
          LET t == AcceptTask(res, c) IN
          t \in AcceptMoving /\ t.op = "on_accept" /\ t.res = res /\ t.c = c
  BY <1>1, <1>2, <1>5
<1>10. \A res \in {"ok", "aborted"} :
          LET t == RetryTask(res) IN t \in AcceptMoving /\ t.op = "retry" /\ t.res = res
  BY <1>1, <1>3, <1>5
<1> QED BY <1>1, <1>4, <1>5, <1>6, <1>7, <1>8, <1>9, <1>10

\* A task that keeps the loop going is posted.
LEMMA PostAccept ==
    ASSUME NEW q \in Seq(AcceptTasks), AllIn(q, {CloseTask}), NEW t \in AcceptMoving
    PROVE  Append(q, t) \in Seq(AcceptTasks) /\ OneBut(Append(q, t), {CloseTask}, t)
<1>1. t \in AcceptTasks BY DEF AcceptMoving
<1> QED BY <1>1, PostMain

\* The close is posted.
LEMMA PostClose ==
    ASSUME NEW q \in Seq(AcceptTasks)
    PROVE  /\ Append(q, CloseTask) \in Seq(AcceptTasks)
           /\ AllIn(q, {CloseTask}) => AllIn(Append(q, CloseTask), {CloseTask})
           /\ \A t : OneBut(q, {CloseTask}, t) => OneBut(Append(q, CloseTask), {CloseTask}, t)
<1> DEFINE A == {CloseTask}
<1>1. CloseTask \in AcceptTasks /\ CloseTask \in A
  BY AcceptFacts
<1> HIDE DEF A
<1>2. /\ Append(q, CloseTask) \in Seq(AcceptTasks)
      /\ AllIn(q, A) => AllIn(Append(q, CloseTask), A)
      /\ \A t : OneBut(q, A, t) => OneBut(Append(q, CloseTask), A, t)
  BY <1>1, PostAside
<1> QED BY <1>2, Zenon DEF A

\* The first task is taken.
LEMMA PopAccept ==
    ASSUME NEW q \in Seq(AcceptTasks), q # <<>>
    PROVE  /\ Head(q) \in AcceptTasks /\ Tail(q) \in Seq(AcceptTasks)
           /\ AllIn(q, {CloseTask}) => Head(q) = CloseTask /\ AllIn(Tail(q), {CloseTask})
           /\ \A t \in AcceptMoving : OneBut(q, {CloseTask}, t) =>
                 IF Head(q) = CloseTask THEN OneBut(Tail(q), {CloseTask}, t)
                 ELSE Head(q) = t /\ AllIn(Tail(q), {CloseTask})
<1> DEFINE A == {CloseTask}
<1>1. \A x : x \in A <=> x = CloseTask
  OBVIOUS
<1>2. \A t \in AcceptMoving : t \notin A
  BY AcceptFacts
<1> HIDE DEF A
<1>3. /\ Head(q) \in AcceptTasks /\ Tail(q) \in Seq(AcceptTasks)
      /\ AllIn(q, A) => Head(q) \in A /\ AllIn(Tail(q), A)
      /\ \A t : t \notin A /\ OneBut(q, A, t) =>
            IF Head(q) \in A THEN OneBut(Tail(q), A, t)
            ELSE Head(q) = t /\ AllIn(Tail(q), A)
  BY PopOne
<1>4. AllIn(q, A) => Head(q) = CloseTask /\ AllIn(Tail(q), A)
  BY <1>1, <1>3
<1>5. \A t \in AcceptMoving : OneBut(q, A, t) =>
          IF Head(q) = CloseTask THEN OneBut(Tail(q), A, t) ELSE Head(q) = t /\ AllIn(Tail(q), A)
  BY <1>1, <1>2, <1>3
<1> QED BY <1>3, <1>4, <1>5 DEF A

\* What the acceptor waits for, besides the close
Pending(t) == OneBut(acceptor, {CloseTask}, t) /\ AcceptStage(t)

Still == AllIn(acceptor, {CloseTask})

\* A handler of the acceptor's strand runs: the loop waited for it.
LEMMA TakeAccept ==
    ASSUME Loop, Typed, NEW op \in {"on_accept", "retry"}, Accepting(op)
    PROVE  LET t == Head(acceptor) IN
           /\ t \in AcceptMoving /\ t.op = op /\ AcceptStage(t)
           /\ accepting = 0 /\ retrying = FALSE /\ launching = NoConnection
           /\ acceptor' = Tail(acceptor) /\ Tail(acceptor) \in Seq(AcceptTasks)
           /\ AllIn(Tail(acceptor), {CloseTask})
<1> DEFINE t == Head(acceptor)
<1>1. launching = NoConnection /\ acceptor # <<>> /\ t.op = op /\ acceptor' = Tail(acceptor)
  BY DEF Accepting
<1>2. acceptor \in Seq(AcceptTasks)
  BY DEF Typed
<1>3. t \in AcceptTasks /\ Tail(acceptor) \in Seq(AcceptTasks)
  BY <1>1, <1>2, PopAccept
<1>4. t # CloseTask
  BY <1>1, <1>3, AcceptFacts
<1>5. ~AllIn(acceptor, {CloseTask})
  BY <1>1, <1>2, <1>4, PopAccept
<1>6. accepting = 0 /\ retrying = FALSE /\ \E m \in AcceptMoving : Pending(m)
  BY <1>5, Zenon DEF Loop, Pending
<1>7. PICK m \in AcceptMoving : OneBut(acceptor, {CloseTask}, m) /\ AcceptStage(m)
  BY <1>6 DEF Pending
<1>8. t = m /\ AllIn(Tail(acceptor), {CloseTask})
  BY <1>1, <1>2, <1>4, <1>7, PopAccept
<1> QED BY <1>1, <1>3, <1>6, <1>7, <1>8

\* An async_accept or a wait ended: its handler is what the loop waits for.
LEMMA LoopPosts ==
    ASSUME NEW t \in AcceptMoving, acceptor \in Seq(AcceptTasks), Still,
           acceptor' = Append(acceptor, t),
           accepting' = 0, retrying' = FALSE, launching' = NoConnection,
           AcceptStage(t)'
    PROVE  Loop' /\ acceptor' \in Seq(AcceptTasks)
<1>1. acceptor' \in Seq(AcceptTasks) /\ OneBut(acceptor', {CloseTask}, t)
  BY PostAccept DEF Still
<1> QED BY <1>1 DEF Loop

\* The variables a step of the acceptor leaves alone
Others ==
    /\ stops' = stops /\ stopper' = stopper /\ alive' = alive /\ todo' = todo /\ told' = told
    /\ mode' = mode /\ ws' = ws /\ stopping_' = stopping_

\* The type of the others.
LEMMA TypedKept ==
    ASSUME Typed, Others, items_' \subseteq Names, is_open' \in BOOLEAN,
           acceptor' \in Seq(AcceptTasks)
    PROVE  Typed'
<1>1. /\ mode' \in Modes /\ ws' \in [Connections -> {"none", "rejecting", "live", "gone"}]
      /\ stopping_' \in BOOLEAN
  BY Zenon DEF Typed, Others
<1>2. /\ stops' \in 0 .. MaxStops /\ stopper' \in {"idle", "posted", "telling", "threw"}
      /\ todo' \subseteq alive' /\ alive' \subseteq Names /\ told' \subseteq Names
  BY Zenon DEF Typed, Others
<1> QED BY <1>1, <1>2 DEF Typed

\* No session changes.
LEMMA SessionsKept ==
    ASSUME Sessions, session' = session, stopping_' = stopping_, told' = told
    PROVE  Sessions'
  BY Zenon DEF Sessions, Heard, Hears

\* The registry, when the sessions that need it stay the same or one joins it.
LEMMA RegistryKept ==
    ASSUME Registry, Others, items_' = items_ \/ (stopping_ = FALSE /\ items_ \subseteq items_'),
           \A d \in Connections :
              session'[d].life \in {"launching", "live"} =>
                  session[d].life \in {"launching", "live"} \/ <<d, "http">> \in items_'
    PROVE  Registry'
<1>1. /\ stopper' = stopper /\ todo' = todo /\ told' = told /\ stopping_' = stopping_
  BY Zenon DEF Others
<1>2. \A d \in Connections :
         session'[d].life \in {"launching", "live"} => <<d, "http">> \in items_'
  BY DEF Registry
<1>3. (stopping_' = FALSE => told' = {} /\ todo' = {}) /\ (stopper' # "telling" => todo' = {})
  BY <1>1 DEF Registry
<1>4. stopping_' /\ stopper' \in {"telling", "idle"} => items_' \subseteq todo' \cup told'
  BY <1>1 DEF Registry, StopMissesNone
<1> QED BY <1>2, <1>3, <1>4 DEF Registry, StopMissesNone

\* accepting > 0: the loop waits for the async_accept.
LEMMA LoopAccepts ==
    ASSUME Loop, accepting > 0
    PROVE  accepting = 1 /\ retrying = FALSE /\ launching = NoConnection /\ is_open = TRUE /\ Still
<1>1. ~(accepting = 0) OBVIOUS
<1> QED BY <1>1, Zenon DEF Loop, Still

\* retrying: the loop waits for the timer.
LEMMA LoopRetries ==
    ASSUME Loop, retrying
    PROVE  /\ accepting = 0 /\ retrying = TRUE /\ launching = NoConnection /\ is_open = TRUE
           /\ Still
<1>1. retrying # FALSE OBVIOUS
<1> QED BY <1>1, Zenon DEF Loop, Still

\* One session gets another life, and the registry nothing or that session.
LEMMA NewLife ==
    ASSUME Sessions, Registry, NEW c \in Connections,
           session[c].life \in {"none", "accepted", "launching"},
           NEW l \in {"accepted", "launching", "gone"},
           session' = [session EXCEPT ![c].life = l], Others,
           \/ items_' = items_ /\ l # "launching"
           \/ stopping_ = FALSE /\ items_' = items_ \cup {<<c, "http">>}
    PROVE  /\ Sessions' /\ Registry' /\ session'[c].life = l
           /\ \A d \in Connections \ {c} : session'[d] = session[d]
<1> DEFINE r == [session[c] EXCEPT !.life = l]
<1>1. session' = [session EXCEPT ![c] = r]
  OBVIOUS
<1>2. SessionInv(r) /\ Hears(r) /\ r.life = l
  <2>1. SessionInv(session[c])
    BY DEF Sessions
  <2> QED BY <2>1, LifeInv
<1>3. stopping_' = stopping_ /\ told' = told
  BY Zenon DEF Others
<1> HIDE DEF r
<1>4. Sessions' /\ session'[c] = r /\ \A d \in Connections \ {c} : session'[d] = session[d]
  BY <1>1, <1>2, <1>3, UpdateSessions
<1>5. \A d \in Connections :
         session'[d].life \in {"launching", "live"} =>
             session[d].life \in {"launching", "live"} \/ <<d, "http">> \in items_'
  BY <1>2, <1>4
<1>6. items_' = items_ \/ (stopping_ = FALSE /\ items_ \subseteq items_')
  OBVIOUS
<1>7. Registry'
  BY <1>5, <1>6, RegistryKept
<1> QED BY <1>2, <1>4, <1>7

\* No session changes, nor the registry.
LEMMA AcceptorOnly ==
    ASSUME Sessions, Registry, session' = session, items_' = items_, Others
    PROVE  Sessions' /\ Registry'
<1>1. stopping_' = stopping_ /\ told' = told
  BY Zenon DEF Others
<1>2. Sessions' BY <1>1, SessionsKept
<1>3. Registry' BY RegistryKept
<1> QED BY <1>2, <1>3

\* A connection arrives, the accept fails, the timer expires.
LEMMA ArrivalsInv ==
    ASSUME IInv,
           \/ \E c \in Connections : Arrives(c)
           \/ \E res \in {"reset", "resources"} : AcceptFails(res)
           \/ RetryExpires
    PROVE  IInv'
<1>0. /\ Sessions /\ Registry /\ Loop /\ Typed
      /\ acceptor \in Seq(AcceptTasks) /\ items_ \subseteq Names /\ is_open \in BOOLEAN
  BY DEF IInv, Typed
<1>1. ASSUME NEW c \in Connections, Arrives(c) PROVE IInv'
  <2> DEFINE t == AcceptTask("ok", c)
  <2>1. /\ accepting > 0 /\ session[c].life = "none" /\ accepting' = accepting - 1
        /\ acceptor' = Append(acceptor, t) /\ session' = [session EXCEPT ![c].life = "accepted"]
        /\ items_' = items_ /\ is_open' = is_open /\ retrying' = retrying
        /\ launching' = launching /\ Others
    BY <1>1, Zenon DEF Arrives, stopVars, Others
  <2>2. accepting = 1 /\ retrying = FALSE /\ launching = NoConnection /\ is_open = TRUE /\ Still
    BY <1>0, <2>1, LoopAccepts
  <2>3. t \in AcceptMoving /\ t.op = "on_accept" /\ t.res = "ok" /\ t.c = c
    BY AcceptFacts DEF AcceptResults
  <2> HIDE DEF t
  <2>4. Sessions' /\ Registry' /\ session'[c].life = "accepted"
    BY <1>0, <2>1, NewLife
  <2>5. AcceptStage(t)'
    BY <2>3, <2>4 DEF AcceptStage
  <2>6. accepting' = 0 /\ retrying' = FALSE /\ launching' = NoConnection
    BY <2>1, <2>2
  <2>7. Loop' /\ acceptor' \in Seq(AcceptTasks)
    BY <1>0, <2>1, <2>2, <2>3, <2>5, <2>6, LoopPosts
  <2>8. Typed'
    BY <1>0, <2>1, <2>7, TypedKept
  <2> QED BY <2>4, <2>7, <2>8 DEF IInv
<1>2. ASSUME NEW res \in {"reset", "resources"}, AcceptFails(res) PROVE IInv'
  <2> DEFINE t == AcceptTask(res, NoConnection)
  <2>1. /\ accepting > 0 /\ accepting' = accepting - 1
        /\ acceptor' = Append(acceptor, t) /\ session' = session
        /\ items_' = items_ /\ is_open' = is_open /\ retrying' = retrying
        /\ launching' = launching /\ Others
    BY <1>2, Zenon DEF AcceptFails, httpVars, stopVars, Others
  <2>2. accepting = 1 /\ retrying = FALSE /\ launching = NoConnection /\ is_open = TRUE /\ Still
    BY <1>0, <2>1, LoopAccepts
  <2>3. t \in AcceptMoving /\ t.op = "on_accept" /\ t.res = res /\ t.c = NoConnection
    BY AcceptFacts DEF AcceptResults
  <2> HIDE DEF t
  <2>4. Sessions' /\ Registry'
    BY <1>0, <2>1, AcceptorOnly
  <2>5. AcceptStage(t)'
    BY <2>3, ListenerAssumption DEF AcceptStage
  <2>6. accepting' = 0 /\ retrying' = FALSE /\ launching' = NoConnection
    BY <2>1, <2>2
  <2>7. Loop' /\ acceptor' \in Seq(AcceptTasks)
    BY <1>0, <2>1, <2>2, <2>3, <2>5, <2>6, LoopPosts
  <2>8. Typed'
    BY <1>0, <2>1, <2>7, TypedKept
  <2> QED BY <2>4, <2>7, <2>8 DEF IInv
<1>3. ASSUME RetryExpires PROVE IInv'
  <2> DEFINE t == RetryTask("ok")
  <2>1. /\ retrying /\ retrying' = FALSE
        /\ acceptor' = Append(acceptor, t) /\ session' = session
        /\ items_' = items_ /\ is_open' = is_open /\ accepting' = accepting
        /\ launching' = launching /\ Others
    BY <1>3, Zenon DEF RetryExpires, httpVars, stopVars, Others
  <2>2. accepting = 0 /\ launching = NoConnection /\ Still
    BY <1>0, <2>1, LoopRetries
  <2>3. t \in AcceptMoving /\ t.op = "retry" /\ t.res = "ok"
    BY AcceptFacts
  <2> HIDE DEF t
  <2>4. Sessions' /\ Registry'
    BY <1>0, <2>1, AcceptorOnly
  <2>5. AcceptStage(t)'
    BY <2>3 DEF AcceptStage
  <2>6. accepting' = 0 /\ retrying' = FALSE /\ launching' = NoConnection
    BY <2>1, <2>2
  <2>7. Loop' /\ acceptor' \in Seq(AcceptTasks)
    BY <1>0, <2>1, <2>2, <2>3, <2>5, <2>6, LoopPosts
  <2>8. Typed'
    BY <1>0, <2>1, <2>7, TypedKept
  <2> QED BY <2>4, <2>7, <2>8 DEF IInv
<1> QED BY <1>1, <1>2, <1>3

\* on_accept().
LEMMA OnAcceptInv ==
    ASSUME IInv,
           \/ OnAcceptClosed \/ OnAcceptReset \/ OnAcceptError
           \/ \E c \in Connections : OnAccept(c) \/ OnAcceptStopping(c)
    PROVE  IInv'
<1> DEFINE t == Head(acceptor)
<1>0. /\ Sessions /\ Registry /\ Loop /\ Typed
      /\ acceptor \in Seq(AcceptTasks) /\ items_ \subseteq Names /\ is_open \in BOOLEAN
      /\ stopping_ \in BOOLEAN
  BY DEF IInv, Typed
<1>1. Accepting("on_accept")
  BY DEF OnAcceptClosed, OnAcceptReset, OnAcceptError, OnAccept, OnAcceptStopping
<1>2. /\ t \in AcceptMoving /\ t.op = "on_accept" /\ AcceptStage(t)
      /\ accepting = 0 /\ retrying = FALSE /\ launching = NoConnection
      /\ acceptor' = Tail(acceptor) /\ Tail(acceptor) \in Seq(AcceptTasks)
      /\ AllIn(Tail(acceptor), {CloseTask})
  BY <1>0, <1>1, TakeAccept
<1>3. /\ t.res = "aborted" => is_open = FALSE
      /\ t.c \in Connections => session[t.c].life = "accepted"
      /\ t.res = "ok" => t.c \in Connections
  BY <1>2 DEF AcceptStage
<1>4. acceptor' \in Seq(AcceptTasks) /\ AllIn(acceptor', {CloseTask})
  BY <1>2
<1> HIDE DEF t
<1>5. ASSUME OnAcceptClosed PROVE IInv'
  <2>1. /\ ~is_open \/ t.res = "aborted"
        /\ session' = [c \in Connections |-> IF c = t.c THEN [session[c] EXCEPT !.life = "gone"]
                                                       ELSE session[c]]
        /\ items_' = items_ /\ is_open' = is_open /\ accepting' = accepting
        /\ retrying' = retrying /\ launching' = launching /\ Others
    BY <1>5, Zenon DEF OnAcceptClosed, stopVars, Others, t
  <2>2. is_open = FALSE
    BY <1>0, <1>3, <2>1
  <2>3. Sessions' /\ Registry'
    <3>1. CASE t.c \in Connections
      <4>1. session' = [session EXCEPT ![t.c].life = "gone"]
        BY <1>0, <2>1, <3>1 DEF Sessions
      <4> QED BY <1>0, <1>3, <2>1, <3>1, <4>1, NewLife
    <3>2. CASE t.c \notin Connections
      <4>1. session' = session
        BY <1>0, <2>1, <3>2 DEF Sessions
      <4> QED BY <1>0, <2>1, <4>1, AcceptorOnly
    <3> QED BY <3>1, <3>2
  <2>4. accepting' = 0 /\ retrying' = FALSE /\ launching' = NoConnection /\ is_open' = FALSE
    BY <1>2, <2>1, <2>2, Zenon
  <2>5. Loop'
    BY <1>4, <2>4, Zenon DEF Loop
  <2>6. Typed'
    BY <1>0, <1>4, <2>1, TypedKept
  <2> QED BY <2>3, <2>5, <2>6 DEF IInv
<1>6. ASSUME OnAcceptReset PROVE IInv'
  <2>1. /\ is_open /\ session' = session /\ accepting' = accepting + 1
        /\ items_' = items_ /\ is_open' = is_open
        /\ retrying' = retrying /\ launching' = launching /\ Others
    BY <1>6, Zenon DEF OnAcceptReset, httpVars, stopVars, Others
  <2>2. Sessions' /\ Registry'
    BY <1>0, <2>1, AcceptorOnly
  <2>3. accepting' = 1 /\ retrying' = FALSE /\ launching' = NoConnection /\ is_open' = TRUE
    BY <1>0, <1>2, <2>1
  <2>4. Loop'
    BY <1>4, <2>3, Zenon DEF Loop
  <2>5. Typed'
    BY <1>0, <1>4, <2>1, TypedKept
  <2> QED BY <2>2, <2>4, <2>5 DEF IInv
<1>7. ASSUME OnAcceptError PROVE IInv'
  <2>1. /\ is_open /\ session' = session /\ accepting' = accepting
        /\ items_' = items_ /\ is_open' = is_open
        /\ retrying' = TRUE /\ launching' = launching /\ Others
    BY <1>7, Zenon DEF OnAcceptError, httpVars, stopVars, Others
  <2>2. Sessions' /\ Registry'
    BY <1>0, <2>1, AcceptorOnly
  <2>3. accepting' = 0 /\ retrying' = TRUE /\ launching' = NoConnection /\ is_open' = TRUE
    BY <1>0, <1>2, <2>1
  <2>4. Loop'
    BY <1>4, <2>3, Zenon DEF Loop
  <2>5. Typed'
    BY <1>0, <1>4, <2>1, TypedKept
  <2> QED BY <2>2, <2>4, <2>5 DEF IInv
<1>8. ASSUME NEW c \in Connections, OnAccept(c) PROVE IInv'
  <2>1. /\ is_open /\ t.res = "ok" /\ t.c = c /\ ~stopping_
        /\ items_' = items_ \cup {<<c, "http">>}
        /\ session' = [session EXCEPT ![c].life = "launching"]
        /\ accepting' = accepting /\ is_open' = is_open
        /\ retrying' = retrying /\ launching' = c /\ Others
    BY <1>8, Zenon DEF OnAccept, stopVars, Others, t
  <2>2. Sessions' /\ Registry' /\ session'[c].life = "launching"
    BY <1>0, <1>3, <2>1, NewLife
  <2>3. accepting' = 0 /\ retrying' = FALSE /\ launching' \in Connections /\ is_open' = TRUE
    BY <1>0, <1>2, <2>1
  <2>4. session'[launching'].life = "launching"
    BY <2>1, <2>2
  <2>5. Loop'
    BY <1>4, <2>3, <2>4, Zenon DEF Loop
  <2>6. items_' \subseteq Names
    BY <1>0, <2>1 DEF Names
  <2>7. Typed'
    BY <1>0, <1>4, <2>1, <2>6, TypedKept
  <2> QED BY <2>2, <2>5, <2>7 DEF IInv
<1>9. ASSUME NEW c \in Connections, OnAcceptStopping(c) PROVE IInv'
  <2>1. /\ is_open /\ t.res = "ok" /\ t.c = c
        /\ items_' = items_ /\ session' = [session EXCEPT ![c].life = "gone"]
        /\ accepting' = accepting + 1 /\ is_open' = is_open
        /\ retrying' = retrying /\ launching' = launching /\ Others
    BY <1>9, Zenon DEF OnAcceptStopping, stopVars, Others, t
  <2>2. Sessions' /\ Registry'
    BY <1>0, <1>3, <2>1, NewLife
  <2>3. accepting' = 1 /\ retrying' = FALSE /\ launching' = NoConnection /\ is_open' = TRUE
    BY <1>0, <1>2, <2>1
  <2>4. Loop'
    BY <1>4, <2>3, Zenon DEF Loop
  <2>5. Typed'
    BY <1>0, <1>4, <2>1, TypedKept
  <2> QED BY <2>2, <2>4, <2>5 DEF IInv
<1> QED BY <1>5, <1>6, <1>7, <1>8, <1>9

\* The session on_accept() registered is launched.
LEMMA LaunchKeeps ==
    ASSUME IInv, Launch
    PROVE  IInv'
<1> DEFINE c == launching
           r == [Post(session[c], "on_run") EXCEPT !.life = "live"]
<1>0. /\ Sessions /\ Registry /\ Loop /\ Typed
      /\ acceptor \in Seq(AcceptTasks) /\ items_ \subseteq Names /\ is_open \in BOOLEAN
  BY DEF IInv, Typed
<1>1. /\ c # NoConnection /\ session' = [session EXCEPT ![c] = r]
      /\ launching' = NoConnection /\ accepting' = accepting + 1
      /\ items_' = items_ /\ is_open' = is_open /\ retrying' = retrying
      /\ acceptor' = acceptor /\ Others
  BY Zenon DEF Launch, stopVars, Others
<1>2. /\ accepting = 0 /\ retrying = FALSE /\ is_open = TRUE
      /\ c \in Connections /\ session[c].life = "launching"
      /\ AllIn(acceptor, {CloseTask})
  BY <1>0, <1>1, Zenon DEF Loop
<1>3. SessionInv(r) /\ Hears(r) /\ r.life = "live"
  BY <1>0, <1>2, LaunchInv DEF Sessions
<1>4. stopping_' = stopping_ /\ told' = told
  BY <1>1, Zenon DEF Others
<1> HIDE DEF r, c
<1>5. Sessions' /\ session'[c] = r /\ \A d \in Connections \ {c} : session'[d] = session[d]
  BY <1>0, <1>1, <1>2, <1>3, <1>4, UpdateSessions
<1>6. \A d \in Connections :
         session'[d].life \in {"launching", "live"} => session[d].life \in {"launching", "live"}
  BY <1>2, <1>5
<1>7. Registry'
  BY <1>0, <1>1, <1>6, RegistryKept
<1>8. accepting' = 1 /\ retrying' = FALSE /\ is_open' = TRUE /\ AllIn(acceptor', {CloseTask})
  BY <1>1, <1>2
<1>9. Loop'
  BY <1>1, <1>8, Zenon DEF Loop
<1>10. Typed'
  BY <1>0, <1>1, TypedKept
<1> QED BY <1>5, <1>7, <1>9, <1>10 DEF IInv

\* The retry timer's handler.
LEMMA OnRetryInv ==
    ASSUME IInv, OnRetry
    PROVE  IInv'
<1> DEFINE t == Head(acceptor)
<1>0. /\ Sessions /\ Registry /\ Loop /\ Typed
      /\ acceptor \in Seq(AcceptTasks) /\ items_ \subseteq Names /\ is_open \in BOOLEAN
  BY DEF IInv, Typed
<1>1. /\ Accepting("retry")
      /\ accepting' = (IF t.res = "ok" /\ is_open THEN accepting + 1 ELSE accepting)
      /\ session' = session /\ items_' = items_ /\ is_open' = is_open
      /\ retrying' = retrying /\ launching' = launching /\ Others
  BY Zenon DEF OnRetry, httpVars, stopVars, Others
<1>2. /\ t \in AcceptMoving /\ t.op = "retry" /\ AcceptStage(t)
      /\ accepting = 0 /\ retrying = FALSE /\ launching = NoConnection
      /\ acceptor' = Tail(acceptor) /\ Tail(acceptor) \in Seq(AcceptTasks)
      /\ AllIn(Tail(acceptor), {CloseTask})
  BY <1>0, <1>1, TakeAccept
<1>3. (t.res = "aborted" => is_open = FALSE) /\ t.res \in {"ok", "aborted"}
  BY <1>2, AcceptFacts DEF AcceptStage
<1> HIDE DEF t
<1>4. /\ acceptor' \in Seq(AcceptTasks) /\ AllIn(acceptor', {CloseTask})
      /\ retrying' = FALSE /\ launching' = NoConnection
  BY <1>1, <1>2
<1>5. (accepting' = 1 /\ is_open' = TRUE) \/ (accepting' = 0 /\ is_open' = FALSE)
  BY <1>0, <1>1, <1>2, <1>3
<1>6. Loop'
  BY <1>4, <1>5, Zenon DEF Loop
<1>7. Sessions' /\ Registry'
  BY <1>0, <1>1, AcceptorOnly
<1>8. Typed'
  BY <1>0, <1>1, <1>4, TypedKept
<1> QED BY <1>6, <1>7, <1>8 DEF IInv

\* The task stop() posted closes the acceptor: an outstanding accept or wait is
\* aborted and its handler queued.
LEMMA OnCloseInv ==
    ASSUME IInv, OnClose
    PROVE  IInv'
<1> DEFINE q == Tail(acceptor)
           a == RetryTask("aborted")
           b == AcceptTask("aborted", NoConnection)
<1>0. /\ Sessions /\ Registry /\ Loop /\ Typed
      /\ acceptor \in Seq(AcceptTasks) /\ items_ \subseteq Names
  BY DEF IInv, Typed
<1>1. /\ launching = NoConnection /\ acceptor # <<>> /\ Head(acceptor) = CloseTask
      /\ is_open' = FALSE /\ accepting' = 0 /\ retrying' = FALSE
      /\ acceptor' = q \o (IF retrying THEN <<a>> ELSE <<>>) \o [i \in 1 .. accepting |-> b]
      /\ session' = session /\ items_' = items_ /\ launching' = launching /\ Others
  BY Zenon DEF OnClose, httpVars, stopVars, Others
<1>2. /\ q \in Seq(AcceptTasks)
      /\ AllIn(acceptor, {CloseTask}) => AllIn(q, {CloseTask})
      /\ \A t \in AcceptMoving : OneBut(acceptor, {CloseTask}, t) => OneBut(q, {CloseTask}, t)
  BY <1>0, <1>1, PopAccept
<1>3. /\ a \in AcceptMoving /\ a.op = "retry" /\ a.res = "aborted"
      /\ b \in AcceptMoving /\ b.op = "on_accept" /\ b.res = "aborted" /\ b.c = NoConnection
  BY AcceptFacts DEF AcceptResults
<1>4. a \in AcceptTasks /\ b \in AcceptTasks
  BY <1>3 DEF AcceptMoving
<1> HIDE DEF q, a, b
<1>5. q \o <<>> = q /\ q \o <<a>> = Append(q, a) /\ q \o <<b>> = Append(q, b)
  BY <1>2, <1>4, ConcatEmptySeq, AppendIsConcat
<1>6. Append(q, a) \in Seq(AcceptTasks) /\ Append(q, a) \o <<>> = Append(q, a)
  <2>1. Append(q, a) \in Seq(AcceptTasks) BY <1>2, <1>4
  <2> QED BY <2>1, ConcatEmptySeq
<1>7. [i \in 1 .. 0 |-> b] = <<>> /\ [i \in 1 .. 1 |-> b] = <<b>>
  OBVIOUS
<1>8. launching' = NoConnection
  BY <1>1
<1>9. AcceptStage(a)' /\ AcceptStage(b)'
  BY <1>1, <1>3, ListenerAssumption DEF AcceptStage
<1>10. Loop' /\ acceptor' \in Seq(AcceptTasks)
  <2>1. CASE accepting = 1 /\ retrying = FALSE /\ AllIn(acceptor, {CloseTask})
    <3>1. acceptor' = Append(q, b)
      BY <1>1, <1>5, <1>7, <2>1
    <3>2. acceptor' \in Seq(AcceptTasks) /\ OneBut(acceptor', {CloseTask}, b)
      BY <1>2, <1>3, <2>1, <3>1, PostAccept
    <3> QED BY <1>1, <1>3, <1>8, <1>9, <3>2 DEF Loop
  <2>2. CASE accepting = 0 /\ retrying = TRUE /\ AllIn(acceptor, {CloseTask})
    <3>1. acceptor' = Append(q, a)
      BY <1>1, <1>5, <1>6, <1>7, <2>2
    <3>2. acceptor' \in Seq(AcceptTasks) /\ OneBut(acceptor', {CloseTask}, a)
      BY <1>2, <1>3, <2>2, <3>1, PostAccept
    <3> QED BY <1>1, <1>3, <1>8, <1>9, <3>2 DEF Loop
  <2>3. ASSUME accepting = 0, retrying = FALSE PROVE acceptor' = q
    BY <1>1, <1>5, <1>7, <2>3
  <2>4. ASSUME accepting = 0, retrying = FALSE, NEW t \in AcceptMoving, Pending(t)
        PROVE  Loop' /\ acceptor' \in Seq(AcceptTasks)
    <3>1. acceptor' = q /\ OneBut(acceptor', {CloseTask}, t)
      BY <1>2, <2>3, <2>4 DEF Pending
    <3>2. AcceptStage(t)'
      BY <1>1, <2>4 DEF AcceptStage, Pending
    <3> QED BY <1>1, <1>2, <1>8, <3>1, <3>2 DEF Loop
  <2>5. ASSUME accepting = 0, retrying = FALSE, AllIn(acceptor, {CloseTask})
        PROVE  Loop' /\ acceptor' \in Seq(AcceptTasks)
    <3>1. acceptor' = q /\ AllIn(acceptor', {CloseTask})
      BY <1>2, <2>3, <2>5
    <3> QED BY <1>1, <1>2, <1>8, <3>1 DEF Loop
  <2>6. \/ accepting = 1 /\ retrying = FALSE /\ AllIn(acceptor, {CloseTask})
        \/ accepting = 0 /\ retrying = TRUE /\ AllIn(acceptor, {CloseTask})
        \/ accepting = 0 /\ retrying = FALSE /\ \E t \in AcceptMoving : Pending(t)
        \/ accepting = 0 /\ retrying = FALSE /\ AllIn(acceptor, {CloseTask})
    BY <1>0, Zenon DEF Loop, Pending
  <2> QED BY <2>1, <2>2, <2>4, <2>5, <2>6
<1>11. Sessions' /\ Registry'
  BY <1>0, <1>1, AcceptorOnly
<1>12. Typed'
  BY <1>0, <1>1, <1>10, TypedKept
<1> QED BY <1>10, <1>11, <1>12 DEF IInv

(***************************************************************************)
(* stop(), and the end of a session                                        *)
(***************************************************************************)
\* The variables of the acceptor's loop are left alone.
LEMMA LoopSame ==
    ASSUME Loop, session' = session, acceptVars' = acceptVars
    PROVE  Loop'
<1>1. /\ is_open' = is_open /\ accepting' = accepting /\ retrying' = retrying
      /\ acceptor' = acceptor /\ launching' = launching
  BY Zenon DEF acceptVars
<1> QED BY <1>1, LoopKept

\* Steps of stop() other than the messages to the sessions.
LEMMA StopInv ==
    ASSUME IInv, Stop \/ StopAll \/ StopReturns \/ (\E c \in Connections : TellRaces(c) \/ TellWs(c))
    PROVE  IInv'
<1>0. /\ Sessions /\ Registry /\ Loop /\ Typed
      /\ acceptor \in Seq(AcceptTasks) /\ items_ \subseteq Names /\ is_open \in BOOLEAN
      /\ stopping_ \in BOOLEAN
  BY DEF IInv, Typed
<1>1. ASSUME Stop PROVE IInv'
  <2>1. /\ stopper \in {"idle", "threw"} /\ stops < MaxStops /\ stops' = stops + 1
        /\ stopper' = "posted" /\ acceptor' = Append(acceptor, CloseTask)
        /\ mode' = mode /\ session' = session /\ ws' = ws /\ items_' = items_
        /\ stopping_' = stopping_ /\ is_open' = is_open /\ accepting' = accepting
        /\ retrying' = retrying /\ launching' = launching /\ alive' = alive
        /\ todo' = todo /\ told' = told
    BY <1>1, Zenon DEF Stop, httpVars
  <2>2. Sessions'
    BY <1>0, <2>1, SessionsKept
  <2>3. Registry'
    BY <1>0, <2>1 DEF Registry, StopMissesNone
  <2>4. /\ acceptor' \in Seq(AcceptTasks)
        /\ AllIn(acceptor, {CloseTask}) => AllIn(acceptor', {CloseTask})
        /\ \A t : OneBut(acceptor, {CloseTask}, t) => OneBut(acceptor', {CloseTask}, t)
    BY <1>0, <2>1, PostClose
  <2>5. \A t : AcceptStage(t) => AcceptStage(t)'
    BY <2>1 DEF AcceptStage
  <2>6. Loop'
    <3>1. \/ /\ accepting' = 1 /\ retrying' = FALSE /\ launching' = NoConnection
             /\ is_open' = TRUE /\ AllIn(acceptor', {CloseTask})
          \/ /\ accepting' = 0 /\ retrying' = TRUE /\ launching' = NoConnection
             /\ is_open' = TRUE /\ AllIn(acceptor', {CloseTask})
          \/ /\ accepting' = 0 /\ retrying' = FALSE /\ launching' = NoConnection
             /\ \E t \in AcceptMoving : OneBut(acceptor', {CloseTask}, t) /\ AcceptStage(t)'
          \/ /\ accepting' = 0 /\ retrying' = FALSE /\ is_open' = TRUE
             /\ launching' \in Connections /\ session'[launching'].life = "launching"
             /\ AllIn(acceptor', {CloseTask})
          \/ /\ accepting' = 0 /\ retrying' = FALSE /\ launching' = NoConnection
             /\ is_open' = FALSE /\ AllIn(acceptor', {CloseTask})
      BY <1>0, <2>1, <2>4, <2>5, Zenon DEF Loop
    <3> QED BY <3>1, Zenon DEF Loop
  <2>7. stops' \in 0 .. MaxStops
    BY <1>0, <2>1, ListenerAssumption DEF Typed
  <2>8. /\ mode' \in Modes /\ ws' \in [Connections -> {"none", "rejecting", "live", "gone"}]
        /\ stopping_' \in BOOLEAN /\ is_open' \in BOOLEAN
        /\ items_' \subseteq Names /\ stopper' \in {"idle", "posted", "telling", "threw"}
        /\ todo' \subseteq alive' /\ alive' \subseteq Names /\ told' \subseteq Names
    BY <1>0, <2>1, Zenon DEF Typed
  <2>9. Typed'
    BY <2>4, <2>7, <2>8 DEF Typed
  <2> QED BY <2>2, <2>3, <2>6, <2>9 DEF IInv
<1>2. ASSUME StopAll PROVE IInv'
  <2>1. /\ stopper = "posted" /\ stopper' = "telling" /\ stopping_' = TRUE
        /\ alive' = items_ /\ todo' = items_ /\ mode' = mode /\ session' = session /\ ws' = ws
        /\ items_' = items_ /\ acceptVars' = acceptVars /\ stops' = stops /\ told' = told
    BY <1>2, Zenon DEF StopAll
  <2>2. Sessions'
    <3>1. ASSUME NEW d \in Connections, <<d, "http">> \in told PROVE Hears(session[d])
      <4>1. stopping_ = TRUE BY <1>0, <3>1 DEF Registry
      <4> QED BY <1>0, <3>1, <4>1 DEF Sessions, Heard
    <3>2. \A d \in Connections : Heard(d)'
      BY <2>1, <3>1 DEF Heard, Hears, Silent
    <3> QED BY <1>0, <2>1, <3>2 DEF Sessions
  <2>3. Registry'
    BY <1>0, <2>1 DEF Registry, StopMissesNone
  <2>4. Loop'
    BY <1>0, <2>1, LoopSame
  <2>5. is_open' = is_open /\ acceptor' = acceptor
    BY <2>1, Zenon DEF acceptVars
  <2>6. /\ mode' \in Modes /\ ws' \in [Connections -> {"none", "rejecting", "live", "gone"}]
        /\ stopping_' \in BOOLEAN /\ is_open' \in BOOLEAN /\ acceptor' \in Seq(AcceptTasks)
        /\ items_' \subseteq Names /\ stopper' \in {"idle", "posted", "telling", "threw"}
        /\ todo' \subseteq alive' /\ alive' \subseteq Names /\ told' \subseteq Names
        /\ stops' \in 0 .. MaxStops
    BY <1>0, <2>1, <2>5, Zenon DEF Typed
  <2>7. Typed'
    BY <2>6 DEF Typed
  <2> QED BY <2>2, <2>3, <2>4, <2>7 DEF IInv
<1>3. ASSUME StopReturns PROVE IInv'
  <2>1. /\ stopper = "telling" /\ todo = {} /\ stopper' = "idle" /\ alive' = {}
        /\ stopping_' = stopping_ /\ todo' = todo /\ mode' = mode /\ session' = session
        /\ ws' = ws /\ items_' = items_ /\ acceptVars' = acceptVars /\ stops' = stops
        /\ told' = told
    BY <1>3, Zenon DEF StopReturns, httpVars
  <2>2. Sessions'
    BY <1>0, <2>1, SessionsKept
  <2>3. Registry'
    BY <1>0, <2>1 DEF Registry, StopMissesNone
  <2>4. Loop'
    BY <1>0, <2>1, LoopSame
  <2>5. is_open' = is_open /\ acceptor' = acceptor
    BY <2>1, Zenon DEF acceptVars
  <2>6. /\ mode' \in Modes /\ ws' \in [Connections -> {"none", "rejecting", "live", "gone"}]
        /\ stopping_' \in BOOLEAN /\ is_open' \in BOOLEAN /\ acceptor' \in Seq(AcceptTasks)
        /\ items_' \subseteq Names /\ stopper' \in {"idle", "posted", "telling", "threw"}
        /\ told' \subseteq Names /\ stops' \in 0 .. MaxStops
    BY <1>0, <2>1, <2>5, Zenon DEF Typed
  <2>7. Typed'
    BY <2>1, <2>6 DEF Typed
  <2> QED BY <2>2, <2>3, <2>4, <2>7 DEF IInv
<1>4. ASSUME NEW c \in Connections, TellRaces(c) PROVE IInv'
  <2>1. /\ stopper' = "threw" /\ todo' = {} /\ alive' = {} /\ <<c, "http">> \in todo
        /\ stopping_' = stopping_ /\ mode' = mode /\ session' = session
        /\ ws' = ws /\ items_' = items_ /\ acceptVars' = acceptVars /\ stops' = stops
        /\ told' = told
    BY <1>4, Zenon DEF TellRaces, httpVars
  <2>2. Sessions'
    BY <1>0, <2>1, SessionsKept
  <2>3. Registry'
    BY <1>0, <2>1 DEF Registry, StopMissesNone
  <2>4. Loop'
    BY <1>0, <2>1, LoopSame
  <2>5. is_open' = is_open /\ acceptor' = acceptor
    BY <2>1, Zenon DEF acceptVars
  <2>6. /\ mode' \in Modes /\ ws' \in [Connections -> {"none", "rejecting", "live", "gone"}]
        /\ stopping_' \in BOOLEAN /\ is_open' \in BOOLEAN /\ acceptor' \in Seq(AcceptTasks)
        /\ items_' \subseteq Names /\ stopper' \in {"idle", "posted", "telling", "threw"}
        /\ told' \subseteq Names /\ stops' \in 0 .. MaxStops
    BY <1>0, <2>1, <2>5, Zenon DEF Typed
  <2>7. Typed'
    BY <2>1, <2>6 DEF Typed
  <2> QED BY <2>2, <2>3, <2>4, <2>7 DEF IInv
<1>5. ASSUME NEW c \in Connections, TellWs(c) PROVE IInv'
  <2>1. /\ <<c, "ws">> \in todo /\ todo' = todo \ {<<c, "ws">>}
        /\ told' = told \cup {<<c, "ws">>} /\ stopper' = stopper /\ alive' = alive
        /\ stopping_' = stopping_ /\ mode' = mode /\ session' = session
        /\ ws' = ws /\ items_' = items_ /\ acceptVars' = acceptVars /\ stops' = stops
    BY <1>5, Zenon DEF TellWs, httpVars
  <2>2. stopping_ = TRUE /\ stopper = "telling"
    BY <1>0, <2>1 DEF Registry
  <2>3. Sessions'
    <3>1. \A d : <<d, "http">> \in told' => <<d, "http">> \in told
      BY <2>1
    <3>2. \A d \in Connections : Heard(d)'
      BY <1>0, <2>1, <3>1 DEF Heard, Hears, Silent, Sessions
    <3> QED BY <1>0, <2>1, <3>2 DEF Sessions
  <2>4. Registry'
    BY <1>0, <2>1, <2>2 DEF Registry, StopMissesNone
  <2>5. Loop'
    BY <1>0, <2>1, LoopSame
  <2>6. is_open' = is_open /\ acceptor' = acceptor
    BY <2>1, Zenon DEF acceptVars
  <2>7. /\ mode' \in Modes /\ ws' \in [Connections -> {"none", "rejecting", "live", "gone"}]
        /\ stopping_' \in BOOLEAN /\ is_open' \in BOOLEAN /\ acceptor' \in Seq(AcceptTasks)
        /\ items_' \subseteq Names /\ stopper' \in {"idle", "posted", "telling", "threw"}
        /\ alive' \subseteq Names /\ stops' \in 0 .. MaxStops
    BY <1>0, <2>1, <2>6, Zenon DEF Typed
  <2>8. todo' \subseteq alive' /\ told' \subseteq Names
    BY <1>0, <2>1 DEF Typed, Names
  <2>9. Typed'
    BY <2>7, <2>8 DEF Typed
  <2> QED BY <2>3, <2>4, <2>5, <2>9 DEF IInv
<1> QED BY <1>1, <1>2, <1>3, <1>4, <1>5

\* stop() of one session.
LEMMA TellHttpInv ==
    ASSUME IInv, NEW c \in Connections, TellHttp(c)
    PROVE  IInv'
<1> DEFINE r == Post(session[c], "on_stop")
<1>0. /\ Sessions /\ Registry /\ Loop /\ Typed
      /\ acceptor \in Seq(AcceptTasks) /\ items_ \subseteq Names /\ is_open \in BOOLEAN
  BY DEF IInv, Typed
<1>1. /\ <<c, "http">> \in todo /\ todo' = todo \ {<<c, "http">>}
      /\ told' = told \cup {<<c, "http">>} /\ session' = [session EXCEPT ![c] = r]
      /\ mode' = mode /\ ws' = ws /\ items_' = items_ /\ stopping_' = stopping_
      /\ is_open' = is_open /\ accepting' = accepting /\ retrying' = retrying
      /\ acceptor' = acceptor /\ launching' = launching
      /\ stops' = stops /\ stopper' = stopper /\ alive' = alive
  BY Zenon DEF TellHttp, acceptVars
<1>2. stopping_ = TRUE /\ stopper = "telling"
  BY <1>0, <1>1 DEF Registry, Typed
<1>3. SessionInv(r) /\ r.life = session[c].life /\ Hears(r)
  <2>1. SessionInv(session[c]) BY <1>0 DEF Sessions
  <2> QED BY <2>1, TellInv
<1> HIDE DEF r
<1>4. Sessions' /\ session'[c] = r /\ \A d \in Connections \ {c} : session'[d] = session[d]
  BY <1>0, <1>1, <1>2, <1>3, UpdateSessions
<1>5. \A d \in Connections : session'[d].life = session[d].life
  BY <1>3, <1>4
<1>6. Registry'
  BY <1>0, <1>1, <1>2, <1>5 DEF Registry, StopMissesNone
<1>7. Loop'
  BY <1>0, <1>1, <1>5, LoopKept
<1>8. /\ mode' \in Modes /\ ws' \in [Connections -> {"none", "rejecting", "live", "gone"}]
      /\ stopping_' \in BOOLEAN /\ is_open' \in BOOLEAN /\ acceptor' \in Seq(AcceptTasks)
      /\ items_' \subseteq Names /\ stopper' \in {"idle", "posted", "telling", "threw"}
      /\ alive' \subseteq Names /\ stops' \in 0 .. MaxStops
  BY <1>0, <1>1, Zenon DEF Typed
<1>9. todo' \subseteq alive' /\ told' \subseteq Names
  BY <1>0, <1>1 DEF Typed, Names
<1>10. Typed'
  BY <1>8, <1>9 DEF Typed
<1> QED BY <1>4, <1>6, <1>7, <1>10 DEF IInv

\* ~HttpSession(), and the end of a WebSocketSession.
LEMMA EndsKeep ==
    ASSUME IInv, NEW c \in Connections, Destroy(c) \/ WsEnds(c)
    PROVE  IInv'
<1>0. /\ Sessions /\ Registry /\ Loop /\ Typed
      /\ acceptor \in Seq(AcceptTasks) /\ items_ \subseteq Names /\ is_open \in BOOLEAN
  BY DEF IInv, Typed
<1>1. ASSUME Destroy(c) PROVE IInv'
  <2> DEFINE r == [Fresh EXCEPT !.life = "gone"]
  <2>1. /\ session[c].life = "live" /\ session' = [session EXCEPT ![c] = r]
        /\ items_' = items_ \ {<<c, "http">>} /\ Others
        /\ is_open' = is_open /\ accepting' = accepting /\ retrying' = retrying
        /\ acceptor' = acceptor /\ launching' = launching
    BY <1>1, Zenon DEF Destroy, acceptVars, stopVars, Others
  <2>2. SessionInv(r) /\ Hears(r) /\ r.life = "gone"
    BY FreshInv
  <2>3. stopping_' = stopping_ /\ told' = told /\ todo' = todo /\ stopper' = stopper
    BY <2>1, Zenon DEF Others
  <2> HIDE DEF r
  <2>4. Sessions' /\ session'[c] = r /\ \A d \in Connections \ {c} : session'[d] = session[d]
    BY <1>0, <2>1, <2>2, <2>3, UpdateSessions
  <2>5. Registry'
    <3>1. \A d \in Connections :
             session'[d].life \in {"launching", "live"} => <<d, "http">> \in items_'
      BY <1>0, <2>1, <2>2, <2>4 DEF Registry
    <3>2. (stopping_' = FALSE => told' = {} /\ todo' = {}) /\ (stopper' # "telling" => todo' = {})
      BY <1>0, <2>3 DEF Registry
    <3>3. stopping_' /\ stopper' \in {"telling", "idle"} => items_' \subseteq todo' \cup told'
      BY <1>0, <2>1, <2>3 DEF Registry, StopMissesNone
    <3> QED BY <3>1, <3>2, <3>3 DEF Registry, StopMissesNone
  <2>6. Loop'
    <3>1. \A d \in Connections :
             session[d].life \in {"accepted", "launching"} => session'[d].life = session[d].life
      BY <2>1, <2>4
    <3> QED BY <1>0, <2>1, <3>1, LoopKept
  <2>7. items_' \subseteq Names
    BY <1>0, <2>1
  <2>8. Typed'
    BY <1>0, <2>1, <2>7, TypedKept
  <2> QED BY <2>4, <2>5, <2>6, <2>8 DEF IInv
<1>2. ASSUME WsEnds(c) PROVE IInv'
  <2>1. /\ ws' = [ws EXCEPT ![c] = "gone"] /\ items_' = items_ \ {<<c, "ws">>}
        /\ mode' = mode /\ session' = session /\ stopping_' = stopping_
        /\ acceptVars' = acceptVars
        /\ stops' = stops /\ stopper' = stopper /\ alive' = alive /\ todo' = todo /\ told' = told
    BY <1>2, Zenon DEF WsEnds, stopVars
  <2>2. Sessions'
    BY <1>0, <2>1, SessionsKept
  <2>3. Registry'
    <3>1. \A d \in Connections :
             session'[d].life \in {"launching", "live"} => <<d, "http">> \in items_'
      BY <1>0, <2>1 DEF Registry
    <3>2. (stopping_' = FALSE => told' = {} /\ todo' = {}) /\ (stopper' # "telling" => todo' = {})
      BY <1>0, <2>1 DEF Registry
    <3>3. stopping_' /\ stopper' \in {"telling", "idle"} => items_' \subseteq todo' \cup told'
      BY <1>0, <2>1 DEF Registry, StopMissesNone
    <3> QED BY <3>1, <3>2, <3>3 DEF Registry, StopMissesNone
  <2>4. Loop'
    BY <1>0, <2>1, LoopSame
  <2>5. is_open' = is_open /\ acceptor' = acceptor
    BY <2>1, Zenon DEF acceptVars
  <2>6. /\ mode' \in Modes /\ stopping_' \in BOOLEAN /\ is_open' \in BOOLEAN
        /\ acceptor' \in Seq(AcceptTasks) /\ stopper' \in {"idle", "posted", "telling", "threw"}
        /\ todo' \subseteq alive' /\ alive' \subseteq Names /\ told' \subseteq Names
        /\ stops' \in 0 .. MaxStops
    BY <1>0, <2>1, <2>5, Zenon DEF Typed
  <2>7. ws' \in [Connections -> {"none", "rejecting", "live", "gone"}] /\ items_' \subseteq Names
    BY <1>0, <2>1 DEF Typed
  <2>8. Typed'
    BY <2>6, <2>7 DEF Typed
  <2> QED BY <2>2, <2>3, <2>4, <2>8 DEF IInv
<1> QED BY <1>1, <1>2

(***************************************************************************)
(* The invariant holds                                                     *)
(***************************************************************************)
\* It holds at the start.
LEMMA InitInv ==
    ASSUME Init
    PROVE  IInv
<1>1. /\ mode \in Modes /\ session = [c \in Connections |-> Fresh]
      /\ ws = [c \in Connections |-> "none"] /\ items_ = {} /\ stopping_ = FALSE
      /\ is_open = TRUE /\ accepting = 1 /\ retrying = FALSE /\ acceptor = <<>>
      /\ launching = NoConnection /\ stops = 0 /\ stopper = "idle"
      /\ alive = {} /\ todo = {} /\ told = {}
  BY Zenon DEF Init, HttpInit
<1>2. SessionInv(Fresh) /\ Fresh.life = "none" /\ Fresh \in States
  BY FreshInv DEF SessionInv
<1>3. \A c \in Connections : session[c] = Fresh
  BY <1>1
<1>4. Sessions
  <2> HIDE DEF Fresh
  <2>1. session \in [Connections -> States] BY <1>1, <1>2
  <2>2. \A c \in Connections : SessionInv(session[c]) /\ Heard(c)
    BY <1>1, <1>2, <1>3 DEF Heard
  <2> QED BY <2>1, <2>2 DEF Sessions
<1>5. Registry
  BY <1>1, <1>2, <1>3 DEF Registry, StopMissesNone
<1>6. acceptor \in Seq(AcceptTasks) /\ AllIn(acceptor, {CloseTask})
  BY <1>1 DEF AllIn
<1>7. Loop
  BY <1>1, <1>6, Zenon DEF Loop
<1>8. 0 \in 0 .. MaxStops
  BY ListenerAssumption
<1>9. Typed
  BY <1>1, <1>6, <1>8 DEF Typed
<1> QED BY <1>4, <1>5, <1>7, <1>9 DEF IInv

\* Every step keeps it.
LEMMA NextInv ==
    ASSUME IInv, [Next]_vars
    PROVE  IInv'
<1>1. CASE UNCHANGED vars
  <2>1. /\ session' = session /\ items_' = items_ /\ is_open' = is_open /\ acceptVars' = acceptVars
        /\ acceptor' = acceptor /\ Others
    BY <1>1, Zenon DEF vars, httpVars, acceptVars, stopVars, Others
  <2>2. /\ Sessions /\ Registry /\ Loop /\ Typed
        /\ acceptor \in Seq(AcceptTasks) /\ items_ \subseteq Names /\ is_open \in BOOLEAN
    BY DEF IInv, Typed
  <2>3. Sessions' /\ Registry' BY <2>1, <2>2, AcceptorOnly
  <2>4. Loop' BY <2>1, <2>2, LoopSame
  <2>5. Typed' BY <2>1, <2>2, TypedKept
  <2> QED BY <2>3, <2>4, <2>5 DEF IInv
<1>2. ASSUME NEW c \in Connections, SessionStep(c) PROVE IInv'
  BY <1>2, SessionStepInv
<1>3. CASE \/ \E c \in Connections : Arrives(c)
           \/ \E res \in {"reset", "resources"} : AcceptFails(res)
           \/ RetryExpires
  BY <1>3, ArrivalsInv
<1>4. ASSUME NEW c \in Connections, Destroy(c) \/ WsEnds(c) PROVE IInv'
  BY <1>4, EndsKeep
<1>5. CASE AcceptorHandler
  BY <1>5, OnAcceptInv, LaunchKeeps, OnRetryInv, OnCloseInv DEF AcceptorHandler
<1>6. CASE Stop \/ Stopping
  BY <1>6, StopInv, TellHttpInv DEF Stopping
<1>7. CASE Terminated
  BY <1>1, <1>7 DEF Terminated
<1> QED BY <1>1, <1>2, <1>3, <1>4, <1>5, <1>6, <1>7 DEF Next

\* The inductive invariant holds in every behaviour.
LEMMA Invariant ==
    Spec => []IInv
<1>1. Init => IInv BY InitInv
<1>2. IInv /\ [Next]_vars => IInv' BY NextInv
<1> QED BY <1>1, <1>2, PTL DEF Spec

(***************************************************************************)
(* The theorems                                                            *)
(***************************************************************************)
\* The shapes the invariant allows, as the properties see them.
LEMMA SessionShapes ==
    ASSUME NEW r, SessionInv(r)
    PROVE  /\ r \in States
           /\ \/ /\ Quiet(r.strand) /\ r.response_queue_ = <<>> /\ r.late <= 1
                 /\ \/ r.ops = {} /\ r.swapping = FALSE
                    \/ r.ops = {} /\ r.swapping = TRUE
                    \/ (\E op : r.ops = {op}) /\ r.swapping = FALSE
              \/ /\ r.ops = {} /\ r.swapping = FALSE /\ r.late <= 1
                 /\ \E t \in Moving :
                       /\ Only(r.strand, t)
                       /\ r.response_queue_ # <<>> => t = Task("do_write", "ok")
                       /\ t.res = "aborted" => \/ t.op \in {"detect", "handshake", "linger"}
                                               \/ t.op = "header" /\ r.parser_ = "empty"
<1>1. r \in States
  BY DEF SessionInv
<1>2. \A op, res : Stage(r, op, res) => r.late <= 1
  BY DEF Stage
<1>3. CASE \E t \in Moving : Queued(r, t)
  <2>1. PICK t \in Moving : Queued(r, t) BY <1>3
  <2>2. /\ r.ops = {} /\ r.swapping = FALSE /\ Only(r.strand, t)
        /\ Stage(r, t.op, t.res)
    BY <2>1 DEF Queued
  <2>3. r.response_queue_ # <<>> => t = Task("do_write", "ok")
    BY <2>2, TaskFacts DEF Stage
  <2>4. t.res = "aborted" => \/ t.op \in {"detect", "handshake", "linger"}
                             \/ t.op = "header" /\ r.parser_ = "empty"
    BY <2>2 DEF Stage
  <2> QED BY <1>1, <1>2, <2>2, <2>3, <2>4
<1>4. CASE \E op \in Operations : Waiting(r, op)
  <2>1. PICK op \in Operations : Waiting(r, op) BY <1>4
  <2>2. op # "do_write" BY DEF Operations
  <2>3. r.ops = {op} /\ r.swapping = FALSE /\ Quiet(r.strand) /\ Stage(r, op, "pending")
    BY <2>1 DEF Waiting
  <2>4. r.response_queue_ = <<>> BY <2>2, <2>3 DEF Stage
  <2> QED BY <1>1, <1>2, <2>3, <2>4
<1>5. CASE Swapping(r)
  <2>1. r.ops = {} /\ r.swapping = TRUE /\ Quiet(r.strand) /\ Stage(r, "swap", "none")
    BY <1>5 DEF Swapping
  <2>2. r.response_queue_ = <<>> BY <2>1 DEF Stage
  <2> QED BY <1>1, <1>2, <2>1, <2>2
<1>6. CASE Resting(r) /\ (Stage(r, "on_run", "none") \/ Stage(r, "none", "none"))
  <2>1. r.ops = {} /\ r.swapping = FALSE /\ Quiet(r.strand)
    BY <1>6 DEF Resting
  <2>2. r.response_queue_ = <<>> BY <1>6 DEF Stage
  <2> QED BY <1>1, <1>2, <1>6, <2>1, <2>2
<1> QED BY <1>3, <1>4, <1>5, <1>6 DEF SessionInv

\* Every variable has its type, whatever the number of connections.
THEOREM TypeCorrect ==
    Spec => []TypeOK
<1>1. IInv => TypeOK
  <2> SUFFICES ASSUME IInv PROVE TypeOK OBVIOUS
  <2>1. session \in [Connections -> States]
    BY DEF IInv, Sessions
  <2>2. /\ mode \in Modes /\ ws \in [Connections -> {"none", "rejecting", "live", "gone"}]
        /\ stopping_ \in BOOLEAN /\ is_open \in BOOLEAN /\ acceptor \in Seq(AcceptTasks)
        /\ items_ \subseteq Names /\ stopper \in {"idle", "posted", "telling", "threw"}
        /\ todo \subseteq alive /\ alive \subseteq Names /\ told \subseteq Names
        /\ stops \in 0 .. MaxStops
    BY Zenon DEF IInv, Typed
  <2>3. /\ accepting = 0 \/ accepting = 1
        /\ retrying = TRUE \/ retrying = FALSE
        /\ launching = NoConnection \/ launching \in Connections
    BY Zenon DEF IInv, Loop
  <2>4. accepting \in 0 .. 1
    BY <2>3
  <2>5. retrying \in BOOLEAN /\ launching \in Connections \cup {NoConnection}
    BY <2>3, Zenon
  <2> QED BY <2>1, <2>2, <2>4, <2>5, Zenon DEF TypeOK, States
<1> QED BY <1>1, Invariant, PTL

\* What a strand holds besides on_stop(): nothing, or the one task it waits for.
LEMMA CarryingOne ==
    ASSUME NEW q \in Seq(Tasks)
    PROVE  LET P == {i \in DOMAIN q : q[i].op # "on_stop"} IN
           /\ Quiet(q) => P = {} /\ Cardinality(P) = 0
           /\ \A t \in Moving : Only(q, t) => /\ Cardinality(P) = 1
                                              /\ \A i \in P : q[i] = t
                                              /\ \E i \in P : q[i] = t
<1> DEFINE P == {i \in DOMAIN q : q[i] \in Moving}
<1>1. \A x \in Tasks : x \in {StopTask} <=> x \notin Moving
  BY TaskFacts
<1>2. /\ AllIn(q, {StopTask}) => P = {} /\ Cardinality(P) = 0
      /\ \A t \in Moving : OneBut(q, {StopTask}, t) => /\ Cardinality(P) = 1
                                                       /\ \A i \in P : q[i] = t
                                                       /\ \E i \in P : q[i] = t
  BY <1>1, CountOne
<1>3. \A i \in DOMAIN q : q[i].op # "on_stop" <=> q[i] \in Moving
  <2>1. \A i \in DOMAIN q : q[i] \in Tasks
    OBVIOUS
  <2>2. \A x \in Tasks : x.op # "on_stop" <=> x \in Moving
    BY TaskFacts
  <2> QED BY <2>1, <2>2, Zenon
<1>4. {i \in DOMAIN q : q[i].op # "on_stop"} = P
  BY <1>3, Zenon
<1> HIDE DEF P
<1> QED BY <1>2, <1>4 DEF Quiet, Only

\* An HTTP session is one chain of handlers, and a queued response has the task
\* that writes it: for any number of connections, whenever stop() comes.
THEOREM SessionsAreChains ==
    Spec => []OneContinuation
<1>1. IInv => OneContinuation
  <2> SUFFICES ASSUME IInv, NEW c \in Connections
               PROVE  /\ Cardinality(Carrying(c)) + Cardinality(session[c].ops)
                           + (IF session[c].swapping THEN 1 ELSE 0) <= 1
                      /\ session[c].response_queue_ # <<>> =>
                             \E i \in Carrying(c) : session[c].strand[i] = Task("do_write", "ok")
    BY DEF OneContinuation
  <2> DEFINE r == session[c]
             q == r.strand
             P == {i \in DOMAIN q : q[i].op # "on_stop"}
  <2>1. SessionInv(r)
    BY DEF IInv, Sessions
  <2>2. Carrying(c) = P
    BY DEF Carrying
  <2> HIDE DEF r
  <2>3. q \in Seq(Tasks)
    BY <2>1 DEF SessionInv, States
  <2> HIDE DEF q
  <2>4. /\ Quiet(q) => P = {} /\ Cardinality(P) = 0
        /\ \A t \in Moving : Only(q, t) => /\ Cardinality(P) = 1
                                           /\ \A i \in P : q[i] = t
                                           /\ \E i \in P : q[i] = t
    BY <2>3, CarryingOne
  <2> HIDE DEF P
  <2>5. Cardinality({}) = 0 /\ \A op : Cardinality({op}) = 1
    BY FS_EmptySet, FS_Singleton
  <2>6. CASE /\ Quiet(q) /\ r.response_queue_ = <<>>
             /\ \/ r.ops = {} /\ r.swapping = FALSE
                \/ r.ops = {} /\ r.swapping = TRUE
                \/ (\E op : r.ops = {op}) /\ r.swapping = FALSE
    <3>1. /\ Cardinality(P) = 0
          /\ \/ Cardinality(r.ops) = 0
             \/ Cardinality(r.ops) = 1 /\ r.swapping = FALSE
      BY <2>4, <2>5, <2>6
    <3> QED BY <2>2, <2>6, <3>1 DEF r
  <2>7. CASE /\ r.ops = {} /\ r.swapping = FALSE
             /\ \E t \in Moving :
                   Only(q, t) /\ (r.response_queue_ # <<>> => t = Task("do_write", "ok"))
    <3>1. Cardinality(P) = 1 /\ Cardinality(r.ops) = 0
      BY <2>4, <2>5, <2>7
    <3>2. r.response_queue_ # <<>> => \E i \in P : q[i] = Task("do_write", "ok")
      BY <2>4, <2>7
    <3> QED BY <2>2, <2>7, <3>1, <3>2 DEF r, q
  <2> QED BY <2>1, <2>6, <2>7, SessionShapes DEF q
<1> QED BY <1>1, Invariant, PTL

\* stop() never cuts a request that began to arrive, and at most one response is
\* written once it was called.
THEOREM RequestsAreSpared ==
    Spec => []StopSparesRequests
<1>1. IInv => StopSparesRequests
  <2> SUFFICES ASSUME IInv, NEW c \in Connections
               PROVE  /\ \A i \in DOMAIN session[c].strand :
                            LET t == session[c].strand[i]
                            IN  t.res = "aborted" =>
                                    \/ t.op \in {"detect", "handshake", "linger"}
                                    \/ t.op = "header" /\ session[c].parser_ = "empty"
                      /\ session[c].late <= 1
    BY DEF StopSparesRequests
  <2> DEFINE r == session[c]
             q == r.strand
  <2>1. SessionInv(r)
    BY DEF IInv, Sessions
  <2> HIDE DEF r
  <2>2. q \in Seq(Tasks)
    BY <2>1 DEF SessionInv, States
  <2> HIDE DEF q
  <2>3. DOMAIN q = 1 .. Len(q)
    BY <2>2
  <2>4. CASE Quiet(q)
    <3>1. \A i \in DOMAIN q : q[i].res = "ok"
      BY <2>3, <2>4, TaskFacts DEF Quiet, AllIn
    <3> QED BY <2>1, <3>1, SessionShapes DEF q, r
  <2>5. ASSUME NEW t \in Moving, Only(q, t),
               t.res = "aborted" => \/ t.op \in {"detect", "handshake", "linger"}
                                    \/ t.op = "header" /\ r.parser_ = "empty"
        PROVE  \A i \in DOMAIN q :
                   q[i].res = "aborted" => \/ q[i].op \in {"detect", "handshake", "linger"}
                                           \/ q[i].op = "header" /\ r.parser_ = "empty"
    <3>1. PICK k \in 1 .. Len(q) : q[k] = t /\ \A i \in 1 .. Len(q) : i # k => q[i] = StopTask
      BY <2>5 DEF Only, OneBut
    <3>2. \A i \in DOMAIN q : q[i] = t \/ q[i].res = "ok"
      BY <2>3, <3>1, TaskFacts
    <3> QED BY <2>5, <3>2
  <2> QED BY <2>1, <2>4, <2>5, SessionShapes DEF q, r
<1> QED BY <1>1, Invariant, PTL

\* stop() misses no session, also none that is accepted or upgraded while it runs.
THEOREM NoSessionEscapes ==
    Spec => []StopMissesNone
<1>1. IInv => StopMissesNone
  BY DEF IInv, Registry
<1> QED BY <1>1, Invariant, PTL

\* What the acceptor's strand holds besides the close: nothing, or one task.
LEMMA WaitingOne ==
    ASSUME NEW q \in Seq(AcceptTasks)
    PROVE  LET P == {i \in DOMAIN q : q[i].op # "close"} IN
           /\ AllIn(q, {CloseTask}) => Cardinality(P) = 0
           /\ \A t \in AcceptMoving : OneBut(q, {CloseTask}, t) => Cardinality(P) = 1
<1> DEFINE P == {i \in DOMAIN q : q[i] \in AcceptMoving}
<1>1. \A x \in AcceptTasks : x \in {CloseTask} <=> x \notin AcceptMoving
  BY AcceptFacts
<1>2. /\ AllIn(q, {CloseTask}) => P = {} /\ Cardinality(P) = 0
      /\ \A t \in AcceptMoving :
            OneBut(q, {CloseTask}, t) => /\ Cardinality(P) = 1
                                         /\ \A i \in P : q[i] = t
                                         /\ \E i \in P : q[i] = t
  BY <1>1, CountOne
<1>3. \A i \in DOMAIN q : q[i].op # "close" <=> q[i] \in AcceptMoving
  <2>1. \A i \in DOMAIN q : q[i] \in AcceptTasks
    OBVIOUS
  <2>2. \A x \in AcceptTasks : x.op # "close" <=> x \in AcceptMoving
    BY AcceptFacts
  <2> QED BY <2>1, <2>2, Zenon
<1>4. {i \in DOMAIN q : q[i].op # "close"} = P
  BY <1>3, Zenon
<1> HIDE DEF P
<1> QED BY <1>2, <1>4

\* The accept loop neither ends before stop() nor doubles.
THEOREM AcceptingGoesOn ==
    Spec => []AcceptLoop
<1>1. IInv => AcceptLoop
  <2> SUFFICES ASSUME IInv PROVE AcceptLoop OBVIOUS
  <2> DEFINE q == acceptor
             P == {i \in DOMAIN q : q[i].op # "close"}
  <2>1. q \in Seq(AcceptTasks) /\ Loop
    BY DEF IInv, Typed
  <2>2. /\ AllIn(q, {CloseTask}) => Cardinality(P) = 0
        /\ \A t \in AcceptMoving : OneBut(q, {CloseTask}, t) => Cardinality(P) = 1
    BY <2>1, WaitingOne
  <2>5. AcceptLoop = (LET loop == accepting + (IF retrying THEN 1 ELSE 0) + Cardinality(P)
                                  + (IF launching # NoConnection THEN 1 ELSE 0)
                      IN  /\ is_open => loop = 1
                          /\ ~is_open => accepting = 0 /\ ~retrying)
    BY DEF AcceptLoop
  <2>6. \/ /\ accepting = 1 /\ retrying = FALSE /\ launching = NoConnection /\ is_open = TRUE
           /\ Cardinality(P) = 0
        \/ /\ accepting = 0 /\ retrying = TRUE /\ launching = NoConnection /\ is_open = TRUE
           /\ Cardinality(P) = 0
        \/ /\ accepting = 0 /\ retrying = FALSE /\ launching = NoConnection
           /\ Cardinality(P) = 1
        \/ /\ accepting = 0 /\ retrying = FALSE /\ launching # NoConnection /\ is_open = TRUE
           /\ Cardinality(P) = 0
        \/ accepting = 0 /\ retrying = FALSE /\ is_open = FALSE
    <3>1. launching \in Connections => launching # NoConnection
      BY ListenerAssumption
    <3> HIDE DEF P, q
    <3> QED BY <2>1, <2>2, <3>1, Zenon DEF Loop, q
  <2> HIDE DEF P
  <2> QED BY <2>5, <2>6
<1> QED BY <1>1, Invariant, PTL

\* Once stop() returned and the strand is empty, no session that answered a
\* request waits for another.
THEOREM KeptAliveAreClosed ==
    Spec => []KeepAliveClosed
<1>1. IInv => KeepAliveClosed
  <2> SUFFICES ASSUME IInv, NEW c \in Connections, Settled(c), session[c].answered, Idle(c)
               PROVE  FALSE
    BY DEF KeepAliveClosed
  <2> DEFINE r == session[c]
  <2>1. SessionInv(r) /\ Heard(c) /\ r \in States
    BY DEF IInv, Sessions
  <2>2. /\ stopping_ /\ stopper = "idle" /\ r.life = "live" /\ r.strand = <<>> /\ ~r.swapping
        /\ r.answered /\ r.waiting_ /\ r.parser_ # "some"
    BY DEF Settled, Idle
  <2>3. <<c, "http">> \in told /\ stopping_ = TRUE
    <3>1. stopping_ \in BOOLEAN BY DEF IInv, Typed
    <3>2. Registry BY DEF IInv
    <3>3. <<c, "http">> \in items_ /\ todo = {} /\ items_ \subseteq todo \cup told
      BY <2>2, <3>1, <3>2 DEF Registry, StopMissesNone
    <3> QED BY <2>2, <3>1, <3>3
  <2>4. r.answered = TRUE /\ Silent(r) /\ r.swapping = FALSE
    BY <2>1, <2>2 DEF Silent, States
  <2>5. Hears(r)
    BY <2>1, <2>3 DEF Heard
  <2> HIDE DEF r
  <2>6. r.ops = {}
    BY <2>2, <2>4, <2>5 DEF Hears
  <2>7. \A t : ~Only(r.strand, t)
    BY <2>2 DEF Only, OneBut
  <2>8. Stage(r, "none", "none")
    BY <2>1, <2>2, <2>4, <2>6, <2>7 DEF SessionInv, Waiting, Queued, Swapping
  <2> QED BY <2>4, <2>8 DEF Stage
<1> QED BY <1>1, Invariant, PTL
=============================================================================
