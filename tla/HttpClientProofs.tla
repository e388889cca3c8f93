-------------------------- MODULE HttpClientProofs --------------------------
(***************************************************************************)
(* Proofs about HttpClient, for any number of calls and of connections     *)
(* kept alive: no call is forgotten or driven twice, no request is         *)
(* repeated that must not be, and every response is that of its own        *)
(* request.                                                                *)
(***************************************************************************)
EXTENDS HttpClient, SeqLemmas

(***************************************************************************)
(* The inductive invariant.  A call that runs waits for one operation, or  *)
(* for one task on its strand among any number of aborts.  What it was     *)
(* sent, is owed and has read depends on which: Stage.                     *)
(***************************************************************************)
AbortTask == Task("abort", "none")

Args == {"none", "ok", "error", "more", "done", "keep", "close", "final"}

\* The tasks that take a call further
Moving == [op : Ops \cup {"begin", "refuse"}, arg : Args]

Tasks == Moving \cup {AbortTask}

States ==
    [at : {"unused", "registered", "refused", "running", "callback", "done"},
     method : {"get", "post", "bad_url"},
     strand : Seq(Tasks), ops : SUBSET Ops, deadline : BOOLEAN, conn : Links \cup {NoConn},
     reused : BOOLEAN, retried : BOOLEAN, got : BOOLEAN, aborted : BOOLEAN,
     result : {"none", "error", "response"}, sent : Nat, from : SUBSET Calls]

\* The strand holds aborts only, or one other task
Quiet(q) == AllIn(q, {AbortTask})
Only(q, t) == OneBut(q, {AbortTask}, t)

\* The whole request went out, and its answer came in
Written(op, arg) == op = "read" \/ (op = "write" /\ arg = "done")
Read(op, arg) == op = "read" /\ arg \in {"keep", "close"}

\* Complete requests of the attempt before this one
Tried(s) == IF s.retried = TRUE /\ idempotent(s.method) THEN 1 ELSE 0

Limit(s) == IF idempotent(s.method) THEN 2 ELSE 1

Unstarted(s) ==
    /\ s.result = "none" /\ s.conn = NoConn /\ s.sent = 0 /\ s.from = {}
    /\ s.retried = FALSE

\* Operation op is outstanding ("pending"), or ended with arg
Stage(c, s, op, arg) ==
    /\ op \in {"begin", "refuse"} => Unstarted(s)
    /\ op = "resolve" => s.conn = NoConn
    /\ op \in {"connect", "tls", "write", "read"} =>
           /\ s.conn \in Links
           /\ s.conn.owed = IF Written(op, arg) /\ ~Read(op, arg) THEN <<c>> ELSE <<>>
           /\ s.aborted = FALSE => s.conn.open = TRUE
    /\ s.from = IF Read(op, arg) THEN {c} ELSE {}
    /\ s.sent <= Tried(s) + IF Written(op, arg) THEN 1 ELSE 0

\* The deadline ends the call, if nothing else does
Bounded(s) ==
    \/ s.deadline = TRUE
    \/ s.aborted = TRUE
    \/ \E i \in 1 .. Len(s.strand) : s.strand[i] = AbortTask

Typed(c, s) == s \in States /\ s.method \in Requests[c] \cup {"get"}

Resting(s) == s.ops = {} /\ Quiet(s.strand)

Waiting(c, s, op) ==
    /\ s.ops = {op} /\ Quiet(s.strand)
    /\ Stage(c, s, op, "pending") /\ Bounded(s)

Queued(c, s, t) ==
    /\ s.ops = {} /\ Only(s.strand, t)
    /\ Stage(c, s, t.op, t.arg)
    /\ t.op \in Ops => Bounded(s)

Finished(c, s) ==
    /\ s.result # "none"
    /\ s.sent <= Limit(s)
    /\ s.from \subseteq {c}
    /\ s.result = "response" => s.from = {c}

CallInv(c, s) ==
    /\ Typed(c, s)
    /\ \/ s.at \in {"unused", "registered", "refused"} /\ Resting(s) /\ Unstarted(s)
       \/ s.at = "running" /\ s.result = "none" /\ \E op \in Ops : Waiting(c, s, op)
       \/ s.at = "running" /\ s.result = "none" /\ \E t \in Moving : Queued(c, s, t)
       \/ s.at \in {"callback", "done"} /\ Resting(s) /\ Finished(c, s)

Usable == {l \in Links : l.open = TRUE /\ l.owed = <<>>}

Kept ==
    /\ idle \in Seq(Usable)
    /\ Len(idle) <= max_idle_per_host
    /\ closed = TRUE => idle = <<>>

Client ==
    /\ tls \in BOOLEAN /\ closed \in BOOLEAN
    /\ destroyer \in {"none", "aborting", "joining", "done"}
    /\ in_flight \subseteq Calls

IInv ==
    /\ DOMAIN call = Calls
    /\ \A c \in Calls : CallInv(c, call[c])
    /\ Kept
    /\ Client

(***************************************************************************)
(* The strand                                                              *)
(***************************************************************************)
\* An abort and another task are told apart by op.
LEMMA TaskFacts ==
    /\ AbortTask \in Tasks /\ AbortTask.op = "abort"
    /\ \A t \in Moving : t \in Tasks /\ t.op # "abort" /\ t # AbortTask
    /\ \A t \in Tasks : t.op # "abort" => t \in Moving
    /\ \A t \in Tasks : t.op = "abort" => t = AbortTask
    /\ \A op \in Ops \cup {"begin", "refuse"}, arg \in Args :
          Task(op, arg) \in Moving /\ Task(op, arg).op = op /\ Task(op, arg).arg = arg
<1>1. AbortTask \in Tasks /\ AbortTask.op = "abort"
  BY DEF Tasks, AbortTask, Task
<1>2. \A t \in Moving : t \in Tasks /\ t.op # "abort"
  BY DEF Tasks, Moving, Ops
<1>3. \A op \in Ops \cup {"begin", "refuse"}, arg \in Args :
          Task(op, arg) \in Moving /\ Task(op, arg).op = op /\ Task(op, arg).arg = arg
  BY DEF Task, Moving
<1>4. \A t \in Tasks : t \in Moving \/ t = AbortTask
  BY DEF Tasks
<1> QED BY <1>1, <1>2, <1>3, <1>4

\* An abort is posted, or another task behind aborts.
LEMMA PostAbort ==
    ASSUME NEW q \in Seq(Tasks)
    PROVE  /\ Append(q, AbortTask) \in Seq(Tasks)
           /\ Quiet(q) => Quiet(Append(q, AbortTask))
           /\ \A t : Only(q, t) => Only(Append(q, AbortTask), t)
           /\ \E i \in 1 .. Len(Append(q, AbortTask)) : Append(q, AbortTask)[i] = AbortTask
<1>1. AbortTask \in Tasks /\ AbortTask \in {AbortTask}
  BY TaskFacts
<1> QED BY <1>1, PostAside, SMTT(30) DEF Quiet, Only

\* A task that takes the call further is posted.
LEMMA PostTask ==
    ASSUME NEW q \in Seq(Tasks), Quiet(q), NEW t \in Moving
    PROVE  /\ Append(q, t) \in Seq(Tasks)
           /\ Only(Append(q, t), t)
           /\ (\E i \in 1 .. Len(q) : q[i] = AbortTask)
                  => \E i \in 1 .. Len(Append(q, t)) : Append(q, t)[i] = AbortTask
<1>1. t \in Tasks
  BY TaskFacts
<1>2. Append(q, t) \in Seq(Tasks) /\ Only(Append(q, t), t)
  BY <1>1, PostMain DEF Quiet, Only
<1>3. \A i \in 1 .. Len(q) : i \in 1 .. Len(Append(q, t)) /\ Append(q, t)[i] = q[i]
  BY <1>1
<1> QED BY <1>2, <1>3

\* The first task is taken.
LEMMA PopTask ==
    ASSUME NEW q \in Seq(Tasks), q # <<>>
    PROVE  /\ Tail(q) \in Seq(Tasks)
           /\ Quiet(q) => Head(q) = AbortTask /\ Quiet(Tail(q))
           /\ \A t \in Moving : Only(q, t) =>
                 IF Head(q) = AbortTask THEN Only(Tail(q), t)
                 ELSE /\ Head(q) = t /\ Quiet(Tail(q))
                      /\ (\E i \in 1 .. Len(q) : q[i] = AbortTask) =>
                            \E i \in 1 .. Len(Tail(q)) : Tail(q)[i] = AbortTask
<1> DEFINE A == {AbortTask}
<1>1. \A x : x \in A <=> x = AbortTask
  OBVIOUS
<1>2. \A t \in Moving : t \notin A
  BY TaskFacts
<1> HIDE DEF A
<1>3. /\ Tail(q) \in Seq(Tasks)
      /\ AllIn(q, A) => Head(q) \in A /\ AllIn(Tail(q), A)
      /\ \A t : t \notin A /\ OneBut(q, A, t) =>
            IF Head(q) \in A THEN OneBut(Tail(q), A, t)
            ELSE Head(q) = t /\ AllIn(Tail(q), A)
  BY PopOne
<1>4. ASSUME Head(q) # AbortTask, NEW i \in 1 .. Len(q), q[i] = AbortTask
      PROVE  \E j \in 1 .. Len(Tail(q)) : Tail(q)[j] = AbortTask
  <2>1. /\ Len(q) \in Nat \ {0} /\ Len(Tail(q)) = Len(q) - 1 /\ Head(q) = q[1]
        /\ \A j \in 1 .. Len(q) - 1 : Tail(q)[j] = q[j + 1]
    OBVIOUS
  <2>2. i # 1 BY <1>4, <2>1
  <2>3. i - 1 \in 1 .. Len(Tail(q)) /\ Tail(q)[i - 1] = q[i] BY <2>1, <2>2
  <2> QED BY <1>4, <2>3
<1>5. Quiet(q) => Head(q) = AbortTask /\ Quiet(Tail(q))
  BY <1>1, <1>3 DEF Quiet, A
<1>6. ASSUME NEW t \in Moving, Only(q, t)
      PROVE  IF Head(q) = AbortTask THEN Only(Tail(q), t) ELSE Head(q) = t /\ Quiet(Tail(q))
  BY <1>1, <1>2, <1>3, <1>6 DEF Quiet, Only, A
<1> QED BY <1>3, <1>4, <1>5, <1>6

(***************************************************************************)
(* One call                                                                *)
(***************************************************************************)
Pop(s) == [s EXCEPT !.strand = Tail(@)]

\* A call with an operation outstanding waits for that one.
LEMMA WaitsFor ==
    ASSUME NEW c \in Calls, NEW s, CallInv(c, s), NEW op \in s.ops
    PROVE  /\ op \in Ops /\ s.at = "running" /\ s.result = "none" /\ s \in States
           /\ Waiting(c, s, op)
<1>1. s \in States /\ op \in Ops
  BY DEF CallInv, Typed, States
<1>2. s.ops # {} OBVIOUS
<1>3. s.at = "running" /\ s.result = "none" /\ \E o \in Ops : Waiting(c, s, o)
  BY <1>2 DEF CallInv, Resting, Queued
<1>4. PICK o \in Ops : Waiting(c, s, o) BY <1>3
<1>5. o = op BY <1>4 DEF Waiting
<1> QED BY <1>1, <1>3, <1>4, <1>5

\* A task that is no abort is the one the call waits for.
LEMMA RunsTask ==
    ASSUME NEW c \in Calls, NEW s, CallInv(c, s), s.strand # <<>>, Head(s.strand).op # "abort"
    PROVE  LET t == Head(s.strand) IN
           /\ s \in States /\ s.at = "running" /\ s.result = "none" /\ s.ops = {}
           /\ t \in Moving /\ t.op \in Ops \cup {"begin", "refuse"} /\ t.arg \in Args
           /\ Stage(c, s, t.op, t.arg)
           /\ t.op \in Ops => Bounded(s)
           /\ Tail(s.strand) \in Seq(Tasks) /\ Quiet(Tail(s.strand))
           /\ (\E i \in 1 .. Len(s.strand) : s.strand[i] = AbortTask) =>
                 \E i \in 1 .. Len(Tail(s.strand)) : Tail(s.strand)[i] = AbortTask
<1> DEFINE q == s.strand
           t == Head(q)
<1>1. s \in States /\ q \in Seq(Tasks) /\ q # <<>>
  BY DEF CallInv, Typed, States
<1> HIDE DEF q, t
<1>2. t # AbortTask
  BY TaskFacts DEF t, q
<1>3. ~Quiet(q)
  BY <1>1, <1>2, PopTask DEF t
<1>4. s.at = "running" /\ s.result = "none" /\ \E m \in Moving : Queued(c, s, m)
  BY <1>3 DEF CallInv, Resting, Waiting, q
<1>5. PICK m \in Moving : Queued(c, s, m) BY <1>4
<1>6. Only(q, m) /\ s.ops = {} BY <1>5 DEF Queued, q
<1>7. /\ t = m /\ Tail(q) \in Seq(Tasks) /\ Quiet(Tail(q))
      /\ (\E i \in 1 .. Len(q) : q[i] = AbortTask) =>
            \E i \in 1 .. Len(Tail(q)) : Tail(q)[i] = AbortTask
  BY <1>1, <1>2, <1>6, PopTask DEF t
<1>8. t \in Moving /\ Stage(c, s, t.op, t.arg) /\ (t.op \in Ops => Bounded(s))
  BY <1>5, <1>7 DEF Queued
<1>9. t.op \in Ops \cup {"begin", "refuse"} /\ t.arg \in Args
  BY <1>8 DEF Moving
<1> QED BY <1>1, <1>4, <1>6, <1>7, <1>8, <1>9 DEF q, t

\* The operation ends, and its handler is queued.
LEMMA EndsInv ==
    ASSUME NEW c \in Calls, NEW s, CallInv(c, s), NEW op \in s.ops, NEW arg \in Args,
           NEW r \in States,
           r.at = s.at, r.method = s.method, r.result = s.result,
           r.ops = s.ops \ {op}, r.strand = Append(s.strand, Task(op, arg)),
           r.deadline = s.deadline, r.aborted = s.aborted,
           Stage(c, r, op, arg)
    PROVE  CallInv(c, r)
<1> DEFINE t == Task(op, arg)
<1>1. /\ op \in Ops /\ s.at = "running" /\ s.result = "none" /\ s \in States
      /\ s.ops = {op} /\ Quiet(s.strand) /\ Bounded(s)
  BY WaitsFor DEF Waiting
<1>2. t \in Moving /\ t.op = op /\ t.arg = arg
  BY <1>1, TaskFacts
<1>3. s.strand \in Seq(Tasks)
  BY <1>1 DEF States
<1> HIDE DEF t
<1>4. /\ Only(r.strand, t)
      /\ (\E i \in 1 .. Len(s.strand) : s.strand[i] = AbortTask)
             => \E i \in 1 .. Len(r.strand) : r.strand[i] = AbortTask
  BY <1>1, <1>2, <1>3, PostTask DEF t
<1>5. Bounded(r)
  BY <1>1, <1>4 DEF Bounded
<1>6. r.ops = {}
  BY <1>1
<1>7. Queued(c, r, t)
  BY <1>2, <1>4, <1>5, <1>6 DEF Queued
<1>8. Typed(c, r)
  BY DEF CallInv, Typed
<1> QED BY <1>1, <1>2, <1>7, <1>8 DEF CallInv

\* A handler starts the next operation.
LEMMA NextOpInv ==
    ASSUME NEW c \in Calls, NEW s, CallInv(c, s), s.strand # <<>>, Head(s.strand).op # "abort",
           NEW op \in Ops, NEW r \in States,
           r.at = s.at, r.method = s.method, r.result = s.result,
           r.ops = s.ops \cup {op}, r.strand = Tail(s.strand),
           \/ r.deadline = TRUE
           \/ r.deadline = s.deadline /\ r.aborted = s.aborted /\ Head(s.strand).op \in Ops,
           Stage(c, r, op, "pending")
    PROVE  CallInv(c, r)
<1>1. /\ s.at = "running" /\ s.result = "none" /\ s.ops = {}
      /\ Head(s.strand).op \in Ops => Bounded(s)
      /\ Quiet(r.strand)
      /\ (\E i \in 1 .. Len(s.strand) : s.strand[i] = AbortTask) =>
            \E i \in 1 .. Len(r.strand) : r.strand[i] = AbortTask
  BY RunsTask
<1>2. Bounded(r)
  BY <1>1 DEF Bounded
<1>3. r.ops = {op}
  BY <1>1
<1>4. Waiting(c, r, op)
  BY <1>1, <1>2, <1>3 DEF Waiting
<1>5. Typed(c, r)
  BY DEF CallInv, Typed
<1> QED BY <1>1, <1>4, <1>5 DEF CallInv

\* finish().
LEMMA FinishInv ==
    ASSUME NEW c \in Calls, NEW s, CallInv(c, s), s.strand # <<>>, Head(s.strand).op # "abort",
           NEW result \in {"error", "response"}, result = "response" => s.from = {c}
    PROVE  CallInv(c, finish(Pop(s), result))
<1> DEFINE r == finish(Pop(s), result)
           t == Head(s.strand)
<1>1. /\ s \in States /\ s.at = "running" /\ s.result = "none" /\ s.ops = {}
      /\ Stage(c, s, t.op, t.arg)
      /\ Tail(s.strand) \in Seq(Tasks) /\ Quiet(Tail(s.strand))
  BY RunsTask
<1>2. Pop(s).result = "none" /\ Pop(s).method = s.method /\ Pop(s).strand = Tail(s.strand)
      /\ Pop(s).ops = s.ops /\ Pop(s).sent = s.sent /\ Pop(s).from = s.from
  BY <1>1 DEF Pop, States
<1>3. r = [Fresh EXCEPT !.at = "callback", !.result = result, !.method = s.method,
                        !.strand = Tail(s.strand), !.ops = s.ops, !.sent = s.sent,
                        !.from = s.from]
  BY <1>2 DEF finish
<1> HIDE DEF r, t
<1>4. r \in States
  BY <1>1, <1>3 DEF Fresh, States
<1>5. /\ r.at = "callback" /\ r.result = result /\ r.method = s.method
      /\ r.strand = Tail(s.strand) /\ r.ops = {} /\ r.sent = s.sent /\ r.from = s.from
  BY <1>1, <1>3 DEF Fresh
<1>6. s.sent <= Limit(s)
  <2>1. s.sent \in Nat /\ s.sent <= Tried(s) + IF Written(t.op, t.arg) THEN 1 ELSE 0
    BY <1>1 DEF Stage, States
  <2> QED BY <2>1 DEF Tried, Limit
<1>7. r.sent <= Limit(r)
  BY <1>5, <1>6 DEF Limit
<1>8. s.from \subseteq {c}
  BY <1>1 DEF Stage
<1>9. Finished(c, r)
  BY <1>5, <1>7, <1>8 DEF Finished
<1>10. Typed(c, r)
  BY <1>4, <1>5 DEF CallInv, Typed
<1> QED BY <1>1, <1>5, <1>9, <1>10 DEF CallInv, Resting, r

\* An abort is posted: by cancel(), by ~HttpClient() or when the deadline passed.
LEMMA PostAbortInv ==
    ASSUME NEW c \in Calls, NEW s, CallInv(c, s), NEW d \in BOOLEAN
    PROVE  CallInv(c, Post([s EXCEPT !.deadline = d], AbortTask))
<1> DEFINE r == Post([s EXCEPT !.deadline = d], AbortTask)
<1>1. s \in States /\ s.strand \in Seq(Tasks)
  BY DEF CallInv, Typed, States
<1>2. /\ Append(s.strand, AbortTask) \in Seq(Tasks)
      /\ Quiet(s.strand) => Quiet(Append(s.strand, AbortTask))
      /\ \A t : Only(s.strand, t) => Only(Append(s.strand, AbortTask), t)
      /\ \E i \in 1 .. Len(Append(s.strand, AbortTask)) :
            Append(s.strand, AbortTask)[i] = AbortTask
  BY <1>1, PostAbort
<1>3. /\ r \in States /\ r.strand = Append(s.strand, AbortTask)
      /\ r.at = s.at /\ r.method = s.method /\ r.ops = s.ops /\ r.conn = s.conn
      /\ r.retried = s.retried /\ r.aborted = s.aborted /\ r.result = s.result
      /\ r.sent = s.sent /\ r.from = s.from
  BY <1>1, <1>2 DEF Post, States
<1> HIDE DEF r
<1>4. Bounded(r)
  BY <1>2, <1>3 DEF Bounded
<1>5. Unstarted(s) => Unstarted(r)
  BY <1>3 DEF Unstarted
<1>6. \A op, arg : Stage(c, s, op, arg) => Stage(c, r, op, arg)
  BY <1>3, <1>5 DEF Stage, Tried
<1>7. Typed(c, r)
  BY <1>3 DEF CallInv, Typed
<1>8. Resting(s) => Resting(r)
  BY <1>2, <1>3 DEF Resting
<1>9. \A op : Waiting(c, s, op) => Waiting(c, r, op)
  BY <1>2, <1>3, <1>4, <1>6 DEF Waiting
<1>10. \A t : Queued(c, s, t) => Queued(c, r, t)
  BY <1>2, <1>3, <1>4, <1>6 DEF Queued
<1>11. Finished(c, s) => Finished(c, r)
  BY <1>3 DEF Finished, Limit
<1> QED BY <1>3, <1>5, <1>7, <1>8, <1>9, <1>10, <1>11 DEF CallInv, r

\* abort(), also of a call that is finished or was aborted before.
LEMMA AbortInv ==
    ASSUME NEW c \in Calls, NEW s, CallInv(c, s), s.strand # <<>>, Head(s.strand).op = "abort"
    PROVE  CallInv(c, abort(Pop(s)))
<1> DEFINE r == abort(Pop(s))
           q == s.strand
<1>1. s \in States /\ q \in Seq(Tasks) /\ Head(q) = AbortTask
  <2>1. s \in States /\ q \in Seq(Tasks)
    BY DEF CallInv, Typed, States
  <2>2. Head(q) \in Tasks
    <3> HIDE DEF q
    <3> QED BY <2>1 DEF q
  <2> QED BY <2>1, <2>2, TaskFacts
<1> HIDE DEF q
<1>2. /\ Tail(q) \in Seq(Tasks)
      /\ Quiet(q) => Quiet(Tail(q))
      /\ \A t \in Moving : Only(q, t) => Only(Tail(q), t)
  BY <1>1, PopTask DEF q
<1>3. /\ r \in States /\ r.strand = Tail(q)
      /\ r.at = s.at /\ r.method = s.method /\ r.ops = s.ops
      /\ r.retried = s.retried /\ r.result = s.result
      /\ r.sent = s.sent /\ r.from = s.from
      /\ s.result = "none" => r.aborted = TRUE
      /\ s.conn = NoConn => r.conn = NoConn
      /\ s.conn \in Links => r.conn \in Links /\ r.conn.owed = s.conn.owed
  <2> DEFINE p == Pop(s)
  <2>1. /\ p \in States /\ p.strand = Tail(q)
        /\ p.at = s.at /\ p.method = s.method /\ p.ops = s.ops
        /\ p.retried = s.retried /\ p.result = s.result
        /\ p.sent = s.sent /\ p.from = s.from
        /\ p.conn = s.conn /\ p.aborted = s.aborted
    BY <1>1, <1>2 DEF Pop, States, q
  <2>2. r = IF p.result # "none" \/ p.aborted THEN p
            ELSE [p EXCEPT !.aborted = TRUE,
                           !.conn = IF @ = NoConn THEN NoConn ELSE [@ EXCEPT !.open = FALSE]]
    BY DEF abort
  <2> HIDE DEF p, r
  <2>3. CASE p.result # "none" \/ p.aborted
    <3>1. r = p BY <2>2, <2>3
    <3>2. s.result = "none" => p.aborted = TRUE BY <2>1, <2>3 DEF States
    <3> QED BY <2>1, <3>1, <3>2
  <2>4. CASE ~(p.result # "none" \/ p.aborted)
    <3> DEFINE l == IF p.conn = NoConn THEN NoConn ELSE [p.conn EXCEPT !.open = FALSE]
    <3>1. r = [p EXCEPT !.aborted = TRUE, !.conn = l]
      BY <2>2, <2>4
    <3>2. l \in Links \cup {NoConn} /\ (p.conn = NoConn => l = NoConn)
      BY <2>1 DEF States, Links
    <3>3. p.conn \in Links => l \in Links /\ l.owed = p.conn.owed
      BY HttpClientAssumption DEF Links
    <3> HIDE DEF l
    <3>4. /\ r \in States /\ r.strand = p.strand
          /\ r.at = p.at /\ r.method = p.method /\ r.ops = p.ops
          /\ r.retried = p.retried /\ r.result = p.result
          /\ r.sent = p.sent /\ r.from = p.from /\ r.aborted = TRUE /\ r.conn = l
      BY <2>1, <3>1, <3>2 DEF States
    <3> QED BY <2>1, <3>2, <3>3, <3>4
  <2> QED BY <2>3, <2>4
<1> HIDE DEF r
<1>4. s.result = "none" => Bounded(r)
  BY <1>3 DEF Bounded
<1>5. Unstarted(s) => Unstarted(r)
  BY <1>3 DEF Unstarted
<1>6. \A op, arg : s.result = "none" /\ Stage(c, s, op, arg) => Stage(c, r, op, arg)
  BY <1>3, <1>5 DEF Stage, Tried
<1>7. Typed(c, r)
  BY <1>3 DEF CallInv, Typed
<1>8. Resting(s) => Resting(r)
  BY <1>2, <1>3 DEF Resting, q
<1>9. \A op : s.result = "none" /\ Waiting(c, s, op) => Waiting(c, r, op)
  BY <1>2, <1>3, <1>4, <1>6 DEF Waiting, q
<1>10. \A t \in Moving : s.result = "none" /\ Queued(c, s, t) => Queued(c, r, t)
  BY <1>2, <1>3, <1>4, <1>6 DEF Queued, q
<1>11. Finished(c, s) => Finished(c, r)
  BY <1>3 DEF Finished, Limit
<1> QED BY <1>3, <1>5, <1>7, <1>8, <1>9, <1>10, <1>11 DEF CallInv, r

(***************************************************************************)
(* The network                                                             *)
(***************************************************************************)
\* The fields of a call whose operation ended.
LEMMA CompletedFields ==
    ASSUME NEW s \in States, NEW op \in Ops, NEW arg \in Args
    PROVE  LET r == Completed(s, op, arg) IN
           /\ r \in States
           /\ r.ops = s.ops \ {op} /\ r.strand = Append(s.strand, Task(op, arg))
           /\ r.at = s.at /\ r.method = s.method /\ r.result = s.result
           /\ r.deadline = s.deadline /\ r.aborted = s.aborted /\ r.conn = s.conn
           /\ r.retried = s.retried /\ r.sent = s.sent /\ r.from = s.from
<1>1. Task(op, arg) \in Tasks
  BY TaskFacts
<1>2. s.strand \in Seq(Tasks)
  BY DEF States
<1>3. Append(s.strand, Task(op, arg)) \in Seq(Tasks)
  BY <1>1, <1>2
<1> QED BY <1>3 DEF Completed, Post, States

\* Ends that neither finish the request nor its answer.
LEMMA CompletedInv ==
    ASSUME NEW c \in Calls, NEW s, CallInv(c, s), NEW op \in s.ops, NEW arg \in Args,
           op = "write" => arg # "done",
           op = "read" => arg \notin {"keep", "close"}
    PROVE  /\ CallInv(c, Completed(s, op, arg))
           /\ CallInv(c, [Completed(s, op, arg) EXCEPT !.got = TRUE])
<1>1. op \in Ops /\ s \in States /\ Stage(c, s, op, "pending")
  BY WaitsFor DEF Waiting
<1>2. /\ Written(op, arg) = Written(op, "pending")
      /\ ~Read(op, arg) /\ ~Read(op, "pending")
  BY DEF Written, Read
<1>3. ASSUME NEW r \in States,
             r.ops = s.ops \ {op}, r.strand = Append(s.strand, Task(op, arg)),
             r.at = s.at, r.method = s.method, r.result = s.result,
             r.deadline = s.deadline, r.aborted = s.aborted, r.conn = s.conn,
             r.retried = s.retried, r.sent = s.sent, r.from = s.from
      PROVE  CallInv(c, r)
  <2>1. Stage(c, r, op, arg)
    BY <1>1, <1>2, <1>3 DEF Stage, Tried, Unstarted
  <2> QED BY <1>3, <2>1, EndsInv
<1> DEFINE p == Completed(s, op, arg)
           g == [p EXCEPT !.got = TRUE]
<1>4. /\ p \in States /\ p.ops = s.ops \ {op} /\ p.strand = Append(s.strand, Task(op, arg))
      /\ p.at = s.at /\ p.method = s.method /\ p.result = s.result
      /\ p.deadline = s.deadline /\ p.aborted = s.aborted /\ p.conn = s.conn
      /\ p.retried = s.retried /\ p.sent = s.sent /\ p.from = s.from
  BY <1>1, CompletedFields
<1> HIDE DEF p
<1>5. /\ g \in States /\ g.ops = p.ops /\ g.strand = p.strand
      /\ g.at = p.at /\ g.method = p.method /\ g.result = p.result
      /\ g.deadline = p.deadline /\ g.aborted = p.aborted /\ g.conn = p.conn
      /\ g.retried = p.retried /\ g.sent = p.sent /\ g.from = p.from
  BY <1>4 DEF States
<1> HIDE DEF g
<1>6. CallInv(c, p)
  BY <1>3, <1>4
<1>7. CallInv(c, g)
  BY <1>3, <1>4, <1>5
<1> QED BY <1>6, <1>7 DEF p, g

\* The rest of the request is written.
LEMMA WriteRestInv ==
    ASSUME NEW c \in Calls, NEW s, CallInv(c, s), "write" \in s.ops
    PROVE  CallInv(c, [Completed(s, "write", "done") EXCEPT
                          !.sent = @ + 1, !.conn.owed = Append(@, c)])
<1> DEFINE p == Completed(s, "write", "done")
           r == [p EXCEPT !.sent = @ + 1, !.conn.owed = Append(@, c)]
<1>1. s \in States /\ Stage(c, s, "write", "pending") /\ "write" \in Ops /\ "done" \in Args
  BY WaitsFor DEF Waiting, Args
<1>2. /\ p \in States /\ p.ops = s.ops \ {"write"}
      /\ p.strand = Append(s.strand, Task("write", "done"))
      /\ p.at = s.at /\ p.method = s.method /\ p.result = s.result
      /\ p.deadline = s.deadline /\ p.aborted = s.aborted /\ p.conn = s.conn
      /\ p.retried = s.retried /\ p.sent = s.sent /\ p.from = s.from
  BY <1>1, CompletedFields
<1>3. /\ s.conn \in Links /\ s.conn.owed = <<>> /\ (s.aborted = FALSE => s.conn.open = TRUE)
      /\ s.from = {} /\ s.sent <= Tried(s) /\ s.sent \in Nat
  BY <1>1 DEF Stage, Written, Read, States, Tried
<1> HIDE DEF p
<1> DEFINE l == [p.conn EXCEPT !.owed = Append(@, c)]
<1>4. l \in Links /\ l.owed = <<c>> /\ l.open = p.conn.open
  <2>1. Append(<<>>, c) = <<c>> /\ <<c>> \in Seq(Calls)
    OBVIOUS
  <2>2. l = [s.conn EXCEPT !.owed = <<c>>]
    BY <1>2, <1>3, <2>1 DEF Links
  <2> HIDE DEF l
  <2> QED BY <1>2, <1>3, <2>1, <2>2 DEF Links
<1>5. r = [p EXCEPT !.sent = p.sent + 1, !.conn = l]
  BY <1>2 DEF States
<1> HIDE DEF l, r
<1>6. /\ r \in States /\ r.ops = p.ops /\ r.strand = p.strand
      /\ r.at = p.at /\ r.method = p.method /\ r.result = p.result
      /\ r.deadline = p.deadline /\ r.aborted = p.aborted /\ r.conn = l
      /\ r.retried = p.retried /\ r.sent = p.sent + 1 /\ r.from = p.from
  <2>1. p.sent + 1 \in Nat BY <1>2, <1>3
  <2> QED BY <1>2, <1>4, <1>5, <2>1 DEF States
<1>7. Written("write", "done") /\ ~Read("write", "done")
  BY DEF Written, Read
<1>8. r.sent <= Tried(r) + 1
  <2>1. Tried(r) = Tried(s) /\ Tried(s) \in Nat BY <1>2, <1>6 DEF Tried
  <2> QED BY <1>2, <1>3, <1>6, <2>1
<1>9. Stage(c, r, "write", "done")
  BY <1>2, <1>3, <1>4, <1>6, <1>7, <1>8 DEF Stage
<1>10. CallInv(c, r)
  BY <1>1, <1>2, <1>6, <1>9, EndsInv
<1> QED BY <1>10 DEF r, p

\* The rest of the answer is read.
LEMMA ReadRestInv ==
    ASSUME NEW c \in Calls, NEW s, CallInv(c, s), "read" \in s.ops, NEW arg \in {"keep", "close"}
    PROVE  CallInv(c, [Completed(s, "read", arg) EXCEPT
                          !.got = TRUE, !.conn.owed = Tail(@), !.from = {Head(s.conn.owed)}])
<1> DEFINE p == Completed(s, "read", arg)
           r == [p EXCEPT !.got = TRUE, !.conn.owed = Tail(@), !.from = {Head(s.conn.owed)}]
<1>1. s \in States /\ Stage(c, s, "read", "pending") /\ "read" \in Ops /\ arg \in Args
  BY WaitsFor DEF Waiting, Args
<1>2. /\ p \in States /\ p.ops = s.ops \ {"read"}
      /\ p.strand = Append(s.strand, Task("read", arg))
      /\ p.at = s.at /\ p.method = s.method /\ p.result = s.result
      /\ p.deadline = s.deadline /\ p.aborted = s.aborted /\ p.conn = s.conn
      /\ p.retried = s.retried /\ p.sent = s.sent /\ p.from = s.from
  BY <1>1, CompletedFields
<1>3. /\ s.conn \in Links /\ s.conn.owed = <<c>> /\ (s.aborted = FALSE => s.conn.open = TRUE)
      /\ s.sent <= Tried(s) + 1
  BY <1>1 DEF Stage, Written, Read
<1>4. Head(<<c>>) = c /\ Tail(<<c>>) = <<>>
  OBVIOUS
<1> HIDE DEF p
<1> DEFINE l == [p.conn EXCEPT !.owed = Tail(@)]
<1>5. l \in Links /\ l.owed = <<>> /\ l.open = p.conn.open
  <2>1. <<>> \in Seq(Calls)
    OBVIOUS
  <2>2. l = [s.conn EXCEPT !.owed = <<>>]
    BY <1>2, <1>3, <1>4 DEF Links
  <2> HIDE DEF l
  <2> QED BY <1>2, <1>3, <2>1, <2>2 DEF Links
<1>6. r = [p EXCEPT !.got = TRUE, !.conn = l, !.from = {c}]
  BY <1>2, <1>3, <1>4 DEF States
<1> HIDE DEF l, r
<1>7. /\ r \in States /\ r.ops = p.ops /\ r.strand = p.strand
      /\ r.at = p.at /\ r.method = p.method /\ r.result = p.result
      /\ r.deadline = p.deadline /\ r.aborted = p.aborted /\ r.conn = l
      /\ r.retried = p.retried /\ r.sent = p.sent /\ r.from = {c}
  BY <1>2, <1>5, <1>6 DEF States
<1>8. Written("read", arg) /\ Read("read", arg)
  BY DEF Written, Read
<1>9. Tried(r) = Tried(s)
  BY <1>2, <1>7 DEF Tried
<1>10. Stage(c, r, "read", arg)
  BY <1>2, <1>3, <1>5, <1>7, <1>8, <1>9 DEF Stage
<1>11. CallInv(c, r)
  BY <1>1, <1>2, <1>7, <1>10, EndsInv
<1> QED BY <1>11 DEF r, p

\* The server closes the connection.
LEMMA PeerInv ==
    ASSUME NEW c \in Calls, NEW s, CallInv(c, s), s.ops \cap {"write", "read"} # {}
    PROVE  CallInv(c, [s EXCEPT !.conn.peer = FALSE])
<1> DEFINE r == [s EXCEPT !.conn.peer = FALSE]
           l == [s.conn EXCEPT !.peer = FALSE]
<1>1. PICK op \in s.ops : op \in {"write", "read"}
  OBVIOUS
<1>2. /\ op \in Ops /\ s.at = "running" /\ s.result = "none" /\ s \in States
      /\ s.ops = {op} /\ Quiet(s.strand) /\ Stage(c, s, op, "pending") /\ Bounded(s)
  BY WaitsFor DEF Waiting
<1>3. s.conn \in Links
  BY <1>1, <1>2 DEF Stage
<1>4. l \in Links /\ l.owed = s.conn.owed /\ l.open = s.conn.open
  BY <1>3 DEF Links
<1>5. r = [s EXCEPT !.conn = l]
  BY <1>2 DEF States
<1> HIDE DEF l, r
<1>6. /\ r \in States /\ r.ops = s.ops /\ r.strand = s.strand
      /\ r.at = s.at /\ r.method = s.method /\ r.result = s.result
      /\ r.deadline = s.deadline /\ r.aborted = s.aborted /\ r.conn = l
      /\ r.retried = s.retried /\ r.sent = s.sent /\ r.from = s.from
  BY <1>2, <1>4, <1>5 DEF States
<1>7. Stage(c, r, op, "pending")
  BY <1>1, <1>2, <1>4, <1>6 DEF Stage, Tried
<1>8. Waiting(c, r, op)
  BY <1>2, <1>6, <1>7 DEF Waiting, Bounded
<1>9. Typed(c, r)
  BY <1>6 DEF CallInv, Typed
<1> QED BY <1>2, <1>6, <1>8, <1>9 DEF CallInv, r

(***************************************************************************)
(* The handlers                                                            *)
(***************************************************************************)
\* A task is taken off the strand, and nothing else.
LEMMA PopFields ==
    ASSUME NEW s \in States, s.strand # <<>>
    PROVE  LET p == Pop(s) IN
           /\ p \in States /\ p.strand = Tail(s.strand)
           /\ p.at = s.at /\ p.method = s.method /\ p.result = s.result /\ p.ops = s.ops
           /\ p.deadline = s.deadline /\ p.aborted = s.aborted /\ p.conn = s.conn
           /\ p.reused = s.reused /\ p.retried = s.retried /\ p.got = s.got
           /\ p.sent = s.sent /\ p.from = s.from
<1>1. s.strand \in Seq(Tasks)
  BY DEF States
<1>2. Tail(s.strand) \in Seq(Tasks)
  BY <1>1, PopTask
<1> QED BY <1>2 DEF Pop, States

\* A handler leaves the call as p and starts op.
LEMMA BeginsInv ==
    ASSUME NEW c \in Calls, NEW s, CallInv(c, s), s.strand # <<>>, Head(s.strand).op # "abort",
           NEW op \in Ops, NEW p \in States,
           p.at = s.at, p.method = s.method, p.result = s.result,
           p.ops = s.ops, p.strand = Tail(s.strand),
           \/ p.deadline = TRUE
           \/ p.deadline = s.deadline /\ p.aborted = s.aborted /\ Head(s.strand).op \in Ops,
           Stage(c, p, op, "pending")
    PROVE  CallInv(c, Begins(p, op))
<1> DEFINE r == Begins(p, op)
<1>1. /\ r \in States /\ r.ops = p.ops \cup {op} /\ r.strand = p.strand
      /\ r.at = p.at /\ r.method = p.method /\ r.result = p.result
      /\ r.deadline = p.deadline /\ r.aborted = p.aborted /\ r.conn = p.conn
      /\ r.retried = p.retried /\ r.sent = p.sent /\ r.from = p.from
  BY DEF Begins, States
<1> HIDE DEF r
<1>2. Stage(c, r, op, "pending")
  BY <1>1 DEF Stage, Tried, Unstarted
<1>3. CallInv(c, r)
  BY <1>1, <1>2, NextOpInv
<1> QED BY <1>3 DEF r

\* The first operation of a call.
LEMMA BeginNewInv ==
    ASSUME NEW c \in Calls, NEW s, CallInv(c, s), s.strand # <<>>, Head(s.strand).op = "begin"
    PROVE  CallInv(c, resolve(start(Pop(s))))
<1> DEFINE p == start(Pop(s))
<1>1. s \in States /\ Unstarted(s)
  BY RunsTask DEF Stage
<1>2. /\ p \in States /\ p.strand = Tail(s.strand)
      /\ p.at = s.at /\ p.method = s.method /\ p.result = s.result /\ p.ops = s.ops
      /\ p.deadline = TRUE /\ p.aborted = s.aborted /\ p.conn = s.conn
      /\ p.retried = s.retried /\ p.sent = s.sent /\ p.from = s.from
  <2> DEFINE x == Pop(s)
  <2>1. /\ x \in States /\ x.strand = Tail(s.strand)
        /\ x.at = s.at /\ x.method = s.method /\ x.result = s.result /\ x.ops = s.ops
        /\ x.aborted = s.aborted /\ x.conn = s.conn
        /\ x.retried = s.retried /\ x.sent = s.sent /\ x.from = s.from
    BY <1>1, PopFields
  <2> HIDE DEF x
  <2>2. p = [x EXCEPT !.deadline = TRUE]
    BY DEF x, start
  <2> HIDE DEF p
  <2> QED BY <2>1, <2>2 DEF States
<1> HIDE DEF p
<1>3. Stage(c, p, "resolve", "pending") /\ "resolve" \in Ops
  BY <1>1, <1>2 DEF Stage, Unstarted, Tried, Written, Read, Ops
<1>4. CallInv(c, Begins(p, "resolve"))
  BY <1>2, <1>3, BeginsInv
<1> QED BY <1>4 DEF p, resolve

\* ... on a connection that was kept alive.
LEMMA BeginReusedInv ==
    ASSUME NEW c \in Calls, NEW s, CallInv(c, s), s.strand # <<>>, Head(s.strand).op = "begin",
           NEW l \in Usable
    PROVE  CallInv(c, Begins([start(Pop(s)) EXCEPT !.conn = l, !.reused = TRUE], "write"))
<1> DEFINE p == [start(Pop(s)) EXCEPT !.conn = l, !.reused = TRUE]
<1>1. s \in States /\ Unstarted(s)
  BY RunsTask DEF Stage
<1>2. /\ p \in States /\ p.strand = Tail(s.strand)
      /\ p.at = s.at /\ p.method = s.method /\ p.result = s.result /\ p.ops = s.ops
      /\ p.deadline = TRUE /\ p.aborted = s.aborted /\ p.conn = l
      /\ p.retried = s.retried /\ p.sent = s.sent /\ p.from = s.from
  <2> DEFINE x == Pop(s)
  <2>1. /\ x \in States /\ x.strand = Tail(s.strand)
        /\ x.at = s.at /\ x.method = s.method /\ x.result = s.result /\ x.ops = s.ops
        /\ x.aborted = s.aborted
        /\ x.retried = s.retried /\ x.sent = s.sent /\ x.from = s.from
    BY <1>1, PopFields
  <2> HIDE DEF x
  <2>2. p = [x EXCEPT !.deadline = TRUE, !.conn = l, !.reused = TRUE]
    BY <2>1 DEF x, start
  <2>3. l \in Links BY DEF Usable
  <2> HIDE DEF p
  <2> QED BY <2>1, <2>2, <2>3 DEF States
<1> HIDE DEF p
<1>3. Stage(c, p, "write", "pending") /\ "write" \in Ops
  BY <1>1, <1>2 DEF Stage, Unstarted, Tried, Written, Read, Ops, Usable
<1>4. CallInv(c, Begins(p, "write"))
  BY <1>2, <1>3, BeginsInv
<1> QED BY <1>4 DEF p

\* The operation after one that ended well, on the same connection.
LEMMA OnwardInv ==
    ASSUME NEW c \in Calls, NEW s, CallInv(c, s), s.strand # <<>>,
           NEW op \in {"tls", "write", "read"},
           LET t == Head(s.strand) IN
               \/ t.op \in {"connect", "tls"} /\ op \in {"tls", "write"}
               \/ t.op = "write" /\ t.arg = "more" /\ op = "write"
               \/ t.op = "write" /\ t.arg = "done" /\ op = "read"
               \/ t.op = "read" /\ t.arg = "more" /\ op = "read"
    PROVE  /\ CallInv(c, Begins(Pop(s), op))
           /\ CallInv(c, Begins([Pop(s) EXCEPT !.got = FALSE], op))
<1> DEFINE t == Head(s.strand)
           p == Pop(s)
           g == [p EXCEPT !.got = FALSE]
<1>1. t.op \in {"connect", "tls", "write", "read"} /\ t.op # "abort" /\ t.op \in Ops /\ op \in Ops
  BY DEF Ops
<1>2. s \in States /\ Stage(c, s, t.op, t.arg)
  BY <1>1, RunsTask
<1>3. /\ Written(t.op, t.arg) = Written(op, "pending")
      /\ ~Read(t.op, t.arg) /\ ~Read(op, "pending")
  BY DEF Written, Read
<1>4. Stage(c, s, op, "pending")
  BY <1>1, <1>2, <1>3 DEF Stage
<1>5. /\ p \in States /\ p.strand = Tail(s.strand)
      /\ p.at = s.at /\ p.method = s.method /\ p.result = s.result /\ p.ops = s.ops
      /\ p.deadline = s.deadline /\ p.aborted = s.aborted /\ p.conn = s.conn
      /\ p.retried = s.retried /\ p.sent = s.sent /\ p.from = s.from
  BY <1>2, PopFields
<1> HIDE DEF p
<1>6. /\ g \in States /\ g.strand = p.strand
      /\ g.at = p.at /\ g.method = p.method /\ g.result = p.result /\ g.ops = p.ops
      /\ g.deadline = p.deadline /\ g.aborted = p.aborted /\ g.conn = p.conn
      /\ g.retried = p.retried /\ g.sent = p.sent /\ g.from = p.from
  BY <1>5 DEF States
<1> HIDE DEF g
<1>7. Stage(c, p, op, "pending") /\ Stage(c, g, op, "pending")
  BY <1>4, <1>5, <1>6 DEF Stage, Tried, Unstarted
<1>8. CallInv(c, Begins(p, op))
  BY <1>1, <1>5, <1>7, BeginsInv
<1>9. CallInv(c, Begins(g, op))
  BY <1>1, <1>5, <1>6, <1>7, BeginsInv
<1> QED BY <1>8, <1>9 DEF p, g

\* onResolve() opens a connection of its own.
LEMMA ConnectInv ==
    ASSUME NEW c \in Calls, NEW s, CallInv(c, s), s.strand # <<>>, Head(s.strand).op = "resolve"
    PROVE  CallInv(c, Begins([Pop(s) EXCEPT
                                 !.conn = [open |-> TRUE, peer |-> TRUE, owed |-> <<>>]],
                             "connect"))
<1> DEFINE l == [open |-> TRUE, peer |-> TRUE, owed |-> <<>>]
           x == Pop(s)
           p == [x EXCEPT !.conn = l]
           t == Head(s.strand)
<1>1. s \in States /\ Stage(c, s, "resolve", t.arg) /\ "resolve" \in Ops /\ "connect" \in Ops
  BY RunsTask DEF Ops
<1>2. l \in Links /\ l.open = TRUE /\ l.owed = <<>>
  BY DEF Links
<1>3. /\ x \in States /\ x.strand = Tail(s.strand)
      /\ x.at = s.at /\ x.method = s.method /\ x.result = s.result /\ x.ops = s.ops
      /\ x.deadline = s.deadline /\ x.aborted = s.aborted
      /\ x.retried = s.retried /\ x.sent = s.sent /\ x.from = s.from
  BY <1>1, PopFields
<1> HIDE DEF x, l
<1>4. /\ p \in States /\ p.strand = x.strand
      /\ p.at = x.at /\ p.method = x.method /\ p.result = x.result /\ p.ops = x.ops
      /\ p.deadline = x.deadline /\ p.aborted = x.aborted /\ p.conn = l
      /\ p.retried = x.retried /\ p.sent = x.sent /\ p.from = x.from
  BY <1>2, <1>3 DEF States
<1> HIDE DEF p
<1>5. Stage(c, p, "connect", "pending")
  BY <1>1, <1>2, <1>3, <1>4 DEF Stage, Tried, Written, Read
<1>6. CallInv(c, Begins(p, "connect"))
  BY <1>1, <1>3, <1>4, <1>5, BeginsInv
<1> QED BY <1>6 DEF p, x, l

\* fail(): once more on a new connection, or the end of the call.
LEMMA FailInv ==
    ASSUME NEW c \in Calls, NEW s, CallInv(c, s), s.strand # <<>>,
           Head(s.strand).op \in Ops, Head(s.strand).arg \in {"error", "final"}
    PROVE  CallInv(c, fail(Pop(s), Head(s.strand).arg, Head(s.strand).op = "write"))
<1> DEFINE t == Head(s.strand)
           x == Pop(s)
           r == fail(x, t.arg, t.op = "write")
           p == [x EXCEPT !.retried = TRUE, !.reused = FALSE, !.conn = NoConn]
<1>1. t.op # "abort" /\ "resolve" \in Ops
  BY DEF Ops
<1>2. s \in States /\ Stage(c, s, t.op, t.arg)
  BY <1>1, RunsTask
<1>3. /\ x \in States /\ x.strand = Tail(s.strand)
      /\ x.at = s.at /\ x.method = s.method /\ x.result = s.result /\ x.ops = s.ops
      /\ x.deadline = s.deadline /\ x.aborted = s.aborted
      /\ x.retried = s.retried /\ x.sent = s.sent /\ x.from = s.from
  BY <1>2, PopFields
<1>4. \/ r = finish(x, "error")
      \/ r = Begins(p, "resolve") /\ retryable(x, t.op = "write")
  BY DEF fail, retry, resolve
<1>5. CASE r = finish(x, "error")
  BY <1>1, <1>5, FinishInv
<1>6. CASE r = Begins(p, "resolve") /\ retryable(x, t.op = "write")
  <2>1. x.retried = FALSE /\ (idempotent(x.method) \/ t.op = "write")
    BY <1>3, <1>6 DEF retryable, States
  <2> HIDE DEF x, r
  <2>2. /\ p \in States /\ p.strand = x.strand
        /\ p.at = x.at /\ p.method = x.method /\ p.result = x.result /\ p.ops = x.ops
        /\ p.deadline = x.deadline /\ p.aborted = x.aborted /\ p.conn = NoConn
        /\ p.retried = TRUE /\ p.sent = x.sent /\ p.from = x.from
    BY <1>3 DEF States
  <2> HIDE DEF p
  <2>3. ~Read(t.op, t.arg) /\ (t.op = "write" => ~Written(t.op, t.arg))
    BY DEF Read, Written
  <2>4. s.from = {} /\ s.sent \in Nat /\ s.sent <= Tried(p)
    <3>1. Tried(s) = 0 BY <1>3, <2>1 DEF Tried
    <3>2. s.sent \in Nat /\ s.sent <= IF Written(t.op, t.arg) THEN 1 ELSE 0
      BY <1>2, <3>1 DEF Stage, States
    <3>3. idempotent(x.method) => Tried(p) = 1 BY <2>2 DEF Tried
    <3>4. Tried(p) \in {0, 1} BY DEF Tried
    <3>5. s.from = {} BY <1>2, <2>3 DEF Stage
    <3> QED BY <2>1, <2>3, <3>2, <3>3, <3>4, <3>5
  <2>5. Stage(c, p, "resolve", "pending")
    BY <1>3, <2>2, <2>4 DEF Stage, Written, Read, Tried
  <2>6. CallInv(c, Begins(p, "resolve"))
    BY <1>1, <1>3, <2>2, <2>5, BeginsInv, ZenonT(30)
  <2> QED BY <1>6, <2>6 DEF r, x
<1> QED BY <1>4, <1>5, <1>6

(***************************************************************************)
(* The steps of the client                                                 *)
(***************************************************************************)
CallsOK == DOMAIN call = Calls /\ \A c \in Calls : CallInv(c, call[c])

\* A step of one call leaves the others alone.
LEMMA UpdateKeeps ==
    ASSUME CallsOK, NEW c \in Calls, NEW r, Update(c, r), CallInv(c, r)
    PROVE  CallsOK'
<1>1. DOMAIN call' = Calls /\ call'[c] = r /\ \A d \in Calls : d # c => call'[d] = call[d]
  BY DEF CallsOK, Update
<1>2. ASSUME NEW d \in Calls PROVE CallInv(d, call'[d])
  <2>1. CASE d = c BY <1>1, <2>1
  <2>2. CASE d # c BY <1>1, <2>2 DEF CallsOK
  <2> QED BY <2>1, <2>2
<1> QED BY <1>1, <1>2 DEF CallsOK

\* A call that has not begun.
LEMMA FreshInv == \A c \in Calls : CallInv(c, Fresh)
<1>1. <<>> \in Seq(Tasks) /\ Len(<<>>) = 0
  OBVIOUS
<1>2. Fresh \in States
  BY <1>1 DEF Fresh, States
<1>3. Fresh.at = "unused" /\ Fresh.method = "get" /\ Resting(Fresh) /\ Unstarted(Fresh)
  BY <1>1 DEF Fresh, Resting, Quiet, AllIn, Unstarted
<1> QED BY <1>2, <1>3 DEF CallInv, Typed

\* Before the first call.
LEMMA IInvInit == Init => IInv
<1> SUFFICES ASSUME Init PROVE IInv
  OBVIOUS
<1>1. DOMAIN call = Calls /\ \A c \in Calls : CallInv(c, call[c])
  BY FreshInv DEF Init
<1>2. Kept
  BY HttpClientAssumption DEF Init, Kept
<1>3. Client
  BY HttpClientAssumption DEF Init, Client
<1> QED BY <1>1, <1>2, <1>3 DEF IInv

\* What the network does to a call.
LEMMA NetworkKeeps ==
    ASSUME CallsOK, NEW c \in Calls, Network(c)
    PROVE  CallsOK' /\ NetworkFrame
<1> DEFINE s == call[c]
<1>0. CallInv(c, s) /\ s \in States
  BY DEF CallsOK, CallInv, Typed
<1>1. ASSUME NEW arg \in {"ok", "error"}, ResolveEnds(c, arg)
      PROVE  CallsOK' /\ NetworkFrame
  <2>1. "resolve" \in s.ops /\ arg \in Args /\ Update(c, Completed(s, "resolve", arg)) /\ NetworkFrame
    BY <1>1 DEF ResolveEnds, Args
  <2>2. CallInv(c, Completed(s, "resolve", arg))
    BY <1>0, <2>1, CompletedInv
  <2> QED BY <2>1, <2>2, UpdateKeeps
<1>2. ASSUME NEW op \in {"connect", "tls"}, ConnectOk(c, op) \/ ConnectFails(c, op)
      PROVE  CallsOK' /\ NetworkFrame
  <2>1. PICK arg \in {"ok", "error"} : /\ op \in s.ops
                                       /\ Update(c, Completed(s, op, arg)) /\ NetworkFrame
    BY <1>2 DEF ConnectOk, ConnectFails
  <2>2. arg \in Args BY DEF Args
  <2>3. CallInv(c, Completed(s, op, arg))
    BY <1>0, <2>1, <2>2, CompletedInv
  <2> QED BY <2>1, <2>3, UpdateKeeps
<1>3. ASSUME WriteSome(c) \/ WriteFails(c) PROVE CallsOK' /\ NetworkFrame
  <2>1. PICK arg \in {"more", "error"} : /\ "write" \in s.ops
                                         /\ Update(c, Completed(s, "write", arg)) /\ NetworkFrame
    BY <1>3 DEF WriteSome, WriteFails
  <2>2. arg \in Args BY DEF Args
  <2>3. CallInv(c, Completed(s, "write", arg))
    BY <1>0, <2>1, <2>2, CompletedInv
  <2> QED BY <2>1, <2>3, UpdateKeeps
<1>4. ASSUME WriteRest(c) PROVE CallsOK' /\ NetworkFrame
  <2> DEFINE r == [Completed(s, "write", "done") EXCEPT !.sent = @ + 1, !.conn.owed = Append(@, c)]
  <2>1. "write" \in s.ops /\ Update(c, r) /\ NetworkFrame
    BY <1>4, Zenon DEF WriteRest
  <2>2. CallInv(c, r)
    BY <1>0, <2>1, WriteRestInv, Zenon
  <2> HIDE DEF r
  <2> QED BY <2>1, <2>2, UpdateKeeps
<1>5. ASSUME NEW arg \in {"keep", "close"}, ReadRest(c, arg) PROVE CallsOK' /\ NetworkFrame
  <2> DEFINE r == [Completed(s, "read", arg) EXCEPT
                      !.got = TRUE, !.conn.owed = Tail(@), !.from = {Head(s.conn.owed)}]
  <2>1. "read" \in s.ops /\ Update(c, r) /\ NetworkFrame
    BY <1>5, Zenon DEF ReadRest, Answering
  <2>2. CallInv(c, r)
    BY <1>0, <2>1, ReadRestInv, Zenon
  <2> HIDE DEF r
  <2> QED BY <2>1, <2>2, UpdateKeeps
<1>6. ASSUME (\E arg \in {"error", "final"} : ReadRefused(c, arg)) \/ ReadSome(c)
      PROVE  CallsOK' /\ NetworkFrame
  <2>1. PICK arg \in {"error", "final", "more"} :
              /\ "read" \in s.ops
              /\ Update(c, [Completed(s, "read", arg) EXCEPT !.got = TRUE]) /\ NetworkFrame
    BY <1>6, Zenon DEF ReadRefused, ReadSome, Answering
  <2>2. arg \in Args BY DEF Args
  <2>3. CallInv(c, [Completed(s, "read", arg) EXCEPT !.got = TRUE])
    BY <1>0, <2>1, <2>2, CompletedInv
  <2> QED BY <2>1, <2>3, UpdateKeeps, Zenon
<1>7. ASSUME ReadFails(c) PROVE CallsOK' /\ NetworkFrame
  <2>1. "read" \in s.ops /\ Update(c, Completed(s, "read", "error")) /\ NetworkFrame
        /\ "error" \in Args
    BY <1>7 DEF ReadFails, Args
  <2>2. CallInv(c, Completed(s, "read", "error"))
    BY <1>0, <2>1, CompletedInv
  <2> QED BY <2>1, <2>2, UpdateKeeps
<1>8. ASSUME PeerCloses(c) PROVE CallsOK' /\ NetworkFrame
  <2>1. /\ s.ops \cap {"write", "read"} # {} /\ Update(c, [s EXCEPT !.conn.peer = FALSE])
        /\ NetworkFrame
    BY <1>8, Zenon DEF PeerCloses
  <2>2. CallInv(c, [s EXCEPT !.conn.peer = FALSE])
    BY <1>0, <2>1, PeerInv, Zenon
  <2> QED BY <2>1, <2>2, UpdateKeeps, Zenon
<1>9. ASSUME DeadlinePasses(c) PROVE CallsOK' /\ NetworkFrame
  <2>1. Update(c, Post([s EXCEPT !.deadline = FALSE], AbortTask)) /\ NetworkFrame
    BY <1>9, Zenon DEF DeadlinePasses, AbortTask
  <2>2. CallInv(c, Post([s EXCEPT !.deadline = FALSE], AbortTask))
    BY <1>0, PostAbortInv
  <2> QED BY <2>1, <2>2, UpdateKeeps, Zenon
<1> QED BY <1>1, <1>2, <1>3, <1>4, <1>5, <1>6, <1>7, <1>8, <1>9 DEF Network

\* takeIdle() of the list of kept alive connections.
LEMMA TakeKept ==
    ASSUME Kept, idle # <<>>
    PROVE  /\ Last(idle) \in Usable /\ Front(idle) \in Seq(Usable)
           /\ Len(Front(idle)) <= max_idle_per_host /\ closed # TRUE
<1>1. idle \in Seq(Usable) /\ Len(idle) \in Nat /\ max_idle_per_host \in Nat
  BY HttpClientAssumption DEF Kept
<1>2. Last(idle) \in Usable /\ Front(idle) \in Seq(Usable) /\ Len(Front(idle)) = Len(idle) - 1
  BY <1>1, FrontFacts
<1>3. Len(idle) <= max_idle_per_host /\ closed # TRUE
  BY DEF Kept
<1>4. Len(Front(idle)) <= max_idle_per_host
  BY <1>1, <1>2, <1>3
<1> QED BY <1>2, <1>3, <1>4, Zenon

\* putIdle().
LEMMA PutKept ==
    ASSUME Kept, Client, NEW l \in Usable, putIdle(l), UNCHANGED closed
    PROVE  Kept'
<1>1. idle \in Seq(Usable) /\ Len(idle) \in Nat /\ max_idle_per_host \in Nat
  BY HttpClientAssumption DEF Kept
<1>2. CASE idle' = idle
  BY <1>2 DEF Kept
<1>3. CASE idle' = Append(idle, l) /\ ~closed /\ ~(Len(idle) >= max_idle_per_host)
  <2>1. Append(idle, l) \in Seq(Usable) /\ Len(Append(idle, l)) = Len(idle) + 1
    BY <1>1
  <2> QED BY <1>1, <1>3, <2>1 DEF Kept
<1> QED BY <1>2, <1>3 DEF putIdle

\* What a handler does to its call.
LEMMA HandlerKeeps ==
    ASSUME CallsOK, Kept, Client, NEW c \in Calls, Handlers(c)
    PROVE  CallsOK' /\ Kept' /\ UNCHANGED <<tls, closed, destroyer, in_flight>>
<1> DEFINE s == call[c]
           t == Head(s.strand)
           Frame == UNCHANGED <<tls, closed, destroyer, in_flight>>
<1>0. CallInv(c, s) /\ s \in States
  BY DEF CallsOK, CallInv, Typed
<1>k. UNCHANGED <<idle, closed>> => Kept'
  BY DEF Kept
<1>1. ASSUME BeginBadUrl(c) \/ Refuse(c) PROVE CallsOK' /\ Kept' /\ Frame
  <2>1. /\ s.strand # <<>> /\ t.op \in {"begin", "refuse"}
        /\ Update(c, finish(Pop(s), "error")) /\ UNCHANGED idle /\ Frame
    BY <1>1, Zenon DEF BeginBadUrl, Refuse, Runs, Popped, Pop
  <2>2. CallInv(c, finish(Pop(s), "error"))
    BY <1>0, <2>1, FinishInv
  <2> QED BY <1>k, <2>1, <2>2, UpdateKeeps
<1>2. ASSUME BeginNew(c) PROVE CallsOK' /\ Kept' /\ Frame
  <2>1. /\ s.strand # <<>> /\ t.op = "begin"
        /\ Update(c, resolve(start(Pop(s)))) /\ idle' = <<>> /\ Frame
    BY <1>2, Zenon DEF BeginNew, Runs, Popped, Pop
  <2>2. CallInv(c, resolve(start(Pop(s))))
    BY <1>0, <2>1, BeginNewInv
  <2>3. Kept'
    BY <2>1, HttpClientAssumption DEF Kept
  <2> QED BY <2>1, <2>2, <2>3, UpdateKeeps
<1>3. ASSUME BeginReused(c) PROVE CallsOK' /\ Kept' /\ Frame
  <2> DEFINE r == Begins([start(Pop(s)) EXCEPT !.conn = Last(idle), !.reused = TRUE], "write")
  <2>1. /\ s.strand # <<>> /\ t.op = "begin" /\ idle # <<>>
        /\ Update(c, r) /\ idle' = Front(idle) /\ Frame
    BY <1>3, Zenon DEF BeginReused, Runs, Popped, Pop
  <2>2. /\ Last(idle) \in Usable /\ Front(idle) \in Seq(Usable)
        /\ Len(Front(idle)) <= max_idle_per_host /\ closed # TRUE
    BY <2>1, TakeKept
  <2>3. CallInv(c, r)
    BY <1>0, <2>1, <2>2, BeginReusedInv
  <2>4. Kept'
    BY <2>1, <2>2 DEF Kept
  <2> HIDE DEF r
  <2> QED BY <2>1, <2>3, <2>4, UpdateKeeps
<1>4. ASSUME Abort(c) PROVE CallsOK' /\ Kept' /\ Frame
  <2>1. /\ s.strand # <<>> /\ t.op = "abort"
        /\ Update(c, abort(Pop(s))) /\ UNCHANGED idle /\ Frame
    BY <1>4, Zenon DEF Abort, Runs, Popped, Pop
  <2>2. CallInv(c, abort(Pop(s)))
    BY <1>0, <2>1, AbortInv
  <2> QED BY <1>k, <2>1, <2>2, UpdateKeeps
<1>5. ASSUME NEW op \in Ops, OnFailed(c, op) PROVE CallsOK' /\ Kept' /\ Frame
  <2>1. /\ s.strand # <<>> /\ t.op = op /\ t.arg \in {"error", "final"}
        /\ Update(c, fail(Pop(s), t.arg, op = "write")) /\ UNCHANGED idle /\ Frame
    BY <1>5, Zenon DEF OnFailed, Runs, Popped, Pop, Arg
  <2>2. CallInv(c, fail(Pop(s), t.arg, op = "write"))
    BY <1>0, <2>1, FailInv
  <2> QED BY <1>k, <2>1, <2>2, UpdateKeeps
<1>6. ASSUME OnResolve(c) PROVE CallsOK' /\ Kept' /\ Frame
  <2> DEFINE r == Begins([Pop(s) EXCEPT !.conn = [open |-> TRUE, peer |-> TRUE, owed |-> <<>>]],
                         "connect")
  <2>1. /\ s.strand # <<>> /\ t.op = "resolve" /\ UNCHANGED idle /\ Frame
        /\ Update(c, IF s.aborted THEN finish(Pop(s), "error") ELSE r)
    BY <1>6, Zenon DEF OnResolve, Runs, Popped, Pop
  <2>2. CallInv(c, finish(Pop(s), "error"))
    BY <1>0, <2>1, FinishInv
  <2>3. CallInv(c, r)
    BY <1>0, <2>1, ConnectInv
  <2> HIDE DEF r
  <2>4. CallInv(c, IF s.aborted THEN finish(Pop(s), "error") ELSE r)
    BY <2>2, <2>3
  <2> QED BY <1>k, <2>1, <2>4, UpdateKeeps
<1>7. ASSUME OnConnect(c) \/ OnTls(c) PROVE CallsOK' /\ Kept' /\ Frame
  <2>1. PICK op \in {"tls", "write"} :
            /\ s.strand # <<>> /\ t.op \in {"connect", "tls"}
            /\ Update(c, Begins(Pop(s), op)) /\ UNCHANGED idle /\ Frame
    BY <1>7, Zenon DEF OnConnect, OnTls, Runs, Popped, Pop
  <2>2. CallInv(c, Begins(Pop(s), op))
    BY <1>0, <2>1, OnwardInv
  <2> QED BY <1>k, <2>1, <2>2, UpdateKeeps
<1>8. ASSUME OnConnectNoSni(c) PROVE CallsOK' /\ Kept' /\ Frame
  <2>1. /\ s.strand # <<>> /\ t.op = "connect"
        /\ Update(c, finish(Pop(s), "error")) /\ UNCHANGED idle /\ Frame
    BY <1>8, Zenon DEF OnConnectNoSni, Runs, Popped, Pop
  <2>2. CallInv(c, finish(Pop(s), "error"))
    BY <1>0, <2>1, FinishInv
  <2> QED BY <1>k, <2>1, <2>2, UpdateKeeps
<1>9. ASSUME OnWrite(c) PROVE CallsOK' /\ Kept' /\ Frame
  <2> DEFINE r == Begins([Pop(s) EXCEPT !.got = FALSE], "read")
  <2>1. /\ s.strand # <<>> /\ t.op = "write" /\ t.arg \in {"more", "done"}
        /\ Update(c, IF t.arg = "more" THEN Begins(Pop(s), "write") ELSE r)
        /\ UNCHANGED idle /\ Frame
    BY <1>9, Zenon DEF OnWrite, Runs, Popped, Pop, Arg
  <2>2. t.arg = "more" => CallInv(c, Begins(Pop(s), "write"))
    BY <1>0, <2>1, OnwardInv
  <2>3. t.arg = "done" => CallInv(c, r)
    BY <1>0, <2>1, OnwardInv
  <2> HIDE DEF r
  <2>4. CallInv(c, IF t.arg = "more" THEN Begins(Pop(s), "write") ELSE r)
    BY <2>1, <2>2, <2>3
  <2> QED BY <1>k, <2>1, <2>4, UpdateKeeps
<1>10. ASSUME OnRead(c) PROVE CallsOK' /\ Kept' /\ Frame
  <2>1. /\ s.strand # <<>> /\ t.op = "read" /\ t.arg = "more"
        /\ Update(c, Begins(Pop(s), "read")) /\ UNCHANGED idle /\ Frame
    BY <1>10, Zenon DEF OnRead, Runs, Popped, Pop, Arg
  <2>2. CallInv(c, Begins(Pop(s), "read"))
    BY <1>0, <2>1, OnwardInv
  <2> QED BY <1>k, <2>1, <2>2, UpdateKeeps
<1>11. ASSUME Succeed(c) PROVE CallsOK' /\ Kept' /\ Frame
  <2>1. /\ s.strand # <<>> /\ t.op = "read" /\ t.arg \in {"keep", "close"}
        /\ IF keeps(s, t.arg) THEN putIdle(s.conn) ELSE UNCHANGED idle
        /\ Update(c, finish(Pop(s), "response")) /\ Frame
    BY <1>11, Zenon DEF Succeed, Runs, Popped, Pop, Arg
  <2>2. Stage(c, s, "read", t.arg)
    BY <1>0, <2>1, RunsTask
  <2>3. /\ s.from = {c} /\ s.conn \in Links /\ s.conn.owed = <<>>
        /\ s.aborted = FALSE => s.conn.open = TRUE
    BY <2>1, <2>2 DEF Stage, Written, Read
  <2>4. CallInv(c, finish(Pop(s), "response"))
    BY <1>0, <2>1, <2>3, FinishInv
  <2>5. Kept'
    <3>1. CASE keeps(s, t.arg)
      <4>1. s.aborted = FALSE BY <1>0, <3>1 DEF keeps, States
      <4>2. s.conn \in Usable BY <2>3, <4>1 DEF Usable
      <4> QED BY <2>1, <3>1, <4>2, PutKept
    <3>2. CASE ~keeps(s, t.arg) BY <1>k, <2>1, <3>2
    <3> QED BY <3>1, <3>2
  <2> QED BY <2>1, <2>4, <2>5, UpdateKeeps
<1>12. ASSUME CallbackReturns(c) PROVE CallsOK' /\ Kept' /\ Frame
  <2> DEFINE r == [s EXCEPT !.at = "done"]
  <2>1. s.at = "callback" /\ Update(c, r) /\ UNCHANGED idle /\ Frame
    BY <1>12, Zenon DEF CallbackReturns, NetworkFrame
  <2>2. Resting(s) /\ Finished(c, s)
    BY <1>0, <2>1 DEF CallInv
  <2> HIDE DEF s
  <2>3. /\ r \in States /\ r.at = "done" /\ r.ops = s.ops /\ r.strand = s.strand
        /\ r.result = s.result /\ r.sent = s.sent /\ r.method = s.method /\ r.from = s.from
    BY <1>0 DEF States
  <2> HIDE DEF r
  <2>4. Resting(r) /\ Finished(c, r) /\ Typed(c, r)
    BY <1>0, <2>2, <2>3 DEF Resting, Finished, Limit, CallInv, Typed
  <2>5. CallInv(c, r)
    BY <2>3, <2>4 DEF CallInv
  <2> QED BY <1>k, <2>1, <2>5, UpdateKeeps
<1> QED BY <1>1, <1>2, <1>3, <1>4, <1>5, <1>6, <1>7, <1>8, <1>9, <1>10, <1>11, <1>12
        DEF Handlers

\* send(), cancel() and ~HttpClient(), on other threads.
LEMMA OthersKeep ==
    ASSUME CallsOK, NEW c \in Calls,
           \/ \E method \in Requests[c] : Register(c, method)
           \/ Dispatch(c) \/ Cancel(c) \/ DestroyAborts(c)
    PROVE  CallsOK'
<1> DEFINE s == call[c]
<1>0. CallInv(c, s) /\ s \in States
  BY DEF CallsOK, CallInv, Typed
<1>1. ASSUME NEW method \in Requests[c], Register(c, method) PROVE CallsOK'
  <2> DEFINE a == IF closed THEN "refused" ELSE "registered"
             r == [s EXCEPT !.at = a, !.method = method]
  <2>1. s.at = "unused" /\ Update(c, r)
    BY <1>1, Zenon DEF Register
  <2>2. method \in {"get", "post", "bad_url"}
    BY HttpClientAssumption
  <2>3. Resting(s) /\ Unstarted(s)
    BY <1>0, <2>1 DEF CallInv
  <2>4. a \in {"refused", "registered"}
    OBVIOUS
  <2> HIDE DEF s, a
  <2>5. /\ r \in States /\ r.at = a /\ r.method = method
        /\ r.ops = s.ops /\ r.strand = s.strand /\ r.result = s.result /\ r.conn = s.conn
        /\ r.sent = s.sent /\ r.from = s.from /\ r.retried = s.retried
    BY <1>0, <2>2, <2>4 DEF States
  <2> HIDE DEF r
  <2>6. Resting(r) /\ Unstarted(r) /\ Typed(c, r)
    BY <2>3, <2>5 DEF Resting, Unstarted, Typed
  <2>7. CallInv(c, r)
    BY <2>4, <2>5, <2>6 DEF CallInv
  <2> QED BY <2>1, <2>7, UpdateKeeps
<1>2. ASSUME Dispatch(c) PROVE CallsOK'
  <2> DEFINE op == IF s.at = "refused" THEN "refuse" ELSE "begin"
             t == Task(op, "none")
             r == Post([s EXCEPT !.at = "running"], t)
  <2>1. s.at \in {"registered", "refused"} /\ Update(c, r)
    BY <1>2, Zenon DEF Dispatch
  <2>2. Resting(s) /\ Unstarted(s)
    BY <1>0, <2>1 DEF CallInv
  <2>3. op \in {"refuse", "begin"} /\ "none" \in Args
    BY DEF Args
  <2> HIDE DEF op
  <2>4. t \in Moving /\ t.op = op /\ t.arg = "none"
    BY <2>3, TaskFacts
  <2>5. s.strand \in Seq(Tasks) /\ Quiet(s.strand) /\ s.ops = {}
    BY <1>0, <2>2 DEF States, Resting
  <2> HIDE DEF s, t
  <2>6. Append(s.strand, t) \in Seq(Tasks) /\ Only(Append(s.strand, t), t)
    BY <2>4, <2>5, PostTask
  <2>7. /\ r \in States /\ r.at = "running" /\ r.strand = Append(s.strand, t)
        /\ r.ops = s.ops /\ r.result = s.result /\ r.conn = s.conn /\ r.method = s.method
        /\ r.sent = s.sent /\ r.from = s.from /\ r.retried = s.retried
    BY <1>0, <2>6 DEF States, Post
  <2> HIDE DEF r
  <2>8. Unstarted(r) /\ r.result = "none"
    BY <2>2, <2>7 DEF Unstarted
  <2>9. Stage(c, r, op, "none")
    BY <2>3, <2>8 DEF Stage, Unstarted, Written, Read, Tried
  <2>10. Queued(c, r, t)
    BY <2>3, <2>4, <2>5, <2>6, <2>7, <2>9 DEF Queued, Ops
  <2>11. Typed(c, r)
    BY <1>0, <2>7 DEF CallInv, Typed
  <2>12. CallInv(c, r)
    BY <2>4, <2>7, <2>8, <2>10, <2>11 DEF CallInv
  <2> QED BY <2>1, <2>12, UpdateKeeps
<1>3. ASSUME Cancel(c) \/ DestroyAborts(c) PROVE CallsOK'
  <2>1. Update(c, Post(s, AbortTask))
    BY <1>3, Zenon DEF Cancel, DestroyAborts, AbortTask
  <2>2. s.deadline \in BOOLEAN /\ s = [s EXCEPT !.deadline = s.deadline]
    <3> HIDE DEF s
    <3> QED BY <1>0 DEF States
  <2>3. CallInv(c, Post([s EXCEPT !.deadline = s.deadline], AbortTask))
    BY <1>0, <2>2, PostAbortInv
  <2>4. CallInv(c, Post(s, AbortTask))
    BY <2>2, <2>3
  <2> QED BY <2>1, <2>4, UpdateKeeps
<1> QED BY <1>1, <1>2, <1>3

\* Every step keeps the invariant.
LEMMA IInvNext == IInv /\ [Next]_vars => IInv'
<1> SUFFICES ASSUME IInv, [Next]_vars PROVE IInv'
  OBVIOUS
<1>0. CallsOK /\ Kept /\ Client
  BY DEF IInv, CallsOK
<1>s. CallsOK' /\ Kept' /\ Client' => IInv'
  BY DEF IInv, CallsOK
<1>k. UNCHANGED <<idle, closed>> => Kept'
  BY <1>0 DEF Kept
<1>c. UNCHANGED call => CallsOK'
  BY <1>0 DEF CallsOK
<1>f. UNCHANGED <<tls, closed, destroyer, in_flight>> => Client'
  BY <1>0 DEF Client
<1>1. ASSUME NEW c \in Calls, Network(c) PROVE IInv'
  <2>1. CallsOK' /\ NetworkFrame BY <1>0, <1>1, NetworkKeeps
  <2> QED BY <1>s, <1>k, <1>f, <2>1 DEF NetworkFrame
<1>2. ASSUME NEW c \in Calls, Handlers(c) PROVE IInv'
  <2>1. CallsOK' /\ Kept' /\ UNCHANGED <<tls, closed, destroyer, in_flight>>
    BY <1>0, <1>2, HandlerKeeps
  <2> QED BY <1>s, <1>f, <2>1
<1>3. ASSUME NEW c \in Calls,
             (\E method \in Requests[c] : Register(c, method)) \/ Dispatch(c) \/ Cancel(c)
      PROVE  IInv'
  <2>1. CallsOK' BY <1>0, <1>3, OthersKeep
  <2>2. NetworkFrame BY <1>3 DEF Register, Dispatch, Cancel
  <2> QED BY <1>s, <1>k, <1>f, <2>1, <2>2 DEF NetworkFrame
<1>4. ASSUME NEW c \in Calls, DestroyAborts(c) PROVE IInv'
  <2>1. CallsOK' BY <1>0, <1>4, OthersKeep
  <2>2. in_flight' = in_flight \ {c} /\ UNCHANGED <<tls, idle, closed, destroyer>>
    BY <1>4 DEF DestroyAborts
  <2>3. Client' BY <1>0, <2>2 DEF Client
  <2> QED BY <1>s, <1>k, <2>1, <2>2, <2>3
<1>5. ASSUME NEW i \in DOMAIN idle, PeerClosesIdle(i) PROVE IInv'
  <2> DEFINE l == [idle[i] EXCEPT !.peer = FALSE]
  <2>1. /\ idle' = [idle EXCEPT ![i] = l]
        /\ UNCHANGED <<tls, call, closed, destroyer, in_flight>>
    BY <1>5 DEF PeerClosesIdle
  <2>2. idle \in Seq(Usable) /\ i \in 1 .. Len(idle) /\ idle[i] \in Usable /\ Len(idle) \in Nat
    BY <1>0 DEF Kept
  <2>3. l \in Usable
    BY <2>2 DEF Usable, Links
  <2> HIDE DEF l
  <2>4. idle' \in Seq(Usable) /\ Len(idle') = Len(idle)
    BY <2>1, <2>2, <2>3
  <2>5. idle # <<>>
    BY <2>2
  <2>6. Kept'
    BY <1>0, <2>1, <2>4, <2>5 DEF Kept
  <2> QED BY <1>s, <1>c, <1>f, <2>1, <2>6
<1>6. CASE Destroy
  <2>1. /\ destroyer' = "aborting" /\ closed' = TRUE /\ idle' = <<>> /\ in_flight' \subseteq Calls
        /\ UNCHANGED <<tls, call>>
    BY <1>6 DEF Destroy
  <2>2. Kept' BY <2>1, HttpClientAssumption DEF Kept
  <2>3. Client' BY <1>0, <2>1 DEF Client
  <2> QED BY <1>s, <1>c, <2>1, <2>2, <2>3
<1>7. CASE DestroyResets \/ DestroyJoins
  <2>1. destroyer' \in {"joining", "done"} /\ UNCHANGED <<tls, call, idle, closed, in_flight>>
    BY <1>7 DEF DestroyResets, DestroyJoins
  <2>2. Client' BY <1>0, <2>1 DEF Client
  <2> QED BY <1>s, <1>c, <1>k, <2>1, <2>2
<1>8. CASE UNCHANGED vars
  <2>1. UNCHANGED call /\ UNCHANGED <<idle, closed>> /\ UNCHANGED <<tls, closed, destroyer, in_flight>>
    BY <1>8 DEF vars
  <2> QED BY <1>s, <1>c, <1>k, <1>f, <2>1
<1>9. CASE Destroyed
  BY <1>8, <1>9 DEF Destroyed
<1> QED BY <1>1, <1>2, <1>3, <1>4, <1>5, <1>6, <1>7, <1>8, <1>9 DEF Next, Destruction

(***************************************************************************)
(* The properties                                                          *)
(***************************************************************************)
\* What was sent of a call, and whose answer it read.
LEMMA SentAndRead ==
    ASSUME NEW c \in Calls, NEW s, CallInv(c, s)
    PROVE  /\ s \in States /\ s.sent <= Limit(s) /\ s.from \subseteq {c}
           /\ s.result = "response" => s.from = {c}
<1>0. s \in States /\ s.sent \in Nat
  BY DEF CallInv, Typed, States
<1>1. ASSUME NEW op, NEW arg, Stage(c, s, op, arg), s.result = "none"
      PROVE  /\ s.sent <= Limit(s) /\ s.from \subseteq {c}
             /\ s.result = "response" => s.from = {c}
  <2>1. s.sent <= Tried(s) + IF Written(op, arg) THEN 1 ELSE 0
    BY <1>1 DEF Stage
  <2>2. s.sent <= Limit(s)
    BY <1>0, <2>1 DEF Tried, Limit
  <2>3. s.from \subseteq {c}
    BY <1>1 DEF Stage
  <2> QED BY <1>1, <2>2, <2>3
<1>2. CASE Unstarted(s)
  BY <1>0, <1>2 DEF Unstarted, Limit
<1>3. CASE s.result = "none" /\ \E op \in Ops : Waiting(c, s, op)
  BY <1>0, <1>1, <1>3 DEF Waiting
<1>4. CASE s.result = "none" /\ \E t \in Moving : Queued(c, s, t)
  BY <1>0, <1>1, <1>4 DEF Queued
<1>5. CASE Finished(c, s)
  BY <1>0, <1>5 DEF Finished
<1> QED BY <1>2, <1>3, <1>4, <1>5 DEF CallInv

\* Every variable has its type, and no call is sent more than twice.
THEOREM TypeCorrect == Spec => []TypeOK
<1>1. IInv => TypeOK
  <2> SUFFICES ASSUME IInv PROVE TypeOK
    OBVIOUS
  <2>1. ASSUME NEW c \in Calls
        PROVE  LET s == call[c]
               IN  /\ DOMAIN s = DOMAIN Fresh
                   /\ s.at \in {"unused", "registered", "refused", "running", "callback", "done"}
                   /\ s.method \in Requests[c] \cup {"get"}
                   /\ s.ops \subseteq Ops
                   /\ s.conn = NoConn \/ s.conn \in Links
                   /\ {s.deadline, s.reused, s.retried, s.got, s.aborted} \subseteq BOOLEAN
                   /\ s.result \in {"none", "error", "response"}
                   /\ s.sent \in 0 .. 2
    <3> DEFINE s == call[c]
    <3>1. CallInv(c, s) BY DEF IInv
    <3>2. s \in States /\ s.method \in Requests[c] \cup {"get"} /\ s.sent <= Limit(s)
      BY <3>1, SentAndRead DEF CallInv, Typed
    <3> HIDE DEF s
    <3>3. DOMAIN s = DOMAIN Fresh BY <3>2 DEF States, Fresh
    <3>4. s.sent \in 0 .. 2 BY <3>2 DEF States, Limit
    <3>5. {s.deadline, s.reused, s.retried, s.got, s.aborted} \subseteq BOOLEAN
      BY <3>2 DEF States
    <3>6. /\ s.at \in {"unused", "registered", "refused", "running", "callback", "done"}
          /\ s.ops \subseteq Ops /\ (s.conn = NoConn \/ s.conn \in Links)
          /\ s.result \in {"none", "error", "response"}
      BY <3>2 DEF States
    <3> QED BY <3>2, <3>3, <3>4, <3>5, <3>6 DEF s
  <2>2. idle \in Seq(Links)
    <3>1. idle \in Seq(Usable) /\ Usable \subseteq Links BY DEF IInv, Kept, Usable
    <3> QED BY <3>1
  <2>3. Client BY DEF IInv
  <2> QED BY <2>1, <2>2, <2>3 DEF TypeOK, Client
<1> QED BY <1>1, IInvInit, IInvNext, PTL DEF Spec

\* A request that is not idempotent goes out completely once at most, the others
\* twice at most, whenever a kept alive connection turns out closed (fail()).
THEOREM SentAtMostOnce == Spec => []AtMostOnce
<1>1. IInv => AtMostOnce
  BY SentAndRead DEF IInv, AtMostOnce, Limit
<1> QED BY <1>1, IInvInit, IInvNext, PTL DEF Spec

\* Every response is the answer to its own request, and the connections kept alive
\* are open, owe nothing and are no more than allowed (succeed(), putIdle()).
THEOREM AnswersAreOwn == Spec => []OwnAnswer
<1>1. IInv => OwnAnswer
  <2> SUFFICES ASSUME IInv PROVE OwnAnswer
    OBVIOUS
  <2>1. \A c \in Calls : /\ call[c].from \subseteq {c}
                         /\ call[c].result = "response" => call[c].from = {c}
    BY SentAndRead DEF IInv
  <2>2. idle \in Seq(Usable) /\ Len(idle) \in Nat /\ DOMAIN idle = 1 .. Len(idle)
    BY DEF IInv, Kept
  <2>3. \A i \in DOMAIN idle : idle[i] \in Usable
    BY <2>2
  <2>4. \A i \in DOMAIN idle : idle[i].open /\ idle[i].owed = <<>>
    BY <2>3 DEF Usable
  <2>5. Len(idle) <= IF closed THEN 0 ELSE max_idle_per_host
    BY DEF IInv, Kept, Client
  <2> QED BY <2>1, <2>4, <2>5 DEF OwnAnswer
<1> QED BY <1>1, IInvInit, IInvNext, PTL DEF Spec

\* A call that runs waits for exactly one thing that takes it further and is
\* bounded by its deadline or an abort; a completed one waits for none (begin(),
\* fail(), finish()).
THEOREM NoCallForgotten == Spec => []OneContinuation
<1>1. IInv => OneContinuation
  <2> SUFFICES ASSUME IInv, NEW c \in Calls
               PROVE  LET s == call[c]
                          queued == {i \in DOMAIN s.strand : s.strand[i].op # "abort"}
                      IN  /\ Cardinality(s.ops) + Cardinality(queued)
                                 = IF s.at = "running" THEN 1 ELSE 0
                          /\ s.ops # {} => \/ s.deadline \/ s.aborted
                                           \/ Task("abort", "none") \in Range(s.strand)
    BY Zenon DEF OneContinuation
  <2> DEFINE s == call[c]
             queued == {i \in DOMAIN s.strand : s.strand[i].op # "abort"}
  <2>1. CallInv(c, s) /\ s \in States BY DEF IInv, CallInv, Typed
  <2>2. s.strand \in Seq(Tasks) /\ DOMAIN s.strand = 1 .. Len(s.strand)
    <3>1. s.strand \in Seq(Tasks) BY <2>1 DEF States
    <3> QED BY <3>1
  <2>3. Cardinality({}) = 0 /\ \A x : Cardinality({x}) = 1
    BY FS_EmptySet, FS_Singleton
  <2> HIDE DEF s
  <2>4. Quiet(s.strand) => queued = {}
    BY <2>2, TaskFacts DEF Quiet, AllIn
  <2>5. ASSUME NEW t \in Moving, Only(s.strand, t) PROVE \E k : queued = {k}
    <3>1. PICK k \in 1 .. Len(s.strand) :
              s.strand[k] = t /\ \A i \in 1 .. Len(s.strand) : i # k => s.strand[i] = AbortTask
      BY <2>5 DEF Only, OneBut
    <3>2. t.op # "abort" /\ AbortTask.op = "abort" BY TaskFacts
    <3>3. queued = {k} BY <2>2, <3>1, <3>2
    <3> QED BY <3>3
  <2> HIDE DEF queued
  <2>6. Cardinality(s.ops) + Cardinality(queued) = IF s.at = "running" THEN 1 ELSE 0
    <3>1. CASE s.at # "running" /\ Resting(s)
      BY <2>3, <2>4, <3>1 DEF Resting
    <3>2. CASE s.at = "running" /\ \E op \in Ops : Waiting(c, s, op)
      <4>1. PICK op \in Ops : s.ops = {op} /\ Quiet(s.strand) BY <3>2 DEF Waiting
      <4> QED BY <2>3, <2>4, <3>2, <4>1
    <3>3. CASE s.at = "running" /\ \E t \in Moving : Queued(c, s, t)
      <4>1. PICK t \in Moving : s.ops = {} /\ Only(s.strand, t) BY <3>3 DEF Queued
      <4>2. PICK k : queued = {k} BY <2>5, <4>1
      <4>3. Cardinality(queued) = 1 BY <2>3, <4>2
      <4>4. Cardinality(s.ops) = 0 BY <2>3, <4>1
      <4> QED BY <3>3, <4>3, <4>4
    <3> QED BY <2>1, <3>1, <3>2, <3>3 DEF CallInv
  <2>7. ASSUME s.ops # {}
        PROVE  s.deadline \/ s.aborted \/ Task("abort", "none") \in Range(s.strand)
    <3>1. PICK op \in s.ops : TRUE BY <2>7
    <3>2. Bounded(s) BY <2>1, <3>1, WaitsFor DEF Waiting
    <3> QED BY <2>2, <3>2 DEF Bounded, AbortTask, Range
  <2> QED BY <2>6, <2>7 DEF s, queued
<1> QED BY <1>1, IInvInit, IInvNext, PTL DEF Spec

=============================================================================
